----------------------------- MODULE SummaryProofs -----------------------------
(***************************************************************************)
(* How the agent's summary is read, for any number of mishaps, whatever    *)
(* the agents may mean to say and whatever the reports mention: what the   *)
(* line-by-line reader finds in a block, that an accepted summary says     *)
(* what was meant, that one cut off is not accepted, and that every        *)
(* decision can be routed.                                                 *)
(***************************************************************************)
EXTENDS SummaryValidator, WellFoundedInduction, FiniteSetTheorems, SequenceTheorems, TLAPS

(* A non-empty set of natural numbers has a least member.                  *)
LEMMA Least ==
  ASSUME NEW T \in SUBSET Nat, T # {}
  PROVE  \E x \in T : \A y \in T : x <= y
<1> DEFINE R == OpToRel(<, Nat)
<1>1. IsWellFoundedOn(R, Nat)
  BY NatLessThanWellFounded
<1>2. \E x \in T : \A y \in T : ~ (<<y, x>> \in R)
  <2> HIDE DEF R
  <2> QED BY <1>1, WFMin
<1>3. \A x, y \in Nat : y < x => <<y, x>> \in R
  BY SMT DEF OpToRel
<1>4. \A x, y \in T : x <= y \/ y < x
  BY SMT
<1> HIDE DEF R
<1> QED BY <1>2, <1>3, <1>4

(* Induction up to a bound, over a set.                                    *)
LEMMA Induction ==
  ASSUME NEW N \in Nat, NEW T, 0 \in T, \A k \in 0..N : k + 1 \in 0..N /\ k \in T => k + 1 \in T
  PROVE  0..N \subseteq T
<1> DEFINE Rest == (0..N) \ T
<1> SUFFICES ASSUME Rest # {} PROVE FALSE
  OBVIOUS
<1>1. PICK m \in Rest : \A k \in Rest : m <= k
  <2>1. Rest \in SUBSET Nat
    OBVIOUS
  <2> HIDE DEF Rest
  <2> QED BY <2>1, Least
<1>2. m # 0 /\ m - 1 \in 0..N /\ m - 1 + 1 = m
  BY <1>1
<1>3. m - 1 \in T
  BY <1>1, <1>2
<1> QED BY <1>1, <1>2, <1>3

(* A loop over the places 1..N: there is a function that goes from state   *)
(* to state as its steps say.                                              *)
LEMMA LoopExists ==
  ASSUME NEW S, NEW first \in S, NEW N \in Nat, NEW step \in [1..N -> [S -> S]]
  PROVE  \E s \in [0..N -> S] : s[0] = first /\ \A n \in 1..N : s[n] = step[n][s[n - 1]]
<1> DEFINE Runs(s, k) == s[0] = first /\ \A n \in 1..k : s[n] = step[n][s[n - 1]]
           T == {k \in 0..N : \E s \in [0..k -> S] : Runs(s, k)}
<1>1. 0 \in T
  <2> DEFINE s == [n \in 0..0 |-> first]
  <2>1. s \in [0..0 -> S] /\ Runs(s, 0)
    OBVIOUS
  <2> HIDE DEF s, Runs
  <2> QED BY <2>1
<1>2. ASSUME NEW k \in 0..N, k + 1 \in 0..N, k \in T
      PROVE  k + 1 \in T
  <2>1. PICK s \in [0..k -> S] : Runs(s, k)
    BY <1>2
  <2> DEFINE more == [n \in 0..(k + 1) |-> IF n = k + 1 THEN step[k + 1][s[k]] ELSE s[n]]
  <2>2. more \in [0..(k + 1) -> S]
    <3>1. s[k] \in S /\ step[k + 1] \in [S -> S]
      BY <1>2
    <3>2. \A n \in 0..(k + 1) : n # k + 1 => n \in 0..k
      BY <1>2
    <3> QED BY <3>1, <3>2
  <2>3. more[0] = first
    BY <2>1
  <2>4. ASSUME NEW n \in 1..(k + 1)
        PROVE  more[n] = step[n][more[n - 1]]
    <3>1. CASE n = k + 1
      BY <3>1
    <3>2. CASE n # k + 1
      <4>1. n \in 1..k /\ n - 1 \in 0..k /\ n - 1 # k + 1
        BY <3>2
      <4> QED BY <2>1, <3>2, <4>1
    <3> QED BY <3>1, <3>2
  <2> HIDE DEF more
  <2> QED BY <1>2, <2>2, <2>3, <2>4
<1>3. N \in T
  <2> HIDE DEF T
  <2>1. 0..N \subseteq T
    BY <1>1, <1>2, Induction
  <2> QED BY <2>1
<1> QED BY <1>3

-------------------------------------------------------------------------------
(* Lines, and what the reader knows of them.                               *)
Kinds == {"field", "bullet", "begin", "end", "blank", "remark", "next_role", "json"}
Values ==
  {"", "none", "b1", "b2", "completed", "blocked", "coder", "reviewer", "primary", "yes", "no",
   "HIGH", "NONE", "PASS", "BLOCKER", "...", "?"}
Lines ==
  {l \in [kind : Kinds, key : _REQUIRED_FIELDS \cup {""}, value : Values] :
     l.key \in _REQUIRED_FIELDS <=> l.kind = "field"}
ReadStates ==
  [fields : [_REQUIRED_FIELDS -> Values \cup {Absent}], blockers : Seq(Values),
   in_blockers : BOOLEAN]

(* What one line changes.                                                  *)
LEMMA ReadLineIs ==
  ASSUME NEW r \in ReadStates, NEW l \in Lines
  PROVE  /\ ReadLine(r, l) \in ReadStates
         /\ ReadLine(r, l).fields =
              IF l.kind = "field" THEN [r.fields EXCEPT ![l.key] = l.value] ELSE r.fields
         /\ ReadLine(r, l).blockers =
              IF l.kind = "bullet" /\ r.in_blockers THEN Append(r.blockers, l.value)
              ELSE r.blockers
         /\ ReadLine(r, l).in_blockers <=>
              \/ l.kind = "field" /\ l.key = "BLOCKERS"
              \/ l.kind \in {"bullet", "blank"} /\ r.in_blockers
<1>1. /\ l.kind \in Kinds /\ l.value \in Values /\ (l.kind = "field" => l.key \in _REQUIRED_FIELDS)
      /\ r.fields \in [_REQUIRED_FIELDS -> Values \cup {Absent}] /\ r.blockers \in Seq(Values)
      /\ r.in_blockers \in BOOLEAN
  BY DEF Lines, ReadStates
<1>2. CASE l.kind = "blank"
  BY <1>1, <1>2 DEF ReadLine
<1>3. CASE l.kind = "bullet"
  <2>1. CASE r.in_blockers
    <3>1. ReadLine(r, l) = [r EXCEPT !.blockers = Append(@, l.value)]
      BY <1>3, <2>1 DEF ReadLine
    <3>2. Append(r.blockers, l.value) \in Seq(Values)
      BY <1>1
    <3> QED BY <1>1, <1>3, <2>1, <3>1, <3>2 DEF ReadStates
  <2>2. CASE ~r.in_blockers
    BY <1>1, <1>3, <2>2 DEF ReadLine
  <2> QED BY <2>1, <2>2
<1>4. CASE l.kind = "field"
  <2>1. ReadLine(r, l) = [r EXCEPT !.fields[l.key] = l.value, !.in_blockers = l.key = "BLOCKERS"]
    BY <1>4 DEF ReadLine
  <2>2. [r.fields EXCEPT ![l.key] = l.value] \in [_REQUIRED_FIELDS -> Values \cup {Absent}]
    BY <1>1
  <2>3. ReadLine(r, l) =
          [r EXCEPT !.fields = [r.fields EXCEPT ![l.key] = l.value],
                    !.in_blockers = l.key = "BLOCKERS"]
    BY <2>1, Zenon
  <2> QED BY <1>1, <1>4, <2>2, <2>3 DEF ReadStates
<1>5. CASE l.kind \notin {"blank", "bullet", "field"}
  <2>1. ReadLine(r, l) = [r EXCEPT !.in_blockers = FALSE]
    BY <1>5 DEF ReadLine
  <2> QED BY <1>1, <1>5, <2>1 DEF ReadStates
<1> QED BY <1>2, <1>3, <1>4, <1>5

(* The reader goes line by line from NothingRead to what it has read.      *)
LEMMA ReadsLineByLine ==
  ASSUME NEW lines \in Seq(Lines)
  PROVE  \E read \in [0..Len(lines) -> ReadStates] :
           /\ read[0] = NothingRead
           /\ \A n \in 1..Len(lines) : read[n] = ReadLine(read[n - 1], lines[n])
           /\ ReadLines(lines) = read[Len(lines)]
<1> DEFINE N == Len(lines)
           step == [n \in 1..N |-> [r \in ReadStates |-> ReadLine(r, lines[n])]]
           Reading(read) ==
             read = [n \in 0..N |-> IF n = 0 THEN NothingRead
                                    ELSE ReadLine(read[n - 1], lines[n])]
<1>1. N \in Nat /\ \A n \in 1..N : lines[n] \in Lines
  OBVIOUS
<1>2. NothingRead \in ReadStates
  <2>1. [key \in _REQUIRED_FIELDS |-> Absent] \in [_REQUIRED_FIELDS -> Values \cup {Absent}]
    OBVIOUS
  <2>2. <<>> \in Seq(Values)
    OBVIOUS
  <2> QED BY <2>1, <2>2 DEF NothingRead, ReadStates
<1>3. step \in [1..N -> [ReadStates -> ReadStates]]
  BY <1>1, ReadLineIs
<1>4. PICK s \in [0..N -> ReadStates] :
        s[0] = NothingRead /\ \A n \in 1..N : s[n] = step[n][s[n - 1]]
  <2> HIDE DEF N, step
  <2>1. N \in Nat
    BY <1>1
  <2>2. \A first \in ReadStates :
          \E s \in [0..N -> ReadStates] :
            s[0] = first /\ \A n \in 1..N : s[n] = step[n][s[n - 1]]
    BY ONLY <1>3, <2>1, LoopExists
  <2> QED BY <1>2, <2>2
<1>5. Reading(s)
  <2>1. ASSUME NEW n \in 0..N
        PROVE  s[n] = IF n = 0 THEN NothingRead ELSE ReadLine(s[n - 1], lines[n])
    <3>1. CASE n = 0
      BY <1>4, <3>1
    <3>2. CASE n # 0
      <4>1. n \in 1..N /\ n - 1 \in 0..N
        BY <1>1, <3>2
      <4> QED BY <1>4, <3>2, <4>1
    <3> QED BY <3>1, <3>2
  <2> HIDE DEF N
  <2> QED BY <1>4, <2>1
<1>6. \E read : Reading(read)
  BY <1>5
<1> DEFINE read == CHOOSE read : Reading(read)
<1>7. Reading(read)
  BY <1>6
<1>8. ReadLines(lines) = read[N]
  BY DEF ReadLines
<1> HIDE DEF read
<1>9. DOMAIN read = 0..N /\ read[0] = NothingRead
      /\ \A n \in 1..N : read[n] = ReadLine(read[n - 1], lines[n])
  <2>1. /\ DOMAIN read = 0..N
        /\ \A n \in 0..N : read[n] = IF n = 0 THEN NothingRead
                                     ELSE ReadLine(read[n - 1], lines[n])
    BY <1>7
  <2>2. 0 \in 0..N /\ \A n \in 1..N : n \in 0..N /\ n # 0
    BY <1>1
  <2> HIDE DEF N, Reading
  <2> QED BY <2>1, <2>2
<1>10. read \in [0..N -> ReadStates]
  <2> DEFINE T == {n \in 0..N : read[n] \in ReadStates}
  <2>1. 0 \in T
    BY <1>1, <1>2, <1>9
  <2>2. ASSUME NEW k \in 0..N, k + 1 \in 0..N, k \in T
        PROVE  k + 1 \in T
    <3>1. k + 1 \in 1..N /\ k + 1 - 1 = k
      BY <1>1, <2>2
    <3>2. read[k + 1] = ReadLine(read[k], lines[k + 1])
      <4> HIDE DEF N, T
      <4> QED BY <1>9, <3>1
    <3> QED BY <1>1, <2>2, <3>1, <3>2, ReadLineIs
  <2>3. 0..N \subseteq T
    <3> HIDE DEF N, T
    <3> QED BY <1>1, <2>1, <2>2, Induction
  <2>4. read = [n \in 0..N |-> read[n]]
    BY <1>7
  <2> HIDE DEF N, Reading
  <2> QED BY <2>3, <2>4
<1> HIDE DEF Reading
<1> QED BY <1>8, <1>9, <1>10

-------------------------------------------------------------------------------
(* What has been read after k lines: of each field the last value among    *)
(* them; whether bullets are blockers, namely if a BLOCKERS line is        *)
(* followed by nothing but bullets and blanks; and the blockers, one for   *)
(* each bullet that stands so, in their order.                             *)
FieldsTo(lines, key, k) == {n \in 1..k : lines[n].kind = "field" /\ lines[n].key = key}
Headed(lines, k) ==
  \E m \in FieldsTo(lines, "BLOCKERS", k) :
    \A j \in (m + 1)..k : lines[j].kind \in {"bullet", "blank"}
UnderTo(lines, k) == {n \in 1..k : lines[n].kind = "bullet" /\ Headed(lines, n)}

LastValues(lines, fields, k) ==
  \A key \in _REQUIRED_FIELDS :
    IF FieldsTo(lines, key, k) = {} THEN fields[key] = Absent
    ELSE \E n \in FieldsTo(lines, key, k) :
           /\ fields[key] = lines[n].value
           /\ \A m \in FieldsTo(lines, key, k) : m <= n
InOrder(lines, blockers, k) ==
  /\ Len(blockers) = Cardinality(UnderTo(lines, k))
  /\ \A n \in UnderTo(lines, k) : blockers[Cardinality(UnderTo(lines, n))] = lines[n].value
  /\ \A i \in 1..Len(blockers) : \E n \in UnderTo(lines, k) : blockers[i] = lines[n].value
ReadSoFar(lines, r, k) ==
  /\ LastValues(lines, r.fields, k)
  /\ r.in_blockers <=> Headed(lines, k)
  /\ InOrder(lines, r.blockers, k)

(* The places up to the next one.                                          *)
LEMMA NextPlace ==
  ASSUME NEW lines, NEW k \in Nat
  PROVE  /\ \A key : FieldsTo(lines, key, k + 1) =
              FieldsTo(lines, key, k)
                \cup (IF lines[k + 1].kind = "field" /\ lines[k + 1].key = key THEN {k + 1} ELSE {})
         /\ Headed(lines, k + 1) <=>
              \/ lines[k + 1].kind = "field" /\ lines[k + 1].key = "BLOCKERS"
              \/ lines[k + 1].kind \in {"bullet", "blank"} /\ Headed(lines, k)
         /\ UnderTo(lines, k + 1) =
              UnderTo(lines, k)
                \cup (IF lines[k + 1].kind = "bullet" /\ Headed(lines, k + 1) THEN {k + 1} ELSE {})
<1>1. 1..(k + 1) = (1..k) \cup {k + 1}
  OBVIOUS
<1>2. \A key : FieldsTo(lines, key, k + 1) =
              FieldsTo(lines, key, k)
                \cup (IF lines[k + 1].kind = "field" /\ lines[k + 1].key = key THEN {k + 1} ELSE {})
  BY <1>1 DEF FieldsTo
<1>3. UnderTo(lines, k + 1) =
        UnderTo(lines, k)
          \cup (IF lines[k + 1].kind = "bullet" /\ Headed(lines, k + 1) THEN {k + 1} ELSE {})
  BY <1>1 DEF UnderTo
<1>4. ASSUME lines[k + 1].kind = "field", lines[k + 1].key = "BLOCKERS"
      PROVE  Headed(lines, k + 1)
  <2>1. k + 1 \in FieldsTo(lines, "BLOCKERS", k + 1)
    BY <1>1, <1>4 DEF FieldsTo
  <2>2. \A j \in ((k + 1) + 1)..(k + 1) : FALSE
    OBVIOUS
  <2> QED BY <2>1, <2>2 DEF Headed
<1>5. ASSUME lines[k + 1].kind \in {"bullet", "blank"}, Headed(lines, k)
      PROVE  Headed(lines, k + 1)
  <2>1. PICK m \in FieldsTo(lines, "BLOCKERS", k) :
          \A j \in (m + 1)..k : lines[j].kind \in {"bullet", "blank"}
    BY <1>5 DEF Headed
  <2>2. m \in 1..k /\ m \in FieldsTo(lines, "BLOCKERS", k + 1)
    BY <1>1 DEF FieldsTo
  <2>3. \A j \in (m + 1)..(k + 1) : j = k + 1 \/ j \in (m + 1)..k
    BY <2>2
  <2> QED BY <1>5, <2>1, <2>2, <2>3 DEF Headed
<1>6. ASSUME Headed(lines, k + 1), ~(lines[k + 1].kind = "field" /\ lines[k + 1].key = "BLOCKERS")
      PROVE  lines[k + 1].kind \in {"bullet", "blank"} /\ Headed(lines, k)
  <2>1. PICK m \in FieldsTo(lines, "BLOCKERS", k + 1) :
          \A j \in (m + 1)..(k + 1) : lines[j].kind \in {"bullet", "blank"}
    BY <1>6 DEF Headed
  <2>2. m \in 1..k /\ m \in FieldsTo(lines, "BLOCKERS", k)
    BY <1>1, <1>6 DEF FieldsTo
  <2>3. k + 1 \in (m + 1)..(k + 1) /\ \A j \in (m + 1)..k : j \in (m + 1)..(k + 1)
    BY <2>2
  <2> QED BY <2>1, <2>2, <2>3 DEF Headed
<1> QED BY <1>2, <1>3, <1>4, <1>5, <1>6

(* How many bullets stand under a BLOCKERS line up to some place.          *)
LEMMA UnderCount ==
  ASSUME NEW lines, NEW k \in Nat
  PROVE  /\ IsFiniteSet(UnderTo(lines, k)) /\ Cardinality(UnderTo(lines, k)) \in Nat
         /\ \A n \in UnderTo(lines, k) :
              Cardinality(UnderTo(lines, n)) \in 1..Cardinality(UnderTo(lines, k))
<1>1. /\ IsFiniteSet(1..k) /\ UnderTo(lines, k) \in SUBSET (1..k)
  <2>1. k \in Int /\ 1 \in Int
    OBVIOUS
  <2>2. IsFiniteSet(1..k)
    BY <2>1, FS_Interval
  <2>3. UnderTo(lines, k) \in SUBSET (1..k)
    BY DEF UnderTo
  <2> QED BY <2>2, <2>3
<1>2. IsFiniteSet(UnderTo(lines, k))
  BY <1>1, FS_Subset
<1>3. Cardinality(UnderTo(lines, k)) \in Nat
  BY <1>2, FS_CardinalityType
<1>4. ASSUME NEW n \in UnderTo(lines, k)
      PROVE  Cardinality(UnderTo(lines, n)) \in 1..Cardinality(UnderTo(lines, k))
  <2>1. n \in 1..k /\ n \in UnderTo(lines, n) /\ UnderTo(lines, n) \in SUBSET UnderTo(lines, k)
    BY DEF UnderTo
  <2>2. /\ IsFiniteSet(UnderTo(lines, n))
        /\ Cardinality(UnderTo(lines, n)) <= Cardinality(UnderTo(lines, k))
    BY <1>2, <2>1, FS_Subset
  <2>3. Cardinality(UnderTo(lines, n)) \in Nat /\ Cardinality(UnderTo(lines, n)) # 0
    BY <2>1, <2>2, FS_CardinalityType, FS_EmptySet
  <2> QED BY <1>3, <2>2, <2>3
<1> QED BY <1>2, <1>3, <1>4

(* One more line keeps what is known of the reader.                        *)
LEMMA LastValuesStep ==
  ASSUME NEW lines \in Seq(Lines), NEW k \in Nat, k + 1 \in 1..Len(lines), NEW r \in ReadStates,
         LastValues(lines, r.fields, k)
  PROVE  LastValues(lines, ReadLine(r, lines[k + 1]).fields, k + 1)
<1> DEFINE l == lines[k + 1]
           fields == ReadLine(r, l).fields
<1>1. /\ l \in Lines /\ r.fields \in [_REQUIRED_FIELDS -> Values \cup {Absent}]
      /\ l.kind = "field" => l.key \in _REQUIRED_FIELDS
  <2>1. l \in Lines
    OBVIOUS
  <2> HIDE DEF l
  <2> QED BY <2>1 DEF ReadStates, Lines
<1>2. fields = IF l.kind = "field" THEN [r.fields EXCEPT ![l.key] = l.value] ELSE r.fields
  <2> HIDE DEF l
  <2> QED BY <1>1, ReadLineIs
<1>3. ASSUME NEW key \in _REQUIRED_FIELDS
      PROVE  IF FieldsTo(lines, key, k + 1) = {} THEN fields[key] = Absent
             ELSE \E n \in FieldsTo(lines, key, k + 1) :
                    /\ fields[key] = lines[n].value
                    /\ \A m \in FieldsTo(lines, key, k + 1) : m <= n
  <2>1. FieldsTo(lines, key, k + 1) =
          FieldsTo(lines, key, k) \cup (IF l.kind = "field" /\ l.key = key THEN {k + 1} ELSE {})
    BY NextPlace
  <2>2. CASE l.kind = "field" /\ l.key = key
    <3>1. fields[key] = l.value
      <4> HIDE DEF l, fields
      <4> QED BY <1>1, <1>2, <2>2
    <3>2. k + 1 \in FieldsTo(lines, key, k + 1)
      BY <2>1, <2>2
    <3>3. \A m \in FieldsTo(lines, key, k + 1) : m <= k + 1
      BY DEF FieldsTo
    <3> HIDE DEF fields
    <3> QED BY <3>1, <3>2, <3>3
  <2>3. CASE ~(l.kind = "field" /\ l.key = key)
    <3>1. fields[key] = r.fields[key]
      <4> HIDE DEF l, fields
      <4> QED BY <1>1, <1>2, <2>3
    <3>2. FieldsTo(lines, key, k + 1) = FieldsTo(lines, key, k)
      <4> HIDE DEF l
      <4> QED BY <2>1, <2>3
    <3> HIDE DEF fields
    <3> QED BY <3>1, <3>2 DEF LastValues
  <2> QED BY <2>2, <2>3
<1> QED BY <1>3 DEF LastValues

LEMMA InOrderStep ==
  ASSUME NEW lines \in Seq(Lines), NEW k \in Nat, k + 1 \in 1..Len(lines), NEW r \in ReadStates,
         r.in_blockers <=> Headed(lines, k), InOrder(lines, r.blockers, k)
  PROVE  InOrder(lines, ReadLine(r, lines[k + 1]).blockers, k + 1)
<1> DEFINE l == lines[k + 1]
           b == r.blockers
           c == ReadLine(r, l).blockers
<1>1. l \in Lines /\ l.value \in Values /\ b \in Seq(Values)
  <2>1. l \in Lines
    OBVIOUS
  <2> HIDE DEF l
  <2> QED BY <2>1 DEF ReadStates, Lines
<1>2. c = IF l.kind = "bullet" /\ Headed(lines, k) THEN Append(b, l.value) ELSE b
  <2> HIDE DEF l
  <2> QED BY <1>1, ReadLineIs
<1>3. /\ Len(b) = Cardinality(UnderTo(lines, k))
      /\ \A n \in UnderTo(lines, k) : b[Cardinality(UnderTo(lines, n))] = lines[n].value
      /\ \A i \in 1..Len(b) : \E n \in UnderTo(lines, k) : b[i] = lines[n].value
  BY DEF InOrder
<1>4. CASE l.kind = "bullet" /\ Headed(lines, k)
  <2>1. c = Append(b, l.value)
    BY <1>2, <1>4
  <2>2. UnderTo(lines, k + 1) = UnderTo(lines, k) \cup {k + 1} /\ k + 1 \notin UnderTo(lines, k)
    <3>1. Headed(lines, k + 1)
      BY <1>4, NextPlace
    <3>2. k + 1 \notin UnderTo(lines, k)
      BY DEF UnderTo
    <3> QED BY <1>4, <3>1, <3>2, NextPlace
  <2>3. Cardinality(UnderTo(lines, k + 1)) = Len(b) + 1
    BY <1>3, <2>2, UnderCount, FS_AddElement
  <2> HIDE DEF b, c, l
  <2>4. /\ Len(b) \in Nat /\ Len(c) = Len(b) + 1 /\ c[Len(b) + 1] = l.value
        /\ \A i \in 1..Len(b) : c[i] = b[i]
    BY <1>1, <2>1
  <2>5. ASSUME NEW n \in UnderTo(lines, k + 1)
        PROVE  c[Cardinality(UnderTo(lines, n))] = lines[n].value
    <3>1. CASE n = k + 1
      BY <2>3, <2>4, <3>1 DEF l
    <3>2. CASE n \in UnderTo(lines, k)
      <4>1. Cardinality(UnderTo(lines, n)) \in 1..Len(b)
        BY <1>3, <3>2, UnderCount
      <4> QED BY <1>3, <2>4, <3>2, <4>1
    <3> QED BY <2>2, <3>1, <3>2
  <2>6. ASSUME NEW i \in 1..Len(c)
        PROVE  \E n \in UnderTo(lines, k + 1) : c[i] = lines[n].value
    <3>1. CASE i = Len(b) + 1
      BY <2>2, <2>4, <3>1 DEF l
    <3>2. CASE i # Len(b) + 1
      <4>1. i \in 1..Len(b)
        BY <2>4, <3>2
      <4> QED BY <1>3, <2>2, <2>4, <4>1
    <3> QED BY <3>1, <3>2
  <2> QED BY <2>3, <2>4, <2>5, <2>6 DEF InOrder, c, l
<1>5. CASE ~(l.kind = "bullet" /\ Headed(lines, k))
  <2>1. c = b
    <3> HIDE DEF l, b, c
    <3> QED BY <1>2, <1>5
  <2>2. UnderTo(lines, k + 1) = UnderTo(lines, k)
    <3>1. ~(l.kind = "bullet" /\ Headed(lines, k + 1))
      BY <1>5, NextPlace
    <3> QED BY <3>1, NextPlace
  <2> HIDE DEF b, c
  <2>3. InOrder(lines, c, k + 1)
    BY <1>3, <2>1, <2>2 DEF InOrder
  <2> QED BY <2>3 DEF c
<1> QED BY <1>4, <1>5

(* The reader reads a block as the format declares it.                     *)
LEMMA ReadsAll ==
  ASSUME NEW lines \in Seq(Lines)
  PROVE  ReadLines(lines) \in ReadStates /\ ReadSoFar(lines, ReadLines(lines), Len(lines))
<1> DEFINE N == Len(lines)
<1>1. PICK read \in [0..N -> ReadStates] :
        /\ read[0] = NothingRead
        /\ \A n \in 1..N : read[n] = ReadLine(read[n - 1], lines[n])
        /\ ReadLines(lines) = read[N]
  BY ReadsLineByLine
<1> DEFINE T == {k \in 0..N : ReadSoFar(lines, read[k], k)}
<1>2. N \in Nat
  OBVIOUS
<1>3. 0 \in T
  <2>1. /\ \A key : FieldsTo(lines, key, 0) = {}
        /\ ~Headed(lines, 0) /\ UnderTo(lines, 0) = {}
    BY DEF FieldsTo, Headed, UnderTo
  <2>2. LastValues(lines, NothingRead.fields, 0)
    BY <2>1 DEF LastValues, NothingRead
  <2>3. InOrder(lines, NothingRead.blockers, 0)
    BY <2>1, FS_EmptySet DEF InOrder, NothingRead
  <2>4. ~NothingRead.in_blockers
    BY DEF NothingRead
  <2> HIDE DEF N
  <2> QED BY <1>1, <1>2, <2>1, <2>2, <2>3, <2>4 DEF ReadSoFar
<1>4. ASSUME NEW k \in 0..N, k + 1 \in 0..N, k \in T
      PROVE  k + 1 \in T
  <2>1. k + 1 \in 1..N /\ k + 1 - 1 = k /\ k \in Nat
    BY <1>2, <1>4
  <2>2. read[k + 1] = ReadLine(read[k], lines[k + 1]) /\ read[k] \in ReadStates
    <3> HIDE DEF N, T
    <3> QED BY <1>1, <2>1
  <2>3. ReadSoFar(lines, read[k], k) /\ lines[k + 1] \in Lines
    BY <1>4, <2>1
  <2>4. LastValues(lines, read[k + 1].fields, k + 1)
    BY <2>1, <2>2, <2>3, LastValuesStep DEF ReadSoFar
  <2>5. InOrder(lines, read[k + 1].blockers, k + 1)
    BY <2>1, <2>2, <2>3, InOrderStep DEF ReadSoFar
  <2>6. read[k + 1].in_blockers <=> Headed(lines, k + 1)
    <3>1. read[k + 1].in_blockers <=>
            \/ lines[k + 1].kind = "field" /\ lines[k + 1].key = "BLOCKERS"
            \/ lines[k + 1].kind \in {"bullet", "blank"} /\ read[k].in_blockers
      BY <2>2, <2>3, ReadLineIs
    <3> QED BY <2>1, <2>3, <3>1, NextPlace DEF ReadSoFar
  <2> QED BY <1>4, <2>4, <2>5, <2>6 DEF ReadSoFar
<1>5. N \in T
  <2> HIDE DEF T, N
  <2>1. 0..N \subseteq T
    BY <1>2, <1>3, <1>4, Induction
  <2> QED BY <1>2, <2>1
<1> QED BY <1>1, <1>2, <1>5

-------------------------------------------------------------------------------
(* The blockers without the "none"s: all the others, or nothing else; and  *)
(* all of them in their places where there is no "none".                   *)
NamedSoFar(blockers, q, k) ==
  /\ q \in Seq(Values)
  /\ \A i \in 1..Len(q) : q[i] # "none" /\ \E n \in 1..k : q[i] = blockers[n]
  /\ (\A n \in 1..k : blockers[n] # "none") => Len(q) = k /\ \A n \in 1..k : q[n] = blockers[n]
  /\ (\A n \in 1..k : blockers[n] = "none") => q = <<>>

LEMMA NamedStep ==
  ASSUME NEW blockers \in Seq(Values), NEW k \in Nat, k + 1 \in 1..Len(blockers), NEW q,
         NamedSoFar(blockers, q, k)
  PROVE  NamedSoFar(blockers, IF NotNone(blockers[k + 1]) THEN Append(q, blockers[k + 1]) ELSE q,
                    k + 1)
<1> DEFINE b == blockers[k + 1]
<1>1. /\ b \in Values /\ q \in Seq(Values) /\ Len(q) \in Nat
      /\ \A n \in 1..(k + 1) : n = k + 1 \/ n \in 1..k
      /\ \A n \in 1..k : n \in 1..(k + 1)
      /\ k + 1 \in 1..(k + 1)
  BY DEF NamedSoFar
<1>2. CASE b # "none"
  <2> DEFINE r == Append(q, b)
  <2>1. /\ r \in Seq(Values) /\ Len(r) = Len(q) + 1 /\ r[Len(q) + 1] = b
        /\ \A i \in 1..Len(q) : r[i] = q[i]
    BY <1>1
  <2> HIDE DEF r
  <2>2. ASSUME NEW i \in 1..Len(r)
        PROVE  r[i] # "none" /\ \E n \in 1..(k + 1) : r[i] = blockers[n]
    <3>1. CASE i = Len(q) + 1
      BY <1>1, <1>2, <2>1, <3>1
    <3>2. CASE i # Len(q) + 1
      <4>1. i \in 1..Len(q)
        BY <1>1, <2>1, <3>2
      <4> QED BY <1>1, <2>1, <4>1 DEF NamedSoFar
    <3> QED BY <3>1, <3>2
  <2>3. ASSUME \A n \in 1..(k + 1) : blockers[n] # "none"
        PROVE  Len(r) = k + 1 /\ \A n \in 1..(k + 1) : r[n] = blockers[n]
    <3>1. Len(q) = k /\ \A n \in 1..k : q[n] = blockers[n]
      BY <1>1, <2>3 DEF NamedSoFar
    <3> QED BY <1>1, <2>1, <3>1
  <2>4. ~ \A n \in 1..(k + 1) : blockers[n] = "none"
    BY <1>1, <1>2
  <2>5. NamedSoFar(blockers, r, k + 1)
    <3> HIDE DEF b
    <3> QED BY <2>1, <2>2, <2>3, <2>4 DEF NamedSoFar
  <2> QED BY <1>2, <2>5 DEF NotNone, r
<1>3. CASE b = "none"
  <2>1. ~ \A n \in 1..(k + 1) : blockers[n] # "none"
    BY <1>1, <1>3
  <2>2. NamedSoFar(blockers, q, k + 1)
    <3> HIDE DEF b
    <3> QED BY <1>1, <2>1 DEF NamedSoFar
  <2> QED BY <1>3, <2>2 DEF NotNone
<1> QED BY <1>2, <1>3

LEMMA NamedAre ==
  ASSUME NEW blockers \in Seq(Values)
  PROVE  NamedSoFar(blockers, Named(blockers), Len(blockers))
<1> DEFINE N == Len(blockers)
           step == [n \in 1..N |-> [q \in Seq(Values) |->
                      IF NotNone(blockers[n]) THEN Append(q, blockers[n]) ELSE q]]
           Naming(named) ==
             named = [n \in 0..N |->
                       IF n = 0 THEN <<>>
                       ELSE IF NotNone(blockers[n]) THEN Append(named[n - 1], blockers[n])
                       ELSE named[n - 1]]
<1>1. N \in Nat /\ \A n \in 1..N : blockers[n] \in Values
  OBVIOUS
<1>2. step \in [1..N -> [Seq(Values) -> Seq(Values)]]
  <2>1. ASSUME NEW n \in 1..N, NEW q \in Seq(Values)
        PROVE  (IF NotNone(blockers[n]) THEN Append(q, blockers[n]) ELSE q) \in Seq(Values)
    BY <1>1
  <2> HIDE DEF N
  <2> QED BY <2>1
<1>3. PICK s \in [0..N -> Seq(Values)] :
        s[0] = <<>> /\ \A n \in 1..N : s[n] = step[n][s[n - 1]]
  <2> DEFINE Lists == Seq(Values)
  <2>3. step \in [1..N -> [Lists -> Lists]]
    BY <1>2
  <2> HIDE DEF N, step
  <2>1. N \in Nat
    BY <1>1
  <2>4. <<>> \in Lists
    OBVIOUS
  <2> HIDE DEF Lists
  <2>2. \A first \in Lists :
          \E s \in [0..N -> Lists] :
            s[0] = first /\ \A n \in 1..N : s[n] = step[n][s[n - 1]]
    BY <2>1, <2>3, LoopExists
  <2> QED BY <2>2, <2>4 DEF Lists
<1>4. Naming(s)
  <2>1. ASSUME NEW n \in 0..N
        PROVE  s[n] = IF n = 0 THEN <<>>
                      ELSE IF NotNone(blockers[n]) THEN Append(s[n - 1], blockers[n])
                      ELSE s[n - 1]
    <3>1. CASE n = 0
      BY <1>3, <3>1
    <3>2. CASE n # 0
      <4>1. n \in 1..N /\ n - 1 \in 0..N
        BY <1>1, <3>2
      <4>2. s[n - 1] \in Seq(Values) /\ s[n] = step[n][s[n - 1]]
        <5> HIDE DEF N, step
        <5> QED BY <1>3, <4>1
      <4> QED BY <3>2, <4>1, <4>2
    <3> QED BY <3>1, <3>2
  <2> HIDE DEF N
  <2> QED BY <1>3, <2>1
<1>5. \E named : Naming(named)
  BY <1>4
<1> DEFINE named == CHOOSE named : Naming(named)
<1>6. Naming(named)
  BY <1>5
<1>7. Named(blockers) = named[N]
  BY DEF Named
<1> HIDE DEF named
<1>8. \A n \in 0..N : named[n] = IF n = 0 THEN <<>>
                                 ELSE IF NotNone(blockers[n]) THEN Append(named[n - 1], blockers[n])
                                 ELSE named[n - 1]
  BY <1>6
<1> HIDE DEF Naming
<1> DEFINE T == {k \in 0..N : NamedSoFar(blockers, named[k], k)}
<1>9. 0 \in T
  <2>1. NamedSoFar(blockers, <<>>, 0)
    BY DEF NamedSoFar
  <2> QED BY <1>1, <1>8, <2>1
<1>10. ASSUME NEW k \in 0..N, k + 1 \in 0..N, k \in T
       PROVE  k + 1 \in T
  <2>1. k + 1 \in 1..N /\ k + 1 # 0 /\ k + 1 - 1 = k /\ k \in Nat
    BY <1>1, <1>10
  <2>2. named[k + 1] = IF NotNone(blockers[k + 1]) THEN Append(named[k], blockers[k + 1])
                       ELSE named[k]
    <3> HIDE DEF N, T
    <3> QED BY <1>8, <1>10, <2>1
  <2>3. NamedSoFar(blockers, named[k + 1], k + 1)
    BY <1>10, <2>1, <2>2, NamedStep
  <2> QED BY <1>10, <2>3
<1>11. N \in T
  <2> HIDE DEF T, N
  <2>1. 0..N \subseteq T
    BY <1>1, <1>9, <1>10, Induction
  <2> QED BY <1>1, <2>1
<1> QED BY <1>7, <1>11

-------------------------------------------------------------------------------
(* The block: from the first BEGIN to the first END, and nothing that is   *)
(* not in the text.                                                        *)
LEMMA FirstPlaceIs ==
  ASSUME NEW S, NEW lines \in Seq(S), NEW kind, Places(lines, kind) # {}
  PROVE  /\ FirstPlace(lines, kind) \in 1..Len(lines)
         /\ lines[FirstPlace(lines, kind)].kind = kind
         /\ \A m \in Places(lines, kind) : FirstPlace(lines, kind) <= m
<1>1. Places(lines, kind) \in SUBSET Nat
  BY DEF Places
<1>2. \E n \in Places(lines, kind) : \A m \in Places(lines, kind) : n <= m
  BY <1>1, Least
<1>3. FirstPlace(lines, kind) \in Places(lines, kind)
      /\ \A m \in Places(lines, kind) : FirstPlace(lines, kind) <= m
  <2> HIDE DEF Places
  <2> QED BY <1>2 DEF FirstPlace
<1> QED BY <1>3 DEF Places

LEMMA BlockIs ==
  ASSUME NEW S, NEW lines \in Seq(S), Marked(lines)
  PROVE  BlockOf(lines) \in Seq(S)
<1> DEFINE b == FirstPlace(lines, "begin")
           e == FirstPlace(lines, "end")
<1>1. b \in 1..Len(lines) /\ e \in 1..Len(lines) /\ Places(lines, "end") # {}
  BY FirstPlaceIs DEF Marked
<1>2. BlockOf(lines) = SubSeq(lines, b + 1, e - 1)
  BY <1>1 DEF BlockOf
<1> HIDE DEF b, e
<1>3. \A n \in (b + 1)..(e - 1) : n \in 1..Len(lines)
  BY <1>1
<1>4. \A n \in (b + 1)..(e - 1) : lines[n] \in S
  BY <1>3
<1> QED BY <1>1, <1>2, <1>3, <1>4

LEMMA BlockLines ==
  ASSUME NEW S, NEW lines \in Seq(S), Marked(lines)
  PROVE  \A n \in DOMAIN BlockOf(lines) : BlockOf(lines)[n] \in ToSet(lines)
<1>1. lines \in Seq(ToSet(lines))
  BY DEF ToSet
<1>2. BlockOf(lines) \in Seq(ToSet(lines))
  BY <1>1, BlockIs
<1> HIDE DEF ToSet
<1> QED BY <1>2

-------------------------------------------------------------------------------
(* The inductive invariant.  A line of the answer is one of the format the *)
(* agent was shown, or says what the agent means, or says nothing; whatever*)
(* befalls the answer does not make up a line of another kind.  And what   *)
(* has been decided is a summary of what was meant or a fallback.          *)
Sayable ==
  {l \in Lines :
     /\ l.key = "STATUS" => l.value \in {meant.status, "?"}
     /\ l.key = "BLOCKING" => l.value \in {meant.blocking, "?"}
     /\ l.key = "RISK" => l.value \in {meant.risk_level, "?"}
     /\ l.key = "ACTION" => l.value \in {meant.action, "?"}
     /\ l.kind = "bullet" => l.value \in {"none"} \cup ToSet(meant.blocking_summary)}
Decided ==
  decision # Invalid("none") =>
    /\ decision.summary.valid
    /\ ToSet(decision.summary.blocking_summary) \subseteq {"b1", "b2", "underivable"}
    /\ (decision.summary.action \in {"PASS", "BLOCKER"}) = (role = "reviewer")
    /\ decision.summary.action = "PASS" =>
         meant.action = "PASS" \/ "PASS" \in ToSet(decision.report)
IInv ==
  /\ role \in Roles /\ meant \in Data /\ mishaps \in 0..MaxMishaps
  /\ text \in Seq(Sayable)
  /\ Decided

LEMMA MeantIs ==
  ASSUME meant \in Data
  PROVE  /\ meant.status \in {"completed", "blocked", "?"} /\ meant.role \in Roles
         /\ meant.blocking \in {"yes", "no", "?"} /\ meant.risk_level \in {"HIGH", "NONE", "?"}
         /\ meant.action \in {"PASS", "BLOCKER", "NONE", "?"}
         /\ meant.blocking_summary \in Seq({"b1", "b2"})
BY SummaryAssumption DEF SummaryAssumption

(* The lines of the formats can be said.                                   *)
LEMMA FieldSayable ==
  ASSUME NEW key \in _REQUIRED_FIELDS, NEW v \in Values,
         key = "STATUS" => v \in {meant.status, "?"},
         key = "BLOCKING" => v \in {meant.blocking, "?"},
         key = "RISK" => v \in {meant.risk_level, "?"},
         key = "ACTION" => v \in {meant.action, "?"}
  PROVE  Field(key, v) \in Sayable
<1>1. Field(key, v) = [kind |-> "field", key |-> key, value |-> v]
  BY DEF Field, Line
<1>2. Field(key, v) \in Lines
  <2>1. "field" \in Kinds /\ key \in _REQUIRED_FIELDS \cup {""}
    BY DEF Kinds
  <2>2. Field(key, v) \in [kind : Kinds, key : _REQUIRED_FIELDS \cup {""}, value : Values]
    <3>1. [kind |-> "field", key |-> key, value |-> v]
            \in [kind : Kinds, key : _REQUIRED_FIELDS \cup {""}, value : Values]
      BY <2>1
    <3> QED BY <1>1, <3>1
  <2>3. Field(key, v).key = key /\ Field(key, v).kind = "field"
    BY <1>1
  <2> QED BY <2>2, <2>3 DEF Lines
<1> QED BY <1>1, <1>2 DEF Sayable

LEMMA BlockSayable ==
  ASSUME NEW status \in {meant.status, "?"}, NEW r \in Roles,
         NEW blocking \in {meant.blocking, "?"}, NEW risk \in {meant.risk_level, "?"},
         NEW action \in {meant.action, "?"}, NEW bullets \in Seq(Sayable), meant \in Data
  PROVE  Block(status, r, blocking, risk, action, bullets) \in Seq(Sayable)
<1>1. {status, r, blocking, risk, action} \subseteq Values
  BY MeantIs DEF Values, Roles
<1>2. {"STATUS", "ROLE", "PRIMARY_ARTIFACT", "BLOCKING", "RISK", "ACTION", "SUMMARY", "BLOCKERS"}
        = _REQUIRED_FIELDS /\ "" \notin _REQUIRED_FIELDS
  BY DEF _REQUIRED_FIELDS
<1>3. Begin \in Sayable /\ End \in Sayable
  BY <1>2 DEF Begin, End, Line, Sayable, Lines, Kinds, Values
<1>4. {"primary", "...", ""} \subseteq Values
  BY DEF Values
<1>5. /\ Field("STATUS", status) \in Sayable /\ Field("ROLE", r) \in Sayable
      /\ Field("PRIMARY_ARTIFACT", "primary") \in Sayable
      /\ Field("BLOCKING", blocking) \in Sayable /\ Field("RISK", risk) \in Sayable
      /\ Field("ACTION", action) \in Sayable /\ Field("SUMMARY", "...") \in Sayable
      /\ Field("BLOCKERS", "") \in Sayable
  BY <1>1, <1>2, <1>4, FieldSayable
<1> DEFINE top == <<Begin, Field("STATUS", status), Field("ROLE", r),
                    Field("PRIMARY_ARTIFACT", "primary"), Field("BLOCKING", blocking),
                    Field("RISK", risk), Field("ACTION", action), Field("SUMMARY", "..."),
                    Field("BLOCKERS", "")>>
<1>6. top \in Seq(Sayable)
  <2>1. \A a, b, c, d, e, f, g, h, i \in Sayable :
          <<a, b, c, d, e, f, g, h, i>> \in Seq(Sayable)
    OBVIOUS
  <2> QED BY <1>3, <1>5, <2>1
<1>7. <<End>> \in Seq(Sayable)
  BY <1>3
<1>8. Block(status, r, blocking, risk, action, bullets) = top \o bullets \o <<End>>
  BY DEF Block
<1> HIDE DEF top
<1> QED BY <1>6, <1>7, <1>8

LEMMA FormatsSayable ==
  ASSUME meant \in Data, role \in Roles
  PROVE  Written(meant) \in Seq(Sayable) /\ Format(role) \in Seq(Sayable)
<1>1. Bullet("none") \in Sayable
  BY DEF Bullet, Line, Sayable, Lines, Kinds, Values, _REQUIRED_FIELDS
<1>2. \A n \in 1..Len(meant.blocking_summary) : Bullet(meant.blocking_summary[n]) \in Sayable
  <2>1. ASSUME NEW n \in 1..Len(meant.blocking_summary)
        PROVE  Bullet(meant.blocking_summary[n]) \in Sayable
    <3> DEFINE v == meant.blocking_summary[n]
    <3>1. v \in {"b1", "b2"} /\ v \in ToSet(meant.blocking_summary)
      BY MeantIs DEF ToSet
    <3> HIDE DEF v
    <3>2. Bullet(v) \in Sayable
      BY <3>1 DEF Bullet, Line, Sayable, Lines, Kinds, Values, _REQUIRED_FIELDS
    <3> QED BY <3>2 DEF v
  <2> QED BY <2>1
<1>3. Format(role) \in Seq(Sayable)
  <2>1. <<Bullet("none")>> \in Seq(Sayable)
    BY <1>1
  <2> QED BY <2>1, BlockSayable DEF Format
<1>4. Written(meant) \in Seq(Sayable)
  <2> DEFINE bullets ==
        IF meant.blocking_summary = <<>> THEN <<Bullet("none")>>
        ELSE [n \in DOMAIN meant.blocking_summary |-> Bullet(meant.blocking_summary[n])]
  <2>1. bullets \in Seq(Sayable)
    <3>1. DOMAIN meant.blocking_summary = 1..Len(meant.blocking_summary)
          /\ Len(meant.blocking_summary) \in Nat
      BY MeantIs
    <3> QED BY <1>1, <1>2, <3>1
  <2>2. Written(meant) = Block(meant.status, meant.role, meant.blocking, meant.risk_level,
                               meant.action, bullets)
    BY DEF Written
  <2>3. meant.role \in Roles
    BY MeantIs
  <2> HIDE DEF bullets
  <2> QED BY <2>1, <2>2, <2>3, BlockSayable
<1> QED BY <1>3, <1>4

-------------------------------------------------------------------------------
(* What a valid result says of the text it was read from.                  *)
LEMMA Structured ==
  ASSUME NEW r, NEW lines, _parse_structured_summary(r, lines).valid
  PROVE  LET read == ReadLines(BlockOf(lines))
             f == read.fields
             action == Known(f["ACTION"], {"PASS", "BLOCKER"})
         IN /\ Marked(lines) /\ Missing(f) = {}
            /\ f["STATUS"] \in {"completed", "blocked"} /\ f["BLOCKING"] \in {"yes", "no"}
            /\ (r = "reviewer") = (action # "NONE")
            /\ _parse_structured_summary(r, lines) =
                 [valid |-> TRUE, status |-> f["STATUS"], blocking |-> f["BLOCKING"],
                  risk_level |-> Known(f["RISK"], {"HIGH"}), action |-> action,
                  blocking_summary |-> Named(read.blockers)]
<1>1. \A error : Invalid(error).valid = FALSE
  BY DEF Invalid
<1> QED BY <1>1 DEF _parse_structured_summary

LEMMA FromJson ==
  ASSUME NEW r, NEW d, _try_json_parse(r, d).valid
  PROVE  /\ d.status # "?" /\ d.role = r /\ d.blocking # "?" /\ d.risk_level # "?"
         /\ d.action \in (IF r = "reviewer" THEN {"PASS", "BLOCKER"} ELSE {"NONE"})
         /\ _try_json_parse(r, d) =
              [valid |-> TRUE, status |-> d.status, blocking |-> d.blocking,
               risk_level |-> d.risk_level, action |-> d.action,
               blocking_summary |-> d.blocking_summary]
<1>1. \A error : Invalid(error).valid = FALSE
  BY DEF Invalid
<1> QED BY <1>1 DEF _try_json_parse

LEMMA ResultIs ==
  ASSUME Result.valid
  PROVE  \/ /\ Result = _parse_structured_summary(role, text)
            /\ _parse_structured_summary(role, text).valid
         \/ /\ Result = _try_json_parse(role, meant)
            /\ _try_json_parse(role, meant).valid
            /\ Opens(text) # {}
<1>1. Invalid("SummaryParseError").valid = FALSE
  BY DEF Invalid
<1> QED BY <1>1 DEF Result, validate_summary

(* What is read of a block is what was meant, or the shown format's "?".   *)
LEMMA FieldsMeant ==
  ASSUME NEW block \in Seq(Sayable), Missing(ReadLines(block).fields) = {}
  PROVE  LET f == ReadLines(block).fields
         IN /\ f["STATUS"] \in {meant.status, "?"} /\ f["BLOCKING"] \in {meant.blocking, "?"}
            /\ f["ACTION"] \in {meant.action, "?"}
            /\ \E n \in DOMAIN block :
                 /\ f["RISK"] \in {meant.risk_level, "?"}
                 /\ block[n] = Field("RISK", f["RISK"])
<1> DEFINE f == ReadLines(block).fields
<1>1. block \in Seq(Lines) /\ Len(block) \in Nat /\ DOMAIN block = 1..Len(block)
  <2>1. Sayable \subseteq Lines
    BY DEF Sayable
  <2> HIDE DEF Sayable
  <2> QED BY <2>1
<1>2. LastValues(block, f, Len(block))
  BY <1>1, ReadsAll DEF ReadSoFar
<1>3. \A key \in _REQUIRED_FIELDS : f[key] # Absent
  BY DEF Missing
<1> HIDE DEF f
<1>4. ASSUME NEW key \in _REQUIRED_FIELDS
      PROVE  \E n \in DOMAIN block : block[n] = Field(key, f[key]) /\ block[n] \in Sayable
  <2>1. PICK n \in FieldsTo(block, key, Len(block)) : f[key] = block[n].value
    BY <1>2, <1>3 DEF LastValues
  <2>2. n \in 1..Len(block) /\ block[n].kind = "field" /\ block[n].key = key
    BY DEF FieldsTo
  <2>3. block[n] \in Sayable /\ block[n] \in Lines
    BY <1>1, <2>2
  <2>4. block[n] = Field(key, f[key])
    BY <2>1, <2>2, <2>3 DEF Lines, Field, Line
  <2> QED BY <1>1, <2>2, <2>3, <2>4
<1>5. \A key : Field(key, f[key]).key = key /\ Field(key, f[key]).value = f[key]
  BY DEF Field, Line
<1>6. {"STATUS", "BLOCKING", "RISK", "ACTION"} \subseteq _REQUIRED_FIELDS
  BY DEF _REQUIRED_FIELDS
<1>7. f["STATUS"] \in {meant.status, "?"}
  BY <1>4, <1>5, <1>6 DEF Sayable
<1>8. f["BLOCKING"] \in {meant.blocking, "?"}
  BY <1>4, <1>5, <1>6 DEF Sayable
<1>9. f["ACTION"] \in {meant.action, "?"}
  BY <1>4, <1>5, <1>6 DEF Sayable
<1>10. \E n \in DOMAIN block :
         f["RISK"] \in {meant.risk_level, "?"} /\ block[n] = Field("RISK", f["RISK"])
  BY <1>4, <1>5, <1>6 DEF Sayable
<1> QED BY <1>7, <1>8, <1>9, <1>10 DEF f

LEMMA BlockersMeant ==
  ASSUME NEW block \in Seq(Sayable)
  PROVE  ToSet(Named(ReadLines(block).blockers)) \subseteq ToSet(meant.blocking_summary)
<1> DEFINE b == ReadLines(block).blockers
<1>1. block \in Seq(Lines) /\ Len(block) \in Nat
  <2>1. Sayable \subseteq Lines
    BY DEF Sayable
  <2> HIDE DEF Sayable
  <2> QED BY <2>1
<1>2. b \in Seq(Values) /\ InOrder(block, b, Len(block))
  BY <1>1, ReadsAll DEF ReadSoFar, ReadStates
<1> HIDE DEF b
<1>3. NamedSoFar(b, Named(b), Len(b))
  BY <1>2, NamedAre
<1>4. ASSUME NEW i \in 1..Len(Named(b))
      PROVE  Named(b)[i] \in ToSet(meant.blocking_summary)
  <2>1. PICK k \in 1..Len(b) : Named(b)[i] = b[k]
    BY <1>3 DEF NamedSoFar
  <2>2. PICK n \in UnderTo(block, Len(block)) : b[k] = block[n].value
    BY <1>2 DEF InOrder
  <2>3. block[n] \in Sayable /\ block[n].kind = "bullet"
    BY <1>1 DEF UnderTo
  <2>4. block[n].value \in {"none"} \cup ToSet(meant.blocking_summary)
    BY <2>3 DEF Sayable
  <2>5. Named(b)[i] # "none"
    BY <1>3 DEF NamedSoFar
  <2> QED BY <2>1, <2>2, <2>4, <2>5
<1>5. DOMAIN Named(b) = 1..Len(Named(b))
  BY <1>3 DEF NamedSoFar
<1> QED BY <1>4, <1>5 DEF ToSet, b

(* An answer whose lines can be said is accepted only for what was meant.  *)
LEMMA Accepted ==
  ASSUME role \in Roles, meant \in Data, text \in Seq(Sayable), Result.valid
  PROVE  /\ Result.status = meant.status /\ Result.blocking = meant.blocking
         /\ \/ Result.risk_level = meant.risk_level
            \/ Result.risk_level = "NONE" /\ Field("RISK", "?") \in ToSet(text)
         /\ (Result.action # "NONE") = (role = "reviewer")
         /\ Result.action \in {"PASS", "BLOCKER", "NONE"}
         /\ Result.action = meant.action \/ role # "reviewer"
         /\ ToSet(Result.blocking_summary) \subseteq ToSet(meant.blocking_summary)
<1>1. CASE /\ Result = _parse_structured_summary(role, text)
           /\ _parse_structured_summary(role, text).valid
  <2> DEFINE block == BlockOf(text)
             f == ReadLines(block).fields
             action == Known(f["ACTION"], {"PASS", "BLOCKER"})
  <2>1. /\ Marked(text) /\ Missing(f) = {}
        /\ f["STATUS"] \in {"completed", "blocked"} /\ f["BLOCKING"] \in {"yes", "no"}
        /\ (role = "reviewer") = (action # "NONE")
        /\ Result = [valid |-> TRUE, status |-> f["STATUS"], blocking |-> f["BLOCKING"],
                     risk_level |-> Known(f["RISK"], {"HIGH"}), action |-> action,
                     blocking_summary |-> Named(ReadLines(block).blockers)]
    BY <1>1, Structured
  <2>2. block \in Seq(Sayable)
    BY <2>1, BlockIs
  <2>3. /\ f["STATUS"] \in {meant.status, "?"} /\ f["BLOCKING"] \in {meant.blocking, "?"}
        /\ f["ACTION"] \in {meant.action, "?"}
        /\ \E n \in DOMAIN block :
             /\ f["RISK"] \in {meant.risk_level, "?"}
             /\ block[n] = Field("RISK", f["RISK"])
    BY <2>1, <2>2, FieldsMeant
  <2>4. ToSet(Named(ReadLines(block).blockers)) \subseteq ToSet(meant.blocking_summary)
    BY <2>2, BlockersMeant
  <2>5. \A n \in DOMAIN block : block[n] \in ToSet(text)
    BY <2>1, BlockLines
  <2> HIDE DEF f, block
  <2>6. Result.status = meant.status /\ Result.blocking = meant.blocking
    BY <2>1, <2>3
  <2>7. \/ Result.risk_level = meant.risk_level
        \/ Result.risk_level = "NONE" /\ Field("RISK", "?") \in ToSet(text)
    <3>1. Result.risk_level = Known(f["RISK"], {"HIGH"})
      BY <2>1
    <3>2. CASE f["RISK"] = "?"
      BY <2>3, <2>5, <3>1, <3>2 DEF Known
    <3>3. CASE f["RISK"] # "?"
      <4>1. f["RISK"] = meant.risk_level /\ meant.risk_level \in {"HIGH", "NONE"}
        BY <2>3, <3>3, MeantIs
      <4> QED BY <3>1, <4>1 DEF Known
    <3> QED BY <3>2, <3>3
  <2>8. /\ Result.action = action /\ (action # "NONE") = (role = "reviewer")
        /\ action \in {"PASS", "BLOCKER", "NONE"}
    BY <2>1 DEF Known
  <2>9. action = meant.action \/ role # "reviewer"
    BY <2>3, <2>8 DEF Known
  <2> HIDE DEF action
  <2> QED BY <2>1, <2>4, <2>6, <2>7, <2>8, <2>9
<1>2. CASE Result = _try_json_parse(role, meant) /\ _try_json_parse(role, meant).valid
  BY <1>2, FromJson DEF Roles
<1> QED BY <1>1, <1>2, ResultIs

-------------------------------------------------------------------------------
(* Whatever befalls the answer, its lines stay among those that can be     *)
(* said.                                                                   *)
LEMMA Parts ==
  ASSUME NEW S, NEW t \in Seq(S), NEW n \in 1..Len(t)
  PROVE  /\ SubSeq(t, 1, n - 1) \in Seq(S) /\ SubSeq(t, n + 1, Len(t)) \in Seq(S)
         /\ SubSeq(t, n, Len(t)) \in Seq(S) /\ t[n] \in S
<1>1. Len(t) \in Nat /\ \A m \in 1..Len(t) : t[m] \in S
  OBVIOUS
<1>2. /\ \A m \in 1..(n - 1) : t[m] \in S
      /\ \A m \in (n + 1)..Len(t) : t[m] \in S
      /\ \A m \in n..Len(t) : t[m] \in S
  BY <1>1
<1> QED BY <1>1, <1>2

LEMMA MishapKeeps ==
  ASSUME IInv, Mishap
  PROVE  text' \in Seq(Sayable)
<1>1. text \in Seq(Sayable) /\ DOMAIN text = 1..Len(text)
  BY DEF IInv
<1>2. {Remark, Blank, NextRole} \subseteq Sayable
  <2>1. Remark \in Sayable
    BY DEF Remark, Line, Sayable, Lines, Kinds, Values, _REQUIRED_FIELDS
  <2>2. Blank \in Sayable
    BY DEF Blank, Line, Sayable, Lines, Kinds, Values, _REQUIRED_FIELDS
  <2>3. NextRole \in Sayable
    BY DEF NextRole, Line, Sayable, Lines, Kinds, Values, _REQUIRED_FIELDS
  <2> QED BY <2>1, <2>2, <2>3
<1>3. Format(role) \in Seq(Sayable)
  BY FormatsSayable DEF IInv
<1> HIDE DEF Sayable
<1>4. CASE Echo
  BY <1>1, <1>3, <1>4 DEF Echo
<1>5. ASSUME NEW n \in DOMAIN text, Lose(n)
      PROVE  text' \in Seq(Sayable)
  BY <1>1, <1>5, Parts DEF Lose, RemoveAt
<1>6. ASSUME NEW n \in DOMAIN text, NEW line \in Sayable
      PROVE  InsertAt(text, n, line) \in Seq(Sayable)
  <2>1. <<line>> \in Seq(Sayable)
    OBVIOUS
  <2> QED BY <1>1, <2>1, Parts DEF InsertAt
<1>7. ASSUME NEW n \in DOMAIN text, Repeat(n)
      PROVE  text' \in Seq(Sayable)
  BY <1>1, <1>6, <1>7, Parts DEF Repeat
<1>8. ASSUME NEW n \in DOMAIN text, Interject(n)
      PROVE  text' \in Seq(Sayable)
  BY <1>2, <1>6, <1>8 DEF Interject
<1>9. ASSUME NEW n \in DOMAIN text, Cut(n)
      PROVE  text' \in Seq(Sayable)
  BY <1>1, <1>9, Parts DEF Cut
<1>10. ASSUME NEW n \in DOMAIN text, Swap(n)
       PROVE  text' \in Seq(Sayable)
  <2>1. n + 1 \in 1..Len(text) /\ n \in 1..Len(text)
    BY <1>1, <1>10 DEF Swap
  <2>2. text[n] \in Sayable /\ text[n + 1] \in Sayable
    BY <1>1, <2>1
  <2>3. text' = [text EXCEPT ![n] = text[n + 1], ![n + 1] = text[n]]
    BY <1>10 DEF Swap
  <2> QED BY <1>1, <2>1, <2>2, <2>3
<1> QED BY <1>4, <1>5, <1>7, <1>8, <1>9, <1>10 DEF Mishap

LEMMA SayableStays ==
  ASSUME role' = role, meant' = meant
  PROVE  Sayable' = Sayable
BY DEF Sayable, ToSet

LEMMA InitInv ==
  Init => IInv
<1> SUFFICES ASSUME Init PROVE IInv
  OBVIOUS
<1>1. role \in Roles /\ meant \in Data /\ mishaps \in 0..MaxMishaps /\ decision = Invalid("none")
  BY SummaryAssumption DEF Init, SummaryAssumption
<1>2. text \in Seq(Sayable)
  <2>1. Json \in Sayable
    BY DEF Json, Line, Sayable, Lines, Kinds, Values, _REQUIRED_FIELDS
  <2>2. <<Json>> \in Seq(Sayable)
    BY <2>1
  <2>3. Written(meant) \in Seq(Sayable)
    BY <1>1, FormatsSayable
  <2> HIDE DEF Sayable
  <2> QED BY <2>2, <2>3 DEF Init
<1> QED BY <1>1, <1>2 DEF IInv, Decided

(* The first PASS or BLOCKER of a report is one of its words.              *)
LEMMA Derived ==
  ASSUME NEW report \in Reports
  PROVE  LET action == derive_reviewer_action_from_main_artifact(report)
         IN \/ action = "NONE"
            \/ action \in {"PASS", "BLOCKER"} /\ action \in ToSet(report)
<1> DEFINE known == {n \in DOMAIN report : report[n] \in {"PASS", "BLOCKER"}}
           first == CHOOSE n \in known : \A m \in known : n <= m
<1>1. CASE known = {}
  BY <1>1 DEF derive_reviewer_action_from_main_artifact
<1>2. CASE known # {}
  <2>1. known \in SUBSET Nat
    BY SummaryAssumption DEF SummaryAssumption
  <2>2. \E n \in known : \A m \in known : n <= m
    <3> HIDE DEF known
    <3> QED BY <1>2, <2>1, Least
  <2>3. first \in known
    <3> HIDE DEF known
    <3> QED BY <2>2
  <2>4. derive_reviewer_action_from_main_artifact(report) = report[first]
    BY <1>2 DEF derive_reviewer_action_from_main_artifact
  <2> HIDE DEF first
  <2> QED BY <2>3, <2>4 DEF ToSet
<1> QED BY <1>1, <1>2

LEMMA Fallback ==
  ASSUME NEW report \in Reports, role \in Roles
  PROVE  LET s == safe_fallback_summary(role, report)
         IN /\ s.valid /\ ToSet(s.blocking_summary) \subseteq {"underivable"}
            /\ (s.action \in {"PASS", "BLOCKER"}) = (role = "reviewer")
            /\ s.action = "PASS" => "PASS" \in ToSet(report)
<1> DEFINE derived == derive_reviewer_action_from_main_artifact(report)
           action == IF role = "reviewer" THEN derived ELSE "NONE"
           s == safe_fallback_summary(role, report)
<1>1. derived = "NONE" \/ (derived \in {"PASS", "BLOCKER"} /\ derived \in ToSet(report))
  BY Derived
<1>2. ToSet(<<>>) = {} /\ ToSet(<<"underivable">>) = {"underivable"}
  BY DEF ToSet
<1>3. CASE role = "reviewer" /\ action = "NONE"
  <2>1. s = [valid |-> TRUE, status |-> "blocked", blocking |-> "yes", risk_level |-> "HIGH",
             action |-> "BLOCKER", blocking_summary |-> <<"underivable">>]
    BY <1>3 DEF safe_fallback_summary
  <2> HIDE DEF s
  <2> QED BY <1>2, <1>3, <2>1 DEF s
<1>4. CASE ~(role = "reviewer" /\ action = "NONE")
  <2>1. s = [valid |-> TRUE, status |-> "completed", blocking |-> "no", risk_level |-> "NONE",
             action |-> action, blocking_summary |-> <<>>]
    BY <1>4 DEF safe_fallback_summary
  <2>2. action = (IF role = "reviewer" THEN derived ELSE "NONE")
    OBVIOUS
  <2> HIDE DEF s, derived, action
  <2> QED BY <1>1, <1>2, <1>4, <2>1, <2>2 DEF s
<1> QED BY <1>3, <1>4

LEMMA Step ==
  IInv /\ [Next]_vars => IInv'
<1> SUFFICES ASSUME IInv, [Next]_vars PROVE IInv'
  OBVIOUS
<1>1. /\ role \in Roles /\ meant \in Data /\ mishaps \in 0..MaxMishaps /\ text \in Seq(Sayable)
      /\ Decided
  BY DEF IInv
<1>2. CASE Mishap
  <2>1. role' = role /\ meant' = meant /\ decision' = decision /\ mishaps' \in 0..MaxMishaps
    BY <1>1, <1>2, SummaryAssumption DEF Mishap, SummaryAssumption
  <2>2. text' \in Seq(Sayable')
    BY <1>2, <2>1, MishapKeeps, SayableStays
  <2>3. Decided'
    BY <1>1, <2>1 DEF Decided, ToSet, Invalid
  <2> QED BY <1>1, <2>1, <2>2, <2>3 DEF IInv
<1>3. ASSUME decision = Invalid("none"), text' = <<>>, role' = role, meant' = meant,
             mishaps' = mishaps, Decided'
      PROVE  IInv'
  <2>1. text' \in Seq(Sayable')
    BY <1>3
  <2> QED BY <1>1, <1>3, <2>1 DEF IInv
<1>4. CASE DecideBySummary
  <2>1. /\ Result.valid /\ decision' = [summary |-> Result, report |-> <<>>]
        /\ role' = role /\ meant' = meant
    BY <1>4 DEF DecideBySummary
  <2>2. /\ (Result.action \in {"PASS", "BLOCKER"}) = (role = "reviewer")
        /\ ToSet(Result.blocking_summary) \subseteq {"b1", "b2", "underivable"}
        /\ Result.action = "PASS" => meant.action = "PASS"
    <3>1. ToSet(meant.blocking_summary) \subseteq {"b1", "b2"}
      BY <1>1, MeantIs DEF ToSet
    <3> QED BY <1>1, <2>1, <3>1, Accepted
  <2>3. Decided'
    <3> DEFINE r == Result
    <3>1. decision'.summary = r
      BY <2>1
    <3> QED BY <2>1, <2>2, <3>1 DEF Decided
  <2> QED BY <1>3, <1>4, <2>3 DEF DecideBySummary
<1>5. CASE DecideByFallback
  <2>1. PICK report \in Reports :
          decision' = [summary |-> safe_fallback_summary(role, report), report |-> report]
    BY <1>5 DEF DecideByFallback
  <2> DEFINE s == safe_fallback_summary(role, report)
  <2>2. /\ s.valid /\ ToSet(s.blocking_summary) \subseteq {"underivable"}
        /\ (s.action \in {"PASS", "BLOCKER"}) = (role = "reviewer")
        /\ s.action = "PASS" => "PASS" \in ToSet(report)
    BY <1>1, Fallback
  <2>3. decision'.summary = s /\ decision'.report = report /\ role' = role
    BY <1>5, <2>1 DEF DecideByFallback
  <2>4. Decided'
    <3> HIDE DEF s
    <3> QED BY <2>2, <2>3 DEF Decided
  <2> QED BY <1>3, <1>5, <2>4 DEF DecideByFallback
<1>6. CASE UNCHANGED vars
  <2>1. role' = role /\ meant' = meant /\ decision' = decision /\ text' = text /\ mishaps' = mishaps
    BY <1>6 DEF vars
  <2>2. Decided'
    BY <1>1, <2>1 DEF Decided, ToSet, Invalid
  <2> QED BY <1>1, <2>1, <2>2, SayableStays DEF IInv
<1> QED BY <1>2, <1>4, <1>5, <1>6 DEF Next

THEOREM Invariance == Spec => []IInv
BY InitInv, Step, PTL DEF Spec

-------------------------------------------------------------------------------
(* What the runs check of every answer and every decision.                 *)

LEMMA InvTypes ==
  IInv => TypeOK
<1> SUFFICES ASSUME IInv PROVE TypeOK
  OBVIOUS
<1>1. \A n \in DOMAIN text : text[n].key \in _REQUIRED_FIELDS \cup {""}
  <2>1. ASSUME NEW n \in DOMAIN text
        PROVE  text[n].key \in _REQUIRED_FIELDS \cup {""}
    <3>1. text[n] \in Sayable
      <4> HIDE DEF Sayable
      <4> QED BY DEF IInv
    <3> QED BY <3>1 DEF Sayable, Lines
  <2> QED BY <2>1
<1> QED BY <1>1 DEF IInv, Decided, TypeOK

(* The answer's lines are lines of the format, and what is decided is a    *)
(* valid summary whose blockers were named by someone.                     *)
THEOREM SummaryTypes == Spec => []TypeOK
BY Invariance, InvTypes, PTL

LEMMA InvAccepted ==
  IInv => AcceptedAsMeant
BY Accepted DEF IInv, AcceptedAsMeant

(* A summary that validate_summary accepts says what the agent meant,      *)
(* however many of its lines were lost, doubled, displaced or cut off.     *)
THEOREM AcceptedIsMeant == Spec => []AcceptedAsMeant
BY Invariance, InvAccepted, PTL

LEMMA InvRoutable ==
  IInv => AlwaysRoutable
BY DEF IInv, Decided, AlwaysRoutable

(* role_wait's decision always has an action for a reviewer and never one  *)
(* for another role, and a PASS is the agent's or stands in the report.    *)
THEOREM DecisionIsRoutable == Spec => []AlwaysRoutable
BY Invariance, InvRoutable, PTL

(* What the reader has read of a whole block, in the words of the format.  *)
LEMMA InvReads ==
  IInv => ReadAsDeclared
<1> SUFFICES ASSUME IInv, Marked(text) PROVE ReadAsDeclared
  BY DEF ReadAsDeclared
<1> DEFINE block == BlockOf(text)
           read == ReadLines(block)
           Fields(key) == {n \in DOMAIN block : block[n].kind = "field" /\ block[n].key = key}
           Under == {n \in DOMAIN block :
                       /\ block[n].kind = "bullet"
                       /\ \E m \in Fields("BLOCKERS") :
                            m < n /\ \A k \in m..n : block[k].kind \in {"bullet", "blank"} \/ k = m}
           N == Len(block)
<1>1. block \in Seq(Lines) /\ N \in Nat /\ DOMAIN block = 1..N
  <2>1. text \in Seq(Lines)
    <3>1. text \in Seq(Sayable) /\ Sayable \subseteq Lines
      BY DEF IInv, Sayable
    <3> HIDE DEF Sayable
    <3> QED BY <3>1
  <2>2. BlockOf(text) \in Seq(Lines)
    BY <2>1, BlockIs
  <2> QED BY <2>2
<1>2. ReadSoFar(block, read, N)
  BY <1>1, ReadsAll
<1> HIDE DEF block, read, N
<1>3. \A key : Fields(key) = FieldsTo(block, key, N)
  BY <1>1 DEF FieldsTo
<1>4. ASSUME NEW n \in 1..N, block[n].kind = "bullet"
      PROVE  Headed(block, n) <=>
               \E m \in Fields("BLOCKERS") :
                 m < n /\ \A k \in m..n : block[k].kind \in {"bullet", "blank"} \/ k = m
  <2>1. ASSUME NEW m \in FieldsTo(block, "BLOCKERS", n),
               \A j \in (m + 1)..n : block[j].kind \in {"bullet", "blank"}
        PROVE  /\ m \in Fields("BLOCKERS") /\ m < n
               /\ \A k \in m..n : block[k].kind \in {"bullet", "blank"} \/ k = m
    <3>1. m \in 1..n /\ block[m].kind = "field" /\ block[m].key = "BLOCKERS"
      BY DEF FieldsTo
    <3>2. m # n
      BY <1>4, <3>1
    <3>3. m < n /\ m \in 1..N /\ \A k \in m..n : k = m \/ k \in (m + 1)..n
      BY <1>1, <3>1, <3>2
    <3> QED BY <1>1, <2>1, <3>1, <3>3
  <2>2. ASSUME NEW m \in Fields("BLOCKERS"), m < n,
               \A k \in m..n : block[k].kind \in {"bullet", "blank"} \/ k = m
        PROVE  /\ m \in FieldsTo(block, "BLOCKERS", n)
               /\ \A j \in (m + 1)..n : block[j].kind \in {"bullet", "blank"}
    <3>1. m \in 1..n /\ \A j \in (m + 1)..n : j \in m..n /\ j # m
      BY <1>1, <2>2
    <3> QED BY <2>2, <3>1 DEF FieldsTo
  <2> HIDE DEF Fields
  <2> QED BY <2>1, <2>2 DEF Headed
<1>5. Under = UnderTo(block, N)
  <2> HIDE DEF Fields
  <2> QED BY <1>1, <1>4 DEF UnderTo
<1>6. \A n \in Under : {m \in Under : m <= n} = UnderTo(block, n)
  <2>1. \A n \in UnderTo(block, N) : {m \in UnderTo(block, N) : m <= n} = UnderTo(block, n)
    BY <1>1 DEF UnderTo
  <2> HIDE DEF Under
  <2> QED BY <1>5, <2>1
<1>7. \A key \in _REQUIRED_FIELDS :
        IF Fields(key) = {} THEN read.fields[key] = Absent
        ELSE \E n \in Fields(key) : /\ read.fields[key] = block[n].value
                                    /\ \A m \in Fields(key) : m <= n
  <2> HIDE DEF Fields
  <2> QED BY <1>2, <1>3 DEF ReadSoFar, LastValues
<1>8. /\ Len(read.blockers) = Cardinality(Under)
      /\ \A n \in Under : read.blockers[Cardinality({m \in Under : m <= n})] = block[n].value
  <2> HIDE DEF Under
  <2> QED BY <1>2, <1>5, <1>6 DEF ReadSoFar, InOrder
<1> QED BY <1>7, <1>8 DEF ReadAsDeclared, block, read

(* _parse_structured_summary reads, of every block that a mangled answer   *)
(* may hold, the last value of each field and the bullets that follow a    *)
(* BLOCKERS line, in order.                                                *)
THEOREM BlockIsRead == Spec => []ReadAsDeclared
BY Invariance, InvReads, PTL

-------------------------------------------------------------------------------

(* The lines of a block, place by place.                                   *)
Header(s, r, blocking, risk, action) ==
  <<Begin, Field("STATUS", s), Field("ROLE", r), Field("PRIMARY_ARTIFACT", "primary"),
    Field("BLOCKING", blocking), Field("RISK", risk), Field("ACTION", action),
    Field("SUMMARY", "..."), Field("BLOCKERS", "")>>

LEMMA BlockShape ==
  ASSUME NEW s, NEW r, NEW blocking, NEW risk, NEW action, NEW S, NEW bullets \in Seq(S)
  PROVE  LET b == Block(s, r, blocking, risk, action, bullets)
             k == Len(bullets)
         IN /\ Len(b) = k + 10
            /\ \A i \in 1..9 : b[i] = Header(s, r, blocking, risk, action)[i]
            /\ \A j \in 1..k : b[9 + j] = bullets[j]
            /\ b[k + 10] = End
<1> DEFINE top == Header(s, r, blocking, risk, action)
           k == Len(bullets)
           All == S \cup ToSet(top) \cup {End}
           b == Block(s, r, blocking, risk, action, bullets)
<1>1. b = (top \o bullets) \o <<End>>
  BY DEF Block, Header
<1>2. top \in Seq(All) /\ Len(top) = 9
  <2>1. \A a1, a2, a3, a4, a5, a6, a7, a8, a9 :
          <<a1, a2, a3, a4, a5, a6, a7, a8, a9>>
            \in Seq(ToSet(<<a1, a2, a3, a4, a5, a6, a7, a8, a9>>))
    BY DEF ToSet
  <2>2. top \in Seq(ToSet(top)) /\ Len(top) = 9
    BY <2>1 DEF Header
  <2> HIDE DEF top
  <2> QED BY <2>2
<1>3. bullets \in Seq(All) /\ <<End>> \in Seq(All) /\ k \in Nat
  <2> HIDE DEF top
  <2> QED OBVIOUS
<1> HIDE DEF top, All
<1>4. /\ top \o bullets \in Seq(All) /\ Len(top \o bullets) = 9 + k
      /\ \A i \in 1..9 : (top \o bullets)[i] = top[i]
      /\ \A j \in 1..k : (top \o bullets)[9 + j] = bullets[j]
  <2>1. \A j \in 1..k : 9 + j \in 1..(9 + k) /\ ~(9 + j <= 9) /\ 9 + j - 9 = j
    BY <1>3
  <2>2. \A i \in 1..9 : i \in 1..(9 + k) /\ i <= 9
    BY <1>3
  <2>3. /\ top \o bullets \in Seq(All) /\ Len(top \o bullets) = 9 + k
        /\ \A i \in 1..(9 + k) :
             (top \o bullets)[i] = IF i <= 9 THEN top[i] ELSE bullets[i - 9]
    <3>1. Len(top) = 9 /\ bullets \in Seq(All)
      BY <1>2, <1>3
    <3>2. /\ top \o bullets \in Seq(All) /\ Len(top \o bullets) = Len(top) + Len(bullets)
          /\ \A i \in 1..(Len(top) + Len(bullets)) :
               (top \o bullets)[i] = IF i <= Len(top) THEN top[i] ELSE bullets[i - Len(top)]
      BY ONLY <1>2, <3>1, ConcatProperties
    <3> QED BY ONLY <3>1, <3>2
  <2> HIDE DEF k
  <2>4. \A i \in 1..9 : (top \o bullets)[i] = top[i]
    BY <2>2, <2>3
  <2>5. ASSUME NEW j \in 1..k
        PROVE  (top \o bullets)[9 + j] = bullets[j]
    <3> DEFINE i == 9 + j
    <3>1. i \in 1..(9 + k) /\ ~(i <= 9) /\ i - 9 = j
      BY <2>1
    <3> HIDE DEF i
    <3>2. (top \o bullets)[i] = bullets[j]
      BY <2>3, <3>1
    <3> QED BY <3>2 DEF i
  <2> QED BY <2>3, <2>4, <2>5
<1> DEFINE most == top \o bullets
<1>5. /\ Len(b) = k + 10 /\ b[k + 10] = End
      /\ \A i \in 1..(9 + k) : b[i] = most[i]
  <2>1. most \in Seq(All) /\ Len(most) = 9 + k /\ b = most \o <<End>>
    BY <1>1, <1>4
  <2> HIDE DEF most, b, k
  <2> QED BY <1>3, <2>1
<1>6. \A j \in 1..k : b[9 + j] = bullets[j]
  <2>1. \A j \in 1..k : 9 + j \in 1..(9 + k)
    BY <1>3
  <2> HIDE DEF b, k
  <2> QED BY <1>4, <1>5, <2>1
<1>7. \A i \in 1..9 : b[i] = top[i]
  <2>1. \A i \in 1..9 : i \in 1..(9 + k)
    BY <1>3
  <2> HIDE DEF b, k
  <2> QED BY <1>4, <1>5, <2>1
<1> QED BY <1>5, <1>6, <1>7 DEF top

(* The block an agent means to write.                                      *)
HeaderOf(d) == Header(d.status, d.role, d.blocking, d.risk_level, d.action)
BulletsOf(d) ==
  IF d.blocking_summary = <<>> THEN <<Bullet("none")>>
  ELSE [n \in DOMAIN d.blocking_summary |-> Bullet(d.blocking_summary[n])]

LEMMA BulletsAre ==
  ASSUME meant \in Data
  PROVE  LET bullets == BulletsOf(meant)
             s == meant.blocking_summary
         IN /\ bullets \in Seq(Sayable) /\ Len(bullets) \in Nat \ {0}
            /\ \A j \in 1..Len(bullets) : bullets[j].kind = "bullet"
            /\ s = <<>> => Len(bullets) = 1 /\ bullets[1].value = "none"
            /\ s # <<>> => /\ Len(bullets) = Len(s)
                           /\ \A j \in 1..Len(bullets) : bullets[j].value = s[j]
<1> DEFINE s == meant.blocking_summary
<1>1. s \in Seq({"b1", "b2"}) /\ Len(s) \in Nat /\ DOMAIN s = 1..Len(s)
  BY MeantIs
<1>2. \A v : Bullet(v).kind = "bullet" /\ Bullet(v).value = v
  BY DEF Bullet, Line
<1>3. \A v \in {"none"} \cup ToSet(s) : v \in Values => Bullet(v) \in Sayable
  BY DEF Bullet, Line, Sayable, Lines, Kinds, _REQUIRED_FIELDS
<1>4. /\ Bullet("none") \in Sayable
      /\ \A j \in 1..Len(s) : Bullet(s[j]) \in Sayable
  <2>1. \A j \in 1..Len(s) : s[j] \in {"b1", "b2"} /\ s[j] \in ToSet(s)
    BY <1>1 DEF ToSet
  <2>2. {"none", "b1", "b2"} \subseteq Values
    BY DEF Values
  <2> HIDE DEF s
  <2> QED BY <1>3, <2>1, <2>2
<1> HIDE DEF s
<1>5. CASE s = <<>>
  <2>1. BulletsOf(meant) = <<Bullet("none")>>
    BY <1>5 DEF BulletsOf, s
  <2> QED BY <1>2, <1>4, <1>5, <2>1 DEF s
<1>6. CASE s # <<>>
  <2>1. BulletsOf(meant) = [n \in 1..Len(s) |-> Bullet(s[n])]
    BY <1>1, <1>6 DEF BulletsOf, s
  <2>2. Len(s) # 0
    BY <1>1, <1>6
  <2>3. /\ BulletsOf(meant) \in Seq(Sayable) /\ Len(BulletsOf(meant)) = Len(s)
        /\ \A j \in 1..Len(s) : BulletsOf(meant)[j] = Bullet(s[j])
    <3> HIDE DEF Sayable
    <3> QED BY <1>1, <1>4, <2>1
  <2> QED BY <1>1, <1>2, <1>6, <2>2, <2>3 DEF s
<1> QED BY <1>5, <1>6

LEMMA WrittenIs ==
  ASSUME meant \in Data
  PROVE  LET w == Written(meant)
             k == Len(BulletsOf(meant))
         IN /\ w \in Seq(Sayable) /\ k \in Nat \ {0} /\ Len(w) = k + 10
            /\ \A i \in 1..9 : w[i] = HeaderOf(meant)[i]
            /\ \A j \in 1..k : w[9 + j] = BulletsOf(meant)[j]
            /\ w[k + 10] = End
<1> DEFINE bullets == BulletsOf(meant)
           b == Block(meant.status, meant.role, meant.blocking, meant.risk_level, meant.action,
                      bullets)
<1>1. Written(meant) = b
  BY DEF Written, BulletsOf
<1>2. bullets \in Seq(Sayable) /\ Len(bullets) \in Nat \ {0} /\ meant.role \in Roles
  BY BulletsAre, MeantIs
<1>3. b \in Seq(Sayable)
  BY <1>2, BlockSayable
<1>4. /\ Len(b) = Len(bullets) + 10
      /\ \A i \in 1..9 : b[i] = HeaderOf(meant)[i]
      /\ \A j \in 1..Len(bullets) : b[9 + j] = bullets[j]
      /\ b[Len(bullets) + 10] = End
  <2>1. bullets \in Seq(Sayable)
    BY <1>2
  <2> HIDE DEF bullets
  <2> QED BY ONLY <2>1, BlockShape DEF HeaderOf
<1> HIDE DEF b
<1> QED BY <1>1, <1>2, <1>3, <1>4

(* What kind of line stands where.                                         *)
LEMMA HeaderLines ==
  ASSUME NEW d
  PROVE  LET h == HeaderOf(d)
         IN /\ h[2] = Field("STATUS", d.status) /\ h[3] = Field("ROLE", d.role)
            /\ h[4] = Field("PRIMARY_ARTIFACT", "primary") /\ h[5] = Field("BLOCKING", d.blocking)
            /\ h[6] = Field("RISK", d.risk_level) /\ h[7] = Field("ACTION", d.action)
            /\ h[8] = Field("SUMMARY", "...") /\ h[9] = Field("BLOCKERS", "")
BY DEF HeaderOf, Header

LEMMA HeaderKinds ==
  ASSUME NEW d
  PROVE  HeaderOf(d)[1].kind = "begin" /\ \A i \in 2..9 : HeaderOf(d)[i].kind = "field"
<1>1. \A key, v : Field(key, v).kind = "field"
  BY DEF Field, Line
<1>2. HeaderOf(d)[1].kind = "begin"
  BY DEF HeaderOf, Header, Begin, Line
<1>3. ASSUME NEW i \in 2..9
      PROVE  HeaderOf(d)[i].kind = "field"
  <2>1. i \in {2, 3, 4, 5, 6, 7, 8, 9}
    OBVIOUS
  <2> DEFINE h == HeaderOf(d)
  <2>2. h[2].kind = "field" /\ h[3].kind = "field"
    <3>1. h[2] = Field("STATUS", d.status) /\ h[3] = Field("ROLE", d.role)
      BY HeaderLines
    <3> QED BY <1>1, <3>1
  <2>3. h[4].kind = "field" /\ h[5].kind = "field"
    <3>1. h[4] = Field("PRIMARY_ARTIFACT", "primary") /\ h[5] = Field("BLOCKING", d.blocking)
      BY HeaderLines
    <3> QED BY <1>1, <3>1
  <2>4. h[6].kind = "field" /\ h[7].kind = "field"
    <3>1. h[6] = Field("RISK", d.risk_level) /\ h[7] = Field("ACTION", d.action)
      BY HeaderLines
    <3> QED BY <1>1, <3>1
  <2>5. h[8].kind = "field" /\ h[9].kind = "field"
    <3>1. h[8] = Field("SUMMARY", "...") /\ h[9] = Field("BLOCKERS", "")
      BY HeaderLines
    <3> QED BY <1>1, <3>1
  <2> HIDE DEF h
  <2> QED BY <2>1, <2>2, <2>3, <2>4, <2>5 DEF h
<1> QED BY <1>2, <1>3

LEMMA WrittenKinds ==
  ASSUME meant \in Data
  PROVE  LET w == Written(meant)
             k == Len(BulletsOf(meant))
         IN /\ w[1].kind = "begin" /\ w[k + 10].kind = "end"
            /\ \A i \in 2..9 : w[i].kind = "field"
            /\ \A i \in 10..(k + 9) : w[i].kind = "bullet"
<1> DEFINE w == Written(meant)
           k == Len(BulletsOf(meant))
<1>1. k \in Nat \ {0} /\ \A j \in 1..k : BulletsOf(meant)[j].kind = "bullet"
  BY BulletsAre
<1>2. End.kind = "end"
  BY DEF End, Line
<1>3. /\ \A i \in 1..9 : w[i] = HeaderOf(meant)[i]
      /\ \A j \in 1..k : w[9 + j] = BulletsOf(meant)[j]
      /\ w[k + 10] = End
  BY WrittenIs
<1> HIDE DEF w, k
<1>4. w[1].kind = "begin" /\ \A i \in 2..9 : w[i].kind = "field"
  BY <1>3, HeaderKinds
<1>5. ASSUME NEW i \in 10..(k + 9)
      PROVE  w[i].kind = "bullet"
  <2> DEFINE j == i - 9
  <2>1. j \in 1..k /\ 9 + j = i
    BY <1>1
  <2> HIDE DEF j
  <2> QED BY <1>1, <1>3, <2>1
<1> QED BY <1>2, <1>3, <1>4, <1>5 DEF w, k

-------------------------------------------------------------------------------
(* An answer that was cut off has no END, and no JSON in it either.        *)
LEMMA InvCutOff ==
  IInv => CutOffRejected
<1> SUFFICES ASSUME IInv, IsStrictPrefix(text, Written(meant)) PROVE ~Result.valid
  BY DEF CutOffRejected
<1> DEFINE w == Written(meant)
           k == Len(BulletsOf(meant))
<1>1. /\ w \in Seq(Sayable) /\ k \in Nat \ {0} /\ Len(w) = k + 10
      /\ text \in Seq(Sayable) /\ Len(text) \in Nat /\ DOMAIN text = 1..Len(text)
  BY WrittenIs DEF IInv
<1>2. /\ w[1].kind = "begin"
      /\ \A i \in 2..9 : w[i].kind = "field"
      /\ \A i \in 10..(k + 9) : w[i].kind = "bullet"
  BY WrittenKinds DEF IInv
<1> HIDE DEF w, k
<1>3. Len(text) <= Len(w) /\ SubSeq(text, 1, Len(text)) = SubSeq(w, 1, Len(text)) /\ text # w
  BY DEF IsStrictPrefix, IsPrefix, w
<1>4. \A i \in 1..Len(text) : text[i] = w[i]
  <2>1. ASSUME NEW i \in 1..Len(text)
        PROVE  text[i] = w[i]
    <3>1. i \in 1..Len(w)
      BY <1>1, <1>3
    <3>2. SubSeq(text, 1, Len(text))[i] = text[i]
      BY <1>1
    <3>3. SubSeq(w, 1, Len(text))[i] = w[i]
      BY <1>1, <1>3, <3>1
    <3> QED BY <1>3, <3>2, <3>3
  <2> QED BY <2>1
<1>5. Len(text) # Len(w)
  BY <1>1, <1>3, <1>4, SeqEqual
<1>6. \A i \in 1..Len(text) : text[i].kind \in {"begin", "field", "bullet"}
  <2>1. ASSUME NEW i \in 1..Len(text)
        PROVE  text[i].kind \in {"begin", "field", "bullet"}
    <3>1. i = 1 \/ i \in 2..9 \/ i \in 10..(k + 9)
      <4>1. \A x, y \in Nat : \A z \in 1..x :
              x <= y + 10 /\ x # y + 10 => z = 1 \/ z \in 2..9 \/ z \in 10..(y + 9)
        OBVIOUS
      <4>2. k \in Nat /\ Len(text) <= k + 10 /\ Len(text) # k + 10
        BY <1>1, <1>3, <1>5
      <4> QED BY <1>1, <4>1, <4>2
    <3> QED BY <1>2, <1>4, <3>1
  <2> QED BY <2>1
<1>7. Places(text, "end") = {} /\ Opens(text) = {}
  <2>1. Json.kind = "json"
    BY DEF Json, Line
  <2> QED BY <1>1, <1>6, <2>1 DEF Places, Opens
<1>8. ~_parse_structured_summary(role, text).valid
  BY <1>7, Structured DEF Marked
<1> QED BY <1>7, <1>8, ResultIs

(* A summary whose end was cut off is not accepted, wherever it was cut.   *)
THEOREM CutOffIsRejected == Spec => []CutOffRejected
BY Invariance, InvCutOff, PTL

-------------------------------------------------------------------------------
(* What the reader finds in the block that was meant.                      *)
LEMMA WrittenBlock ==
  ASSUME meant \in Data
  PROVE  LET w == Written(meant)
             k == Len(BulletsOf(meant))
             block == BlockOf(w)
         IN /\ Marked(w) /\ Places(w, "next_role") = {}
            /\ block \in Seq(Lines) /\ Len(block) = k + 8
            /\ \A i \in 1..8 : block[i] = HeaderOf(meant)[i + 1]
            /\ \A i \in 1..8 : block[i].kind = "field"
            /\ \A j \in 1..k : block[8 + j] = BulletsOf(meant)[j]
            /\ \A i \in 9..(k + 8) : block[i].kind = "bullet"
<1> DEFINE w == Written(meant)
           k == Len(BulletsOf(meant))
           block == BlockOf(w)
           bullets == BulletsOf(meant)
           top == HeaderOf(meant)
<1>1. /\ w \in Seq(Sayable) /\ k \in Nat \ {0} /\ Len(w) = k + 10
      /\ \A i \in 1..9 : w[i] = top[i]
      /\ \A j \in 1..k : w[9 + j] = bullets[j]
  BY WrittenIs
<1>2. /\ w[1].kind = "begin" /\ w[k + 10].kind = "end"
      /\ \A i \in 2..9 : w[i].kind = "field"
      /\ \A i \in 10..(k + 9) : w[i].kind = "bullet"
  BY WrittenKinds
<1> HIDE DEF w, k, bullets, top
<1>3. \A i \in 1..Len(w) : i = 1 \/ i \in 2..9 \/ i \in 10..(k + 9) \/ i = k + 10
  BY <1>1
<1>4. DOMAIN w = 1..Len(w) /\ 1 \in 1..Len(w) /\ k + 10 \in 1..Len(w)
  BY <1>1
<1>5. Places(w, "begin") = {1} /\ Places(w, "end") = {k + 10} /\ Places(w, "next_role") = {}
  BY <1>2, <1>3, <1>4 DEF Places
<1>6. FirstPlace(w, "begin") = 1 /\ FirstPlace(w, "end") = k + 10
  BY <1>5 DEF FirstPlace
<1>7. Marked(w)
  <2>1. 1 < k + 10
    BY <1>1
  <2> QED BY <1>5, <1>6, <2>1 DEF Marked
<1>8. block = SubSeq(w, 2, k + 9)
  <2>1. block = SubSeq(w, 1 + 1, (k + 10) - 1)
    BY <1>5, <1>6 DEF BlockOf
  <2>2. 1 + 1 = 2 /\ (k + 10) - 1 = k + 9
    BY <1>1
  <2> HIDE DEF block
  <2> QED BY <2>1, <2>2
<1> HIDE DEF block
<1>9. Len(block) = k + 8 /\ \A i \in 1..(k + 8) : block[i] = w[i + 1]
  BY <1>1, <1>8
<1>10. block \in Seq(Lines)
  <2>1. block \in Seq(Sayable)
    BY <1>1, <1>7, BlockIs DEF block
  <2>2. Sayable \subseteq Lines
    BY DEF Sayable
  <2> HIDE DEF Sayable
  <2> QED BY <2>1, <2>2
<1>11. ASSUME NEW i \in 1..8
       PROVE  block[i] = top[i + 1] /\ block[i].kind = "field"
  <2>1. i \in 1..(k + 8) /\ i + 1 \in 1..9 /\ i + 1 \in 2..9
    BY <1>1
  <2> QED BY <1>1, <1>2, <1>9, <2>1
<1>12. ASSUME NEW j \in 1..k
       PROVE  block[8 + j] = bullets[j]
  <2>1. 8 + j \in 1..(k + 8) /\ 8 + j + 1 = 9 + j
    BY <1>1
  <2> QED BY <1>1, <1>9, <2>1
<1>13. ASSUME NEW i \in 9..(k + 8)
       PROVE  block[i].kind = "bullet"
  <2>1. i \in 1..(k + 8) /\ i + 1 \in 10..(k + 9)
    BY <1>1
  <2> QED BY <1>2, <1>9, <2>1
<1> QED BY <1>5, <1>7, <1>9, <1>10, <1>11, <1>12, <1>13 DEF w, k, block, bullets, top

KeyAt ==
  <<"STATUS", "ROLE", "PRIMARY_ARTIFACT", "BLOCKING", "RISK", "ACTION", "SUMMARY", "BLOCKERS">>

LEMMA HeaderKeys ==
  ASSUME NEW d
  PROVE  \A i \in 1..8 : HeaderOf(d)[i + 1].key = KeyAt[i]
<1> DEFINE h == HeaderOf(d)
<1>1. \A key, v : Field(key, v).key = key
  BY DEF Field, Line
<1>2. h[2].key = "STATUS" /\ h[3].key = "ROLE"
  <2>1. h[2] = Field("STATUS", d.status) /\ h[3] = Field("ROLE", d.role)
    BY HeaderLines
  <2> QED BY <1>1, <2>1
<1>3. h[4].key = "PRIMARY_ARTIFACT" /\ h[5].key = "BLOCKING"
  <2>1. h[4] = Field("PRIMARY_ARTIFACT", "primary") /\ h[5] = Field("BLOCKING", d.blocking)
    BY HeaderLines
  <2> QED BY <1>1, <2>1
<1>4. h[6].key = "RISK" /\ h[7].key = "ACTION"
  <2>1. h[6] = Field("RISK", d.risk_level) /\ h[7] = Field("ACTION", d.action)
    BY HeaderLines
  <2> QED BY <1>1, <2>1
<1>5. h[8].key = "SUMMARY" /\ h[9].key = "BLOCKERS"
  <2>1. h[8] = Field("SUMMARY", "...") /\ h[9] = Field("BLOCKERS", "")
    BY HeaderLines
  <2> QED BY <1>1, <2>1
<1> HIDE DEF h
<1>6. ASSUME NEW i \in 1..8
      PROVE  h[i + 1].key = KeyAt[i]
  <2>1. CASE i = 1
    BY <1>2, <2>1 DEF KeyAt
  <2>2. CASE i = 2
    BY <1>2, <2>2 DEF KeyAt
  <2>3. CASE i = 3
    BY <1>3, <2>3 DEF KeyAt
  <2>4. CASE i = 4
    BY <1>3, <2>4 DEF KeyAt
  <2>5. CASE i = 5
    BY <1>4, <2>5 DEF KeyAt
  <2>6. CASE i = 6
    BY <1>4, <2>6 DEF KeyAt
  <2>7. CASE i = 7
    BY <1>5, <2>7 DEF KeyAt
  <2>8. CASE i = 8
    BY <1>5, <2>8 DEF KeyAt
  <2> QED BY <2>1, <2>2, <2>3, <2>4, <2>5, <2>6, <2>7, <2>8
<1> QED BY <1>6 DEF h

LEMMA KeysDiffer ==
  /\ \A i \in 1..8 : KeyAt[i] \in _REQUIRED_FIELDS
  /\ \A key \in _REQUIRED_FIELDS : \E i \in 1..8 : KeyAt[i] = key
  /\ \A i, j \in 1..8 : KeyAt[i] = KeyAt[j] => i = j
<1>1. \A i \in 1..8 : KeyAt[i] \in _REQUIRED_FIELDS
  BY DEF KeyAt, _REQUIRED_FIELDS
<1>2. \A key \in _REQUIRED_FIELDS : \E i \in 1..8 : KeyAt[i] = key
  BY DEF KeyAt, _REQUIRED_FIELDS
<1>3. \A i, j \in 1..8 : KeyAt[i] = KeyAt[j] => i = j
  BY DEF KeyAt
<1> QED BY <1>1, <1>2, <1>3

LEMMA WrittenFields ==
  ASSUME meant \in Data
  PROVE  \A i \in 1..8 :
           ReadLines(BlockOf(Written(meant))).fields[KeyAt[i]] = HeaderOf(meant)[i + 1].value
<1> DEFINE k == Len(BulletsOf(meant))
           block == BlockOf(Written(meant))
           f == ReadLines(block).fields
<1>1. /\ block \in Seq(Lines) /\ Len(block) = k + 8 /\ k \in Nat
      /\ \A i \in 1..8 : block[i] = HeaderOf(meant)[i + 1] /\ block[i].kind = "field"
      /\ \A i \in 9..(k + 8) : block[i].kind = "bullet"
  BY WrittenBlock, WrittenIs
<1>2. LastValues(block, f, k + 8)
  BY <1>1, ReadsAll DEF ReadSoFar
<1> HIDE DEF block, f, k
<1>3. \A i \in 1..8 : block[i].key = KeyAt[i]
  BY <1>1, HeaderKeys
<1>4. ASSUME NEW i \in 1..8
      PROVE  f[KeyAt[i]] = HeaderOf(meant)[i + 1].value
  <2>1. FieldsTo(block, KeyAt[i], k + 8) = {i}
    <3>1. i \in FieldsTo(block, KeyAt[i], k + 8)
      BY <1>1, <1>3 DEF FieldsTo
    <3>2. ASSUME NEW n \in FieldsTo(block, KeyAt[i], k + 8)
          PROVE  n = i
      <4>1. n \in 1..(k + 8) /\ block[n].kind = "field" /\ block[n].key = KeyAt[i]
        BY DEF FieldsTo
      <4>2. n \in 1..8
        BY <1>1, <4>1
      <4> QED BY <1>3, <4>1, <4>2, KeysDiffer
    <3> QED BY <3>1, <3>2
  <2>2. f[KeyAt[i]] = block[i].value
    BY <1>2, <2>1, KeysDiffer DEF LastValues
  <2> QED BY <1>1, <2>2
<1> QED BY <1>4 DEF f, block

LEMMA WrittenBlockers ==
  ASSUME meant \in Data
  PROVE  LET b == ReadLines(BlockOf(Written(meant))).blockers
             bullets == BulletsOf(meant)
         IN /\ b \in Seq(Values) /\ Len(b) = Len(bullets)
            /\ \A j \in 1..Len(bullets) : b[j] = bullets[j].value
<1> DEFINE bullets == BulletsOf(meant)
           k == Len(bullets)
           block == BlockOf(Written(meant))
           b == ReadLines(block).blockers
<1>1. /\ block \in Seq(Lines) /\ Len(block) = k + 8 /\ k \in Nat
      /\ \A i \in 1..8 : block[i] = HeaderOf(meant)[i + 1] /\ block[i].kind = "field"
      /\ \A j \in 1..k : block[8 + j] = bullets[j]
      /\ \A i \in 9..(k + 8) : block[i].kind = "bullet"
  BY WrittenBlock, WrittenIs
<1>2. b \in Seq(Values) /\ InOrder(block, b, k + 8)
  BY <1>1, ReadsAll DEF ReadSoFar, ReadStates
<1> HIDE DEF block, b, k, bullets
<1>3. block[8].key = "BLOCKERS" /\ block[8].kind = "field"
  <2>1. HeaderOf(meant)[8 + 1].key = KeyAt[8] /\ KeyAt[8] = "BLOCKERS"
    BY HeaderKeys DEF KeyAt
  <2> QED BY <1>1, <2>1
<1>4. ASSUME NEW n \in 8..(k + 8)
      PROVE  UnderTo(block, n) = 9..n /\ Cardinality(9..n) = n - 8
  <2>1. ASSUME NEW i \in 9..n
        PROVE  i \in UnderTo(block, n)
    <3>1. 8 \in FieldsTo(block, "BLOCKERS", i)
      BY <1>1, <1>3 DEF FieldsTo
    <3>2. \A j \in (8 + 1)..i : block[j].kind \in {"bullet", "blank"}
      BY <1>1
    <3>3. Headed(block, i)
      BY <3>1, <3>2 DEF Headed
    <3> QED BY <1>1, <3>3 DEF UnderTo
  <2>2. ASSUME NEW i \in UnderTo(block, n)
        PROVE  i \in 9..n
    <3>1. i \in 1..n /\ block[i].kind = "bullet"
      BY DEF UnderTo
    <3>2. i \notin 1..8
      BY <1>1, <3>1
    <3> QED BY <1>1, <3>1, <3>2
  <2>3. Cardinality(9..n) = n - 8
    <3>1. Cardinality(9..n) = IF 9 > n THEN 0 ELSE n - 9 + 1
      BY <1>1, FS_Interval
    <3> QED BY <1>1, <3>1
  <2> QED BY <2>1, <2>2, <2>3
<1>5. Len(b) = k
  <2> DEFINE n == k + 8
  <2>1. n \in 8..(k + 8) /\ n - 8 = k
    BY <1>1
  <2>2. Len(b) = Cardinality(UnderTo(block, n))
    BY <1>2 DEF InOrder
  <2> HIDE DEF n
  <2>3. Cardinality(UnderTo(block, n)) = n - 8
    BY <1>4, <2>1
  <2> QED BY <2>1, <2>2, <2>3
<1>6. ASSUME NEW j \in 1..k
      PROVE  b[j] = bullets[j].value
  <2> DEFINE n == 8 + j
  <2>1. n \in 9..(k + 8) /\ n \in 8..(k + 8) /\ k + 8 \in 8..(k + 8) /\ n - 8 = j
    BY <1>1
  <2>2. block[n] = bullets[j]
    BY <1>1
  <2> HIDE DEF n
  <2>3. n \in UnderTo(block, k + 8) /\ Cardinality(UnderTo(block, n)) = j
    BY <1>4, <2>1
  <2> QED BY <1>2, <2>2, <2>3 DEF InOrder
<1> QED BY <1>2, <1>5, <1>6 DEF b, block, k, bullets

(* The blockers that are read of the block are those that were meant.      *)
LEMMA WrittenNamed ==
  ASSUME meant \in Data
  PROVE  Named(ReadLines(BlockOf(Written(meant))).blockers) = meant.blocking_summary
<1> DEFINE b == ReadLines(BlockOf(Written(meant))).blockers
           bullets == BulletsOf(meant)
           s == meant.blocking_summary
<1>1. /\ b \in Seq(Values) /\ Len(b) = Len(bullets)
      /\ \A j \in 1..Len(bullets) : b[j] = bullets[j].value
  BY WrittenBlockers
<1>2. /\ s \in Seq({"b1", "b2"})
      /\ s = <<>> => Len(bullets) = 1 /\ bullets[1].value = "none"
      /\ s # <<>> => /\ Len(bullets) = Len(s)
                     /\ \A j \in 1..Len(bullets) : bullets[j].value = s[j]
  BY BulletsAre, MeantIs
<1> HIDE DEF b, bullets, s
<1>3. NamedSoFar(b, Named(b), Len(b))
  BY <1>1, NamedAre
<1>4. CASE s = <<>>
  <2>1. \A n \in 1..Len(b) : b[n] = "none"
    BY <1>1, <1>2, <1>4
  <2>2. Named(b) = <<>>
    BY <1>3, <2>1 DEF NamedSoFar
  <2> QED BY <1>4, <2>2 DEF b, s
<1>5. CASE s # <<>>
  <2>1. Len(b) = Len(s) /\ \A n \in 1..Len(b) : b[n] = s[n] /\ s[n] \in {"b1", "b2"}
    BY <1>1, <1>2, <1>5
  <2>2. \A n \in 1..Len(b) : b[n] # "none"
    BY <2>1
  <2>3. /\ Named(b) \in Seq(Values) /\ Len(Named(b)) = Len(s)
        /\ \A n \in 1..Len(s) : Named(b)[n] = s[n]
    BY <1>3, <2>1, <2>2 DEF NamedSoFar
  <2>4. s \in Seq(Values)
    <3>1. {"b1", "b2"} \subseteq Values
      BY DEF Values
    <3> QED BY <1>2, <3>1
  <2>5. Named(b) = s
    BY <2>3, <2>4, SeqEqual
  <2> QED BY <2>5 DEF b, s
<1> QED BY <1>4, <1>5

LEMMA InvFormats ==
  IInv => FormatsAgree
<1> SUFFICES ASSUME IInv, _try_json_parse(role, meant).valid
             PROVE  _parse_structured_summary(role, Written(meant)) =
                      _try_json_parse(role, meant)
  BY DEF FormatsAgree
<1>1. meant \in Data
  BY DEF IInv
<1> DEFINE w == Written(meant)
           read == ReadLines(BlockOf(w))
           f == read.fields
           h == HeaderOf(meant)
<1>2. Marked(w) /\ Places(w, "next_role") = {}
  BY <1>1, WrittenBlock
<1>3. \A i \in 1..8 : f[KeyAt[i]] = h[i + 1].value
  BY <1>1, WrittenFields
<1>4. Named(read.blockers) = meant.blocking_summary
  BY <1>1, WrittenNamed
<1>5. /\ meant.status \in {"completed", "blocked"} /\ meant.blocking \in {"yes", "no"}
      /\ meant.risk_level \in {"HIGH", "NONE"} /\ meant.role = role
      /\ meant.action \in (IF role = "reviewer" THEN {"PASS", "BLOCKER"} ELSE {"NONE"})
      /\ _try_json_parse(role, meant) =
           [valid |-> TRUE, status |-> meant.status, blocking |-> meant.blocking,
            risk_level |-> meant.risk_level, action |-> meant.action,
            blocking_summary |-> meant.blocking_summary]
  BY <1>1, FromJson, MeantIs
<1>6. \A key, v : Field(key, v).value = v
  BY DEF Field, Line
<1> HIDE DEF f, h
<1>7. f["STATUS"] = meant.status /\ f["ROLE"] = meant.role
  <2>1. h[2] = Field("STATUS", meant.status) /\ h[3] = Field("ROLE", meant.role)
    BY HeaderLines DEF h
  <2>2. f["STATUS"] = h[1 + 1].value /\ f["ROLE"] = h[2 + 1].value
    BY <1>3 DEF KeyAt
  <2> QED BY <1>6, <2>1, <2>2
<1>8. f["PRIMARY_ARTIFACT"] = "primary" /\ f["BLOCKING"] = meant.blocking
  <2>1. h[4] = Field("PRIMARY_ARTIFACT", "primary") /\ h[5] = Field("BLOCKING", meant.blocking)
    BY HeaderLines DEF h
  <2>2. f["PRIMARY_ARTIFACT"] = h[3 + 1].value /\ f["BLOCKING"] = h[4 + 1].value
    BY <1>3 DEF KeyAt
  <2> QED BY <1>6, <2>1, <2>2
<1>9. f["RISK"] = meant.risk_level /\ f["ACTION"] = meant.action
  <2>1. h[6] = Field("RISK", meant.risk_level) /\ h[7] = Field("ACTION", meant.action)
    BY HeaderLines DEF h
  <2>2. f["RISK"] = h[5 + 1].value /\ f["ACTION"] = h[6 + 1].value
    BY <1>3 DEF KeyAt
  <2> QED BY <1>6, <2>1, <2>2
<1>10. f["SUMMARY"] = "..." /\ f["BLOCKERS"] = ""
  <2>1. h[8] = Field("SUMMARY", "...") /\ h[9] = Field("BLOCKERS", "")
    BY HeaderLines DEF h
  <2>2. f["SUMMARY"] = h[7 + 1].value /\ f["BLOCKERS"] = h[8 + 1].value
    BY <1>3 DEF KeyAt
  <2>3. h[8].value = "..."
    BY <1>6, <2>1
  <2>4. h[9].value = ""
    BY <1>6, <2>1
  <2>5. 7 + 1 = 8 /\ 8 + 1 = 9
    OBVIOUS
  <2> QED BY <2>2, <2>3, <2>4, <2>5
<1>11. Missing(f) = {}
  <2>1. Absent \notin {meant.status, meant.role, "primary", meant.blocking, meant.risk_level,
                       meant.action, "...", ""}
    BY <1>1, MeantIs DEF Absent, Roles
  <2>2. \A key \in _REQUIRED_FIELDS : f[key] # Absent
    BY <1>7, <1>8, <1>9, <1>10, <2>1 DEF _REQUIRED_FIELDS
  <2> QED BY <2>2 DEF Missing
<1>12. /\ Known(f["RISK"], {"HIGH"}) = meant.risk_level
       /\ Known(f["ACTION"], {"PASS", "BLOCKER"}) = meant.action
       /\ (role = "reviewer") = (meant.action # "NONE")
  BY <1>5, <1>9 DEF Known
<1>13. _parse_structured_summary(role, w) =
         [valid |-> TRUE, status |-> f["STATUS"], blocking |-> f["BLOCKING"],
          risk_level |-> Known(f["RISK"], {"HIGH"}),
          action |-> Known(f["ACTION"], {"PASS", "BLOCKER"}),
          blocking_summary |-> Named(read.blockers)]
  BY <1>2, <1>5, <1>7, <1>8, <1>11, <1>12 DEF _parse_structured_summary, f
<1> QED BY <1>4, <1>5, <1>7, <1>8, <1>12, <1>13

(* A summary that _try_json_parse accepts is read from the structured      *)
(* format with the same content.                                           *)
THEOREM FormatsRead == Spec => []FormatsAgree
BY Invariance, InvFormats, PTL
===============================================================================
