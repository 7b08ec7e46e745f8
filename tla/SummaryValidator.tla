--------------------------- MODULE SummaryValidator ---------------------------
(***************************************************************************)
(* summary_validator.py: how the agent's answer to the summary prompt is   *)
(* read.  The answer is a sequence of lines; the agent means to write one  *)
(* block in the format it was shown, and some mishaps befall it: lines     *)
(* lost, doubled, out of order, cut off at the end, a remark in between,   *)
(* the shown format repeated first.  Then role_wait decides: the summary   *)
(* if it is valid, a fallback drawn from the main report if not.           *)
(***************************************************************************)
EXTENDS Naturals, FiniteSets, SequencesExt

CONSTANTS
  Data,          \* what an agent may mean to say
  Reports,       \* the reviewer's reports: which ACTIONs they mention, in order
  MaxMishaps

VARIABLES
  role,
  meant,       \* what the agent means to say
  text,        \* the lines of its answer
  mishaps,     \* how many of them so far
  decision     \* what role_wait makes of it, when it is read

vars == <<role, meant, text, mishaps, decision>>

-------------------------------------------------------------------------------
Roles == {"coder", "reviewer"}

(* "?" is any value the format does not know; a blocking "?" is neither    *)
(* yes nor no, an action NONE is null in JSON.                             *)
ASSUME SummaryAssumption ==
  /\ Data \subseteq [status : {"completed", "blocked", "?"}, role : Roles,
                     blocking : {"yes", "no", "?"}, risk_level : {"HIGH", "NONE", "?"},
                     action : {"PASS", "BLOCKER", "NONE", "?"}, blocking_summary : Seq({"b1", "b2"})]
  /\ Reports \subseteq Seq({"PASS", "BLOCKER", "NEEDS_FIX", "BLOCKED"})
  /\ MaxMishaps \in Nat

_REQUIRED_FIELDS ==
  {"STATUS", "ROLE", "PRIMARY_ARTIFACT", "BLOCKING", "RISK", "ACTION", "SUMMARY", "BLOCKERS"}

Line(kind, key, value) == [kind |-> kind, key |-> key, value |-> value]
Field(key, value) == Line("field", key, value)
Bullet(value) == Line("bullet", "", value)
Begin == Line("begin", "", "")
End == Line("end", "", "")
Blank == Line("blank", "", "")
Remark == Line("remark", "", "")          \* neither field nor bullet
NextRole == Line("next_role", "", "")     \* "next_role: ..."
Json == Line("json", "", "")              \* all of `meant' as a JSON object

(* prompts/summaries/role_summary.md, and the same filled in.              *)
Block(status, role_, blocking, risk, action, bullets) ==
  <<Begin, Field("STATUS", status), Field("ROLE", role_),
    Field("PRIMARY_ARTIFACT", "primary"), Field("BLOCKING", blocking), Field("RISK", risk),
    Field("ACTION", action), Field("SUMMARY", "..."), Field("BLOCKERS", "")>>
    \o bullets \o <<End>>
Format(r) == Block("?", r, "?", "?", "?", <<Bullet("none")>>)
Written(d) ==
  Block(d.status, d.role, d.blocking, d.risk_level, d.action,
        IF d.blocking_summary = <<>> THEN <<Bullet("none")>>
        ELSE [n \in DOMAIN d.blocking_summary |-> Bullet(d.blocking_summary[n])])

-------------------------------------------------------------------------------
(* _parse_structured_summary.                                              *)

(* From the first BEGIN to the first END of the whole text, if they come   *)
(* in this order; a text without them is never valid, for the names of the *)
(* fields found and of those required differ in case.                      *)
Places(lines, kind) == {n \in DOMAIN lines : lines[n].kind = kind}
FirstPlace(lines, kind) ==
  CHOOSE n \in Places(lines, kind) : \A m \in Places(lines, kind) : n <= m
EndOptional(lines) == Places(lines, "begin") # {}   \* mutant: a block need not be closed
Marked(lines) ==
  /\ Places(lines, "begin") # {} /\ Places(lines, "end") # {}
  /\ FirstPlace(lines, "begin") < FirstPlace(lines, "end")
BlockOf(lines) ==
  SubSeq(lines, FirstPlace(lines, "begin") + 1,
         IF Places(lines, "end") = {} THEN Len(lines) ELSE FirstPlace(lines, "end") - 1)

(* Line by line: bullets belong to BLOCKERS until a line is neither a      *)
(* bullet nor blank; a field that comes twice has its last value.          *)
Absent == "absent"
NothingRead ==
  [fields |-> [key \in _REQUIRED_FIELDS |-> Absent], blockers |-> <<>>, in_blockers |-> FALSE]

StaysInBlockers(read, line) == \* mutant: only a field ends the blockers
  CASE line.kind = "bullet" -> IF read.in_blockers
                                 THEN [read EXCEPT !.blockers = Append(@, line.value)] ELSE read
    [] line.kind = "field"  -> [read EXCEPT !.fields[line.key] = line.value,
                                            !.in_blockers = line.key = "BLOCKERS"]
    [] OTHER                -> read
ReadLine(read, line) ==
  CASE line.kind = "blank"  -> read
    [] line.kind = "bullet" -> IF read.in_blockers
                                 THEN [read EXCEPT !.blockers = Append(@, line.value)] ELSE read
    [] line.kind = "field"  -> [read EXCEPT !.fields[line.key] = line.value,
                                            !.in_blockers = line.key = "BLOCKERS"]
    [] OTHER                -> [read EXCEPT !.in_blockers = FALSE]
ReadLines(lines) ==
  LET read[n \in 0..Len(lines)] ==
        IF n = 0 THEN NothingRead ELSE ReadLine(read[n - 1], lines[n])
  IN read[Len(lines)]

Invalid(error) == [valid |-> FALSE, error |-> error]
Known(value, values) == IF value \in values THEN value ELSE "NONE"
KeepNone(blocker) == TRUE              \* mutant: "none" is a blocker
NotNone(blocker) == blocker # "none"
Named(blockers) ==
  LET named[n \in 0..Len(blockers)] ==
        IF n = 0 THEN <<>>
        ELSE IF NotNone(blockers[n]) THEN Append(named[n - 1], blockers[n])
        ELSE named[n - 1]
  IN named[Len(blockers)]

MissingText(fields) ==    \* mutant: a choice that is missing is NONE
  {key \in {"STATUS", "ROLE", "PRIMARY_ARTIFACT", "BLOCKING", "SUMMARY"} : fields[key] = Absent}
Missing(fields) == {key \in _REQUIRED_FIELDS : fields[key] = Absent}

_parse_structured_summary(r, lines) ==
  LET read == ReadLines(BlockOf(lines))
      f == read.fields
      action == Known(f["ACTION"], {"PASS", "BLOCKER"})
  IN IF ~Marked(lines) \/ Missing(f) # {}
       THEN Invalid("SummaryMissingFields")
     ELSE IF Places(lines, "next_role") # {} THEN Invalid("SummaryForbiddenFields")
     ELSE IF f["STATUS"] \notin {"completed", "blocked"} THEN Invalid("SummaryInvalidField")
     ELSE IF f["ROLE"] # r THEN Invalid("SummaryRoleMismatch")
     ELSE IF f["PRIMARY_ARTIFACT"] # "primary" THEN Invalid("SummaryArtifactMismatch")
     ELSE IF f["BLOCKING"] \notin {"yes", "no"} THEN Invalid("SummaryInvalidField")
     ELSE IF (r = "reviewer") # (action # "NONE") THEN Invalid("SummaryInvalidField")
     ELSE [valid |-> TRUE, status |-> f["STATUS"], blocking |-> f["BLOCKING"],
           risk_level |-> Known(f["RISK"], {"HIGH"}), action |-> action,
           blocking_summary |-> Named(read.blockers)]

(* _try_json_parse of an object with all its fields and no more.           *)
_try_json_parse(r, d) ==
  IF d.status = "?" THEN Invalid("SummaryInvalidField")
  ELSE IF d.role # r THEN Invalid("SummaryRoleMismatch")
  ELSE IF d.blocking = "?" \/ d.risk_level = "?" THEN Invalid("SummaryInvalidField")
  ELSE IF d.action \notin (IF r = "reviewer" THEN {"PASS", "BLOCKER"} ELSE {"NONE"})
    THEN Invalid("SummaryInvalidField")
  ELSE [valid |-> TRUE, status |-> d.status, blocking |-> d.blocking,
        risk_level |-> d.risk_level, action |-> d.action,
        blocking_summary |-> d.blocking_summary]

(* The structured text first; JSON if the text looks like it, and nothing  *)
(* stands around the object.                                               *)
Opens(lines) == {n \in DOMAIN lines : lines[n] = Json /\ \A m \in 1..(n - 1) : lines[m] = Blank}
validate_summary(r, lines, d) ==
  LET structured == _parse_structured_summary(r, lines)
  IN IF structured.valid \/ Opens(lines) = {} THEN structured
     ELSE IF \A n \in DOMAIN lines : lines[n] = Blank \/ n \in Opens(lines)
       THEN _try_json_parse(r, d)
     ELSE Invalid("SummaryParseError")

-------------------------------------------------------------------------------
(* derive_reviewer_action_from_main_artifact: the first ACTION: PASS or    *)
(* ACTION: BLOCKER anywhere in the report.                                 *)
derive_reviewer_action_from_main_artifact(report) ==
  LET known == {n \in DOMAIN report : report[n] \in {"PASS", "BLOCKER"}}
  IN IF known = {} THEN "NONE" ELSE report[CHOOSE n \in known : \A m \in known : n <= m]

FallbackWithoutAction(r, report) ==  \* mutant: the reviewer's fallback like the others'
  [valid |-> TRUE, status |-> "completed", blocking |-> "no", risk_level |-> "NONE",
   action |-> IF r = "reviewer" THEN derive_reviewer_action_from_main_artifact(report)
              ELSE "NONE",
   blocking_summary |-> <<>>]
safe_fallback_summary(r, report) ==
  LET action == IF r = "reviewer" THEN derive_reviewer_action_from_main_artifact(report)
                ELSE "NONE"
  IN IF r = "reviewer" /\ action = "NONE"
       THEN [valid |-> TRUE, status |-> "blocked", blocking |-> "yes", risk_level |-> "HIGH",
             action |-> "BLOCKER", blocking_summary |-> <<"underivable">>]
       ELSE [valid |-> TRUE, status |-> "completed", blocking |-> "no", risk_level |-> "NONE",
             action |-> action, blocking_summary |-> <<>>]

-------------------------------------------------------------------------------
(* The agent's answer, and what befalls it.                                *)
Init ==
  /\ role \in Roles /\ meant \in Data
  /\ text \in {Written(meant), <<Json>>}
  /\ mishaps = 0
  /\ decision = Invalid("none")

Lose(n) == text' = RemoveAt(text, n)
Repeat(n) == text' = InsertAt(text, n, text[n])
Swap(n) == n < Len(text) /\ text' = [text EXCEPT ![n] = text[n + 1], ![n + 1] = text[n]]
Cut(n) == text' = SubSeq(text, 1, n - 1)
Interject(n) == \E line \in {Remark, Blank, NextRole} : text' = InsertAt(text, n, line)
Echo == text' = Format(role) \o text

Mishap ==
  /\ decision = Invalid("none") /\ mishaps < MaxMishaps
  /\ Echo \/ \E n \in DOMAIN text : Lose(n) \/ Repeat(n) \/ Swap(n) \/ Cut(n) \/ Interject(n)
  /\ mishaps' = mishaps + 1
  /\ UNCHANGED <<role, meant, decision>>

(* role_wait: validate_summary, or else the fallback from the main report. *)
Result == validate_summary(role, text, meant)

DecideBySummary ==
  /\ decision = Invalid("none") /\ Result.valid
  /\ decision' = [summary |-> Result, report |-> <<>>]
  /\ text' = <<>> /\ UNCHANGED <<role, meant, mishaps>>

DecideByFallback ==
  /\ decision = Invalid("none") /\ ~Result.valid
  /\ \E report \in Reports :
       decision' = [summary |-> safe_fallback_summary(role, report), report |-> report]
  /\ text' = <<>> /\ UNCHANGED <<role, meant, mishaps>>

Next == Mishap \/ DecideBySummary \/ DecideByFallback
Spec == Init /\ [][Next]_vars

-------------------------------------------------------------------------------
(* Properties.                                                             *)

TypeOK ==
  /\ role \in Roles /\ meant \in Data /\ mishaps \in 0..MaxMishaps
  /\ \A n \in DOMAIN text : text[n].key \in _REQUIRED_FIELDS \cup {""}
  /\ decision # Invalid("none") =>
       /\ decision.summary.valid
       /\ ToSet(decision.summary.blocking_summary) \subseteq {"b1", "b2", "underivable"}

(* What the line-by-line reader finds is what the format declares: of each *)
(* field the last value in the block, and as blockers the bullets that     *)
(* follow a BLOCKERS line with nothing but bullets and blanks between.     *)
ReadAsDeclared ==
  Marked(text) =>
    LET block == BlockOf(text)
        read == ReadLines(block)
        Fields(key) == {n \in DOMAIN block : block[n].kind = "field" /\ block[n].key = key}
        Under == {n \in DOMAIN block :
                    /\ block[n].kind = "bullet"
                    /\ \E m \in Fields("BLOCKERS") :
                         m < n /\ \A k \in m..n : block[k].kind \in {"bullet", "blank"} \/ k = m}
    IN /\ \A key \in _REQUIRED_FIELDS :
            IF Fields(key) = {} THEN read.fields[key] = Absent
            ELSE \E n \in Fields(key) : /\ read.fields[key] = block[n].value
                                        /\ \A m \in Fields(key) : m <= n
       /\ Len(read.blockers) = Cardinality(Under)
       /\ \A n \in Under : read.blockers[Cardinality({m \in Under : m <= n})] = block[n].value

(* Whatever of its lines is lost, doubled, displaced or cut off, a summary *)
(* that is accepted says what the agent meant; only its blockers may be    *)
(* fewer or doubled, and a risk the reader does not know, be it the shown  *)
(* format's, is no risk to it.                                             *)
AcceptedAsMeant ==
  Result.valid =>
    /\ Result.status = meant.status /\ Result.blocking = meant.blocking
    /\ \/ Result.risk_level = meant.risk_level
       \/ Result.risk_level = "NONE" /\ Field("RISK", "?") \in ToSet(text)
    /\ Result.action = meant.action \/ role # "reviewer"
    /\ ToSet(Result.blocking_summary) \subseteq ToSet(meant.blocking_summary)

(* A summary that was cut off is not accepted: some of its blockers may be *)
(* on the part that is missing.                                            *)
CutOffRejected == IsStrictPrefix(text, Written(meant)) => ~Result.valid

(* The two formats accept the same summaries with the same content, where  *)
(* JSON accepts one at all.                                                *)
FormatsAgree ==
  _try_json_parse(role, meant).valid =>
    _parse_structured_summary(role, Written(meant)) = _try_json_parse(role, meant)

(* Whatever the agent answered, the reviewer's summary says PASS or        *)
(* BLOCKER and no other role's does; it passes a review only if the agent  *)
(* meant to or its report mentions PASS.                                   *)
AlwaysRoutable ==
  decision # Invalid("none") =>
    /\ (decision.summary.action \in {"PASS", "BLOCKER"}) = (role = "reviewer")
    /\ decision.summary.action = "PASS" => meant.action = "PASS" \/ "PASS" \in ToSet(decision.report)

(* The fallback passes a review only if the report's verdict, which stands *)
(* first in it, is PASS.                                                   *)
FallbackKeepsVerdict ==
  decision # Invalid("none") /\ decision.summary.action = "PASS" /\ decision.report # <<>> =>
    decision.report[1] = "PASS"
===============================================================================
