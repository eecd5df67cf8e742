------------------------------ MODULE RuleChecks ------------------------------
(***************************************************************************)
(* What the rules of an agent's watchlist say about the device: how the    *)
(* condition of a rule is read, how it is applied to what a tool put out,  *)
(* and what the rows, the alerts and the health score make of it.  When a  *)
(* check is begun at all is the subject of Watchlist.                      *)
(*                                                                         *)
(* Values are named by what fmt prints for them.  An object has fields; a  *)
(* text may hold an object written as JSON.                                *)
(***************************************************************************)
EXTENDS Integers, Sequences, FiniteSets, SequencesExt

CONSTANTS
  RuleTools,   \* the tools the registry has
  Sampled,     \* conditions a rule may have, as their authors write them
  Fields,      \* objects: per object its fields and their values
  Written,     \* texts that hold an object, and which
  Numbers,     \* values that are numbers, or texts that can be read as one, and which
  NaN,         \* values that are read as the number that is not a number
  Said,        \* pairs of a text and one that it contains
  Outputs,     \* what tools put out
  Drafts,      \* answers of the model that drafts items
  MaxBad,      \* bounds of the model: checks that find something wrong,
  MaxPuts      \* and PUTs

ASSUME RuleConstants ==
  /\ Outputs \subseteq DOMAIN Fields \cup DOMAIN Written \cup {"text"}
  /\ NaN \subseteq DOMAIN Numbers
  /\ Drafts \subseteq SUBSET [tool : STRING, name : STRING, seconds : Int]

ASSUME RuleBounds == MaxBad \in Nat /\ MaxPuts \in Nat

VARIABLES
  itemRow,  \* per item its row: "absent", or the result it shows and its failures in a row
  noted,    \* per item: what the check found whose result the row shows
  bad,      \* per item: checks that found something wrong since it was first there
  tooEarly, \* has there been a critical alert about an item with fewer than three of them?
  checking, \* per item: the row as it was when the check under way was scheduled
  timers,   \* the items that have a timer in the map of the scheduler
  puts,     \* PUTs so far
  put,      \* the row a PUT has read, with its change, and what was noted by then
  drafted   \* the items drafted from the words of the user

ruleVars == <<itemRow, noted, bad, tooEarly, checking, timers, puts, put, drafted>>

Absent == [status |-> "absent", fails |-> 0, on |-> FALSE]
Fresh == [status |-> "", fails |-> 0, on |-> TRUE]
NotChecking == Absent
NoValue == "missing"
Nil == "<nil>"

\* What conditions are made of; the object that holds a text is one, and there is no value that
\* stands for none.
ASSUME ValueConstants ==
  /\ Sampled \subseteq [tool : STRING, type : STRING, path : Seq(STRING), op : STRING,
                        threshold : STRING, is : STRING, pattern : STRING]
  /\ "raw" \in DOMAIN Fields /\ \A t \in DOMAIN Written : Written[t] \in DOMAIN Fields
  /\ NoValue \notin DOMAIN Fields \cup DOMAIN Written \cup DOMAIN Numbers

-----------------------------------------------------------------------------
(* Conditions                                                              *)

ConditionTypes == {"threshold", "exists", "reachable", "contains", "custom"}
Operators == {"lt", "gt", "eq", "ne", "contains", "not_contains"}

\* ruleToWatchItem: a type that is not known is taken for "threshold", an operator for none.
PlatformCondition(c) ==
  [c EXCEPT !.type = IF @ \in ConditionTypes THEN @ ELSE "threshold",
            !.op = IF @ \in Operators THEN @ ELSE ""]

\* A rule whose condition cannot be read, or that names no tool, is left out.
Translates(c) == c.type # "unreadable" /\ c.tool # ""

PlatformRules == {PlatformCondition(c) : c \in {s \in Sampled : Translates(s)}}

BuiltinRule(name, type, path, op, threshold) ==
  [tool |-> name, type |-> type, path |-> path, op |-> op, threshold |-> threshold,
   is |-> IF threshold = "true" THEN "string" ELSE "number", pattern |-> ""]

BuiltinRules ==
  { BuiltinRule("dns_lookup", "reachable", <<>>, "", Nil),
    BuiltinRule("ping_host", "reachable", <<>>, "", Nil),
    BuiltinRule("firewall_status", "custom", <<"enabled">>, "eq", "true"),
    BuiltinRule("list_ports", "threshold", <<"count">>, "gt", "100"),
    BuiltinRule("disk_usage", "threshold", <<"usage_percent">>, "gt", "90"),
    BuiltinRule("read_system_info", "threshold", <<"memory", "used_percent">>, "gt", "90"),
    BuiltinRule("shell_exec", "reachable", <<>>, "", Nil),
    BuiltinRule("list_services", "reachable", <<>>, "", Nil),
    BuiltinRule("check_tls", "threshold", <<"days_until_expiry">>, "lt", "30") }

-----------------------------------------------------------------------------
(* Evaluation                                                              *)

\* An object, or the one a text holds.
ObjectOf(v) ==
  IF v \in DOMAIN Fields THEN v ELSE IF v \in DOMAIN Written THEN Written[v] ELSE NoValue

FieldOf(v, key) ==
  LET o == ObjectOf(v)
  IN IF o # NoValue /\ key \in DOMAIN Fields[o] THEN Fields[o][key] ELSE NoValue

\* extractByJSONPath: field by field.
Extract(path, output) == FoldLeft(FieldOf, output, path)

ComparesAs(op, a, b) ==
  CASE op = "lt" -> Numbers[a] < Numbers[b] /\ {a, b} \cap NaN = {}
    [] op = "gt" -> Numbers[a] > Numbers[b] /\ {a, b} \cap NaN = {}
    [] op = "eq" -> Numbers[a] = Numbers[b] /\ {a, b} \cap NaN = {}
    [] op = "ne" -> Numbers[a] # Numbers[b] \/ {a, b} \cap NaN # {}

Numeric(v) == v \in DOMAIN Numbers
HasText(v, pattern) == pattern \in {"", v} \/ <<v, pattern>> \in Said
Verdict(triggered) == IF triggered THEN "triggered" ELSE "healthy"

\* A slip: what cannot be found or is no number is below every threshold.
EvalThresholdLeniently(c, v) ==
  IF ~Numeric(v) THEN "healthy"
  ELSE IF Numeric(c.threshold) /\ c.op \in {"lt", "gt", "eq", "ne"}
  THEN Verdict(ComparesAs(c.op, v, c.threshold))
  ELSE "error"

\* What cannot be found or is no number triggers.
EvalThreshold(c, v) ==
  IF ~Numeric(v) THEN "triggered"
  ELSE IF Numeric(c.threshold) /\ c.op \in {"lt", "gt", "eq", "ne"}
  THEN Verdict(ComparesAs(c.op, v, c.threshold))
  ELSE "error"

EvalExists(c, v) ==
  LET shouldExist == c.op = "eq" /\ c.is = "bool" => c.threshold = "true"
  IN Verdict((v \notin {NoValue, Nil}) # shouldExist)

EvalReachable(output) == Verdict(FieldOf(output, "status") \notin {"success", "ok"})

EvalContains(c, v) ==
  LET pattern == IF c.pattern = "" /\ c.is = "string" THEN c.threshold ELSE c.pattern
  IN IF v = NoValue THEN "triggered"
     ELSE CASE c.op \in {"contains", ""} -> Verdict(HasText(v, pattern))
            [] c.op = "not_contains" -> Verdict(~HasText(v, pattern))
            [] OTHER -> "error"

EvalCustom(c, v) ==
  IF v = NoValue THEN "triggered"
  ELSE CASE c.op = "eq" -> Verdict(v = c.threshold)
         [] c.op = "ne" -> Verdict(v # c.threshold)
         [] c.op = "contains" -> Verdict(HasText(v, c.threshold))
         [] c.op = "not_contains" -> Verdict(~HasText(v, c.threshold))
         [] c.op \in {"lt", "gt"} ->
              Verdict(Numeric(v) /\ Numeric(c.threshold) => ComparesAs(c.op, v, c.threshold))
         [] OTHER -> "error"

Evaluate(c, output) ==
  CASE c.type = "threshold" -> EvalThreshold(c, Extract(c.path, output))
    [] c.type = "exists"    -> EvalExists(c, Extract(c.path, output))
    [] c.type = "reachable" -> EvalReachable(output)
    [] c.type = "contains"  -> EvalContains(c, Extract(c.path, output))
    [] c.type = "custom"    -> EvalCustom(c, Extract(c.path, output))
    [] OTHER                -> "error"

\* parseToolOutput: a text that is no JSON becomes the field "raw" of an object.
ParsedOutput(output) == IF ObjectOf(output) = NoValue THEN "raw" ELSE ObjectOf(output)

-----------------------------------------------------------------------------
(* Items and checks                                                        *)

\* An item of a rule, built-in or of the platform, and one of the user.
RuleItems == {"rule", "wish"}

RuleTypeOK ==
  /\ \A i \in RuleItems :
       /\ {itemRow[i], checking[i]} \subseteq
            [status : {"absent", "", "healthy", "triggered", "error"}, fails : 0..MaxBad + 1,
             on : BOOLEAN]
       /\ noted[i] \in {"nothing", "fine", "wrong"} /\ bad[i] \in 0..MaxBad
  /\ tooEarly \in BOOLEAN /\ puts \in 0..MaxPuts /\ timers \subseteq RuleItems

RuleInit ==
  /\ itemRow = [i \in RuleItems |-> IF i = "rule" THEN Fresh ELSE Absent]
  /\ noted = [i \in RuleItems |-> "nothing"]
  /\ bad = [i \in RuleItems |-> 0] /\ tooEarly = FALSE
  /\ checking = itemRow /\ timers = {"rule"}
  /\ puts = 0 /\ put = <<>> /\ drafted = <<>>

\* scheduleItem.  The first check is due two seconds later for each item that has a timer, and
\* keeps what was registered; the model has one check of an item at a time.  The context of a
\* request of the local API ends before it, unless no other item has a timer.
Schedules(i, as, background) ==
  /\ timers' = timers \cup {i}
  /\ IF (background \/ timers \subseteq {i}) /\ checking[i] = NotChecking
     THEN checking' = [checking EXCEPT ![i] = as]
     ELSE UNCHANGED checking

\* The row is replaced; what a check found before is not in it any more.
RegisterItem(i, background) ==
  /\ itemRow' = [itemRow EXCEPT ![i] = Fresh] /\ noted' = [noted EXCEPT ![i] = "nothing"]
  /\ Schedules(i, Fresh, background)
  /\ UNCHANGED <<bad, tooEarly>>

\* The agent starts anew.  It registers the built-in rules whose tools there are; the other rows
\* stay in the store, and nothing schedules them.
RegisterBuiltin ==
  /\ {c \in BuiltinRules : c.tool \in RuleTools} # {}
  /\ itemRow' = [itemRow EXCEPT !["rule"] = Fresh] /\ noted' = [noted EXCEPT !["rule"] = "nothing"]
  /\ checking' = [i \in RuleItems |-> IF i = "rule" THEN Fresh ELSE NotChecking]
  /\ timers' = {"rule"} /\ put' = <<>>
  /\ UNCHANGED <<bad, tooEarly, puts, drafted>>

\* Each sync registers the rules again.
SyncRule ==
  /\ PlatformRules # {}
  /\ RegisterItem("rule", TRUE)
  /\ UNCHANGED <<puts, put, drafted>>

\* PUT: the row is read ...
ReadRow(i, on) ==
  /\ itemRow[i] # Absent /\ put = <<>> /\ puts < MaxPuts
  /\ puts' = puts + 1
  /\ put' = <<[of |-> i, row |-> [itemRow[i] EXCEPT !.on = on], noted |-> noted[i]]>>
  /\ UNCHANGED <<itemRow, noted, bad, tooEarly, checking, timers, drafted>>

\* ... and saved whole: a result noted meanwhile is not in it.  If it is enabled it is scheduled.
SaveRow ==
  /\ put # <<>> /\ put' = <<>>
  /\ LET e == put[1]
     IN /\ itemRow' = [itemRow EXCEPT ![e.of] = e.row]
        /\ noted' = [noted EXCEPT ![e.of] = IF @ = e.noted THEN @ ELSE "nothing"]
        /\ IF e.row.on THEN Schedules(e.of, e.row, FALSE) ELSE UNCHANGED <<checking, timers>>
  /\ UNCHANGED <<bad, tooEarly, puts, drafted>>

DeleteItem(i) ==
  /\ itemRow[i] # Absent
  /\ itemRow' = [itemRow EXCEPT ![i] = Absent] /\ noted' = [noted EXCEPT ![i] = "nothing"]
  /\ timers' = timers \ {i}
  /\ UNCHANGED <<bad, tooEarly, checking, puts, put, drafted>>

\* The store may fail to note a result, and the row of an item that was deleted is not there.
Notes(i, status, fails, found) ==
  \/ /\ itemRow[i] # Absent
     /\ itemRow' = [itemRow EXCEPT ![i] = [@ EXCEPT !.status = status, !.fails = fails]]
     /\ noted' = [noted EXCEPT ![i] = found]
  \/ UNCHANGED <<itemRow, noted>>

\* A check that found something wrong, and what alert it raises, if the store does not fail.
FindsWrong(i, severity) ==
  /\ bad' = [bad EXCEPT ![i] = @ + 1]
  /\ tooEarly' = (tooEarly \/ (severity = "critical" /\ bad[i] + 1 < 3))
  /\ checking' = [checking EXCEPT ![i] = NotChecking]
  /\ UNCHANGED <<timers, puts, put, drafted>>

\* A tool that fails is a matter for an alert when it has failed three times.
FailureSeverity(fails) ==
  IF fails >= 5 THEN "critical" ELSE IF fails >= 3 THEN "warning" ELSE "none"

\* A slip: off by one.
TriggeredSeverityEarly(fails) == IF fails >= 2 THEN "critical" ELSE "warning"

TriggeredSeverity(fails) == IF fails >= 3 THEN "critical" ELSE "warning"

Checked(i) == checking[i] # NotChecking /\ bad["rule"] + bad["wish"] < MaxBad

\* The registry has no such tool: the row says so, and no alert does.
ToolIsUnknown(i) ==
  /\ Checked(i) /\ i = "rule" /\ {c \in PlatformRules : c.tool \notin RuleTools} # {}
  /\ Notes(i, "error", checking[i].fails + 1, "wrong")
  /\ FindsWrong(i, "none")

\* The tool fails, or answers with another status than "success", or the condition makes no sense.
HandleFailure(i) ==
  /\ Checked(i)
  /\ Notes(i, "error", checking[i].fails + 1, "wrong")
  /\ FindsWrong(i, FailureSeverity(checking[i].fails + 1))

\* What rules may find.
Findings == {Evaluate(c, ParsedOutput(o)) : c \in PlatformRules, o \in Outputs}

HandleTriggered(i) ==
  /\ Checked(i) /\ "triggered" \in Findings
  /\ Notes(i, "triggered", checking[i].fails + 1, "wrong")
  /\ FindsWrong(i, TriggeredSeverity(checking[i].fails + 1))

\* The failures are counted anew.
CheckIsFine(i) ==
  /\ checking[i] # NotChecking /\ "healthy" \in Findings
  /\ Notes(i, "healthy", 0, "fine")
  /\ checking' = [checking EXCEPT ![i] = NotChecking]
  /\ UNCHANGED <<bad, tooEarly, timers, puts, put, drafted>>

-----------------------------------------------------------------------------
(* Items in words                                                          *)

\* A slip: the tool is not looked for.
ValidAnyTool(d) == d.tool # "" /\ d.name # ""

\* validateAndConvert: an item without a name or with a tool there is not is dropped ...
Valid(d) == d.tool \in RuleTools /\ d.name # ""

\* ... and one that is to be checked more than once a minute is checked every five.
Interval(d) == IF d.seconds < 60 THEN 300 ELSE d.seconds

\* The model answers in no JSON, or with no item that is valid, and nothing is drafted.  Here a
\* user without an item asks for one.
Decompose(answer) ==
  /\ drafted = <<>> /\ itemRow["wish"] = Absent /\ checking["wish"] = NotChecking
  /\ {d \in answer : Valid(d)} # {}
  /\ drafted' = <<{[d EXCEPT !.seconds = Interval(d)] : d \in {a \in answer : Valid(a)}}>>
  /\ UNCHANGED <<itemRow, noted, bad, tooEarly, checking, timers, puts, put>>

\* The user confirms them.
ConfirmDraft ==
  /\ drafted # <<>> /\ drafted' = <<>>
  /\ RegisterItem("wish", FALSE)
  /\ UNCHANGED <<puts, put>>

RuleNext ==
  \/ RegisterBuiltin \/ SyncRule \/ ConfirmDraft
  \/ SaveRow
  \/ \E i \in RuleItems :
       \/ \E on \in BOOLEAN : ReadRow(i, on)
       \/ DeleteItem(i) \/ ToolIsUnknown(i) \/ HandleFailure(i) \/ HandleTriggered(i)
       \/ CheckIsFine(i)
  \/ \E a \in Drafts : Decompose(a)

-----------------------------------------------------------------------------
(* The health score                                                        *)

Shown == {i \in RuleItems : itemRow[i].on}
HealthyItems == {i \in Shown : itemRow[i].status \in {"healthy", ""}}

\* A slip: an item whose tool failed is not counted at all.
ScoreWithoutErrors ==
  LET counted == {i \in Shown : itemRow[i].status # "error"}
  IN IF counted = {} THEN 100 ELSE (Cardinality(HealthyItems) * 100) \div Cardinality(counted)

\* GetHealthScore.
Score == IF Shown = {} THEN 100 ELSE (Cardinality(HealthyItems) * 100) \div Cardinality(Shown)

-----------------------------------------------------------------------------
(* Properties                                                              *)

Values == DOMAIN Fields \cup UNION {{Fields[o][k] : k \in DOMAIN Fields[o]} : o \in DOMAIN Fields}

\* There is a value at a path: the keys lead from object to object, or to a text that holds one.
IsThere(v, path, output) ==
  \E trail \in [0..Len(path) -> Values] :
    /\ trail[0] = output /\ trail[Len(path)] = v
    /\ \A n \in DOMAIN path : \E o \in DOMAIN Fields :
         /\ o = ObjectOf(trail[n - 1])
         /\ path[n] \in DOMAIN Fields[o] /\ Fields[o][path[n]] = trail[n]

\* A rule errs on the side of an alert: a condition on a value is found to be healthy only if the
\* value is there, and a threshold only if it can be compared with (evaluator.go).
DoubtTriggers ==
  \A c \in PlatformRules, o \in Outputs :
    c.type \in {"threshold", "contains", "custom"} /\ Evaluate(c, ParsedOutput(o)) = "healthy"
      => \E v \in Values : /\ IsThere(v, c.path, ParsedOutput(o))
                           /\ c.type = "threshold" => Numeric(v) /\ Numeric(c.threshold)

\* The score is full only if nothing is wrong with any item as far as its last check, since it
\* was registered, has been noted (manager.go:121-164, scheduler.go:201-273).
FullScoreIsEarned == Score = 100 => \A i \in Shown : noted[i] # "wrong"

\* An alert is critical only after three checks that found something wrong (scheduler.go:245-267).
AlertsAreEarned == ~tooEarly

\* What the user is asked to confirm can be checked: the tools are there, and not asked more than
\* once a minute (decomposer.go).
DraftsCanBeChecked ==
  \A n \in DOMAIN drafted : \A d \in drafted[n] :
    d.tool \in RuleTools /\ d.seconds >= 60 /\ drafted[n] # {}

=============================================================================
