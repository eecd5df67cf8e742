------------------------------ MODULE Diagnosis ------------------------------
(***************************************************************************)
(* agent-core: one diagnosis of a reported problem.  A plan is made, tools *)
(* collect evidence in one layer or two, the language model reasons about  *)
(* it in up to MaxIterations rounds, each of which may collect more, and   *)
(* the result names actions somebody has to approve.  The model's answers  *)
(* are free text: they may name any tool, or one that does not exist, and  *)
(* any call of it may fail.                                                *)
(***************************************************************************)
EXTENDS Naturals, FiniteSets, FiniteSetsExt

CONSTANTS
  Registered,     \* the tools of the registry
  ReadsOnly,      \* those with IsReadOnly
  Harmless,       \* those with RiskLevel L0
  Mapped,         \* stepEvidencePlan's table: problem type -> tool names
  LocalActions,   \* localReasoning's table: problem type -> what it recommends
  NoSuchTool     \* a name the registry does not have

ASSUME DiagnosisTools ==
  /\ ReadsOnly \subseteq Registered
  /\ Harmless \subseteq Registered
  /\ NoSuchTool \notin Registered
  /\ "general" \in DOMAIN Mapped
  /\ LocalActions \in [DOMAIN Mapped -> SUBSET (Registered \cup {NoSuchTool})]

VARIABLES
  stage,      \* the step under way
  diagPlan,       \* its problem type, the tools it names and its complexity
  evidence,   \* per tool: "none", its output "read", or an "error"
  reasoned,   \* the result so far
  iteration,  \* rounds of reasoning
  wantApproval,  \* actions whose approval.requested is still to be sent
  asked,      \* those that were sent
  toolsRun,   \* history: tools executed
  best        \* history: the highest confidence any round came to

diagVars == <<stage, diagPlan, evidence, reasoned, iteration, wantApproval, asked, toolsRun, best>>

Problems == DOMAIN Mapped
ToolNames == Registered \cup {NoSuchTool}
Complexities == {"simple", "moderate", "critical"}
Confidence == 0 .. 2          \* below 0.6, that of localReasoning, 0.75 and above
LocalConfidence == 1
ConfidenceThreshold == 2

DiagResult == [confidence : Confidence, actions : SUBSET ToolNames, approvalRequired : BOOLEAN,
               needsRemediation : BOOLEAN]
NoResult == [confidence |-> 0, actions |-> {}, approvalRequired |-> FALSE,
             needsRemediation |-> FALSE]

DiagTypeOK ==
  /\ stage \in {"parse", "assess", "collect", "layer2", "reason", "iterate", "again", "draft",
                "report", "done"}
  /\ diagPlan \in [problem : Problems, tools : SUBSET ToolNames, complexity : Complexities]
  /\ evidence \in [Registered -> {"none", "read", "error"}]
  /\ reasoned \in DiagResult
  /\ iteration \in 0 .. 4 /\ best \in Confidence
  /\ wantApproval \subseteq ToolNames /\ asked \subseteq ToolNames
  /\ toolsRun \subseteq Registered

DiagInit ==
  /\ stage = "parse"
  /\ diagPlan = [problem |-> "general", tools |-> {}, complexity |-> "simple"]
  /\ evidence = [t \in Registered |-> "none"]
  /\ reasoned = NoResult
  /\ iteration = 0 /\ best = 0
  /\ wantApproval = {} /\ asked = {} /\ toolsRun = {}

MaxIterationsByComplexity(c) == CASE c = "simple" -> 1 [] c = "moderate" -> 2 [] OTHER -> 4

\* Scaled to the tools of an instance: only a critical problem leaves tools to run.
ToolBudgetByComplexity(c) == IF c = "critical" THEN Cardinality(Registered) ELSE 1

-----------------------------------------------------------------------------

\* The language model's plan may carry tool names of its own; heuristicPlan's does not.
StepIntentParse ==
  /\ stage = "parse"
  /\ \E p \in Problems, named \in {{}} \cup kSubset(1, ToolNames) :
       diagPlan' = [diagPlan EXCEPT !.problem = p, !.tools = named]
  /\ stage' = "assess"
  /\ UNCHANGED <<evidence, reasoned, iteration, wantApproval, asked, toolsRun, best>>

\* A slip: the tools the language model named are kept.
StepEvidencePlanNamed(p) ==
  IF p.tools # {} THEN p.tools \cap Registered ELSE Mapped[p.problem] \cap ReadsOnly

StepEvidencePlan(p) == Mapped[p.problem] \cap ReadsOnly

\* Whatever cannot be parsed counts as simple.
AssessComplexity ==
  /\ stage = "assess"
  /\ \E c \in Complexities :
       diagPlan' = [diagPlan EXCEPT !.complexity = c, !.tools = StepEvidencePlan(diagPlan)]
  /\ stage' = "collect"
  /\ UNCHANGED <<evidence, reasoned, iteration, wantApproval, asked, toolsRun, best>>

\* Every tool answers or fails; a failure is evidence too, and replaces what was there.
ExecuteTools(tools) ==
  /\ \E failing \in SUBSET tools :
       evidence' = [t \in Registered |-> IF t \notin tools THEN evidence[t]
                                         ELSE IF t \in failing THEN "error" ELSE "read"]
  /\ toolsRun' = toolsRun \cup tools

StepEvidenceCollect ==
  /\ stage = "collect"
  /\ ExecuteTools(diagPlan.tools \cap Registered)
  /\ stage' = IF /\ diagPlan.complexity # "simple"
                 /\ Cardinality(diagPlan.tools) < ToolBudgetByComplexity(diagPlan.complexity)
              THEN "layer2" ELSE "reason"
  /\ UNCHANGED <<diagPlan, reasoned, iteration, wantApproval, asked, best>>

\* How many tools the language model suggests is not compared with the budget it was given.
StepLayer2 ==
  /\ stage = "layer2"
  /\ \E suggested \in SUBSET ToolNames : ExecuteTools((suggested \cap ReadsOnly) \ diagPlan.tools)
  /\ stage' = "reason"
  /\ UNCHANGED <<diagPlan, reasoned, iteration, wantApproval, asked, best>>

-----------------------------------------------------------------------------

\* What a round may answer.  The recommended actions and the flags are the language model's own.
ModelAnswers == {r \in DiagResult : Cardinality(r.actions) <= 1 /\ ~r.needsRemediation}

\* A call of the model fails, or its answer is no JSON: a simple problem falls back to
\* localReasoning, any other to one more call first.
LocalReasoning ==
  [NoResult EXCEPT !.confidence = LocalConfidence, !.actions = LocalActions[diagPlan.problem],
                   !.approvalRequired = LocalActions[diagPlan.problem] # {}]

\* With one round, and after the last one, the result is ready.
Reasons(r) ==
  /\ reasoned' = r
  /\ iteration' = iteration + 1
  /\ stage' = IF iteration' < MaxIterationsByComplexity(diagPlan.complexity) THEN "iterate" ELSE "draft"

StepReasoning ==
  /\ stage = "reason"
  /\ \/ \E r \in ModelAnswers : Reasons(r) /\ best' = r.confidence
     \/ /\ reasoned' = LocalReasoning
        /\ best' = LocalConfidence
        /\ stage' = "draft"
        /\ UNCHANGED iteration
     \/ /\ diagPlan.complexity # "simple"      \* the single-shot retry of a failed iteration
        /\ \E r \in ModelAnswers : reasoned' = r /\ best' = r.confidence
        /\ stage' = "draft"
        /\ UNCHANGED iteration
  /\ UNCHANGED <<diagPlan, evidence, wantApproval, asked, toolsRun>>

\* Sure enough, or nothing to add: no tool left that has not run, no answer of the model, or none
\* it may run.  A tool that ran before may run again, without its parameters.
RequestSupplementaryEvidence ==
  /\ stage = "iterate"
  /\ \E suggested \in SUBSET ToolNames :
       LET more == IF \A t \in ReadsOnly : evidence[t] # "none" THEN {}
                   ELSE suggested \cap ReadsOnly IN
         IF reasoned.confidence >= ConfidenceThreshold \/ more = {}
           THEN stage' = "draft" /\ UNCHANGED <<evidence, toolsRun>>
           ELSE stage' = "again" /\ ExecuteTools(more)
  /\ UNCHANGED <<diagPlan, reasoned, iteration, wantApproval, asked, best>>

\* A slip: the last round's result is taken, surer or not.
IterateReasoningOn ==
  /\ stage = "again"
  /\ \E r \in ModelAnswers : Reasons(r) /\ best' = Max({best, r.confidence})
  /\ UNCHANGED <<diagPlan, evidence, wantApproval, asked, toolsRun>>

\* A round that fails or is no surer ends the iteration.
IterateReasoning ==
  /\ stage = "again"
  /\ \/ \E r \in ModelAnswers :
          /\ best' = Max({best, r.confidence})
          /\ IF r.confidence > reasoned.confidence THEN Reasons(r)
             ELSE stage' = "draft" /\ UNCHANGED <<reasoned, iteration>>
     \/ stage' = "draft" /\ UNCHANGED <<reasoned, iteration, best>>
  /\ UNCHANGED <<diagPlan, evidence, wantApproval, asked, toolsRun>>

\* stepActionDraft drops the tools nobody knows and looks up the risk of the others;
\* evaluateNeedsRemediation then asks whether one of them changes anything.
StepActionDraft(r) ==
  LET actions == r.actions \cap Registered IN
  [r EXCEPT !.actions = actions,
            !.approvalRequired = @ \/ actions \ Harmless # {},
            !.needsRemediation = @ \/ actions \ (Harmless \cap ReadsOnly) # {}]

\* diagnosis.completed goes first, then one approval.requested per action, harmless ones too.
Complete ==
  /\ stage = "draft"
  /\ reasoned' = StepActionDraft(reasoned)
  /\ wantApproval' = IF reasoned'.approvalRequired THEN reasoned'.actions ELSE {}
  /\ stage' = "report"
  /\ UNCHANGED <<diagPlan, evidence, iteration, asked, toolsRun, best>>

SendApprovalRequest ==
  /\ stage = "report"
  /\ \E a \in wantApproval :
       /\ wantApproval' = wantApproval \ {a}
       /\ asked' = asked \cup {a}
  /\ UNCHANGED <<stage, diagPlan, evidence, reasoned, iteration, toolsRun, best>>

ReportCompleted ==
  /\ stage = "report"
  /\ wantApproval = {}
  /\ stage' = "done"
  /\ UNCHANGED <<diagPlan, evidence, reasoned, iteration, wantApproval, asked, toolsRun, best>>

DiagNext ==
  \/ StepIntentParse \/ AssessComplexity \/ StepEvidenceCollect \/ StepLayer2 \/ StepReasoning
  \/ RequestSupplementaryEvidence \/ IterateReasoning \/ Complete \/ SendApprovalRequest
  \/ ReportCompleted

DiagSpec == DiagInit /\ [][DiagNext]_diagVars

-----------------------------------------------------------------------------

\* Whatever the language model answers, round after round, only tools that read were executed, the
\* result that is reported is the surest one any round came to, and every action in it that would
\* change the device is one the registry knows and was put to somebody for approval
\* (engine.go stepEvidencePlan, stepIterativeReasoning, stepActionDraft; ws_client.go
\* handleSessionCreated).
DiagnosisIsSafe ==
  /\ toolsRun \subseteq ReadsOnly
  /\ stage = "done" =>
       /\ reasoned.confidence = best
       /\ reasoned.actions \subseteq Registered
       /\ reasoned.actions \ Harmless \subseteq asked

=============================================================================
