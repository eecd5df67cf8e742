----------------------------- MODULE Remediation -----------------------------
(***************************************************************************)
(* A remediation plan of an agent: steps with dependencies, as a language  *)
(* model proposed and the planner accepted them, executed one after the    *)
(* other, and undone in reverse when one fails.                            *)
(*                                                                         *)
(* The order is that of Kahn's algorithm, layer by layer; within a layer   *)
(* it is the order in which Go walks a map, which is any.                  *)
(***************************************************************************)
EXTENDS Naturals, FiniteSets, Sequences

CONSTANT Steps   \* the steps of the plan, by their step_id

ASSUME RemediationConstants == IsFiniteSet(Steps) /\ Steps # {}

VARIABLES
  needs,    \* per step, the steps it depends on
  plan,     \* status of the plan
  order,    \* the steps not yet handled, in the order of their execution
  finished, \* completedSteps: the steps that returned no error, in that order
  undoing,  \* steps of "finished" that the rollback has yet to look at
  executed,  \* history: steps whose tool was called, declined ones not
  undone    \* history: steps whose rollback tool succeeded

planVars == <<needs, plan, order, finished, undoing, executed, undone>>

Injective(s) == \A i, j \in DOMAIN s : s[i] = s[j] => i = j

Members(s) == {s[i] : i \in DOMAIN s}

StepLists == {s \in UNION {[1 .. n -> Steps] : n \in 0 .. Cardinality(Steps)} : Injective(s)}

PlanTypeOK ==
  /\ needs \in [Steps -> SUBSET Steps]
  /\ plan \in {"none", "rejected", "generated", "executing", "rolling_back", "failed", "completed"}
  /\ order \in StepLists
  /\ finished \in StepLists
  /\ undoing \in StepLists
  /\ executed \subseteq Steps
  /\ undone \subseteq Steps

PlanInit ==
  /\ needs = [s \in Steps |-> {}]
  /\ plan = "none"
  /\ order = <<>>
  /\ finished = <<>>
  /\ undoing = <<>>
  /\ executed = {}
  /\ undone = {}

-----------------------------------------------------------------------------
\* The order of the steps.

\* A slip: a step is ready with the first of its dependencies.
ReadyAny(s, before, deps) == deps[s] = {} \/ deps[s] \cap before # {}

\* In-degree zero, once the steps of the layers before are taken away.
Ready(s, before, deps) == deps[s] \subseteq before

\* The steps of the first k layers.
Layers(deps) ==
  LET upTo[k \in 0 .. Cardinality(Steps)] ==
        IF k = 0 THEN {} ELSE {s \in Steps : Ready(s, upTo[k - 1], deps)}
  IN upTo

Acyclic(deps) == Layers(deps)[Cardinality(Steps)] = Steps

LayerOf(s, deps) ==
  CHOOSE k \in 1 .. Cardinality(Steps) : s \in Layers(deps)[k] \ Layers(deps)[k - 1]

ExecutionOrders(deps) ==
  {o \in StepLists :
     /\ Len(o) = Cardinality(Steps)
     /\ \A i, j \in DOMAIN o : i < j => LayerOf(o[i], deps) <= LayerOf(o[j], deps)}

-----------------------------------------------------------------------------
\* The planner.

\* Whatever the model proposed; a plan with a cycle is refused.
GeneratePlan(deps) ==
  /\ plan = "none"
  /\ needs' = deps
  /\ plan' = IF Acyclic(deps) THEN "generated" ELSE "rejected"
  /\ UNCHANGED <<order, finished, undoing, executed, undone>>

\* A plan with a step that depends on one that was dropped is refused, too.
RejectPlan ==
  /\ plan = "none"
  /\ plan' = "rejected"
  /\ UNCHANGED <<needs, order, finished, undoing, executed, undone>>

-----------------------------------------------------------------------------
\* The executor.

StartPlan ==
  /\ plan = "generated"
  /\ order' \in ExecutionOrders(needs)
  /\ plan' = "executing"
  /\ UNCHANGED <<needs, finished, undoing, executed, undone>>

StepAtHand(s) == plan = "executing" /\ order # <<>> /\ Head(order) = s

\* The tool did its work, and so the verification, if there is one.
StepSucceeds(s) ==
  /\ StepAtHand(s)
  /\ order' = Tail(order)
  /\ finished' = Append(finished, s)
  /\ executed' = executed \cup {s}
  /\ UNCHANGED <<needs, plan, undoing, undone>>

\* The user declines a step of level L2 or L3: no error, so the step counts as succeeded.
StepIsDeclined(s) ==
  /\ StepAtHand(s)
  /\ order' = Tail(order)
  /\ finished' = Append(finished, s)
  /\ UNCHANGED <<needs, plan, undoing, executed, undone>>

\* Before its tool was called (unknown tool, precondition), or after it; the step itself is not
\* among those that are undone.
StepFails(s) ==
  /\ StepAtHand(s)
  /\ plan' = "rolling_back"
  /\ undoing' = finished
  /\ executed' \in {executed, executed \cup {s}}
  /\ UNCHANGED <<needs, order, finished, undone>>

\* The context ended: the executor returns and undoes nothing.
PlanIsCancelled ==
  /\ plan = "executing"
  /\ order # <<>>
  /\ plan' = "failed"
  /\ UNCHANGED <<needs, order, finished, undoing, executed, undone>>

CompletePlan ==
  /\ plan = "executing"
  /\ order = <<>>
  /\ plan' = "completed"
  /\ UNCHANGED <<needs, order, finished, undoing, executed, undone>>

\* A slip: the steps are undone in the order they were done.
NextToUndoFirst(steps) == 1

NextToUndo(steps) == Len(steps)

\* One step of the rollback: its tool succeeds, or there is none, or it fails and the next step
\* is undone all the same.
UndoStep ==
  /\ plan = "rolling_back"
  /\ undoing # <<>>
  /\ LET n == NextToUndo(undoing) IN
     /\ undone' \in {undone, undone \cup {undoing[n]}}
     /\ undoing' = [i \in 1 .. Len(undoing) - 1 |-> undoing[IF i < n THEN i ELSE i + 1]]
  /\ UNCHANGED <<needs, plan, order, finished, executed>>

\* rollback sets "rolled_back", and its caller "failed" right after.
EndRollback ==
  /\ plan = "rolling_back"
  /\ undoing = <<>>
  /\ plan' = "failed"
  /\ UNCHANGED <<needs, order, finished, undoing, executed, undone>>

PlanNext ==
  \/ \E deps \in [Steps -> SUBSET Steps] : GeneratePlan(deps)
  \/ RejectPlan
  \/ StartPlan
  \/ \E s \in Steps : StepSucceeds(s) \/ StepIsDeclined(s) \/ StepFails(s)
  \/ PlanIsCancelled \/ CompletePlan \/ UndoStep \/ EndRollback

PlanSpec == PlanInit /\ [][PlanNext]_planVars

-----------------------------------------------------------------------------

\* Whatever the model proposed and whatever fails, no tool is called before the steps it depends
\* on have been passed (dag.go:43-76: layers of a map walked in any order).
DependenciesFirst == \A s \in executed : needs[s] \subseteq Members(finished) \ {s}

\* Nothing is undone under a step that was built upon it and still stands untried (executor.go:246:
\* the rollback goes backwards through the completed steps).
UndoneBackwards == \A s \in undone, t \in Members(undoing) : s \notin needs[t]

=============================================================================
