-------------------------- MODULE CommandTaskProofs --------------------------
(***************************************************************************)
(* For every set of users, devices, contents and policies, and any number  *)
(* of concurrent handlers: whatever a device executes was decided on by    *)
(* someone entitled to it.  The inductive invariant follows the decision   *)
(* from the handler that takes it, through the slot's copy of the row, to  *)
(* the message and the device; the row in the database may be overwritten  *)
(* meanwhile, and only its own coherence (RowOK) is needed of it.          *)
(*                                                                         *)
(* The second half is about requests that follow one another (TurnInv).    *)
(***************************************************************************)
EXTENDS CommandTask, TLAPS

\* The steps whose slot holds a copy of the row, is dispatching it, holds an
\* execution, or treats a device with it.
HasRow      == {"delete_execs", "create_execs", "save", "save_dispatch",
                "dispatch", "save_sent", "send", "save_skip"}
Dispatching == {"save_dispatch", "dispatch", "save_sent", "send", "save_skip"}
HasDevices  == {"dispatch", "save_sent", "send", "save_skip"}
HasExec     == {"save_sent", "send", "save_skip", "save_result"}
OnDevice    == {"save_sent", "send", "save_skip"}

\* A decision on content c by someone entitled to it is on record.
Covered(c) == \E g \in grants : Entitled(g) /\ g.content = c

MessageOK(m) ==
  \E g \in grants : /\ Entitled(g)
                    /\ m.payload = g.content.payload
                    /\ m.device \in Range(g.content.devices)

\* A policy for level l that names u was once in force.
Named(u, l) == \E table \in seen : table[l] # NoPolicy /\ u \in table[l].approvers

RowOK(row) ==
  /\ row \in Rows
  /\ row.effective = RiskOf(row.content)
  /\ \A u \in row.approvers : Named(u, RiskOf(row.content))

SlotOK(h) ==
  /\ pc[h] \in HasRow => RowOK(copy[h])
  /\ pc[h] \in {"delete_execs", "create_execs"} /\ copy[h].status = "approved"
       => Covered(copy[h].content)
  /\ pc[h] \in Dispatching => Covered(copy[h].content)
  /\ pc[h] \in HasDevices => Range(todo[h]) \subseteq Range(copy[h].content.devices)
  /\ pc[h] \in HasExec => ecopy[h] \in ExecCopies /\ ecopy[h].id <= nextExec
  /\ pc[h] \in OnDevice => ecopy[h].device \in Range(copy[h].content.devices)
  /\ pc[h] = "get" => verdict[h] # "none"

Inv ==
  /\ TypeOK
  /\ policy \in seen
  /\ task # NoTask => RowOK(task)
  /\ \A h \in Handlers : SlotOK(h)
  /\ \A m \in commands \cup ran : MessageOK(m)

-----------------------------------------------------------------------------
(* Operators *)

\* The effective risk is a level, and never below what the keyword table says.
LEMMA RiskType ==
  ASSUME NEW c \in ContentType
  PROVE  RiskOf(c) \in Levels /\ RiskOf(c) >= SystemRisk[c.payload]
<1>1. SystemRisk[c.payload] \in 1 .. 3 /\ c.risk \in 1 .. 3
  BY RiskTableAssumption DEF ContentType, Levels
<1> QED  BY <1>1 DEF RiskOf, EffectiveRisk, Levels

\* An entitled decision stays so as the history of the policies grows.
LEMMA EntitledStays ==
  ASSUME NEW g, Entitled(g), seen \subseteq seen'
  PROVE  Entitled(g)'
  BY DEF Entitled, DutiesApart, InForce

LEMMA CoveredStays ==
  ASSUME NEW c, Covered(c), seen \subseteq seen', grants \subseteq grants'
  PROVE  Covered(c)'
  BY EntitledStays DEF Covered

LEMMA MessageStays ==
  ASSUME NEW m, MessageOK(m), seen \subseteq seen', grants \subseteq grants'
  PROVE  MessageOK(m)'
  BY EntitledStays DEF MessageOK

LEMMA RowStays ==
  ASSUME NEW row, RowOK(row), seen \subseteq seen'
  PROVE  RowOK(row)'
  BY DEF RowOK, Named

\* A slot nobody touches keeps its invariant.
LEMMA SlotStays ==
  ASSUME NEW h \in Handlers, SlotOK(h),
         pc'[h] = pc[h], copy'[h] = copy[h], todo'[h] = todo[h],
         ecopy'[h] = ecopy[h], verdict'[h] = verdict[h],
         nextExec \in Nat, nextExec' \in Nat, nextExec <= nextExec',
         seen \subseteq seen', grants \subseteq grants'
  PROVE  SlotOK(h)'
<1>1. RowOK(copy[h]) => RowOK(copy[h])'
  BY DEF RowOK, Named
<1>2. Covered(copy[h].content) => Covered(copy[h].content)'
  BY EntitledStays DEF Covered
<1>3. ecopy[h] \in ExecCopies /\ ecopy[h].id <= nextExec
        => ecopy'[h] \in ExecCopies /\ ecopy'[h].id <= nextExec'
  BY DEF ExecCopies
<1> QED  BY <1>1, <1>2, <1>3 DEF SlotOK, Dispatching, HasRow, HasDevices, HasExec, OnDevice

\* The first of a list and the rest of it.
LEMMA ListParts ==
  ASSUME NEW S, NEW list \in Seq(S), list # <<>>
  PROVE  /\ Head(list) \in S /\ Head(list) \in Range(list)
         /\ Tail(list) \in Seq(S) /\ Range(Tail(list)) \subseteq Range(list)
<1>1. Len(list) \in Nat \ {0} /\ DOMAIN list = 1 .. Len(list)
  OBVIOUS
<1>2. Head(list) = list[1] /\ Head(list) \in S
  BY <1>1
<1>3. /\ Tail(list) \in Seq(S) /\ DOMAIN Tail(list) = 1 .. Len(list) - 1
      /\ \A i \in 1 .. Len(list) - 1 : Tail(list)[i] = list[i + 1] /\ i + 1 \in 1 .. Len(list)
  BY <1>1
<1> QED  BY <1>1, <1>2, <1>3 DEF Range

LEMMA ContentList ==
  ASSUME NEW c \in ContentType
  PROVE  c.devices \in Seq(Devices) /\ c.devices # <<>> /\ Range(c.devices) \subseteq Devices
<1>1. c.devices \in Seq(Devices) /\ c.devices # <<>>
  BY DEF ContentType
<1> QED  BY <1>1 DEF Range

-----------------------------------------------------------------------------
(* Steps *)

LEMMA NextIdIs == ASSUME Inv PROVE nextExec \in Nat
  BY DEF Inv, TypeOK

\* The slots other than h are as they were.
OthersKeep(h) ==
  \A k \in Handlers \ {h} :
    /\ pc'[k] = pc[k] /\ copy'[k] = copy[k] /\ todo'[k] = todo[k]
    /\ ecopy'[k] = ecopy[k] /\ verdict'[k] = verdict[k]

\* A step of slot h: what is left to show of it.
LEMMA SlotStepInv ==
  ASSUME Inv, NEW h \in Handlers, TypeOK', OthersKeep(h), SlotOK(h)',
         UNCHANGED <<policy, seen>>, grants \subseteq grants', nextExec <= nextExec',
         task' # NoTask => RowOK(task)',
         \A m \in commands' \cup ran' : MessageOK(m)
  PROVE  Inv'
<1>1. nextExec \in Nat /\ nextExec' \in Nat
  BY DEF Inv, TypeOK
<1>2. \A k \in Handlers : SlotOK(k)'
  <2> TAKE k \in Handlers
  <2>1. CASE k = h
    BY <2>1
  <2>2. CASE k # h
    <3>1. SlotOK(k)
      BY DEF Inv
    <3> QED  BY <1>1, <2>2, <3>1, SlotStays DEF OthersKeep
  <2> QED  BY <2>1, <2>2
<1>3. \A m \in commands' \cup ran' : MessageOK(m)'
  BY MessageStays
<1>4. policy' \in seen'
  BY DEF Inv
<1> QED  BY <1>2, <1>3, <1>4 DEF Inv

\* A step that touches no slot.
LEMMA OutsideInv ==
  ASSUME Inv, TypeOK', UNCHANGED <<nextExec, slotVars>>, policy' \in seen',
         task' # NoTask => RowOK(task)',
         seen \subseteq seen', grants \subseteq grants',
         \A m \in commands' \cup ran' : MessageOK(m)
  PROVE  Inv'
<1>1. nextExec \in Nat
  BY DEF Inv, TypeOK
<1>2. \A k \in Handlers : SlotOK(k)'
  <2> TAKE k \in Handlers
  <2>1. SlotOK(k)
    BY DEF Inv
  <2> QED  BY <1>1, <2>1, SlotStays DEF slotVars
<1>3. \A m \in commands' \cup ran' : MessageOK(m)'
  BY MessageStays
<1> QED  BY <1>2, <1>3 DEF Inv

-----------------------------------------------------------------------------
(* Requests *)

\* What Start leaves to show of a request: that the row it carries is coherent and,
\* if it is to be dispatched, decided on.
LEMMA StartInv ==
  ASSUME Inv, NEW h \in Handlers, NEW row, NEW devs \in Seq(Devices),
         NEW step \in {"delete_execs", "save", "save_dispatch", "remove_execs"},
         requests < MaxRequests, Start(h, step, row, devs), RowOK(row),
         grants \subseteq grants', grants' \subseteq Grants,
         step = "save_dispatch" \/ (step = "delete_execs" /\ row.status = "approved") =>
           \E g \in grants' : Entitled(g)' /\ g.content = row.content
  PROVE  Inv'
<1> USE DEF Start, Goto, Load, Left, dbVars, envVars, netVars
<1>1. OthersKeep(h)
  BY DEF OthersKeep, Inv, TypeOK
<1>2. TypeOK'
  BY BoundsAssumption DEF Inv, TypeOK, Steps, RowOK
<1>3. pc'[h] = step /\ copy'[h] = row
  BY DEF Inv, TypeOK
<1>4. RowOK(copy[h])'
  BY <1>3 DEF RowOK, Named
<1>5. SlotOK(h)'
  BY <1>3, <1>4 DEF SlotOK, HasRow, Dispatching, HasDevices, HasExec, OnDevice, Covered
<1>6. task' # NoTask => RowOK(task)'
  BY DEF Inv, RowOK, Named
<1> QED  BY <1>1, <1>2, <1>5, <1>6, SlotStepInv, NextIdIs DEF Inv

LEMMA CreateTaskInv ==
  ASSUME Inv, NEW u \in Users, NEW c \in Contents, CreateTask(u, c)
  PROVE  Inv'
<1> USE DEF CreateTask, envVars, slotVars, netVars
<1>1. c \in ContentType /\ RiskOf(c) \in Levels
  BY RiskType, ContentsAssumption
<1>2. task' \in Rows
  BY <1>1 DEF Rows, Statuses
<1>3. RowOK(task)'
  BY <1>1, <1>2 DEF RowOK
<1>4. TypeOK'
  BY <1>2 DEF Inv, TypeOK
<1> QED  BY <1>3, <1>4, OutsideInv DEF Inv

\* What a request that is accepted knows of the row.
LEMMA AcceptedRow ==
  ASSUME Inv, NEW h \in Handlers, NEW statuses, Accepts(h, statuses)
  PROVE  /\ RowOK(task) /\ task \in Rows
         /\ task.content \in ContentType /\ task.creator \in Users
         /\ task.content.devices \in Seq(Devices)
         /\ requests < MaxRequests
<1>1. RowOK(task) /\ requests < MaxRequests
  BY DEF Inv, Accepts
<1> QED  BY <1>1 DEF RowOK, Rows, ContentType

LEMMA DecideType ==
  ASSUME Inv, NEW as \in {"submitter", "approver"}, NEW u \in Users, NEW c \in ContentType,
         NEW unread \in BOOLEAN, task \in Rows, Decide(as, u, c, unread)
  PROVE  grants' \subseteq Grants /\ grants \subseteq grants'
<1>1. task.creator \in Users
  BY DEF Rows
<1>2. [as |-> as, by |-> u, creator |-> task.creator, content |-> c, unread |-> unread] \in Grants
  BY <1>1 DEF Grants
<1> QED  BY <1>2 DEF Inv, TypeOK, Decide

\* Submitting and updating: the row is approved at once only for a submitter who
\* holds the permission, or under an automatic policy for the content's own risk.
LEMMA RouteInv ==
  ASSUME Inv, NEW h \in Handlers, NEW u \in Users, NEW c \in ContentType, NEW statuses,
         Accepts(h, statuses), Route(h, u, c)
  PROVE  Inv'
<1>0. PICK pol \in PolicyRead(RiskOf(c)), bypass \in BypassRead(u, c) :
        /\ Start(h, "delete_execs", Routed(task, c, bypass, pol), c.devices)
        /\ IF NeedsNoHuman(bypass, pol) THEN Decide("submitter", u, c, FALSE) ELSE UNCHANGED grants
  BY DEF Route
<1> DEFINE row == Routed(task, c, bypass, pol)
           g   == [as |-> "submitter", by |-> u, creator |-> task.creator, content |-> c,
                   unread |-> FALSE]
<1>1. task \in Rows /\ requests < MaxRequests /\ c.devices \in Seq(Devices)
  BY AcceptedRow, ContentList
<1>2. RiskOf(c) \in Levels /\ policy \in seen /\ policy \in PolicyTables
  BY RiskType DEF Inv, TypeOK
<1>3. /\ pol \in PolicyType \cup {NoPolicy}
      /\ pol = NoPolicy \/ pol = policy[RiskOf(c)]
      /\ bypass => ShouldBypass(u, c)
  BY <1>2, PoliciesAssumption DEF PolicyRead, BypassRead
<1>4. ApproversOf(pol) \subseteq Users /\ \A v \in ApproversOf(pol) : Named(v, RiskOf(c))
  BY <1>2, <1>3 DEF ApproversOf, Named, PolicyType
<1>5. row \in Rows
  <2>1. now + ApprovalTTL \in Nat
    BY BoundsAssumption DEF Inv, TypeOK
  <2> QED  BY <1>1, <1>2, <1>4, <2>1 DEF Rows, Statuses, Routed
<1>6. RowOK(row)
  <2>1. row.content = c /\ row.effective = RiskOf(c) /\ row.approvers \subseteq ApproversOf(pol)
    BY <1>1 DEF Routed, Rows
  <2> QED  BY <1>4, <1>5, <2>1 DEF RowOK
<1>7. Start(h, "delete_execs", row, c.devices)
  BY <1>0
<1>8. CASE NeedsNoHuman(bypass, pol)
  <2>1. Decide("submitter", u, c, FALSE)
    BY <1>0, <1>8
  <2>2. grants' \subseteq Grants /\ grants \subseteq grants'
    BY <1>1, <2>1, DecideType
  <2>3. g.as = "submitter" /\ g.by = u /\ g.content = c
    OBVIOUS
  <2>4. Entitled(g)
    BY <1>2, <1>3, <1>8, <2>3 DEF Entitled, InForce, NeedsNoHuman, ShouldBypass, AutoApproves
  <2>6. g \in grants' /\ g.content = row.content
    BY <1>1, <2>1 DEF Decide, Routed, Rows
  <2>7. \E x \in grants' : Entitled(x)' /\ x.content = row.content
    BY <1>1, <1>7, <2>4, <2>6 DEF Start, envVars, Entitled, DutiesApart, InForce
  <2> HIDE DEF row, g
  <2> QED  BY <1>1, <1>6, <1>7, <2>2, <2>7, StartInv
<1>9. CASE ~NeedsNoHuman(bypass, pol)
  <2>1. UNCHANGED grants
    BY <1>0, <1>9
  <2>2. row.status # "approved"
    BY <1>1, <1>9 DEF Routed, Rows
  <2>3. grants' \subseteq Grants
    BY <2>1 DEF Inv, TypeOK
  <2> HIDE DEF row
  <2> QED  BY <1>1, <1>6, <1>7, <2>1, <2>2, <2>3, StartInv
<1> QED  BY <1>8, <1>9

\* A change of status keeps a row coherent.
LEMMA StatusRow ==
  ASSUME NEW row, RowOK(row), NEW status \in Statuses
  PROVE  RowOK([row EXCEPT !.status = status])
<1>1. [row EXCEPT !.status = status] \in Rows
  BY DEF RowOK, Rows
<1> QED  BY <1>1 DEF RowOK, Rows

\* Requests that dispatch nothing.
LEMMA PlainInv ==
  ASSUME Inv, NEW h \in Handlers, NEW statuses, Accepts(h, statuses), UNCHANGED grants,
         NEW row, RowOK(row), NEW step \in {"save", "remove_execs"}, Start(h, step, row, <<>>)
  PROVE  Inv'
<1>1. requests < MaxRequests /\ <<>> \in Seq(Devices) /\ grants' \subseteq Grants
  BY AcceptedRow DEF Inv, TypeOK
<1> QED  BY <1>1, StartInv

LEMMA BeginUpdateDraftInv ==
  ASSUME Inv, NEW h \in Handlers, NEW u \in Users, NEW c \in Contents,
         BeginUpdateDraft(h, u, c)
  PROVE  Inv'
<1> DEFINE row == [task EXCEPT !.content = c, !.effective = RiskOf(c),
                               !.approvers = {}, !.expiresAt = 0]
<1>1. Accepts(h, {"draft"}) /\ Start(h, "save", row, <<>>) /\ UNCHANGED grants
  BY DEF BeginUpdateDraft
<1>2. task \in Rows
  BY <1>1, AcceptedRow
<1>3. c \in ContentType /\ RiskOf(c) \in Levels
  BY RiskType, ContentsAssumption
<1>4. RowOK(row)
  BY <1>2, <1>3 DEF RowOK, Rows
<1> QED  BY <1>1, <1>4, PlainInv

LEMMA ExpireInv ==
  ASSUME Inv, NEW h \in Handlers, NEW statuses, Accepts(h, statuses), Expire(h)
  PROVE  Inv'
<1>1. RowOK([task EXCEPT !.status = "expired"])
  BY AcceptedRow, StatusRow DEF Statuses
<1> QED  BY <1>1, PlainInv DEF Expire

\* The approval is recorded by a super administrator, or by someone the policy for
\* the content's risk named and separation of duty does not bar.
LEMMA BeginApproveInv ==
  ASSUME Inv, NEW h \in Handlers, NEW u \in Users, BeginApprove(h, u)
  PROVE  Inv'
<1> DEFINE row == [task EXCEPT !.status = "approved"]
           g   == [as |-> "approver", by |-> u, creator |-> task.creator,
                   content |-> task.content,
                   unread |-> ~SeparationOK(u, task, policy[task.effective])]
<1>1. Accepts(h, {"pending_approval"})
  BY DEF BeginApprove
<1>2. CASE Expire(h)
  BY <1>1, <1>2, ExpireInv
<1>3. CASE /\ CanAct(u, task)
           /\ Start(h, "save_dispatch", row, <<>>)
           /\ Decide("approver", u, task.content,
                     ~SeparationOK(u, task, policy[task.effective]))
  <2>1. RowOK(task) /\ task \in Rows /\ task.content \in ContentType /\ requests < MaxRequests
    BY <1>1, AcceptedRow
  <2>2. RowOK(row)
    BY <2>1, StatusRow DEF Statuses
  <2>3. grants' \subseteq Grants /\ grants \subseteq grants'
    BY <1>3, <2>1, DecideType
  <2>4. /\ g.as = "approver" /\ g.by = u /\ g.creator = task.creator /\ g.content = task.content
        /\ g.unread = ~SeparationOK(u, task, policy[task.effective])
    OBVIOUS
  <2>5. Entitled(g)
    <3>1. CASE u \in SuperAdmins
      BY <3>1, <2>4 DEF Entitled, DutiesApart, InForce
    <3>2. CASE u \notin SuperAdmins
      <4>1. Named(u, RiskOf(task.content))
        BY <1>3, <2>1, <3>2 DEF CanAct, RowOK
      <4>2. policy \in seen /\ task.effective = RiskOf(task.content)
        BY <2>1 DEF Inv, RowOK
      <4>3. DutiesApart(g) \/ g.unread
        BY <3>2, <4>2, <2>4 DEF SeparationOK, DutiesApart, InForce
      <4> QED  BY <4>1, <4>3, <2>4 DEF Entitled, InForce, Named
    <3> QED  BY <3>1, <3>2
  <2>6. g \in grants' /\ g.content = row.content
    BY <1>3, <2>1 DEF Decide, Rows
  <2>7. \E x \in grants' : Entitled(x)' /\ x.content = row.content
    BY <1>3, <2>5, <2>6 DEF Start, envVars, Entitled, DutiesApart, InForce
  <2>8. Start(h, "save_dispatch", row, <<>>) /\ <<>> \in Seq(Devices)
    BY <1>3
  <2> HIDE DEF row, g
  <2> QED  BY <2>1, <2>2, <2>3, <2>7, <2>8, StartInv
<1> QED  BY <1>2, <1>3 DEF BeginApprove

LEMMA BeginDenyInv ==
  ASSUME Inv, NEW h \in Handlers, NEW u \in Users, BeginDeny(h, u)
  PROVE  Inv'
<1>1. Accepts(h, {"pending_approval"})
  BY DEF BeginDeny
<1>2. RowOK([task EXCEPT !.status = "denied"])
  BY <1>1, AcceptedRow, StatusRow DEF Statuses
<1> QED  BY <1>1, <1>2, PlainInv DEF BeginDeny

LEMMA BeginCancelInv ==
  ASSUME Inv, NEW h \in Handlers, NEW u \in Users, BeginCancel(h, u)
  PROVE  Inv'
<1>1. Accepts(h, {"draft", "pending_approval"})
  BY DEF BeginCancel
<1>2. RowOK([task EXCEPT !.status = "cancelled"])
  BY <1>1, AcceptedRow, StatusRow DEF Statuses
<1> QED  BY <1>1, <1>2, PlainInv DEF BeginCancel

LEMMA BeginDeleteInv ==
  ASSUME Inv, NEW h \in Handlers, NEW u \in Users, BeginDelete(h, u)
  PROVE  Inv'
<1>1. Accepts(h, Statuses) /\ UNCHANGED grants
  BY DEF BeginDelete
<1>2. RowOK(task)
  BY <1>1, AcceptedRow
<1>3. RowOK([task EXCEPT !.archived = TRUE])
  BY <1>2 DEF RowOK, Rows
<1>4. \/ Start(h, "remove_execs", task, <<>>)
      \/ Start(h, "save", [task EXCEPT !.archived = TRUE], <<>>)
  BY DEF BeginDelete
<1> QED  BY <1>1, <1>2, <1>3, <1>4, PlainInv

LEMMA RequestInv ==
  ASSUME Inv, NEW h \in Handlers, NEW u \in Users, Request(h, u)
  PROVE  Inv'
<1>1. CASE BeginSubmit(h, u)
  BY <1>1, AcceptedRow, RouteInv DEF BeginSubmit
<1>2. CASE \E c \in Contents : BeginUpdateDraft(h, u, c)
  BY <1>2, BeginUpdateDraftInv
<1>3. CASE \E c \in Contents : BeginUpdatePending(h, u, c)
  BY <1>3, ContentsAssumption, RouteInv, ExpireInv DEF BeginUpdatePending
<1>4. CASE BeginApprove(h, u)
  BY <1>4, BeginApproveInv
<1>5. CASE BeginDeny(h, u)
  BY <1>5, BeginDenyInv
<1>6. CASE BeginCancel(h, u)
  BY <1>6, BeginCancelInv
<1>7. CASE BeginDelete(h, u)
  BY <1>7, BeginDeleteInv
<1> QED  BY <1>1, <1>2, <1>3, <1>4, <1>5, <1>6, <1>7 DEF Request

-----------------------------------------------------------------------------
(* The writes of a slot *)

\* Saving an execution keeps the table well formed.
LEMMA SaveExecType ==
  ASSUME Inv, NEW e \in ExecCopies, SaveExecRow(e), nextExec' \in Nat,
         nextExec <= nextExec', e.id <= nextExec'
  PROVE  /\ DOMAIN execs' \subseteq 1 .. nextExec'
         /\ \A i \in DOMAIN execs' : execs'[i] \in ExecRows
  BY DEF Inv, TypeOK, SaveExecRow, ExecCopies, ExecRows

\* What is left of a slot that has finished, and of the others.
LEMMA FinishSlot ==
  ASSUME Inv, NEW h \in Handlers, Finish(h)
  PROVE  /\ OthersKeep(h) /\ SlotOK(h)'
         /\ pc' \in [Handlers -> Steps]
         /\ copy' \in [Handlers -> Rows \cup {NoTask}]
         /\ todo' \in [Handlers -> Seq(Devices)]
         /\ ecopy' \in [Handlers -> ExecCopies \cup {NoExec}]
         /\ verdict' \in [Handlers -> Verdicts]
<1> USE DEF Inv, TypeOK, Finish, Goto, Load, Left, LoadExec
<1>1. OthersKeep(h)
  BY DEF OthersKeep
<1>2. pc'[h] = "idle"
  OBVIOUS
<1>3. SlotOK(h)'
  BY <1>2 DEF SlotOK, HasRow, Dispatching, HasDevices, HasExec, OnDevice
<1> QED  BY <1>1, <1>3 DEF Steps, Verdicts

LEMMA DeleteExecsInv ==
  ASSUME Inv, NEW h \in Handlers, DeleteExecs(h)
  PROVE  Inv'
<1> USE DEF DeleteExecs, At, Goto, envVars, netVars
<1>1. OthersKeep(h)
  BY DEF OthersKeep, Inv, TypeOK
<1>2. TypeOK'
  BY DEF Inv, TypeOK, Steps
<1>3. SlotOK(h) /\ pc[h] = "delete_execs" /\ pc'[h] = "create_execs"
  BY DEF Inv, TypeOK
<1>4. SlotOK(h)'
  BY <1>3 DEF SlotOK, RowOK, Named, Covered, Entitled, DutiesApart,
     InForce, HasRow, Dispatching, HasDevices, HasExec, OnDevice
<1>5. task' # NoTask => RowOK(task)'
  BY DEF Inv, RowOK, Named
<1> QED  BY <1>1, <1>2, <1>4, <1>5, SlotStepInv, NextIdIs DEF Inv

LEMMA CreateExecInv ==
  ASSUME Inv, NEW h \in Handlers, CreateExec(h)
  PROVE  Inv'
<1> DEFINE d == Head(todo[h])
           rest == Tail(todo[h])
<1>0. d \in Devices /\ rest \in Seq(Devices)
  BY ListParts DEF CreateExec, Inv, TypeOK
<1> USE DEF CreateExec, At, Goto, Left, envVars, netVars
<1>1. OthersKeep(h)
  BY DEF OthersKeep, Inv, TypeOK
<1>2. d \in Devices /\ nextExec \in Nat \ {0}
  BY <1>0 DEF Inv, TypeOK
<1>3. [id |-> nextExec, device |-> d, status |-> "pending"] \in ExecCopies
  BY <1>2 DEF ExecCopies, ExecStatuses
<1>4. /\ DOMAIN execs' \subseteq 1 .. nextExec'
      /\ \A i \in DOMAIN execs' : execs'[i] \in ExecRows
  BY <1>2, <1>3, SaveExecType
<1>5. TypeOK'
  BY <1>0, <1>4 DEF Inv, TypeOK, Steps
<1>6. SlotOK(h) /\ pc[h] = "create_execs"
  BY DEF Inv
<1>7. /\ pc'[h] \in {"create_execs", "save_dispatch", "save"}
      /\ pc'[h] = "save_dispatch" => copy[h].status = "approved"
  BY DEF Inv, TypeOK
<1>8. SlotOK(h)'
  BY <1>6, <1>7 DEF SlotOK, RowOK, Named, Covered, Entitled, DutiesApart,
     InForce, HasRow, Dispatching, HasDevices, HasExec, OnDevice
<1>9. task' # NoTask => RowOK(task)'
  BY DEF Inv, RowOK, Named
<1> QED  BY <1>1, <1>2, <1>5, <1>8, <1>9, SlotStepInv, NextIdIs DEF Inv

LEMMA SaveTaskInv ==
  ASSUME Inv, NEW h \in Handlers, SaveTask(h)
  PROVE  Inv'
<1> USE DEF SaveTask, At, envVars, netVars
<1>1. SlotOK(h) /\ pc[h] = "save"
  BY DEF Inv
<1>2. RowOK(copy[h]) /\ copy[h] \in Rows
  BY <1>1 DEF SlotOK, HasRow, RowOK
<1>3. RowOK(task)'
  BY <1>2 DEF RowOK, Named
<1>4. TypeOK'
  BY <1>2, FinishSlot DEF Inv, TypeOK
<1> QED  BY <1>3, <1>4, FinishSlot, SlotStepInv, NextIdIs DEF Inv

LEMMA SaveAndDispatchInv ==
  ASSUME Inv, NEW h \in Handlers, SaveAndDispatch(h)
  PROVE  Inv'
<1> USE DEF SaveAndDispatch, At, Goto, Left, envVars, netVars
<1>1. SlotOK(h) /\ pc[h] = "save_dispatch"
  BY DEF Inv
<1>2. RowOK(copy[h]) /\ copy[h] \in Rows /\ copy[h].content.devices \in Seq(Devices)
  BY <1>1 DEF SlotOK, HasRow, RowOK, Rows, ContentType
<1>3. OthersKeep(h)
  BY DEF OthersKeep, Inv, TypeOK
<1>4. TypeOK'
  BY <1>2 DEF Inv, TypeOK, Steps
<1>5. pc'[h] = "dispatch" /\ todo'[h] = copy[h].content.devices
  BY DEF Inv, TypeOK
<1>6. SlotOK(h)'
  BY <1>1, <1>5 DEF SlotOK, RowOK, Named, Covered, Entitled, DutiesApart,
     InForce, HasRow, Dispatching, HasDevices, HasExec, OnDevice
<1>7. RowOK(task)'
  BY <1>2 DEF RowOK, Named
<1> QED  BY <1>3, <1>4, <1>6, <1>7, SlotStepInv, NextIdIs DEF Inv

LEMMA RemoveExecsInv ==
  ASSUME Inv, NEW h \in Handlers, RemoveExecs(h)
  PROVE  Inv'
<1> USE DEF RemoveExecs, At, Goto, envVars, netVars
<1>1. OthersKeep(h)
  BY DEF OthersKeep, Inv, TypeOK
<1>2. TypeOK'
  BY DEF Inv, TypeOK, Steps
<1>3. pc'[h] = "remove_task"
  BY DEF Inv, TypeOK
<1>4. SlotOK(h)'
  BY <1>3 DEF SlotOK, HasRow, Dispatching, HasDevices, HasExec, OnDevice
<1>5. task' # NoTask => RowOK(task)'
  BY DEF Inv, RowOK, Named
<1> QED  BY <1>1, <1>2, <1>4, <1>5, SlotStepInv, NextIdIs DEF Inv

LEMMA RemoveTaskInv ==
  ASSUME Inv, NEW h \in Handlers, RemoveTask(h)
  PROVE  Inv'
<1> USE DEF RemoveTask, At, envVars, netVars
<1>1. TypeOK'
  BY FinishSlot DEF Inv, TypeOK
<1> QED  BY <1>1, FinishSlot, SlotStepInv, NextIdIs DEF Inv

-----------------------------------------------------------------------------
(* dispatchToDevices *)

\* What a slot on its way through the devices knows.
LEMMA OnDeviceSlot ==
  ASSUME Inv, NEW h \in Handlers, pc[h] \in OnDevice
  PROVE  /\ RowOK(copy[h]) /\ Covered(copy[h].content)
         /\ ecopy[h] \in ExecCopies /\ ecopy[h].id <= nextExec
         /\ ecopy[h].device \in Range(copy[h].content.devices)
         /\ Range(todo[h]) \subseteq Range(copy[h].content.devices)
  BY DEF Inv, SlotOK, OnDevice, HasRow, Dispatching, HasDevices, HasExec

LEMMA PickDeviceInv ==
  ASSUME Inv, NEW h \in Handlers, PickDevice(h)
  PROVE  Inv'
<1> DEFINE d == Head(todo[h])
           rest == Tail(todo[h])
<1>0. /\ d \in Devices /\ d \in Range(todo[h])
      /\ rest \in Seq(Devices) /\ Range(rest) \subseteq Range(todo[h])
  BY ListParts DEF PickDevice, Inv, TypeOK
<1> USE DEF PickDevice, At, Goto, Left, LoadExec, envVars, netVars
<1>1. pc[h] = "dispatch" /\ SlotOK(h)
  BY DEF Inv
<1>2. /\ RowOK(copy[h]) /\ Covered(copy[h].content)
      /\ Range(todo[h]) \subseteq Range(copy[h].content.devices)
  BY <1>1 DEF SlotOK, HasRow, Dispatching, HasDevices
<1>3. d \in Devices /\ d \in Range(copy[h].content.devices)
  BY <1>0, <1>2
<1>4. OthersKeep(h)
  <2>1. \/ UNCHANGED <<pc, ecopy>>
        \/ \E i \in ExecsOf(d), found \in LookedUp(d) :
             /\ Goto(h, IF found THEN "save_sent" ELSE "save_skip")
             /\ LoadExec(h, [id |-> i, device |-> d,
                             status |-> IF found THEN "sent" ELSE "skipped"])
    OBVIOUS
  <2> QED  BY <2>1 DEF OthersKeep, Inv, TypeOK
<1>5. CASE UNCHANGED <<pc, ecopy>>
  <2>1. TypeOK'
    BY <1>0, <1>5 DEF Inv, TypeOK
  <2>2. Range(todo'[h]) \subseteq Range(todo[h])
    BY <1>0 DEF Inv, TypeOK
  <2>3. SlotOK(h)'
    BY <1>1, <1>2, <1>5, <2>2 DEF SlotOK, RowOK, Named, Covered, Entitled, DutiesApart, InForce,
       HasRow, Dispatching,
       HasDevices, HasExec, OnDevice
  <2>4. task' # NoTask => RowOK(task)'
    BY DEF Inv, RowOK, Named
  <2> QED  BY <1>4, <2>1, <2>3, <2>4, SlotStepInv, NextIdIs DEF Inv
<1>6. ASSUME NEW i \in ExecsOf(d), NEW step \in {"save_sent", "save_skip"},
             NEW status \in {"sent", "skipped"},
             Goto(h, step), LoadExec(h, [id |-> i, device |-> d, status |-> status])
      PROVE  Inv'
  <2>1. i \in Nat \ {0} /\ i <= nextExec
    BY DEF Inv, TypeOK, ExecsOf
  <2>2. [id |-> i, device |-> d, status |-> status] \in ExecCopies
    BY <1>3, <2>1 DEF ExecCopies, ExecStatuses
  <2>3. TypeOK'
    BY <1>0, <1>6, <2>2 DEF Inv, TypeOK, Steps
  <2>4. /\ pc'[h] = step /\ Range(todo'[h]) \subseteq Range(todo[h])
        /\ ecopy'[h] = [id |-> i, device |-> d, status |-> status]
    BY <1>0, <1>6 DEF Inv, TypeOK
  <2>5. RowOK(copy[h])' /\ Covered(copy[h].content)'
    BY <1>2 DEF RowOK, Named, Covered, Entitled, DutiesApart, InForce
  <2>6. SlotOK(h)'
    BY <1>2, <1>3, <2>1, <2>2, <2>4, <2>5
    DEF SlotOK, HasRow, Dispatching, HasDevices, HasExec, OnDevice
  <2>7. task' # NoTask => RowOK(task)'
    BY DEF Inv, RowOK, Named
  <2> QED  BY <1>4, <2>3, <2>6, <2>7, SlotStepInv, NextIdIs DEF Inv
<1> QED  BY <1>5, <1>6

\* Steps on a device: the slot goes from one to the next, or back to the loop.
LEMMA DeviceStepInv ==
  ASSUME Inv, NEW h \in Handlers, pc[h] \in OnDevice,
         NEW step \in {"send", "save_skip", "dispatch"}, Goto(h, step),
         NEW e \in ExecCopies \cup {NoExec}, LoadExec(h, e),
         step # "dispatch" => e \in ExecCopies /\ e.id = ecopy[h].id /\ e.device = ecopy[h].device,
         UNCHANGED <<task, created, nextExec, copy, todo, verdict, requests, envVars,
                     results, grants, ran>>,
         DOMAIN execs' \subseteq 1 .. nextExec,
         \A i \in DOMAIN execs' : execs'[i] \in ExecRows,
         commands' \subseteq commands \cup {CommandOf(h)}
  PROVE  Inv'
<1> USE DEF Goto, LoadExec, envVars
<1>1. /\ RowOK(copy[h]) /\ Covered(copy[h].content)
      /\ ecopy[h] \in ExecCopies /\ ecopy[h].id <= nextExec
      /\ ecopy[h].device \in Range(copy[h].content.devices)
      /\ Range(todo[h]) \subseteq Range(copy[h].content.devices)
  BY OnDeviceSlot
<1>2. CommandOf(h) \in Messages
  <2>1. Len(todo[h]) \in Nat
    BY DEF Inv, TypeOK
  <2>2. Range(copy[h].content.devices) \subseteq Devices
    BY <1>1, ContentList DEF RowOK, Rows
  <2> QED  BY <1>1, <2>1, <2>2 DEF CommandOf, Messages, ExecCopies, RowOK, Rows, ContentType
<1>3. MessageOK(CommandOf(h))
  BY <1>1 DEF CommandOf, MessageOK, Covered
<1>4. OthersKeep(h)
  BY DEF OthersKeep, Inv, TypeOK
<1>5. TypeOK'
  BY <1>2 DEF Inv, TypeOK, Steps
<1>6. pc'[h] = step /\ ecopy'[h] = e
  BY DEF Inv, TypeOK
<1>7. RowOK(copy[h])' /\ Covered(copy[h].content)'
  BY <1>1 DEF RowOK, Named, Covered, Entitled, DutiesApart, InForce
<1>8. SlotOK(h)'
  BY <1>1, <1>6, <1>7 DEF SlotOK, HasRow, Dispatching, HasDevices, HasExec, OnDevice
<1>9. task' # NoTask => RowOK(task)'
  BY DEF Inv, RowOK, Named
<1>10. \A m \in commands' \cup ran' : MessageOK(m)
  BY <1>3 DEF Inv
<1> QED  BY <1>4, <1>5, <1>8, <1>9, <1>10, SlotStepInv, NextIdIs DEF Inv

LEMMA OnDeviceInv ==
  ASSUME Inv, NEW h \in Handlers, SaveSent(h) \/ Send(h) \/ SendError(h) \/ SaveSkip(h)
  PROVE  Inv'
<1> USE DEF At, netVars
<1>1. pc[h] \in OnDevice
  BY DEF SaveSent, Send, SendError, SaveSkip, OnDevice
<1>2. ecopy[h] \in ExecCopies /\ ecopy[h].id <= nextExec
  BY <1>1, OnDeviceSlot
<1>3. /\ DOMAIN execs \subseteq 1 .. nextExec /\ nextExec \in Nat
      /\ \A i \in DOMAIN execs : execs[i] \in ExecRows
  BY DEF Inv, TypeOK
<1>4. ASSUME SaveExecRow(ecopy[h]), nextExec' = nextExec
      PROVE  /\ DOMAIN execs' \subseteq 1 .. nextExec
             /\ \A i \in DOMAIN execs' : execs'[i] \in ExecRows
  BY <1>2, <1>3, <1>4, SaveExecType
<1>5. CASE SaveSent(h)
  <2>1. LoadExec(h, ecopy[h])
    BY <1>5 DEF SaveSent, LoadExec, Inv, TypeOK
  <2> QED  BY <1>1, <1>2, <1>4, <1>5, <2>1, DeviceStepInv DEF SaveSent
<1>6. CASE Send(h)
  BY <1>1, <1>3, <1>6, DeviceStepInv DEF Send
<1>7. CASE SendError(h)
  <2> DEFINE e == [ecopy[h] EXCEPT !.status = "skipped"]
  <2>1. e \in ExecCopies /\ e.id = ecopy[h].id /\ e.device = ecopy[h].device
    BY <1>2 DEF ExecCopies, ExecStatuses
  <2>2. LoadExec(h, e)
    BY <1>7 DEF SendError
  <2> HIDE DEF e
  <2> QED  BY <1>1, <1>3, <1>7, <2>1, <2>2, DeviceStepInv DEF SendError
<1>8. CASE SaveSkip(h)
  BY <1>1, <1>4, <1>8, DeviceStepInv DEF SaveSkip
<1> QED  BY <1>5, <1>6, <1>7, <1>8

-----------------------------------------------------------------------------
(* Results and the summary of a task *)

LEMMA SaveResultInv ==
  ASSUME Inv, NEW h \in Handlers, SaveResult(h)
  PROVE  Inv'
<1> USE DEF SaveResult, At, Goto, LoadExec, envVars, netVars
<1>1. pc[h] = "save_result" /\ SlotOK(h) /\ nextExec \in Nat
  BY DEF Inv, TypeOK
<1>2. ecopy[h] \in ExecCopies /\ ecopy[h].id <= nextExec
  BY <1>1 DEF SlotOK, HasExec
<1>3. /\ DOMAIN execs' \subseteq 1 .. nextExec'
      /\ \A i \in DOMAIN execs' : execs'[i] \in ExecRows
  BY <1>1, <1>2, SaveExecType
<1>4. OthersKeep(h)
  BY DEF OthersKeep, Inv, TypeOK
<1>5. TypeOK'
  BY <1>3 DEF Inv, TypeOK, Steps
<1>6. pc'[h] = "list"
  BY DEF Inv, TypeOK
<1>7. SlotOK(h)'
  BY <1>6 DEF SlotOK, HasRow, Dispatching, HasDevices, HasExec, OnDevice
<1>8. task' # NoTask => RowOK(task)'
  BY DEF Inv, RowOK, Named
<1> QED  BY <1>4, <1>5, <1>7, <1>8, SlotStepInv, NextIdIs DEF Inv

LEMMA SummaryType == Summary \in Verdicts \ {"none"}
  BY DEF Summary, Verdicts

LEMMA ListExecsInv ==
  ASSUME Inv, NEW h \in Handlers, ListExecs(h)
  PROVE  Inv'
<1> USE DEF ListExecs, Goto, Load, dbVars, envVars, netVars
<1>1. OthersKeep(h)
  BY DEF OthersKeep, Inv, TypeOK
<1>2. TypeOK'
  BY SummaryType DEF Inv, TypeOK, Steps
<1>3. pc'[h] = "get" /\ verdict'[h] # "none"
  BY SummaryType DEF Inv, TypeOK
<1>4. SlotOK(h)'
  BY <1>3 DEF SlotOK, HasRow, Dispatching, HasDevices, HasExec, OnDevice
<1>5. task' # NoTask => RowOK(task)'
  BY DEF Inv, RowOK, Named
<1> QED  BY <1>1, <1>2, <1>4, <1>5, SlotStepInv, NextIdIs DEF Inv

LEMMA GetTaskInv ==
  ASSUME Inv, NEW h \in Handlers, GetTask(h)
  PROVE  Inv'
<1> USE DEF GetTask, At, envVars, netVars
<1>1. task' # NoTask => RowOK(task)'
  BY DEF Inv, RowOK, Named
<1>2. CASE Finish(h)
  <2>1. TypeOK'
    BY <1>2, FinishSlot DEF Inv, TypeOK
  <2>2. UNCHANGED <<policy, seen, grants, nextExec, commands, ran>> /\ nextExec <= nextExec'
    BY NextIdIs
  <2>3. OthersKeep(h) /\ SlotOK(h)'
    BY <1>2, FinishSlot
  <2>4. grants \subseteq grants' /\ \A m \in commands' \cup ran' : MessageOK(m)
    BY <2>2 DEF Inv
  <2> QED  BY <1>1, <2>1, <2>2, <2>3, <2>4, SlotStepInv
<1>3. CASE ~Finish(h)
  <2> DEFINE status == IF verdict[h] = "running" THEN "executing" ELSE verdict[h]
             row    == [task EXCEPT !.status = status]
  <2>1. /\ task # NoTask /\ Goto(h, "save") /\ Load(h, row)
        /\ UNCHANGED <<todo, ecopy, verdict>>
    BY <1>3
  <2>2. verdict[h] \in Verdicts \ {"none"}
    BY DEF Inv, TypeOK, SlotOK
  <2>3. status \in Statuses
    BY <2>2 DEF Verdicts, Statuses
  <2>4. RowOK(row)
    BY <2>1, <2>3, StatusRow DEF Inv
  <2> HIDE DEF row
  <2>5. OthersKeep(h)
    BY <2>1 DEF OthersKeep, Goto, Load, Inv, TypeOK
  <2>6. TypeOK'
    BY <2>1, <2>4 DEF Inv, TypeOK, Steps, Goto, Load, RowOK
  <2>7. pc'[h] = "save" /\ copy'[h] = row
    BY <2>1 DEF Goto, Load, Inv, TypeOK
  <2>8. RowOK(copy[h])'
    BY <2>4, <2>7 DEF RowOK, Named
  <2>9. SlotOK(h)'
    BY <2>7, <2>8 DEF SlotOK, HasRow, Dispatching, HasDevices, HasExec, OnDevice
  <2> QED  BY <1>1, <2>5, <2>6, <2>9, SlotStepInv, NextIdIs DEF Inv
<1> QED  BY <1>2, <1>3

LEMMA FailedCallInv ==
  ASSUME Inv, NEW h \in Handlers, FailedCall(h)
  PROVE  Inv'
<1> USE DEF FailedCall, Goto, Left, dbVars, envVars, netVars
<1>1. task' # NoTask => RowOK(task)'
  BY DEF Inv, RowOK, Named
<1>2. CASE Finish(h)
  <2>1. TypeOK'
    BY <1>2, FinishSlot DEF Inv, TypeOK
  <2>2. UNCHANGED <<policy, seen, grants, nextExec, commands, ran>> /\ nextExec <= nextExec'
    BY NextIdIs
  <2>3. OthersKeep(h) /\ SlotOK(h)'
    BY <1>2, FinishSlot
  <2>4. grants \subseteq grants' /\ \A m \in commands' \cup ran' : MessageOK(m)
    BY <2>2 DEF Inv
  <2> QED  BY <1>1, <2>1, <2>2, <2>3, <2>4, SlotStepInv
<1>3. CASE /\ pc[h] = "dispatch"
           /\ todo[h] # <<>>
           /\ Left(h, Tail(todo[h]))
           /\ UNCHANGED <<pc, copy, ecopy, verdict>>
  <2>0. Tail(todo[h]) \in Seq(Devices) /\ Range(Tail(todo[h])) \subseteq Range(todo[h])
    BY <1>3, ListParts DEF Inv, TypeOK
  <2>1. OthersKeep(h)
    BY <1>3 DEF OthersKeep, Inv, TypeOK
  <2>2. TypeOK'
    BY <1>3, <2>0 DEF Inv, TypeOK
  <2>3. SlotOK(h) /\ Range(todo'[h]) \subseteq Range(todo[h])
    BY <1>3, <2>0 DEF Inv, TypeOK
  <2>4. SlotOK(h)'
    BY <1>3, <2>3 DEF SlotOK, RowOK, Named, Covered, Entitled, DutiesApart, InForce,
       HasRow, Dispatching,
       HasDevices, HasExec, OnDevice
  <2> QED  BY <1>1, <2>1, <2>2, <2>4, SlotStepInv, NextIdIs DEF Inv
<1>4. CASE /\ pc[h] \in {"save_sent", "save_skip"}
           /\ Goto(h, IF pc[h] = "save_sent" THEN "send" ELSE "dispatch")
           /\ UNCHANGED <<copy, todo, ecopy, verdict>>
  <2>1. OthersKeep(h)
    BY <1>4 DEF OthersKeep, Inv, TypeOK
  <2>2. TypeOK'
    BY <1>4 DEF Inv, TypeOK, Steps
  <2>3. SlotOK(h) /\ pc'[h] = IF pc[h] = "save_sent" THEN "send" ELSE "dispatch"
    BY <1>4 DEF Inv, TypeOK
  <2>4. SlotOK(h)'
    BY SMTT(20), <1>4, <2>3 DEF SlotOK, RowOK, Named, Covered, Entitled, DutiesApart, InForce,
       HasRow, Dispatching,
       HasDevices, HasExec, OnDevice
  <2> QED  BY <1>1, <2>1, <2>2, <2>4, SlotStepInv, NextIdIs DEF Inv
<1> QED  BY <1>2, <1>3, <1>4

LEMMA SlotStepKeepsInv ==
  ASSUME Inv, NEW h \in Handlers, SlotStep(h)
  PROVE  Inv'
  BY DeleteExecsInv, CreateExecInv, SaveTaskInv, SaveAndDispatchInv, RemoveExecsInv,
     RemoveTaskInv, PickDeviceInv, OnDeviceInv, SaveResultInv, ListExecsInv, GetTaskInv,
     FailedCallInv
  DEF SlotStep

LEMMA BeginResultInv ==
  ASSUME Inv, NEW h \in Handlers, NEW r \in results, BeginResult(h, r)
  PROVE  Inv'
<1> USE DEF BeginResult, Goto, LoadExec, dbVars, envVars
<1> DEFINE e == [id |-> r.exec, device |-> execs[r.exec].device, status |-> r.status]
<1>1. r \in Results /\ r.exec \in Nat \ {0} /\ r.exec <= nextExec /\ execs[r.exec] \in ExecRows
  BY DEF Inv, TypeOK, Results
<1>2. e \in ExecCopies /\ e.id <= nextExec
  BY <1>1 DEF ExecCopies, ExecRows, Results, ExecStatuses
<1>3. OthersKeep(h)
  BY DEF OthersKeep, Inv, TypeOK
<1>4. pc'[h] = "save_result" /\ ecopy'[h] = e
  BY DEF Inv, TypeOK
<1> HIDE DEF e
<1>5. TypeOK'
  <2>1. LoadExec(h, e)
    BY DEF e
  <2> QED  BY <1>2, <2>1 DEF Inv, TypeOK, Steps
<1>6. SlotOK(h)'
  BY <1>2, <1>4 DEF SlotOK, HasRow, Dispatching, HasDevices, HasExec, OnDevice
<1>7. task' # NoTask => RowOK(task)'
  BY DEF Inv, RowOK, Named
<1> QED  BY <1>3, <1>5, <1>6, <1>7, SlotStepInv, NextIdIs DEF Inv

-----------------------------------------------------------------------------
(* Devices and environment *)

LEMMA RunCommandInv ==
  ASSUME Inv, NEW m \in commands, RunCommand(m)
  PROVE  Inv'
<1> USE DEF RunCommand, dbVars, envVars, slotVars
<1>1. PICK s \in {"succeeded", "failed"} :
        results' = results \cup {[exec |-> m.exec, status |-> s, place |-> m.place]}
  OBVIOUS
<1>2. m \in Messages
  BY DEF Inv, TypeOK
<1>3. [exec |-> m.exec, status |-> s, place |-> m.place] \in Results
  BY <1>2 DEF Messages, Results
<1>4. TypeOK'
  BY <1>1, <1>2, <1>3 DEF Inv, TypeOK
<1>5. task' # NoTask => RowOK(task)'
  BY DEF Inv, RowOK, Named
<1> QED  BY <1>4, <1>5, OutsideInv DEF Inv

LEMMA EnvironmentInv ==
  ASSUME Inv, Environment
  PROVE  Inv'
<1> USE DEF dbVars, envVars, slotVars, netVars
<1>1. CASE \E u \in Users, c \in Contents : CreateTask(u, c)
  BY <1>1, CreateTaskInv
<1>2. CASE Crash
  <2>1. TypeOK'
    BY <1>2 DEF Crash, Inv, TypeOK, Steps, Verdicts
  <2>2. \A h \in Handlers : SlotOK(h)'
    BY <1>2 DEF Crash, SlotOK, HasRow, Dispatching, HasDevices, HasExec, OnDevice
  <2>3. task' # NoTask => RowOK(task)'
    BY <1>2 DEF Crash, Inv, RowOK, Named
  <2>4. \A m \in commands' \cup ran' : MessageOK(m)'
    BY <1>2 DEF Crash, Inv, MessageOK, Entitled, DutiesApart, InForce
  <2> QED  BY <1>2, <2>1, <2>2, <2>3, <2>4 DEF Crash, Inv
<1>3. CASE \/ \E r \in results : RefuseResult(r) \/ LoseResult(r)
           \/ \E m \in commands : LoseCommand(m)
           \/ \E devs \in ActiveSets : SetActive(devs)
           \/ Tick
  <2> USE DEF RefuseResult, LoseResult, LoseCommand, SetActive, Tick
  <2>1. TypeOK'
    BY <1>3 DEF Inv, TypeOK
  <2>2. UNCHANGED <<task, nextExec, slotVars, policy, seen, grants>>
    BY <1>3
  <2>3. task' # NoTask => RowOK(task)'
    BY <2>2 DEF Inv, RowOK, Named
  <2>4. commands' \cup ran' \subseteq commands \cup ran
    BY <1>3
  <2> QED  BY <2>1, <2>2, <2>3, <2>4, OutsideInv DEF Inv
<1>4. CASE \E table \in PolicyTables : SetPolicy(table)
  <2>1. TypeOK'
    BY <1>4 DEF SetPolicy, Inv, TypeOK
  <2>2. task' # NoTask => RowOK(task)'
    BY <1>4 DEF SetPolicy, Inv, RowOK, Named
  <2> QED  BY <1>4, <2>1, <2>2, OutsideInv DEF SetPolicy, Inv
<1> QED  BY <1>1, <1>2, <1>3, <1>4 DEF Environment

LEMMA StutterInv ==
  ASSUME Inv, UNCHANGED vars
  PROVE  Inv'
<1> USE DEF vars, dbVars, envVars, slotVars, netVars
<1>1. TypeOK'
  BY DEF Inv, TypeOK
<1>2. task' # NoTask => RowOK(task)'
  BY DEF Inv, RowOK, Named
<1> QED  BY <1>1, <1>2, OutsideInv DEF Inv

-----------------------------------------------------------------------------
(* Theorems *)

LEMMA InitInv == Init => Inv
<1> SUFFICES ASSUME Init PROVE Inv
  OBVIOUS
<1> USE DEF Init
<1>1. TypeOK
  <2>1. DOMAIN execs = {}
    OBVIOUS
  <2>2. requests \in 0 .. MaxRequests
    BY BoundsAssumption
  <2>3. /\ pc \in [Handlers -> Steps]
        /\ copy \in [Handlers -> Rows \cup {NoTask}]
        /\ todo \in [Handlers -> Seq(Devices)]
        /\ ecopy \in [Handlers -> ExecCopies \cup {NoExec}]
        /\ verdict \in [Handlers -> Verdicts]
    BY DEF Steps, Verdicts
  <2>4. active \in ActiveSets /\ policy \in PolicyTables /\ seen \subseteq PolicyTables
    OBVIOUS
  <2>5. /\ nextExec \in Nat \ {0} /\ now \in Nat
        /\ commands \subseteq Messages /\ results \subseteq Results
        /\ grants \subseteq Grants /\ ran \subseteq Messages
    OBVIOUS
  <2>6. /\ DOMAIN execs \subseteq 1 .. nextExec
        /\ \A i \in DOMAIN execs : execs[i] \in ExecRows
    BY <2>1
  <2>7. task \in Rows \cup {NoTask} /\ created \in BOOLEAN
    BY Zenon
  <2> HIDE DEF Init
  <2> QED  BY <2>2, <2>3, <2>4, <2>5, <2>6, <2>7 DEF TypeOK
<1>2. \A h \in Handlers : SlotOK(h)
  BY DEF SlotOK, HasRow, Dispatching, HasDevices, HasExec, OnDevice
<1> QED  BY <1>1, <1>2 DEF Inv

LEMMA NextInv == Inv /\ [Next]_vars => Inv'
<1> SUFFICES ASSUME Inv, [Next]_vars PROVE Inv'
  OBVIOUS
<1>1. CASE \E h \in Handlers, u \in Users : Request(h, u)
  BY <1>1, RequestInv
<1>2. CASE \E h \in Handlers : SlotStep(h)
  BY <1>2, SlotStepKeepsInv
<1>3. CASE TakeResult
  BY <1>3, BeginResultInv DEF TakeResult
<1>4. CASE RunSome
  BY <1>4, RunCommandInv DEF RunSome
<1>5. CASE Environment
  BY <1>5, EnvironmentInv
<1>6. CASE UNCHANGED vars
  BY <1>6, StutterInv
<1> QED  BY <1>1, <1>2, <1>3, <1>4, <1>5, <1>6 DEF Next

\* The rows, copies and messages keep their types, whatever interleaves.
THEOREM TypeCorrect == Spec => []TypeOK
<1>1. Inv => TypeOK
  BY DEF Inv
<1> QED  BY <1>1, InitInv, NextInv, PTL DEF Spec

\* Whatever a device executes, someone entitled to it decided on that text for that
\* device: for any number of handlers, users, devices, contents and policies, with
\* any interleaving, failed calls, restarts and changes of policy.
THEOREM RunsAreAuthorised == Spec => []AuthorisedRuns
<1>1. Inv => AuthorisedRuns
  BY DEF Inv, AuthorisedRuns, MessageOK
<1> QED  BY <1>1, InitInv, NextInv, PTL DEF Spec

-----------------------------------------------------------------------------
(* One request at a time: a withdrawn task has run nothing, no device is    *)
(* sent what it has already executed, and the status of a task is the       *)
(* summary of its executions.  The first two hold whatever fails, crashes   *)
(* or is lost.  Overlapping requests break them: CommandTask's other runs   *)
(* show it.                                                                 *)

\* No two slots are at work at once: a request, with the dispatch that follows it, ends before the
\* next one begins.
OneBusy == \A g, h \in Handlers : pc[g] # "idle" /\ pc[h] # "idle" => g = h

\* The statuses a task has once it was given to dispatchToDevices.
Dispatched == {"approved", "executing", "partial_done", "completed", "failed"}

Sent == commands \cup ran

Undispatched == task # NoTask /\ task.status \notin Dispatched

\* Nobody decided on a list that names a device twice.
AllOnce == \A g \in grants : EachOnce(g.content)

\* Then each device is sent one command, which runs once.
Apart ==
  AllOnce => /\ commands \cap ran = {}
             /\ \A m, n \in Sent : m.device = n.device => m = n

\* A slot that may still change its mind about the task works on one that was never dispatched;
\* a slot that dispatches has sent nothing to the devices it has still to treat.
TurnOK(h) ==
  /\ pc[h] \in {"delete_execs", "create_execs"} =>
       Undispatched /\ copy[h].status \in {"approved", "pending_approval"}
  /\ pc[h] = "save_dispatch" => Undispatched /\ copy[h].status = "approved"
  /\ pc[h] = "save" => copy[h].status \in Dispatched \/ Undispatched
  /\ pc[h] \in HasDevices /\ AllOnce =>
       IsInjective(todo[h]) /\ \A m \in Sent : m.device \notin Range(todo[h])
  /\ pc[h] \in {"save_sent", "send"} /\ AllOnce =>
       ecopy[h].device \notin Range(todo[h]) /\ \A m \in Sent : m.device # ecopy[h].device

Fresh ==
  /\ task = NoTask /\ Sent = {} /\ results = {}
  /\ \A h \in Handlers : pc[h] = "idle"

Begun == Sent # {} \/ \E h \in Handlers : pc[h] \in HasDevices

TurnInv ==
  /\ ~created => Fresh
  /\ Begun => task = NoTask \/ task.status \in Dispatched
  /\ Apart
  /\ \A h \in Handlers : TurnOK(h)

Alone(h) == \A k \in Handlers \ {h} : pc[k] = "idle"

-----------------------------------------------------------------------------
(* One slot at work *)

LEMMA DecisionsStay == ASSUME grants \subseteq grants' PROVE AllOnce' => AllOnce
  BY DEF AllOnce

\* Nothing is sent.
LEMMA ApartStays ==
  ASSUME Apart, UNCHANGED <<commands, ran>>, grants \subseteq grants'
  PROVE  Apart' /\ Sent' = Sent
  BY DecisionsStay DEF Apart, Sent

\* Without the first, a list that names each device once still does, and the first is not on it.
LEMMA OnceParts ==
  ASSUME NEW S, NEW list \in Seq(S), list # <<>>, IsInjective(list)
  PROVE  IsInjective(Tail(list)) /\ Head(list) \notin Range(Tail(list))
<1>1. Len(list) \in Nat \ {0} /\ DOMAIN list = 1 .. Len(list) /\ Head(list) = list[1]
  OBVIOUS
<1>2. /\ DOMAIN Tail(list) = 1 .. Len(list) - 1
      /\ \A i \in 1 .. Len(list) - 1 : Tail(list)[i] = list[i + 1] /\ i + 1 \in 1 .. Len(list)
  BY <1>1
<1>3. \A i, j \in 1 .. Len(list) : list[i] = list[j] => i = j
  BY <1>1 DEF IsInjective
<1> QED  BY <1>1, <1>2, <1>3 DEF IsInjective, Range

\* What a step of the slot that is at work alone has still to show.
LEMMA AloneTurn ==
  ASSUME NEW h \in Handlers, Alone(h), OthersKeep(h), TurnOK(h)', created',
         Apart',
         Sent' # {} \/ pc'[h] \in HasDevices => task' = NoTask \/ task'.status \in Dispatched
  PROVE  TurnInv'
<1>1. ASSUME NEW k \in Handlers, k # h PROVE pc'[k] = "idle"
  BY <1>1 DEF Alone, OthersKeep
<1>2. \A k \in Handlers : TurnOK(k)'
  BY <1>1 DEF TurnOK, HasDevices
<1>3. Begun' => task' = NoTask \/ task'.status \in Dispatched
  BY <1>1 DEF Begun, HasDevices
<1> QED  BY <1>2, <1>3 DEF TurnInv

\* The slot that takes a step is alone: it was at work before, or it is after.
LEMMA BusyIsAlone ==
  ASSUME OneBusy, NEW h \in Handlers, pc[h] # "idle"
  PROVE  Alone(h)
  BY DEF OneBusy, Alone

LEMMA StartsAlone ==
  ASSUME OneBusy', NEW h \in Handlers, OthersKeep(h), pc'[h] # "idle"
  PROVE  Alone(h)
  BY DEF OneBusy, Alone, OthersKeep

\* A slot that ends, having written nothing but what it may.
LEMMA FinishTurn ==
  ASSUME Inv, TurnInv, NEW h \in Handlers, Alone(h), created, created' = created, Finish(h),
         UNCHANGED netVars, UNCHANGED <<grants, ran>>,
         task' = task \/ task' = NoTask \/ task'.status \in Dispatched \/ Undispatched
  PROVE  TurnInv'
<1>1. OthersKeep(h) /\ pc'[h] = "idle"
  BY FinishSlot DEF Finish, Goto, Inv, TypeOK
<1>2. TurnOK(h)'
  BY <1>1 DEF TurnOK, HasDevices
<1>3. Apart' /\ Sent' = Sent
  BY ApartStays DEF TurnInv, netVars
<1>4. Sent # {} => task = NoTask \/ task.status \in Dispatched
  BY DEF TurnInv, Begun
<1>5. Sent' # {} \/ pc'[h] \in HasDevices => task' = NoTask \/ task'.status \in Dispatched
  BY <1>1, <1>3, <1>4 DEF Undispatched, HasDevices
<1> QED  BY <1>1, <1>2, <1>3, <1>5, AloneTurn

\* A slot is at work only on a task that was created.
LEMMA BusyCreated ==
  ASSUME TurnInv, NEW h \in Handlers, pc[h] # "idle"
  PROVE  created
  BY DEF TurnInv, Fresh

-----------------------------------------------------------------------------
(* Requests *)

\* A request is accepted while nothing else is at work, and goes on with a row whose status fits
\* the write it leads to.
LEMMA StartTurn ==
  ASSUME Inv, TurnInv, OneBusy', NEW h \in Handlers, NEW row, NEW devs, task # NoTask,
         NEW step \in {"delete_execs", "save", "save_dispatch", "remove_execs"},
         Start(h, step, row, devs), grants \subseteq grants',
         step = "delete_execs" => Undispatched /\ row.status \in {"approved", "pending_approval"},
         step = "save" => row.status \in Dispatched \/ Undispatched,
         step = "save_dispatch" => Undispatched /\ row.status = "approved"
  PROVE  TurnInv'
<1> USE DEF Start, Goto, Load, Left, dbVars, netVars
<1>1. OthersKeep(h) /\ pc'[h] = step /\ copy'[h] = row
  BY DEF OthersKeep, Inv, TypeOK
<1>2. Alone(h)
  BY <1>1, StartsAlone
<1>3. TurnOK(h)'
  BY <1>1 DEF TurnOK, Undispatched, HasDevices
<1>4. created /\ created'
  BY DEF TurnInv, Fresh
<1>5. Apart' /\ Sent' = Sent
  BY ApartStays DEF TurnInv
<1>6. Sent # {} => task = NoTask \/ task.status \in Dispatched
  BY DEF TurnInv, Begun
<1>7. Sent' # {} \/ pc'[h] \in HasDevices => task' = NoTask \/ task'.status \in Dispatched
  BY <1>1, <1>5, <1>6 DEF HasDevices
<1> QED  BY <1>1, <1>2, <1>3, <1>4, <1>5, <1>7, AloneTurn

LEMMA RouteTurn ==
  ASSUME Inv, TurnInv, OneBusy', NEW h \in Handlers, NEW u \in Users, NEW c,
         Accepts(h, {"draft", "pending_approval"}), Route(h, u, c)
  PROVE  TurnInv'
<1>0. PICK pol \in PolicyRead(RiskOf(c)), bypass \in BypassRead(u, c) :
        /\ Start(h, "delete_execs", Routed(task, c, bypass, pol), c.devices)
        /\ IF NeedsNoHuman(bypass, pol) THEN Decide("submitter", u, c, FALSE) ELSE UNCHANGED grants
  BY DEF Route
<1> DEFINE row == Routed(task, c, bypass, pol)
<1>1. task \in Rows /\ Undispatched
  BY AcceptedRow DEF Accepts, Undispatched, Dispatched
<1>2. row.status \in {"approved", "pending_approval"}
  BY <1>1 DEF Routed, Rows
<1>3. Start(h, "delete_execs", row, c.devices) /\ grants \subseteq grants'
  BY <1>0 DEF Decide
<1> HIDE DEF row
<1> QED  BY <1>1, <1>2, <1>3, StartTurn DEF Undispatched

LEMMA ExpireTurn ==
  ASSUME Inv, TurnInv, OneBusy', NEW h \in Handlers, Accepts(h, {"pending_approval"}), Expire(h)
  PROVE  TurnInv'
<1>1. Undispatched
  BY DEF Accepts, Undispatched, Dispatched
<1> QED  BY <1>1, StartTurn DEF Expire, Undispatched

LEMMA BeginApproveTurn ==
  ASSUME Inv, TurnInv, OneBusy', NEW h \in Handlers, NEW u \in Users, BeginApprove(h, u)
  PROVE  TurnInv'
<1>1. Accepts(h, {"pending_approval"})
  BY DEF BeginApprove
<1>2. task \in Rows /\ Undispatched
  BY <1>1, AcceptedRow DEF Accepts, Undispatched, Dispatched
<1>3. [task EXCEPT !.status = "approved"].status = "approved"
  BY <1>2 DEF Rows
<1>4. CASE Expire(h)
  BY <1>1, <1>4, ExpireTurn
<1>5. CASE /\ Start(h, "save_dispatch", [task EXCEPT !.status = "approved"], <<>>)
           /\ Decide("approver", u, task.content,
                     ~SeparationOK(u, task, policy[task.effective]))
  <2>1. grants \subseteq grants'
    BY <1>5 DEF Decide
  <2> QED  BY <1>2, <1>3, <1>5, <2>1, StartTurn DEF Undispatched
<1> QED  BY <1>4, <1>5 DEF BeginApprove

\* An archived row keeps its status.
LEMMA BeginDeleteTurn ==
  ASSUME Inv, TurnInv, OneBusy', NEW h \in Handlers, NEW u \in Users, BeginDelete(h, u)
  PROVE  TurnInv'
<1> DEFINE row == [task EXCEPT !.archived = TRUE]
<1>1. Accepts(h, Statuses)
  BY DEF BeginDelete
<1>2. task # NoTask /\ task \in Rows
  BY <1>1, AcceptedRow DEF Accepts
<1>3. row.status = task.status
  BY <1>2 DEF Rows
<1>4. row.status \in Dispatched \/ Undispatched
  BY <1>2, <1>3 DEF Undispatched
<1>5. /\ Start(h, "remove_execs", task, <<>>) \/ Start(h, "save", row, <<>>)
      /\ UNCHANGED grants
  BY DEF BeginDelete
<1> HIDE DEF row
<1> QED  BY <1>2, <1>4, <1>5, StartTurn

LEMMA RequestTurn ==
  ASSUME Inv, TurnInv, OneBusy', NEW h \in Handlers, NEW u \in Users, Request(h, u)
  PROVE  TurnInv'
<1>1. CASE BeginSubmit(h, u)
  BY <1>1, RouteTurn DEF BeginSubmit, Accepts
<1>2. ASSUME NEW c \in Contents, BeginUpdateDraft(h, u, c) PROVE TurnInv'
  <2>1. Undispatched
    BY <1>2 DEF BeginUpdateDraft, Accepts, Undispatched, Dispatched
  <2> QED  BY <1>2, <2>1, StartTurn DEF BeginUpdateDraft, Undispatched
<1>3. ASSUME NEW c \in Contents, BeginUpdatePending(h, u, c) PROVE TurnInv'
  BY <1>3, RouteTurn, ExpireTurn DEF BeginUpdatePending, Accepts
<1>4. CASE BeginDeny(h, u)
  <2>1. Undispatched
    BY <1>4 DEF BeginDeny, Accepts, Undispatched, Dispatched
  <2> QED  BY <1>4, <2>1, StartTurn DEF BeginDeny, Undispatched
<1>5. CASE BeginCancel(h, u)
  <2>1. Undispatched
    BY <1>5 DEF BeginCancel, Accepts, Undispatched, Dispatched
  <2> QED  BY <1>5, <2>1, StartTurn DEF BeginCancel, Undispatched
<1> QED  BY <1>1, <1>2, <1>3, <1>4, <1>5, BeginApproveTurn, BeginDeleteTurn DEF Request

LEMMA BeginResultTurn ==
  ASSUME Inv, TurnInv, OneBusy', NEW h \in Handlers, NEW r \in results, BeginResult(h, r)
  PROVE  TurnInv'
<1> USE DEF BeginResult, Goto, LoadExec, dbVars
<1>1. OthersKeep(h) /\ pc'[h] = "save_result"
  BY DEF OthersKeep, Inv, TypeOK
<1>2. Alone(h)
  BY <1>1, StartsAlone
<1>3. TurnOK(h)' /\ pc'[h] \notin HasDevices
  BY <1>1 DEF TurnOK, HasDevices
<1>4. created /\ created'
  BY DEF TurnInv, Fresh
<1>5. Apart' /\ Sent' = Sent
  BY ApartStays DEF TurnInv
<1>6. Sent # {} => task' = NoTask \/ task'.status \in Dispatched
  BY DEF TurnInv, Begun
<1> QED  BY <1>1, <1>2, <1>3, <1>4, <1>5, <1>6, AloneTurn

-----------------------------------------------------------------------------
(* The steps of a slot *)

\* Steps before anything is sent, or after: they send nothing.
LEMMA QuietTurn ==
  ASSUME Inv, TurnInv, NEW h \in Handlers, Alone(h), OthersKeep(h), created, created' = created,
         UNCHANGED <<commands, ran, grants, task>>, TurnOK(h)',
         pc'[h] \in HasDevices => pc[h] \in HasDevices
  PROVE  TurnInv'
<1>1. Apart' /\ Sent' = Sent
  BY ApartStays DEF TurnInv
<1>2. Sent' # {} \/ pc'[h] \in HasDevices => task' = NoTask \/ task'.status \in Dispatched
  BY <1>1 DEF TurnInv, Begun
<1> QED  BY <1>1, <1>2, AloneTurn

LEMMA DeleteExecsTurn ==
  ASSUME Inv, TurnInv, NEW h \in Handlers, Alone(h), created, DeleteExecs(h)
  PROVE  TurnInv'
<1> USE DEF DeleteExecs, At, Goto, netVars
<1>1. OthersKeep(h) /\ pc'[h] = "create_execs" /\ TurnOK(h)
  BY DEF OthersKeep, Inv, TypeOK, TurnInv
<1>2. TurnOK(h)' /\ pc'[h] \notin HasDevices
  BY <1>1 DEF TurnOK, HasDevices, Undispatched
<1> QED  BY <1>1, <1>2, QuietTurn

LEMMA CreateExecTurn ==
  ASSUME Inv, TurnInv, NEW h \in Handlers, Alone(h), created, CreateExec(h)
  PROVE  TurnInv'
<1> USE DEF CreateExec, At, Goto, Left, netVars
<1>1. OthersKeep(h) /\ TurnOK(h)
  BY DEF OthersKeep, Inv, TypeOK, TurnInv
<1>2. /\ pc'[h] \in {"create_execs", "save_dispatch", "save"}
      /\ pc'[h] = "save_dispatch" => copy[h].status = "approved"
  BY DEF Inv, TypeOK
<1>3. TurnOK(h)' /\ pc'[h] \notin HasDevices
  BY <1>1, <1>2 DEF TurnOK, HasDevices, Undispatched
<1> QED  BY <1>1, <1>3, QuietTurn

LEMMA SaveTaskTurn ==
  ASSUME Inv, TurnInv, NEW h \in Handlers, Alone(h), created, SaveTask(h)
  PROVE  TurnInv'
<1>1. TurnOK(h)
  BY DEF TurnInv
<1>2. task'.status \in Dispatched \/ Undispatched
  BY <1>1 DEF SaveTask, At, TurnOK
<1> QED  BY <1>2, FinishTurn DEF SaveTask, At

\* Before this write nothing was sent: the row was never dispatched.
LEMMA SaveAndDispatchTurn ==
  ASSUME Inv, TurnInv, NEW h \in Handlers, Alone(h), created, SaveAndDispatch(h)
  PROVE  TurnInv'
<1> USE DEF SaveAndDispatch, At, Goto, Left, netVars
<1>1. OthersKeep(h) /\ pc'[h] = "dispatch" /\ TurnOK(h)
  BY DEF OthersKeep, Inv, TypeOK, TurnInv
<1>2. Undispatched /\ task'.status = "approved"
  BY <1>1 DEF TurnOK
<1>3. Sent = {} /\ Sent' = Sent
  BY <1>2 DEF TurnInv, Begun, Undispatched, Sent
<1>4. AllOnce' => IsInjective(todo'[h])
  <2>1. Covered(copy[h].content) /\ todo'[h] = copy[h].content.devices
    BY DEF Inv, TypeOK, SlotOK, Dispatching
  <2> QED  BY <2>1, DecisionsStay DEF Covered, AllOnce, EachOnce
<1>5. TurnOK(h)'
  BY <1>1, <1>3, <1>4 DEF TurnOK
<1>6. Apart' /\ task'.status \in Dispatched
  BY <1>2, ApartStays DEF TurnInv, Dispatched
<1> QED  BY <1>1, <1>5, <1>6, AloneTurn

LEMMA RemoveTurn ==
  ASSUME Inv, TurnInv, NEW h \in Handlers, Alone(h), created, RemoveExecs(h) \/ RemoveTask(h)
  PROVE  TurnInv'
<1>1. CASE RemoveExecs(h)
  <2> USE <1>1 DEF RemoveExecs, At, Goto, netVars
  <2>1. OthersKeep(h) /\ pc'[h] = "remove_task"
    BY DEF OthersKeep, Inv, TypeOK
  <2>2. TurnOK(h)' /\ pc'[h] \notin HasDevices
    BY <2>1 DEF TurnOK, HasDevices
  <2> QED  BY <2>1, <2>2, QuietTurn
<1>2. CASE RemoveTask(h)
  BY <1>2, FinishTurn DEF RemoveTask, At
<1> QED  BY <1>1, <1>2

LEMMA PickDeviceTurn ==
  ASSUME Inv, TurnInv, NEW h \in Handlers, Alone(h), created, PickDevice(h)
  PROVE  TurnInv'
<1> DEFINE d == Head(todo[h])
<1> USE DEF PickDevice, At, Goto, Left, LoadExec, netVars
<1>1. pc[h] = "dispatch" /\ TurnOK(h) /\ pc[h] \in HasDevices
  BY DEF TurnInv, HasDevices
<1>2. \/ UNCHANGED <<pc, ecopy>>
      \/ \E i \in ExecsOf(d), found \in LookedUp(d) :
           /\ Goto(h, IF found THEN "save_sent" ELSE "save_skip")
           /\ LoadExec(h, [id |-> i, device |-> d, status |-> IF found THEN "sent" ELSE "skipped"])
  OBVIOUS
<1>3. todo[h] \in Seq(Devices) /\ todo[h] # <<>> /\ todo'[h] = Tail(todo[h])
  BY DEF Inv, TypeOK
<1>4. Range(todo'[h]) \subseteq Range(todo[h]) /\ d \in Range(todo[h])
  BY <1>3, ListParts
<1>5. IsInjective(todo[h]) => IsInjective(todo'[h]) /\ d \notin Range(todo'[h])
  BY <1>3, OnceParts
<1>6. UNCHANGED <<task, created, commands, ran, grants>>
  OBVIOUS
<1> HIDE DEF d
<1>7. /\ OthersKeep(h)
      /\ \/ pc'[h] = "dispatch"
         \/ pc'[h] \in {"save_sent", "save_skip"} /\ ecopy'[h].device = d
  BY <1>1, <1>2 DEF OthersKeep, Inv, TypeOK
<1> HIDE DEF PickDevice, At, Goto, Left, LoadExec, netVars
<1>8. Sent' = Sent /\ (AllOnce' <=> AllOnce)
  BY <1>6 DEF Sent, AllOnce
<1>9. TurnOK(h)'
  BY <1>1, <1>4, <1>5, <1>7, <1>8 DEF TurnOK
<1> QED  BY <1>1, <1>6, <1>7, <1>9, QuietTurn

\* What a slot knows of the device it treats: it was sent nothing, and is not treated again.
LEMMA SendsTurn ==
  ASSUME Inv, TurnInv, NEW h \in Handlers, Alone(h), created, pc[h] = "send",
         Send(h) \/ SendError(h)
  PROVE  TurnInv'
<1> USE DEF Send, SendError, At, Goto, LoadExec
<1>1. TurnOK(h) /\ pc[h] \in HasDevices
  BY DEF TurnInv, HasDevices
<1>2. /\ OthersKeep(h) /\ pc'[h] \in {"dispatch", "save_skip"}
      /\ commands' \in {commands, commands \cup {CommandOf(h)}}
      /\ UNCHANGED <<task, created, todo, ran, grants>>
  BY DEF OthersKeep, Inv, TypeOK
<1> HIDE DEF Send, SendError, At, Goto, LoadExec
<1>3. CommandOf(h).device = ecopy[h].device
  BY DEF CommandOf
<1>4. (AllOnce' <=> AllOnce) /\ todo'[h] = todo[h]
  BY <1>2 DEF AllOnce
<1>5. Sent' \in {Sent, Sent \cup {CommandOf(h)}}
  BY <1>2 DEF Sent
<1>6. AllOnce => /\ \A m \in Sent : m.device \notin Range(todo[h]) /\ m.device # ecopy[h].device
                 /\ ecopy[h].device \notin Range(todo[h])
                 /\ IsInjective(todo[h])
  BY <1>1 DEF TurnOK
<1>7. AllOnce' => \A m \in Sent' : m.device \notin Range(todo'[h])
  BY <1>3, <1>4, <1>5, <1>6
<1>8. Apart'
  <2>1. AllOnce => commands \cap ran = {} /\ \A m, n \in Sent : m.device = n.device => m = n
    BY DEF TurnInv, Apart
  <2>2. AllOnce => CommandOf(h) \notin ran
    BY <1>3, <1>6 DEF Sent
  <2>3. AllOnce => commands' \cap ran' = {}
    BY <1>2, <2>1, <2>2
  <2>4. AllOnce => \A m, n \in Sent' : m.device = n.device => m = n
    BY <1>3, <1>5, <1>6, <2>1
  <2> QED  BY <1>4, <2>3, <2>4 DEF Apart
<1>9. TurnOK(h)'
  BY <1>2, <1>4, <1>6, <1>7 DEF TurnOK
<1>10. task' = NoTask \/ task'.status \in Dispatched
  BY <1>1, <1>2 DEF TurnInv, Begun
<1> QED  BY <1>2, <1>8, <1>9, <1>10, AloneTurn

LEMMA SaveExecutionTurn ==
  ASSUME Inv, TurnInv, NEW h \in Handlers, Alone(h), created,
         SaveSent(h) \/ SaveSkip(h) \/ SaveResult(h)
  PROVE  TurnInv'
<1> USE DEF SaveSent, SaveSkip, SaveResult, At, Goto, LoadExec, netVars
<1>1. /\ OthersKeep(h)
      /\ UNCHANGED <<task, created, todo, commands, ran, grants>>
      /\ \/ pc[h] = "save_sent" /\ pc'[h] = "send" /\ ecopy' = ecopy
         \/ pc[h] = "save_skip" /\ pc'[h] = "dispatch"
         \/ pc[h] = "save_result" /\ pc'[h] = "list"
  BY DEF OthersKeep, Inv, TypeOK
<1> HIDE DEF SaveSent, SaveSkip, SaveResult, At, Goto, LoadExec, netVars
<1>2. TurnOK(h) /\ Sent' = Sent /\ (AllOnce' <=> AllOnce)
  BY <1>1 DEF TurnInv, Sent, AllOnce
<1>3. TurnOK(h)' /\ (pc'[h] \in HasDevices => pc[h] \in HasDevices)
  BY <1>1, <1>2 DEF TurnOK, HasDevices
<1> QED  BY <1>1, <1>3, QuietTurn

LEMMA ListExecsTurn ==
  ASSUME Inv, TurnInv, NEW h \in Handlers, Alone(h), created, ListExecs(h)
  PROVE  TurnInv'
<1> USE DEF ListExecs, Goto, Load, dbVars, netVars
<1>1. OthersKeep(h) /\ pc'[h] = "get"
  BY DEF OthersKeep, Inv, TypeOK
<1>2. TurnOK(h)' /\ pc'[h] \notin HasDevices
  BY <1>1 DEF TurnOK, HasDevices
<1> QED  BY <1>1, <1>2, QuietTurn

\* Whatever the executions add up to, the task takes the status of one that was dispatched.
LEMMA GetTaskTurn ==
  ASSUME Inv, TurnInv, NEW h \in Handlers, Alone(h), created, GetTask(h)
  PROVE  TurnInv'
<1>1. CASE Finish(h)
  BY <1>1, FinishTurn DEF GetTask, At
<1>2. CASE ~Finish(h)
  <2> DEFINE status == IF verdict[h] = "running" THEN "executing" ELSE verdict[h]
             row    == [task EXCEPT !.status = status]
  <2> USE DEF GetTask, At, Goto, Load, netVars
  <2>1. /\ pc[h] = "get" /\ task # NoTask /\ Goto(h, "save") /\ Load(h, row)
        /\ UNCHANGED <<todo, ecopy, verdict>>
    BY <1>2
  <2>2. verdict[h] \in Verdicts \ {"none"} /\ task \in Rows
    BY <2>1 DEF Inv, TypeOK, SlotOK
  <2>3. row.status = status /\ status \in Dispatched
    BY <2>2 DEF Verdicts, Dispatched, Rows
  <2>4. OthersKeep(h) /\ pc'[h] = "save" /\ copy'[h] = row
    BY <2>1 DEF OthersKeep, Inv, TypeOK
  <2>5. TurnOK(h)' /\ pc'[h] \notin HasDevices
    BY <2>3, <2>4 DEF TurnOK, HasDevices
  <2> QED  BY <2>4, <2>5, QuietTurn
<1> QED  BY <1>1, <1>2

LEMMA FailedCallTurn ==
  ASSUME Inv, TurnInv, NEW h \in Handlers, Alone(h), created, FailedCall(h)
  PROVE  TurnInv'
<1> USE DEF FailedCall, Goto, Left, dbVars, netVars
<1>1. CASE Finish(h)
  BY <1>1, FinishTurn DEF FailedCall
<1>2. CASE /\ pc[h] = "dispatch"
           /\ todo[h] # <<>>
           /\ Left(h, Tail(todo[h]))
           /\ UNCHANGED <<pc, copy, ecopy, verdict>>
  <2>1. OthersKeep(h) /\ TurnOK(h) /\ todo'[h] = Tail(todo[h]) /\ todo[h] \in Seq(Devices)
    BY <1>2 DEF OthersKeep, Inv, TypeOK, TurnInv
  <2>2. /\ Range(todo'[h]) \subseteq Range(todo[h])
        /\ IsInjective(todo[h]) => IsInjective(todo'[h])
    BY <1>2, <2>1, ListParts, OnceParts
  <2>3. pc' = pc /\ Sent' = Sent /\ (AllOnce' <=> AllOnce)
    BY <1>2 DEF Sent, AllOnce
  <2>4. TurnOK(h)'
    BY <1>2, <2>1, <2>2, <2>3 DEF TurnOK, HasDevices
  <2> QED  BY <1>2, <2>1, <2>4, QuietTurn
<1>3. CASE /\ pc[h] \in {"save_sent", "save_skip"}
           /\ Goto(h, IF pc[h] = "save_sent" THEN "send" ELSE "dispatch")
           /\ UNCHANGED <<copy, todo, ecopy, verdict>>
  <2>1. OthersKeep(h) /\ TurnOK(h) /\ pc'[h] = IF pc[h] = "save_sent" THEN "send" ELSE "dispatch"
    BY <1>3 DEF OthersKeep, Inv, TypeOK, TurnInv
  <2>2. TurnOK(h)' /\ pc[h] \in HasDevices
    BY <1>3, <2>1 DEF TurnOK, HasDevices, Sent, AllOnce
  <2> QED  BY <1>3, <2>1, <2>2, QuietTurn
<1> QED  BY <1>1, <1>2, <1>3

LEMMA SlotStepBusy ==
  ASSUME NEW h \in Handlers, SlotStep(h)
  PROVE  pc[h] # "idle"
  BY DEF SlotStep, DeleteExecs, CreateExec, SaveTask, SaveAndDispatch, RemoveExecs, RemoveTask,
         PickDevice, SaveSent, Send, SendError, SaveSkip, SaveResult, ListExecs, GetTask,
         FailedCall, At, DispatchDone

LEMMA SlotStepTurn ==
  ASSUME Inv, TurnInv, OneBusy, NEW h \in Handlers, SlotStep(h)
  PROVE  TurnInv'
<1>1. Alone(h) /\ created
  BY SlotStepBusy, BusyIsAlone, BusyCreated
<1>2. Send(h) \/ SendError(h) => pc[h] = "send"
  BY DEF Send, SendError, At
<1> QED
  BY <1>1, <1>2, DeleteExecsTurn, CreateExecTurn, SaveTaskTurn, SaveAndDispatchTurn, RemoveTurn,
     PickDeviceTurn, SendsTurn, SaveExecutionTurn, ListExecsTurn, GetTaskTurn, FailedCallTurn
     DEF SlotStep

-----------------------------------------------------------------------------
(* Devices and environment *)

\* Steps outside the slots that keep the row: what was sent may run or get lost.
LEMMA OutsideTurn ==
  ASSUME TurnInv, UNCHANGED <<task, created, pc, copy, todo, ecopy, grants>>,
         Sent' \subseteq Sent, Apart', results = {} => results' = {} \/ Sent # {}
  PROVE  TurnInv'
<1>1. \A h \in Handlers : TurnOK(h)'
  BY DEF TurnInv, TurnOK, Undispatched, AllOnce
<1>2. ~created' => Fresh'
  BY DEF TurnInv, Fresh
<1>3. Begun' => Begun
  BY DEF Begun
<1> QED  BY <1>1, <1>2, <1>3 DEF TurnInv

LEMMA RunCommandTurn ==
  ASSUME TurnInv, NEW m \in commands, RunCommand(m)
  PROVE  TurnInv'
<1> USE DEF RunCommand, dbVars, slotVars
<1>1. Sent' = Sent /\ Sent # {} /\ (AllOnce' <=> AllOnce)
  BY DEF Sent, AllOnce
<1>2. Apart'
  BY <1>1 DEF TurnInv, Apart
<1> QED  BY <1>1, <1>2, OutsideTurn

LEMMA EnvironmentTurn ==
  ASSUME TurnInv, Environment
  PROVE  TurnInv'
<1> USE DEF dbVars, envVars, slotVars, netVars
<1>1. ASSUME NEW u \in Users, NEW c \in Contents, CreateTask(u, c) PROVE TurnInv'
  <2>1. Fresh /\ UNCHANGED <<pc, commands, ran>>
    BY <1>1 DEF CreateTask, TurnInv
  <2>2. created' /\ ~Begun' /\ \A h \in Handlers : TurnOK(h)'
    BY <1>1, <2>1 DEF CreateTask, Fresh, Begun, TurnOK, HasDevices, Sent
  <2> QED  BY <2>1, <2>2 DEF TurnInv, Fresh, Sent, Apart
<1>2. CASE Crash
  <2>1. /\ \A h \in Handlers : pc'[h] = "idle"
        /\ UNCHANGED <<task, created, commands, ran, results, grants>>
    BY <1>2 DEF Crash
  <2>2. \A h \in Handlers : TurnOK(h)'
    BY <2>1 DEF TurnOK, HasDevices
  <2>3. (Begun' => Begun) /\ (~created' => Fresh')
    BY <2>1 DEF Begun, HasDevices, Sent, TurnInv, Fresh
  <2> QED  BY <2>1, <2>2, <2>3, ApartStays DEF TurnInv
<1>3. CASE \/ \E r \in results : RefuseResult(r) \/ LoseResult(r)
           \/ \E m \in commands : LoseCommand(m)
           \/ \E table \in PolicyTables : SetPolicy(table)
           \/ \E devs \in ActiveSets : SetActive(devs)
           \/ Tick
  <2> USE DEF RefuseResult, LoseResult, LoseCommand, SetPolicy, SetActive, Tick
  <2>1. /\ UNCHANGED <<task, created, pc, copy, todo, ecopy, ran, grants>>
        /\ commands' \subseteq commands /\ results' \subseteq results
    BY <1>3
  <2>2. Sent' \subseteq Sent /\ Apart'
    BY <2>1 DEF TurnInv, Sent, Apart, AllOnce
  <2> QED  BY <2>1, <2>2, OutsideTurn
<1> QED  BY <1>1, <1>2, <1>3 DEF Environment

LEMMA InitTurn == Init => TurnInv
  BY DEF Init, TurnInv, Fresh, Begun, TurnOK, HasDevices, Sent, Apart

LEMMA NextTurn == Inv /\ TurnInv /\ OneBusy /\ OneBusy' /\ [Next]_vars => TurnInv'
<1> SUFFICES ASSUME Inv, TurnInv, OneBusy, OneBusy', [Next]_vars PROVE TurnInv'
  OBVIOUS
<1>1. CASE \E h \in Handlers, u \in Users : Request(h, u)
  BY <1>1, RequestTurn
<1>2. CASE \E h \in Handlers : SlotStep(h)
  BY <1>2, SlotStepTurn
<1>3. CASE TakeResult
  BY <1>3, BeginResultTurn DEF TakeResult
<1>4. CASE RunSome
  BY <1>4, RunCommandTurn DEF RunSome
<1>5. CASE Environment
  BY <1>5, EnvironmentTurn
<1>6. CASE UNCHANGED vars
  <2>1. /\ UNCHANGED <<task, created, pc, copy, todo, ecopy, grants>>
        /\ UNCHANGED <<commands, ran, results>>
    BY <1>6 DEF vars, dbVars, slotVars, netVars
  <2>2. Sent' = Sent /\ Apart'
    BY <2>1, ApartStays DEF TurnInv
  <2> QED  BY <2>1, <2>2, OutsideTurn
<1> QED  BY <1>1, <1>2, <1>3, <1>4, <1>5, <1>6 DEF Next

\* A task that is a draft, waits for approval, or was denied, cancelled or has expired never ran and
\* has no command on its way, as long as requests follow one another: whatever fails, crashes or is
\* lost (the checks of the status in the handlers of command_service.go).
THEOREM WithdrawnTasksNeverRan == Spec /\ []OneBusy => []WithdrawnNeverRuns
<1>1. TurnInv => WithdrawnNeverRuns
  BY DEF TurnInv, Begun, Sent, Dispatched, WithdrawnNeverRuns
<1> QED  BY <1>1, InitInv, NextInv, InitTurn, NextTurn, PTL DEF Spec

\* No device that has executed the task is sent it again, as long as requests follow one another and
\* nobody decides on a list that names a device twice: a task is dispatched once, and its loop treats
\* every place of the list once (dispatchToDevices).
THEOREM NoDeviceRunsTwice == Spec /\ []OneBusy => []NeverRunsTwice
<1>1. TurnInv => NeverRunsTwice
  BY DEF TurnInv, NeverRunsTwice, Apart, AllOnce, Sent
<1> QED  BY <1>1, InitInv, NextInv, InitTurn, NextTurn, PTL DEF Spec

-----------------------------------------------------------------------------
(* The summary: without failed calls and restarts, the slot that changes an *)
(* execution goes on to bring the status of the task up to date             *)

Reliable == ~MayFail /\ ~MayCrash

Finished == {"partial_done", "completed", "failed"}

Right(status) == status = IF Summary = "running" THEN "executing" ELSE Summary

\* What a slot at work knows of the executions and of the status they will be given.
SumOK(h) ==
  /\ pc[h] \in {"remove_execs", "remove_task"} => Undispatched
  /\ pc[h] \in HasDevices => task = NoTask \/ task.status = "approved"
  /\ pc[h] = "save_result" =>
       /\ ecopy[h].status \in {"succeeded", "failed"}
       /\ task # NoTask => task.status # "approved"
  /\ pc[h] \in {"save_result", "list", "get"} /\ task # NoTask /\ task.status \in Finished =>
       Summary # "running"
  /\ pc[h] = "get" => verdict[h] = Summary
  /\ pc[h] = "save" /\ copy[h].status \in Dispatched => Right(copy[h].status)

SumInv == SummaryCorrect /\ \A h \in Handlers : SumOK(h)

LEMMA SummaryRuns == Summary = "running" <=> \E i \in DOMAIN execs : execs[i].status \in {"pending", "sent"}
  BY DEF Summary

\* An execution that gets its result does not make a finished task run again.
LEMMA ResultEnds ==
  ASSUME NEW e, e.status \in {"succeeded", "failed"}, SaveExecRow(e), Summary # "running"
  PROVE  Summary' # "running"
<1>1. \A i \in DOMAIN execs : execs[i].status \notin {"pending", "sent"}
  BY SummaryRuns
<1>2. \A i \in DOMAIN execs' : execs'[i].status \notin {"pending", "sent"}
  BY <1>1 DEF SaveExecRow
<1>3. Summary' = "running" <=> \E i \in DOMAIN execs' : execs'[i].status \in {"pending", "sent"}
  BY DEF Summary
<1> QED  BY <1>2, <1>3

\* The step of a slot that is alone: its own knowledge, and the summary if it ends.
LEMMA AloneSum ==
  ASSUME NEW h \in Handlers, Alone(h), OthersKeep(h), SumOK(h)',
         pc'[h] = "idle" => SummaryCorrect'
  PROVE  SumInv'
<1>1. ASSUME NEW k \in Handlers, k # h PROVE pc'[k] = "idle"
  BY <1>1 DEF Alone, OthersKeep
<1>2. \A k \in Handlers : SumOK(k)'
  BY <1>1 DEF SumOK, HasDevices
<1>3. SummaryCorrect'
  BY <1>1 DEF SummaryCorrect, AllIdle
<1> QED  BY <1>2, <1>3 DEF SumInv

\* Before a request is accepted nothing is at work, so that the status is the summary.
LEMMA IdleIsRight ==
  ASSUME SumInv, NEW h \in Handlers, Alone(h), pc[h] = "idle", task # NoTask,
         task.status \in Dispatched
  PROVE  Right(task.status)
  BY DEF SumInv, SummaryCorrect, AllIdle, Alone, Dispatched, Right

LEMMA StartSum ==
  ASSUME Inv, SumInv, OneBusy', NEW h \in Handlers, NEW row, NEW devs, task # NoTask, pc[h] = "idle",
         NEW step \in {"delete_execs", "save", "save_dispatch", "remove_execs"},
         Start(h, step, row, devs),
         step = "save" => row.status \notin Dispatched \/ row.status = task.status,
         step = "remove_execs" => Undispatched
  PROVE  SumInv'
<1> USE DEF Start, Goto, Load, Left, dbVars
<1>1. OthersKeep(h) /\ pc'[h] = step /\ copy'[h] = row
  BY DEF OthersKeep, Inv, TypeOK
<1>2. Alone(h)
  BY <1>1, StartsAlone
<1>3. step = "save" /\ row.status \in Dispatched => Right(row.status)
  BY <1>2, IdleIsRight
<1>4. SumOK(h)'
  BY <1>1, <1>3 DEF SumOK, HasDevices, Undispatched, Right, Summary
<1> QED  BY <1>1, <1>2, <1>4, AloneSum

LEMMA RequestSum ==
  ASSUME Inv, SumInv, OneBusy', NEW h \in Handlers, NEW u \in Users, Request(h, u)
  PROVE  SumInv'
<1> USE DEF Accepts
<1>1. ASSUME NEW c, Accepts(h, {"draft", "pending_approval"}), Route(h, u, c) PROVE SumInv'
  BY <1>1, StartSum DEF Route
<1>2. ASSUME NEW statuses, Accepts(h, statuses), NEW status \in Statuses \ Dispatched,
             Start(h, "save", [task EXCEPT !.status = status], <<>>)
      PROVE  SumInv'
  <2>1. [task EXCEPT !.status = status].status = status
    BY <1>2, AcceptedRow DEF Rows
  <2> QED  BY <1>2, <2>1, StartSum
<1>3. CASE BeginSubmit(h, u)
  BY <1>1, <1>3 DEF BeginSubmit
<1>4. ASSUME NEW c \in Contents, BeginUpdateDraft(h, u, c) PROVE SumInv'
  <2> DEFINE row == [task EXCEPT !.content = c, !.effective = RiskOf(c),
                                 !.approvers = {}, !.expiresAt = 0]
  <2>1. Accepts(h, {"draft"}) /\ Start(h, "save", row, <<>>)
    BY <1>4 DEF BeginUpdateDraft
  <2>2. row.status = task.status
    BY <2>1, AcceptedRow DEF Rows
  <2> HIDE DEF row
  <2> QED  BY <2>1, <2>2, StartSum
<1>5. ASSUME NEW c \in Contents, BeginUpdatePending(h, u, c) PROVE SumInv'
  BY <1>1, <1>2, <1>5 DEF BeginUpdatePending, Expire, Statuses, Dispatched
<1>6. CASE BeginApprove(h, u)
  <2>1. CASE Expire(h)
    BY <1>2, <1>6, <2>1 DEF BeginApprove, Expire, Statuses, Dispatched
  <2>2. CASE Start(h, "save_dispatch", [task EXCEPT !.status = "approved"], <<>>)
    BY <1>6, <2>2, StartSum DEF BeginApprove
  <2> QED  BY <1>6, <2>1, <2>2 DEF BeginApprove
<1>7. CASE BeginDeny(h, u)
  BY <1>2, <1>7 DEF BeginDeny, Statuses, Dispatched
<1>8. CASE BeginCancel(h, u)
  BY <1>2, <1>8 DEF BeginCancel, Statuses, Dispatched
<1>9. CASE BeginDelete(h, u)
  <2> DEFINE row == [task EXCEPT !.archived = TRUE]
  <2>1. Accepts(h, Statuses)
    BY <1>9 DEF BeginDelete
  <2>2. row.status = task.status
    BY <2>1, AcceptedRow DEF Rows
  <2>3. \/ Start(h, "remove_execs", task, <<>>) /\ Undispatched
        \/ Start(h, "save", row, <<>>)
    BY <1>9 DEF BeginDelete, Undispatched, Dispatched
  <2> HIDE DEF row
  <2> QED  BY <2>1, <2>2, <2>3, StartSum
<1> QED  BY <1>3, <1>4, <1>5, <1>6, <1>7, <1>8, <1>9 DEF Request

LEMMA BeginResultSum ==
  ASSUME Inv, SumInv, OneBusy', NEW h \in Handlers, NEW r \in results, BeginResult(h, r)
  PROVE  SumInv'
<1> USE DEF BeginResult, Goto, LoadExec, dbVars
<1>1. /\ OthersKeep(h) /\ pc'[h] = "save_result"
      /\ ecopy'[h].status = r.status /\ r.status \in {"succeeded", "failed"}
  BY DEF OthersKeep, Inv, TypeOK, Results
<1>2. Alone(h)
  BY <1>1, StartsAlone
<1>3. task # NoTask /\ task.status \in Dispatched => Right(task.status)
  BY <1>2, IdleIsRight
<1>4. Summary' = Summary
  BY DEF Summary
<1>5. task # NoTask => task.status # "approved" /\ (task.status \in Finished => Summary # "running")
  BY <1>3 DEF Right, Dispatched, Finished, Summary
<1>6. SumOK(h)'
  BY <1>1, <1>4, <1>5 DEF SumOK, HasDevices
<1> QED  BY <1>1, <1>2, <1>6, AloneSum

\* A step that writes neither row: the slot is still at work.
LEMMA QuietSum ==
  ASSUME Inv, SumInv, NEW h \in Handlers, Alone(h), OthersKeep(h), SumOK(h)', pc'[h] # "idle"
  PROVE  SumInv'
  BY AloneSum

LEMMA WritesSum ==
  ASSUME Inv, TurnInv, SumInv, NEW h \in Handlers, Alone(h),
         \/ DeleteExecs(h) \/ CreateExec(h)
         \/ SaveAndDispatch(h) \/ RemoveExecs(h)
  PROVE  SumInv'
<1> USE DEF At, Goto, Left, netVars
<1>1. CASE DeleteExecs(h)
  <2>1. OthersKeep(h) /\ pc'[h] = "create_execs"
    BY <1>1 DEF DeleteExecs, OthersKeep, Inv, TypeOK
  <2>2. SumOK(h)'
    BY <2>1 DEF SumOK, HasDevices
  <2> QED  BY <2>1, <2>2, QuietSum
<1>2. CASE CreateExec(h)
  <2>1. /\ OthersKeep(h) /\ copy' = copy
        /\ pc'[h] \in {"create_execs", "save_dispatch", "save"}
        /\ pc'[h] = "save" => copy[h].status # "approved"
    BY <1>2 DEF CreateExec, OthersKeep, Inv, TypeOK
  <2>2. copy[h].status \in {"approved", "pending_approval"}
    BY <1>2 DEF CreateExec, TurnInv, TurnOK
  <2>3. SumOK(h)'
    BY <2>1, <2>2 DEF SumOK, HasDevices, Dispatched
  <2> QED  BY <2>1, <2>3, QuietSum
<1>3. CASE SaveAndDispatch(h)
  <2>1. OthersKeep(h) /\ pc'[h] = "dispatch" /\ task' = copy[h]
    BY <1>3 DEF SaveAndDispatch, OthersKeep, Inv, TypeOK
  <2>2. copy[h].status = "approved"
    BY <1>3 DEF SaveAndDispatch, TurnInv, TurnOK
  <2>3. SumOK(h)'
    BY <2>1, <2>2 DEF SumOK
  <2> QED  BY <2>1, <2>3, QuietSum
<1>4. CASE RemoveExecs(h)
  <2>1. OthersKeep(h) /\ pc'[h] = "remove_task" /\ task' = task
    BY <1>4 DEF RemoveExecs, OthersKeep, Inv, TypeOK
  <2>2. Undispatched
    BY <1>4 DEF RemoveExecs, SumInv, SumOK
  <2>3. SumOK(h)'
    BY <2>1, <2>2 DEF SumOK, HasDevices, Undispatched
  <2> QED  BY <2>1, <2>3, QuietSum
<1> QED  BY <1>1, <1>2, <1>3, <1>4

\* The slots that end with a write: what they saved was right.
LEMMA EndsSum ==
  ASSUME Inv, SumInv, NEW h \in Handlers, Alone(h), SaveTask(h) \/ RemoveTask(h)
  PROVE  SumInv'
<1>1. OthersKeep(h) /\ pc'[h] = "idle" /\ execs' = execs
  BY FinishSlot DEF SaveTask, RemoveTask, Finish, Goto, Inv, TypeOK
<1>2. SumOK(h)'
  BY <1>1 DEF SumOK, HasDevices
<1>3. CASE SaveTask(h)
  <2>1. task' = copy[h] /\ (copy[h].status \in Dispatched => Right(copy[h].status))
    BY <1>3 DEF SaveTask, At, SumInv, SumOK
  <2>2. Summary' = Summary
    BY <1>1 DEF Summary
  <2>3. SummaryCorrect'
    BY <2>1, <2>2 DEF SummaryCorrect, Dispatched, Right
  <2> QED  BY <1>1, <1>2, <2>3, AloneSum
<1>4. CASE RemoveTask(h)
  <2>1. SummaryCorrect'
    BY <1>4 DEF RemoveTask, SummaryCorrect
  <2> QED  BY <1>1, <1>2, <2>1, AloneSum
<1> QED  BY <1>3, <1>4

LEMMA DispatchSum ==
  ASSUME Inv, SumInv, NEW h \in Handlers, Alone(h),
         \/ PickDevice(h) \/ SaveSent(h) \/ Send(h) \/ SendError(h) \/ SaveSkip(h)
  PROVE  SumInv'
<1> USE DEF At, Goto, Left, LoadExec, netVars
<1>1. OthersKeep(h) /\ pc[h] \in HasDevices /\ pc'[h] \in HasDevices /\ task' = task
  <2>1. CASE PickDevice(h)
    <3> DEFINE d == Head(todo[h])
    <3>1. \/ UNCHANGED <<pc, ecopy>>
          \/ \E i \in ExecsOf(d), found \in LookedUp(d) :
               /\ Goto(h, IF found THEN "save_sent" ELSE "save_skip")
               /\ LoadExec(h, [id |-> i, device |-> d, status |-> IF found THEN "sent" ELSE "skipped"])
      BY <2>1 DEF PickDevice
    <3> QED  BY <2>1, <3>1 DEF PickDevice, OthersKeep, HasDevices, Inv, TypeOK
  <2>2. CASE SaveSent(h) \/ Send(h) \/ SendError(h) \/ SaveSkip(h)
    BY <2>2 DEF SaveSent, Send, SendError, SaveSkip, OthersKeep, HasDevices, Inv, TypeOK
  <2> QED  BY <2>1, <2>2
<1>2. task = NoTask \/ task.status = "approved"
  BY <1>1 DEF SumInv, SumOK
<1>3. SumOK(h)' /\ pc'[h] # "idle"
  BY <1>1, <1>2 DEF SumOK, HasDevices
<1> QED  BY <1>1, <1>3, QuietSum

LEMMA SaveResultSum ==
  ASSUME Inv, SumInv, NEW h \in Handlers, Alone(h), SaveResult(h)
  PROVE  SumInv'
<1> USE DEF SaveResult, At, Goto, LoadExec, netVars
<1>1. OthersKeep(h) /\ pc'[h] = "list" /\ task' = task
  BY DEF OthersKeep, Inv, TypeOK
<1>2. pc[h] = "save_result" /\ SumOK(h) /\ SaveExecRow(ecopy[h])
  BY DEF SumInv
<1>3. task # NoTask /\ task.status \in Finished => Summary' # "running"
  BY <1>2, ResultEnds DEF SumOK
<1>4. SumOK(h)'
  BY <1>1, <1>3 DEF SumOK, HasDevices
<1> QED  BY <1>1, <1>4, QuietSum

LEMMA ListExecsSum ==
  ASSUME Inv, SumInv, NEW h \in Handlers, Alone(h), ListExecs(h)
  PROVE  SumInv'
<1> USE DEF ListExecs, Goto, Load, dbVars
<1>1. /\ OthersKeep(h) /\ pc'[h] = "get" /\ verdict'[h] = Summary
      /\ pc[h] \in {"dispatch", "list"} /\ SumOK(h)
  BY DEF OthersKeep, DispatchDone, Inv, TypeOK, SumInv
<1>2. Summary' = Summary
  BY DEF Summary
<1>3. task # NoTask /\ task.status \in Finished => Summary # "running"
  BY <1>1 DEF SumOK, HasDevices, Finished
<1>4. SumOK(h)'
  BY <1>1, <1>2, <1>3 DEF SumOK, HasDevices
<1> QED  BY <1>1, <1>4, QuietSum

LEMMA GetTaskSum ==
  ASSUME Inv, SumInv, NEW h \in Handlers, Alone(h), GetTask(h)
  PROVE  SumInv'
<1> DEFINE status == IF verdict[h] = "running" THEN "executing" ELSE verdict[h]
           row    == [task EXCEPT !.status = status]
<1>1. /\ pc[h] = "get" /\ SumOK(h) /\ verdict[h] = Summary
      /\ UNCHANGED <<task, execs>>
  BY DEF GetTask, At, SumInv, SumOK
<1>2. Summary' = Summary
  BY <1>1 DEF Summary
<1>3. CASE task = NoTask \/ (verdict[h] = "running" /\ task.status # "approved")
  <2>1. OthersKeep(h) /\ pc'[h] = "idle"
    BY <1>3, FinishSlot DEF GetTask, Finish, Goto, Inv, TypeOK
  <2>2. SummaryCorrect'
    BY <1>1, <1>2, <1>3 DEF SummaryCorrect, SumOK, Finished
  <2>3. SumOK(h)'
    BY <2>1 DEF SumOK, HasDevices
  <2> QED  BY <2>1, <2>2, <2>3, AloneSum
<1>4. CASE ~(task = NoTask \/ (verdict[h] = "running" /\ task.status # "approved"))
  <2>1. Goto(h, "save") /\ Load(h, row) /\ UNCHANGED <<todo, ecopy, verdict>> /\ task \in Rows
    BY <1>4 DEF GetTask, Inv, TypeOK
  <2>2. row.status = status /\ Right(status)
    BY <1>1, <2>1 DEF Rows, Right
  <2> HIDE DEF row, status
  <2>3. OthersKeep(h) /\ pc'[h] = "save" /\ copy'[h] = row
    BY <2>1 DEF OthersKeep, Goto, Load, Inv, TypeOK
  <2>4. SumOK(h)'
    BY <1>2, <2>2, <2>3 DEF SumOK, HasDevices, Right
  <2> QED  BY <2>3, <2>4, QuietSum
<1> QED  BY <1>3, <1>4

LEMMA SlotStepSum ==
  ASSUME Reliable, Inv, TurnInv, SumInv, OneBusy, NEW h \in Handlers, SlotStep(h)
  PROVE  SumInv'
<1>1. Alone(h) /\ ~FailedCall(h)
  BY SlotStepBusy, BusyIsAlone DEF Reliable, FailedCall
<1> QED
  BY <1>1, WritesSum, EndsSum, DispatchSum, SaveResultSum, ListExecsSum, GetTaskSum DEF SlotStep

LEMMA OutsideSum ==
  ASSUME SumInv, UNCHANGED <<execs, pc, copy, ecopy, verdict>>,
         task' = task \/ (task' # NoTask /\ task'.status = "draft" /\ \A h \in Handlers : pc[h] = "idle")
  PROVE  SumInv'
<1>1. Summary' = Summary
  BY DEF Summary
<1>2. SummaryCorrect'
  BY <1>1 DEF SumInv, SummaryCorrect, AllIdle
<1>3. \A h \in Handlers : SumOK(h)'
  BY <1>1 DEF SumInv, SumOK, Right, Undispatched, HasDevices
<1> QED  BY <1>2, <1>3 DEF SumInv

LEMMA EnvironmentSum ==
  ASSUME Reliable, TurnInv, SumInv, RunSome \/ Environment
  PROVE  SumInv'
<1> USE DEF dbVars, slotVars
<1>1. ASSUME NEW u \in Users, NEW c \in Contents, CreateTask(u, c) PROVE SumInv'
  <2>1. task' # NoTask \/ task' = task
    BY <1>1 DEF CreateTask, TurnInv, Fresh
  <2> QED  BY <1>1, <2>1, OutsideSum DEF CreateTask, TurnInv, Fresh
<1>2. CASE ~ \E u \in Users, c \in Contents : CreateTask(u, c)
  <2>1. UNCHANGED <<task, execs, pc, copy, ecopy, verdict>>
    BY <1>2 DEF RunSome, RunCommand, Environment, RefuseResult, LoseCommand, LoseResult,
                SetPolicy, SetActive, Tick, Crash, Reliable
  <2> QED  BY <2>1, OutsideSum
<1> QED  BY <1>1, <1>2

LEMMA InitSum == Init => SumInv
  BY DEF Init, SumInv, SumOK, SummaryCorrect, HasDevices

LEMMA NextSum ==
  ASSUME Reliable
  PROVE  Inv /\ TurnInv /\ SumInv /\ OneBusy /\ OneBusy' /\ [Next]_vars => SumInv'
<1> SUFFICES ASSUME Inv, TurnInv, SumInv, OneBusy, OneBusy', [Next]_vars PROVE SumInv'
  OBVIOUS
<1>1. CASE \E h \in Handlers, u \in Users : Request(h, u)
  BY <1>1, RequestSum
<1>2. CASE \E h \in Handlers : SlotStep(h)
  BY <1>2, SlotStepSum
<1>3. CASE TakeResult
  BY <1>3, BeginResultSum DEF TakeResult
<1>4. CASE RunSome \/ Environment
  BY <1>4, EnvironmentSum
<1>5. CASE UNCHANGED vars
  BY <1>5, OutsideSum DEF vars, dbVars, slotVars
<1> QED  BY <1>1, <1>2, <1>3, <1>4, <1>5 DEF Next

\* Whenever nothing is at work, the status of a dispatched task is what its executions add up to, as
\* long as requests follow one another, no call to the database fails and the service does not
\* restart; commands and results may be lost and calls to the gateway fail (updateTaskStatus).
THEOREM SummariesAreRight ==
  ASSUME Reliable
  PROVE  Spec /\ []OneBusy => []SummaryCorrect
<1>1. SumInv => SummaryCorrect
  BY DEF SumInv
<1> QED  BY <1>1, InitInv, NextInv, InitTurn, NextTurn, InitSum, NextSum, PTL DEF Spec

=============================================================================
