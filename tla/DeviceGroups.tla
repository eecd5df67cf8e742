---------------------------- MODULE DeviceGroups ----------------------------
(***************************************************************************)
(* The device groups of platform-api: groups, their members, the paged     *)
(* list the console walks through, and the start of a batch task, which    *)
(* reads the members once to answer the request and once more when its     *)
(* goroutine runs (the waves after that are module BatchRun).              *)
(*                                                                         *)
(* Groups are numbered in the order of their created_at.  Handlers are     *)
(* interrupted between two statements; DeleteGroup is one transaction.     *)
(* Nothing ties a member to a group or a device: there is no foreign key,  *)
(* and AddMembers does not look for the group.                             *)
(***************************************************************************)
EXTENDS Integers, FiniteSets, FiniteSetsExt

CONSTANTS
  MaxGroups,      \* groups ever created
  GroupDevices,   \* devices that may be put in groups
  GroupEdits,     \* requests to update a group that may be in flight
  PageSize,       \* page_size of the list
  MaxGroupCalls   \* bound on the calls that change groups and members

ASSUME GroupConstants ==
  /\ MaxGroups \in Nat \ {0} /\ PageSize \in Nat \ {0} /\ MaxGroupCalls \in Nat
  /\ IsFiniteSet(GroupDevices)

VARIABLES
  groupRows,   \* device_groups: is the row there, which fields have been rewritten
  memberRows,  \* device_group_members, pairs <<group, device>>: the pair is a unique key
  made,        \* groups created so far
  groupEdits,       \* requests inside UpdateGroup
  pager,       \* the console's walk through the pages of the list
  groupJob,         \* one batch task: its row, what its goroutine will send to, and which of
                    \* the goroutine's calls the database refused
  told,        \* history: what the callers have been told of the groups, see GroupsAsAnswered
  groupCalls   \* calls made, at most MaxGroupCalls

groupVars == <<groupRows, memberRows, made, groupEdits, pager, groupJob, told, groupCalls>>

Groups == 1 .. MaxGroups
GroupFields == {"name", "filter"}   \* description is treated as filter_json is
NoChange == [group |-> 0, fields |-> {}, read |-> {}]
NoJob == [at |-> "none", group |-> 0, total |-> 0, sends |-> {}, might |-> {}, must |-> {},
          refused |-> "none"]

GroupTypeOK ==
  /\ groupRows \in [Groups -> [there : BOOLEAN, changed : SUBSET GroupFields]]
  /\ memberRows \subseteq Groups \X GroupDevices
  /\ made \in 0 .. MaxGroups
  /\ groupEdits \in [GroupEdits ->
                  [group : 0 .. MaxGroups, fields : SUBSET GroupFields, read : SUBSET GroupFields]]
  /\ pager \in [at : {"none", "asks", "counted", "done"}, page : 1 .. MaxGroups + 1,
               total : 0 .. MaxGroups, seen : SUBSET Groups,
               due : SUBSET Groups, still : BOOLEAN]
  /\ groupJob \in [at : {"none", "listed", "pending", "starts", "running", "failed"},
              group : 0 .. MaxGroups, total : 0 .. Cardinality(GroupDevices),
              sends : SUBSET GroupDevices, might : SUBSET GroupDevices,
              must : SUBSET GroupDevices, refused : {"none", "read", "write"}]
  /\ told \in [changed : [Groups -> SUBSET GroupFields], gone : SUBSET Groups,
               raced : SUBSET Groups, strays : SUBSET (Groups \X GroupDevices)]
  /\ groupCalls \in 0 .. MaxGroupCalls

GroupInit ==
  /\ groupRows = [g \in Groups |-> [there |-> FALSE, changed |-> {}]]
  /\ memberRows = {}
  /\ made = 0
  /\ groupEdits = [e \in GroupEdits |-> NoChange]
  /\ pager = [at |-> "none", page |-> 1, total |-> 0, seen |-> {}, due |-> {}, still |-> TRUE]
  /\ groupJob = NoJob
  /\ told = [changed |-> [g \in Groups |-> {}], gone |-> {}, raced |-> {}, strays |-> {}]
  /\ groupCalls = 0

Present == {g \in Groups : groupRows[g].there}
MembersOf(g) == {d \in GroupDevices : <<g, d>> \in memberRows}

GroupCall == groupCalls < MaxGroupCalls /\ groupCalls' = groupCalls + 1

\* History: what the group of a task that has been dispatched held until its goroutine
\* reads it, all of it (might) and what it held all the time (must).
SeenByTask(rows) ==
  LET now == {d \in GroupDevices : <<groupJob.group, d>> \in rows} IN
  IF groupJob.at = "starts"
  THEN [groupJob EXCEPT !.might = @ \union now, !.must = @ \intersect now]
  ELSE groupJob

\* History: a row inserted between the count and the page of one request is not counted.
Unsettled == [pager EXCEPT !.still = @ /\ pager.at # "counted"]

-----------------------------------------------------------------------------
\* Groups.

CreateGroup ==
  /\ GroupCall
  /\ made < MaxGroups
  /\ made' = made + 1
  /\ groupRows' = [groupRows EXCEPT ![made + 1] = [there |-> TRUE, changed |-> {}]]
  /\ pager' = Unsettled
  /\ UNCHANGED <<memberRows, groupEdits, groupJob, told>>

\* UpdateGroup reads the row, and answers not_found when there is none.
ReadGroup(e, g, fields) ==
  /\ GroupCall
  /\ groupEdits[e] = NoChange
  /\ groupRows[g].there
  /\ groupEdits' = [groupEdits EXCEPT ![e] = [group |-> g, fields |-> fields,
                                    read |-> groupRows[g].changed]]
  /\ UNCHANGED <<groupRows, memberRows, made, pager, groupJob, told>>

\* A slip: a field the request leaves empty is emptied.
EditedWhole(read, fields) == fields

\* The row UpdateGroup writes: fields the request leaves empty keep what was read.
Edited(read, fields) == read \union fields

\* It then saves the whole row it has read, which inserts it again if it has been deleted.
SaveGroup(e) ==
  LET g == groupEdits[e].group
      stale == groupRows[g] # [there |-> TRUE, changed |-> groupEdits[e].read]
  IN /\ groupEdits[e] # NoChange
     /\ groupRows' = [groupRows EXCEPT ![g] = [there |-> TRUE, changed |->
                        Edited(groupEdits[e].read, groupEdits[e].fields)]]
     /\ told' = [told EXCEPT !.changed[g] = @ \union groupEdits[e].fields,
                             !.raced = IF stale THEN @ \union {g} ELSE @]
     /\ pager' = IF groupRows[g].there THEN pager ELSE Unsettled
     /\ groupEdits' = [groupEdits EXCEPT ![e] = NoChange]
     /\ UNCHANGED <<memberRows, made, groupJob, groupCalls>>

\* The database refuses the save: the caller gets the error.
SaveGroupFails(e) ==
  /\ groupEdits[e] # NoChange
  /\ groupEdits' = [groupEdits EXCEPT ![e] = NoChange]
  /\ UNCHANGED <<groupRows, memberRows, made, pager, groupJob, told, groupCalls>>

\* A slip: only the row of the group is deleted.
WithoutGroupRowOnly(g) == memberRows

\* What DeleteGroup leaves of the members.
WithoutGroup(g) == {m \in memberRows : m[1] # g}

\* Members, then the group, in one transaction; deleting what is not there succeeds.
DeleteGroup(g) ==
  /\ GroupCall
  /\ g <= made
  /\ groupRows' = [groupRows EXCEPT ![g] = [there |-> FALSE, changed |-> {}]]
  /\ memberRows' = WithoutGroup(g)
  /\ told' = [told EXCEPT !.gone = @ \union {g}]
  /\ groupJob' = SeenByTask(memberRows')
  /\ pager' = [pager EXCEPT !.still = FALSE]
  /\ UNCHANGED <<made, groupEdits>>

-----------------------------------------------------------------------------
\* Members.

\* One INSERT of all: a device that is already a member fails the whole request.  That the
\* group exists is not looked at; its id is one the caller has seen.
AddMembers(g, devices) ==
  /\ GroupCall
  /\ g <= made
  /\ devices \intersect MembersOf(g) = {}
  /\ memberRows' = memberRows \union {<<g, d>> : d \in devices}
  /\ told' = IF groupRows[g].there THEN told
             ELSE [told EXCEPT !.strays = @ \union {<<g, d>> : d \in devices}]
  /\ groupJob' = SeenByTask(memberRows')
  /\ UNCHANGED <<groupRows, made, groupEdits, pager>>

RemoveMember(g, d) ==
  /\ GroupCall
  /\ <<g, d>> \in memberRows
  /\ memberRows' = memberRows \ {<<g, d>>}
  /\ groupJob' = SeenByTask(memberRows')
  /\ UNCHANGED <<groupRows, made, groupEdits, pager, told>>

-----------------------------------------------------------------------------
\* The list: the newest group first, each request a COUNT and then a page.

\* A slip: pages are numbered from one, the offset is not.
PageLate(page) ==
  {g \in Present : LET above == Cardinality({h \in Present : h > g})
                   IN page * PageSize <= above /\ above < (page + 1) * PageSize}

\* ORDER BY created_at DESC, OFFSET (page - 1) * page_size, LIMIT page_size.
Page(page) ==
  {g \in Present : LET above == Cardinality({h \in Present : h > g})
                   IN (page - 1) * PageSize <= above /\ above < page * PageSize}

\* The console opens the list at its first page.
OpenList ==
  /\ pager.at = "none"
  /\ pager' = [pager EXCEPT !.at = "asks", !.due = Present]
  /\ UNCHANGED <<groupRows, memberRows, made, groupEdits, groupJob, told, groupCalls>>

CountGroups ==
  /\ pager.at = "asks"
  /\ pager' = [pager EXCEPT !.at = "counted", !.total = Cardinality(Present)]
  /\ UNCHANGED <<groupRows, memberRows, made, groupEdits, groupJob, told, groupCalls>>

\* It shows the page, and asks for the next one while the total says that there is one.
ShowPage ==
  /\ pager.at = "counted"
  /\ pager' = [pager EXCEPT
       !.seen = @ \union Page(pager.page),
       !.at = IF pager.page * PageSize >= pager.total THEN "done" ELSE "asks",
       !.page = IF pager.page * PageSize >= pager.total THEN @ ELSE @ + 1]
  /\ UNCHANGED <<groupRows, memberRows, made, groupEdits, groupJob, told, groupCalls>>

-----------------------------------------------------------------------------
\* A batch task.

\* CreateBatchTask reads the members, and answers empty_group when there are none.
ListForTask(g) ==
  /\ groupJob.at = "none"
  /\ MembersOf(g) # {}
  /\ groupJob' = [groupJob EXCEPT !.at = "listed", !.group = g, !.sends = MembersOf(g)]
  /\ UNCHANGED <<groupRows, memberRows, made, groupEdits, pager, told, groupCalls>>

\* It inserts the row with their number.
InsertTask ==
  /\ groupJob.at = "listed"
  /\ groupJob' = [groupJob EXCEPT !.at = "pending", !.total = Cardinality(groupJob.sends)]
  /\ UNCHANGED <<groupRows, memberRows, made, groupEdits, pager, told, groupCalls>>

\* The handler starts the goroutine, if the command that serves as template is found.
DispatchTask ==
  /\ groupJob.at = "pending"
  /\ groupJob' = [groupJob EXCEPT !.at = "starts", !.might = MembersOf(groupJob.group),
                        !.must = MembersOf(groupJob.group)]
  /\ UNCHANGED <<groupRows, memberRows, made, groupEdits, pager, told, groupCalls>>

\* A slip: the goroutine is handed the members the request has read.
TargetsAsListed == groupJob.sends

\* The goroutine reads the members again; it ends at once, and the row stays pending, when it
\* cannot read the row itself.
Targets == MembersOf(groupJob.group)

\* It goes on when its row cannot be written, which then still has the number of the request.
RunTask ==
  /\ groupJob.at = "starts"
  /\ Targets # {}
  /\ \E refused \in {"none", "write"} :
       groupJob' = [groupJob EXCEPT !.at = "running", !.sends = Targets, !.refused = refused,
                      !.total = IF refused = "write" THEN @ ELSE Cardinality(Targets)]
  /\ UNCHANGED <<groupRows, memberRows, made, groupEdits, pager, told, groupCalls>>

\* An error of the database is taken for an empty group.
NobodyToReach ==
  /\ groupJob.at = "starts"
  /\ \E refused \in {"none", "read"} :
       /\ refused = "none" => Targets = {}
       /\ groupJob' = [groupJob EXCEPT !.at = "failed", !.refused = refused]
  /\ UNCHANGED <<groupRows, memberRows, made, groupEdits, pager, told, groupCalls>>

GroupNext ==
  \/ CreateGroup \/ OpenList \/ CountGroups \/ ShowPage
  \/ InsertTask \/ DispatchTask \/ RunTask \/ NobodyToReach
  \/ \E g \in Groups :
       \/ DeleteGroup(g) \/ ListForTask(g)
       \/ \E ds \in SUBSET GroupDevices \ {{}} : AddMembers(g, ds)
       \/ \E d \in GroupDevices : RemoveMember(g, d)
       \/ \E e \in GroupEdits, fs \in SUBSET GroupFields \ {{}} : ReadGroup(e, g, fs)
  \/ \E e \in GroupEdits : SaveGroup(e) \/ SaveGroupFails(e)

GroupSpec == GroupInit /\ [][GroupNext]_groupVars

-----------------------------------------------------------------------------
\* Unless an update wrote back a row that had changed since it was read, a group that is
\* there has every field its callers were told had changed, and no other; a group whose
\* deletion was answered is gone; and only members added after that refer to it.
GroupsAsAnswered ==
  /\ \A g \in Present \ told.raced : g \notin told.gone /\ groupRows[g].changed = told.changed[g]
  /\ \A m \in memberRows \ told.strays : m[1] \in Present

\* The list shows every group it should: someone who walks through its pages has seen all
\* groups that existed at the start, whatever was created meanwhile, unless a group was
\* deleted, or a row inserted between the count and the page of one request.
PagesMissNothing == pager.at = "done" /\ pager.still => pager.due \subseteq pager.seen

\* A batch task reaches its group as it is when it runs, not as it was when it was asked
\* for: no device that had left before it was dispatched, every device that stayed; its
\* row counts just those, unless it could not be written; and the task fails only if no
\* device stayed or the database did not say which.
TaskReachesItsGroup ==
  /\ groupJob.at = "running" =>
       /\ groupJob.must \subseteq groupJob.sends /\ groupJob.sends \subseteq groupJob.might
       /\ groupJob.refused = "none" => groupJob.total = Cardinality(groupJob.sends)
  /\ groupJob.at = "failed" /\ groupJob.refused = "none" => groupJob.must = {}
=============================================================================
