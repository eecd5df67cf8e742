-------------------------------- MODULE Roles --------------------------------
(***************************************************************************)
(* Roles of a tenant: the rows that carry permissions, the bindings that   *)
(* give them to people, and the seeding of the default roles that every    *)
(* start of platform-api begins and nothing waits for.  The database keeps *)
(* names unique in a tenant, a role that is bound from being deleted, and  *)
(* a tenant that has no row from having roles.  The seeding is for the     *)
(* tenant "system", which has none: the migrations and CreateTenant give   *)
(* every tenant an id of another form.                                     *)
(***************************************************************************)
EXTENDS Naturals

CONSTANTS
  Seeders,      \* starts of platform-api
  DefaultRoles, \* the keys of DefaultRolePermissions, as roles of the tenant that is seeded
  OwnRoles,     \* the roles of a tenant that has a row, whatever people call them
  Permissions,  \* assignablePermissions
  MaxRoleEdits  \* bound of the model: changes administrators make

ASSUME RoleConstants ==
  /\ "no row" \notin Permissions   \* see NoRow
  /\ DefaultRoles \cap OwnRoles = {}

RoleNames == DefaultRoles \cup OwnRoles

VARIABLES
  roleRow,    \* the permissions of a role; NoRow if it has no row
  roleBound,  \* roles bound to the person
  seeding,    \* what each seeder has still to see to, and the role it is about to create
  roleEdit,   \* a change of a role between reading its row and writing it
  started,    \* starts of platform-api so far
  roleEdits   \* changes administrators made

rolesVars == <<roleRow, roleBound, seeding, roleEdit, started, roleEdits>>
administered == <<roleBound, roleEdit, roleEdits>>

NoRow == {"no row"}
NoRoleEdit == [role |-> "none", permissions |-> {}]
Ended == [left |-> {}, missing |-> {}]
HasRow(r) == roleRow[r] # NoRow

RolesTypeOK ==
  /\ roleRow \in [RoleNames -> (SUBSET Permissions) \cup {NoRow}]
  /\ roleBound \subseteq RoleNames
  /\ started \subseteq Seeders
  /\ seeding \in [Seeders -> [left : SUBSET DefaultRoles, missing : SUBSET DefaultRoles]]
  /\ roleEdit.role \in RoleNames \cup {"none"}

RolesInit ==
  /\ roleRow = [r \in RoleNames |-> NoRow]
  /\ roleBound = {} /\ roleEdit = NoRoleEdit
  /\ seeding = [s \in Seeders |-> Ended]
  /\ started = {} /\ roleEdits = 0

-----------------------------------------------------------------------------
(* Seeding                                                                 *)

\* Every start begins a seeding in a goroutine of its own.
SeedDefaultRoles(s) ==
  /\ s \notin started /\ started' = started \cup {s}
  /\ seeding' = [seeding EXCEPT ![s].left = DefaultRoles]
  /\ UNCHANGED <<roleRow, administered>>

\* The seeder goes through the map in any order and looks whether the role has a row ...
SeedLooks(s) ==
  /\ seeding[s].missing = {}
  /\ \E r \in seeding[s].left :
       seeding' = [seeding EXCEPT ![s] =
                     [left |-> @.left \ {r}, missing |-> IF HasRow(r) THEN {} ELSE {r}]]
  /\ UNCHANGED <<roleRow, started, administered>>

\* ... and inserts it, which the database refuses (fk_roles_tenant): an error ends the seeding.
SeedCreates(s) ==
  /\ seeding[s].missing # {}
  /\ seeding' = [seeding EXCEPT ![s] = Ended]
  /\ UNCHANGED <<roleRow, started, administered>>

\* A crash, or a query that fails.
SeedIsCut(s) ==
  /\ seeding[s] # Ended
  /\ seeding' = [seeding EXCEPT ![s] = Ended]
  /\ UNCHANGED <<roleRow, started, administered>>

-----------------------------------------------------------------------------
(* What administrators do                                                  *)

SeedingUnchanged == UNCHANGED <<seeding, started>>
Edit == roleEdits < MaxRoleEdits /\ roleEdits' = roleEdits + 1 /\ SeedingUnchanged

CreateRole(r, permissions) ==
  /\ ~HasRow(r)
  /\ roleRow' = [roleRow EXCEPT ![r] = permissions]
  /\ Edit /\ UNCHANGED <<roleBound, roleEdit>>

\* UpdateRole reads the row ...
UpdateRole(r, permissions) ==
  /\ HasRow(r) /\ roleEdit = NoRoleEdit
  /\ roleEdit' = [role |-> r, permissions |-> permissions]
  /\ Edit /\ UNCHANGED <<roleRow, roleBound>>

\* ... and saves it; Save inserts again a row that was deleted meanwhile.
SaveRole ==
  /\ roleEdit # NoRoleEdit
  /\ roleRow' = [roleRow EXCEPT ![roleEdit.role] = roleEdit.permissions]
  /\ roleEdit' = NoRoleEdit
  /\ SeedingUnchanged /\ UNCHANGED <<roleBound, roleEdits>>

\* A slip: bindings do not keep a role.
DeleteRoleBound(r) ==
  /\ HasRow(r)
  /\ roleRow' = [roleRow EXCEPT ![r] = NoRow]
  /\ Edit /\ UNCHANGED <<roleBound, roleEdit>>

\* The database refuses to delete a role that is bound (fk_rb_role).
DeleteRole(r) ==
  /\ HasRow(r) /\ r \notin roleBound
  /\ roleRow' = [roleRow EXCEPT ![r] = NoRow]
  /\ Edit /\ UNCHANGED <<roleBound, roleEdit>>

BindRole(r) ==
  /\ HasRow(r) /\ r \notin roleBound
  /\ roleBound' = roleBound \cup {r}
  /\ Edit /\ UNCHANGED <<roleRow, roleEdit>>

UnbindRole(r) ==
  /\ roleBound' = roleBound \ {r}
  /\ Edit /\ UNCHANGED <<roleRow, roleEdit>>

RolesNext ==
  \/ \E s \in Seeders : SeedDefaultRoles(s) \/ SeedLooks(s) \/ SeedCreates(s) \/ SeedIsCut(s)
  \/ \E r \in OwnRoles :
       \/ \E p \in SUBSET Permissions : CreateRole(r, p) \/ UpdateRole(r, p)
       \/ DeleteRole(r) \/ BindRole(r) \/ UnbindRole(r)
  \/ SaveRole

\* GetUserPermissions joins the permissions of the roles bound to the person.
GetUserPermissions == UNION {roleRow[r] : r \in roleBound}

-----------------------------------------------------------------------------
\* What a person may do comes from roles that are there (role_repo.go, 000004_extension_tables).
BoundRolesAreThere == GetUserPermissions \subseteq Permissions

=============================================================================
