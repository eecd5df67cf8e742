--------------------------- MODULE TenantProfiles ---------------------------
(***************************************************************************)
(* The tenants of platform-api, their model, policy and agent profiles,    *)
(* and the configuration a device pulls: its agent profile, then the model *)
(* and the policy profile that one names, each with a query of its own.    *)
(*                                                                         *)
(* Updates read a row and later save all of it; requests are interrupted   *)
(* between two statements.  Profiles are deleted softly, tenants are not.  *)
(* What the database refuses is modelled from the schema: a second live    *)
(* profile of one name, a second tenant of one slug, a profile without its *)
(* tenant.  That a profile names a model and a policy that exist, or are   *)
(* its tenant's, nothing refuses.                                          *)
(***************************************************************************)
EXTENDS Integers, FiniteSets

CONSTANTS
  TenantIds, ModelIds, PolicyIds, AgentIds,   \* ids of rows, those to come included
  FirstTenants, FirstProfiles,                \* the rows there are, see TenantsInit
  LeafNew, AgentNew,                          \* requests to create: records of fields
  TenantAsked, LeafAsked, AgentAsked,         \* requests to update: the same, "" where not given
  ProfileNames, Slugs,
  OwnTenant, OwnProfile,  \* tenant_id and agent_profile_id of the device
  MaxProfileEdits,        \* bound on the requests in flight between reading and writing
  MaxProfileCalls,        \* bound on the calls that change rows
  MaxPulls                \* bound on the configurations the device pulls

ASSUME TenantConstants ==
  /\ ModelIds \intersect PolicyIds = {} /\ AgentIds \intersect (ModelIds \union PolicyIds) = {}
  /\ TenantIds \intersect (ModelIds \union PolicyIds \union AgentIds) = {}
  /\ OwnTenant \in TenantIds /\ OwnProfile \in AgentIds
  /\ MaxProfileEdits \in Nat /\ MaxProfileCalls \in Nat /\ MaxPulls \in Nat

VARIABLES
  tenantTable,   \* tenants, model_profiles, policy_profiles and agent_profiles, by id
  tenantEdits,   \* requests that have read and not yet written; two that are alike are one
  pull,          \* the device's request for its configuration
  received,      \* history: the profiles the device has received
  answered,      \* history: what callers have been told, see SettingsAsAnswered
  tenantCalls, pulls

tenantVars == <<tenantTable, tenantEdits, pull, received, answered, tenantCalls, pulls>>

LeafIds == ModelIds \union PolicyIds
ProfileIds == LeafIds \union AgentIds
TenantRows == TenantIds \union ProfileIds

\* The fields of a row that requests set: config of a model or a policy is its provider, key and
\* parameters, or its rules, as one value.
FieldsOf(id) ==
  CASE id \in TenantIds -> [slug : Slugs, state : {"draft", "suspended"}]
    [] id \in LeafIds   -> [name : ProfileNames, config : {"first", "second"}]
    [] id \in AgentIds  -> [name : ProfileNames, model : ModelIds, policy : PolicyIds]

\* The profiles that are kept in the table of this one.
Kindred(id) == CHOOSE ids \in {ModelIds, PolicyIds, AgentIds} : id \in ids

\* The rows there are keep to the unique indexes and the foreign key.
ASSUME FirstRows ==
  /\ DOMAIN FirstTenants \subseteq TenantIds /\ OwnTenant \in DOMAIN FirstTenants
  /\ DOMAIN FirstProfiles \subseteq ProfileIds
  /\ \A t \in DOMAIN FirstTenants : FirstTenants[t] \in FieldsOf(t)
  /\ \A id \in DOMAIN FirstProfiles : FirstProfiles[id] \in FieldsOf(id)
  /\ \A t, other \in DOMAIN FirstTenants : FirstTenants[t].slug = FirstTenants[other].slug => t = other
  /\ \A id, other \in DOMAIN FirstProfiles :
       id # other /\ Kindred(id) = Kindred(other) => FirstProfiles[id].name # FirstProfiles[other].name

\* A new row has all its fields; an update gives any of them, but for the slug of a tenant.
ASSUME TenantRequests ==
  /\ LeafNew \subseteq [name : ProfileNames, config : {"first", "second"}]
  /\ AgentNew \subseteq [name : ProfileNames, model : ModelIds, policy : PolicyIds]
  /\ TenantAsked \subseteq [slug : {""}, state : {"", "draft", "suspended"}]
  /\ LeafAsked \subseteq [name : ProfileNames \union {""}, config : {"", "first", "second"}]
  /\ AgentAsked \subseteq [name : ProfileNames \union {""}, model : ModelIds \union {""},
                          policy : PolicyIds \union {""}]

NotThere == [at |-> "none", tenant |-> "", version |-> 0, fields |-> <<>>]
NoPull == [at |-> "none", agent |-> NotThere, model |-> NotThere]

RowsOf(id) ==
  {NotThere} \union [at : {"live", "deleted"}, tenant : TenantIds \union {""},
                       version : 0 .. MaxProfileCalls + 1, fields : FieldsOf(id)]

TenantTypeOK ==
  /\ DOMAIN tenantTable = TenantRows /\ \A id \in TenantRows : tenantTable[id] \in RowsOf(id)
  /\ \A e \in tenantEdits : e.id \in TenantRows /\ e.read \in RowsOf(e.id)
  /\ Cardinality(tenantEdits) <= MaxProfileEdits
  /\ pull.at \in {"none", "model", "policy"}
  /\ pull.agent \in RowsOf(OwnProfile)
  /\ pull.model \in {NotThere} \union UNION {RowsOf(m) : m \in ModelIds}
  /\ \A s \in received : s.id \in ProfileIds /\ s.row \in RowsOf(s.id)
  /\ answered.gone \subseteq TenantRows /\ answered.raced \subseteq TenantRows
  /\ tenantCalls \in 0 .. MaxProfileCalls /\ pulls \in 0 .. MaxPulls

TenantsInit ==
  /\ tenantTable = [id \in TenantRows |->
       IF id \in DOMAIN FirstTenants
       THEN [NotThere EXCEPT !.at = "live", !.fields = FirstTenants[id]]
       ELSE IF id \in DOMAIN FirstProfiles
       THEN [at |-> "live", tenant |-> OwnTenant, version |-> 1, fields |-> FirstProfiles[id]]
       ELSE NotThere]
  /\ tenantEdits = {}
  /\ pull = NoPull
  /\ received = {}
  /\ answered = [fields |-> [id \in TenantRows |-> tenantTable[id].fields],
                 updates |-> [id \in TenantRows |-> 0], gone |-> {}, raced |-> {}]
  /\ tenantCalls = 0 /\ pulls = 0

Undeleted(ids) == {id \in ids : tenantTable[id].at = "live"}
TenantCall == tenantCalls < MaxProfileCalls /\ tenantCalls' = tenantCalls + 1
New(id) == tenantTable[id] = NotThere /\ \A e \in tenantEdits : e.id # id

\* A slip: the index is over the id as well.
TakenNever(id, tenant, name) == FALSE

\* The unique indexes over tenant, name and time of deletion.
Taken(id, tenant, name) ==
  \E other \in Undeleted(Kindred(id)) \ {id} :
    tenantTable[other].tenant = tenant /\ tenantTable[other].fields.name = name

\* A field the request leaves empty keeps what was read.
Asked(fields, ask) == [f \in DOMAIN fields |-> IF ask[f] = "" THEN fields[f] ELSE ask[f]]

\* History: a change has been answered.
Answer(id, ask) ==
  [answered EXCEPT !.fields[id] = Asked(@, ask), !.updates[id] = @ + 1]

\* A request is between its read and its write.
Enter(id, ask, read) ==
  /\ Cardinality(tenantEdits) < MaxProfileEdits
  /\ tenantEdits' = tenantEdits \union {[id |-> id, ask |-> ask, read |-> read]}
Leave(e) == tenantEdits' = tenantEdits \ {e}

-----------------------------------------------------------------------------
\* Profiles.

\* One INSERT, which the database refuses for a name that is taken or a tenant that is not there.
CreateProfile(id, tenant, fields) ==
  /\ TenantCall
  /\ New(id)
  /\ tenant \in Undeleted(TenantIds)
  /\ ~Taken(id, tenant, fields.name)
  /\ tenantTable' = [tenantTable EXCEPT ![id] =
                       [at |-> "live", tenant |-> tenant, version |-> 1, fields |-> fields]]
  /\ answered' = [answered EXCEPT !.fields[id] = fields]
  /\ UNCHANGED <<tenantEdits, pull, received, pulls>>

CreateModelProfile(id, tenant, fields) == id \in ModelIds /\ CreateProfile(id, tenant, fields)
CreatePolicyProfile(id, tenant, fields) == id \in PolicyIds /\ CreateProfile(id, tenant, fields)
CreateAgentProfile(id, tenant, fields) == id \in AgentIds /\ CreateProfile(id, tenant, fields)

\* An update reads the row, and answers that there is none if it is deleted.
ReadUndeleted(id, ask) ==
  /\ TenantCall
  /\ id \in Undeleted(TenantRows)
  /\ Enter(id, ask, tenantTable[id])
  /\ UNCHANGED <<tenantTable, pull, received, answered, pulls>>

ReadModelProfile(id, ask) == id \in ModelIds /\ ReadUndeleted(id, ask)
ReadPolicyProfile(id, ask) == id \in PolicyIds /\ ReadUndeleted(id, ask)
ReadAgentProfile(id, ask) == id \in AgentIds /\ ReadUndeleted(id, ask)

\* A slip: the version is left as it was read.
SavedAsRead(row, ask) == [row EXCEPT !.fields = Asked(@, ask)]

\* The row it then writes, deleted_at as it was read.
Saved(row, ask) == [row EXCEPT !.fields = Asked(@, ask), !.version = @ + 1]

SaveProfile(e) ==
  LET row == Saved(e.read, e.ask)
  IN /\ e.id \in ProfileIds
     /\ ~Taken(e.id, row.tenant, row.fields.name)
     /\ tenantTable' = [tenantTable EXCEPT ![e.id] = row]
     /\ answered' = [Answer(e.id, e.ask) EXCEPT
                       !.raced = IF tenantTable[e.id] = e.read THEN @ ELSE @ \union {e.id}]
     /\ Leave(e)
     /\ UNCHANGED <<pull, received, tenantCalls, pulls>>

\* The name is taken, or the database fails: the caller gets the error.
SaveRefused(e) ==
  /\ Leave(e)
  /\ UNCHANGED <<tenantTable, pull, received, answered, tenantCalls, pulls>>

\* One UPDATE of deleted_at, of a row that is there, deleted before or not.
DeleteProfile(id) ==
  /\ TenantCall
  /\ id \in ProfileIds /\ tenantTable[id] # NotThere
  /\ tenantTable' = [tenantTable EXCEPT ![id].at = "deleted"]
  /\ answered' = [answered EXCEPT !.gone = @ \union {id}]
  /\ UNCHANGED <<tenantEdits, pull, received, pulls>>

DeleteModelProfile(id) == id \in ModelIds /\ DeleteProfile(id)
DeletePolicyProfile(id) == id \in PolicyIds /\ DeleteProfile(id)
DeleteAgentProfile(id) == id \in AgentIds /\ DeleteProfile(id)

-----------------------------------------------------------------------------
\* Tenants.

HoldersOf(slug) == {t \in Undeleted(TenantIds) : tenantTable[t].fields.slug = slug}

\* CreateTenant looks for the slug and then inserts the row, unless the slug has been taken since.
LookForSlug(t, slug) ==
  /\ TenantCall
  /\ t \in TenantIds /\ New(t)
  /\ HoldersOf(slug) = {}
  /\ Enter(t, [slug |-> slug, state |-> "draft"], NotThere)
  /\ UNCHANGED <<tenantTable, pull, received, answered, pulls>>

InsertTenant(e) ==
  /\ e.read = NotThere
  /\ HoldersOf(e.ask.slug) = {}
  /\ tenantTable' = [tenantTable EXCEPT ![e.id] =
                       [NotThere EXCEPT !.at = "live", !.fields = e.ask]]
  /\ answered' = [answered EXCEPT !.fields[e.id] = e.ask]
  /\ Leave(e)
  /\ UNCHANGED <<pull, received, tenantCalls, pulls>>

ReadTenant(t, ask) == t \in TenantIds /\ ReadUndeleted(t, ask)

\* The row the save of a tenant changes: its own, or when that has been deleted the one that holds
\* its slug now, which the insert the save falls back to updates instead; else its own comes back.
SavesTo(t, slug) ==
  IF tenantTable[t].at # "live" /\ HoldersOf(slug) # {} THEN HoldersOf(slug) ELSE {t}

SaveTenant(e) ==
  LET fields == Asked(e.read.fields, e.ask)
  IN /\ e.id \in TenantIds /\ e.read # NotThere
     /\ \E to \in SavesTo(e.id, fields.slug) :
          /\ tenantTable' = [tenantTable EXCEPT ![to] =
                               [NotThere EXCEPT !.at = "live", !.fields = fields]]
          /\ answered' = [Answer(e.id, e.ask) EXCEPT
                            !.raced = IF tenantTable[e.id] = e.read
                                      THEN @ ELSE @ \union {e.id, to}]
     /\ Leave(e)
     /\ UNCHANGED <<pull, received, tenantCalls, pulls>>

\* A slip: profiles that are deleted do not hold their tenant.
ReferredLive(t) == \E id \in Undeleted(ProfileIds) : tenantTable[id].tenant = t

\* The foreign keys of the profiles, deleted ones included.
Referred(t) == \E id \in ProfileIds : tenantTable[id].tenant = t

\* The row goes, unless something refers to it.
DeleteTenant(t) ==
  /\ TenantCall
  /\ t \in Undeleted(TenantIds) /\ ~Referred(t)
  /\ tenantTable' = [tenantTable EXCEPT ![t].at = "deleted"]
  /\ answered' = [answered EXCEPT !.gone = @ \union {t}]
  /\ UNCHANGED <<tenantEdits, pull, received, pulls>>

-----------------------------------------------------------------------------
\* The configuration of a device.

\* A slip: the row is looked up by its id alone.
FoundAnywhere(id, tenant) == {tenantTable[id]} \ {NotThere}

\* A lookup for a tenant: nothing of another tenant, and nothing deleted.
Found(id, tenant) ==
  {tenantTable[i] : i \in {i \in Undeleted({id}) : tenantTable[i].tenant = tenant}}

\* An error of a lookup is taken for no row.  Bound: lookups fail in the last pull only.
Looked(id, tenant) ==
  IF Found(id, tenant) = {} \/ pulls = MaxPulls THEN Found(id, tenant) \union {NotThere}
  ELSE Found(id, tenant)

\* Without an agent profile the answer has no profile at all.
PullAgentProfile ==
  /\ pull = NoPull
  /\ pulls < MaxPulls /\ pulls' = pulls + 1
  /\ \E row \in Looked(OwnProfile, OwnTenant) :
       pull' = IF row = NotThere THEN NoPull ELSE [NoPull EXCEPT !.at = "model", !.agent = row]
  /\ UNCHANGED <<tenantTable, tenantEdits, received, answered, tenantCalls>>

PullModelProfile ==
  /\ pull.at = "model"
  /\ \E row \in Looked(pull.agent.fields.model, OwnTenant) :
       pull' = [pull EXCEPT !.at = "policy", !.model = row]
  /\ UNCHANGED <<tenantTable, tenantEdits, received, answered, tenantCalls, pulls>>

\* The answer goes out with the three profiles as they were read.
PullPolicyProfile ==
  LET fields == pull.agent.fields
  IN /\ pull.at = "policy"
     /\ \E row \in Looked(fields.policy, OwnTenant) :
          received' = received \union
            {s \in {[id |-> OwnProfile, row |-> pull.agent],
                    [id |-> fields.model, row |-> pull.model],
                    [id |-> fields.policy, row |-> row]} : s.row # NotThere}
     /\ pull' = NoPull
     /\ UNCHANGED <<tenantTable, tenantEdits, answered, tenantCalls, pulls>>

TenantsNext ==
  \/ \E t \in TenantIds, id \in ProfileIds :
       \/ \E new \in LeafNew : CreateModelProfile(id, t, new) \/ CreatePolicyProfile(id, t, new)
       \/ \E new \in AgentNew : CreateAgentProfile(id, t, new)
  \/ \E id \in ProfileIds :
       \/ \E ask \in LeafAsked : ReadModelProfile(id, ask) \/ ReadPolicyProfile(id, ask)
       \/ \E ask \in AgentAsked : ReadAgentProfile(id, ask)
       \/ DeleteModelProfile(id) \/ DeletePolicyProfile(id) \/ DeleteAgentProfile(id)
  \/ \E t \in TenantIds :
       \/ \E slug \in Slugs : LookForSlug(t, slug)
       \/ \E ask \in TenantAsked : ReadTenant(t, ask)
       \/ DeleteTenant(t)
  \/ \E e \in tenantEdits : SaveProfile(e) \/ SaveRefused(e) \/ InsertTenant(e) \/ SaveTenant(e)
  \/ PullAgentProfile \/ PullModelProfile \/ PullPolicyProfile

TenantsSpec == TenantsInit /\ [][TenantsNext]_tenantVars

-----------------------------------------------------------------------------
\* Unless a save wrote back a row that had changed since it was read, a tenant or a profile that is
\* there is as its callers were told: every change that was answered is in it, its version counts
\* them, and its deletion was not answered.
SettingsAsAnswered ==
  \A id \in Undeleted(TenantRows) \ answered.raced :
    /\ id \notin answered.gone
    /\ tenantTable[id].fields = answered.fields[id]
    /\ id \in ProfileIds => tenantTable[id].version = 1 + answered.updates[id]

\* Whatever overlaps, two profiles of one kind and tenant that are there have different names, one
\* that a save brought back after its deletion included; a slug belongs to one tenant; and no
\* profile, not even a deleted one, has lost its tenant.
NamesAreOnce ==
  /\ \A id, other \in Undeleted(ProfileIds) :
       /\ id # other /\ Kindred(id) = Kindred(other)
       /\ tenantTable[id].tenant = tenantTable[other].tenant
       => tenantTable[id].fields.name # tenantTable[other].fields.name
  /\ \A t, other \in Undeleted(TenantIds) :
       tenantTable[t].fields.slug = tenantTable[other].fields.slug => t = other
  /\ \A id \in ProfileIds :
       tenantTable[id] # NotThere => tenantTable[tenantTable[id].tenant].at = "live"

\* Although an agent profile may name any model and policy, a device receives only profiles of its
\* tenant; and by the version of a profile it can tell what is in it: unless saves overlapped, what
\* it receives under one version at two times is the same.
VersionsTell ==
  \A s, other \in received :
    /\ s.row.tenant = OwnTenant
    /\ s.id = other.id /\ s.row.version = other.row.version /\ s.id \notin answered.raced
       => s.row.fields = other.row.fields
=============================================================================
