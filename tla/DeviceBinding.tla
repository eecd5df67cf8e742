---------------------------- MODULE DeviceBinding ----------------------------
(***************************************************************************)
(* The bindings of devices to download packages: activation by key,        *)
(* binding and unbinding by an administrator, the migration a heartbeat    *)
(* starts when the agent reports another version, and the deletion of a    *)
(* package.  device_code is unique in device_bindings; bound_count of a    *)
(* package is a counter of its own, changed in a statement of its own.     *)
(***************************************************************************)
EXTENDS Naturals, FiniteSets

CONSTANTS
  Devices,    \* device codes
  Packages,   \* download packages of one tenant
  Requests,   \* slots for requests that are handled at once
  MaxBegun,   \* bound: requests that are ever made
  Quotas,     \* values administrators give max_devices
  Nothing     \* an idle slot, a device without a binding

VARIABLES
  binding,    \* per device: its row of device_bindings
  registered, \* pending_devices
  package,    \* rows of download_packages that exist
  bound,      \* bound_count of each
  quota,      \* max_devices of each
  request,    \* per slot: what is left to do
  begun,      \* how many requests were made
  overlap,    \* history: "none", "apart" when requests overlapped, "same" when a step failed
              \* or they did so on one device or package
  again,      \* history: a binding was unbound again
  movedTo     \* history: packages some binding was migrated to

bindingVars == <<binding, registered, package, bound, quota, request, begun, overlap, again, movedTo>>

CallSteps == {"create", "count", "revoke", "uncount", "move", "leave", "enter", "purge", "remove"}

Request == [step : CallSteps, dev : Devices \cup {Nothing},
            from : Packages \cup {Nothing}, to : Packages \cup {Nothing}]

ASSUME BindingConstants ==
  /\ Quotas \subseteq Nat /\ Quotas # {}
  /\ MaxBegun \in Nat
  /\ IsFiniteSet(Devices)
  /\ Nothing \notin [package : Packages, status : {"active", "revoked"}] \cup Request

BindingTypeOK ==
  /\ binding \in [Devices ->
       [package : Packages, status : {"active", "revoked"}] \cup {Nothing}]
  /\ registered \subseteq Devices
  /\ package \subseteq Packages
  /\ bound \in [Packages -> Nat]
  /\ quota \in [Packages -> Quotas]
  /\ request \in [Requests -> Request \cup {Nothing}]
  /\ begun \in 0 .. MaxBegun
  /\ overlap \in {"none", "apart", "same"}
  /\ again \in BOOLEAN
  /\ movedTo \subseteq Packages

BindingInit ==
  /\ binding = [d \in Devices |-> Nothing]
  /\ registered = {}
  /\ package = Packages
  /\ bound = [p \in Packages |-> 0]
  /\ quota = [p \in Packages |-> CHOOSE q \in Quotas : \A other \in Quotas : q <= other]
  /\ request = [r \in Requests |-> Nothing]
  /\ begun = 0
  /\ overlap = "none"
  /\ again = FALSE
  /\ movedTo = {}

IsActive(d) == binding[d] # Nothing /\ binding[d].status = "active"
BoundTo(p)  == {d \in Devices : IsActive(d) /\ binding[d].package = p}
Pending     == {r \in Requests : request[r] # Nothing}

\* A request begins; it overlaps with those that deal with its device or delete a package.
Begins(r, req) ==
  /\ request[r] = Nothing
  /\ begun < MaxBegun
  /\ begun' = begun + 1
  /\ request' = [request EXCEPT ![r] = req]
  /\ overlap' =
       IF overlap = "same" \/ \E o \in Pending : \/ request[o].dev \in {req.dev, Nothing}
                                               \/ req.dev = Nothing
       THEN "same" ELSE IF Pending # {} THEN "apart" ELSE overlap
  /\ UNCHANGED <<binding, registered, package, bound, quota>>

Goes(r, step) == request' = [request EXCEPT ![r].step = step]
Ends(r)       == request' = [request EXCEPT ![r] = Nothing]

-----------------------------------------------------------------------------

RegisterDevice(d) ==
  /\ d \notin registered
  /\ registered' = registered \cup {d}
  /\ UNCHANGED <<binding, package, bound, quota, request, begun, overlap, again, movedTo>>

\* A slip: a full package takes one more.
MayBindOneMore(d, p) == p \in package /\ ~IsActive(d) /\ bound[p] <= quota[p]

\* bindDevice: the package was read before; a revoked binding is not found.
MayBind(d, p) == p \in package /\ ~IsActive(d) /\ bound[p] < quota[p]

ActivateAuto(r, d, p) ==
  /\ MayBind(d, p)
  /\ Begins(r, [step |-> "create", dev |-> d, from |-> Nothing, to |-> p])
  /\ UNCHANGED <<again, movedTo>>

BindManual(r, d, p) ==
  /\ d \in registered
  /\ ActivateAuto(r, d, p)

\* A slip: a binding of the past is taken over.
CreateBindingOver(r) ==
  /\ request[r] # Nothing /\ request[r].step = "create"
  /\ binding' = [binding EXCEPT ![request[r].dev] =
                   [package |-> request[r].to, status |-> "active"]]
  /\ Goes(r, "count")
  /\ UNCHANGED <<registered, package, bound, quota, begun, overlap, again, movedTo>>

CreateBinding(r) ==
  /\ request[r] # Nothing /\ request[r].step = "create"
  /\ binding[request[r].dev] = Nothing
  /\ binding' = [binding EXCEPT ![request[r].dev] =
                   [package |-> request[r].to, status |-> "active"]]
  /\ Goes(r, "count")
  /\ UNCHANGED <<registered, package, bound, quota, begun, overlap, again, movedTo>>

\* uk_device_bindings_code: the code has a row, be it a revoked one.
CreateBindingDuplicate(r) ==
  /\ request[r] # Nothing /\ request[r].step = "create"
  /\ binding[request[r].dev] # Nothing
  /\ Ends(r)
  /\ UNCHANGED <<binding, registered, package, bound, quota, begun, overlap, again, movedTo>>

\* IncrementBoundCount and, for a binding, what follows it.
CountBinding(r) ==
  /\ request[r] # Nothing /\ request[r].step = "count"
  /\ bound' = [bound EXCEPT ![request[r].to] = @ + 1]
  /\ registered' = registered \ {request[r].dev}
  /\ Ends(r)
  /\ UNCHANGED <<binding, package, quota, begun, overlap, again, movedTo>>

\* Unbind reads the binding by its id, whatever its status.
UnbindDevice(r, d) ==
  /\ binding[d] # Nothing
  /\ Begins(r, [step |-> "revoke", dev |-> d, from |-> binding[d].package, to |-> Nothing])
  /\ again' = (again \/ ~IsActive(d))
  /\ UNCHANGED movedTo

RevokeBinding(r) ==
  /\ request[r] # Nothing /\ request[r].step = "revoke"
  /\ binding' = [binding EXCEPT ![request[r].dev] =
                   IF @ = Nothing THEN @ ELSE [@ EXCEPT !.status = "revoked"]]
  /\ Goes(r, "uncount")
  /\ UNCHANGED <<registered, package, bound, quota, begun, overlap, again, movedTo>>

\* A slip: the count of the package is left as it is.
DecrementBoundCountNot(p) == bound' = bound

\* The statement passes over a count of 0.
DecrementBoundCount(p) == bound' = [bound EXCEPT ![p] = IF @ > 0 THEN @ - 1 ELSE @]

UncountBinding(r) ==
  /\ request[r] # Nothing /\ request[r].step = "uncount"
  /\ DecrementBoundCount(request[r].from)
  /\ Ends(r)
  /\ UNCHANGED <<binding, registered, package, quota, begun, overlap, again, movedTo>>

\* A heartbeat that reports the version of another package; its quota is not asked for.
Migrate(r, d, p) ==
  /\ IsActive(d)
  /\ {p, binding[d].package} \subseteq package
  /\ p # binding[d].package
  /\ Begins(r, [step |-> "move", dev |-> d, from |-> binding[d].package, to |-> p])
  /\ movedTo' = movedTo \cup {p}
  /\ UNCHANGED again

UpdateBindingPackage(r) ==
  /\ request[r] # Nothing /\ request[r].step = "move"
  /\ binding' = [binding EXCEPT ![request[r].dev] =
                   IF @ = Nothing THEN @ ELSE [@ EXCEPT !.package = request[r].to]]
  /\ Goes(r, "leave")
  /\ UNCHANGED <<registered, package, bound, quota, begun, overlap, again, movedTo>>

LeavePackage(r) ==
  /\ request[r] # Nothing /\ request[r].step = "leave"
  /\ DecrementBoundCount(request[r].from)
  /\ Goes(r, "enter")
  /\ UNCHANGED <<binding, registered, package, quota, begun, overlap, again, movedTo>>

EnterPackage(r) ==
  /\ request[r] # Nothing /\ request[r].step = "enter"
  /\ bound' = [bound EXCEPT ![request[r].to] = @ + 1]
  /\ Ends(r)
  /\ UNCHANGED <<binding, registered, package, quota, begun, overlap, again, movedTo>>

\* Any statement may fail: what is left of the request is not done, but for a migration,
\* whose two counts are tried in turn whatever becomes of the first.
CallFails(r) ==
  /\ request[r] # Nothing
  /\ IF request[r].step = "leave" THEN Goes(r, "enter") ELSE Ends(r)
  /\ overlap' = "same"
  /\ UNCHANGED <<binding, registered, package, bound, quota, begun, again, movedTo>>

UpdateMaxDevices(p, q) ==
  /\ p \in package
  /\ quota' = [quota EXCEPT ![p] = q]
  /\ UNCHANGED <<binding, registered, package, bound, request, begun, overlap, again, movedTo>>

\* DeletePackage refuses while a binding is active, then deletes them all.
DeleteUnusedPackage(r, p) ==
  /\ p \in package
  /\ BoundTo(p) = {}
  /\ Begins(r, [step |-> "purge", dev |-> Nothing, from |-> p, to |-> Nothing])
  /\ UNCHANGED <<again, movedTo>>

DeleteByPackage(r) ==
  /\ request[r] # Nothing /\ request[r].step = "purge"
  /\ binding' = [d \in Devices |->
       IF binding[d] # Nothing /\ binding[d].package = request[r].from THEN Nothing
       ELSE binding[d]]
  /\ Goes(r, "remove")
  /\ UNCHANGED <<registered, package, bound, quota, begun, overlap, again, movedTo>>

RemovePackage(r) ==
  /\ request[r] # Nothing /\ request[r].step = "remove"
  /\ package' = package \ {request[r].from}
  /\ Ends(r)
  /\ UNCHANGED <<binding, registered, bound, quota, begun, overlap, again, movedTo>>

BindingNext ==
  \/ \E d \in Devices : RegisterDevice(d)
  \/ \E r \in Requests :
       \/ \E d \in Devices :
            \/ \E p \in Packages :
                 ActivateAuto(r, d, p) \/ BindManual(r, d, p) \/ Migrate(r, d, p)
            \/ UnbindDevice(r, d)
       \/ CreateBinding(r) \/ CreateBindingDuplicate(r) \/ CountBinding(r)
       \/ RevokeBinding(r) \/ UncountBinding(r)
       \/ UpdateBindingPackage(r) \/ LeavePackage(r) \/ EnterPackage(r)
       \/ CallFails(r)
       \/ \E p \in Packages : DeleteUnusedPackage(r, p)
       \/ DeleteByPackage(r) \/ RemovePackage(r)
  \/ \E p \in Packages, q \in Quotas : UpdateMaxDevices(p, q)

BindingSpec == BindingInit /\ [][BindingNext]_bindingVars

-----------------------------------------------------------------------------

\* Requests for different devices may overlap as they like: once they are through, the
\* count of every package is the number of its active bindings, unless a statement failed,
\* an unbinding was repeated or one device was dealt with twice at once
\* (device_binding_service.go:299: three statements, no transaction).
CountsMatch ==
  Pending = {} /\ overlap # "same" /\ ~again =>
    \A p \in package : bound[p] = Cardinality(BoundTo(p))

\* Requests that do not overlap keep a package within the largest quota it had, but for the
\* bindings that are migrated to it (device_binding_service.go:331 and 293).
QuotaKept ==
  overlap = "none" /\ ~again =>
    \A p \in package \ movedTo : \E q \in Quotas : Cardinality(BoundTo(p)) <= q

StatusOf(d) == IF binding[d] = Nothing THEN "none" ELSE binding[d].status

Life(d) == INSTANCE BindingLife WITH row <- StatusOf(d)

\* Whatever overlaps or fails, each device code is bound at most once and, once unbound,
\* stays so until its package is deleted: GetByDeviceCode passes over a revoked binding,
\* but the unique key refuses the next one (mysql_device_binding_repo.go:52,
\* migrations/000006_device_binding.up.sql:26).
ImplementsLife ==
  /\ \A d \in Devices : Life(d)!LifeInit
  /\ [][\A d \in Devices : [Life(d)!LifeNext]_(StatusOf(d))]_bindingVars

=============================================================================
