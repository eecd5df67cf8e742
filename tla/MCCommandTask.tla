---------------------------- MODULE MCCommandTask ----------------------------
(***************************************************************************)
(* Small instances of CommandTask: two users of whom one administers, a    *)
(* harmless and a dangerous command text, and two configurations of the    *)
(* approval policies.                                                      *)
(***************************************************************************)
EXTENDS CommandTask, TLC

CONSTANTS ops, lead, d1, d2, ls, rm

MCRisk == (ls :> 1) @@ (rm :> 3)

Ask(p, ds, e) == [payload |-> p, devices |-> ds, risk |-> 1, emergency |-> e]

\* L1 is automatic, L2 has no policy, L3 needs the lead or, barring separation of
\* duty, ops itself.
Strict ==
  <<[auto |-> TRUE, sod |-> FALSE, approvers |-> {}], NoPolicy,
    [auto |-> FALSE, sod |-> TRUE, approvers |-> {ops, lead}]>>

\* Everything goes to ops, and nothing is automatic.
Lax ==
  <<[auto |-> FALSE, sod |-> FALSE, approvers |-> {ops}], NoPolicy,
    [auto |-> FALSE, sod |-> FALSE, approvers |-> {ops}]>>

Slots == Permutations(Handlers)

SomeActive == {Devices, {d1}}
AllActive == {Devices}

BothTables == {Strict, Lax}
StrictOnly == {Strict}

BothDevices == {Ask(rm, <<d1, d2>>, FALSE), Ask(ls, <<d1>>, FALSE)}
Repeated    == {Ask(rm, <<d1, d1>>, FALSE)}
AllLists    == BothDevices \cup Repeated
OneDevice   == {Ask(rm, <<d1>>, FALSE), Ask(ls, <<d1>>, TRUE)}

=============================================================================
