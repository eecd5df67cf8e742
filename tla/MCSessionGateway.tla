-------------------------- MODULE MCSessionGateway --------------------------
(***************************************************************************)
(* Small instances of SessionGateway: every event is for the device d1.    *)
(***************************************************************************)
EXTENDS SessionGateway, TLC

CONSTANTS d1

MCTarget == [m \in Events |-> d1]

Processes == Permutations(Instances)

=============================================================================
