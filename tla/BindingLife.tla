----------------------------- MODULE BindingLife -----------------------------
(***************************************************************************)
(* What the platform promises about the binding of one device code: it is  *)
(* bound at most once and, once unbound, stays so until its package is     *)
(* deleted.  DeviceBinding implements it for every device; Activation      *)
(* builds on it.                                                           *)
(***************************************************************************)
VARIABLE row   \* "none", "active" or "revoked"

LifeInit == row = "none"

Bind   == row = "none" /\ row' = "active"
Unbind == row # "none" /\ row' = "revoked"
Purge  == row # "none" /\ row' = "none"

LifeNext == Bind \/ Unbind \/ Purge

LifeSpec == LifeInit /\ [][LifeNext]_row

=============================================================================
