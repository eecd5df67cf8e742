------------------------ MODULE MCIdeAuthorization --------------------------
(* IdeAuthorization for TLC: slots are interchangeable, and so are logins. *)
EXTENDS IdeAuthorization, TLC

Symmetry == Permutations(Slots) \cup Permutations(Logins)
=============================================================================
