------------------------------ MODULE MCGroups ------------------------------
(* Small instances of Groups for TLC. *)
EXTENDS Groups, TLC

Symmetry == Permutations(Request)

\* All users but the system administrators are alike.  The one that CHOOSE picks
\* stands in idle requests only, whose actor nobody reads.
UserSymmetry == Permutations(Request) \cup Permutations(User \ SysAdmin)
=============================================================================
