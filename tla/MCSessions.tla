----------------------------- MODULE MCSessions -----------------------------
(* Small instances of Sessions for TLC. *)
EXTENDS Sessions, TLC

\* Requests are interchangeable, and so are processes.
Symmetry == Permutations(Request) \cup Permutations(Process)
=============================================================================
