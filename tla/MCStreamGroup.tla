--------------------------- MODULE MCStreamGroup ---------------------------
(* A small instance of StreamGroup for TLC. *)
EXTENDS StreamGroup, TLC

CONSTANTS p1, p2, q1, i1, i2

\* A gateway, its restart, and a gateway of another instance.
Restarted == p1 :> i1 @@ p2 :> i1 @@ q1 :> i2
=============================================================================
