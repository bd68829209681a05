------------------------------ MODULE MCUnread ------------------------------
(* A small instance of Unread for TLC. *)
EXTENDS Unread, TLC

CONSTANTS a, b

Symmetry == Permutations(Request)
=============================================================================
