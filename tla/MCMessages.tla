----------------------------- MODULE MCMessages -----------------------------
(* A small instance of Messages for TLC: one user, whose requests overlap. *)
EXTENDS Messages

CONSTANTS m1, m2, u1

OneSender == [m \in Message |-> u1]

OneUploader == [x \in Media |-> u1]
=============================================================================
