------------------------------ MODULE MCOutbox ------------------------------
(* Small instances of Outbox for TLC. *)
EXTENDS Outbox, TLC

CONSTANTS r1, r2, A, w1, w2

\* One message.
One == r1 :> A

\* Two messages of one chat.
OneChat == r1 :> A @@ r2 :> A
=============================================================================
