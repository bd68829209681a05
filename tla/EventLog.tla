------------------------------ MODULE EventLog ------------------------------
(***************************************************************************)
(* What the outbox and its workers promise the readers of the stream and   *)
(* the senders of messages: an append-only log that holds every event at   *)
(* most once, and for every message one final outcome, which is            *)
(* "published" only when the log holds its event for each of the targets.  *)
(* Workers, leases, retries, crashes and the dedupe hashes are gone.       *)
(***************************************************************************)
EXTENDS Naturals, Sequences

CONSTANTS Row, User

VARIABLES log,      \* the events, as pairs of a row and a target user
          outcome,  \* of each row
          targets   \* whom a published row was sent to

state == <<log, outcome, targets>>

Logged(r, u) == \E i \in 1..Len(log) : log[i] = <<r, u>>

Init ==
  /\ log = <<>>
  /\ outcome = [r \in Row |-> "none"]
  /\ targets = [r \in Row |-> {}]

\* An event is added; it may come after the outcome of its row, from an attempt
\* with other targets.
Add(r, u) ==
  /\ ~Logged(r, u)
  /\ log' = Append(log, <<r, u>>)
  /\ UNCHANGED <<outcome, targets>>

Settle(r, T) ==
  /\ outcome[r] = "none"
  /\ \A u \in T : Logged(r, u)
  /\ outcome' = [outcome EXCEPT ![r] = "published"]
  /\ targets' = [targets EXCEPT ![r] = T]
  /\ UNCHANGED log

GiveUp(r) ==
  /\ outcome[r] = "none"
  /\ outcome' = [outcome EXCEPT ![r] = "dead"]
  /\ UNCHANGED <<log, targets>>

Next ==
  \/ \E r \in Row, u \in User : Add(r, u)
  \/ \E r \in Row : (\E T \in SUBSET User : Settle(r, T)) \/ GiveUp(r)

Spec == Init /\ [][Next]_state
=============================================================================
