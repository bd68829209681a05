------------------------------- MODULE Outbox -------------------------------
(***************************************************************************)
(* The transactional outbox and the message workers that drain it.         *)
(*                                                                         *)
(* API requests write a message and its message_outbox row in one          *)
(* transaction.  Message workers claim the head row of each chat under a   *)
(* lease, project it onto the chat and its unread counters, build one      *)
(* event per target user, publish the events to the Redis stream and mark  *)
(* the row.  Leases expire, workers crash, transactions and Redis calls    *)
(* fail with and without effect, and a worker whose lease has expired does *)
(* not know it.                                                            *)
(*                                                                         *)
(* Time is abstracted to what the claim query compares: a lease is fresh   *)
(* or expired, a retry is due or not.  A lock token is a number that no    *)
(* other claim uses.                                                       *)
(***************************************************************************)
EXTENDS Naturals, Sequences, FiniteSets

CONSTANTS Row,          \* outbox rows that requests may write
          Chat,         \* chats
          ChatOf,       \* chat_id of each row
          User,         \* users an event may be targeted at
          Worker,       \* message worker processes
          BatchSize,    \* MESSAGE_WORKER_BATCH_SIZE
          Concurrency,  \* MESSAGE_WORKER_CONCURRENCY
          MaxAttempts,  \* MESSAGE_WORKER_MAX_ATTEMPTS
          MaxFaults,    \* bound: crashes plus failed mark statements
          MaxStalls     \* bound: leases that expire under a live owner

ASSUME OutboxAssumption ==
  /\ ChatOf \in [Row -> Chat]
  /\ BatchSize \in Nat \ {0}
  /\ Concurrency \in Nat \ {0}
  /\ MaxAttempts \in Nat \ {0}
  /\ MaxFaults \in Nat
  /\ MaxStalls \in Nat

VARIABLES row,        \* the message_outbox table
          task,       \* per worker, the claimed records being processed
          stream,     \* the Redis stream events:messages, never trimmed here
          dedupe,     \* the publisher's Redis hashes of published events
          clock,      \* source of created_at
          nextToken,  \* source of lock tokens
          late,       \* history: <<r, q>>, r committed after a later row q was claimed
          faults,     \* crashes and failed mark statements so far
          stalls      \* leases that expired under a live owner so far

vars == <<row, task, stream, dedupe, clock, nextToken, late, faults, stalls>>

NoToken == 0

(***************************************************************************)
(* A row of message_outbox, of event message.new: the rows of edits and    *)
(* deletions take the same path but move no counters.  projections counts  *)
(* the projection transactions that committed (each moves the unread       *)
(* counters once); sentTo is the target set of the attempt that marked the *)
(* row published.                                                          *)
(***************************************************************************)
RowState ==
  [status      : {"absent", "writing", "aborted", "open", "published", "dead"},
   created     : Nat,
   available   : {"due", "later"},
   locked      : {"null", "fresh", "expired"},
   token       : Nat,
   attempt     : Nat,
   projected   : {"null", "set"},
   projections : Nat,
   sentTo      : SUBSET User]

AbsentRow ==
  [status |-> "absent", created |-> 0, available |-> "due", locked |-> "null",
   token |-> NoToken, attempt |-> 0, projected |-> "null", projections |-> 0,
   sentTo |-> {}]

(***************************************************************************)
(* One record of a claimed batch: processRecord's progress on it, the      *)
(* token and attempt count it was claimed with, the targets of the events  *)
(* it built and the ones not yet published.                                *)
(***************************************************************************)
TaskState ==
  [pc      : {"idle", "queued", "projecting", "building", "publishing", "failed"},
   token   : Nat,
   attempt : Nat,
   targets : SUBSET User,
   todo    : SUBSET User]

NoTask ==
  [pc |-> "idle", token |-> NoToken, attempt |-> 0, targets |-> {}, todo |-> {}]

TypeOK ==
  /\ row \in [Row -> RowState]
  /\ task \in [Worker -> [Row -> TaskState]]
  /\ stream \in Seq(Row \X User)
  /\ dedupe \in SUBSET (Row \X User)
  /\ clock \in Nat
  /\ nextToken \in Nat \ {0}
  /\ late \in SUBSET (Row \X Row)
  /\ faults \in 0..MaxFaults
  /\ stalls \in 0..MaxStalls

Init ==
  /\ row = [r \in Row |-> AbsentRow]
  /\ task = [w \in Worker |-> [r \in Row |-> NoTask]]
  /\ stream = <<>>
  /\ dedupe = {}
  /\ clock = 1
  /\ nextToken = 1
  /\ late = {}
  /\ faults = 0
  /\ stalls = 0

-----------------------------------------------------------------------------
(* API requests *)

\* r precedes q in the order of the claim query: same chat, smaller (created_at, id).
Earlier(r, q) ==
  /\ ChatOf[r] = ChatOf[q]
  /\ row[r].created < row[q].created

\* A request inserts message and outbox row; created_at is the process clock's
\* reading, the row is invisible until the transaction commits.
BeginWrite(r) ==
  /\ row[r].status = "absent"
  /\ row' = [row EXCEPT ![r] = [@ EXCEPT !.status = "writing", !.created = clock]]
  /\ clock' = clock + 1
  /\ UNCHANGED <<task, stream, dedupe, nextToken, late, faults, stalls>>

CommitWrite(r) ==
  /\ row[r].status = "writing"
  /\ row' = [row EXCEPT ![r] = [@ EXCEPT !.status = "open"]]
  /\ late' = late \cup {<<r, q>> : q \in {p \in Row : Earlier(r, p) /\ row[p].attempt > 0}}
  /\ UNCHANGED <<task, stream, dedupe, clock, nextToken, faults, stalls>>

AbortWrite(r) ==
  /\ row[r].status = "writing"
  /\ row' = [row EXCEPT ![r] = [@ EXCEPT !.status = "aborted"]]
  /\ UNCHANGED <<task, stream, dedupe, clock, nextToken, late, faults, stalls>>

-----------------------------------------------------------------------------
(* Claim *)

\* Mutant: an earlier row waiting for its retry no longer blocks the chat.
IsHeadIgnoringRetries(r) ==
  \A q \in Row : row[q].status = "open" /\ row[q].available = "due" => ~Earlier(q, r)

\* No unfinished earlier row of the chat: only the head of a chat is claimed.
IsHead(r) == \A q \in Row : row[q].status = "open" => ~Earlier(q, r)

\* Mutant: a leased row is never claimed again, expired or not.
EligibleUnlocked(r) ==
  /\ row[r].status = "open"
  /\ row[r].available = "due"
  /\ row[r].locked = "null"
  /\ IsHead(r)

Eligible(r) ==
  /\ row[r].status = "open"
  /\ row[r].available = "due"
  /\ row[r].locked \in {"null", "expired"}
  /\ IsHead(r)

Idle(w) == \A r \in Row : task[w][r].pc = "idle"

\* SKIP LOCKED may hide any eligible row that another transaction holds, so
\* a claim returns some nonempty set of eligible rows within the limit.
Claim(w, S) ==
  /\ Idle(w)
  /\ S # {}
  /\ \A r \in S : Eligible(r)
  /\ Cardinality(S) <= BatchSize
  /\ row' = [r \in Row |->
               IF r \in S
               THEN [row[r] EXCEPT !.locked = "fresh", !.token = nextToken, !.attempt = @ + 1]
               ELSE row[r]]
  /\ task' = [task EXCEPT ![w] =
               [r \in Row |->
                  IF r \in S
                  THEN [NoTask EXCEPT !.pc = "queued", !.token = nextToken,
                                      !.attempt = row[r].attempt + 1]
                  ELSE NoTask]]
  /\ nextToken' = nextToken + 1
  /\ UNCHANGED <<stream, dedupe, clock, late, faults, stalls>>

\* Claim finds nothing; Run waits for the next tick or wakeup.
IdlePoll(w) ==
  /\ Idle(w)
  /\ ~\E r \in Row : Eligible(r)
  /\ UNCHANGED vars

-----------------------------------------------------------------------------
(* processRecord *)

\* The WHERE clause shared by Project, MarkPublished and MarkFailed.
HoldsLease(w, r) ==
  /\ row[r].token = task[w][r].token
  /\ row[r].status # "published"

Goto(w, r, label) == task' = [task EXCEPT ![w][r] = [@ EXCEPT !.pc = label]]

Finish(w, r) == task' = [task EXCEPT ![w][r] = NoTask]

Running(w) == {r \in Row : task[w][r].pc \notin {"idle", "queued"}}

\* A goroutine gets a slot of the semaphore and Project selects the row by
\* id and lock token; the row is not locked by this read.
ProjectRead(w, r) ==
  /\ task[w][r].pc = "queued"
  /\ Cardinality(Running(w)) < Concurrency
  /\ \/ /\ HoldsLease(w, r)
        /\ Goto(w, r, IF row[r].projected = "set" THEN "building" ELSE "projecting")
     \/ Goto(w, r, "failed")  \* lease lost, or the transaction cannot read
  /\ UNCHANGED <<row, stream, dedupe, clock, nextToken, late, faults, stalls>>

\* The projection's updates and its commit.  projected_at is set by id alone.
CommitProjection(r) ==
  row' = [row EXCEPT ![r] = [@ EXCEPT !.projected = "set", !.projections = row[r].projections + 1]]

ProjectWrite(w, r) ==
  /\ task[w][r].pc = "projecting"
  /\ CommitProjection(r)
  /\ Goto(w, r, "building")
  /\ UNCHANGED <<stream, dedupe, clock, nextToken, late, faults, stalls>>

\* Mutant: an error of Project does not stop processRecord.
ProjectErrorIgnored(w, r) ==
  /\ task[w][r].pc = "projecting"
  /\ Goto(w, r, "building")
  /\ UNCHANGED <<row, stream, dedupe, clock, nextToken, late, faults, stalls>>

\* Project returns an error: rolled back, or committed without an answer.
ProjectError(w, r) ==
  /\ task[w][r].pc = "projecting"
  /\ CommitProjection(r) \/ UNCHANGED row
  /\ Goto(w, r, "failed")
  /\ UNCHANGED <<stream, dedupe, clock, nextToken, late, faults, stalls>>

\* BuildEvents reads the targets of this attempt: members, hides and blocks
\* change between attempts, so the set is arbitrary.
BuildEvents(w, r) ==
  /\ task[w][r].pc = "building"
  /\ \/ \E T \in SUBSET User :
          task' = [task EXCEPT ![w][r] = [@ EXCEPT !.pc = "publishing", !.targets = T, !.todo = T]]
     \/ Goto(w, r, "failed")
  /\ UNCHANGED <<row, stream, dedupe, clock, nextToken, late, faults, stalls>>

\* Mutant: the script forgets to record the event it has added.
XaddUnrecorded(r, u) ==
  IF <<r, u>> \in dedupe
  THEN UNCHANGED <<stream, dedupe>>
  ELSE stream' = Append(stream, <<r, u>>) /\ UNCHANGED dedupe

\* publishMessageEventScript: XADD unless the event is already recorded.
Xadd(r, u) ==
  IF <<r, u>> \in dedupe
  THEN UNCHANGED <<stream, dedupe>>
  ELSE /\ stream' = Append(stream, <<r, u>>)
       /\ dedupe' = dedupe \cup {<<r, u>>}

Publish(w, r, u) ==
  /\ task[w][r].pc = "publishing"
  /\ u \in task[w][r].todo
  /\ Xadd(r, u)
  /\ task' = [task EXCEPT ![w][r] = [@ EXCEPT !.todo = task[w][r].todo \ {u}]]
  /\ UNCHANGED <<row, clock, nextToken, late, faults, stalls>>

\* Publish returns an error: not executed, or executed without an answer.
PublishError(w, r, u) ==
  /\ task[w][r].pc = "publishing"
  /\ u \in task[w][r].todo
  /\ Xadd(r, u) \/ UNCHANGED <<stream, dedupe>>
  /\ Goto(w, r, "failed")
  /\ UNCHANGED <<row, clock, nextToken, late, faults, stalls>>

\* The row leaves its lease with the given changes, if the lease is still held;
\* otherwise ErrOutboxLeaseLost and the row is left alone.
ReleaseIfHeld(w, r, released) ==
  row' = IF HoldsLease(w, r)
         THEN [row EXCEPT ![r] = [released EXCEPT !.locked = "null", !.token = NoToken]]
         ELSE row

MarkPublished(w, r) ==
  /\ task[w][r].pc = "publishing"
  /\ task[w][r].todo = {}
  /\ ReleaseIfHeld(w, r, [row[r] EXCEPT !.status = "published", !.sentTo = task[w][r].targets])
  /\ Finish(w, r)
  /\ UNCHANGED <<stream, dedupe, clock, nextToken, late, faults, stalls>>

\* Mutant: a retry is recorded as a status no query knows.
MarkFailedStatus(w, r) ==
  /\ task[w][r].pc = "failed"
  /\ task[w][r].attempt < MaxAttempts
  /\ ReleaseIfHeld(w, r, [row[r] EXCEPT !.status = "failed", !.available = "later"])
  /\ Finish(w, r)
  /\ UNCHANGED <<stream, dedupe, clock, nextToken, late, faults, stalls>>

MarkFailed(w, r) ==
  /\ task[w][r].pc = "failed"
  /\ task[w][r].attempt < MaxAttempts
  /\ ReleaseIfHeld(w, r, [row[r] EXCEPT !.available = "later"])
  /\ Finish(w, r)
  /\ UNCHANGED <<stream, dedupe, clock, nextToken, late, faults, stalls>>

MarkDeadLetter(w, r) ==
  /\ task[w][r].pc = "failed"
  /\ task[w][r].attempt >= MaxAttempts
  /\ ReleaseIfHeld(w, r, [row[r] EXCEPT !.status = "dead"])
  /\ Finish(w, r)
  /\ UNCHANGED <<stream, dedupe, clock, nextToken, late, faults, stalls>>

\* The mark statement itself fails: the row stays leased until it expires.
MarkError(w, r) ==
  /\ \/ task[w][r].pc = "failed"
     \/ task[w][r].pc = "publishing" /\ task[w][r].todo = {}
  /\ faults < MaxFaults
  /\ faults' = faults + 1
  /\ Finish(w, r)
  /\ UNCHANGED <<row, stream, dedupe, clock, nextToken, late, stalls>>

-----------------------------------------------------------------------------
(* Crashes and time *)

\* The process dies; open transactions roll back, claimed records are forgotten.
Crash(w) ==
  /\ ~Idle(w)
  /\ faults < MaxFaults
  /\ faults' = faults + 1
  /\ task' = [task EXCEPT ![w] = [r \in Row |-> NoTask]]
  /\ UNCHANGED <<row, stream, dedupe, clock, nextToken, late, stalls>>

OwnerAlive(r) ==
  \E w \in Worker : task[w][r].pc # "idle" /\ task[w][r].token = row[r].token

CanExpire(r) ==
  /\ row[r].status = "open"
  /\ row[r].locked = "fresh"

\* The lease duration passes and the worker that claimed the row is gone.
LeaseExpires(r) ==
  /\ CanExpire(r)
  /\ ~OwnerAlive(r)
  /\ row' = [row EXCEPT ![r] = [@ EXCEPT !.locked = "expired"]]
  /\ UNCHANGED <<task, stream, dedupe, clock, nextToken, late, faults, stalls>>

\* The lease duration passes while the worker is still busy with the row.
LeaseExpiresUnderOwner(r) ==
  /\ CanExpire(r)
  /\ OwnerAlive(r)
  /\ stalls < MaxStalls
  /\ stalls' = stalls + 1
  /\ row' = [row EXCEPT ![r] = [@ EXCEPT !.locked = "expired"]]
  /\ UNCHANGED <<task, stream, dedupe, clock, nextToken, late, faults>>

\* available_at of a failed row is reached.
RetryDue(r) ==
  /\ row[r].status = "open"
  /\ row[r].available = "later"
  /\ row' = [row EXCEPT ![r] = [@ EXCEPT !.available = "due"]]
  /\ UNCHANGED <<task, stream, dedupe, clock, nextToken, late, faults, stalls>>

-----------------------------------------------------------------------------
ProcessRecord(w, r) ==
  \/ ProjectRead(w, r)
  \/ ProjectWrite(w, r)
  \/ ProjectError(w, r)
  \/ BuildEvents(w, r)
  \/ \E u \in User : Publish(w, r, u) \/ PublishError(w, r, u)
  \/ MarkPublished(w, r)
  \/ MarkFailed(w, r)
  \/ MarkDeadLetter(w, r)
  \/ MarkError(w, r)

Next ==
  \/ \E r \in Row : BeginWrite(r) \/ CommitWrite(r) \/ AbortWrite(r)
  \/ \E w \in Worker : \E S \in SUBSET Row : Claim(w, S)
  \/ \E w \in Worker : IdlePoll(w) \/ Crash(w)
  \/ \E w \in Worker, r \in Row : ProcessRecord(w, r)
  \/ \E r \in Row : LeaseExpires(r) \/ LeaseExpiresUnderOwner(r) \/ RetryDue(r)

Spec == Init /\ [][Next]_vars

\* Run polls forever, every goroutine of a batch runs on, and time passes.
Fairness ==
  /\ \A w \in Worker : WF_vars(\E S \in SUBSET Row : Claim(w, S))
  /\ \A w \in Worker, r \in Row : WF_vars(ProcessRecord(w, r))
  /\ \A r \in Row : WF_vars(LeaseExpires(r)) /\ WF_vars(RetryDue(r))

FairSpec == Spec /\ Fairness

-----------------------------------------------------------------------------
(* Properties *)

\* Redis sees every event of a row at most once, whatever mixture of retries,
\* takeovers and unanswered XADDs led to it (the script's dedupe hash).
NoDuplicateEvent ==
  \A i, j \in 1..Len(stream) : stream[i] = stream[j] => i = j

\* No client hears of a message before the chat metadata and the unread counters
\* include it: processRecord projects first, also after a takeover.
ProjectedBeforeSent ==
  \A i \in 1..Len(stream) : row[stream[i][1]].projected = "set"

\* A row marked published has an event on the stream for every target of the
\* attempt that marked it, even if an earlier attempt died in the middle.
PublishedIsDelivered ==
  \A r \in Row : row[r].status = "published" =>
    \A u \in row[r].sentTo : \E i \in 1..Len(stream) : stream[i] = <<r, u>>

\* Events of one chat reach a user in created_at order: if the attempt that
\* published r had target u, r's event for u precedes that of every later row
\* q, unless r was committed after q had been claimed.  Stale workers that
\* publish after losing the lease do not break this.
ChatOrder ==
  \A r, q \in Row : \A i, j \in 1..Len(stream) :
    /\ Earlier(r, q)
    /\ <<r, q>> \notin late
    /\ row[r].status = "published"
    /\ stream[i][1] = r
    /\ stream[j][1] = q
    /\ stream[i][2] = stream[j][2]
    /\ stream[i][2] \in row[r].sentTo
    => i < j

\* Two rows of a chat are never in flight together, unless the earlier one was
\* committed late: the claim query's NOT EXISTS holds until the row is marked.
HeadOfLine ==
  \A r, q \in Row :
    Earlier(r, q) /\ row[r].status = "open" /\ row[q].attempt > 0 => <<r, q>> \in late

\* A row's lease has one owner: no two workers pass the lock token check.
SingleOwner ==
  \A r \in Row : \A v, w \in Worker :
    /\ task[v][r].pc # "idle" /\ HoldsLease(v, r)
    /\ task[w][r].pc # "idle" /\ HoldsLease(w, r)
    => v = w

\* Unread counters move exactly once per message.
ProjectedOnce ==
  \A r \in Row : row[r].projections <= 1

\* A published or dead row keeps its outcome: no stale worker reopens it, gives
\* it another outcome, or changes whom it was sent to.
SettledIsFinal ==
  [][\A r \in Row : row[r].status \in {"published", "dead"} =>
       /\ row'[r].status = row[r].status
       /\ row'[r].sentTo = row[r].sentTo
       /\ row'[r].attempt = row[r].attempt]_vars

\* Every committed row is eventually published or dead-lettered, through any
\* bounded number of crashes and stalls and behind any number of failing
\* predecessors in its chat.
EventuallySettled ==
  \A r \in Row : []<>(row[r].status # "open")

-----------------------------------------------------------------------------
(* The log the outbox implements *)

OutcomeOf(r) == IF row[r].status \in {"published", "dead"} THEN row[r].status ELSE "none"

Log == INSTANCE EventLog
         WITH log <- stream,
              outcome <- [r \in Row |-> OutcomeOf(r)],
              targets <- [r \in Row |-> row[r].sentTo]

\* The outbox with all its workers, leases, retries and crashes implements the
\* abstract log: every step adds one new event, gives one row its final outcome,
\* or changes nothing a reader of the stream can see.
ImplementsEventLog == Log!Spec

-----------------------------------------------------------------------------
(* The inductive invariant behind the safety properties *)

\* The stream and the dedupe hashes tell the same story, each event once.
StreamInv ==
  /\ \A i \in 1..Len(stream) : stream[i] \in dedupe
  /\ \A e \in dedupe : \E i \in 1..Len(stream) : stream[i] = e
  /\ NoDuplicateEvent

\* What a claimed record implies about its row, also when its lease is lost.
TaskInv ==
  \A w \in Worker, r \in Row : task[w][r].pc # "idle" =>
    /\ task[w][r].token \in 1..(nextToken - 1)
    /\ row[r].attempt > 0
    /\ task[w][r].pc \in {"building", "publishing"} => row[r].projected = "set"
    /\ task[w][r].pc = "publishing" =>
         \A u \in task[w][r].targets \ task[w][r].todo : <<r, u>> \in dedupe

\* Different claims of a row have different tokens.
TokenInv ==
  /\ \A r \in Row : row[r].token < nextToken
  /\ \A r \in Row : \A v, w \in Worker :
       /\ task[v][r].pc # "idle"
       /\ task[w][r].pc # "idle"
       /\ task[v][r].token = task[w][r].token
       => v = w

\* What the status of a row implies about its other fields.
RowInv ==
  \A r \in Row :
    /\ row[r].status = "absent" => row[r].created = 0
    /\ row[r].status \in {"absent", "writing", "aborted"} => row[r].attempt = 0
    /\ row[r].status \in {"published", "dead"} => row[r].token = NoToken
    /\ row[r].status = "published" => \A u \in row[r].sentTo : <<r, u>> \in dedupe
    /\ \A u \in User : <<r, u>> \in dedupe => row[r].projected = "set" /\ row[r].attempt > 0

\* The part of the invariant that TLC checks on its own.
DeliveryInv == StreamInv /\ TaskInv /\ TokenInv /\ RowInv

=============================================================================
