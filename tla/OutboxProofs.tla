---------------------------- MODULE OutboxProofs ----------------------------
(***************************************************************************)
(* Theorems about Outbox, for every set of rows, chats, users and workers: *)
(* its types; the delivery guarantees (events reach the stream once, after *)
(* the projection, in the order of the chat, and none is missing when a    *)
(* row is marked published); that projection is exactly-once while no      *)
(* lease expires under its owner; and that Outbox implements EventLog.     *)
(***************************************************************************)
EXTENDS Outbox, TLAPS

-----------------------------------------------------------------------------
(* Type correctness *)

\* Updating one row or one task keeps the type of the table.
LEMMA RowUpdate ==
  ASSUME NEW f \in [Row -> RowState], NEW r \in Row, NEW y \in RowState
  PROVE  [f EXCEPT ![r] = y] \in [Row -> RowState]
  OBVIOUS

LEMMA TaskUpdate ==
  ASSUME NEW f \in [Worker -> [Row -> TaskState]],
         NEW w \in Worker, NEW r \in Row, NEW y \in TaskState
  PROVE  [f EXCEPT ![w][r] = y] \in [Worker -> [Row -> TaskState]]
  OBVIOUS

\* What the actions write into a row, and into a task, is again one.
LEMMA RowWrites ==
  ASSUME NEW x \in RowState, NEW n \in Nat, NEW m \in Nat, NEW T \in SUBSET User
  PROVE  /\ [x EXCEPT !.status = "writing", !.created = n] \in RowState
         /\ [x EXCEPT !.status = "open"] \in RowState
         /\ [x EXCEPT !.status = "aborted"] \in RowState
         /\ [x EXCEPT !.status = "dead"] \in RowState
         /\ [x EXCEPT !.status = "published", !.sentTo = T] \in RowState
         /\ [x EXCEPT !.available = "due"] \in RowState
         /\ [x EXCEPT !.available = "later"] \in RowState
         /\ [x EXCEPT !.locked = "expired"] \in RowState
         /\ [x EXCEPT !.locked = "null", !.token = NoToken] \in RowState
         /\ [x EXCEPT !.locked = "fresh", !.token = m, !.attempt = n] \in RowState
         /\ [x EXCEPT !.projected = "set", !.projections = n] \in RowState
<1>1. [x EXCEPT !.status = "writing", !.created = n] \in RowState
  BY DEF RowState
<1>2. /\ [x EXCEPT !.status = "open"] \in RowState
      /\ [x EXCEPT !.status = "aborted"] \in RowState
      /\ [x EXCEPT !.status = "dead"] \in RowState
  BY DEF RowState
<1>3. [x EXCEPT !.status = "published", !.sentTo = T] \in RowState
  BY DEF RowState
<1>4. /\ [x EXCEPT !.available = "due"] \in RowState
      /\ [x EXCEPT !.available = "later"] \in RowState
  BY DEF RowState
<1>5. [x EXCEPT !.locked = "expired"] \in RowState
  BY DEF RowState
<1>6. [x EXCEPT !.locked = "null", !.token = NoToken] \in RowState
  BY DEF RowState, NoToken
<1>7. [x EXCEPT !.locked = "fresh", !.token = m, !.attempt = n] \in RowState
  BY DEF RowState
<1>8. [x EXCEPT !.projected = "set", !.projections = n] \in RowState
  BY DEF RowState
<1> QED BY <1>1, <1>2, <1>3, <1>4, <1>5, <1>6, <1>7, <1>8

LEMMA RowReads ==
  ASSUME TypeOK, NEW r \in Row
  PROVE  /\ row[r] \in RowState
         /\ row[r].attempt + 1 \in Nat
         /\ row[r].projections + 1 \in Nat
<1>1. row[r] \in RowState
  BY DEF TypeOK
<1> QED BY <1>1 DEF RowState

LEMMA TaskWrites ==
  ASSUME NEW x \in TaskState, NEW n \in Nat, NEW m \in Nat, NEW T \in SUBSET User,
         NEW label \in {"idle", "queued", "projecting", "building", "publishing", "failed"}
  PROVE  /\ NoTask \in TaskState
         /\ [NoTask EXCEPT !.pc = "queued", !.token = m, !.attempt = n] \in TaskState
         /\ [x EXCEPT !.pc = label] \in TaskState
         /\ [x EXCEPT !.pc = "publishing", !.targets = T, !.todo = T] \in TaskState
         /\ [x EXCEPT !.todo = T] \in TaskState
<1>1. NoTask \in TaskState
  BY DEF NoTask, TaskState, NoToken
<1>2. [NoTask EXCEPT !.pc = "queued", !.token = m, !.attempt = n] \in TaskState
  BY DEF NoTask, TaskState, NoToken
<1>3. [x EXCEPT !.pc = label] \in TaskState
  BY DEF TaskState
<1>4. [x EXCEPT !.pc = "publishing", !.targets = T, !.todo = T] \in TaskState
  BY DEF TaskState
<1>5. [x EXCEPT !.todo = T] \in TaskState
  BY DEF TaskState
<1> QED BY <1>1, <1>2, <1>3, <1>4, <1>5

LEMMA TaskReads ==
  ASSUME TypeOK, NEW w \in Worker, NEW r \in Row
  PROVE  /\ task[w][r] \in TaskState
         /\ task[w][r].targets \in SUBSET User
         /\ task[w][r].todo \in SUBSET User
<1>1. task[w][r] \in TaskState
  BY DEF TypeOK
<1> QED BY <1>1 DEF TaskState

LEMMA NoTaskType == NoTask \in TaskState
  BY DEF NoTask, TaskState, NoToken

LEMMA InitType == Init => TypeOK
<1> SUFFICES ASSUME Init PROVE TypeOK
  OBVIOUS
<1>1. AbsentRow \in RowState
  BY DEF AbsentRow, RowState, NoToken
<1>2. stream \in Seq(Row \X User)
  BY DEF Init
<1> QED
  BY <1>1, <1>2, NoTaskType, OutboxAssumption DEF Init, TypeOK

\* Goto and Finish keep the shape of the task table.
LEMMA GotoType ==
  ASSUME TypeOK, NEW w \in Worker, NEW r \in Row,
         NEW label \in {"idle", "queued", "projecting", "building", "publishing", "failed"},
         Goto(w, r, label)
  PROVE  task' \in [Worker -> [Row -> TaskState]]
<1>1. [task[w][r] EXCEPT !.pc = label] \in TaskState
  BY TaskReads, TaskWrites
<1> QED BY <1>1, TaskUpdate DEF TypeOK, Goto

LEMMA FinishType ==
  ASSUME TypeOK, NEW w \in Worker, NEW r \in Row, Finish(w, r)
  PROVE  task' \in [Worker -> [Row -> TaskState]]
  BY NoTaskType, TaskUpdate DEF TypeOK, Finish

LEMMA XaddType ==
  ASSUME TypeOK, NEW r \in Row, NEW u \in User, Xadd(r, u)
  PROVE  /\ stream' \in Seq(Row \X User)
         /\ dedupe' \in SUBSET (Row \X User)
<1>1. Append(stream, <<r, u>>) \in Seq(Row \X User)
  BY DEF TypeOK
<1>2. CASE <<r, u>> \in dedupe
  BY <1>2 DEF TypeOK, Xadd
<1>3. CASE <<r, u>> \notin dedupe
  <2>1. dedupe' \in SUBSET (Row \X User)
    BY <1>3 DEF TypeOK, Xadd
  <2> QED BY <1>1, <1>3, <2>1 DEF Xadd
<1> QED BY <1>2, <1>3

LEMMA ReleaseType ==
  ASSUME TypeOK, NEW w \in Worker, NEW r \in Row, NEW released \in RowState,
         ReleaseIfHeld(w, r, released)
  PROVE  row' \in [Row -> RowState]
<1>1. [released EXCEPT !.locked = "null", !.token = NoToken] \in RowState
  BY RowWrites
<1> QED BY <1>1, RowUpdate DEF TypeOK, ReleaseIfHeld

LEMMA CommitProjectionType ==
  ASSUME TypeOK, NEW r \in Row, CommitProjection(r)
  PROVE  row' \in [Row -> RowState]
<1> DEFINE n == row[r].projections + 1
<1>1. [row[r] EXCEPT !.projected = "set", !.projections = n] \in RowState
  BY RowReads, RowWrites
<1>2. row' = [row EXCEPT ![r] = [row[r] EXCEPT !.projected = "set", !.projections = n]]
  BY DEF CommitProjection
<1> QED BY <1>1, <1>2, RowUpdate DEF TypeOK

LEMMA ProcessRecordType ==
  ASSUME TypeOK, NEW w \in Worker, NEW r \in Row, ProcessRecord(w, r)
  PROVE  TypeOK'
<1>1. CASE ProjectRead(w, r)
  <2>1. task' \in [Worker -> [Row -> TaskState]]
    BY <1>1, GotoType DEF ProjectRead
  <2> QED BY <1>1, <2>1 DEF ProjectRead, TypeOK
<1>2. CASE ProjectWrite(w, r)
  <2>1. task' \in [Worker -> [Row -> TaskState]]
    BY <1>2, GotoType DEF ProjectWrite
  <2> QED BY <1>2, <2>1, CommitProjectionType DEF ProjectWrite, TypeOK
<1>3. CASE ProjectError(w, r)
  <2>1. task' \in [Worker -> [Row -> TaskState]]
    BY <1>3, GotoType DEF ProjectError
  <2>2. row' \in [Row -> RowState]
    BY <1>3, CommitProjectionType DEF ProjectError, TypeOK
  <2> QED BY <1>3, <2>1, <2>2 DEF ProjectError, TypeOK
<1>4. CASE BuildEvents(w, r)
  <2>1. ASSUME NEW T \in SUBSET User
        PROVE  [task[w][r] EXCEPT !.pc = "publishing", !.targets = T, !.todo = T] \in TaskState
    BY TaskReads, TaskWrites
  <2>2. task' \in [Worker -> [Row -> TaskState]]
    <3>1. CASE Goto(w, r, "failed")
      BY <3>1, GotoType
    <3>2. CASE ~Goto(w, r, "failed")
      <4>1. PICK T \in SUBSET User :
              task' = [task EXCEPT ![w][r] =
                         [@ EXCEPT !.pc = "publishing", !.targets = T, !.todo = T]]
        BY <1>4, <3>2 DEF BuildEvents
      <4> QED BY <2>1, <4>1, TaskUpdate DEF TypeOK
    <3> QED BY <3>1, <3>2
  <2> QED BY <1>4, <2>2 DEF BuildEvents, TypeOK
<1>5. ASSUME NEW u \in User, Publish(w, r, u) PROVE TypeOK'
  <2> DEFINE T == task[w][r].todo \ {u}
  <2>1. T \in SUBSET User
    BY TaskReads
  <2>2. [task[w][r] EXCEPT !.todo = T] \in TaskState
    BY <2>1, TaskReads, TaskWrites
  <2>3. task' = [task EXCEPT ![w][r] = [task[w][r] EXCEPT !.todo = T]]
    BY <1>5 DEF Publish
  <2>4. task' \in [Worker -> [Row -> TaskState]]
    BY <2>2, <2>3, TaskUpdate DEF TypeOK
  <2> QED BY <1>5, <2>4, XaddType DEF Publish, TypeOK
<1>6. ASSUME NEW u \in User, PublishError(w, r, u) PROVE TypeOK'
  <2>1. stream' \in Seq(Row \X User) /\ dedupe' \in SUBSET (Row \X User)
    BY <1>6, XaddType DEF PublishError, TypeOK
  <2>2. task' \in [Worker -> [Row -> TaskState]]
    BY <1>6, GotoType DEF PublishError
  <2> QED BY <1>6, <2>1, <2>2 DEF PublishError, TypeOK
<1>7. CASE MarkPublished(w, r)
  <2>1. [row[r] EXCEPT !.status = "published", !.sentTo = task[w][r].targets] \in RowState
    BY RowReads, RowWrites, TaskReads
  <2> QED BY <1>7, <2>1, ReleaseType, FinishType DEF MarkPublished, TypeOK
<1>8. CASE MarkFailed(w, r)
  <2>1. [row[r] EXCEPT !.available = "later"] \in RowState
    BY RowReads, RowWrites
  <2> QED BY <1>8, <2>1, ReleaseType, FinishType DEF MarkFailed, TypeOK
<1>9. CASE MarkDeadLetter(w, r)
  <2>1. [row[r] EXCEPT !.status = "dead"] \in RowState
    BY RowReads, RowWrites
  <2> QED BY <1>9, <2>1, ReleaseType, FinishType DEF MarkDeadLetter, TypeOK
<1>10. CASE MarkError(w, r)
  BY <1>10, FinishType, OutboxAssumption DEF MarkError, TypeOK
<1> QED
  BY <1>1, <1>2, <1>3, <1>4, <1>5, <1>6, <1>7, <1>8, <1>9, <1>10 DEF ProcessRecord

LEMMA StepType == TypeOK /\ [Next]_vars => TypeOK'
<1> SUFFICES ASSUME TypeOK, [Next]_vars PROVE TypeOK'
  OBVIOUS
<1>1. ASSUME NEW r \in Row, BeginWrite(r) PROVE TypeOK'
  <2>1. [row[r] EXCEPT !.status = "writing", !.created = clock] \in RowState
    BY RowReads, RowWrites DEF TypeOK
  <2> QED BY <1>1, <2>1, RowUpdate DEF BeginWrite, TypeOK
<1>2. ASSUME NEW r \in Row, CommitWrite(r) PROVE TypeOK'
  <2>1. [row[r] EXCEPT !.status = "open"] \in RowState
    BY RowReads, RowWrites
  <2>2. late' \in SUBSET (Row \X Row)
    BY <1>2 DEF CommitWrite, TypeOK
  <2> QED BY <1>2, <2>1, <2>2, RowUpdate DEF CommitWrite, TypeOK
<1>3. ASSUME NEW r \in Row, AbortWrite(r) PROVE TypeOK'
  <2>1. [row[r] EXCEPT !.status = "aborted"] \in RowState
    BY RowReads, RowWrites
  <2> QED BY <1>3, <2>1, RowUpdate DEF AbortWrite, TypeOK
<1>4. ASSUME NEW w \in Worker, NEW S \in SUBSET Row, Claim(w, S) PROVE TypeOK'
  <2>1. ASSUME NEW r \in Row
        PROVE  /\ [row[r] EXCEPT !.locked = "fresh", !.token = nextToken, !.attempt = @ + 1] \in RowState
               /\ row[r].attempt + 1 \in Nat
    BY <2>1, RowReads, RowWrites DEF TypeOK
  <2>2. row' \in [Row -> RowState]
    BY <1>4, <2>1 DEF Claim, TypeOK
  <2>3. ASSUME NEW n \in Nat
        PROVE  [NoTask EXCEPT !.pc = "queued", !.token = nextToken, !.attempt = n] \in TaskState
    BY <2>3, NoTaskType, TaskWrites DEF TypeOK
  <2>4. task' \in [Worker -> [Row -> TaskState]]
    BY <1>4, <2>1, <2>3, NoTaskType DEF Claim, TypeOK
  <2>5. nextToken' \in Nat \ {0}
    <3>1. nextToken' = nextToken + 1
      BY <1>4 DEF Claim
    <3>2. nextToken \in Nat \ {0}
      BY DEF TypeOK
    <3> QED BY <3>1, <3>2
  <2> QED BY <1>4, <2>2, <2>4, <2>5 DEF Claim, TypeOK
<1>5. ASSUME NEW w \in Worker, IdlePoll(w) PROVE TypeOK'
  BY <1>5 DEF IdlePoll, vars, TypeOK
<1>6. ASSUME NEW w \in Worker, Crash(w) PROVE TypeOK'
  <2>1. task' \in [Worker -> [Row -> TaskState]]
    BY <1>6, NoTaskType DEF Crash, TypeOK
  <2> QED BY <1>6, <2>1, OutboxAssumption DEF Crash, TypeOK
<1>7. ASSUME NEW r \in Row, LeaseExpires(r) PROVE TypeOK'
  <2>1. [row[r] EXCEPT !.locked = "expired"] \in RowState
    BY RowReads, RowWrites
  <2> QED BY <1>7, <2>1, RowUpdate DEF LeaseExpires, TypeOK
<1>8. ASSUME NEW r \in Row, LeaseExpiresUnderOwner(r) PROVE TypeOK'
  <2>1. [row[r] EXCEPT !.locked = "expired"] \in RowState
    BY RowReads, RowWrites
  <2>2. row' \in [Row -> RowState]
    BY <1>8, <2>1, RowUpdate DEF LeaseExpiresUnderOwner, TypeOK
  <2> QED BY <1>8, <2>2, OutboxAssumption DEF LeaseExpiresUnderOwner, TypeOK
<1>9. ASSUME NEW r \in Row, RetryDue(r) PROVE TypeOK'
  <2>1. [row[r] EXCEPT !.available = "due"] \in RowState
    BY RowReads, RowWrites
  <2> QED BY <1>9, <2>1, RowUpdate DEF RetryDue, TypeOK
<1>10. CASE UNCHANGED vars
  BY <1>10 DEF vars, TypeOK
<1> QED
  BY <1>1, <1>2, <1>3, <1>4, <1>5, <1>6, <1>7, <1>8, <1>9, <1>10, ProcessRecordType DEF Next

\* The variables of Outbox keep their types: statuses, labels and tokens stay in
\* the sets the tables declare, counters stay within their bounds.
THEOREM TypeCorrect == Spec => []TypeOK
  BY InitType, StepType, PTL DEF Spec

-----------------------------------------------------------------------------
(* Delivery guarantees *)

IInv == TypeOK /\ DeliveryInv /\ HeadOfLine /\ ChatOrder

-----------------------------------------------------------------------------
(* Reading updated tables *)

LEMMA RowLookup ==
  ASSUME TypeOK, NEW r \in Row, NEW y, row' = [row EXCEPT ![r] = y]
  PROVE  row'[r] = y /\ \A x \in Row : x # r => row'[x] = row[x]
  BY DEF TypeOK

-----------------------------------------------------------------------------
(* Steps that leave the stream and the outcome of every row alone *)

\* A step keeps the invariant if it changes at most leases, retry times, the
\* projection mark and the progress of tasks, and lets no task build events for
\* an unprojected row.
LEMMA QuietStep ==
  ASSUME IInv, TypeOK',
         \A x \in Row :
           /\ row'[x].status = row[x].status
           /\ row'[x].created = row[x].created
           /\ row'[x].attempt = row[x].attempt
           /\ row'[x].sentTo = row[x].sentTo
           /\ row'[x].token \in {row[x].token, NoToken}
           /\ row[x].projected = "set" => row'[x].projected = "set",
         \A w \in Worker, x \in Row : task'[w][x].pc # "idle" =>
           /\ task[w][x].pc # "idle"
           /\ task'[w][x].token = task[w][x].token
           /\ task'[w][x].pc \in {"building", "publishing"} => row'[x].projected = "set"
           /\ task'[w][x].pc = "publishing" =>
                \A u \in task'[w][x].targets \ task'[w][x].todo : <<x, u>> \in dedupe,
         UNCHANGED <<stream, dedupe, nextToken, late>>
  PROVE  IInv'
<1>1. StreamInv'
  BY DEF IInv, DeliveryInv, StreamInv, NoDuplicateEvent
<1>2. TaskInv'
  BY DEF IInv, DeliveryInv, TaskInv
<1>3. TokenInv'
  <2>1. 0 < nextToken
    BY DEF IInv, TypeOK
  <2>2. \A r \in Row : row'[r].token < nextToken'
    BY <2>1 DEF IInv, DeliveryInv, TokenInv, NoToken
  <2> QED BY <2>2 DEF IInv, DeliveryInv, TokenInv
<1>4. RowInv'
  BY DEF IInv, DeliveryInv, RowInv, NoToken
<1>5. HeadOfLine'
  BY DEF IInv, HeadOfLine, Earlier
<1>6. ChatOrder'
  <2>1. \A r, q \in Row : Earlier(r, q)' = Earlier(r, q)
    BY DEF Earlier
  <2> QED BY <2>1 DEF IInv, ChatOrder
<1> QED BY <1>1, <1>2, <1>3, <1>4, <1>5, <1>6 DEF IInv, DeliveryInv

-----------------------------------------------------------------------------
(* The quiet actions *)

\* What CommitProjection and ReleaseIfHeld leave alone.
LEMMA CommitProjectionFields ==
  ASSUME TypeOK, NEW r \in Row, CommitProjection(r)
  PROVE  /\ row'[r].projected = "set"
         /\ \A x \in Row :
              /\ row'[x].status = row[x].status
              /\ row'[x].created = row[x].created
              /\ row'[x].attempt = row[x].attempt
              /\ row'[x].sentTo = row[x].sentTo
              /\ row'[x].token = row[x].token
              /\ row[x].projected = "set" => row'[x].projected = "set"
<1> DEFINE y == [row[r] EXCEPT !.projected = "set", !.projections = row[r].projections + 1]
<1>1. row' = [row EXCEPT ![r] = y]
  BY DEF CommitProjection
<1>2. row'[r] = y /\ \A x \in Row : x # r => row'[x] = row[x]
  BY <1>1, RowLookup
<1>3. row[r] \in RowState
  BY RowReads
<1>4. /\ y.projected = "set" /\ y.status = row[r].status /\ y.created = row[r].created
      /\ y.attempt = row[r].attempt /\ y.sentTo = row[r].sentTo /\ y.token = row[r].token
  BY <1>3 DEF RowState
<1> QED BY <1>2, <1>4

LEMMA GotoFields ==
  ASSUME TypeOK, NEW w \in Worker, NEW r \in Row, NEW label, Goto(w, r, label)
  PROVE  /\ task'[w][r].pc = label
         /\ task'[w][r].token = task[w][r].token
         /\ task'[w][r].targets = task[w][r].targets
         /\ task'[w][r].todo = task[w][r].todo
         /\ \A v \in Worker, x \in Row : v # w \/ x # r => task'[v][x] = task[v][x]
<1> DEFINE y == [task[w][r] EXCEPT !.pc = label]
<1>1. task' = [task EXCEPT ![w][r] = y]
  BY DEF Goto
<1>2. task[w][r] \in TaskState
  BY TaskReads
<1>3. y.pc = label /\ y.token = task[w][r].token /\ y.targets = task[w][r].targets /\ y.todo = task[w][r].todo
  BY <1>2 DEF TaskState
<1> HIDE DEF y
<1>4. /\ task'[w][r] = y
      /\ \A v \in Worker, x \in Row : v # w \/ x # r => task'[v][x] = task[v][x]
  BY <1>1 DEF TypeOK
<1> QED BY <1>3, <1>4

LEMMA FinishFields ==
  ASSUME TypeOK, NEW w \in Worker, NEW r \in Row, Finish(w, r)
  PROVE  /\ task'[w][r].pc = "idle"
         /\ \A v \in Worker, x \in Row : v # w \/ x # r => task'[v][x] = task[v][x]
<1>1. task' = [task EXCEPT ![w][r] = NoTask]
  BY DEF Finish
<1>2. /\ task'[w][r] = NoTask
      /\ \A v \in Worker, x \in Row : v # w \/ x # r => task'[v][x] = task[v][x]
  BY <1>1 DEF TypeOK
<1> QED BY <1>2 DEF NoTask

LEMMA ProjectReadSafe ==
  ASSUME IInv, TypeOK', NEW w \in Worker, NEW r \in Row, ProjectRead(w, r)
  PROVE  IInv'
<1>1. TypeOK
  BY DEF IInv
<1>2. PICK label : /\ label \in {"building", "projecting", "failed"}
                   /\ Goto(w, r, label)
                   /\ label = "building" => row[r].projected = "set"
  <2>1. CASE Goto(w, r, "failed")
    BY <2>1
  <2>2. CASE ~Goto(w, r, "failed")
    <3>1. Goto(w, r, IF row[r].projected = "set" THEN "building" ELSE "projecting")
      BY <2>2 DEF ProjectRead
    <3>2. CASE row[r].projected = "set"
      BY <3>1, <3>2
    <3>3. CASE row[r].projected # "set"
      BY <3>1, <3>3
    <3> QED BY <3>2, <3>3
  <2> QED BY <2>1, <2>2
<1>3. UNCHANGED <<row, stream, dedupe, nextToken, late>> /\ task[w][r].pc = "queued"
  BY DEF ProjectRead
<1>4. /\ task'[w][r].pc = label
      /\ task'[w][r].token = task[w][r].token
      /\ \A v \in Worker, x \in Row : v # w \/ x # r => task'[v][x] = task[v][x]
  BY <1>1, <1>2, GotoFields
<1>5. TaskInv
  BY DEF IInv, DeliveryInv
<1> QED BY <1>2, <1>3, <1>4, <1>5, QuietStep DEF TaskInv

LEMMA ProjectWriteSafe ==
  ASSUME IInv, TypeOK', NEW w \in Worker, NEW r \in Row, ProjectWrite(w, r)
  PROVE  IInv'
<1>1. TypeOK /\ TaskInv
  BY DEF IInv, DeliveryInv
<1>2. /\ task[w][r].pc = "projecting"
      /\ CommitProjection(r)
      /\ Goto(w, r, "building")
      /\ UNCHANGED <<stream, dedupe, nextToken, late>>
  BY DEF ProjectWrite
<1>3. /\ row'[r].projected = "set"
      /\ \A x \in Row :
              /\ row'[x].status = row[x].status
              /\ row'[x].created = row[x].created
              /\ row'[x].attempt = row[x].attempt
              /\ row'[x].sentTo = row[x].sentTo
              /\ row'[x].token = row[x].token
              /\ row[x].projected = "set" => row'[x].projected = "set"
  BY <1>1, <1>2, CommitProjectionFields
<1>4. /\ task'[w][r].pc = "building"
      /\ task'[w][r].token = task[w][r].token
      /\ \A v \in Worker, x \in Row : v # w \/ x # r => task'[v][x] = task[v][x]
  BY <1>1, <1>2, GotoFields
<1> QED BY <1>1, <1>2, <1>3, <1>4, QuietStep DEF TaskInv

LEMMA ProjectErrorSafe ==
  ASSUME IInv, TypeOK', NEW w \in Worker, NEW r \in Row, ProjectError(w, r)
  PROVE  IInv'
<1>1. TypeOK /\ TaskInv
  BY DEF IInv, DeliveryInv
<1>2. /\ task[w][r].pc = "projecting"
      /\ CommitProjection(r) \/ UNCHANGED row
      /\ Goto(w, r, "failed")
      /\ UNCHANGED <<stream, dedupe, nextToken, late>>
  BY DEF ProjectError
<1>3. \A x \in Row :
              /\ row'[x].status = row[x].status
              /\ row'[x].created = row[x].created
              /\ row'[x].attempt = row[x].attempt
              /\ row'[x].sentTo = row[x].sentTo
              /\ row'[x].token = row[x].token
              /\ row[x].projected = "set" => row'[x].projected = "set"
  <2>1. CASE CommitProjection(r)
    BY <1>1, <2>1, CommitProjectionFields
  <2>2. CASE UNCHANGED row
    BY <2>2
  <2> QED BY <1>2, <2>1, <2>2
<1>4. /\ task'[w][r].pc = "failed"
      /\ task'[w][r].token = task[w][r].token
      /\ \A v \in Worker, x \in Row : v # w \/ x # r => task'[v][x] = task[v][x]
  BY <1>1, <1>2, GotoFields
<1> QED BY <1>1, <1>2, <1>3, <1>4, QuietStep DEF TaskInv

LEMMA BuildEventsSafe ==
  ASSUME IInv, TypeOK', NEW w \in Worker, NEW r \in Row, BuildEvents(w, r)
  PROVE  IInv'
<1>1. TypeOK /\ TaskInv
  BY DEF IInv, DeliveryInv
<1>2. task[w][r].pc = "building" /\ UNCHANGED <<row, stream, dedupe, nextToken, late>>
  BY DEF BuildEvents
<1>3. row[r].projected = "set"
  BY <1>1, <1>2 DEF TaskInv
<1>4. CASE Goto(w, r, "failed")
  <2>1. /\ task'[w][r].pc = "failed"
        /\ task'[w][r].token = task[w][r].token
        /\ \A v \in Worker, x \in Row : v # w \/ x # r => task'[v][x] = task[v][x]
    BY <1>1, <1>4, GotoFields
  <2> QED BY <1>1, <1>2, <2>1, QuietStep DEF TaskInv
<1>5. CASE ~Goto(w, r, "failed")
  <2>1. PICK T \in SUBSET User :
          task' = [task EXCEPT ![w][r] = [@ EXCEPT !.pc = "publishing", !.targets = T, !.todo = T]]
    BY <1>5 DEF BuildEvents
  <2> DEFINE y == [task[w][r] EXCEPT !.pc = "publishing", !.targets = T, !.todo = T]
  <2>2. task' = [task EXCEPT ![w][r] = y]
    BY <2>1
  <2>3. y.token = task[w][r].token /\ y.targets \ y.todo = {}
    <3>1. task[w][r] \in TaskState
      BY <1>1, TaskReads
    <3> QED BY <3>1 DEF TaskState
  <2> HIDE DEF y
  <2>4. /\ task'[w][r] = y
        /\ \A v \in Worker, x \in Row : v # w \/ x # r => task'[v][x] = task[v][x]
    BY <1>1, <2>2 DEF TypeOK
  <2> QED BY <1>1, <1>2, <1>3, <2>3, <2>4, QuietStep DEF TaskInv
<1> QED BY <1>4, <1>5

LEMMA ReleaseFields ==
  ASSUME TypeOK, NEW w \in Worker, NEW r \in Row, NEW released \in RowState,
         ReleaseIfHeld(w, r, released), HoldsLease(w, r)
  PROVE  /\ row'[r].status = released.status
         /\ row'[r].created = released.created
         /\ row'[r].attempt = released.attempt
         /\ row'[r].sentTo = released.sentTo
         /\ row'[r].projected = released.projected
         /\ row'[r].token = NoToken
         /\ \A x \in Row : x # r => row'[x] = row[x]
<1> DEFINE y == [released EXCEPT !.locked = "null", !.token = NoToken]
<1>1. row' = [row EXCEPT ![r] = y]
  BY DEF ReleaseIfHeld
<1>2. /\ y.status = released.status /\ y.created = released.created
      /\ y.attempt = released.attempt /\ y.sentTo = released.sentTo
      /\ y.projected = released.projected /\ y.token = NoToken
  BY DEF RowState
<1> HIDE DEF y
<1>3. row'[r] = y /\ \A x \in Row : x # r => row'[x] = row[x]
  BY <1>1, RowLookup
<1> QED BY <1>2, <1>3

LEMMA MarkFailedSafe ==
  ASSUME IInv, TypeOK', NEW w \in Worker, NEW r \in Row, MarkFailed(w, r)
  PROVE  IInv'
<1>1. TypeOK /\ TaskInv
  BY DEF IInv, DeliveryInv
<1> DEFINE y == [row[r] EXCEPT !.available = "later"]
<1>2. ReleaseIfHeld(w, r, y) /\ Finish(w, r) /\ UNCHANGED <<stream, dedupe, nextToken, late>>
  BY DEF MarkFailed
<1>3. /\ y \in RowState /\ y.status = row[r].status /\ y.created = row[r].created
      /\ y.attempt = row[r].attempt /\ y.sentTo = row[r].sentTo
      /\ y.projected = row[r].projected
  <2>1. row[r] \in RowState
    BY <1>1, RowReads
  <2> QED BY <2>1 DEF RowState
<1> HIDE DEF y
<1>4. \A x \in Row :
        /\ row'[x].status = row[x].status
        /\ row'[x].created = row[x].created
        /\ row'[x].attempt = row[x].attempt
        /\ row'[x].sentTo = row[x].sentTo
        /\ row'[x].token \in {row[x].token, NoToken}
        /\ row[x].projected = "set" => row'[x].projected = "set"
  <2>1. CASE HoldsLease(w, r)
    BY <1>1, <1>2, <1>3, <2>1, ReleaseFields
  <2>2. CASE ~HoldsLease(w, r)
    BY <1>2, <2>2 DEF ReleaseIfHeld
  <2> QED BY <2>1, <2>2
<1>5. /\ task'[w][r].pc = "idle"
      /\ \A v \in Worker, x \in Row : v # w \/ x # r => task'[v][x] = task[v][x]
  BY <1>1, <1>2, FinishFields
<1> QED BY <1>1, <1>2, <1>4, <1>5, QuietStep DEF TaskInv

LEMMA MarkErrorSafe ==
  ASSUME IInv, TypeOK', NEW w \in Worker, NEW r \in Row, MarkError(w, r)
  PROVE  IInv'
<1>1. TypeOK /\ TaskInv
  BY DEF IInv, DeliveryInv
<1>2. Finish(w, r) /\ UNCHANGED <<row, stream, dedupe, nextToken, late>>
  BY DEF MarkError
<1>3. /\ task'[w][r].pc = "idle"
      /\ \A v \in Worker, x \in Row : v # w \/ x # r => task'[v][x] = task[v][x]
  BY <1>1, <1>2, FinishFields
<1> QED BY <1>1, <1>2, <1>3, QuietStep DEF TaskInv

LEMMA CrashSafe ==
  ASSUME IInv, TypeOK', NEW w \in Worker, Crash(w)
  PROVE  IInv'
<1>1. TypeOK /\ TaskInv
  BY DEF IInv, DeliveryInv
<1>2. UNCHANGED <<row, stream, dedupe, nextToken, late>>
  BY DEF Crash
<1>3. task' = [task EXCEPT ![w] = [r \in Row |-> NoTask]]
  BY DEF Crash
<1>4. \A x \in Row : task'[w][x].pc = "idle"
  BY <1>1, <1>3 DEF TypeOK, NoTask
<1>5. \A v \in Worker, x \in Row : v # w => task'[v][x] = task[v][x]
  BY <1>1, <1>3 DEF TypeOK
<1> QED BY <1>1, <1>2, <1>4, <1>5, QuietStep DEF TaskInv

\* Time only moves locked_at and available_at.
LEMMA TimeSafe ==
  ASSUME IInv, TypeOK', NEW r \in Row,
         LeaseExpires(r) \/ LeaseExpiresUnderOwner(r) \/ RetryDue(r)
  PROVE  IInv'
<1>1. TypeOK /\ TaskInv
  BY DEF IInv, DeliveryInv
<1>2. UNCHANGED <<task, stream, dedupe, nextToken, late>>
  BY DEF LeaseExpires, LeaseExpiresUnderOwner, RetryDue
<1>3. PICK y : /\ row' = [row EXCEPT ![r] = y]
               /\ y.status = row[r].status /\ y.created = row[r].created
               /\ y.attempt = row[r].attempt /\ y.sentTo = row[r].sentTo
               /\ y.projected = row[r].projected /\ y.token = row[r].token
  <2>1. row[r] \in RowState
    BY <1>1, RowReads
  <2>2. CASE LeaseExpires(r) \/ LeaseExpiresUnderOwner(r)
    <3> DEFINE z == [row[r] EXCEPT !.locked = "expired"]
    <3>1. row' = [row EXCEPT ![r] = z]
      BY <2>2 DEF LeaseExpires, LeaseExpiresUnderOwner
    <3>2. /\ z.status = row[r].status /\ z.created = row[r].created
          /\ z.attempt = row[r].attempt /\ z.sentTo = row[r].sentTo
          /\ z.projected = row[r].projected /\ z.token = row[r].token
      BY <2>1 DEF RowState
    <3> QED BY <3>1, <3>2
  <2>3. CASE RetryDue(r)
    <3> DEFINE z == [row[r] EXCEPT !.available = "due"]
    <3>1. row' = [row EXCEPT ![r] = z]
      BY <2>3 DEF RetryDue
    <3>2. /\ z.status = row[r].status /\ z.created = row[r].created
          /\ z.attempt = row[r].attempt /\ z.sentTo = row[r].sentTo
          /\ z.projected = row[r].projected /\ z.token = row[r].token
      BY <2>1 DEF RowState
    <3> QED BY <3>1, <3>2
  <2> QED BY <2>2, <2>3
<1>4. row'[r] = y /\ \A x \in Row : x # r => row'[x] = row[x]
  BY <1>1, <1>3, RowLookup
<1> QED BY <1>1, <1>2, <1>3, <1>4, QuietStep DEF TaskInv

LEMMA StutterSafe ==
  ASSUME IInv, TypeOK', UNCHANGED vars
  PROVE  IInv'
<1>1. TaskInv
  BY DEF IInv, DeliveryInv
<1>2. UNCHANGED <<row, task, stream, dedupe, nextToken, late>>
  BY DEF vars
<1> QED BY <1>1, <1>2, QuietStep DEF TaskInv

-----------------------------------------------------------------------------
(* Publishing *)

\* A new event of r for u: the invariant holds after it was appended, provided
\* r is projected, and the publishing task advances over u at most.
LEMMA AppendSafe ==
  ASSUME IInv, TypeOK', NEW r \in Row, NEW u \in User,
         row[r].projected = "set", row[r].attempt > 0,
         <<r, u>> \notin dedupe, Xadd(r, u),
         \A v \in Worker, x \in Row : task'[v][x].pc # "idle" =>
           /\ task[v][x].pc # "idle"
           /\ task'[v][x].token = task[v][x].token
           /\ task'[v][x].pc \in {"building", "publishing"} => row[x].projected = "set"
           /\ task'[v][x].pc = "publishing" =>
                \A t \in task'[v][x].targets \ task'[v][x].todo : <<x, t>> \in dedupe',
         UNCHANGED <<row, nextToken, late>>
  PROVE  IInv'
<1> DEFINE n == Len(stream)
<1>1. stream \in Seq(Row \X User) /\ n \in Nat
  BY DEF IInv, TypeOK
<1>2. stream' = Append(stream, <<r, u>>) /\ dedupe' = dedupe \cup {<<r, u>>}
  BY DEF Xadd
<1>3. /\ Len(stream') = n + 1
      /\ stream'[n + 1] = <<r, u>>
      /\ \A i \in 1..n : stream'[i] = stream[i]
      /\ 1..(n + 1) = 1..n \cup {n + 1}
  BY <1>1, <1>2
<1>4. StreamInv
  BY DEF IInv, DeliveryInv
<1> HIDE DEF n
<1>5. \A i \in 1..n : stream'[i] \in dedupe /\ stream'[i] # <<r, u>>
  BY <1>3, <1>4 DEF StreamInv, n
<1>6. StreamInv'
  <2>1. \A i \in 1..(n + 1) : stream'[i] \in dedupe'
    BY <1>2, <1>3, <1>5
  <2>2. \A e \in dedupe' : \E i \in 1..(n + 1) : stream'[i] = e
    <3>1. ASSUME NEW e \in dedupe PROVE \E i \in 1..(n + 1) : stream'[i] = e
      <4>1. PICK i \in 1..n : stream[i] = e
        BY <1>4 DEF StreamInv, n
      <4> QED BY <4>1, <1>3
    <3>2. n + 1 \in 1..(n + 1)
      BY <1>3
    <3> QED BY <1>2, <1>3, <3>1, <3>2
  <2>3. NoDuplicateEvent'
    <3>1. \A i, j \in 1..n : stream[i] = stream[j] => i = j
      BY <1>4 DEF StreamInv, NoDuplicateEvent, n
    <3>2. \A i, j \in 1..(n + 1) : stream'[i] = stream'[j] => i = j
      BY <1>3, <1>5, <3>1
    <3> QED BY <1>3, <3>2 DEF NoDuplicateEvent
  <2> QED BY <1>3, <2>1, <2>2, <2>3 DEF StreamInv
<1>7. TaskInv'
  BY DEF IInv, DeliveryInv, TaskInv
<1>8. TokenInv'
  BY DEF IInv, DeliveryInv, TokenInv
<1>9. RowInv
  BY DEF IInv, DeliveryInv
<1>10. RowInv'
  <2>1. \A x \in Row, t \in User : <<x, t>> \in dedupe' =>
          row'[x].projected = "set" /\ row'[x].attempt > 0
    <3> SUFFICES ASSUME NEW x \in Row, NEW t \in User, <<x, t>> \in dedupe'
                 PROVE  row'[x].projected = "set" /\ row'[x].attempt > 0
      OBVIOUS
    <3>1. CASE <<x, t>> \in dedupe
      BY <1>9, <3>1 DEF RowInv
    <3>2. CASE <<x, t>> = <<r, u>>
      BY <3>2
    <3> QED BY <1>2, <3>1, <3>2
  <2>2. \A e : e \in dedupe => e \in dedupe'
    BY <1>2
  <2> QED BY <1>9, <2>1, <2>2 DEF RowInv
<1>11. HeadOfLine'
  BY DEF IInv, HeadOfLine, Earlier
<1>12. ChatOrder'
  <2> SUFFICES ASSUME NEW a \in Row, NEW b \in Row,
                      NEW i \in 1..(n + 1), NEW j \in 1..(n + 1),
                      Earlier(a, b), <<a, b>> \notin late,
                      row[a].status = "published",
                      stream'[i][1] = a, stream'[j][1] = b,
                      stream'[i][2] = stream'[j][2],
                      stream'[i][2] \in row[a].sentTo
               PROVE  i < j
    BY <1>3 DEF ChatOrder, Earlier
  <2>1. CASE i = n + 1
    <3>1. a = r /\ stream'[i][2] = u
      BY <1>3, <2>1
    <3>2. <<a, u>> \in dedupe
      BY <1>9, <3>1 DEF RowInv
    <3> QED BY <3>1, <3>2
  <2>2. CASE i \in 1..n /\ j = n + 1
    BY <1>1, <2>2 DEF n
  <2>3. CASE i \in 1..n /\ j \in 1..n
    <3>1. /\ stream[i][1] = a /\ stream[j][1] = b
          /\ stream[i][2] = stream[j][2] /\ stream[i][2] \in row[a].sentTo
      BY <1>3, <2>3
    <3>2. i \in 1..Len(stream) /\ j \in 1..Len(stream)
      BY <2>3 DEF n
    <3> QED BY <3>1, <3>2 DEF IInv, ChatOrder
  <2> QED BY <1>3, <2>1, <2>2, <2>3
<1> QED BY <1>6, <1>7, <1>8, <1>10, <1>11, <1>12 DEF IInv, DeliveryInv

LEMMA PublishSafe ==
  ASSUME IInv, TypeOK', NEW w \in Worker, NEW r \in Row, NEW u \in User,
         Publish(w, r, u)
  PROVE  IInv'
<1>1. TypeOK /\ TaskInv
  BY DEF IInv, DeliveryInv
<1> DEFINE y == [task[w][r] EXCEPT !.todo = task[w][r].todo \ {u}]
<1>2. /\ task[w][r].pc = "publishing"
      /\ Xadd(r, u)
      /\ task' = [task EXCEPT ![w][r] = y]
      /\ UNCHANGED <<row, nextToken, late>>
  BY DEF Publish
<1>3. row[r].projected = "set" /\ row[r].attempt > 0
  BY <1>1, <1>2 DEF TaskInv
<1>4. /\ y.pc = "publishing" /\ y.token = task[w][r].token
      /\ y.targets = task[w][r].targets /\ y.todo = task[w][r].todo \ {u}
  <2>1. task[w][r] \in TaskState
    BY <1>1, TaskReads
  <2> QED BY <1>2, <2>1 DEF TaskState
<1> HIDE DEF y
<1>5. /\ task'[w][r] = y
      /\ \A v \in Worker, x \in Row : v # w \/ x # r => task'[v][x] = task[v][x]
  BY <1>1, <1>2 DEF TypeOK
<1>6. <<r, u>> \in dedupe' /\ \A e : e \in dedupe => e \in dedupe'
  BY <1>2 DEF Xadd
<1>7. \A v \in Worker, x \in Row : task'[v][x].pc # "idle" =>
        /\ task[v][x].pc # "idle"
        /\ task'[v][x].token = task[v][x].token
        /\ task'[v][x].pc \in {"building", "publishing"} => row[x].projected = "set"
        /\ task'[v][x].pc = "publishing" =>
             \A t \in task'[v][x].targets \ task'[v][x].todo : <<x, t>> \in dedupe'
  <2> SUFFICES ASSUME NEW v \in Worker, NEW x \in Row, task'[v][x].pc # "idle"
               PROVE  /\ task[v][x].pc # "idle"
                      /\ task'[v][x].token = task[v][x].token
                      /\ task'[v][x].pc \in {"building", "publishing"} => row[x].projected = "set"
                      /\ task'[v][x].pc = "publishing" =>
                           \A t \in task'[v][x].targets \ task'[v][x].todo : <<x, t>> \in dedupe'
    OBVIOUS
  <2>1. CASE v = w /\ x = r
    <3>1. \A t \in y.targets \ y.todo : <<r, t>> \in dedupe'
      BY <1>1, <1>2, <1>4, <1>6 DEF TaskInv
    <3> QED BY <1>2, <1>3, <1>4, <1>5, <2>1, <3>1
  <2>2. CASE v # w \/ x # r
    BY <1>1, <1>5, <1>6, <2>2 DEF TaskInv
  <2> QED BY <2>1, <2>2
<1>8. CASE <<r, u>> \in dedupe
  <2>1. UNCHANGED <<stream, dedupe>>
    BY <1>2, <1>8 DEF Xadd
  <2> QED BY <1>2, <1>7, <2>1, QuietStep
<1>9. CASE <<r, u>> \notin dedupe
  BY <1>2, <1>3, <1>7, <1>9, AppendSafe
<1> QED BY <1>8, <1>9

LEMMA PublishErrorSafe ==
  ASSUME IInv, TypeOK', NEW w \in Worker, NEW r \in Row, NEW u \in User,
         PublishError(w, r, u)
  PROVE  IInv'
<1>1. TypeOK /\ TaskInv
  BY DEF IInv, DeliveryInv
<1>2. /\ task[w][r].pc = "publishing"
      /\ Xadd(r, u) \/ UNCHANGED <<stream, dedupe>>
      /\ Goto(w, r, "failed")
      /\ UNCHANGED <<row, nextToken, late>>
  BY DEF PublishError
<1>3. row[r].projected = "set" /\ row[r].attempt > 0
  BY <1>1, <1>2 DEF TaskInv
<1>4. /\ task'[w][r].pc = "failed"
      /\ task'[w][r].token = task[w][r].token
      /\ \A v \in Worker, x \in Row : v # w \/ x # r => task'[v][x] = task[v][x]
  BY <1>1, <1>2, GotoFields
<1>5. \A e : e \in dedupe => e \in dedupe'
  BY <1>2 DEF Xadd
<1>6. \A v \in Worker, x \in Row : task'[v][x].pc # "idle" =>
        /\ task[v][x].pc # "idle"
        /\ task'[v][x].token = task[v][x].token
        /\ task'[v][x].pc \in {"building", "publishing"} => row[x].projected = "set"
        /\ task'[v][x].pc = "publishing" =>
             \A t \in task'[v][x].targets \ task'[v][x].todo : <<x, t>> \in dedupe'
  BY <1>1, <1>2, <1>4, <1>5 DEF TaskInv
<1>7. CASE UNCHANGED <<stream, dedupe>>
  BY <1>2, <1>6, <1>7, QuietStep
<1>8. CASE Xadd(r, u) /\ <<r, u>> \notin dedupe
  BY <1>2, <1>3, <1>6, <1>8, AppendSafe
<1> QED BY <1>2, <1>7, <1>8 DEF Xadd

-----------------------------------------------------------------------------
(* Settling a row *)

\* A worker that still holds the lease holds it on an open row.
LEMMA HeldIsOpen ==
  ASSUME IInv, NEW w \in Worker, NEW r \in Row,
         task[w][r].pc # "idle", HoldsLease(w, r)
  PROVE  row[r].status = "open"
<1>1. TypeOK /\ TaskInv /\ RowInv
  BY DEF IInv, DeliveryInv
<1>2. row[r] \in RowState
  BY <1>1, RowReads
<1>3. row[r].status \in {"absent", "writing", "aborted", "open", "published", "dead"}
  BY <1>2 DEF RowState
<1>4. nextToken \in Nat
  BY <1>1 DEF TypeOK
<1>5. task[w][r].token \in 1..(nextToken - 1) /\ row[r].attempt > 0
  BY <1>1 DEF TaskInv
<1>6. task[w][r].token # 0
  BY <1>4, <1>5
<1>7. row[r].status \notin {"absent", "writing", "aborted"}
  <2>1. row[r].attempt # 0
    BY <1>5
  <2> QED BY <1>1, <2>1 DEF RowInv
<1>8. row[r].status \notin {"published", "dead"}
  BY <1>1, <1>6 DEF RowInv, HoldsLease, NoToken
<1> QED BY <1>3, <1>7, <1>8

\* An open row is settled: the invariant holds after it, provided the events of
\* a published row are recorded.  The order of the chat rests on HeadOfLine:
\* no later row has been claimed, so none has an event.
LEMMA SettleSafe ==
  ASSUME IInv, TypeOK', NEW w \in Worker, NEW r \in Row,
         row[r].status = "open",
         row'[r].status \in {"published", "dead"},
         row'[r].created = row[r].created,
         row'[r].attempt = row[r].attempt,
         row'[r].projected = row[r].projected,
         row'[r].token = NoToken,
         row'[r].status = "published" => \A u \in row'[r].sentTo : <<r, u>> \in dedupe,
         \A x \in Row : x # r => row'[x] = row[x],
         task'[w][r].pc = "idle",
         \A v \in Worker, x \in Row : v # w \/ x # r => task'[v][x] = task[v][x],
         UNCHANGED <<stream, dedupe, nextToken, late>>
  PROVE  IInv'
<1>1. TypeOK /\ StreamInv /\ TaskInv /\ TokenInv /\ RowInv /\ HeadOfLine /\ ChatOrder
  BY DEF IInv, DeliveryInv
<1>2. \A x \in Row : /\ row'[x].created = row[x].created
                     /\ row'[x].attempt = row[x].attempt
                     /\ row'[x].projected = row[x].projected
  OBVIOUS
<1>3. \A v \in Worker, x \in Row : task'[v][x].pc # "idle" => task'[v][x] = task[v][x]
  OBVIOUS
<1>4. StreamInv'
  BY <1>1 DEF StreamInv, NoDuplicateEvent
<1>5. TaskInv'
  BY <1>1, <1>2, <1>3 DEF TaskInv
<1>6. TokenInv'
  <2>1. 0 < nextToken
    BY <1>1 DEF TypeOK
  <2>2. \A x \in Row : row'[x].token < nextToken'
    BY <1>1, <2>1 DEF TokenInv, NoToken
  <2> QED BY <1>1, <1>3, <2>2 DEF TokenInv
<1>7. RowInv'
  BY <1>1, <1>2 DEF RowInv
<1>8. \A a, b \in Row : Earlier(a, b)' = Earlier(a, b)
  BY <1>2 DEF Earlier
<1>9. HeadOfLine'
  BY <1>1, <1>2, <1>8 DEF HeadOfLine
<1>10. ChatOrder'
  <2> SUFFICES ASSUME NEW a \in Row, NEW b \in Row,
                      NEW i \in 1..Len(stream), NEW j \in 1..Len(stream),
                      Earlier(a, b), <<a, b>> \notin late,
                      row'[a].status = "published",
                      stream[i][1] = a, stream[j][1] = b,
                      stream[i][2] = stream[j][2],
                      stream[i][2] \in row'[a].sentTo
               PROVE  i < j
    BY <1>8 DEF ChatOrder
  <2>1. CASE a # r
    BY <1>1, <2>1 DEF ChatOrder
  <2>2. CASE a = r
    <3>1. stream[j] \in dedupe /\ stream[j] \in Row \X User
      BY <1>1 DEF StreamInv, TypeOK
    <3>2. row[b].attempt > 0
      BY <1>1, <3>1 DEF RowInv
    <3> QED BY <1>1, <2>2, <3>2 DEF HeadOfLine
  <2> QED BY <2>1, <2>2
<1> QED BY <1>4, <1>5, <1>6, <1>7, <1>9, <1>10 DEF IInv, DeliveryInv

LEMMA MarkPublishedSafe ==
  ASSUME IInv, TypeOK', NEW w \in Worker, NEW r \in Row, MarkPublished(w, r)
  PROVE  IInv'
<1>1. TypeOK /\ TaskInv
  BY DEF IInv, DeliveryInv
<1> DEFINE y == [row[r] EXCEPT !.status = "published", !.sentTo = task[w][r].targets]
<1>2. /\ task[w][r].pc = "publishing" /\ task[w][r].todo = {}
      /\ ReleaseIfHeld(w, r, y) /\ Finish(w, r)
      /\ UNCHANGED <<stream, dedupe, nextToken, late>>
  BY DEF MarkPublished
<1>3. \A u \in task[w][r].targets : <<r, u>> \in dedupe
  BY <1>1, <1>2 DEF TaskInv
<1>4. /\ y \in RowState /\ y.status = "published" /\ y.created = row[r].created
      /\ y.attempt = row[r].attempt /\ y.sentTo = task[w][r].targets
      /\ y.projected = row[r].projected
  <2>1. row[r] \in RowState /\ task[w][r].targets \in SUBSET User
    BY <1>1, RowReads, TaskReads
  <2> QED BY <2>1 DEF RowState
<1> HIDE DEF y
<1>5. /\ task'[w][r].pc = "idle"
      /\ \A v \in Worker, x \in Row : v # w \/ x # r => task'[v][x] = task[v][x]
  BY <1>1, <1>2, FinishFields
<1>6. CASE HoldsLease(w, r)
  <2>1. row[r].status = "open"
    BY <1>2, <1>6, HeldIsOpen
  <2>2. /\ row'[r].status = y.status /\ row'[r].created = y.created
        /\ row'[r].attempt = y.attempt /\ row'[r].sentTo = y.sentTo
        /\ row'[r].projected = y.projected /\ row'[r].token = NoToken
        /\ \A x \in Row : x # r => row'[x] = row[x]
    BY <1>1, <1>2, <1>4, <1>6, ReleaseFields
  <2> QED BY <1>2, <1>3, <1>4, <1>5, <2>1, <2>2, SettleSafe
<1>7. CASE ~HoldsLease(w, r)
  <2>1. row' = row
    BY <1>2, <1>7 DEF ReleaseIfHeld
  <2> QED BY <1>1, <1>2, <1>5, <2>1, QuietStep DEF TaskInv
<1> QED BY <1>6, <1>7

LEMMA MarkDeadLetterSafe ==
  ASSUME IInv, TypeOK', NEW w \in Worker, NEW r \in Row, MarkDeadLetter(w, r)
  PROVE  IInv'
<1>1. TypeOK /\ TaskInv
  BY DEF IInv, DeliveryInv
<1> DEFINE y == [row[r] EXCEPT !.status = "dead"]
<1>2. /\ task[w][r].pc = "failed"
      /\ ReleaseIfHeld(w, r, y) /\ Finish(w, r)
      /\ UNCHANGED <<stream, dedupe, nextToken, late>>
  BY DEF MarkDeadLetter
<1>3. /\ y \in RowState /\ y.status = "dead" /\ y.created = row[r].created
      /\ y.attempt = row[r].attempt /\ y.projected = row[r].projected
  <2>1. row[r] \in RowState
    BY <1>1, RowReads
  <2> QED BY <2>1 DEF RowState
<1> HIDE DEF y
<1>4. /\ task'[w][r].pc = "idle"
      /\ \A v \in Worker, x \in Row : v # w \/ x # r => task'[v][x] = task[v][x]
  BY <1>1, <1>2, FinishFields
<1>5. CASE HoldsLease(w, r)
  <2>1. row[r].status = "open"
    BY <1>2, <1>5, HeldIsOpen
  <2>2. /\ row'[r].status = y.status /\ row'[r].created = y.created
        /\ row'[r].attempt = y.attempt
        /\ row'[r].projected = y.projected /\ row'[r].token = NoToken
        /\ \A x \in Row : x # r => row'[x] = row[x]
    BY <1>1, <1>2, <1>3, <1>5, ReleaseFields
  <2> QED BY <1>2, <1>3, <1>4, <2>1, <2>2, SettleSafe
<1>6. CASE ~HoldsLease(w, r)
  <2>1. row' = row
    BY <1>2, <1>6 DEF ReleaseIfHeld
  <2> QED BY <1>1, <1>2, <1>4, <2>1, QuietStep DEF TaskInv
<1> QED BY <1>5, <1>6

-----------------------------------------------------------------------------
(* Writing a row *)

\* A row that no worker has claimed changes its status and its created_at.
\* It has no events, and blocks nobody that late does not excuse.
LEMMA WriteSafe ==
  ASSUME IInv, TypeOK', NEW r \in Row,
         row[r].status \in {"absent", "writing"},
         row'[r].status \in {"writing", "open", "aborted"},
         row'[r].attempt = row[r].attempt,
         row'[r].projected = row[r].projected,
         row'[r].token = row[r].token,
         \A x \in Row : x # r => row'[x] = row[x],
         row'[r].status = "open" =>
           /\ row'[r].created = row[r].created
           /\ \A q \in Row : Earlier(r, q) /\ row[q].attempt > 0 => <<r, q>> \in late',
         late \subseteq late',
         UNCHANGED <<task, stream, dedupe, nextToken>>
  PROVE  IInv'
<1>1. TypeOK /\ StreamInv /\ TaskInv /\ TokenInv /\ RowInv /\ HeadOfLine /\ ChatOrder
  BY DEF IInv, DeliveryInv
<1>2. \A x \in Row : /\ row'[x].attempt = row[x].attempt
                     /\ row'[x].projected = row[x].projected
                     /\ row'[x].token = row[x].token
  OBVIOUS
<1>3. row[r].attempt = 0
  BY <1>1 DEF RowInv
<1>4. \A i \in 1..Len(stream) : stream[i][1] # r
  <2>1. \A i \in 1..Len(stream) : stream[i] \in dedupe /\ stream[i] \in Row \X User
    BY <1>1 DEF StreamInv, TypeOK
  <2> QED BY <1>1, <1>3, <2>1 DEF RowInv
<1>5. StreamInv'
  BY <1>1 DEF StreamInv, NoDuplicateEvent
<1>6. TaskInv'
  BY <1>1, <1>2 DEF TaskInv
<1>7. TokenInv'
  BY <1>1, <1>2 DEF TokenInv
<1>8. RowInv'
  BY <1>1, <1>2, <1>3 DEF RowInv
<1>9. \A a, b \in Row : a # r /\ b # r => Earlier(a, b)' = Earlier(a, b)
  BY DEF Earlier
<1>10. HeadOfLine'
  <2> SUFFICES ASSUME NEW a \in Row, NEW b \in Row,
                      Earlier(a, b)', row'[a].status = "open", row'[b].attempt > 0
               PROVE  <<a, b>> \in late'
    BY DEF HeadOfLine
  <2>1. b # r /\ row[b].attempt > 0
    BY <1>2, <1>3
  <2>2. CASE a = r
    <3>1. Earlier(r, b)
      BY <2>1, <2>2 DEF Earlier
    <3> QED BY <2>1, <2>2, <3>1
  <2>3. CASE a # r
    BY <1>1, <1>9, <2>1, <2>3 DEF HeadOfLine
  <2> QED BY <2>2, <2>3
<1>11. ChatOrder'
  <2> SUFFICES ASSUME NEW a \in Row, NEW b \in Row,
                      NEW i \in 1..Len(stream), NEW j \in 1..Len(stream),
                      Earlier(a, b)', <<a, b>> \notin late,
                      row'[a].status = "published",
                      stream[i][1] = a, stream[j][1] = b,
                      stream[i][2] = stream[j][2],
                      stream[i][2] \in row'[a].sentTo
               PROVE  i < j
    BY DEF ChatOrder
  <2>1. a # r /\ b # r
    BY <1>4
  <2> QED BY <1>1, <1>9, <2>1 DEF ChatOrder
<1> QED BY <1>5, <1>6, <1>7, <1>8, <1>10, <1>11 DEF IInv, DeliveryInv

LEMMA BeginWriteSafe ==
  ASSUME IInv, TypeOK', NEW r \in Row, BeginWrite(r)
  PROVE  IInv'
<1>1. TypeOK /\ row[r] \in RowState
  BY RowReads DEF IInv
<1> DEFINE y == [row[r] EXCEPT !.status = "writing", !.created = clock]
<1>2. /\ row[r].status = "absent" /\ row' = [row EXCEPT ![r] = y]
      /\ UNCHANGED <<task, stream, dedupe, nextToken, late>>
  BY DEF BeginWrite
<1>3. /\ y.status = "writing" /\ y.attempt = row[r].attempt
      /\ y.projected = row[r].projected /\ y.token = row[r].token
  BY <1>1 DEF RowState
<1> HIDE DEF y
<1>4. row'[r] = y /\ \A x \in Row : x # r => row'[x] = row[x]
  BY <1>1, <1>2, RowLookup
<1> QED BY <1>2, <1>3, <1>4, WriteSafe

LEMMA AbortWriteSafe ==
  ASSUME IInv, TypeOK', NEW r \in Row, AbortWrite(r)
  PROVE  IInv'
<1>1. TypeOK /\ row[r] \in RowState
  BY RowReads DEF IInv
<1> DEFINE y == [row[r] EXCEPT !.status = "aborted"]
<1>2. /\ row[r].status = "writing" /\ row' = [row EXCEPT ![r] = y]
      /\ UNCHANGED <<task, stream, dedupe, nextToken, late>>
  BY DEF AbortWrite
<1>3. /\ y.status = "aborted" /\ y.attempt = row[r].attempt
      /\ y.projected = row[r].projected /\ y.token = row[r].token
  BY <1>1 DEF RowState
<1> HIDE DEF y
<1>4. row'[r] = y /\ \A x \in Row : x # r => row'[x] = row[x]
  BY <1>1, <1>2, RowLookup
<1> QED BY <1>2, <1>3, <1>4, WriteSafe

LEMMA CommitWriteSafe ==
  ASSUME IInv, TypeOK', NEW r \in Row, CommitWrite(r)
  PROVE  IInv'
<1>1. TypeOK /\ row[r] \in RowState
  BY RowReads DEF IInv
<1> DEFINE y == [row[r] EXCEPT !.status = "open"]
<1>2. /\ row[r].status = "writing" /\ row' = [row EXCEPT ![r] = y]
      /\ UNCHANGED <<task, stream, dedupe, nextToken>>
  BY DEF CommitWrite
<1>3. /\ y.status = "open" /\ y.attempt = row[r].attempt /\ y.created = row[r].created
      /\ y.projected = row[r].projected /\ y.token = row[r].token
  BY <1>1 DEF RowState
<1> HIDE DEF y
<1>4. row'[r] = y /\ \A x \in Row : x # r => row'[x] = row[x]
  BY <1>1, <1>2, RowLookup
<1>5. late \subseteq late'
  BY DEF CommitWrite
<1>6. \A q \in Row : Earlier(r, q) /\ row[q].attempt > 0 => <<r, q>> \in late'
  BY DEF CommitWrite
<1> QED BY <1>2, <1>3, <1>4, <1>5, <1>6, WriteSafe

-----------------------------------------------------------------------------
(* Claiming rows *)

LEMMA ClaimSafe ==
  ASSUME IInv, TypeOK', NEW w \in Worker, NEW S \in SUBSET Row, Claim(w, S)
  PROVE  IInv'
<1>1. TypeOK /\ StreamInv /\ TaskInv /\ TokenInv /\ RowInv /\ HeadOfLine /\ ChatOrder
  BY DEF IInv, DeliveryInv
<1>2. /\ \A r \in S : row[r].status = "open" /\ IsHead(r)
      /\ nextToken' = nextToken + 1
      /\ UNCHANGED <<stream, dedupe, late>>
  BY DEF Claim, Eligible
<1>3. nextToken \in Nat \ {0}
  BY <1>1 DEF TypeOK
<1>4. \A x \in Row : x \notin S => row'[x] = row[x]
  BY DEF Claim
<1>5. \A x \in S : row'[x] = [row[x] EXCEPT !.locked = "fresh", !.token = nextToken,
                                            !.attempt = row[x].attempt + 1]
  BY DEF Claim
<1>6. \A x \in S : /\ row'[x].status = row[x].status
                   /\ row'[x].created = row[x].created
                   /\ row'[x].projected = row[x].projected
                   /\ row'[x].sentTo = row[x].sentTo
                   /\ row'[x].token = nextToken
                   /\ row'[x].attempt > 0
  <2> TAKE x \in S
  <2>1. row[x] \in RowState /\ row[x].attempt + 1 \in Nat
    BY <1>1, RowReads
  <2>2. row[x].attempt \in Nat
    BY <2>1 DEF RowState
  <2>3. row[x].attempt + 1 > 0
    BY <2>2
  <2> DEFINE n == row[x].attempt + 1
  <2>4. n > 0
    BY <2>3
  <2>5. row'[x] = [row[x] EXCEPT !.locked = "fresh", !.token = nextToken, !.attempt = n]
    BY <1>5
  <2> HIDE DEF n
  <2> QED BY <2>1, <2>4, <2>5 DEF RowState
<1>7. \A x \in Row : /\ row'[x].status = row[x].status
                     /\ row'[x].created = row[x].created
                     /\ row'[x].projected = row[x].projected
                     /\ row'[x].sentTo = row[x].sentTo
                     /\ row[x].attempt > 0 => row'[x].attempt > 0
                     /\ row'[x].attempt = row[x].attempt \/ x \in S
  BY <1>4, <1>6
<1>8. \A v \in Worker, x \in Row : v # w => task'[v][x] = task[v][x]
  BY <1>1 DEF Claim, TypeOK
<1>9. \A x \in Row : task'[w][x].pc # "idle" =>
        x \in S /\ task'[w][x].pc = "queued" /\ task'[w][x].token = nextToken
  <2> TAKE x \in Row
  <2>1. task'[w][x] = IF x \in S THEN [NoTask EXCEPT !.pc = "queued", !.token = nextToken,
                                                     !.attempt = row[x].attempt + 1]
                                 ELSE NoTask
    BY <1>1 DEF Claim, TypeOK
  <2> QED BY <2>1 DEF NoTask
<1>10. StreamInv'
  BY <1>1, <1>2 DEF StreamInv, NoDuplicateEvent
<1>11. 1..(nextToken - 1) \subseteq 1..(nextToken' - 1) /\ nextToken \in 1..(nextToken' - 1)
  BY <1>2, <1>3
<1>12. TaskInv'
  <2> SUFFICES ASSUME NEW v \in Worker, NEW x \in Row, task'[v][x].pc # "idle"
               PROVE  /\ task'[v][x].token \in 1..(nextToken' - 1)
                      /\ row'[x].attempt > 0
                      /\ task'[v][x].pc \in {"building", "publishing"} => row'[x].projected = "set"
                      /\ task'[v][x].pc = "publishing" =>
                           \A u \in task'[v][x].targets \ task'[v][x].todo : <<x, u>> \in dedupe'
    BY DEF TaskInv
  <2>1. CASE v = w
    BY <1>6, <1>9, <1>11, <2>1
  <2>2. CASE v # w
    BY <1>1, <1>2, <1>7, <1>8, <1>11, <2>2 DEF TaskInv
  <2> QED BY <2>1, <2>2
<1>13. TokenInv'
  <2>1. \A x \in Row : row'[x].token < nextToken'
    <3> TAKE x \in Row
    <3>1. CASE x \in S
      BY <1>2, <1>3, <1>6, <3>1
    <3>2. CASE x \notin S
      <4>1. row[x].token < nextToken /\ row[x] \in RowState
        BY <1>1, RowReads DEF TokenInv
      <4>2. row[x].token \in Nat
        BY <4>1 DEF RowState
      <4> QED BY <1>2, <1>3, <1>4, <3>2, <4>1, <4>2
    <3> QED BY <3>1, <3>2
  <2>2. \A v \in Worker, x \in Row : v # w /\ task'[v][x].pc # "idle" => task'[v][x].token # nextToken
    <3>1. nextToken \notin 1..(nextToken - 1)
      BY <1>3
    <3> QED BY <1>1, <1>8, <3>1 DEF TaskInv
  <2>3. \A x \in Row : \A u, v \in Worker :
          /\ task'[u][x].pc # "idle" /\ task'[v][x].pc # "idle"
          /\ task'[u][x].token = task'[v][x].token
          => u = v
    BY <1>1, <1>8, <1>9, <2>2 DEF TokenInv
  <2> QED BY <2>1, <2>3 DEF TokenInv
<1>14. RowInv'
  <2> SUFFICES ASSUME NEW x \in Row
               PROVE  /\ row'[x].status = "absent" => row'[x].created = 0
                      /\ row'[x].status \in {"absent", "writing", "aborted"} => row'[x].attempt = 0
                      /\ row'[x].status \in {"published", "dead"} => row'[x].token = NoToken
                      /\ row'[x].status = "published" => \A u \in row'[x].sentTo : <<x, u>> \in dedupe'
                      /\ \A u \in User : <<x, u>> \in dedupe' => row'[x].projected = "set" /\ row'[x].attempt > 0
    BY DEF RowInv
  <2>1. CASE x \in S
    BY <1>1, <1>2, <1>6, <2>1 DEF RowInv
  <2>2. CASE x \notin S
    BY <1>1, <1>2, <1>4, <2>2 DEF RowInv
  <2> QED BY <2>1, <2>2
<1>15. \A a, b \in Row : Earlier(a, b)' = Earlier(a, b)
  BY <1>7 DEF Earlier
<1>16. HeadOfLine'
  <2> SUFFICES ASSUME NEW a \in Row, NEW b \in Row,
                      Earlier(a, b), row[a].status = "open", row'[b].attempt > 0
               PROVE  <<a, b>> \in late
    BY <1>2, <1>7, <1>15 DEF HeadOfLine
  <2>1. b \notin S
    BY <1>2 DEF IsHead
  <2> QED BY <1>1, <1>7, <2>1 DEF HeadOfLine
<1>17. ChatOrder'
  BY <1>1, <1>2, <1>7, <1>15 DEF ChatOrder
<1> QED BY <1>10, <1>12, <1>13, <1>14, <1>16, <1>17 DEF IInv, DeliveryInv

-----------------------------------------------------------------------------
(* The invariant *)

LEMMA InitSafe == Init => IInv
<1> SUFFICES ASSUME Init PROVE IInv
  OBVIOUS
<1>1. TypeOK
  BY InitType
<1>2. stream = <<>> /\ Len(stream) = 0 /\ dedupe = {} /\ nextToken = 1
  BY DEF Init
<1>3. \A r \in Row : row[r] = AbsentRow
  BY DEF Init
<1>4. \A w \in Worker, r \in Row : task[w][r].pc = "idle"
  BY DEF Init, NoTask
<1>5. 1..Len(stream) = {}
  BY <1>2
<1>6. StreamInv
  BY <1>2, <1>5 DEF StreamInv, NoDuplicateEvent
<1>7. TaskInv
  BY <1>4 DEF TaskInv
<1>8. TokenInv
  BY <1>2, <1>3, <1>4 DEF TokenInv, AbsentRow, NoToken
<1>9. RowInv
  BY <1>2, <1>3 DEF RowInv, AbsentRow, NoToken
<1>10. HeadOfLine
  BY <1>3 DEF HeadOfLine, AbsentRow
<1>11. ChatOrder
  BY <1>5 DEF ChatOrder
<1> QED BY <1>1, <1>6, <1>7, <1>8, <1>9, <1>10, <1>11 DEF IInv, DeliveryInv

LEMMA ProcessRecordSafe ==
  ASSUME IInv, TypeOK', NEW w \in Worker, NEW r \in Row, ProcessRecord(w, r)
  PROVE  IInv'
  BY ProjectReadSafe, ProjectWriteSafe, ProjectErrorSafe, BuildEventsSafe, PublishSafe,
     PublishErrorSafe, MarkPublishedSafe, MarkFailedSafe, MarkDeadLetterSafe, MarkErrorSafe
  DEF ProcessRecord

LEMMA StepSafe == IInv /\ [Next]_vars => IInv'
<1> SUFFICES ASSUME IInv, [Next]_vars PROVE IInv'
  OBVIOUS
<1>1. TypeOK'
  BY StepType DEF IInv
<1>2. CASE UNCHANGED vars
  BY <1>1, <1>2, StutterSafe
<1>3. ASSUME NEW r \in Row, BeginWrite(r) \/ CommitWrite(r) \/ AbortWrite(r) PROVE IInv'
  BY <1>1, <1>3, BeginWriteSafe, CommitWriteSafe, AbortWriteSafe
<1>4. ASSUME NEW w \in Worker, NEW S \in SUBSET Row, Claim(w, S) PROVE IInv'
  BY <1>1, <1>4, ClaimSafe
<1>5. ASSUME NEW w \in Worker, IdlePoll(w) \/ Crash(w) PROVE IInv'
  BY <1>1, <1>5, StutterSafe, CrashSafe DEF IdlePoll
<1>6. ASSUME NEW w \in Worker, NEW r \in Row, ProcessRecord(w, r) PROVE IInv'
  BY <1>1, <1>6, ProcessRecordSafe
<1>7. ASSUME NEW r \in Row, LeaseExpires(r) \/ LeaseExpiresUnderOwner(r) \/ RetryDue(r) PROVE IInv'
  BY <1>1, <1>7, TimeSafe
<1> QED BY <1>2, <1>3, <1>4, <1>5, <1>6, <1>7 DEF Next

\* What the invariant says to the outside.
LEMMA InvImplies ==
  ASSUME IInv
  PROVE  NoDuplicateEvent /\ ProjectedBeforeSent /\ PublishedIsDelivered /\ SingleOwner
<1>1. TypeOK /\ StreamInv /\ TokenInv /\ RowInv
  BY DEF IInv, DeliveryInv
<1>2. \A i \in 1..Len(stream) : stream[i] \in dedupe /\ stream[i] \in Row \X User
  BY <1>1 DEF StreamInv, TypeOK
<1>3. ProjectedBeforeSent
  BY <1>1, <1>2 DEF RowInv, ProjectedBeforeSent
<1>4. PublishedIsDelivered
  BY <1>1 DEF RowInv, StreamInv, PublishedIsDelivered
<1>5. SingleOwner
  BY <1>1 DEF TokenInv, SingleOwner, HoldsLease
<1> QED BY <1>1, <1>3, <1>4, <1>5 DEF StreamInv

\* The invariant holds of every reachable state of the outbox.
THEOREM InvariantHolds == Spec => []IInv
<1>1. Init => IInv
  BY InitSafe
<1>2. IInv /\ [Next]_vars => IInv'
  BY StepSafe
<1> QED BY <1>1, <1>2, PTL DEF Spec

\* Every event reaches the stream at most once: retries, takeovers of expired
\* leases and unanswered XADDs of any number of workers add no second copy.
THEOREM EventsOnce == Spec => []NoDuplicateEvent
<1>1. IInv => NoDuplicateEvent
  BY InvImplies
<1> QED BY <1>1, InvariantHolds, PTL

\* No event of a message is on the stream before the projection of the message
\* has committed, whichever worker projected and whichever published.
THEOREM SentAfterProjection == Spec => []ProjectedBeforeSent
<1>1. IInv => ProjectedBeforeSent
  BY InvImplies
<1> QED BY <1>1, InvariantHolds, PTL

\* MarkPublished never marks a row that lacks an event of one of its targets.
THEOREM NoEventMissing == Spec => []PublishedIsDelivered
<1>1. IInv => PublishedIsDelivered
  BY InvImplies
<1> QED BY <1>1, InvariantHolds, PTL

\* The events of a chat are in the order of created_at for every user, late
\* commits apart, although workers that lost their lease go on publishing.
THEOREM OrderPreserved == Spec => []ChatOrder
<1>1. IInv => ChatOrder
  BY DEF IInv
<1> QED BY <1>1, InvariantHolds, PTL

\* The claim query works the rows of a chat off one at a time: while a row is
\* open, no later row of its chat is claimed, late commits apart.
THEOREM OneRowPerChat == Spec => []HeadOfLine
<1>1. IInv => HeadOfLine
  BY DEF IInv
<1> QED BY <1>1, InvariantHolds, PTL

\* At most one worker passes the lock token check of a row.
THEOREM LeaseExclusive == Spec => []SingleOwner
<1>1. IInv => SingleOwner
  BY InvImplies
<1> QED BY <1>1, InvariantHolds, PTL

-----------------------------------------------------------------------------
(* Settled rows *)

\* The three mark statements leave a settled row alone: its token is NoToken,
\* which no claimed record carries.
LEMMA ReleaseKeepsSettled ==
  ASSUME IInv, NEW w \in Worker, NEW r \in Row, NEW x \in Row, NEW released,
         task[w][r].pc # "idle", ReleaseIfHeld(w, r, released),
         row[x].status \in {"published", "dead"}
  PROVE  row'[x] = row[x]
<1>1. TypeOK
  BY DEF IInv
<1>2. CASE x = r
  <2>1. ~HoldsLease(w, r)
    BY <1>2, HeldIsOpen
  <2> QED BY <2>1 DEF ReleaseIfHeld
<1>3. CASE x # r
  BY <1>1, <1>3 DEF ReleaseIfHeld, TypeOK
<1> QED BY <1>2, <1>3

LEMMA StepKeepsSettled ==
  ASSUME IInv, [Next]_vars, NEW x \in Row, row[x].status \in {"published", "dead"}
  PROVE  /\ row'[x].status = row[x].status
         /\ row'[x].sentTo = row[x].sentTo
         /\ row'[x].attempt = row[x].attempt
<1>1. TypeOK
  BY DEF IInv
<1>2. CASE UNCHANGED row
  BY <1>2
<1>3. ASSUME NEW r \in Row, BeginWrite(r) \/ CommitWrite(r) \/ AbortWrite(r)
      PROVE  row'[x] = row[x]
  <2>1. x # r
    BY <1>3 DEF BeginWrite, CommitWrite, AbortWrite
  <2> QED BY <1>1, <1>3, <2>1 DEF BeginWrite, CommitWrite, AbortWrite, TypeOK
<1>4. ASSUME NEW w \in Worker, NEW S \in SUBSET Row, Claim(w, S) PROVE row'[x] = row[x]
  <2>1. x \notin S
    BY <1>4 DEF Claim, Eligible
  <2> QED BY <1>4, <2>1 DEF Claim
<1>5. ASSUME NEW w \in Worker, IdlePoll(w) \/ Crash(w) PROVE UNCHANGED row
  BY <1>5 DEF IdlePoll, Crash, vars
<1>6. ASSUME NEW w \in Worker, NEW r \in Row, ProcessRecord(w, r)
      PROVE  \/ UNCHANGED row
             \/ CommitProjection(r)
             \/ row'[x] = row[x]
  <2>1. CASE ProjectWrite(w, r) \/ ProjectError(w, r)
    BY <2>1 DEF ProjectWrite, ProjectError
  <2>2. CASE MarkPublished(w, r)
    BY <2>2, ReleaseKeepsSettled DEF MarkPublished
  <2>3. CASE MarkFailed(w, r)
    BY <2>3, ReleaseKeepsSettled DEF MarkFailed
  <2>4. CASE MarkDeadLetter(w, r)
    BY <2>4, ReleaseKeepsSettled DEF MarkDeadLetter
  <2>5. CASE \/ ProjectRead(w, r) \/ BuildEvents(w, r) \/ MarkError(w, r)
             \/ \E u \in User : Publish(w, r, u) \/ PublishError(w, r, u)
    BY <2>5 DEF ProjectRead, BuildEvents, MarkError, Publish, PublishError
  <2> QED BY <1>6, <2>1, <2>2, <2>3, <2>4, <2>5 DEF ProcessRecord
<1>7. ASSUME NEW r \in Row, LeaseExpires(r) \/ LeaseExpiresUnderOwner(r) \/ RetryDue(r)
      PROVE  row'[x] = row[x]
  <2>1. x # r
    BY <1>7 DEF LeaseExpires, LeaseExpiresUnderOwner, RetryDue, CanExpire
  <2> QED BY <1>1, <1>7, <2>1 DEF LeaseExpires, LeaseExpiresUnderOwner, RetryDue, TypeOK
<1>8. ASSUME NEW r \in Row, CommitProjection(r)
      PROVE  /\ row'[x].status = row[x].status
             /\ row'[x].sentTo = row[x].sentTo
             /\ row'[x].attempt = row[x].attempt
  BY <1>1, <1>8, CommitProjectionFields
<1> QED BY <1>2, <1>3, <1>4, <1>5, <1>6, <1>7, <1>8 DEF Next, vars

\* Published and dead rows keep their outcome, targets and attempt count under
\* every step of every worker, also of one that lost its lease long ago.
THEOREM OutcomeFinal == Spec => SettledIsFinal
<1>1. IInv /\ [Next]_vars =>
        [\A r \in Row : row[r].status \in {"published", "dead"} =>
           /\ row'[r].status = row[r].status
           /\ row'[r].sentTo = row[r].sentTo
           /\ row'[r].attempt = row[r].attempt]_vars
  BY StepKeepsSettled
<1> QED BY <1>1, InvariantHolds, PTL DEF Spec, SettledIsFinal

-----------------------------------------------------------------------------
(***************************************************************************)
(* Without stalls the projection is exactly-once: if no lease expires      *)
(* under a worker that is still busy with the row, every message moves the *)
(* unread counters at most once, through any number of crashes, failed     *)
(* statements and unanswered commits.  With ProjectedOnce violated when a  *)
(* lease does expire under its owner, the lease duration is the only thing *)
(* that keeps the counters right.                                          *)
(***************************************************************************)

\* A live task holds the row's token, and its lease has not expired; it only
\* projects a row that is not projected.
OnceInv ==
  \A r \in Row :
    /\ row[r].locked = "null" => row[r].token = NoToken
    /\ row[r].projections <= 1
    /\ row[r].projected = "null" => row[r].projections = 0
    /\ \A w \in Worker : task[w][r].pc # "idle" =>
         /\ row[r].token = task[w][r].token
         /\ row[r].locked = "fresh"
         /\ task[w][r].pc = "projecting" => row[r].projected = "null"

\* No two live tasks work on one row.
LEMMA OneTask ==
  ASSUME IInv, OnceInv, NEW r \in Row, NEW v \in Worker, NEW w \in Worker,
         task[v][r].pc # "idle", task[w][r].pc # "idle"
  PROVE  v = w
<1>1. TokenInv
  BY DEF IInv, DeliveryInv
<1> QED BY <1>1 DEF TokenInv, OnceInv

\* A step keeps OnceInv if it touches neither leases nor projections, and lets
\* no task start to project a projected row.
LEMMA OnceFrame ==
  ASSUME OnceInv,
         \A x \in Row :
           /\ row'[x].locked = row[x].locked
           /\ row'[x].token = row[x].token
           /\ row'[x].projected = row[x].projected
           /\ row'[x].projections = row[x].projections,
         \A w \in Worker, x \in Row : task'[w][x].pc # "idle" =>
           /\ task[w][x].pc # "idle"
           /\ task'[w][x].token = task[w][x].token
           /\ task'[w][x].pc = "projecting" => row[x].projected = "null"
  PROVE  OnceInv'
  BY DEF OnceInv

\* The same for the steps of processRecord that leave the rows alone.
LEMMA OnceGoto ==
  ASSUME IInv, OnceInv, NEW w \in Worker, NEW r \in Row, NEW label,
         Goto(w, r, label), UNCHANGED row,
         task[w][r].pc # "idle", label = "projecting" => row[r].projected = "null"
  PROVE  OnceInv'
<1>1. /\ task'[w][r].pc = label
      /\ task'[w][r].token = task[w][r].token
      /\ \A v \in Worker, x \in Row : v # w \/ x # r => task'[v][x] = task[v][x]
  BY GotoFields DEF IInv
<1>2. \A v \in Worker, x \in Row : task'[v][x].pc # "idle" =>
        /\ task[v][x].pc # "idle"
        /\ task'[v][x].token = task[v][x].token
        /\ task'[v][x].pc = "projecting" => row[x].projected = "null"
  BY <1>1 DEF OnceInv
<1> QED BY <1>2, OnceFrame

LEMMA OnceFinish ==
  ASSUME IInv, OnceInv, NEW w \in Worker, NEW r \in Row, Finish(w, r), UNCHANGED row
  PROVE  OnceInv'
<1>1. /\ task'[w][r].pc = "idle"
      /\ \A v \in Worker, x \in Row : v # w \/ x # r => task'[v][x] = task[v][x]
  BY FinishFields DEF IInv
<1> QED BY <1>1 DEF OnceInv

LEMMA OnceWrite ==
  ASSUME IInv, OnceInv, NEW r \in Row,
         BeginWrite(r) \/ CommitWrite(r) \/ AbortWrite(r) \/ RetryDue(r)
  PROVE  OnceInv'
<1>1. TypeOK /\ row[r] \in RowState
  BY RowReads DEF IInv
<1>2. PICK y : /\ row' = [row EXCEPT ![r] = y]
               /\ y.locked = row[r].locked /\ y.token = row[r].token
               /\ y.projected = row[r].projected /\ y.projections = row[r].projections
  <2>1. CASE BeginWrite(r)
    <3> DEFINE z == [row[r] EXCEPT !.status = "writing", !.created = clock]
    <3>1. row' = [row EXCEPT ![r] = z]
      BY <2>1 DEF BeginWrite
    <3>2. /\ z.locked = row[r].locked /\ z.token = row[r].token
          /\ z.projected = row[r].projected /\ z.projections = row[r].projections
      BY <1>1 DEF RowState
    <3> QED BY <3>1, <3>2
  <2>2. CASE CommitWrite(r)
    <3> DEFINE z == [row[r] EXCEPT !.status = "open"]
    <3>1. row' = [row EXCEPT ![r] = z]
      BY <2>2 DEF CommitWrite
    <3>2. /\ z.locked = row[r].locked /\ z.token = row[r].token
          /\ z.projected = row[r].projected /\ z.projections = row[r].projections
      BY <1>1 DEF RowState
    <3> QED BY <3>1, <3>2
  <2>3. CASE AbortWrite(r)
    <3> DEFINE z == [row[r] EXCEPT !.status = "aborted"]
    <3>1. row' = [row EXCEPT ![r] = z]
      BY <2>3 DEF AbortWrite
    <3>2. /\ z.locked = row[r].locked /\ z.token = row[r].token
          /\ z.projected = row[r].projected /\ z.projections = row[r].projections
      BY <1>1 DEF RowState
    <3> QED BY <3>1, <3>2
  <2>4. CASE RetryDue(r)
    <3> DEFINE z == [row[r] EXCEPT !.available = "due"]
    <3>1. row' = [row EXCEPT ![r] = z]
      BY <2>4 DEF RetryDue
    <3>2. /\ z.locked = row[r].locked /\ z.token = row[r].token
          /\ z.projected = row[r].projected /\ z.projections = row[r].projections
      BY <1>1 DEF RowState
    <3> QED BY <3>1, <3>2
  <2> QED BY <2>1, <2>2, <2>3, <2>4
<1>3. row'[r] = y /\ \A x \in Row : x # r => row'[x] = row[x]
  BY <1>1, <1>2, RowLookup
<1>4. UNCHANGED task
  BY DEF BeginWrite, CommitWrite, AbortWrite, RetryDue
<1> QED BY <1>2, <1>3, <1>4 DEF OnceInv

\* The only task on the row commits the projection and leaves "projecting".
LEMMA OnceProject ==
  ASSUME IInv, OnceInv, NEW w \in Worker, NEW r \in Row, NEW label,
         task[w][r].pc = "projecting", CommitProjection(r), Goto(w, r, label),
         label \notin {"idle", "projecting"}
  PROVE  OnceInv'
<1>1. TypeOK /\ row[r] \in RowState
  BY RowReads DEF IInv
<1>2. /\ task'[w][r].pc = label
      /\ task'[w][r].token = task[w][r].token
      /\ \A v \in Worker, x \in Row : v # w \/ x # r => task'[v][x] = task[v][x]
  BY <1>1, GotoFields
<1>3. row[r].projections = 0 /\ row[r].token = task[w][r].token /\ row[r].locked = "fresh"
  BY DEF OnceInv
<1> DEFINE y == [row[r] EXCEPT !.projected = "set", !.projections = row[r].projections + 1]
<1>4. row' = [row EXCEPT ![r] = y]
  BY DEF CommitProjection
<1>5. y.projected = "set" /\ y.token = row[r].token /\ y.locked = row[r].locked
  BY <1>1 DEF RowState
<1>6. y.projections = 1
  BY <1>1, <1>3 DEF RowState
<1> HIDE DEF y
<1>7. row'[r] = y /\ \A x \in Row : x # r => row'[x] = row[x]
  BY <1>1, <1>4, RowLookup
<1>8. \A v \in Worker : task'[v][r].pc # "idle" => v = w
  BY <1>2, OneTask
<1> QED BY <1>2, <1>3, <1>5, <1>6, <1>7, <1>8 DEF OnceInv

\* The only task on the row releases the lease and ends.
LEMMA OnceRelease ==
  ASSUME IInv, OnceInv, NEW w \in Worker, NEW r \in Row, NEW released \in RowState,
         task[w][r].pc # "idle", ReleaseIfHeld(w, r, released), Finish(w, r),
         released.projected = row[r].projected,
         released.projections = row[r].projections
  PROVE  OnceInv'
<1>1. TypeOK
  BY DEF IInv
<1>2. /\ task'[w][r].pc = "idle"
      /\ \A v \in Worker, x \in Row : v # w \/ x # r => task'[v][x] = task[v][x]
  BY <1>1, FinishFields
<1>3. CASE HoldsLease(w, r)
  <2> DEFINE y == [released EXCEPT !.locked = "null", !.token = NoToken]
  <2>1. row' = [row EXCEPT ![r] = y]
    BY <1>3 DEF ReleaseIfHeld
  <2>2. /\ y.locked = "null" /\ y.token = NoToken
        /\ y.projected = row[r].projected /\ y.projections = row[r].projections
    BY DEF RowState
  <2> HIDE DEF y
  <2>3. row'[r] = y /\ \A x \in Row : x # r => row'[x] = row[x]
    BY <1>1, <2>1, RowLookup
  <2>4. \A v \in Worker : task'[v][r].pc = "idle"
    BY <1>2, OneTask
  <2> QED BY <1>2, <2>2, <2>3, <2>4 DEF OnceInv
<1>4. CASE ~HoldsLease(w, r)
  BY <1>4, OnceFinish DEF ReleaseIfHeld
<1> QED BY <1>3, <1>4

LEMMA OnceMark ==
  ASSUME IInv, OnceInv, NEW w \in Worker, NEW r \in Row,
         MarkPublished(w, r) \/ MarkFailed(w, r) \/ MarkDeadLetter(w, r)
  PROVE  OnceInv'
<1>1. row[r] \in RowState /\ task[w][r].targets \in SUBSET User
  BY RowReads, TaskReads DEF IInv
<1>2. CASE MarkPublished(w, r)
  <2> DEFINE y == [row[r] EXCEPT !.status = "published", !.sentTo = task[w][r].targets]
  <2>1. y \in RowState /\ y.projected = row[r].projected /\ y.projections = row[r].projections
    BY <1>1 DEF RowState
  <2>2. task[w][r].pc # "idle" /\ ReleaseIfHeld(w, r, y) /\ Finish(w, r)
    BY <1>2 DEF MarkPublished
  <2> HIDE DEF y
  <2> QED BY <2>1, <2>2, OnceRelease
<1>3. CASE MarkFailed(w, r)
  <2> DEFINE y == [row[r] EXCEPT !.available = "later"]
  <2>1. y \in RowState /\ y.projected = row[r].projected /\ y.projections = row[r].projections
    BY <1>1 DEF RowState
  <2>2. task[w][r].pc # "idle" /\ ReleaseIfHeld(w, r, y) /\ Finish(w, r)
    BY <1>3 DEF MarkFailed
  <2> HIDE DEF y
  <2> QED BY <2>1, <2>2, OnceRelease
<1>4. CASE MarkDeadLetter(w, r)
  <2> DEFINE y == [row[r] EXCEPT !.status = "dead"]
  <2>1. y \in RowState /\ y.projected = row[r].projected /\ y.projections = row[r].projections
    BY <1>1 DEF RowState
  <2>2. task[w][r].pc # "idle" /\ ReleaseIfHeld(w, r, y) /\ Finish(w, r)
    BY <1>4 DEF MarkDeadLetter
  <2> HIDE DEF y
  <2> QED BY <2>1, <2>2, OnceRelease
<1> QED BY <1>2, <1>3, <1>4

LEMMA OnceExpire ==
  ASSUME IInv, OnceInv, NEW r \in Row, LeaseExpires(r)
  PROVE  OnceInv'
<1>1. TypeOK /\ row[r] \in RowState
  BY RowReads DEF IInv
<1>2. \A w \in Worker : task[w][r].pc = "idle"
  BY DEF LeaseExpires, OwnerAlive, OnceInv
<1> DEFINE y == [row[r] EXCEPT !.locked = "expired"]
<1>3. row' = [row EXCEPT ![r] = y] /\ UNCHANGED task
  BY DEF LeaseExpires
<1>4. y.locked = "expired" /\ y.projected = row[r].projected /\ y.projections = row[r].projections
  BY <1>1 DEF RowState
<1> HIDE DEF y
<1>5. row'[r] = y /\ \A x \in Row : x # r => row'[x] = row[x]
  BY <1>1, <1>3, RowLookup
<1> QED BY <1>2, <1>3, <1>4, <1>5 DEF OnceInv

LEMMA OnceClaim ==
  ASSUME IInv, OnceInv, NEW w \in Worker, NEW S \in SUBSET Row, Claim(w, S)
  PROVE  OnceInv'
<1>1. TypeOK
  BY DEF IInv
<1>2. \A r \in S : row[r].locked \in {"null", "expired"}
  BY DEF Claim, Eligible
<1>3. \A v \in Worker, r \in S : task[v][r].pc = "idle"
  BY <1>2 DEF OnceInv
<1>4. \A x \in Row : x \notin S => row'[x] = row[x]
  BY DEF Claim
<1>5. \A x \in S : /\ row'[x].locked = "fresh"
                   /\ row'[x].token = nextToken
                   /\ row'[x].projected = row[x].projected
                   /\ row'[x].projections = row[x].projections
  <2> TAKE x \in S
  <2>1. row[x] \in RowState
    BY <1>1, RowReads
  <2> DEFINE n == row[x].attempt + 1
  <2>2. row'[x] = [row[x] EXCEPT !.locked = "fresh", !.token = nextToken, !.attempt = n]
    BY DEF Claim
  <2> HIDE DEF n
  <2> QED BY <2>1, <2>2 DEF RowState
<1>6. \A v \in Worker, x \in Row : v # w => task'[v][x] = task[v][x]
  BY <1>1 DEF Claim, TypeOK
<1>7. \A x \in Row : task'[w][x].pc # "idle" =>
        x \in S /\ task'[w][x].pc = "queued" /\ task'[w][x].token = nextToken
  <2> TAKE x \in Row
  <2>1. task'[w][x] = IF x \in S THEN [NoTask EXCEPT !.pc = "queued", !.token = nextToken,
                                                     !.attempt = row[x].attempt + 1]
                                 ELSE NoTask
    BY <1>1 DEF Claim, TypeOK
  <2> QED BY <2>1 DEF NoTask
<1>8. ASSUME NEW x \in Row, x \in S
      PROVE  \A v \in Worker : task'[v][x].pc # "idle" =>
               v = w /\ task'[v][x].token = nextToken /\ task'[v][x].pc = "queued"
  BY <1>3, <1>6, <1>7, <1>8
<1>9. ASSUME NEW x \in Row, x \notin S
      PROVE  \A v \in Worker : task'[v][x].pc # "idle" => task'[v][x] = task[v][x]
  BY <1>6, <1>7, <1>9
<1> QED BY <1>4, <1>5, <1>8, <1>9 DEF OnceInv

LEMMA OnceInit == Init => OnceInv
<1> SUFFICES ASSUME Init PROVE OnceInv
  OBVIOUS
<1>1. \A r \in Row : row[r] = AbsentRow
  BY DEF Init
<1>2. \A w \in Worker, r \in Row : task[w][r].pc = "idle"
  BY DEF Init, NoTask
<1> QED BY <1>1, <1>2 DEF OnceInv, AbsentRow

LEMMA OnceRecord ==
  ASSUME IInv, OnceInv, NEW w \in Worker, NEW r \in Row, ProcessRecord(w, r)
  PROVE  OnceInv'
<1>1. TypeOK /\ row[r] \in RowState /\ task[w][r] \in TaskState
  BY RowReads, TaskReads DEF IInv
<1>2. CASE ProjectRead(w, r)
  <2>1. task[w][r].pc # "idle" /\ UNCHANGED row
    BY <1>2 DEF ProjectRead
  <2>2. row[r].projected \in {"null", "set"}
    BY <1>1 DEF RowState
  <2>3. CASE Goto(w, r, "failed")
    BY <2>1, <2>3, OnceGoto
  <2>4. CASE row[r].projected = "set" /\ Goto(w, r, "building")
    BY <2>1, <2>4, OnceGoto
  <2>5. CASE row[r].projected = "null" /\ Goto(w, r, "projecting")
    BY <2>1, <2>5, OnceGoto
  <2> QED BY <1>2, <2>2, <2>3, <2>4, <2>5 DEF ProjectRead
<1>3. CASE ProjectWrite(w, r)
  BY <1>3, OnceProject DEF ProjectWrite
<1>4. CASE ProjectError(w, r)
  <2>1. task[w][r].pc = "projecting" /\ Goto(w, r, "failed")
    BY <1>4 DEF ProjectError
  <2>2. CASE CommitProjection(r)
    BY <2>1, <2>2, OnceProject
  <2>3. CASE UNCHANGED row
    BY <2>1, <2>3, OnceGoto
  <2> QED BY <1>4, <2>2, <2>3 DEF ProjectError
<1>5. CASE BuildEvents(w, r)
  <2>1. task[w][r].pc = "building" /\ UNCHANGED row
    BY <1>5 DEF BuildEvents
  <2>2. CASE Goto(w, r, "failed")
    BY <2>1, <2>2, OnceGoto
  <2>3. CASE ~Goto(w, r, "failed")
    <3>1. PICK T \in SUBSET User :
            task' = [task EXCEPT ![w][r] = [@ EXCEPT !.pc = "publishing", !.targets = T, !.todo = T]]
      BY <1>5, <2>3 DEF BuildEvents
    <3> DEFINE y == [task[w][r] EXCEPT !.pc = "publishing", !.targets = T, !.todo = T]
    <3>2. y.token = task[w][r].token /\ y.pc = "publishing"
      BY <1>1 DEF TaskState
    <3>3. task' = [task EXCEPT ![w][r] = y]
      BY <3>1
    <3> HIDE DEF y
    <3>4. /\ task'[w][r] = y
          /\ \A v \in Worker, x \in Row : v # w \/ x # r => task'[v][x] = task[v][x]
      BY <1>1, <3>3 DEF TypeOK
    <3> QED BY <2>1, <3>2, <3>4 DEF OnceInv
  <2> QED BY <2>2, <2>3
<1>6. ASSUME NEW u \in User, Publish(w, r, u) PROVE OnceInv'
  <2> DEFINE y == [task[w][r] EXCEPT !.todo = task[w][r].todo \ {u}]
  <2>1. task[w][r].pc = "publishing" /\ task' = [task EXCEPT ![w][r] = y] /\ UNCHANGED row
    BY <1>6 DEF Publish
  <2>2. y.token = task[w][r].token /\ y.pc = "publishing"
    BY <1>1, <2>1 DEF TaskState
  <2> HIDE DEF y
  <2>3. /\ task'[w][r] = y
        /\ \A v \in Worker, x \in Row : v # w \/ x # r => task'[v][x] = task[v][x]
    BY <1>1, <2>1 DEF TypeOK
  <2> QED BY <2>1, <2>2, <2>3 DEF OnceInv
<1>7. ASSUME NEW u \in User, PublishError(w, r, u) PROVE OnceInv'
  BY <1>7, OnceGoto DEF PublishError
<1>8. CASE MarkPublished(w, r) \/ MarkFailed(w, r) \/ MarkDeadLetter(w, r)
  BY <1>8, OnceMark
<1>9. CASE MarkError(w, r)
  BY <1>9, OnceFinish DEF MarkError
<1> QED BY <1>2, <1>3, <1>4, <1>5, <1>6, <1>7, <1>8, <1>9 DEF ProcessRecord

LEMMA OnceStep ==
  ASSUME MaxStalls = 0, IInv, OnceInv, [Next]_vars
  PROVE  OnceInv'
<1>1. TypeOK
  BY DEF IInv
<1>2. CASE UNCHANGED vars
  BY <1>2 DEF OnceInv, vars
<1>3. ASSUME NEW r \in Row, BeginWrite(r) \/ CommitWrite(r) \/ AbortWrite(r) \/ RetryDue(r) PROVE OnceInv'
  BY <1>3, OnceWrite
<1>4. ASSUME NEW w \in Worker, NEW S \in SUBSET Row, Claim(w, S) PROVE OnceInv'
  BY <1>4, OnceClaim
<1>5. ASSUME NEW w \in Worker, IdlePoll(w) PROVE OnceInv'
  BY <1>2, <1>5 DEF IdlePoll
<1>6. ASSUME NEW w \in Worker, Crash(w) PROVE OnceInv'
  <2>1. \A x \in Row : task'[w][x].pc = "idle"
    BY <1>1, <1>6 DEF Crash, TypeOK, NoTask
  <2>2. \A v \in Worker, x \in Row : v # w => task'[v][x] = task[v][x]
    BY <1>1, <1>6 DEF Crash, TypeOK
  <2>3. UNCHANGED row
    BY <1>6 DEF Crash
  <2> QED BY <2>1, <2>2, <2>3 DEF OnceInv
<1>7. ASSUME NEW w \in Worker, NEW r \in Row, ProcessRecord(w, r) PROVE OnceInv'
  BY <1>7, OnceRecord
<1>8. ASSUME NEW r \in Row, LeaseExpires(r) PROVE OnceInv'
  BY <1>8, OnceExpire
<1>9. ASSUME NEW r \in Row, LeaseExpiresUnderOwner(r) PROVE FALSE
  BY <1>1, <1>9 DEF LeaseExpiresUnderOwner, TypeOK
<1> QED BY <1>2, <1>3, <1>4, <1>5, <1>6, <1>7, <1>8, <1>9 DEF Next

\* If no lease expires under a live owner, Project moves the unread counters at
\* most once per message, whatever crashes and fails.
THEOREM OnceWithoutStalls ==
  ASSUME MaxStalls = 0
  PROVE  Spec => []ProjectedOnce
<1>1. Init => OnceInv
  BY OnceInit
<1>2. IInv /\ OnceInv /\ [Next]_vars => OnceInv'
  BY OnceStep
<1>3. OnceInv => ProjectedOnce
  BY DEF OnceInv, ProjectedOnce
<1> QED BY <1>1, <1>2, <1>3, InvariantHolds, PTL DEF Spec

-----------------------------------------------------------------------------
(***************************************************************************)
(* Outbox implements EventLog: the events are stream, the outcome of a row *)
(* is its status once it is published or dead, and its targets are sentTo. *)
(***************************************************************************)

outcomes == [r \in Row |-> OutcomeOf(r)]

sent == [r \in Row |-> row[r].sentTo]

\* A step that shows nothing: no row gets or loses an outcome or its targets.
LEMMA Invisible ==
  ASSUME stream' = stream,
         \A x \in Row : OutcomeOf(x)' = OutcomeOf(x) /\ row'[x].sentTo = row[x].sentTo
  PROVE  UNCHANGED <<stream, outcomes, sent>>
  BY DEF outcomes, sent

\* One row of the table is replaced by one with the same targets, and neither
\* the old nor the new one is settled.
LEMMA UnsettledUpdate ==
  ASSUME TypeOK, NEW r \in Row, NEW y,
         row' = [row EXCEPT ![r] = y], stream' = stream,
         row[r].status \notin {"published", "dead"},
         y.status \notin {"published", "dead"},
         y.sentTo = row[r].sentTo
  PROVE  UNCHANGED <<stream, outcomes, sent>>
<1>1. row'[r] = y /\ \A x \in Row : x # r => row'[x] = row[x]
  BY RowLookup
<1>2. \A x \in Row : OutcomeOf(x)' = OutcomeOf(x) /\ row'[x].sentTo = row[x].sentTo
  BY <1>1 DEF OutcomeOf
<1> QED BY <1>2, Invisible

LEMMA WritesInvisible ==
  ASSUME TypeOK, NEW r \in Row, BeginWrite(r) \/ CommitWrite(r) \/ AbortWrite(r)
  PROVE  UNCHANGED <<stream, outcomes, sent>>
<1>1. row[r] \in RowState
  BY RowReads
<1>2. CASE BeginWrite(r)
  <2> DEFINE y == [row[r] EXCEPT !.status = "writing", !.created = clock]
  <2>1. y.status = "writing" /\ y.sentTo = row[r].sentTo
    BY <1>1 DEF RowState
  <2>2. row' = [row EXCEPT ![r] = y] /\ stream' = stream /\ row[r].status = "absent"
    BY <1>2 DEF BeginWrite
  <2> HIDE DEF y
  <2> QED BY <2>1, <2>2, UnsettledUpdate
<1>3. CASE CommitWrite(r)
  <2> DEFINE y == [row[r] EXCEPT !.status = "open"]
  <2>1. y.status = "open" /\ y.sentTo = row[r].sentTo
    BY <1>1 DEF RowState
  <2>2. row' = [row EXCEPT ![r] = y] /\ stream' = stream /\ row[r].status = "writing"
    BY <1>3 DEF CommitWrite
  <2> HIDE DEF y
  <2> QED BY <2>1, <2>2, UnsettledUpdate
<1>4. CASE AbortWrite(r)
  <2> DEFINE y == [row[r] EXCEPT !.status = "aborted"]
  <2>1. y.status = "aborted" /\ y.sentTo = row[r].sentTo
    BY <1>1 DEF RowState
  <2>2. row' = [row EXCEPT ![r] = y] /\ stream' = stream /\ row[r].status = "writing"
    BY <1>4 DEF AbortWrite
  <2> HIDE DEF y
  <2> QED BY <2>1, <2>2, UnsettledUpdate
<1> QED BY <1>2, <1>3, <1>4

LEMMA TimeInvisible ==
  ASSUME TypeOK, NEW r \in Row, LeaseExpires(r) \/ LeaseExpiresUnderOwner(r) \/ RetryDue(r)
  PROVE  UNCHANGED <<stream, outcomes, sent>>
<1>1. row[r] \in RowState
  BY RowReads
<1>2. CASE LeaseExpires(r) \/ LeaseExpiresUnderOwner(r)
  <2> DEFINE y == [row[r] EXCEPT !.locked = "expired"]
  <2>1. y.status = row[r].status /\ y.sentTo = row[r].sentTo
    BY <1>1 DEF RowState
  <2>2. row' = [row EXCEPT ![r] = y] /\ stream' = stream /\ row[r].status = "open"
    BY <1>2 DEF LeaseExpires, LeaseExpiresUnderOwner, CanExpire
  <2> HIDE DEF y
  <2> QED BY <2>1, <2>2, UnsettledUpdate
<1>3. CASE RetryDue(r)
  <2> DEFINE y == [row[r] EXCEPT !.available = "due"]
  <2>1. y.status = row[r].status /\ y.sentTo = row[r].sentTo
    BY <1>1 DEF RowState
  <2>2. row' = [row EXCEPT ![r] = y] /\ stream' = stream /\ row[r].status = "open"
    BY <1>3 DEF RetryDue
  <2> HIDE DEF y
  <2> QED BY <2>1, <2>2, UnsettledUpdate
<1> QED BY <1>2, <1>3

LEMMA ClaimInvisible ==
  ASSUME TypeOK, NEW w \in Worker, NEW S \in SUBSET Row, Claim(w, S)
  PROVE  UNCHANGED <<stream, outcomes, sent>>
<1>1. stream' = stream
  BY DEF Claim
<1>2. ASSUME NEW x \in Row
      PROVE  row'[x].status = row[x].status /\ row'[x].sentTo = row[x].sentTo
  <2>1. row[x] \in RowState
    BY RowReads
  <2>2. CASE x \in S
    <3>1. row'[x] = [row[x] EXCEPT !.locked = "fresh", !.token = nextToken, !.attempt = @ + 1]
      BY <2>2 DEF Claim
    <3> QED BY <2>1, <3>1 DEF RowState
  <2>3. CASE x \notin S
    BY <2>3 DEF Claim
  <2> QED BY <2>2, <2>3
<1> QED BY <1>1, <1>2, Invisible DEF OutcomeOf

LEMMA ProjectionInvisible ==
  ASSUME TypeOK, NEW r \in Row, CommitProjection(r) \/ UNCHANGED row, stream' = stream
  PROVE  UNCHANGED <<stream, outcomes, sent>>
<1>1. \A x \in Row : row'[x].status = row[x].status /\ row'[x].sentTo = row[x].sentTo
  BY CommitProjectionFields
<1> QED BY <1>1, Invisible DEF OutcomeOf

\* XADD adds an event the log does not hold, or nothing.
LEMMA XaddAdds ==
  ASSUME IInv, NEW r \in Row, NEW u \in User, Xadd(r, u), row' = row
  PROVE  [Log!Next]_<<stream, outcomes, sent>>
<1>1. outcomes' = outcomes /\ sent' = sent
  BY DEF outcomes, sent, OutcomeOf
<1>2. CASE <<r, u>> \in dedupe
  BY <1>1, <1>2 DEF Xadd
<1>3. CASE <<r, u>> \notin dedupe
  <2>1. stream' = Append(stream, <<r, u>>)
    BY <1>3 DEF Xadd
  <2>2. \A i \in 1..Len(stream) : stream[i] # <<r, u>>
    BY <1>3 DEF IInv, DeliveryInv, StreamInv
  <2>3. Log!Add(r, u)
    BY <1>1, <2>1, <2>2 DEF Log!Add, Log!Logged, outcomes, sent
  <2> QED BY <2>3 DEF Log!Next
<1> QED BY <1>2, <1>3

\* The mark statements: the row leaves its lease unsettled, settled, or not at all.
LEMMA MarkFailedInvisible ==
  ASSUME IInv, NEW w \in Worker, NEW r \in Row, MarkFailed(w, r)
  PROVE  UNCHANGED <<stream, outcomes, sent>>
<1>1. TypeOK
  BY DEF IInv
<1> DEFINE y == [row[r] EXCEPT !.available = "later"]
<1>2. /\ task[w][r].pc # "idle" /\ stream' = stream /\ ReleaseIfHeld(w, r, y)
  BY DEF MarkFailed
<1>3. y \in RowState /\ y.status = row[r].status /\ y.sentTo = row[r].sentTo
  <2>1. row[r] \in RowState
    BY <1>1, RowReads
  <2> QED BY <2>1 DEF RowState
<1> HIDE DEF y
<1>4. CASE HoldsLease(w, r)
  <2>1. \A x \in Row : row'[x].status = row[x].status /\ row'[x].sentTo = row[x].sentTo
    BY <1>1, <1>2, <1>3, <1>4, ReleaseFields
  <2> QED BY <1>2, <2>1, Invisible DEF OutcomeOf
<1>5. CASE ~HoldsLease(w, r)
  <2>1. row' = row
    BY <1>2, <1>5 DEF ReleaseIfHeld
  <2> QED BY <1>2, <2>1, Invisible DEF OutcomeOf
<1> QED BY <1>4, <1>5

LEMMA MarkPublishedSettles ==
  ASSUME IInv, NEW w \in Worker, NEW r \in Row, MarkPublished(w, r)
  PROVE  [Log!Next]_<<stream, outcomes, sent>>
<1>1. TypeOK /\ TaskInv /\ StreamInv
  BY DEF IInv, DeliveryInv
<1>0. PICK T : T = task[w][r].targets
  OBVIOUS
<1> DEFINE y == [row[r] EXCEPT !.status = "published", !.sentTo = T]
<1>2. /\ task[w][r].pc = "publishing" /\ task[w][r].todo = {}
      /\ ReleaseIfHeld(w, r, y) /\ stream' = stream
  BY <1>0 DEF MarkPublished
<1>3. T \in SUBSET User /\ row[r] \in RowState
  BY <1>0, <1>1, RowReads, TaskReads
<1>4. y \in RowState /\ y.status = "published" /\ y.sentTo = T
  BY <1>3 DEF RowState
<1>5. \A u \in T : \E i \in 1..Len(stream) : stream[i] = <<r, u>>
  <2>1. \A u \in T : <<r, u>> \in dedupe
    BY <1>0, <1>1, <1>2 DEF TaskInv
  <2> QED BY <1>1, <2>1 DEF StreamInv
<1> HIDE DEF y
<1>6. CASE HoldsLease(w, r)
  <2>1. row[r].status = "open"
    BY <1>2, <1>6, HeldIsOpen
  <2>2. /\ row'[r].status = "published" /\ row'[r].sentTo = T
        /\ \A x \in Row : x # r => row'[x] = row[x]
    BY <1>1, <1>2, <1>4, <1>6, ReleaseFields
  <2>3. outcomes[r] = "none"
    BY <2>1 DEF outcomes, OutcomeOf
  <2>4. outcomes' = [outcomes EXCEPT ![r] = "published"]
    BY <2>2 DEF outcomes, OutcomeOf
  <2>5. sent' = [sent EXCEPT ![r] = T]
    BY <2>2 DEF sent
  <2>6. Log!Settle(r, T)
    BY <1>2, <1>5, <2>3, <2>4, <2>5 DEF Log!Settle, Log!Logged, outcomes, sent
  <2> QED BY <1>3, <2>6 DEF Log!Next
<1>7. CASE ~HoldsLease(w, r)
  <2>1. row' = row
    BY <1>2, <1>7 DEF ReleaseIfHeld
  <2> QED BY <1>2, <2>1, Invisible DEF OutcomeOf
<1> QED BY <1>6, <1>7

LEMMA MarkDeadLetterGivesUp ==
  ASSUME IInv, NEW w \in Worker, NEW r \in Row, MarkDeadLetter(w, r)
  PROVE  [Log!Next]_<<stream, outcomes, sent>>
<1>1. TypeOK
  BY DEF IInv
<1> DEFINE y == [row[r] EXCEPT !.status = "dead"]
<1>2. /\ task[w][r].pc # "idle" /\ ReleaseIfHeld(w, r, y) /\ stream' = stream
  BY DEF MarkDeadLetter
<1>3. y \in RowState /\ y.status = "dead" /\ y.sentTo = row[r].sentTo
  <2>1. row[r] \in RowState
    BY <1>1, RowReads
  <2> QED BY <2>1 DEF RowState
<1> HIDE DEF y
<1>4. CASE HoldsLease(w, r)
  <2>1. row[r].status = "open"
    BY <1>2, <1>4, HeldIsOpen
  <2>2. /\ row'[r].status = "dead" /\ row'[r].sentTo = row[r].sentTo
        /\ \A x \in Row : x # r => row'[x] = row[x]
    BY <1>1, <1>2, <1>3, <1>4, ReleaseFields
  <2>3. outcomes[r] = "none"
    BY <2>1 DEF outcomes, OutcomeOf
  <2>4. outcomes' = [outcomes EXCEPT ![r] = "dead"]
    BY <2>2 DEF outcomes, OutcomeOf
  <2>5. sent' = sent
    BY <2>2 DEF sent
  <2>6. Log!GiveUp(r)
    BY <1>2, <2>3, <2>4, <2>5 DEF Log!GiveUp, outcomes, sent
  <2> QED BY <2>6 DEF Log!Next
<1>5. CASE ~HoldsLease(w, r)
  <2>1. row' = row
    BY <1>2, <1>5 DEF ReleaseIfHeld
  <2> QED BY <1>2, <2>1, Invisible DEF OutcomeOf
<1> QED BY <1>4, <1>5

LEMMA ProcessRecordRefines ==
  ASSUME IInv, NEW w \in Worker, NEW r \in Row, ProcessRecord(w, r)
  PROVE  [Log!Next]_<<stream, outcomes, sent>>
<1>1. TypeOK
  BY DEF IInv
<1>2. CASE ProjectWrite(w, r) \/ ProjectError(w, r)
  BY <1>1, <1>2, ProjectionInvisible DEF ProjectWrite, ProjectError
<1>3. CASE ProjectRead(w, r) \/ BuildEvents(w, r) \/ MarkError(w, r)
  BY <1>1, <1>3, ProjectionInvisible DEF ProjectRead, BuildEvents, MarkError
<1>4. ASSUME NEW u \in User, Publish(w, r, u) \/ PublishError(w, r, u)
      PROVE  [Log!Next]_<<stream, outcomes, sent>>
  <2>1. row' = row /\ (Xadd(r, u) \/ stream' = stream)
    BY <1>4 DEF Publish, PublishError
  <2> QED BY <1>1, <2>1, XaddAdds, ProjectionInvisible
<1> QED BY <1>2, <1>3, <1>4, MarkPublishedSettles, MarkDeadLetterGivesUp, MarkFailedInvisible,
          ProcessRecord(w, r) DEF ProcessRecord

LEMMA StepRefines ==
  IInv /\ [Next]_vars => [Log!Next]_<<stream, outcomes, sent>>
<1> SUFFICES ASSUME IInv, [Next]_vars PROVE [Log!Next]_<<stream, outcomes, sent>>
  OBVIOUS
<1>1. TypeOK
  BY DEF IInv
<1>2. CASE UNCHANGED vars
  BY <1>2, Invisible DEF vars, OutcomeOf
<1>3. CASE \E w \in Worker : IdlePoll(w) \/ Crash(w)
  BY <1>3, Invisible DEF IdlePoll, Crash, vars, OutcomeOf
<1> QED BY <1>1, <1>2, <1>3, WritesInvisible, ClaimInvisible, TimeInvisible,
          ProcessRecordRefines DEF Next

\* The outbox implements the event log: its initial states are initial states of
\* the log, and every step of a request, a worker, a crash or a timeout adds one
\* new event, gives one row its only outcome, or is invisible.
THEOREM OutboxImplementsEventLog == Spec => ImplementsEventLog
<1>1. Init => Log!Init
  BY DEF Init, Log!Init, OutcomeOf, AbsentRow
<1>2. IInv /\ [Next]_vars => [Log!Next]_(Log!state)
  BY StepRefines DEF Log!state, outcomes, sent
<1> QED BY <1>1, <1>2, InvariantHolds, PTL DEF Spec, ImplementsEventLog, Log!Spec

=============================================================================
