----------------------------- MODULE PushProofs -----------------------------
(***************************************************************************)
(* Theorems about Push, for every set of messages, devices, sessions,      *)
(* tokens, workers and callers: its types, that opt-outs are respected,    *)
(* that duplicates and attempts are bounded by the faults, that outcomes   *)
(* are final, and that stale writes reach neither a new registration nor a *)
(* new token.                                                              *)
(***************************************************************************)
EXTENDS Push, FiniteSetTheorems, TLAPS

-----------------------------------------------------------------------------
(* The invariant *)

Delivery == Event \X Device

\* A worker that is to record an outcome has one.
OutcomeInv == \A w \in Worker : task[w].pc = "finish" => task[w].outcome # "none"

\* Binding ids are fresh, and one stands for one session and one token: a
\* registration under way that saw the current binding saw the current row, its
\* disabling by FCM aside; a delivery with the current binding is for the
\* current user, who has not unregistered.
BindInv ==
  /\ \A d \in Device : device[d].binding < nextBinding
  /\ \A c \in Caller : request[c].pc = "write" =>
       LET q == request[c] IN
       /\ q.saw.binding < nextBinding
       /\ q.saw.binding = device[q.on].binding =>
            /\ q.saw.session = device[q.on].session
            /\ q.saw.token = device[q.on].token
            /\ device[q.on].state = "off" => q.saw.state = "off"
  /\ \A x \in Delivery : delivery[x].state # "absent" =>
       /\ delivery[x].binding < nextBinding
       /\ delivery[x].binding = device[x[2]].binding =>
            /\ device[x[2]].state \in {"on", "dead"}
            /\ UserOf[device[x[2]].session] = delivery[x].user

\* Lock tokens are fresh and no two busy workers have the same one; a lease is
\* on a pending delivery.
LockInv ==
  /\ nextToken > 0
  /\ \A x \in Delivery : /\ delivery[x].lock < nextToken
                         /\ delivery[x].locked = "fresh" => delivery[x].state = "pending"
  /\ \A w \in Worker : task[w].pc # "idle" =>
       /\ task[w].lock < nextToken
       /\ delivery[task[w].on].state # "absent"
       /\ \A v \in Worker \ {w} : task[v].pc # "idle" => task[v].lock # task[w].lock

\* The gate of check k on a delivery to user u under session s.
GateAt(k, x, u, s) == GateOf(Checks[k], x[1], u, s)

\* What was closed when w claimed its delivery, and is closed still, one of the
\* checks to come will find.
ShutAt(w) ==
  LET t == task[w]
      x == task[w].on
  IN
  /\ t.pc = "check" /\ t.next = 1 =>
       OptedOut(x) \/ \A g \in t.shut :
         g \in closed /\ \E k \in 2..5 : g = GateAt(k, x, delivery[x].user, device[x[2]].session)
  /\ t.pc = "check" /\ t.next # 1 =>
       \A g \in t.shut :
         g \in closed /\ \E k \in (t.next)..5 : g = GateAt(k, x, delivery[x].user, t.session)
  /\ t.pc = "send" => t.shut = {}
  /\ t.pc = "disable" => t.token \in unregistered

ShutInv == \A w \in Worker : ShutAt(w)

\* The workers on x that have lost their lease and may still send.
Stale(x) ==
  {w \in Worker : /\ task[w].pc \in {"check", "send"}
                  /\ task[w].on = x
                  /\ ~(task[w].lock = delivery[x].lock /\ delivery[x].locked = "fresh")}

\* A worker has sent x and holds its lease, with the outcome still to record.
SentHeld(x) ==
  \E w \in Worker : /\ task[w].pc = "finish" /\ task[w].outcome = "sent"
                    /\ task[w].on = x
                    /\ task[w].lock = delivery[x].lock /\ delivery[x].locked = "fresh"

Done(x) == delivery[x].state \notin {"absent", "pending"}

\* One notification for the outcome that is or can still be recorded; one for
\* each fault, which may be one a worker without a lease has yet to send.
Credit(x) == Done(x) \/ SentHeld(x)

CountAt(x) == accepted[x] + Cardinality(Stale(x)) <= faults + (IF Credit(x) THEN 1 ELSE 0)

CountInv == \A x \in Delivery : CountAt(x)

IInv == TypeOK /\ OutcomeInv /\ BindInv /\ LockInv /\ ShutInv /\ CountInv

-----------------------------------------------------------------------------
(* Constants and records *)

LEMMA ChecksValues ==
  /\ Len(Checks) = 5
  /\ Checks[1] = "binding"
  /\ \A k \in 2..5 : Checks[k] \in {"session", "message", "preferences", "eligible"}
  BY DEF Checks

\* The gates the checks look at are gates.
LEMMA GateType ==
  ASSUME NEW e \in Event, NEW u \in User, NEW s \in Session,
         NEW c \in {"session", "message", "preferences", "eligible"}
  PROVE  GateOf(c, e, u, s) \in Gates
  <1> DEFINE g == GateOf(c, e, u, s)
  <1>1. c \in Gate
    BY DEF Gate
  <1>2. g \in {c} \X Owners(c)
    <2>1. CASE c = "session"
      BY <2>1 DEF GateOf, Owners
    <2>2. CASE c = "message"
      BY <2>2 DEF GateOf, Owners
    <2>3. CASE c \in {"preferences", "eligible"}
      <3>1. c # "session" /\ c # "message" /\ c \notin {"expiry", "session"}
        BY <2>3
      <3>2. g = <<c, u>>
        BY <3>1 DEF GateOf
      <3>3. Owners(c) = User
        BY <3>1 DEF Owners
      <3> QED
        BY <3>2, <3>3
    <2> QED
      BY <2>1, <2>2, <2>3
  <1> QED
    BY <1>1, <1>2 DEF Gates

\* The initial rows and the idle tasks are well typed.
LEMMA EmptyTypes ==
  /\ AbsentDevice \in DeviceState
  /\ AbsentDelivery \in DeliveryState
  /\ NoTask \in TaskState
  /\ NoRequest \in RequestState
  <1>1. AnyOf(Session) \in Session /\ AnyOf(FcmToken) \in FcmToken /\ AnyOf(Device) \in Device
    BY PushAssumption DEF AnyOf
  <1>2. AnyOf(User) \in User
    BY PushAssumption DEF AnyOf
  <1>3. AnyOf(Event \X Device) \in Event \X Device
    <2>1. PICK e \in Event, d \in Device : TRUE
      BY PushAssumption
    <2>2. <<e, d>> \in Event \X Device
      BY <2>1
    <2> QED
      BY <2>2, Zenon DEF AnyOf
  <1>4. AbsentDevice \in DeviceState
    BY <1>1 DEF AbsentDevice, DeviceState, NoBinding
  <1>5. AbsentDelivery \in DeliveryState
    BY <1>2 DEF AbsentDelivery, DeliveryState, NoBinding, NoToken
  <1>6. NoTask \in TaskState
    BY <1>1, <1>3, ChecksValues DEF NoTask, TaskState, NoToken
  <1>7. NoRequest \in RequestState
    BY <1>1, <1>4 DEF NoRequest, RequestState
  <1> QED
    BY <1>4, <1>5, <1>6, <1>7

\* What a record of each table has in its fields.
LEMMA DeviceFields ==
  ASSUME TypeOK, NEW d \in Device
  PROVE  /\ device[d] \in DeviceState
         /\ device[d].session \in Session /\ device[d].token \in FcmToken
         /\ device[d].binding \in Nat
         /\ UserOf[device[d].session] \in User
  BY PushAssumption DEF TypeOK, DeviceState

LEMMA DeliveryFields ==
  ASSUME TypeOK, NEW x \in Delivery
  PROVE  /\ delivery[x] \in DeliveryState
         /\ delivery[x].user \in User /\ delivery[x].binding \in Nat
         /\ delivery[x].lock \in Nat /\ delivery[x].attempt \in Nat
         /\ x[1] \in Event /\ x[2] \in Device
  BY DEF TypeOK, DeliveryState, Delivery

LEMMA TaskFields ==
  ASSUME TypeOK, NEW w \in Worker
  PROVE  /\ task[w] \in TaskState
         /\ task[w].on \in Delivery /\ task[w].lock \in Nat /\ task[w].attempt \in Nat
         /\ task[w].next \in 1..5 /\ task[w].session \in Session /\ task[w].token \in FcmToken
  BY ChecksValues DEF TypeOK, TaskState, Delivery

\* One delivery is replaced.
LEMMA DeliveryUpdate ==
  ASSUME TypeOK, NEW x \in Delivery, NEW y \in DeliveryState, delivery' = [delivery EXCEPT ![x] = y]
  PROVE  /\ delivery' \in [Delivery -> DeliveryState]
         /\ delivery'[x] = y
         /\ \A z \in Delivery \ {x} : delivery'[z] = delivery[z]
  BY DEF TypeOK, Delivery

\* One task is replaced.
LEMMA TaskUpdate ==
  ASSUME TypeOK, NEW w \in Worker, NEW y \in TaskState, task' = [task EXCEPT ![w] = y]
  PROVE  /\ task' \in [Worker -> TaskState]
         /\ task'[w] = y
         /\ \A v \in Worker \ {w} : task'[v] = task[v]
  BY DEF TypeOK

\* A worker is done with its delivery, with an outcome to record.
LEMMA GoFinishFields ==
  ASSUME TypeOK, NEW w \in Worker,
         NEW o \in {"none", "skipped", "sent", "invalid_token", "dead_letter", "retry"},
         GoFinish(w, o)
  PROVE  /\ task' \in [Worker -> TaskState]
         /\ \A v \in Worker \ {w} : task'[v] = task[v]
         /\ task'[w].pc = "finish" /\ task'[w].outcome = o
         /\ task'[w].on = task[w].on /\ task'[w].lock = task[w].lock
         /\ task'[w].attempt = task[w].attempt
  <1> DEFINE t == task[w]
             y == [t EXCEPT !.pc = "finish", !.outcome = o]
  <1>1. t \in TaskState
    BY TaskFields
  <1>2. task' = [task EXCEPT ![w] = y]
    BY DEF GoFinish, TypeOK
  <1> HIDE DEF t
  <1>3. /\ y \in TaskState
        /\ y.pc = "finish" /\ y.outcome = o /\ y.on = t.on /\ y.lock = t.lock
        /\ y.attempt = t.attempt
    BY <1>1 DEF TaskState
  <1> HIDE DEF y
  <1> QED
    BY <1>2, <1>3, TaskUpdate DEF t

\* A worker whose token FCM refused goes on to disable the device.
LEMMA GoDisableFields ==
  ASSUME TypeOK, NEW w \in Worker, task' = [task EXCEPT ![w].pc = "disable"]
  PROVE  /\ task' \in [Worker -> TaskState]
         /\ \A v \in Worker \ {w} : task'[v] = task[v]
         /\ task'[w].pc = "disable"
         /\ task'[w].on = task[w].on /\ task'[w].lock = task[w].lock /\ task'[w].token = task[w].token
         /\ task'[w].attempt = task[w].attempt
  <1> DEFINE t == task[w]
             y == [t EXCEPT !.pc = "disable"]
  <1>1. t \in TaskState
    BY TaskFields
  <1>2. task' = [task EXCEPT ![w] = y]
    BY DEF TypeOK
  <1> HIDE DEF t
  <1>3. /\ y \in TaskState /\ y.pc = "disable" /\ y.on = t.on /\ y.lock = t.lock /\ y.token = t.token
        /\ y.attempt = t.attempt
    BY <1>1 DEF TaskState
  <1> HIDE DEF y
  <1> QED
    BY <1>2, <1>3, TaskUpdate DEF t

-----------------------------------------------------------------------------
(* What the actions write *)

LEMMA ShutNowType ==
  ASSUME TypeOK, NEW x \in Delivery
  PROVE  ShutNow(x) \subseteq Gates \cup {<<"binding", u>> : u \in User}
  <1> DEFINE gates == {GateOf(Checks[k], x[1], delivery[x].user, device[x[2]].session) :
                         k \in 2..Len(Checks)}
  <1>1. gates \cap closed \subseteq Gates
    BY DEF TypeOK
  <1>2. <<"binding", delivery[x].user>> \in {<<"binding", u>> : u \in User}
    BY DeliveryFields
  <1> QED
    BY <1>1, <1>2 DEF ShutNow

LEMMA ClaimFields ==
  ASSUME TypeOK, NEW w \in Worker, NEW x \in Delivery, Claim(w, x)
  PROVE  /\ delivery' \in [Delivery -> DeliveryState] /\ task' \in [Worker -> TaskState]
         /\ \A z \in Delivery \ {x} : delivery'[z] = delivery[z]
         /\ \A v \in Worker \ {w} : task'[v] = task[v]
         /\ delivery'[x].state = "pending" /\ delivery[x].state = "pending"
         /\ delivery[x].locked # "fresh"
         /\ delivery'[x].locked = "fresh" /\ delivery'[x].lock = nextToken
         /\ delivery'[x].user = delivery[x].user /\ delivery'[x].binding = delivery[x].binding
         /\ delivery'[x].expired = delivery[x].expired
         /\ task'[w].pc = "check" /\ task'[w].on = x /\ task'[w].lock = nextToken
         /\ task'[w].next = 1 /\ task'[w].shut = ShutNow(x)
         /\ delivery'[x].attempt = delivery[x].attempt + 1
         /\ task'[w].attempt = delivery[x].attempt + 1
  <1> DEFINE r == delivery[x]
             a == r.attempt + 1
             y == Leased(x)
             t == [NoTask EXCEPT !.pc = "check", !.on = x, !.lock = nextToken,
                                 !.attempt = a, !.shut = ShutNow(x)]
  <1>1. r \in DeliveryState /\ a \in Nat /\ nextToken \in Nat /\ x \in Event \X Device
    BY DeliveryFields DEF TypeOK, Delivery
  <1>2. delivery' = [delivery EXCEPT ![x] = y] /\ task' = [task EXCEPT ![w] = t]
        /\ r.state = "pending" /\ r.locked # "fresh"
    BY DEF Claim, Claimable
  <1>y. y = [r EXCEPT !.locked = "fresh", !.lock = nextToken, !.attempt = a]
    BY DEF Leased
  <1> HIDE DEF r, a, y
  <1>3. /\ y \in DeliveryState /\ y.locked = "fresh" /\ y.lock = nextToken
        /\ y.state = r.state /\ y.user = r.user /\ y.binding = r.binding /\ y.expired = r.expired
        /\ y.attempt = a
    BY <1>1, <1>y DEF DeliveryState
  <1>4. NoTask \in TaskState /\ ShutNow(x) \in SUBSET (Gates \cup {<<"binding", u>> : u \in User})
    BY EmptyTypes, ShutNowType
  <1>5. NoTask.next = 1
    BY DEF NoTask
  <1>6. /\ t \in TaskState /\ t.pc = "check" /\ t.on = x /\ t.lock = nextToken
        /\ t.next = 1 /\ t.shut = ShutNow(x) /\ t.attempt = a
    BY <1>1, <1>4, <1>5 DEF TaskState
  <1> HIDE DEF y, t
  <1>7. /\ delivery' \in [Delivery -> DeliveryState] /\ delivery'[x] = y
        /\ \A z \in Delivery \ {x} : delivery'[z] = delivery[z]
    BY <1>2, <1>3, DeliveryUpdate
  <1>8. /\ task' \in [Worker -> TaskState] /\ task'[w] = t
        /\ \A v \in Worker \ {w} : task'[v] = task[v]
    BY <1>2, <1>6, TaskUpdate
  <1> QED
    BY <1>2, <1>3, <1>6, <1>7, <1>8 DEF r, a

\* A check is passed.
Pass(w) ==
  /\ ~CheckFails(w, Checks[task[w].next])
  /\ task' = [task EXCEPT ![w] = Passed(w, Checks[task[w].next])]

LEMMA PassFields ==
  ASSUME TypeOK, NEW w \in Worker, Pass(w)
  PROVE  /\ task' \in [Worker -> TaskState]
         /\ \A v \in Worker \ {w} : task'[v] = task[v]
         /\ task'[w].on = task[w].on /\ task'[w].lock = task[w].lock
         /\ task'[w].shut = task[w].shut /\ task'[w].attempt = task[w].attempt
         /\ task[w].next = 5 => task'[w].pc = "send"
         /\ task[w].next # 5 => task'[w].pc = "check" /\ task'[w].next = task[w].next + 1
         /\ task[w].next = 1 => task'[w].session = device[task[w].on[2]].session
         /\ task[w].next # 1 => task'[w].session = task[w].session
  <1> DEFINE r == task[w]
             c == Checks[r.next]
             last == r.next = Len(Checks)
             here == device[r.on[2]]
             p == IF last THEN "send" ELSE "check"
             n == IF last THEN r.next ELSE r.next + 1
             s == IF c = "binding" THEN here.session ELSE r.session
             k == IF c = "binding" THEN here.token ELSE r.token
             y == Passed(w, c)
  <1>1. task' = [task EXCEPT ![w] = y]
    BY DEF Pass
  <1>y. y = [r EXCEPT !.pc = p, !.next = n, !.session = s, !.token = k]
    BY DEF Passed
  <1>2. /\ r \in TaskState /\ r.next \in 1..5 /\ r.session \in Session /\ r.token \in FcmToken
        /\ r.on[2] \in Device
    BY TaskFields DEF Delivery
  <1>3. here.session \in Session /\ here.token \in FcmToken
    BY <1>2, DeviceFields
  <1>4. n \in 1..5 /\ p \in {"send", "check"} /\ s \in Session /\ k \in FcmToken
    BY <1>2, <1>3, ChecksValues
  <1>5. /\ r.next = 5 => p = "send"
        /\ r.next # 5 => p = "check" /\ n = r.next + 1
        /\ r.next = 1 => s = here.session
        /\ r.next # 1 => s = r.session
    <2>1. r.next # 1 => Checks[r.next] # "binding"
      BY <1>2, ChecksValues
    <2> QED
      BY <1>2, <2>1, ChecksValues
  <1> HIDE DEF r, p, n, s, k, y
  <1>6. /\ y \in TaskState /\ y.pc = p /\ y.next = n /\ y.session = s
        /\ y.on = r.on /\ y.lock = r.lock /\ y.shut = r.shut
        /\ y.attempt = r.attempt
    BY <1>2, <1>4, <1>y, ChecksValues DEF TaskState
  <1>7. /\ task' \in [Worker -> TaskState] /\ task'[w] = y
        /\ \A v \in Worker \ {w} : task'[v] = task[v]
    BY <1>1, <1>6, TaskUpdate
  <1> QED
    BY <1>5, <1>6, <1>7 DEF r, here

LEMMA DoCheckCases ==
  ASSUME NEW w \in Worker, DoCheck(w)
  PROVE  /\ task[w].pc = "check"
         /\ GoFinish(w, "skipped") \/ GoFinish(w, "retry") \/ Pass(w)
         /\ UNCHANGED <<device, request, closed, unregistered, nextBinding, changes,
                        delivery, accepted, nextToken, faults>>
  BY DEF DoCheck, Pass, api

\* The row as Finish leaves it: no lease, and the same registration.
LEMMA FinishFields ==
  ASSUME TypeOK, OutcomeInv, NEW w \in Worker, Finish(w)
  PROVE  LET x == task[w].on IN
         /\ delivery' \in [Delivery -> DeliveryState] /\ task' \in [Worker -> TaskState]
         /\ \A z \in Delivery \ {x} : delivery'[z] = delivery[z]
         /\ \A v \in Worker \ {w} : task'[v] = task[v]
         /\ task'[w].pc = "idle"
         /\ ~HoldsLease(w) => delivery' = delivery
         /\ HoldsLease(w) => /\ delivery'[x].locked = "null" /\ delivery'[x].lock = NoToken
                             /\ delivery'[x].state = Outcome(w)
                             /\ delivery'[x].state # "absent"
                             /\ delivery'[x].user = delivery[x].user
                             /\ delivery'[x].binding = delivery[x].binding
                             /\ delivery'[x].expired = delivery[x].expired
                             /\ delivery'[x].attempt = delivery[x].attempt
  <1> DEFINE x == task[w].on
             r == delivery[x]
             o == Outcome(w)
             a == IF o = "pending" THEN "later" ELSE r.available
             y == Recorded(w)
  <1>1. x \in Delivery /\ task[w] \in TaskState
    BY TaskFields
  <1>2. r \in DeliveryState
    BY <1>1, DeliveryFields
  <1>3. HoldsLease(w) => delivery' = [delivery EXCEPT ![x] = y]
    BY DEF Finish
  <1>y. y = [r EXCEPT !.locked = "null", !.lock = NoToken, !.state = o, !.available = a]
    BY DEF Recorded
  <1>4. ~HoldsLease(w) => delivery' = delivery
    BY DEF Finish
  <1>5. NoTask \in TaskState /\ NoTask.pc = "idle"
    BY EmptyTypes DEF NoTask
  <1>6. /\ task' \in [Worker -> TaskState] /\ task'[w] = NoTask
        /\ \A v \in Worker \ {w} : task'[v] = task[v]
    BY <1>5, TaskUpdate DEF Finish
  <1> SUFFICES ASSUME HoldsLease(w)
               PROVE  /\ delivery' \in [Delivery -> DeliveryState]
                      /\ \A z \in Delivery \ {x} : delivery'[z] = delivery[z]
                      /\ delivery'[x].locked = "null" /\ delivery'[x].lock = NoToken
                      /\ delivery'[x].state = o /\ o # "absent"
                      /\ delivery'[x].user = r.user /\ delivery'[x].binding = r.binding
                      /\ delivery'[x].expired = r.expired /\ delivery'[x].attempt = r.attempt
    BY <1>4, <1>5, <1>6 DEF TypeOK, Delivery
  <1>7. o \in {"pending", "skipped", "sent", "invalid_token", "dead_letter"}
    BY <1>1 DEF Outcome, TaskState, OutcomeInv, Finish
  <1>8. a \in {"due", "later"}
    BY <1>2 DEF DeliveryState
  <1> HIDE DEF r, o, a, y
  <1>9. /\ y \in DeliveryState /\ y.locked = "null" /\ y.lock = NoToken /\ y.state = o
        /\ y.user = r.user /\ y.binding = r.binding /\ y.expired = r.expired
        /\ y.attempt = r.attempt
    BY <1>2, <1>7, <1>8, <1>y DEF DeliveryState, NoToken
  <1> HIDE DEF x
  <1> QED
    BY <1>1, <1>3, <1>7, <1>9, DeliveryUpdate

\* Time passes for a pending delivery: its lease, its retry, its expiry.
LEMMA TimeFields ==
  ASSUME TypeOK, NEW x \in Delivery,
         LeaseExpires(x) \/ RetryDue(x) \/ DeliveryExpires(x)
  PROVE  /\ delivery' \in [Delivery -> DeliveryState]
         /\ \A z \in Delivery \ {x} : delivery'[z] = delivery[z]
         /\ delivery[x].state = "pending" /\ delivery'[x].state = "pending"
         /\ delivery'[x].lock = delivery[x].lock /\ delivery'[x].user = delivery[x].user
         /\ delivery'[x].binding = delivery[x].binding
         /\ delivery'[x].attempt = delivery[x].attempt
         /\ delivery[x].expired => delivery'[x].expired
         /\ \/ delivery'[x].locked = delivery[x].locked
            \/ LeaseExpires(x) /\ delivery'[x].locked = "expired"
  <1> DEFINE r == delivery[x]
  <1>1. r \in DeliveryState /\ r.state = "pending"
    BY DeliveryFields DEF LeaseExpires, RetryDue, DeliveryExpires
  <1>2. CASE LeaseExpires(x)
    <2> DEFINE y == [r EXCEPT !.locked = "expired"]
    <2>1. delivery' = [delivery EXCEPT ![x] = y]
      BY <1>2 DEF LeaseExpires
    <2> HIDE DEF r
    <2>2. /\ y \in DeliveryState /\ y.attempt = r.attempt /\ y.state = r.state
          /\ y.lock = r.lock /\ y.user = r.user
          /\ y.binding = r.binding /\ y.expired = r.expired /\ y.locked = "expired"
      BY <1>1 DEF DeliveryState
    <2> HIDE DEF y
    <2> QED
      BY <1>1, <1>2, <2>1, <2>2, DeliveryUpdate DEF r
  <1>3. CASE RetryDue(x)
    <2> DEFINE y == [r EXCEPT !.available = "due"]
    <2>1. delivery' = [delivery EXCEPT ![x] = y]
      BY <1>3 DEF RetryDue
    <2> HIDE DEF r
    <2>2. /\ y \in DeliveryState /\ y.attempt = r.attempt /\ y.state = r.state
          /\ y.lock = r.lock /\ y.user = r.user
          /\ y.binding = r.binding /\ y.expired = r.expired /\ y.locked = r.locked
      BY <1>1 DEF DeliveryState
    <2> HIDE DEF y
    <2> QED
      BY <1>1, <1>3, <2>1, <2>2, DeliveryUpdate DEF r
  <1>4. CASE DeliveryExpires(x)
    <2> DEFINE y == [r EXCEPT !.expired = TRUE]
    <2>1. delivery' = [delivery EXCEPT ![x] = y]
      BY <1>4 DEF DeliveryExpires
    <2> HIDE DEF r
    <2>2. /\ y \in DeliveryState /\ y.attempt = r.attempt /\ y.state = r.state
          /\ y.lock = r.lock /\ y.user = r.user
          /\ y.binding = r.binding /\ y.expired /\ y.locked = r.locked
      BY <1>1 DEF DeliveryState
    <2> HIDE DEF y
    <2> QED
      BY <1>1, <1>4, <2>1, <2>2, DeliveryUpdate DEF r
  <1> QED
    BY <1>2, <1>3, <1>4

LEMMA EnqueueFields ==
  ASSUME TypeOK, NEW e \in Event, Enqueue(e)
  PROVE  /\ delivery' \in [Delivery -> DeliveryState]
         /\ \A z \in Delivery :
              \/ delivery'[z] = delivery[z]
              \/ /\ delivery[z].state = "absent" /\ delivery'[z].state = "pending"
                 /\ device[z[2]].state = "on"
                 /\ delivery'[z].user = UserOf[device[z[2]].session]
                 /\ delivery'[z].binding = device[z[2]].binding
                 /\ delivery'[z].locked = "null" /\ delivery'[z].lock = NoToken
                 /\ delivery'[z].attempt = 0
  <1> DEFINE n(z) == [AbsentDelivery EXCEPT !.state = "pending",
                                            !.user = UserOf[device[z[2]].session],
                                            !.binding = device[z[2]].binding]
  <1>1. delivery' = [z \in Delivery |->
                       IF z[1] = e /\ z[2] \in Targets(e) /\ delivery[z].state = "absent"
                       THEN n(z) ELSE delivery[z]]
    BY DEF Enqueue, Delivery
  <1>2. ASSUME NEW z \in Delivery
        PROVE  /\ n(z) \in DeliveryState /\ n(z).state = "pending"
               /\ n(z).user = UserOf[device[z[2]].session]
               /\ n(z).binding = device[z[2]].binding
               /\ n(z).locked = "null" /\ n(z).lock = NoToken /\ n(z).attempt = 0
    <2>1. z[2] \in Device
      BY DeliveryFields
    <2>2. UserOf[device[z[2]].session] \in User /\ device[z[2]].binding \in Nat
      BY <2>1, DeviceFields
    <2>3. AbsentDelivery \in DeliveryState
      BY EmptyTypes
    <2>4. AbsentDelivery.locked = "null" /\ AbsentDelivery.lock = NoToken
          /\ AbsentDelivery.attempt = 0
      BY DEF AbsentDelivery
    <2> QED
      BY <2>2, <2>3, <2>4 DEF DeliveryState
  <1>3. \A z \in Delivery : z[2] \in Targets(e) => device[z[2]].state = "on"
    BY DEF Targets
  <1>4. \A z \in Delivery : delivery[z] \in DeliveryState
    BY DeliveryFields
  <1> HIDE DEF n
  <1> QED
    BY <1>1, <1>2, <1>3, <1>4

LEMMA OpenGateFields ==
  ASSUME TypeOK, NEW g, OpenGate(g)
  PROVE  /\ task' \in [Worker -> TaskState]
         /\ \A w \in Worker :
              /\ task'[w].pc = task[w].pc /\ task'[w].on = task[w].on
              /\ task'[w].lock = task[w].lock /\ task'[w].next = task[w].next
              /\ task'[w].session = task[w].session /\ task'[w].token = task[w].token
              /\ task'[w].outcome = task[w].outcome /\ task'[w].shut = task[w].shut \ {g}
              /\ task'[w].attempt = task[w].attempt
  <1> DEFINE n(t) == [t EXCEPT !.shut = t.shut \ {g}]
  <1>1. task' = [w \in Worker |-> n(task[w])]
    BY DEF OpenGate
  <1>2. ASSUME NEW t \in TaskState
        PROVE  /\ n(t) \in TaskState
               /\ n(t).pc = t.pc /\ n(t).on = t.on /\ n(t).lock = t.lock /\ n(t).next = t.next
               /\ n(t).session = t.session /\ n(t).token = t.token
               /\ n(t).outcome = t.outcome /\ n(t).shut = t.shut \ {g}
               /\ n(t).attempt = t.attempt
    BY DEF TaskState
  <1>3. \A w \in Worker : task[w] \in TaskState
    BY TaskFields
  <1> HIDE DEF n
  <1> QED
    BY <1>1, <1>2, <1>3

LEMMA UnregisterFields ==
  ASSUME TypeOK, NEW d \in Device, NEW s, Unregister(d, s)
  PROVE  /\ device' \in [Device -> DeviceState]
         /\ \A e \in Device \ {d} : device'[e] = device[e]
         /\ device'[d].state = "off" /\ device'[d].binding = nextBinding
         /\ device'[d].session = device[d].session /\ device'[d].token = device[d].token
  <1> DEFINE r == device[d]
             y == [r EXCEPT !.state = "off", !.binding = nextBinding]
  <1>1. r \in DeviceState /\ nextBinding \in Nat
    BY DEF TypeOK
  <1>2. device' = [device EXCEPT ![d] = y]
    BY DEF Unregister
  <1> HIDE DEF r
  <1>3. /\ y \in DeviceState /\ y.state = "off" /\ y.binding = nextBinding
        /\ y.session = r.session /\ y.token = r.token
    BY <1>1 DEF DeviceState
  <1> HIDE DEF y
  <1> QED
    BY <1>2, <1>3 DEF r, TypeOK

\* The two ways DisableToken goes.
LEMMA DisableFields ==
  ASSUME TypeOK, NEW w \in Worker, DisableToken(w)
  PROVE  /\ task[w].pc = "disable"
         /\ GoFinish(w, "invalid_token") \/ GoFinish(w, "retry")
         /\ device' \in [Device -> DeviceState]
         /\ \A e \in Device :
              /\ device'[e].binding = device[e].binding
              /\ device'[e].session = device[e].session /\ device'[e].token = device[e].token
              /\ \/ device'[e].state = device[e].state
                 \/ /\ device'[e].state = "dead"
                    /\ e = task[w].on[2] /\ device[e].token = task[w].token
                    /\ device[e].binding = delivery[task[w].on].binding
  <1> DEFINE x == task[w].on
             d == x[2]
             r == device[d]
             y == [r EXCEPT !.state = "dead"]
  <1>1. x \in Delivery /\ d \in Device
    BY TaskFields, DeliveryFields
  <1>2. r \in DeviceState
    BY <1>1 DEF TypeOK
  <1>3. \/ device' = device
        \/ /\ device' = [device EXCEPT ![d] = y]
           /\ r.token = task[w].token /\ r.binding = delivery[x].binding
    BY DEF DisableToken
  <1>4. task[w].pc = "disable" /\ (GoFinish(w, "invalid_token") \/ GoFinish(w, "retry"))
    BY DEF DisableToken
  <1> HIDE DEF r
  <1>5. /\ y \in DeviceState /\ y.state = "dead" /\ y.binding = r.binding
        /\ y.session = r.session /\ y.token = r.token
    BY <1>2 DEF DeviceState
  <1> HIDE DEF y, x, d
  <1>6. CASE device' = device
    BY <1>4, <1>6 DEF TypeOK
  <1>7. CASE device' = [device EXCEPT ![d] = y]
             /\ r.token = task[w].token /\ r.binding = delivery[x].binding
    <2>1. device' \in [Device -> DeviceState] /\ device'[d] = y
          /\ \A e \in Device \ {d} : device'[e] = device[e]
      BY <1>1, <1>5, <1>7 DEF TypeOK
    <2> QED
      BY <1>4, <1>5, <1>7, <2>1 DEF r, d, x
  <1> QED
    BY <1>3, <1>6, <1>7

\* The end of a request.
LEMMA RequestEnds ==
  ASSUME TypeOK, NEW c \in Caller, request' = [request EXCEPT ![c] = NoRequest]
  PROVE  /\ request' \in [Caller -> RequestState]
         /\ request'[c].pc = "idle"
         /\ \A b \in Caller \ {c} : request'[b] = request[b]
  <1>1. NoRequest \in RequestState /\ NoRequest.pc = "idle"
    BY EmptyTypes DEF NoRequest
  <1> QED
    BY <1>1 DEF TypeOK

\* The registration that is written has a new binding or is the one that was read.
LEMMA RegistrationFields ==
  ASSUME TypeOK, NEW c \in Caller
  PROVE  LET q == request[c]
             y == Registration(q)
         IN /\ y \in DeviceState /\ y.state = "on" /\ q.on \in Device
            /\ y.session = q.session /\ y.token = q.token
            /\ \/ y.binding = nextBinding
               \/ /\ y.binding = q.saw.binding /\ q.saw.state = "on"
                  /\ q.session = q.saw.session /\ q.token = q.saw.token
  <1> DEFINE q == request[c]
             b == IF Rotates(q.saw, q.session, q.token) THEN nextBinding ELSE q.saw.binding
             y == Registration(q)
  <1>1. q \in RequestState /\ nextBinding \in Nat
    BY DEF TypeOK
  <1>2. q.on \in Device /\ q.session \in Session /\ q.token \in FcmToken /\ q.saw \in DeviceState
    BY <1>1 DEF RequestState
  <1>3. b \in Nat
    BY <1>1, <1>2 DEF DeviceState
  <1>4. y = [state |-> "on", session |-> q.session, token |-> q.token, binding |-> b]
    BY DEF Registration
  <1>5. b = nextBinding \/ (b = q.saw.binding /\ ~Rotates(q.saw, q.session, q.token))
    OBVIOUS
  <1> HIDE DEF q, b, y
  <1>6. y \in DeviceState /\ y.state = "on" /\ y.session = q.session /\ y.token = q.token
        /\ y.binding = b
    BY <1>2, <1>3, <1>4 DEF DeviceState
  <1> QED
    BY <1>2, <1>5, <1>6 DEF q, y, Rotates

-----------------------------------------------------------------------------
(* Types *)

TypeInv == TypeOK /\ OutcomeInv

LEMMA InitType == Init => TypeInv
  <1> SUFFICES ASSUME Init PROVE TypeInv
    OBVIOUS
  <1>1. TypeOK
    BY EmptyTypes, PushAssumption DEF Init, TypeOK
  <1>2. OutcomeInv
    BY DEF Init, OutcomeInv, NoTask
  <1> QED
    BY <1>1, <1>2 DEF TypeInv

LEMMA CountersType ==
  ASSUME TypeOK
  PROVE  /\ Change => changes' \in 0..MaxChanges
         /\ Fault => faults' \in 0..MaxFaults
  BY PushAssumption DEF TypeOK, Change, Fault

\* Steps of the API and of the world.
LEMMA ApiType ==
  ASSUME TypeInv, UNCHANGED <<delivery, accepted, nextToken, faults>>,
         \/ \E c \in Caller, d \in Device, s \in Session, t \in FcmToken : UpsertRead(c, d, s, t)
         \/ \E c \in Caller : UpsertWrite(c)
         \/ \E d \in Device, s \in Session : Unregister(d, s)
         \/ \E g \in Gates : CloseGate(g) \/ OpenGate(g)
         \/ \E t \in FcmToken : TokenDies(t)
  PROVE  TypeInv'
  <1>0. TypeOK /\ OutcomeInv
    BY DEF TypeInv
  <1>1. ASSUME NEW c \in Caller, NEW d \in Device, NEW s \in Session, NEW t \in FcmToken,
               UpsertRead(c, d, s, t)
        PROVE  TypeInv'
    <2> DEFINE q == [pc |-> "write", on |-> d, session |-> s, token |-> t, saw |-> device[d]]
    <2>1. q \in RequestState
      BY <1>0, DeviceFields DEF RequestState
    <2>2. request' = [request EXCEPT ![c] = q] /\ Change
      BY <1>1 DEF UpsertRead
    <2> HIDE DEF q
    <2>3. request' \in [Caller -> RequestState] /\ changes' \in 0..MaxChanges
      BY <1>0, <2>1, <2>2, CountersType DEF TypeOK
    <2> QED
      BY <1>0, <1>1, <2>3 DEF UpsertRead, TypeInv, TypeOK, OutcomeInv
  <1>2. ASSUME NEW c \in Caller, UpsertWrite(c) PROVE TypeInv'
    <2>1. request' \in [Caller -> RequestState]
      BY <1>0, <1>2, RequestEnds DEF UpsertWrite
    <2>2. Registration(request[c]) \in DeviceState
      BY <1>0, RegistrationFields
    <2>3. device' \in [Device -> DeviceState]
      BY <1>0, <1>2, <2>2 DEF UpsertWrite, TypeOK
    <2>4. nextBinding' \in Nat
      BY <1>0, <1>2 DEF UpsertWrite, TypeOK
    <2> QED
      BY <1>0, <1>2, <2>1, <2>3, <2>4 DEF UpsertWrite, TypeInv, TypeOK, OutcomeInv
  <1>3. ASSUME NEW d \in Device, NEW s \in Session, Unregister(d, s) PROVE TypeInv'
    <2>1. device' \in [Device -> DeviceState]
      BY <1>0, <1>3, UnregisterFields
    <2>2. changes' \in 0..MaxChanges /\ nextBinding' \in Nat
      BY <1>0, <1>3, CountersType DEF Unregister, TypeOK
    <2> QED
      BY <1>0, <1>3, <2>1, <2>2 DEF Unregister, TypeInv, TypeOK, OutcomeInv
  <1>4. ASSUME NEW g \in Gates, CloseGate(g) PROVE TypeInv'
    <2>1. changes' \in 0..MaxChanges
      BY <1>0, <1>4, CountersType DEF CloseGate
    <2> QED
      BY <1>0, <1>4, <2>1 DEF CloseGate, TypeInv, TypeOK, OutcomeInv
  <1>5. ASSUME NEW g \in Gates, OpenGate(g) PROVE TypeInv'
    <2>1. changes' \in 0..MaxChanges
      BY <1>0, <1>5, CountersType DEF OpenGate
    <2>2. task' \in [Worker -> TaskState] /\ OutcomeInv'
      BY <1>0, <1>5, OpenGateFields DEF OutcomeInv
    <2> QED
      BY <1>0, <1>5, <2>1, <2>2 DEF OpenGate, TypeInv, TypeOK
  <1>6. ASSUME NEW t \in FcmToken, TokenDies(t) PROVE TypeInv'
    <2>1. changes' \in 0..MaxChanges
      BY <1>0, <1>6, CountersType DEF TokenDies
    <2> QED
      BY <1>0, <1>6, <2>1 DEF TokenDies, TypeInv, TypeOK, OutcomeInv
  <1> QED
    BY <1>1, <1>2, <1>3, <1>4, <1>5, <1>6

\* Steps of the workers, and of time.
LEMMA WorkerType ==
  ASSUME TypeInv,
         UNCHANGED <<request, closed, unregistered, nextBinding, changes>>,
         device' \in [Device -> DeviceState],
         delivery' \in [Delivery -> DeliveryState], task' \in [Worker -> TaskState],
         accepted' \in [Delivery -> Nat], nextToken' \in Nat, faults' \in 0..MaxFaults,
         \A w \in Worker : task'[w].pc = "finish" =>
           task'[w] = task[w] \/ task'[w].outcome # "none"
  PROVE  TypeInv'
  BY DEF TypeInv, TypeOK, OutcomeInv, Delivery

LEMMA AcceptType ==
  ASSUME TypeOK, NEW w \in Worker, Accept(task[w].on)
  PROVE  accepted' \in [Delivery -> Nat]
  BY TaskFields DEF TypeOK, Accept, Delivery

LEMMA StepType == TypeInv /\ [Next]_vars => TypeInv'
  <1> SUFFICES ASSUME TypeInv, [Next]_vars PROVE TypeInv'
    OBVIOUS
  <1>0. TypeOK /\ OutcomeInv
    BY DEF TypeInv
  <1>t. /\ device \in [Device -> DeviceState] /\ delivery \in [Delivery -> DeliveryState]
        /\ task \in [Worker -> TaskState] /\ accepted \in [Delivery -> Nat]
        /\ nextToken \in Nat /\ faults \in 0..MaxFaults
    BY <1>0 DEF TypeOK, Delivery
  <1>1. CASE \/ \E c \in Caller, d \in Device, s \in Session, t \in FcmToken : UpsertRead(c, d, s, t)
             \/ \E c \in Caller : UpsertWrite(c)
             \/ \E d \in Device, s \in Session : Unregister(d, s)
             \/ \E g \in Gates : CloseGate(g) \/ OpenGate(g)
             \/ \E t \in FcmToken : TokenDies(t)
    <2>1. UNCHANGED <<delivery, accepted, nextToken, faults>>
      BY <1>1 DEF UpsertRead, UpsertWrite, Unregister, CloseGate, OpenGate, TokenDies
    <2> QED
      BY <1>1, <2>1, ApiType
  <1>2. ASSUME NEW e \in Event, Enqueue(e) PROVE TypeInv'
    BY <1>0, <1>2, <1>t, EnqueueFields, WorkerType DEF Enqueue
  <1>3. ASSUME NEW w \in Worker, NEW x \in Delivery, Claim(w, x) PROVE TypeInv'
    <2>1. nextToken' \in Nat /\ UNCHANGED <<device, request, closed, unregistered, nextBinding,
                                            changes, accepted, faults>>
      BY <1>3, <1>t DEF Claim, api
    <2> QED
      BY <1>0, <1>3, <1>t, <2>1, ClaimFields, WorkerType
  <1>4. ASSUME NEW w \in Worker, IdlePoll(w) PROVE TypeInv'
    BY <1>0, <1>4 DEF IdlePoll, vars, TypeInv, TypeOK, OutcomeInv
  <1>5. ASSUME NEW w \in Worker, DoCheck(w) PROVE TypeInv'
    <2>1. \/ GoFinish(w, "skipped") \/ GoFinish(w, "retry")
          \/ Pass(w)
      BY <1>5, DoCheckCases
    <2>2. UNCHANGED <<device, request, closed, unregistered, nextBinding, changes,
                      delivery, accepted, nextToken, faults>>
      BY <1>5, DoCheckCases
    <2>3. CASE GoFinish(w, "skipped") \/ GoFinish(w, "retry")
      BY <1>0, <1>t, <2>2, <2>3, GoFinishFields, WorkerType
    <2>4. CASE Pass(w)
      <3>1. /\ task' \in [Worker -> TaskState] /\ \A v \in Worker \ {w} : task'[v] = task[v]
            /\ task'[w].pc # "finish"
        BY <1>0, <2>4, PassFields
      <3> QED
        BY <1>t, <2>2, <3>1, WorkerType
    <2> QED
      BY <2>1, <2>3, <2>4
  <1>6. ASSUME NEW w \in Worker, SendAccepted(w) PROVE TypeInv'
    <2>1. UNCHANGED <<device, request, closed, unregistered, nextBinding, changes,
                      delivery, nextToken, faults>>
      BY <1>6 DEF SendAccepted, api
    <2> QED
      BY <1>0, <1>6, <1>t, <2>1, GoFinishFields, AcceptType, WorkerType DEF SendAccepted
  <1>7. ASSUME NEW w \in Worker, SendUnanswered(w) PROVE TypeInv'
    <2>1. UNCHANGED <<device, request, closed, unregistered, nextBinding, changes,
                      delivery, nextToken>>
      BY <1>7 DEF SendUnanswered, api
    <2>2. faults' \in 0..MaxFaults
      BY <1>0, <1>7, CountersType DEF SendUnanswered
    <2> QED
      BY <1>0, <1>7, <1>t, <2>1, <2>2, GoFinishFields, AcceptType, WorkerType DEF SendUnanswered
  <1>8. ASSUME NEW w \in Worker, SendRefused(w) PROVE TypeInv'
    <2>1. UNCHANGED <<device, request, closed, unregistered, nextBinding, changes,
                      delivery, accepted, nextToken, faults>>
      BY <1>8 DEF SendRefused, api
    <2>2. /\ task' \in [Worker -> TaskState] /\ \A v \in Worker \ {w} : task'[v] = task[v]
          /\ task'[w].pc = "finish" => task'[w].outcome # "none"
      BY <1>0, <1>8, GoFinishFields, GoDisableFields DEF SendRefused
    <2> QED
      BY <1>t, <2>1, <2>2, WorkerType
  <1>9. ASSUME NEW w \in Worker, DisableToken(w) PROVE TypeInv'
    <2>1. UNCHANGED <<request, closed, unregistered, nextBinding, changes,
                      delivery, accepted, nextToken, faults>>
      BY <1>9 DEF DisableToken
    <2>2. /\ task' \in [Worker -> TaskState] /\ \A v \in Worker \ {w} : task'[v] = task[v]
          /\ task'[w].pc = "finish" => task'[w].outcome # "none"
      BY <1>0, <1>9, DisableFields, GoFinishFields
    <2>3. device' \in [Device -> DeviceState]
      BY <1>0, <1>9, DisableFields
    <2> QED
      BY <1>t, <2>1, <2>2, <2>3, WorkerType
  <1>10. ASSUME NEW w \in Worker, Finish(w) PROVE TypeInv'
    <2>1. UNCHANGED <<device, request, closed, unregistered, nextBinding, changes,
                      accepted, nextToken, faults>>
      BY <1>10 DEF Finish, api
    <2>2. /\ delivery' \in [Delivery -> DeliveryState] /\ task' \in [Worker -> TaskState]
          /\ \A v \in Worker \ {w} : task'[v] = task[v]
          /\ task'[w].pc # "finish"
      BY <1>0, <1>10, FinishFields
    <2> QED
      BY <1>t, <2>1, <2>2, WorkerType
  <1>11. ASSUME NEW w \in Worker, Abandon(w) PROVE TypeInv'
    <2>1. UNCHANGED <<device, request, closed, unregistered, nextBinding, changes,
                      delivery, accepted, nextToken>>
      BY <1>11 DEF Abandon, api
    <2>2. NoTask \in TaskState /\ NoTask.pc = "idle"
      BY EmptyTypes DEF NoTask
    <2>3. /\ task' \in [Worker -> TaskState] /\ task'[w] = NoTask
          /\ \A v \in Worker \ {w} : task'[v] = task[v]
      BY <1>0, <1>11, <2>2, TaskUpdate DEF Abandon
    <2>4. faults' \in 0..MaxFaults
      BY <1>0, <1>11, CountersType DEF Abandon
    <2> QED
      BY <1>t, <2>1, <2>2, <2>3, <2>4, WorkerType
  <1>12. ASSUME NEW x \in Delivery, LeaseExpires(x) \/ RetryDue(x) \/ DeliveryExpires(x)
         PROVE  TypeInv'
    <2>1. UNCHANGED <<device, request, closed, unregistered, nextBinding, changes,
                      task, accepted, nextToken>>
      BY <1>12 DEF LeaseExpires, RetryDue, DeliveryExpires, api
    <2>2. faults' \in 0..MaxFaults
      BY <1>0, <1>12, <1>t, CountersType DEF LeaseExpires, RetryDue, DeliveryExpires
    <2>3. delivery' \in [Delivery -> DeliveryState]
      BY <1>0, <1>12, TimeFields
    <2> QED
      BY <1>t, <2>1, <2>2, <2>3, WorkerType
  <1>13. CASE UNCHANGED vars
    BY <1>0, <1>13 DEF vars, TypeInv, TypeOK, OutcomeInv
  <1> QED
    BY <1>1, <1>2, <1>3, <1>4, <1>5, <1>6, <1>7, <1>8, <1>9, <1>10, <1>11, <1>12, <1>13
       DEF Next, WorkerStep, Delivery

\* Every reachable state of devices, deliveries, workers and registrations is
\* well typed; in particular every outcome that Finish records is one of the
\* schema's.
THEOREM TypeCorrect == Spec => []TypeOK
  <1>1. TypeInv => TypeOK
    BY DEF TypeInv
  <1> QED
    BY InitType, StepType, <1>1, PTL DEF Spec

-----------------------------------------------------------------------------
(* Bindings *)

\* Steps that keep devices, or mark one as refused, and end or keep requests.
LEMMA BindKept ==
  ASSUME TypeInv, BindInv, nextBinding' = nextBinding, request' = request,
         \A d \in Device : /\ device'[d].binding = device[d].binding
                           /\ device'[d].session = device[d].session
                           /\ device'[d].token = device[d].token
                           /\ device'[d].state \in {device[d].state, "dead"},
         \A x \in Delivery : delivery'[x].state # "absent" =>
           \/ /\ delivery[x].state # "absent"
              /\ delivery'[x].binding = delivery[x].binding
              /\ delivery'[x].user = delivery[x].user
           \/ /\ device'[x[2]].state = "on"
              /\ delivery'[x].binding = device[x[2]].binding
              /\ delivery'[x].user = UserOf[device[x[2]].session]
  PROVE  BindInv'
  <1>1. \A x \in Delivery : x[2] \in Device
    BY DEF Delivery
  <1>2. \A c \in Caller : request[c].on \in Device
    BY DEF TypeInv, TypeOK, RequestState
  <1>3. \A d \in Device : device'[d].binding < nextBinding'
    BY DEF BindInv
  <1>4. ASSUME NEW c \in Caller, request'[c].pc = "write"
        PROVE  LET q == request'[c] IN
               /\ q.saw.binding < nextBinding'
               /\ q.saw.binding = device'[q.on].binding =>
                    /\ q.saw.session = device'[q.on].session
                    /\ q.saw.token = device'[q.on].token
                    /\ device'[q.on].state = "off" => q.saw.state = "off"
    BY <1>2, <1>4 DEF BindInv
  <1>5. ASSUME NEW x \in Delivery, delivery'[x].state # "absent"
        PROVE  /\ delivery'[x].binding < nextBinding'
               /\ delivery'[x].binding = device'[x[2]].binding =>
                    /\ device'[x[2]].state \in {"on", "dead"}
                    /\ UserOf[device'[x[2]].session] = delivery'[x].user
    BY <1>1, <1>5 DEF BindInv
  <1> QED
    BY <1>3, <1>4, <1>5 DEF BindInv

LEMMA UpsertReadBind ==
  ASSUME TypeInv, BindInv, NEW c \in Caller, NEW d \in Device, NEW s, NEW t,
         UpsertRead(c, d, s, t)
  PROVE  BindInv'
  <1> DEFINE q == [pc |-> "write", on |-> d, session |-> s, token |-> t, saw |-> device[d]]
  <1>1. /\ request'[c] = q /\ \A b \in Caller \ {c} : request'[b] = request[b]
        /\ UNCHANGED <<device, delivery, nextBinding>>
    BY DEF UpsertRead, TypeInv, TypeOK
  <1>2. q.on = d /\ q.saw = device[d]
    OBVIOUS
  <1> HIDE DEF q
  <1> QED
    BY <1>1, <1>2 DEF BindInv

\* One device gets a new binding.
LEMMA FreshBinding ==
  ASSUME TypeInv, BindInv, NEW d \in Device,
         device'[d].binding = nextBinding, nextBinding' = nextBinding + 1,
         \A e \in Device \ {d} : device'[e] = device[e],
         \A b \in Caller : request'[b] = request[b] \/ request'[b].pc = "idle",
         delivery' = delivery
  PROVE  BindInv'
  <1>t. /\ nextBinding \in Nat
        /\ \A e \in Device : device[e].binding \in Nat
        /\ \A b \in Caller : request[b].on \in Device /\ request[b].saw.binding \in Nat
        /\ \A x \in Delivery : x[2] \in Device /\ delivery[x].binding \in Nat
    BY DEF TypeInv, TypeOK, DeviceState, RequestState, DeliveryState, Delivery
  <1>3. \A e \in Device : device'[e].binding < nextBinding'
    BY <1>t DEF BindInv
  <1>4. ASSUME NEW c \in Caller, request'[c].pc = "write"
        PROVE  LET q == request'[c] IN
               /\ q.saw.binding < nextBinding'
               /\ q.saw.binding = device'[q.on].binding =>
                    /\ q.saw.session = device'[q.on].session
                    /\ q.saw.token = device'[q.on].token
                    /\ device'[q.on].state = "off" => q.saw.state = "off"
    <2>1. request'[c] = request[c] /\ request[c].pc = "write"
      BY <1>4
    <2>2. request[c].saw.binding < nextBinding
      BY <2>1 DEF BindInv
    <2>3. CASE request[c].on = d
      BY <1>t, <2>1, <2>2, <2>3
    <2>4. CASE request[c].on # d
      BY <1>t, <2>1, <2>2, <2>4 DEF BindInv
    <2> QED
      BY <2>3, <2>4
  <1>5. ASSUME NEW x \in Delivery, delivery'[x].state # "absent"
        PROVE  /\ delivery'[x].binding < nextBinding'
               /\ delivery'[x].binding = device'[x[2]].binding =>
                    /\ device'[x[2]].state \in {"on", "dead"}
                    /\ UserOf[device'[x[2]].session] = delivery'[x].user
    <2>1. delivery[x].state # "absent" /\ delivery[x].binding < nextBinding
      BY <1>5 DEF BindInv
    <2>2. CASE x[2] = d
      BY <1>t, <2>1, <2>2
    <2>3. CASE x[2] # d
      BY <1>t, <2>1, <2>3 DEF BindInv
    <2> QED
      BY <2>2, <2>3
  <1> QED
    BY <1>3, <1>4, <1>5 DEF BindInv

\* What UpsertWrite leaves: a new binding, or the device as it was, enabled.
LEMMA UpsertWriteFields ==
  ASSUME TypeInv, BindInv, NEW c \in Caller, UpsertWrite(c)
  PROVE  \/ device' = device
         \/ \E d \in Device :
              /\ d = request[c].on /\ device[d].binding = request[c].saw.binding
              /\ device'[d].state = "on"
              /\ \A e \in Device \ {d} : device'[e] = device[e]
              /\ \/ device'[d].binding = nextBinding
                 \/ /\ device'[d].binding = device[d].binding
                    /\ device'[d].session = device[d].session
                    /\ device'[d].token = device[d].token
                    /\ device[d].state # "off"
  <1> DEFINE q == request[c]
             d == q.on
             y == Registration(q)
  <1>0. TypeOK
    BY DEF TypeInv
  <1>1. /\ y.state = "on" /\ d \in Device /\ y.session = q.session /\ y.token = q.token
        /\ \/ y.binding = nextBinding
           \/ /\ y.binding = q.saw.binding /\ q.saw.state = "on"
              /\ q.session = q.saw.session /\ q.token = q.saw.token
    BY <1>0, RegistrationFields
  <1>2. q.pc = "write" /\ device' = IF Conflict(q) THEN device ELSE [device EXCEPT ![d] = y]
    BY DEF UpsertWrite
  <1>3. q.saw.binding = device[d].binding =>
          /\ q.saw.session = device[d].session
          /\ q.saw.token = device[d].token
          /\ device[d].state = "off" => q.saw.state = "off"
    BY <1>2 DEF BindInv
  <1> HIDE DEF y
  <1>4. CASE Conflict(q)
    BY <1>2, <1>4
  <1>5. CASE ~Conflict(q)
    <2>1. device[d].binding = q.saw.binding
      BY <1>5 DEF Conflict
    <2>2. device'[d] = y /\ \A e \in Device \ {d} : device'[e] = device[e]
      BY <1>0, <1>1, <1>2, <1>5 DEF TypeOK
    <2>3. \/ device'[d].binding = nextBinding
          \/ /\ device'[d].binding = device[d].binding
             /\ device'[d].session = device[d].session
             /\ device'[d].token = device[d].token
             /\ device[d].state # "off"
      BY <1>1, <1>3, <2>1, <2>2
    <2> HIDE DEF d
    <2>4. d \in Device /\ d = request[c].on /\ device[d].binding = request[c].saw.binding
          /\ device'[d].state = "on"
      BY <1>1, <2>1, <2>2 DEF d
    <2> QED
      BY <2>2, <2>3, <2>4
  <1> QED
    BY <1>4, <1>5

LEMMA UpsertWriteBind ==
  ASSUME TypeInv, BindInv, NEW c \in Caller, UpsertWrite(c)
  PROVE  BindInv'
  <1>1. \A b \in Caller : request'[b] = request[b] \/ request'[b].pc = "idle"
    BY RequestEnds DEF TypeInv, UpsertWrite
  <1>2. delivery' = delivery /\ nextBinding' = nextBinding + 1
    BY DEF UpsertWrite
  <1>t. /\ nextBinding \in Nat
        /\ \A e \in Device : device[e].binding \in Nat
        /\ \A b \in Caller : request[b].on \in Device /\ request[b].saw.binding \in Nat
        /\ \A x \in Delivery : x[2] \in Device /\ delivery[x].binding \in Nat
    BY DEF TypeInv, TypeOK, DeviceState, RequestState, DeliveryState, Delivery
  <1>3. ASSUME NEW d \in Device, device'[d].binding = nextBinding,
               \A e \in Device \ {d} : device'[e] = device[e]
        PROVE  BindInv'
    BY <1>1, <1>2, <1>3, FreshBinding
  <1>4. ASSUME \A e \in Device : /\ device'[e].binding = device[e].binding
                                 /\ device'[e].session = device[e].session
                                 /\ device'[e].token = device[e].token
                                 /\ \/ device'[e].state = device[e].state
                                    \/ device'[e].state = "on"
        PROVE  BindInv'
    <2>3. \A d \in Device : device'[d].binding < nextBinding'
      BY <1>2, <1>4, <1>t DEF BindInv
    <2>4. ASSUME NEW b \in Caller, request'[b].pc = "write"
          PROVE  LET q == request'[b] IN
                 /\ q.saw.binding < nextBinding'
                 /\ q.saw.binding = device'[q.on].binding =>
                      /\ q.saw.session = device'[q.on].session
                      /\ q.saw.token = device'[q.on].token
                      /\ device'[q.on].state = "off" => q.saw.state = "off"
      <3>1. request'[b] = request[b] /\ request[b].pc = "write" /\ request[b].on \in Device
        BY <1>1, <1>t, <2>4
      <3> QED
        BY <1>2, <1>4, <1>t, <3>1 DEF BindInv
    <2>5. ASSUME NEW x \in Delivery, delivery'[x].state # "absent"
          PROVE  /\ delivery'[x].binding < nextBinding'
                 /\ delivery'[x].binding = device'[x[2]].binding =>
                      /\ device'[x[2]].state \in {"on", "dead"}
                      /\ UserOf[device'[x[2]].session] = delivery'[x].user
      BY <1>2, <1>4, <1>t, <2>5 DEF BindInv
    <2> QED
      BY <2>3, <2>4, <2>5 DEF BindInv
  <1>5. CASE device' = device
    BY <1>4, <1>5
  <1>6. ASSUME NEW d \in Device, device'[d].state = "on",
               \A e \in Device \ {d} : device'[e] = device[e],
               /\ device'[d].binding = device[d].binding
               /\ device'[d].session = device[d].session
               /\ device'[d].token = device[d].token
        PROVE  BindInv'
    <2>1. ASSUME NEW e \in Device
          PROVE  /\ device'[e].binding = device[e].binding
                 /\ device'[e].session = device[e].session
                 /\ device'[e].token = device[e].token
                 /\ \/ device'[e].state = device[e].state
                    \/ device'[e].state = "on"
      BY <1>6
    <2> QED
      BY <1>4, <2>1
  <1> QED
    BY <1>3, <1>5, <1>6, UpsertWriteFields

LEMMA InitBind == Init => BindInv
  <1> SUFFICES ASSUME Init PROVE BindInv
    OBVIOUS
  <1>1. \A d \in Device : device[d].binding = 0
    BY DEF Init, AbsentDevice, NoBinding
  <1>2. \A c \in Caller : request[c].pc = "idle"
    BY DEF Init, NoRequest
  <1>3. \A x \in Delivery : delivery[x].state = "absent"
    BY DEF Init, AbsentDelivery, Delivery
  <1>4. nextBinding = 1
    BY DEF Init
  <1> QED
    BY <1>1, <1>2, <1>3, <1>4 DEF BindInv

\* What any step does to a delivery: it keeps whom and which binding it is for,
\* or enqueues it for the device as it is.
LEMMA DeliveriesKept ==
  ASSUME TypeInv, [Next]_vars, NEW x \in Delivery
  PROVE  \/ /\ delivery[x].state = "absent" <=> delivery'[x].state = "absent"
            /\ delivery'[x].user = delivery[x].user
            /\ delivery'[x].binding = delivery[x].binding
            /\ delivery[x].expired => delivery'[x].expired
         \/ /\ delivery[x].state = "absent" /\ delivery'[x].state = "pending"
            /\ device' = device /\ device[x[2]].state = "on"
            /\ delivery'[x].user = UserOf[device[x[2]].session]
            /\ delivery'[x].binding = device[x[2]].binding
  <1>0. TypeOK /\ OutcomeInv
    BY DEF TypeInv
  <1>1. CASE delivery' = delivery
    BY <1>1
  <1>2. ASSUME NEW e \in Event, Enqueue(e)
        PROVE  \/ delivery'[x] = delivery[x]
               \/ /\ delivery[x].state = "absent" /\ delivery'[x].state = "pending"
                  /\ device' = device /\ device[x[2]].state = "on"
                  /\ delivery'[x].user = UserOf[device[x[2]].session]
                  /\ delivery'[x].binding = device[x[2]].binding
    <2>1. device' = device
      BY <1>2 DEF Enqueue
    <2> QED
      BY <1>0, <1>2, <2>1, EnqueueFields
  <1> DEFINE Kept == /\ delivery[x].state = "absent" <=> delivery'[x].state = "absent"
                     /\ delivery'[x].user = delivery[x].user
                     /\ delivery'[x].binding = delivery[x].binding
                     /\ delivery[x].expired => delivery'[x].expired
  <1>3. ASSUME NEW w \in Worker, NEW y \in Delivery, Claim(w, y) PROVE Kept
    BY <1>0, <1>3, ClaimFields
  <1>4. ASSUME NEW w \in Worker, Finish(w) PROVE Kept
    <2>1. HoldsLease(w) => delivery[task[w].on].state = "pending"
      BY DEF HoldsLease
    <2> QED
      BY <1>0, <1>4, <2>1, FinishFields
  <1>5. ASSUME NEW y \in Delivery, LeaseExpires(y) \/ RetryDue(y) \/ DeliveryExpires(y)
        PROVE  Kept
    BY <1>0, <1>5, TimeFields
  <1>6. \/ delivery' = delivery
        \/ \E e \in Event : Enqueue(e)
        \/ \E w \in Worker, y \in Delivery : Claim(w, y)
        \/ \E w \in Worker : Finish(w)
        \/ \E y \in Delivery : LeaseExpires(y) \/ RetryDue(y) \/ DeliveryExpires(y)
    BY DEF Next, vars, UpsertRead, UpsertWrite, Unregister, CloseGate, OpenGate, TokenDies,
           IdlePoll, WorkerStep, DoCheck, SendAccepted, SendUnanswered, SendRefused,
           DisableToken, Abandon, Delivery
  <1> QED
    BY <1>1, <1>2, <1>3, <1>4, <1>5, <1>6

\* What any step does to a device: nothing, a new binding, or a change of its
\* state that leaves an "off" alone.
LEMMA DevicesKept ==
  ASSUME TypeInv, BindInv, [Next]_vars, NEW d \in Device
  PROVE  \/ device'[d] = device[d]
         \/ device'[d].binding = nextBinding
         \/ /\ device'[d].binding = device[d].binding
            /\ device'[d].session = device[d].session
            /\ device'[d].token = device[d].token
            /\ \/ device'[d].state = "on" /\ device[d].state # "off"
               \/ device'[d].state = "dead"
  <1>0. TypeOK
    BY DEF TypeInv
  <1>1. ASSUME NEW c \in Caller, UpsertWrite(c)
        PROVE  \/ device'[d] = device[d]
               \/ device'[d].binding = nextBinding
               \/ /\ device'[d].binding = device[d].binding
                  /\ device'[d].session = device[d].session
                  /\ device'[d].token = device[d].token
                  /\ device'[d].state = "on" /\ device[d].state # "off"
    BY <1>1, UpsertWriteFields
  <1>2. ASSUME NEW e \in Device, NEW s \in Session, Unregister(e, s)
        PROVE  device'[d] = device[d] \/ device'[d].binding = nextBinding
    BY <1>0, <1>2, UnregisterFields
  <1>3. ASSUME NEW w \in Worker, DisableToken(w)
        PROVE  \/ device'[d] = device[d]
               \/ /\ device'[d].binding = device[d].binding
                  /\ device'[d].session = device[d].session
                  /\ device'[d].token = device[d].token
                  /\ device'[d].state = "dead"
    <2>1. \/ device' = device
          \/ device' = [device EXCEPT ![task[w].on[2]].state = "dead"]
      BY <1>3 DEF DisableToken
    <2>2. d # task[w].on[2] => device'[d] = device[d]
      BY <1>0, <2>1 DEF TypeOK
    <2>3. d = task[w].on[2] => device'[d] = device[d] \/ device'[d].state = "dead"
      BY <1>0, <2>1 DEF TypeOK, DeviceState
    <2> QED
      BY <1>0, <1>3, <2>2, <2>3, DisableFields
  <1>4. \/ device' = device
        \/ \E c \in Caller : UpsertWrite(c)
        \/ \E e \in Device, s \in Session : Unregister(e, s)
        \/ \E w \in Worker : DisableToken(w)
    BY DEF Next, vars, api, UpsertRead, CloseGate, OpenGate, TokenDies, Enqueue, Claim,
           IdlePoll, WorkerStep, DoCheck, SendAccepted, SendUnanswered, SendRefused,
           Finish, Abandon, LeaseExpires, RetryDue, DeliveryExpires
  <1> QED
    BY <1>1, <1>2, <1>3, <1>4

LEMMA BindStep == TypeInv /\ BindInv /\ [Next]_vars => BindInv'
  <1> SUFFICES ASSUME TypeInv, BindInv, [Next]_vars PROVE BindInv'
    OBVIOUS
  <1>0. TypeOK
    BY DEF TypeInv
  <1>1. ASSUME NEW c \in Caller, NEW d \in Device, NEW s \in Session, NEW t \in FcmToken,
               UpsertRead(c, d, s, t)
        PROVE  BindInv'
    BY <1>1, UpsertReadBind
  <1>2. ASSUME NEW c \in Caller, UpsertWrite(c) PROVE BindInv'
    BY <1>2, UpsertWriteBind
  <1>3. ASSUME NEW d \in Device, NEW s \in Session, Unregister(d, s) PROVE BindInv'
    <2>1. /\ device'[d].binding = nextBinding
          /\ \A e \in Device \ {d} : device'[e] = device[e]
      BY <1>0, <1>3, UnregisterFields
    <2>2. nextBinding' = nextBinding + 1 /\ request' = request /\ delivery' = delivery
      BY <1>3 DEF Unregister
    <2> QED
      BY <2>1, <2>2, FreshBinding
  <1>4. ASSUME nextBinding' = nextBinding, request' = request,
               \A d \in Device : /\ device'[d].binding = device[d].binding
                                 /\ device'[d].session = device[d].session
                                 /\ device'[d].token = device[d].token
                                 /\ device'[d].state \in {device[d].state, "dead"}
        PROVE  BindInv'
    <2>1. ASSUME NEW x \in Delivery, delivery'[x].state # "absent"
          PROVE  \/ /\ delivery[x].state # "absent"
                    /\ delivery'[x].binding = delivery[x].binding
                    /\ delivery'[x].user = delivery[x].user
                 \/ /\ device'[x[2]].state = "on"
                    /\ delivery'[x].binding = device[x[2]].binding
                    /\ delivery'[x].user = UserOf[device[x[2]].session]
      BY <2>1, DeliveriesKept
    <2> QED
      BY <1>4, <2>1, BindKept
  <1>5. ASSUME NEW w \in Worker, DisableToken(w) PROVE BindInv'
    <2>1. nextBinding' = nextBinding /\ request' = request
      BY <1>5 DEF DisableToken
    <2>2. \A d \in Device : /\ device'[d].binding = device[d].binding
                            /\ device'[d].session = device[d].session
                            /\ device'[d].token = device[d].token
                            /\ device'[d].state \in {device[d].state, "dead"}
      BY <1>0, <1>5, DisableFields
    <2> QED
      BY <1>4, <2>1, <2>2
  <1>6. CASE UNCHANGED <<device, request, nextBinding>>
    BY <1>4, <1>6
  <1>7. \/ UNCHANGED <<device, request, nextBinding>>
        \/ \E c \in Caller, d \in Device, s \in Session, t \in FcmToken : UpsertRead(c, d, s, t)
        \/ \E c \in Caller : UpsertWrite(c)
        \/ \E e \in Device, s \in Session : Unregister(e, s)
        \/ \E w \in Worker : DisableToken(w)
    BY DEF Next, vars, api, CloseGate, OpenGate, TokenDies, Enqueue, Claim,
           IdlePoll, WorkerStep, DoCheck, SendAccepted, SendUnanswered, SendRefused,
           Finish, Abandon, LeaseExpires, RetryDue, DeliveryExpires
  <1> QED
    BY <1>1, <1>2, <1>3, <1>5, <1>6, <1>7

-----------------------------------------------------------------------------
(* Leases *)

\* A step other than a claim ends a worker's task or keeps what it is on.
LEMMA TasksKept ==
  ASSUME TypeInv, [Next]_vars, NEW w \in Worker,
         \A v \in Worker, x \in Delivery : ~Claim(v, x)
  PROVE  \/ /\ task'[w].pc = "idle"
            /\ task[w].pc = "idle" \/ Finish(w) \/ Abandon(w)
         \/ /\ task[w].pc # "idle" /\ task'[w].pc # "idle"
            /\ task'[w].on = task[w].on /\ task'[w].lock = task[w].lock
            /\ task'[w].attempt = task[w].attempt
  <1>0. TypeOK /\ OutcomeInv
    BY DEF TypeInv
  <1> DEFINE Kept == /\ task[w].pc # "idle" /\ task'[w].pc # "idle"
                     /\ task'[w].on = task[w].on /\ task'[w].lock = task[w].lock
                     /\ task'[w].attempt = task[w].attempt
  <1>1. ASSUME NEW v \in Worker, task[v].pc # "idle",
               NEW o \in {"none", "skipped", "sent", "invalid_token", "dead_letter", "retry"},
               GoFinish(v, o)
        PROVE  task'[w] = task[w] \/ Kept
    BY <1>0, <1>1, GoFinishFields
  <1>2. ASSUME NEW v \in Worker, DoCheck(v) PROVE task'[w] = task[w] \/ Kept
    <2>1. task[v].pc # "idle"
      BY <1>2 DEF DoCheck
    <2>2. CASE Pass(v)
      BY <1>0, <2>1, <2>2, PassFields
    <2> QED
      BY <1>1, <1>2, <2>1, <2>2, DoCheckCases
  <1>3. ASSUME NEW v \in Worker, SendAccepted(v) \/ SendUnanswered(v) \/ SendRefused(v)
        PROVE  task'[w] = task[w] \/ Kept
    <2>1. task[v].pc # "idle"
      BY <1>3 DEF SendAccepted, SendUnanswered, SendRefused
    <2>2. CASE task' = [task EXCEPT ![v].pc = "disable"]
      BY <1>0, <2>1, <2>2, GoDisableFields
    <2> QED
      BY <1>1, <1>3, <2>1, <2>2 DEF SendAccepted, SendUnanswered, SendRefused
  <1>4. ASSUME NEW v \in Worker, DisableToken(v) PROVE task'[w] = task[w] \/ Kept
    <2>1. task[v].pc # "idle"
      BY <1>4 DEF DisableToken
    <2> QED
      BY <1>0, <1>1, <1>4, <2>1, DisableFields
  <1>5. ASSUME NEW v \in Worker, Finish(v) \/ Abandon(v)
        PROVE  task'[w] = task[w] \/ (task'[w].pc = "idle" /\ v = w)
    <2>t. NoTask \in TaskState /\ NoTask.pc = "idle"
      BY EmptyTypes DEF NoTask
    <2> QED
      BY <1>0, <1>5, <2>t, TaskUpdate DEF Finish, Abandon
  <1>6. ASSUME NEW g, OpenGate(g)
        PROVE  task'[w].pc = task[w].pc
               /\ task'[w].on = task[w].on /\ task'[w].lock = task[w].lock
               /\ task'[w].attempt = task[w].attempt
    BY <1>0, <1>6, OpenGateFields
  <1>7. \/ task' = task
        \/ \E g \in Gates : OpenGate(g)
        \/ \E v \in Worker : DoCheck(v)
        \/ \E v \in Worker : SendAccepted(v) \/ SendUnanswered(v) \/ SendRefused(v)
        \/ \E v \in Worker : DisableToken(v)
        \/ \E v \in Worker : Finish(v) \/ Abandon(v)
    BY DEF Next, vars, UpsertRead, UpsertWrite, Unregister, CloseGate, TokenDies, Enqueue,
           IdlePoll, WorkerStep, LeaseExpires, RetryDue, DeliveryExpires, Delivery
  <1> QED
    BY <1>2, <1>3, <1>4, <1>5, <1>6, <1>7

\* A step other than a claim gives nobody a lease.
LEMMA LeasesKept ==
  ASSUME TypeInv, [Next]_vars, NEW x \in Delivery,
         \A w \in Worker, z \in Delivery : ~Claim(w, z)
  PROVE  /\ delivery'[x].lock \in {delivery[x].lock, NoToken}
         /\ delivery'[x].locked = "fresh" =>
              /\ delivery[x].locked = "fresh" /\ delivery'[x].lock = delivery[x].lock
              /\ delivery'[x].state = delivery[x].state
  <1>0. TypeOK /\ OutcomeInv
    BY DEF TypeInv
  <1> DEFINE Kept == /\ delivery'[x].lock \in {delivery[x].lock, NoToken}
                     /\ delivery'[x].locked = "fresh" =>
                          /\ delivery[x].locked = "fresh" /\ delivery'[x].lock = delivery[x].lock
                          /\ delivery'[x].state = delivery[x].state
  <1>1. CASE delivery' = delivery
    BY <1>1
  <1>2. ASSUME NEW e \in Event, Enqueue(e) PROVE Kept
    BY <1>0, <1>2, EnqueueFields
  <1>3. ASSUME NEW w \in Worker, Finish(w) PROVE Kept
    BY <1>0, <1>3, FinishFields
  <1>4. ASSUME NEW z \in Delivery, LeaseExpires(z) \/ RetryDue(z) \/ DeliveryExpires(z)
        PROVE  Kept
    BY <1>0, <1>4, TimeFields
  <1>5. \/ delivery' = delivery
        \/ \E e \in Event : Enqueue(e)
        \/ \E w \in Worker : Finish(w)
        \/ \E z \in Delivery : LeaseExpires(z) \/ RetryDue(z) \/ DeliveryExpires(z)
    BY DEF Next, vars, UpsertRead, UpsertWrite, Unregister, CloseGate, OpenGate, TokenDies,
           IdlePoll, WorkerStep, DoCheck, SendAccepted, SendUnanswered, SendRefused,
           DisableToken, Abandon, Delivery
  <1> QED
    BY <1>1, <1>2, <1>3, <1>4, <1>5

LEMMA InitLock == Init => LockInv
  <1> SUFFICES ASSUME Init PROVE LockInv
    OBVIOUS
  <1>1. \A x \in Delivery : delivery[x].lock = 0 /\ delivery[x].locked = "null"
    BY DEF Init, AbsentDelivery, Delivery, NoToken
  <1>2. \A w \in Worker : task[w].pc = "idle"
    BY DEF Init, NoTask
  <1>3. nextToken = 1
    BY DEF Init
  <1> QED
    BY <1>1, <1>2, <1>3 DEF LockInv

LEMMA LockStep == TypeInv /\ LockInv /\ [Next]_vars => LockInv'
  <1> SUFFICES ASSUME TypeInv, LockInv, [Next]_vars PROVE LockInv'
    OBVIOUS
  <1>0. TypeOK /\ OutcomeInv
    BY DEF TypeInv
  <1>t. /\ nextToken \in Nat
        /\ \A x \in Delivery : delivery[x].lock \in Nat
        /\ \A w \in Worker : task[w].lock \in Nat /\ task[w].on \in Delivery
    BY <1>0, DeliveryFields, TaskFields DEF TypeOK
  <1>1. ASSUME NEW w \in Worker, NEW x \in Delivery, Claim(w, x) PROVE LockInv'
    <2>1. nextToken' = nextToken + 1
      BY <1>1 DEF Claim
    <2>2. /\ \A z \in Delivery \ {x} : delivery'[z] = delivery[z]
          /\ \A v \in Worker \ {w} : task'[v] = task[v]
          /\ delivery'[x].state = "pending" /\ delivery'[x].lock = nextToken
          /\ task'[w].on = x /\ task'[w].lock = nextToken
      BY <1>0, <1>1, ClaimFields
    <2>3. ASSUME NEW z \in Delivery
          PROVE  /\ delivery'[z].lock < nextToken'
                 /\ delivery'[z].locked = "fresh" => delivery'[z].state = "pending"
      <3>1. CASE z = x
        BY <1>t, <2>1, <2>2, <3>1
      <3>2. CASE z # x
        BY <1>t, <2>1, <2>2, <3>2 DEF LockInv
      <3> QED
        BY <3>1, <3>2
    <2>4. ASSUME NEW v \in Worker, task'[v].pc # "idle"
          PROVE  /\ task'[v].lock < nextToken'
                 /\ delivery'[task'[v].on].state # "absent"
                 /\ \A u \in Worker \ {v} : task'[u].pc # "idle" => task'[u].lock # task'[v].lock
      <3>1. CASE v = w
        BY <1>t, <2>1, <2>2, <3>1 DEF LockInv
      <3>2. CASE v # w
        BY <1>t, <2>1, <2>2, <2>4, <3>2 DEF LockInv
      <3> QED
        BY <3>1, <3>2
    <2>5. nextToken' > 0
      BY <1>t, <2>1
    <2> QED
      BY <2>3, <2>4, <2>5 DEF LockInv
  <1>2. CASE \A w \in Worker, x \in Delivery : ~Claim(w, x)
    <2>1. nextToken' = nextToken
      BY <1>2 DEF Next, vars, UpsertRead, UpsertWrite, Unregister, CloseGate, OpenGate,
             TokenDies, Enqueue, IdlePoll, WorkerStep, DoCheck, SendAccepted, SendUnanswered,
             SendRefused, DisableToken, Finish, Abandon, LeaseExpires, RetryDue,
             DeliveryExpires, Delivery
    <2>2. ASSUME NEW z \in Delivery
          PROVE  /\ delivery'[z].lock < nextToken'
                 /\ delivery'[z].locked = "fresh" => delivery'[z].state = "pending"
      <3>1. /\ delivery'[z].lock \in {delivery[z].lock, NoToken}
            /\ delivery'[z].locked = "fresh" =>
                 /\ delivery[z].locked = "fresh" /\ delivery'[z].state = delivery[z].state
        BY <1>2, LeasesKept
      <3> QED
        BY <2>1, <3>1 DEF LockInv, NoToken
    <2>3. ASSUME NEW w \in Worker, task'[w].pc # "idle"
          PROVE  /\ task'[w].lock < nextToken'
                 /\ delivery'[task'[w].on].state # "absent"
                 /\ \A v \in Worker \ {w} : task'[v].pc # "idle" => task'[v].lock # task'[w].lock
      <3>1. /\ task[w].pc # "idle"
            /\ task'[w].on = task[w].on /\ task'[w].lock = task[w].lock
        BY <1>2, <2>3, TasksKept
      <3>2. \A v \in Worker : task'[v].pc # "idle" =>
              task[v].pc # "idle" /\ task'[v].lock = task[v].lock
        BY <1>2, TasksKept
      <3>3. delivery[task[w].on].state # "absent" => delivery'[task[w].on].state # "absent"
        BY <1>t, DeliveriesKept
      <3> QED
        BY <2>1, <3>1, <3>2, <3>3 DEF LockInv
    <2> QED
      BY <2>1, <2>2, <2>3 DEF LockInv
  <1> QED
    BY <1>1, <1>2

-----------------------------------------------------------------------------
(* Opt-outs *)

\* A session that has expired stays so.
LEMMA ExpiryKept ==
  ASSUME [Next]_vars, NEW s, <<"expiry", s>> \in closed
  PROVE  <<"expiry", s>> \in closed'
  <1>1. ASSUME NEW g \in Gates, CloseGate(g) PROVE <<"expiry", s>> \in closed'
    BY <1>1 DEF CloseGate
  <1>2. ASSUME NEW g \in Gates, OpenGate(g) PROVE <<"expiry", s>> \in closed'
    <2>1. g # <<"expiry", s>>
      BY <1>2 DEF OpenGate
    <2> QED
      BY <1>2, <2>1 DEF OpenGate
  <1>3. \/ closed' = closed \/ \E g \in Gates : CloseGate(g) \/ OpenGate(g)
    BY DEF Next, vars, api, UpsertRead, UpsertWrite, Unregister, TokenDies, Enqueue, Claim,
           IdlePoll, WorkerStep, DoCheck, SendAccepted, SendUnanswered, SendRefused,
           DisableToken, Finish, Abandon, LeaseExpires, RetryDue, DeliveryExpires
  <1> QED
    BY <1>1, <1>2, <1>3

\* A delivery's device that was unregistered, bound anew or expired stays so as
\* far as this delivery is concerned; one that was not keeps its session.
LEMMA OptedOutStays ==
  ASSUME TypeInv, BindInv, [Next]_vars, NEW x \in Delivery, delivery[x].state # "absent"
  PROVE  /\ OptedOut(x) => OptedOut(x)'
         /\ ~OptedOut(x)' => device'[x[2]].session = device[x[2]].session
         /\ delivery'[x].user = delivery[x].user
  <1> DEFINE d == x[2]
  <1>1. d \in Device /\ nextBinding \in Nat /\ delivery[x].binding \in Nat
    BY DeliveryFields DEF TypeInv, TypeOK
  <1>2. /\ delivery'[x].user = delivery[x].user /\ delivery'[x].binding = delivery[x].binding
        /\ delivery[x].expired => delivery'[x].expired
    BY DeliveriesKept
  <1>3. /\ delivery[x].binding < nextBinding
        /\ delivery[x].binding = device[d].binding => device[d].state # "off"
    BY DEF BindInv
  <1>4. CASE device'[d].binding = nextBinding
    <2>1. OptedOut(x)'
      BY <1>1, <1>2, <1>3, <1>4 DEF OptedOut
    <2> QED
      BY <1>2, <2>1
  <1>5. CASE /\ device'[d].binding = device[d].binding
             /\ device'[d].session = device[d].session
             /\ \/ device'[d].state = device[d].state
                \/ device[d].state # "off"
                \/ device'[d].state = "dead"
    <2>1. <<"expiry", device[d].session>> \in closed => <<"expiry", device'[d].session>> \in closed'
      BY <1>5, ExpiryKept
    <2>2. OptedOut(x) => OptedOut(x)'
      BY <1>2, <1>3, <1>5, <2>1 DEF OptedOut
    <2> QED
      BY <1>2, <1>5, <2>2
  <1> QED
    BY <1>1, <1>4, <1>5, DevicesKept

\* A worker that stays where it is, whatever changes around it.
LEMMA ShutKept ==
  ASSUME TypeInv, BindInv, LockInv, [Next]_vars, NEW w \in Worker, ShutAt(w),
         task'[w].pc = task[w].pc, task'[w].on = task[w].on, task'[w].next = task[w].next,
         task'[w].session = task[w].session, task'[w].token = task[w].token,
         task'[w].shut \subseteq task[w].shut,
         \A g \in task'[w].shut : g \in closed => g \in closed',
         unregistered \subseteq unregistered'
  PROVE  ShutAt(w)'
  <1>x. PICK x \in Delivery : task[w].on = x
    BY TaskFields DEF TypeInv
  <1>1. task'[w].on = x
    BY <1>x
  <1>2. task[w].pc # "idle" => delivery[x].state # "absent"
    BY <1>x DEF LockInv
  <1>3. task[w].pc # "idle" =>
          /\ OptedOut(x) => OptedOut(x)'
          /\ ~OptedOut(x)' => device'[x[2]].session = device[x[2]].session
          /\ delivery'[x].user = delivery[x].user
    BY <1>2, OptedOutStays
  <1>4. ASSUME task'[w].pc = "check", task'[w].next = 1, ~OptedOut(x)', NEW g \in task'[w].shut
        PROVE  g \in closed' /\ \E k \in 2..5 : g = GateAt(k, x, delivery'[x].user, device'[x[2]].session)
    <2>1. task[w].pc = "check" /\ task[w].next = 1 /\ ~OptedOut(x) /\ g \in task[w].shut
      BY <1>3, <1>4
    <2>2. g \in closed /\ \E k \in 2..5 : g = GateAt(k, x, delivery[x].user, device[x[2]].session)
      BY <1>x, <2>1 DEF ShutAt
    <2> QED
      BY <1>3, <1>4, <2>1, <2>2
  <1>5. ASSUME task'[w].pc = "check", task'[w].next # 1, NEW g \in task'[w].shut
        PROVE  g \in closed' /\ \E k \in (task'[w].next)..5 :
                                  g = GateAt(k, x, delivery'[x].user, task'[w].session)
    <2>1. task[w].pc = "check" /\ task[w].next # 1 /\ g \in task[w].shut
      BY <1>5
    <2>2. g \in closed /\ \E k \in (task[w].next)..5 : g = GateAt(k, x, delivery[x].user, task[w].session)
      BY <1>x, <2>1 DEF ShutAt
    <2> QED
      BY <1>3, <1>5, <2>1, <2>2
  <1>6. /\ task'[w].pc = "send" => task'[w].shut = {}
        /\ task'[w].pc = "disable" => task'[w].token \in unregistered'
    BY DEF ShutAt
  <1> QED
    BY <1>1, <1>4, <1>5, <1>6 DEF ShutAt, GateAt

\* What a claim notes as closed, the checks will find.
LEMMA ClaimShut ==
  ASSUME TypeInv, BindInv, [Next]_vars, NEW w \in Worker, NEW x \in Delivery, Claim(w, x)
  PROVE  ShutAt(w)'
  <1>0. TypeOK
    BY DEF TypeInv
  <1>1. UNCHANGED <<device, closed>>
    BY DEF Claim, api
  <1>2. /\ task'[w].pc = "check" /\ task'[w].on = x /\ task'[w].next = 1
        /\ task'[w].shut = ShutNow(x)
        /\ delivery[x].state = "pending" /\ delivery'[x].user = delivery[x].user
    BY <1>0, ClaimFields
  <1>3. OptedOut(x) => OptedOut(x)'
    BY <1>2, OptedOutStays
  <1>4. ASSUME ~OptedOut(x), NEW g \in ShutNow(x)
        PROVE  g \in closed /\ \E k \in 2..5 : g = GateAt(k, x, delivery[x].user, device[x[2]].session)
    BY <1>4, ChecksValues DEF ShutNow, GateAt
  <1> QED
    BY <1>1, <1>2, <1>3, <1>4 DEF ShutAt, GateAt

\* A check that is passed finds its gate open.
LEMMA PassShut ==
  ASSUME TypeInv, NEW w \in Worker, ShutAt(w), DoCheck(w), Pass(w)
  PROVE  ShutAt(w)'
  <1>0. TypeOK
    BY DEF TypeInv
  <1> DEFINE t == task[w]
             x == t.on
             n == t.next
  <1>1. UNCHANGED <<device, closed, delivery>> /\ t.pc = "check"
    BY DoCheckCases
  <1>2. n \in 1..5
    BY <1>0, TaskFields
  <1>3. /\ task'[w].on = x /\ task'[w].shut = t.shut
        /\ n = 5 => task'[w].pc = "send"
        /\ n # 5 => task'[w].pc = "check" /\ task'[w].next = n + 1
        /\ n = 1 => task'[w].session = device[x[2]].session
        /\ n # 1 => task'[w].session = t.session
    BY <1>0, PassFields
  <1>4. ~CheckFails(w, Checks[n])
    BY DEF Pass
  <1>5. CASE n = 1
    <2>1. ~OptedOut(x)
      BY <1>4, <1>5, ChecksValues DEF CheckFails, BindingStale
    <2>2. \A g \in t.shut :
            g \in closed /\ \E k \in 2..5 : g = GateAt(k, x, delivery[x].user, device[x[2]].session)
      BY <1>1, <1>5, <2>1 DEF ShutAt
    <2>3. task'[w].pc = "check" /\ task'[w].next = 2 /\ task'[w].session = device[x[2]].session
      BY <1>3, <1>5
    <2> QED
      BY <1>1, <1>3, <2>2, <2>3 DEF ShutAt, GateAt
  <1>6. CASE n # 1
    <2>1. Checks[n] # "binding"
      BY <1>2, <1>6, ChecksValues
    <2>2. GateAt(n, x, delivery[x].user, t.session) \notin closed
      BY <1>4, <2>1 DEF CheckFails, GateAt
    <2>3. \A g \in t.shut :
            g \in closed /\ \E k \in n..5 : g = GateAt(k, x, delivery[x].user, t.session)
      BY <1>1, <1>6 DEF ShutAt
    <2>4. \A g \in t.shut :
            g \in closed /\ \E k \in (n+1)..5 : g = GateAt(k, x, delivery[x].user, t.session)
      <3> TAKE g \in t.shut
      <3>1. PICK k \in n..5 : g = GateAt(k, x, delivery[x].user, t.session)
        BY <2>3
      <3>2. g \in closed
        BY <2>3
      <3>3. k # n
        BY <2>2, <3>1, <3>2
      <3>4. k \in (n+1)..5
        BY <1>2, <3>1, <3>3
      <3> QED
        BY <3>1, <3>2, <3>4
    <2>5. CASE n = 5
      <3>1. t.shut = {}
        BY <2>4, <2>5
      <3> QED
        BY <1>3, <2>5, <3>1 DEF ShutAt
    <2>6. CASE n # 5
      <3>1. task'[w].pc = "check" /\ task'[w].next = n + 1 /\ task'[w].session = t.session
        BY <1>3, <1>6, <2>6
      <3> QED
        BY <1>1, <1>2, <1>3, <2>4, <3>1 DEF ShutAt, GateAt
    <2> QED
      BY <2>5, <2>6
  <1> QED
    BY <1>5, <1>6

\* A worker that is done, or has nothing to do, has nothing to find.
LEMMA ShutOver ==
  ASSUME NEW w \in Worker, task'[w].pc \in {"idle", "finish"}
  PROVE  ShutAt(w)'
  BY DEF ShutAt

LEMMA InitShut == Init => ShutInv
  BY DEF Init, NoTask, ShutInv, ShutAt

LEMMA ShutStep == TypeInv /\ BindInv /\ LockInv /\ ShutInv /\ [Next]_vars => ShutInv'
  <1> SUFFICES ASSUME TypeInv, BindInv, LockInv, ShutInv, [Next]_vars, NEW v \in Worker
               PROVE  ShutAt(v)'
    BY DEF ShutInv
  <1>0. TypeOK /\ OutcomeInv /\ ShutAt(v)
    BY DEF TypeInv, ShutInv
  <1>1. ASSUME task'[v] = task[v], closed \subseteq closed', unregistered \subseteq unregistered'
        PROVE  ShutAt(v)'
    BY <1>0, <1>1, ShutKept
  <1>2. ASSUME NEW g \in Gates, OpenGate(g) PROVE ShutAt(v)'
    <2>1. closed' = closed \ {g} /\ unregistered' = unregistered
      BY <1>2 DEF OpenGate
    <2>2. /\ task'[v].pc = task[v].pc /\ task'[v].on = task[v].on
          /\ task'[v].next = task[v].next
          /\ task'[v].session = task[v].session /\ task'[v].token = task[v].token
          /\ task'[v].shut = task[v].shut \ {g}
      BY <1>0, <1>2, OpenGateFields
    <2> QED
      BY <1>0, <2>1, <2>2, ShutKept
  <1>3. CASE /\ task' = task
             /\ closed \subseteq closed' /\ unregistered \subseteq unregistered'
    BY <1>1, <1>3
  <1>4. ASSUME NEW w \in Worker, NEW x \in Delivery, Claim(w, x) PROVE ShutAt(v)'
    <2>1. \A u \in Worker \ {w} : task'[u] = task[u]
      BY <1>0, <1>4, ClaimFields
    <2>2. UNCHANGED <<closed, unregistered>>
      BY <1>4 DEF Claim, api
    <2> QED
      BY <1>1, <1>4, <2>1, <2>2, ClaimShut
  <1>5. ASSUME NEW w \in Worker, UNCHANGED <<closed, unregistered>>,
               NEW o \in {"none", "skipped", "sent", "invalid_token", "dead_letter", "retry"},
               GoFinish(w, o)
        PROVE  ShutAt(v)'
    BY <1>0, <1>1, <1>5, GoFinishFields, ShutOver
  <1>6. ASSUME NEW w \in Worker, DoCheck(w) PROVE ShutAt(v)'
    <2>1. UNCHANGED <<closed, unregistered>>
      BY <1>6, DoCheckCases
    <2>2. CASE Pass(w)
      <3>1. v # w => task'[v] = task[v]
        BY <1>0, <2>2, PassFields
      <3> QED
        BY <1>0, <1>1, <1>6, <2>1, <2>2, <3>1, PassShut
    <2> QED
      BY <1>5, <1>6, <2>1, <2>2, DoCheckCases
  <1>7. ASSUME NEW w \in Worker, SendAccepted(w) \/ SendUnanswered(w) \/ SendRefused(w)
        PROVE  ShutAt(v)'
    <2>1. UNCHANGED <<closed, unregistered>>
      BY <1>7 DEF SendAccepted, SendUnanswered, SendRefused, api
    <2>2. ASSUME task[w].token \in unregistered, task' = [task EXCEPT ![w].pc = "disable"]
          PROVE  ShutAt(v)'
      <3>0. /\ \A u \in Worker \ {w} : task'[u] = task[u]
            /\ task'[w].pc = "disable" /\ task'[w].token = task[w].token
        BY <1>0, <2>2, GoDisableFields
      <3>1. /\ \A u \in Worker \ {w} : task'[u] = task[u]
            /\ task'[w].pc = "disable" /\ task'[w].token \in unregistered'
        BY <2>1, <2>2, <3>0
      <3>2. CASE v = w
        BY <3>1, <3>2 DEF ShutAt
      <3>3. CASE v # w
        BY <1>1, <2>1, <3>1, <3>3
      <3> QED
        BY <3>2, <3>3
    <2> QED
      BY <1>5, <1>7, <2>1, <2>2 DEF SendAccepted, SendUnanswered, SendRefused
  <1>8. ASSUME NEW w \in Worker, DisableToken(w) PROVE ShutAt(v)'
    <2>1. UNCHANGED <<closed, unregistered>>
      BY <1>8 DEF DisableToken
    <2> QED
      BY <1>0, <1>5, <1>8, <2>1, DisableFields
  <1>9. ASSUME NEW w \in Worker, Finish(w) \/ Abandon(w) PROVE ShutAt(v)'
    <2>1. UNCHANGED <<closed, unregistered>>
      BY <1>9 DEF Finish, Abandon, api
    <2>t. NoTask \in TaskState /\ NoTask.pc = "idle"
      BY EmptyTypes DEF NoTask
    <2>2. task'[w].pc = "idle" /\ \A u \in Worker \ {w} : task'[u] = task[u]
      BY <1>0, <1>9, <2>t, TaskUpdate DEF Finish, Abandon
    <2> QED
      BY <1>1, <2>1, <2>2, ShutOver
  <1>10. \/ /\ task' = task
            /\ closed \subseteq closed' /\ unregistered \subseteq unregistered'
         \/ \E g \in Gates : OpenGate(g)
         \/ \E w \in Worker, x \in Delivery : Claim(w, x)
         \/ \E w \in Worker : DoCheck(w)
         \/ \E w \in Worker : SendAccepted(w) \/ SendUnanswered(w) \/ SendRefused(w)
         \/ \E w \in Worker : DisableToken(w)
         \/ \E w \in Worker : Finish(w) \/ Abandon(w)
    BY DEF Next, vars, api, UpsertRead, UpsertWrite, Unregister, CloseGate, TokenDies, Enqueue,
           IdlePoll, WorkerStep, LeaseExpires, RetryDue, DeliveryExpires, Delivery
  <1> QED
    BY <1>2, <1>3, <1>4, <1>6, <1>7, <1>8, <1>9, <1>10

\* Opt-outs are respected, whatever happens between claim and call.
THEOREM OptOutsRespected == Spec => []OptOutRespected
  <1> DEFINE Inv == TypeInv /\ BindInv /\ LockInv /\ ShutInv
  <1>1. Init => Inv
    BY InitType, InitBind, InitLock, InitShut
  <1>2. Inv /\ [Next]_vars => Inv'
    BY StepType, BindStep, LockStep, ShutStep
  <1>3. Inv => OptOutRespected
    BY DEF ShutInv, ShutAt, OptOutRespected
  <1> QED
    BY <1>1, <1>2, <1>3, PTL DEF Spec

-----------------------------------------------------------------------------
(* Outcomes and registrations are not overwritten *)

\* A finished delivery does not change.
LEMMA DoneStep ==
  ASSUME TypeInv, [Next]_vars, NEW x \in Delivery, delivery[x].state \notin {"absent", "pending"}
  PROVE  delivery'[x] = delivery[x]
  <1>0. TypeOK /\ OutcomeInv
    BY DEF TypeInv
  <1>1. ASSUME NEW e \in Event, Enqueue(e) PROVE delivery'[x] = delivery[x]
    BY <1>0, <1>1, EnqueueFields
  <1>2. ASSUME NEW w \in Worker, NEW y \in Delivery, Claim(w, y)
        PROVE  delivery'[x] = delivery[x]
    BY <1>0, <1>2, ClaimFields
  <1>3. ASSUME NEW w \in Worker, Finish(w) PROVE delivery'[x] = delivery[x]
    <2>1. HoldsLease(w) => delivery[task[w].on].state = "pending"
      BY DEF HoldsLease
    <2> QED
      BY <1>0, <1>3, <2>1, FinishFields
  <1>4. ASSUME NEW y \in Delivery, LeaseExpires(y) \/ RetryDue(y) \/ DeliveryExpires(y)
        PROVE  delivery'[x] = delivery[x]
    BY <1>0, <1>4, TimeFields
  <1>5. \/ delivery' = delivery
        \/ \E e \in Event : Enqueue(e)
        \/ \E w \in Worker, y \in Delivery : Claim(w, y)
        \/ \E w \in Worker : Finish(w)
        \/ \E y \in Delivery : LeaseExpires(y) \/ RetryDue(y) \/ DeliveryExpires(y)
    BY DEF Next, vars, UpsertRead, UpsertWrite, Unregister, CloseGate, OpenGate, TokenDies,
           IdlePoll, WorkerStep, DoCheck, SendAccepted, SendUnanswered, SendRefused,
           DisableToken, Abandon, Delivery
  <1> QED
    BY <1>1, <1>2, <1>3, <1>4, <1>5

\* Finish records an outcome under its lease only, and a projection that runs
\* again finds the rows it made: no outcome is ever replaced.
THEOREM OutcomesAreFinal == Spec => FinishedIsFinal
  <1> DEFINE Final == \A x \in Event \X Device :
                        delivery[x].state \notin {"absent", "pending"} => delivery'[x] = delivery[x]
  <1>1. TypeInv /\ [Next]_vars => Final
    BY DoneStep DEF Delivery
  <1>2. TypeInv /\ [Next]_vars => [Final]_vars
    BY <1>1
  <1> QED
    BY InitType, StepType, <1>2, PTL DEF Spec, FinishedIsFinal

LEMMA DisableStep ==
  ASSUME TypeInv, BindInv, ShutInv, [Next]_vars, NEW d \in Device,
         device'[d].state = "dead", device[d].state # "dead"
  PROVE  device[d].token \in unregistered
  <1>0. TypeOK
    BY DEF TypeInv
  <1>1. ASSUME NEW c \in Caller, UpsertWrite(c) PROVE FALSE
    <2>1. device'[d] = device[d] \/ device'[d].state = "on"
      BY <1>1, UpsertWriteFields
    <2> QED
      BY <2>1
  <1>2. ASSUME NEW e \in Device, NEW s \in Session, Unregister(e, s) PROVE FALSE
    <2>1. device'[d] = device[d] \/ device'[d].state = "off"
      BY <1>0, <1>2, UnregisterFields
    <2> QED
      BY <2>1
  <1>3. ASSUME NEW w \in Worker, DisableToken(w) PROVE device[d].token \in unregistered
    <2>1. task[w].pc = "disable" /\ device[d].token = task[w].token
      BY <1>0, <1>3, DisableFields
    <2> QED
      BY <2>1 DEF ShutInv, ShutAt
  <1>4. \/ device' = device
        \/ \E c \in Caller : UpsertWrite(c)
        \/ \E e \in Device, s \in Session : Unregister(e, s)
        \/ \E w \in Worker : DisableToken(w)
    BY DEF Next, vars, api, UpsertRead, CloseGate, OpenGate, TokenDies, Enqueue, Claim,
           IdlePoll, WorkerStep, DoCheck, SendAccepted, SendUnanswered, SendRefused,
           Finish, Abandon, LeaseExpires, RetryDue, DeliveryExpires
  <1> QED
    BY <1>1, <1>2, <1>3, <1>4

\* A worker that comes late with FCM's refusal disables the registration that
\* was refused, never the one that replaced it.
THEOREM OnlyRefusedDisabled == Spec => DisablesRefusedToken
  <1> DEFINE Inv == TypeInv /\ BindInv /\ LockInv /\ ShutInv
             A == \A d \in Device : device'[d].state = "dead" /\ device[d].state # "dead" =>
                    device[d].token \in unregistered
  <1>1. Init => Inv
    BY InitType, InitBind, InitLock, InitShut
  <1>2. Inv /\ [Next]_vars => Inv'
    BY StepType, BindStep, LockStep, ShutStep
  <1>3. Inv /\ [Next]_vars => A
    BY DisableStep
  <1>4. Inv /\ [Next]_vars => [A]_vars
    BY <1>3
  <1> QED
    BY <1>1, <1>2, <1>4, PTL DEF Spec, DisablesRefusedToken

LEMMA EnableStep ==
  ASSUME TypeInv, BindInv, [Next]_vars, NEW d \in Device,
         device[d].state = "off", device'[d].state = "on"
  PROVE  \E c \in Caller : request[c].pc = "write" /\ request[c].on = d /\ request[c].saw = device[d]
  <1>0. TypeOK
    BY DEF TypeInv
  <1>1. ASSUME NEW c \in Caller, UpsertWrite(c)
        PROVE  request[c].pc = "write" /\ request[c].on = d /\ request[c].saw = device[d]
    <2>1. request[c].pc = "write"
      BY <1>1 DEF UpsertWrite
    <2>2. request[c].on = d /\ device[d].binding = request[c].saw.binding
      BY <1>1, UpsertWriteFields
    <2>3. /\ request[c].saw.session = device[d].session /\ request[c].saw.token = device[d].token
          /\ request[c].saw.state = device[d].state
      BY <2>1, <2>2 DEF BindInv
    <2>4. request[c].saw \in DeviceState /\ device[d] \in DeviceState
      BY <1>0 DEF TypeOK, RequestState
    <2>5. ASSUME NEW a \in DeviceState, NEW b \in DeviceState, a.state = b.state,
                 a.session = b.session, a.token = b.token, a.binding = b.binding
          PROVE  a = b
      BY <2>5 DEF DeviceState
    <2> QED
      BY <2>1, <2>2, <2>3, <2>4, <2>5
  <1>2. ASSUME NEW e \in Device, NEW s \in Session, Unregister(e, s) PROVE FALSE
    <2>1. device'[d] = device[d] \/ device'[d].state = "off"
      BY <1>0, <1>2, UnregisterFields
    <2> QED
      BY <2>1
  <1>3. ASSUME NEW w \in Worker, DisableToken(w) PROVE FALSE
    <2>1. device'[d].state \in {device[d].state, "dead"}
      BY <1>0, <1>3, DisableFields
    <2> QED
      BY <2>1
  <1>4. \/ device' = device
        \/ \E c \in Caller : UpsertWrite(c)
        \/ \E e \in Device, s \in Session : Unregister(e, s)
        \/ \E w \in Worker : DisableToken(w)
    BY DEF Next, vars, api, UpsertRead, CloseGate, OpenGate, TokenDies, Enqueue, Claim,
           IdlePoll, WorkerStep, DoCheck, SendAccepted, SendUnanswered, SendRefused,
           Finish, Abandon, LeaseExpires, RetryDue, DeliveryExpires
  <1> QED
    BY <1>1, <1>2, <1>3, <1>4

\* The compare-and-set on the binding id is enough: every Unregister issues a new
\* one, so a registration that had read the device before is refused.
THEOREM UnregisterIsKept == Spec => UnregisterSticks
  <1> DEFINE Inv == TypeInv /\ BindInv
             A == \A d \in Device : device[d].state = "off" /\ device'[d].state = "on" =>
                    \E c \in Caller :
                      request[c].pc = "write" /\ request[c].on = d /\ request[c].saw = device[d]
  <1>1. Init => Inv
    BY InitType, InitBind
  <1>2. Inv /\ [Next]_vars => Inv'
    BY StepType, BindStep
  <1>3. Inv /\ [Next]_vars => A
    BY EnableStep
  <1>4. Inv /\ [Next]_vars => [A]_vars
    BY <1>3
  <1> QED
    BY <1>1, <1>2, <1>4, PTL DEF Spec, UnregisterSticks

-----------------------------------------------------------------------------
(* Duplicates *)

\* The workers without a lease are finitely many.
LEMMA StaleFinite ==
  ASSUME NEW x
  PROVE  /\ IsFiniteSet(Stale(x)) /\ Cardinality(Stale(x)) \in Nat
         /\ IsFiniteSet(Stale(x)') /\ Cardinality(Stale(x)') \in Nat
  <1>1. Stale(x) \subseteq Worker /\ Stale(x)' \subseteq Worker
    BY DEF Stale
  <1>2. IsFiniteSet(Worker)
    BY PushAssumption
  <1> QED
    BY <1>1, <1>2, FS_Subset, FS_CardinalityType

\* The ways the account of a delivery may change.
LEMMA CountKept ==
  ASSUME TypeInv, TypeInv', NEW x \in Delivery, CountAt(x),
         \/ /\ accepted'[x] = accepted[x] /\ faults' \in {faults, faults + 1}
            /\ Stale(x)' \subseteq Stale(x) /\ (Credit(x) => Credit(x)')
         \/ /\ accepted'[x] = accepted[x] /\ faults' = faults + 1
            /\ Stale(x)' \subseteq Stale(x)
         \/ /\ accepted'[x] = accepted[x] + 1 /\ faults' = faults + 1
            /\ Stale(x)' \subseteq Stale(x) /\ (Credit(x) => Credit(x)')
         \/ /\ accepted'[x] = accepted[x] + 1 /\ faults' = faults
            /\ Stale(x)' \subseteq Stale(x) /\ ~Credit(x) /\ Credit(x)'
  PROVE  CountAt(x)'
  <1>1. /\ accepted[x] \in Nat /\ accepted'[x] \in Nat /\ faults \in Nat /\ faults' \in Nat
    BY PushAssumption DEF TypeInv, TypeOK, Delivery
  <1>2. IsFiniteSet(Stale(x)) /\ Cardinality(Stale(x)) \in Nat /\ Cardinality(Stale(x)') \in Nat
    BY StaleFinite
  <1>3. Cardinality(Stale(x)') <= Cardinality(Stale(x))
    BY <1>2, FS_Subset
  <1>4. accepted[x] + Cardinality(Stale(x)) <= faults + (IF Credit(x) THEN 1 ELSE 0)
    BY DEF CountAt
  <1>5. accepted'[x] + Cardinality(Stale(x)') <= faults' + (IF Credit(x)' THEN 1 ELSE 0)
    BY <1>1, <1>2, <1>3, <1>4
  <1> QED
    BY <1>5 DEF CountAt

\* A worker that holds no lease sends.
LEMMA CountStaleSends ==
  ASSUME TypeInv, TypeInv', NEW x \in Delivery, CountAt(x), NEW w \in Stale(x),
         Stale(x)' \subseteq Stale(x) \ {w},
         accepted'[x] = accepted[x] + 1, faults' = faults, Credit(x) => Credit(x)'
  PROVE  CountAt(x)'
  <1>1. /\ accepted[x] \in Nat /\ accepted'[x] \in Nat /\ faults \in Nat /\ faults' \in Nat
    BY PushAssumption DEF TypeInv, TypeOK, Delivery
  <1>2. IsFiniteSet(Stale(x)) /\ Cardinality(Stale(x)) \in Nat /\ Cardinality(Stale(x)') \in Nat
    BY StaleFinite
  <1>3. /\ IsFiniteSet(Stale(x) \ {w}) /\ Cardinality(Stale(x) \ {w}) = Cardinality(Stale(x)) - 1
    BY <1>2, FS_RemoveElement
  <1>4. Cardinality(Stale(x)') <= Cardinality(Stale(x) \ {w})
    BY <1>3, FS_Subset
  <1>5. accepted[x] + Cardinality(Stale(x)) <= faults + (IF Credit(x) THEN 1 ELSE 0)
    BY DEF CountAt
  <1>6. accepted'[x] + Cardinality(Stale(x)') <= faults' + (IF Credit(x)' THEN 1 ELSE 0)
    BY <1>1, <1>2, <1>3, <1>4, <1>5
  <1> QED
    BY <1>6 DEF CountAt

\* A worker that may still send loses its lease.
LEMMA CountLeaseLost ==
  ASSUME TypeInv, TypeInv', NEW x \in Delivery, CountAt(x), NEW w,
         Stale(x)' \subseteq Stale(x) \cup {w},
         accepted'[x] = accepted[x], faults' = faults + 1, ~Credit(x)
  PROVE  CountAt(x)'
  <1>1. /\ accepted[x] \in Nat /\ accepted'[x] \in Nat /\ faults \in Nat /\ faults' \in Nat
    BY PushAssumption DEF TypeInv, TypeOK, Delivery
  <1>2. IsFiniteSet(Stale(x)) /\ Cardinality(Stale(x)) \in Nat /\ Cardinality(Stale(x)') \in Nat
    BY StaleFinite
  <1>3. /\ IsFiniteSet(Stale(x) \cup {w})
        /\ Cardinality(Stale(x) \cup {w}) \in {Cardinality(Stale(x)), Cardinality(Stale(x)) + 1}
    BY <1>2, FS_AddElement
  <1>4. Cardinality(Stale(x)') <= Cardinality(Stale(x) \cup {w})
    BY <1>3, FS_Subset
  <1>5. accepted[x] + Cardinality(Stale(x)) <= faults + (IF Credit(x) THEN 1 ELSE 0)
    BY DEF CountAt
  <1>6. accepted'[x] + Cardinality(Stale(x)') <= faults' + (IF Credit(x)' THEN 1 ELSE 0)
    BY <1>1, <1>2, <1>3, <1>4, <1>5
  <1> QED
    BY <1>6 DEF CountAt

\* Nobody but a claim starts a worker on its checks.
LEMMA SendersKept ==
  ASSUME TypeInv, [Next]_vars, NEW w \in Worker, task'[w].pc \in {"check", "send"},
         \A v \in Worker, x \in Delivery : ~Claim(v, x)
  PROVE  task[w].pc \in {"check", "send"}
  <1>0. TypeOK
    BY DEF TypeInv
  <1>t. NoTask \in TaskState /\ NoTask.pc = "idle"
    BY EmptyTypes DEF NoTask
  <1>1. ASSUME NEW v \in Worker,
               NEW o \in {"none", "skipped", "sent", "invalid_token", "dead_letter", "retry"},
               GoFinish(v, o)
        PROVE  task'[w] = task[w]
    BY <1>0, <1>1, GoFinishFields
  <1>2. ASSUME NEW v \in Worker, DoCheck(v) PROVE task[w].pc \in {"check", "send"}
    <2>1. CASE Pass(v)
      <3>1. \A u \in Worker \ {v} : task'[u] = task[u]
        BY <1>0, <2>1, PassFields
      <3>2. task[v].pc = "check"
        BY <1>2 DEF DoCheck
      <3> QED
        BY <3>1, <3>2
    <2> QED
      BY <1>1, <1>2, <2>1, DoCheckCases
  <1>3. ASSUME NEW v \in Worker, SendAccepted(v) \/ SendUnanswered(v) \/ SendRefused(v)
        PROVE  task'[w] = task[w]
    <2>1. CASE task' = [task EXCEPT ![v].pc = "disable"]
      BY <1>0, <2>1, GoDisableFields
    <2> QED
      BY <1>1, <1>3, <2>1 DEF SendAccepted, SendUnanswered, SendRefused
  <1>4. ASSUME NEW v \in Worker, DisableToken(v) PROVE task'[w] = task[w]
    BY <1>0, <1>1, <1>4, DisableFields
  <1>5. ASSUME NEW v \in Worker, Finish(v) \/ Abandon(v) PROVE task'[w] = task[w]
    BY <1>0, <1>5, <1>t, TaskUpdate DEF Finish, Abandon
  <1>6. ASSUME NEW g, OpenGate(g) PROVE task'[w].pc = task[w].pc
    BY <1>0, <1>6, OpenGateFields
  <1>7. \/ task' = task
        \/ \E g \in Gates : OpenGate(g)
        \/ \E v \in Worker : DoCheck(v)
        \/ \E v \in Worker : SendAccepted(v) \/ SendUnanswered(v) \/ SendRefused(v)
        \/ \E v \in Worker : DisableToken(v)
        \/ \E v \in Worker : Finish(v) \/ Abandon(v)
    BY DEF Next, vars, UpsertRead, UpsertWrite, Unregister, CloseGate, TokenDies, Enqueue,
           IdlePoll, WorkerStep, LeaseExpires, RetryDue, DeliveryExpires, Delivery
  <1> QED
    BY <1>2, <1>3, <1>4, <1>5, <1>6, <1>7

\* A lease ends when it runs out or when its holder finishes.
LEMMA LeaseEnds ==
  ASSUME TypeInv, [Next]_vars, NEW x \in Delivery,
         \A w \in Worker, z \in Delivery : ~Claim(w, z)
  PROVE  \/ delivery'[x].lock = delivery[x].lock /\ delivery'[x].locked = delivery[x].locked
         \/ delivery[x].state = "absent"
         \/ LeaseExpires(x)
         \/ \E w \in Worker : Finish(w) /\ HoldsLease(w) /\ task[w].on = x
  <1>0. TypeOK /\ OutcomeInv
    BY DEF TypeInv
  <1>1. ASSUME NEW e \in Event, Enqueue(e)
        PROVE  delivery'[x] = delivery[x] \/ delivery[x].state = "absent"
    BY <1>0, <1>1, EnqueueFields
  <1>2. ASSUME NEW w \in Worker, Finish(w)
        PROVE  delivery'[x] = delivery[x] \/ (Finish(w) /\ HoldsLease(w) /\ task[w].on = x)
    BY <1>0, <1>2, FinishFields
  <1>3. ASSUME NEW z \in Delivery, LeaseExpires(z) \/ RetryDue(z) \/ DeliveryExpires(z)
        PROVE  \/ delivery'[x].lock = delivery[x].lock /\ delivery'[x].locked = delivery[x].locked
               \/ LeaseExpires(x)
    BY <1>0, <1>3, TimeFields
  <1>4. \/ delivery' = delivery
        \/ \E e \in Event : Enqueue(e)
        \/ \E w \in Worker : Finish(w)
        \/ \E z \in Delivery : LeaseExpires(z) \/ RetryDue(z) \/ DeliveryExpires(z)
    BY DEF Next, vars, UpsertRead, UpsertWrite, Unregister, CloseGate, OpenGate, TokenDies,
           IdlePoll, WorkerStep, DoCheck, SendAccepted, SendUnanswered, SendRefused,
           DisableToken, Abandon, Delivery
  <1> QED
    BY <1>1, <1>2, <1>3, <1>4

\* A step that neither claims nor lets the lease on x run out takes the lease
\* from no worker that may still send.
LEMMA StaleKept ==
  ASSUME TypeInv, LockInv, [Next]_vars, NEW x \in Delivery,
         \A w \in Worker, z \in Delivery : ~Claim(w, z), ~LeaseExpires(x)
  PROVE  Stale(x)' \subseteq Stale(x)
  <1> SUFFICES ASSUME NEW v \in Worker, v \in Stale(x)' PROVE v \in Stale(x)
    BY DEF Stale
  <1>1. /\ task'[v].pc \in {"check", "send"} /\ task'[v].on = x
        /\ ~(task'[v].lock = delivery'[x].lock /\ delivery'[x].locked = "fresh")
    BY DEF Stale
  <1>2. task[v].pc \in {"check", "send"}
    BY <1>1, SendersKept
  <1>3. task[v].on = x /\ task'[v].lock = task[v].lock
    BY <1>1, TasksKept
  <1>4. delivery[x].state # "absent"
    BY <1>2, <1>3 DEF LockInv
  <1>5. CASE delivery'[x].lock = delivery[x].lock /\ delivery'[x].locked = delivery[x].locked
    BY <1>1, <1>2, <1>3, <1>5 DEF Stale
  <1>6. ASSUME NEW w \in Worker, Finish(w), HoldsLease(w), task[w].on = x
        PROVE  v \in Stale(x)
    <2>1. task[w].pc = "finish" /\ task[w].lock = delivery[x].lock
      BY <1>6 DEF Finish, HoldsLease
    <2>2. task[v].lock # delivery[x].lock
      BY <1>2, <2>1 DEF LockInv
    <2> QED
      BY <1>2, <1>3, <2>2 DEF Stale
  <1> QED
    BY <1>4, <1>5, <1>6, LeaseEnds

\* A worker with an outcome to record keeps it until it finishes or is gone.
LEMMA FinisherKept ==
  ASSUME TypeInv, [Next]_vars, NEW w \in Worker, task[w].pc = "finish", ~Finish(w), ~Abandon(w)
  PROVE  /\ task'[w].pc = "finish" /\ task'[w].outcome = task[w].outcome
         /\ task'[w].on = task[w].on /\ task'[w].lock = task[w].lock
  <1>0. TypeOK
    BY DEF TypeInv
  <1>t. NoTask \in TaskState /\ NoTask.pc = "idle"
    BY EmptyTypes DEF NoTask
  <1>1. ASSUME NEW v \in Worker, task[v].pc # "finish",
               NEW o \in {"none", "skipped", "sent", "invalid_token", "dead_letter", "retry"},
               GoFinish(v, o)
        PROVE  task'[w] = task[w]
    BY <1>0, <1>1, GoFinishFields
  <1>2. ASSUME NEW v \in Worker, DoCheck(v) PROVE task'[w] = task[w]
    <2>1. task[v].pc = "check"
      BY <1>2 DEF DoCheck
    <2>2. CASE Pass(v)
      BY <1>0, <2>1, <2>2, PassFields
    <2> QED
      BY <1>1, <1>2, <2>1, <2>2, DoCheckCases
  <1>3. ASSUME NEW v \in Worker, SendAccepted(v) \/ SendUnanswered(v) \/ SendRefused(v)
        PROVE  task'[w] = task[w]
    <2>1. task[v].pc = "send"
      BY <1>3 DEF SendAccepted, SendUnanswered, SendRefused
    <2>2. CASE task' = [task EXCEPT ![v].pc = "disable"]
      BY <1>0, <2>1, <2>2, GoDisableFields
    <2> QED
      BY <1>1, <1>3, <2>1, <2>2 DEF SendAccepted, SendUnanswered, SendRefused
  <1>4. ASSUME NEW v \in Worker, DisableToken(v) PROVE task'[w] = task[w]
    BY <1>0, <1>1, <1>4, DisableFields
  <1>5. ASSUME NEW v \in Worker, Finish(v) \/ Abandon(v) PROVE task'[w] = task[w]
    <2>1. v # w
      BY <1>5
    <2> QED
      BY <1>0, <1>5, <1>t, <2>1, TaskUpdate DEF Finish, Abandon
  <1>6. ASSUME NEW g, OpenGate(g)
        PROVE  /\ task'[w].pc = "finish" /\ task'[w].outcome = task[w].outcome
               /\ task'[w].on = task[w].on /\ task'[w].lock = task[w].lock
    BY <1>0, <1>6, OpenGateFields
  <1>7. ASSUME NEW v \in Worker, NEW x \in Delivery, Claim(v, x) PROVE task'[w] = task[w]
    <2>1. v # w
      BY <1>7 DEF Claim
    <2> QED
      BY <1>0, <1>7, <2>1, ClaimFields
  <1>8. \/ task' = task
        \/ \E g \in Gates : OpenGate(g)
        \/ \E v \in Worker, x \in Delivery : Claim(v, x)
        \/ \E v \in Worker : DoCheck(v)
        \/ \E v \in Worker : SendAccepted(v) \/ SendUnanswered(v) \/ SendRefused(v)
        \/ \E v \in Worker : DisableToken(v)
        \/ \E v \in Worker : Finish(v) \/ Abandon(v)
    BY DEF Next, vars, UpsertRead, UpsertWrite, Unregister, CloseGate, TokenDies, Enqueue,
           IdlePoll, WorkerStep, LeaseExpires, RetryDue, DeliveryExpires, Delivery
  <1> QED
    BY <1>2, <1>3, <1>4, <1>5, <1>6, <1>7, <1>8

\* What has been sent is recorded, unless the worker or its lease is lost.
LEMMA CreditKept ==
  ASSUME TypeInv, LockInv, [Next]_vars, NEW x \in Delivery, Credit(x),
         \A w \in Worker, z \in Delivery : ~Claim(w, z),
         ~LeaseExpires(x), \A w \in Worker : ~Abandon(w)
  PROVE  Credit(x)'
  <1>0. TypeOK /\ OutcomeInv
    BY DEF TypeInv
  <1>1. CASE Done(x)
    <2>1. delivery'[x] = delivery[x]
      BY <1>1, DoneStep DEF Done
    <2> QED
      BY <1>1, <2>1 DEF Credit, Done
  <1>2. CASE SentHeld(x)
    <2>1. PICK w \in Worker : /\ task[w].pc = "finish" /\ task[w].outcome = "sent"
                              /\ task[w].on = x
                              /\ task[w].lock = delivery[x].lock /\ delivery[x].locked = "fresh"
      BY <1>2 DEF SentHeld
    <2>2. delivery[x].state = "pending"
      BY <2>1 DEF LockInv
    <2>3. CASE Finish(w)
      <3>1. HoldsLease(w) /\ Outcome(w) = "sent"
        BY <2>1, <2>2 DEF HoldsLease, Outcome
      <3>2. delivery'[x].state = "sent"
        BY <1>0, <2>1, <2>3, <3>1, FinishFields
      <3> QED
        BY <3>2 DEF Credit, Done
    <2>4. CASE ~Finish(w)
      <3>1. /\ task'[w].pc = "finish" /\ task'[w].outcome = "sent"
            /\ task'[w].on = x /\ task'[w].lock = task[w].lock
        BY <2>1, <2>4, FinisherKept
      <3>2. ASSUME NEW v \in Worker, Finish(v), HoldsLease(v), task[v].on = x PROVE FALSE
        <4>1. task[v].pc = "finish" /\ task[v].lock = delivery[x].lock
          BY <3>2 DEF Finish, HoldsLease
        <4>2. v = w
          BY <2>1, <4>1 DEF LockInv
        <4> QED
          BY <2>4, <3>2, <4>2
      <3>3. delivery'[x].lock = delivery[x].lock /\ delivery'[x].locked = delivery[x].locked
        BY <2>2, <3>2, LeaseEnds
      <3> QED
        BY <2>1, <3>1, <3>3 DEF Credit, SentHeld
    <2> QED
      BY <2>3, <2>4
  <1> QED
    BY <1>1, <1>2 DEF Credit

LEMMA ClaimCount ==
  ASSUME TypeInv, TypeInv', LockInv, NEW w \in Worker, NEW y \in Delivery, Claim(w, y),
         NEW x \in Delivery, CountAt(x)
  PROVE  CountAt(x)'
  <1>0. TypeOK
    BY DEF TypeInv
  <1>1. accepted' = accepted /\ faults' = faults /\ task[w].pc = "idle"
    BY DEF Claim
  <1>2. /\ \A z \in Delivery \ {y} : delivery'[z] = delivery[z]
        /\ \A v \in Worker \ {w} : task'[v] = task[v]
        /\ delivery[y].state = "pending" /\ delivery[y].locked # "fresh"
        /\ delivery'[y].locked = "fresh" /\ delivery'[y].lock = nextToken
        /\ task'[w].pc = "check" /\ task'[w].on = y /\ task'[w].lock = nextToken
    BY <1>0, ClaimFields
  <1>3. CASE x = y
    <2>1. ~Credit(x)
      BY <1>2, <1>3 DEF Credit, Done, SentHeld
    <2>2. ASSUME NEW v \in Worker, v \in Stale(x)' PROVE v \in Stale(x)
      <3>1. v # w
        BY <1>2, <1>3, <2>2 DEF Stale
      <3> QED
        BY <1>2, <1>3, <2>2, <3>1 DEF Stale
    <2>3. Stale(x)' \subseteq Stale(x)
      BY <2>2 DEF Stale
    <2> QED
      BY <1>1, <2>1, <2>3, CountKept
  <1>4. CASE x # y
    <2>1. delivery'[x] = delivery[x]
      BY <1>2, <1>4
    <2>2. ASSUME NEW v \in Worker, v \in Stale(x)' PROVE v \in Stale(x)
      <3>1. v # w
        BY <1>2, <1>4, <2>2 DEF Stale
      <3> QED
        BY <1>2, <2>1, <2>2, <3>1 DEF Stale
    <2>3. Stale(x)' \subseteq Stale(x)
      BY <2>2 DEF Stale
    <2>4. Done(x) => Done(x)'
      BY <2>1 DEF Done
    <2>5. SentHeld(x) => SentHeld(x)'
      <3>1. \A v \in Worker : task[v].pc = "finish" => task'[v] = task[v]
        BY <1>1, <1>2
      <3> QED
        BY <2>1, <3>1 DEF SentHeld
    <2>6. Credit(x) => Credit(x)'
      BY <2>4, <2>5 DEF Credit
    <2> QED
      BY <1>1, <2>3, <2>6, CountKept
  <1> QED
    BY <1>3, <1>4

\* The lease runs out on a worker that may still send, on one that has sent and
\* not yet recorded it, or on nobody; only the last is no fault.
LEMMA ExpiryCount ==
  ASSUME TypeInv, TypeInv', LockInv, NEW x \in Delivery, LeaseExpires(x), CountAt(x)
  PROVE  CountAt(x)'
  <1>0. TypeOK
    BY DEF TypeInv
  <1>1. /\ accepted' = accepted /\ task' = task
        /\ delivery[x].state = "pending" /\ delivery[x].locked = "fresh"
    BY DEF LeaseExpires
  <1>2. delivery'[x].lock = delivery[x].lock
    BY <1>0, TimeFields
  <1>3. ~Done(x)
    BY <1>1 DEF Done
  <1>4. ASSUME NEW v \in Worker, v \in Stale(x)', v \notin Stale(x)
        PROVE  /\ task[v].pc \in {"check", "send"} /\ task[v].on = x
               /\ task[v].lock = delivery[x].lock
    BY <1>1, <1>2, <1>4 DEF Stale
  <1>5. CASE ~Busy(x)
    <2>1. faults' = faults
      BY <1>5 DEF LeaseExpires
    <2>2. ~Credit(x)
      BY <1>3, <1>5 DEF Credit, SentHeld, Busy
    <2>3. Stale(x)' \subseteq Stale(x)
      <3>1. \A v \in Worker : v \in Stale(x)' => v \in Stale(x)
        BY <1>4, <1>5 DEF Busy
      <3> QED
        BY <3>1 DEF Stale
    <2> QED
      BY <1>1, <2>1, <2>2, <2>3, CountKept
  <1>6. CASE Busy(x)
    <2>1. PICK w \in Worker : /\ task[w].pc # "idle" /\ task[w].on = x
                              /\ task[w].lock = delivery[x].lock
      BY <1>6 DEF Busy
    <2>2. faults' = faults + 1
      BY <1>6 DEF LeaseExpires, Fault
    <2>3. \A v \in Worker : task[v].pc # "idle" /\ task[v].lock = delivery[x].lock => v = w
      BY <2>1 DEF LockInv
    <2>4. CASE task[w].pc \in {"check", "send"}
      <3>1. ~Credit(x)
        BY <1>3, <2>3, <2>4 DEF Credit, SentHeld
      <3>2. Stale(x)' \subseteq Stale(x) \cup {w}
        <4>1. \A v \in Worker : v \in Stale(x)' => v \in Stale(x) \/ v = w
          BY <1>4, <2>3
        <4> QED
          BY <4>1 DEF Stale
      <3> QED
        BY <1>1, <2>2, <3>1, <3>2, CountLeaseLost
    <2>5. CASE task[w].pc \notin {"check", "send"}
      <3>1. Stale(x)' \subseteq Stale(x)
        <4>1. \A v \in Worker : v \in Stale(x)' => v \in Stale(x)
          BY <1>4, <2>3, <2>5
        <4> QED
          BY <4>1 DEF Stale
      <3> QED
        BY <1>1, <2>2, <3>1, CountKept
    <2> QED
      BY <2>4, <2>5
  <1> QED
    BY <1>5, <1>6

\* A worker hears that FCM has accepted: without a lease, this is one of the
\* duplicates that were accounted for; with it, the outcome is there to record.
LEMMA AcceptCount ==
  ASSUME TypeInv, TypeInv', LockInv, [Next]_vars, NEW x \in Delivery, CountAt(x),
         NEW w \in Worker, SendAccepted(w), task[w].on = x,
         Stale(x)' \subseteq Stale(x), Credit(x) => Credit(x)'
  PROVE  CountAt(x)'
  <1>0. TypeOK
    BY DEF TypeInv
  <1>1. /\ accepted'[x] = accepted[x] + 1 /\ faults' = faults /\ delivery' = delivery
        /\ task[w].pc = "send"
    BY <1>0 DEF SendAccepted, Accept, TypeOK, Delivery
  <1>2. /\ task'[w].pc = "finish" /\ task'[w].outcome = "sent"
        /\ task'[w].on = x /\ task'[w].lock = task[w].lock
    BY <1>0, GoFinishFields DEF SendAccepted
  <1>3. CASE w \in Stale(x)
    <2>1. w \notin Stale(x)'
      BY <1>2 DEF Stale
    <2>2. Stale(x)' \subseteq Stale(x) \ {w}
      BY <2>1
    <2> QED
      BY <1>1, <1>3, <2>2, CountStaleSends
  <1>4. CASE w \notin Stale(x)
    <2>1. task[w].lock = delivery[x].lock /\ delivery[x].locked = "fresh"
      BY <1>1, <1>4 DEF Stale
    <2>2. ~Done(x)
      BY <2>1 DEF LockInv, Done
    <2>3. ~SentHeld(x)
      <3>1. \A v \in Worker : task[v].pc # "idle" /\ task[v].lock = delivery[x].lock => v = w
        BY <1>1, <2>1 DEF LockInv
      <3> QED
        BY <1>1, <3>1 DEF SentHeld
    <2>4. SentHeld(x)'
      BY <1>1, <1>2, <2>1 DEF SentHeld
    <2> QED
      BY <1>1, <2>2, <2>3, <2>4, CountKept DEF Credit
  <1> QED
    BY <1>3, <1>4

LEMMA InitCount == Init => CountInv
  <1> SUFFICES ASSUME Init, NEW x \in Delivery PROVE CountAt(x)
    BY DEF CountInv
  <1>1. accepted[x] = 0 /\ faults = 0
    BY DEF Init, Delivery
  <1>2. Stale(x) = {}
    BY DEF Init, NoTask, Stale
  <1>3. Cardinality(Stale(x)) = 0
    BY <1>2, FS_EmptySet
  <1> QED
    BY <1>1, <1>3 DEF CountAt

LEMMA CountStep == TypeInv /\ LockInv /\ CountInv /\ [Next]_vars => CountInv'
  <1> SUFFICES ASSUME TypeInv, LockInv, CountInv, [Next]_vars, NEW x \in Delivery
               PROVE  CountAt(x)'
    BY DEF CountInv
  <1>0. TypeOK /\ TypeInv' /\ CountAt(x)
    BY StepType DEF TypeInv, CountInv
  <1>1. CASE \E w \in Worker, y \in Delivery : Claim(w, y)
    BY <1>0, <1>1, ClaimCount
  <1>2. CASE LeaseExpires(x)
    BY <1>0, <1>2, ExpiryCount
  <1>3. CASE (\A w \in Worker, y \in Delivery : ~Claim(w, y)) /\ ~LeaseExpires(x)
    <2>1. Stale(x)' \subseteq Stale(x)
      BY <1>3, StaleKept
    <2>2. ASSUME NEW w \in Worker, Abandon(w) PROVE CountAt(x)'
      <3>1. accepted' = accepted /\ faults' = faults + 1
        BY <2>2 DEF Abandon, Fault
      <3> QED
        BY <1>0, <2>1, <3>1, CountKept
    <2>3. CASE \A w \in Worker : ~Abandon(w)
      <3>1. Credit(x) => Credit(x)'
        BY <1>3, <2>3, CreditKept
      <3>2. ASSUME accepted'[x] = accepted[x], faults' \in {faults, faults + 1}
            PROVE  CountAt(x)'
        BY <1>0, <2>1, <3>1, <3>2, CountKept
      <3>3. ASSUME NEW w \in Worker, SendAccepted(w) PROVE CountAt(x)'
        <4>1. CASE task[w].on = x
          BY <1>0, <2>1, <3>1, <3>3, <4>1, AcceptCount
        <4>2. CASE task[w].on # x
          <5>1. accepted'[x] = accepted[x] /\ faults' = faults
            BY <1>0, <3>3, <4>2 DEF SendAccepted, Accept, TypeOK, Delivery
          <5> QED
            BY <3>2, <5>1
        <4> QED
          BY <4>1, <4>2
      <3>4. ASSUME NEW w \in Worker, SendUnanswered(w) PROVE CountAt(x)'
        <4>1. faults' = faults + 1
          BY <3>4 DEF SendUnanswered, Fault
        <4>2. CASE task[w].on = x
          <5>1. accepted'[x] = accepted[x] + 1
            BY <1>0, <3>4, <4>2 DEF SendUnanswered, Accept, TypeOK, Delivery
          <5> QED
            BY <1>0, <2>1, <3>1, <4>1, <5>1, CountKept
        <4>3. CASE task[w].on # x
          <5>1. accepted'[x] = accepted[x]
            BY <1>0, <3>4, <4>3 DEF SendUnanswered, Accept, TypeOK, Delivery
          <5> QED
            BY <3>2, <4>1, <5>1
        <4> QED
          BY <4>2, <4>3
      <3>5. \/ accepted' = accepted /\ faults' \in {faults, faults + 1}
            \/ \E w \in Worker : SendAccepted(w) \/ SendUnanswered(w)
        BY <1>3, <2>3
           DEF Next, vars, UpsertRead, UpsertWrite, Unregister, CloseGate, OpenGate, TokenDies,
               Enqueue, IdlePoll, WorkerStep, DoCheck, SendRefused, DisableToken, Finish,
               LeaseExpires, Fault, RetryDue, DeliveryExpires, Delivery
      <3> QED
        BY <3>2, <3>3, <3>4, <3>5
    <2> QED
      BY <2>2, <2>3
  <1> QED
    BY <1>1, <1>2, <1>3

\* The invariant holds in every reachable state.
THEOREM InvariantHolds == Spec => []IInv
  <1>1. Init => IInv
    BY InitType, InitBind, InitLock, InitShut, InitCount DEF IInv, TypeInv
  <1>2. IInv /\ [Next]_vars => IInv'
    BY StepType, BindStep, LockStep, ShutStep, CountStep DEF IInv, TypeInv
  <1> QED
    BY <1>1, <1>2, PTL DEF Spec

LEMMA CountBound ==
  ASSUME IInv
  PROVE  DuplicateBound
  <1> SUFFICES ASSUME NEW x \in Delivery PROVE accepted[x] <= 1 + faults
    BY DEF DuplicateBound, Delivery
  <1>1. accepted[x] \in Nat /\ faults \in Nat
    BY PushAssumption DEF IInv, TypeOK, Delivery
  <1>2. Cardinality(Stale(x)) \in Nat
    BY StaleFinite
  <1>3. accepted[x] + Cardinality(Stale(x)) <= faults + (IF Credit(x) THEN 1 ELSE 0)
    BY DEF IInv, CountInv, CountAt
  <1> QED
    BY <1>1, <1>2, <1>3

\* A notification is sent once, and once more for each fault at most, with any
\* number of workers and whatever the leases do.
THEOREM DuplicatesBounded == Spec => []DuplicateBound
  <1>1. IInv => DuplicateBound
    BY CountBound
  <1> QED
    BY InvariantHolds, <1>1, PTL

-----------------------------------------------------------------------------
(* Attempts *)

\* How often x has been claimed.  A delivery that waits for a retry was given back
\* by a worker that had not reached the limit; one whose lease ran out, or whose
\* worker is gone, has cost a fault.  A worker knows the attempt of its lease.
AttemptAt(x) ==
  /\ delivery[x].attempt <= MaxAttempts + faults
  /\ delivery[x].state = "pending" =>
       /\ delivery[x].locked = "null" => delivery[x].attempt < MaxAttempts
       /\ delivery[x].locked = "expired" \/ (delivery[x].locked = "fresh" /\ ~Busy(x)) =>
            delivery[x].attempt < MaxAttempts + faults
  /\ \A w \in Worker : task[w].pc # "idle" =>
       /\ task[w].lock # NoToken
       /\ task[w].on = x /\ task[w].lock = delivery[x].lock =>
            task[w].attempt = delivery[x].attempt

AttemptInv == \A x \in Delivery : AttemptAt(x)

\* No delivery is claimed more often than the limit in retry allows, and once more
\* for each crash, failed statement or stalled worker: retry is the only place that
\* gives up, and only a worker that holds the lease gets to it.
AttemptsBounded ==
  \A x \in Event \X Device : delivery[x].attempt <= MaxAttempts + faults

\* The steps, other than a claim, that touch the lease, the state or the attempts
\* of a delivery.
LEMMA AttemptEnds ==
  ASSUME TypeInv, [Next]_vars, NEW x \in Delivery,
         \A w \in Worker, z \in Delivery : ~Claim(w, z)
  PROVE  \/ /\ delivery'[x].lock = delivery[x].lock /\ delivery'[x].locked = delivery[x].locked
            /\ delivery'[x].state = delivery[x].state /\ delivery'[x].attempt = delivery[x].attempt
         \/ /\ delivery'[x].attempt = 0 /\ delivery'[x].locked = "null"
            /\ delivery'[x].lock = NoToken
         \/ LeaseExpires(x)
         \/ \E w \in Worker : Finish(w) /\ HoldsLease(w) /\ task[w].on = x
  <1>0. TypeOK /\ OutcomeInv
    BY DEF TypeInv
  <1>1. ASSUME NEW e \in Event, Enqueue(e)
        PROVE  \/ delivery'[x] = delivery[x]
               \/ /\ delivery'[x].attempt = 0 /\ delivery'[x].locked = "null"
                  /\ delivery'[x].lock = NoToken
    BY <1>0, <1>1, EnqueueFields
  <1>2. ASSUME NEW w \in Worker, Finish(w)
        PROVE  delivery'[x] = delivery[x] \/ (Finish(w) /\ HoldsLease(w) /\ task[w].on = x)
    BY <1>0, <1>2, FinishFields
  <1>3. ASSUME NEW z \in Delivery, LeaseExpires(z) \/ RetryDue(z) \/ DeliveryExpires(z)
        PROVE  \/ /\ delivery'[x].lock = delivery[x].lock
                  /\ delivery'[x].locked = delivery[x].locked
                  /\ delivery'[x].state = delivery[x].state
                  /\ delivery'[x].attempt = delivery[x].attempt
               \/ LeaseExpires(x)
    BY <1>0, <1>3, TimeFields
  <1>4. \/ delivery' = delivery
        \/ \E e \in Event : Enqueue(e)
        \/ \E w \in Worker : Finish(w)
        \/ \E z \in Delivery : LeaseExpires(z) \/ RetryDue(z) \/ DeliveryExpires(z)
    BY DEF Next, vars, UpsertRead, UpsertWrite, Unregister, CloseGate, OpenGate, TokenDies,
           IdlePoll, WorkerStep, DoCheck, SendAccepted, SendUnanswered, SendRefused,
           DisableToken, Abandon, Delivery
  <1> QED
    BY <1>1, <1>2, <1>3, <1>4

LEMMA FaultsGrow ==
  ASSUME TypeInv, [Next]_vars
  PROVE  faults \in Nat /\ faults' \in {faults, faults + 1}
  <1>1. faults \in Nat
    BY PushAssumption DEF TypeInv, TypeOK
  <1>2. faults' = faults \/ Fault
    BY DEF Next, vars, api, UpsertRead, UpsertWrite, Unregister, CloseGate, OpenGate, TokenDies,
           Enqueue, Claim, IdlePoll, WorkerStep, DoCheck, SendAccepted, SendUnanswered,
           SendRefused, DisableToken, Finish, Abandon, LeaseExpires, RetryDue, DeliveryExpires
  <1> QED
    BY <1>1, <1>2 DEF Fault

\* The bound on the attempts of x leaves room for the next claim.
LEMMA ClaimAttempt ==
  ASSUME TypeInv, LockInv, NEW w \in Worker, NEW y \in Delivery, Claim(w, y),
         NEW x \in Delivery, AttemptAt(x)
  PROVE  AttemptAt(x)'
  <1>0. TypeOK /\ faults \in Nat /\ MaxAttempts \in Nat
    BY PushAssumption DEF TypeInv, TypeOK
  <1>1. faults' = faults /\ task[w].pc = "idle" /\ nextToken \in Nat /\ nextToken > 0
    BY <1>0 DEF Claim, TypeOK, LockInv
  <1>2. /\ \A z \in Delivery \ {y} : delivery'[z] = delivery[z]
        /\ \A v \in Worker \ {w} : task'[v] = task[v]
        /\ delivery[y].state = "pending" /\ delivery[y].locked # "fresh"
        /\ delivery'[y].locked = "fresh" /\ delivery'[y].lock = nextToken
        /\ delivery'[y].attempt = delivery[y].attempt + 1
        /\ task'[w].pc = "check" /\ task'[w].on = y /\ task'[w].lock = nextToken
        /\ task'[w].attempt = delivery[y].attempt + 1
    BY <1>0, ClaimFields
  <1>3. \A v \in Worker : task'[v].pc # "idle" => task'[v].lock # NoToken
    BY <1>1, <1>2 DEF AttemptAt, NoToken
  <1>4. CASE x = y
    <2>1. delivery[x].locked \in {"null", "expired"} /\ delivery[x].attempt \in Nat
      BY <1>0, <1>2, <1>4, DeliveryFields DEF DeliveryState
    <2>2. delivery'[x].attempt <= MaxAttempts + faults
      <3>1. delivery[x].attempt < MaxAttempts + faults
        BY <1>0, <1>2, <1>4, <2>1 DEF AttemptAt
      <3> QED
        BY <1>0, <1>2, <1>4, <2>1, <3>1
    <2>3. Busy(x)'
      BY <1>2, <1>4 DEF Busy
    <2>4. ASSUME NEW v \in Worker, task'[v].pc # "idle", task'[v].lock = delivery'[x].lock
          PROVE  task'[v].attempt = delivery'[x].attempt
      <3>1. CASE v = w
        BY <1>2, <1>4, <3>1
      <3>2. CASE v # w
        <4>1. task[v].pc # "idle" /\ task[v].lock = nextToken
          BY <1>2, <1>4, <2>4, <3>2
        <4>2. task[v].lock < nextToken /\ task[v].lock \in Nat
          BY <1>0, <4>1, TaskFields DEF LockInv
        <4> QED
          BY <1>1, <4>1, <4>2
      <3> QED
        BY <3>1, <3>2
    <2>5. delivery'[x].locked = "fresh"
      BY <1>2, <1>4
    <2> QED
      BY <1>1, <1>3, <2>2, <2>3, <2>4, <2>5 DEF AttemptAt
  <1>5. CASE x # y
    <2>1. delivery'[x] = delivery[x]
      BY <1>2, <1>5
    <2>2. Busy(x) => Busy(x)'
      BY <1>1, <1>2, <2>1 DEF Busy
    <2>3. \A v \in Worker : task'[v].pc # "idle" /\ task'[v].on = x => task'[v] = task[v]
      BY <1>2, <1>5
    <2> QED
      BY <1>1, <1>3, <2>1, <2>2, <2>3 DEF AttemptAt
  <1> QED
    BY <1>4, <1>5

\* Finish by the holder of the lease: what goes back to pending has attempts left.
LEMMA FinishAttempt ==
  ASSUME TypeInv, [Next]_vars, NEW w \in Worker, Finish(w), HoldsLease(w),
         task[w].on \in Delivery, AttemptAt(task[w].on)
  PROVE  /\ delivery'[task[w].on].attempt = delivery[task[w].on].attempt
         /\ delivery'[task[w].on].locked = "null" /\ delivery'[task[w].on].lock = NoToken
         /\ delivery'[task[w].on].state = "pending" =>
              delivery'[task[w].on].attempt < MaxAttempts
  <1> DEFINE x == task[w].on
  <1>0. TypeOK /\ OutcomeInv
    BY DEF TypeInv
  <1>1. /\ delivery'[x].locked = "null" /\ delivery'[x].lock = NoToken
        /\ delivery'[x].state = Outcome(w) /\ delivery'[x].attempt = delivery[x].attempt
    BY <1>0, FinishFields
  <1>2. task[w].attempt = delivery[x].attempt
    BY DEF AttemptAt, Finish, HoldsLease
  <1>3. task[w].attempt \in Nat /\ MaxAttempts \in Nat
    BY <1>0, TaskFields, PushAssumption
  <1>4. Outcome(w) = "pending" => ~(task[w].attempt >= MaxAttempts)
    <2>1. task[w].outcome # "pending"
      BY <1>0, TaskFields DEF TaskState
    <2> QED
      BY <2>1 DEF Outcome
  <1> QED
    BY <1>1, <1>2, <1>3, <1>4

LEMMA InitAttempt == Init => AttemptInv
  <1> SUFFICES ASSUME Init, NEW x \in Delivery PROVE AttemptAt(x)
    BY DEF AttemptInv
  <1>1. delivery[x] = AbsentDelivery /\ faults = 0 /\ \A w \in Worker : task[w].pc = "idle"
    BY DEF Init, Delivery, NoTask
  <1>2. delivery[x].attempt = 0 /\ delivery[x].state = "absent"
    BY <1>1 DEF AbsentDelivery
  <1> QED
    BY <1>1, <1>2, PushAssumption DEF AttemptAt

LEMMA AttemptStep == TypeInv /\ LockInv /\ AttemptInv /\ [Next]_vars => AttemptInv'
  <1> SUFFICES ASSUME TypeInv, LockInv, AttemptInv, [Next]_vars, NEW x \in Delivery
               PROVE  AttemptAt(x)'
    BY DEF AttemptInv
  <1>0. /\ TypeOK /\ AttemptAt(x) /\ MaxAttempts \in Nat \ {0} /\ delivery[x].attempt \in Nat
        /\ faults \in Nat /\ faults' \in {faults, faults + 1}
    BY FaultsGrow, DeliveryFields, PushAssumption DEF TypeInv, AttemptInv
  <1>1. CASE \E w \in Worker, y \in Delivery : Claim(w, y)
    BY <1>0, <1>1, ClaimAttempt
  <1>2. CASE \A w \in Worker, y \in Delivery : ~Claim(w, y)
    <2>1. ASSUME NEW v \in Worker, task'[v].pc # "idle"
          PROVE  /\ task[v].pc # "idle" /\ task'[v].on = task[v].on
                 /\ task'[v].lock = task[v].lock /\ task'[v].attempt = task[v].attempt
                 /\ task'[v].lock # NoToken
      BY <1>0, <1>2, <2>1, TasksKept DEF AttemptAt
    <2>2. CASE LeaseExpires(x)
      <3>1. /\ delivery'[x].lock = delivery[x].lock /\ delivery'[x].attempt = delivery[x].attempt
            /\ delivery'[x].locked = "expired"
            /\ delivery[x].state = "pending" /\ delivery[x].locked = "fresh"
        <4>1. delivery'[x].locked = "expired"
          <5>1. delivery[x] \in DeliveryState /\ delivery' = [delivery EXCEPT ![x].locked = "expired"]
            BY <1>0, <2>2, DeliveryFields DEF LeaseExpires
          <5> QED
            BY <1>0, <5>1 DEF TypeOK, Delivery, DeliveryState
        <4> QED
          BY <1>0, <2>2, <4>1, TimeFields DEF LeaseExpires
      <3>2. delivery'[x].attempt < MaxAttempts + faults'
        <4>1. CASE Busy(x)
          <5>1. faults' = faults + 1
            BY <2>2, <4>1 DEF LeaseExpires, Fault
          <5>2. delivery[x].attempt <= MaxAttempts + faults
            BY <1>0 DEF AttemptAt
          <5> QED
            BY <1>0, <3>1, <5>1, <5>2
        <4>2. CASE ~Busy(x)
          <5>1. delivery[x].attempt < MaxAttempts + faults
            BY <1>0, <3>1, <4>2 DEF AttemptAt
          <5> QED
            BY <1>0, <3>1, <5>1
        <4> QED
          BY <4>1, <4>2
      <3>3. delivery'[x].attempt <= MaxAttempts + faults'
        BY <1>0, <3>1, <3>2
      <3> QED
        BY <1>0, <2>1, <3>1, <3>2, <3>3 DEF AttemptAt
    <2>3. ASSUME NEW w \in Worker, Finish(w), HoldsLease(w), task[w].on = x PROVE AttemptAt(x)'
      <3>1. /\ delivery'[x].attempt = delivery[x].attempt
            /\ delivery'[x].locked = "null" /\ delivery'[x].lock = NoToken
            /\ delivery'[x].state = "pending" => delivery'[x].attempt < MaxAttempts
        BY <1>0, <2>3, FinishAttempt
      <3>2. delivery'[x].attempt <= MaxAttempts + faults'
        <4>1. delivery[x].attempt <= MaxAttempts + faults
          BY <1>0 DEF AttemptAt
        <4> QED
          BY <1>0, <3>1, <4>1
      <3> QED
        BY <2>1, <3>1, <3>2 DEF AttemptAt
    <2>4. CASE /\ delivery'[x].attempt = 0 /\ delivery'[x].locked = "null"
               /\ delivery'[x].lock = NoToken
      <3>1. 0 < MaxAttempts /\ 0 <= MaxAttempts + faults'
        BY <1>0
      <3> QED
        BY <2>1, <2>4, <3>1 DEF AttemptAt
    <2>5. CASE /\ delivery'[x].lock = delivery[x].lock /\ delivery'[x].locked = delivery[x].locked
               /\ delivery'[x].state = delivery[x].state
               /\ delivery'[x].attempt = delivery[x].attempt
               /\ \A w \in Worker : ~(Finish(w) /\ HoldsLease(w) /\ task[w].on = x)
      <3>1. delivery[x].attempt <= MaxAttempts + faults
        BY <1>0 DEF AttemptAt
      <3>2. delivery'[x].attempt <= MaxAttempts + faults'
        BY <1>0, <2>5, <3>1
      <3>3. ASSUME delivery[x].state = "pending", delivery[x].locked = "fresh", ~Busy(x)'
            PROVE  delivery'[x].attempt < MaxAttempts + faults'
        <4>1. CASE ~Busy(x)
          <5>1. delivery[x].attempt < MaxAttempts + faults
            BY <1>0, <3>3, <4>1 DEF AttemptAt
          <5> QED
            BY <1>0, <2>5, <5>1
        <4>2. CASE Busy(x)
          <5>1. PICK w \in Worker : /\ task[w].pc # "idle" /\ task[w].on = x
                                    /\ task[w].lock = delivery[x].lock
            BY <4>2 DEF Busy
          <5>2. task'[w].pc = "idle"
            BY <1>2, <2>5, <3>3, <5>1, TasksKept DEF Busy
          <5>3. Finish(w) \/ Abandon(w)
            BY <1>2, <5>1, <5>2, TasksKept
          <5>4. ~Finish(w)
            BY <2>5, <3>3, <5>1 DEF HoldsLease
          <5>5. faults' = faults + 1
            BY <5>3, <5>4 DEF Abandon, Fault
          <5> QED
            BY <1>0, <2>5, <3>1, <5>5
        <4> QED
          BY <4>1, <4>2
      <3>4. ASSUME delivery[x].state = "pending", delivery[x].locked = "expired"
            PROVE  delivery'[x].attempt < MaxAttempts + faults'
        <4>1. delivery[x].attempt < MaxAttempts + faults
          BY <1>0, <3>4 DEF AttemptAt
        <4> QED
          BY <1>0, <2>5, <4>1
      <3>5. delivery[x].state = "pending" /\ delivery[x].locked = "null" =>
              delivery'[x].attempt < MaxAttempts
        BY <1>0, <2>5 DEF AttemptAt
      <3>6. ASSUME NEW v \in Worker, task'[v].pc # "idle"
            PROVE  /\ task'[v].lock # NoToken
                   /\ task'[v].on = x /\ task'[v].lock = delivery'[x].lock =>
                        task'[v].attempt = delivery'[x].attempt
        BY <1>0, <2>1, <2>5, <3>6 DEF AttemptAt
      <3> QED
        BY <2>5, <3>2, <3>3, <3>4, <3>5, <3>6 DEF AttemptAt
    <2> QED
      BY <1>2, <2>2, <2>3, <2>4, <2>5, AttemptEnds
  <1> QED
    BY <1>1, <1>2

\* The limit on the attempts holds although it is looked at in one place only, after
\* the claim, and although leases run out under the workers: a fault costs one
\* attempt more and no other step does.
THEOREM AttemptsAreBounded == Spec => []AttemptsBounded
  <1>1. Init => AttemptInv
    BY InitAttempt
  <1>2. IInv /\ AttemptInv /\ [Next]_vars => AttemptInv'
    BY AttemptStep DEF IInv, TypeInv
  <1>3. AttemptInv => AttemptsBounded
    BY DEF AttemptInv, AttemptAt, AttemptsBounded, Delivery
  <1> QED
    BY InvariantHolds, <1>1, <1>2, <1>3, PTL DEF Spec

=============================================================================
