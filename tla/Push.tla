-------------------------------- MODULE Push --------------------------------
(***************************************************************************)
(* Push notifications: the registration of devices by the API, the         *)
(* deliveries that the projection of a message enqueues, and the push      *)
(* workers that claim a delivery under a lease, check again whether it may *)
(* be sent, call FCM and record the outcome.                               *)
(*                                                                         *)
(* A registration is read and then written under a compare-and-set on its  *)
(* binding id, while workers are in the middle of deliveries made for an   *)
(* earlier binding.  What the checks read (session, message, preferences,  *)
(* eligibility) is open or closed for a session or a user, and changes at  *)
(* any time.                                                               *)
(***************************************************************************)
EXTENDS Naturals, Sequences, FiniteSets

CONSTANTS Event,        \* projected messages
          Device,       \* installations
          User,         \* users
          Session,      \* login sessions
          UserOf,       \* the user of each session
          FcmToken,     \* provider tokens
          Worker,       \* goroutines of the push workers
          Caller,       \* API requests that register a device, by slot
          MaxAttempts,  \* the limit in retry, 10 in the code
          MaxFaults,    \* bound: crashes, lost answers, failed statements, stalls
          MaxChanges    \* bound: registrations and changes of what the checks read

ASSUME PushAssumption ==
  /\ Event # {} /\ Device # {} /\ Session # {} /\ FcmToken # {}
  /\ IsFiniteSet(Worker)
  /\ UserOf \in [Session -> User]
  /\ MaxAttempts \in Nat \ {0}
  /\ MaxFaults \in Nat
  /\ MaxChanges \in Nat

VARIABLES device,       \* the push_devices table
          delivery,     \* the push_deliveries table, keyed by (event_id, device_id)
          task,         \* per worker, the delivery it is busy with
          request,      \* per caller, the registration between its read and its write
          closed,       \* the gates that are closed now
          unregistered, \* tokens FCM reports as UNREGISTERED
          accepted,     \* history: notifications FCM has accepted, per delivery
          nextBinding,  \* source of binding ids
          nextToken,    \* source of lock tokens
          faults,       \* faults so far
          changes       \* changes so far

api == <<device, request, closed, unregistered, nextBinding, changes>>
vars == <<device, delivery, task, request, closed, unregistered, accepted,
          nextBinding, nextToken, faults, changes>>

NoToken == 0

NoBinding == 0

\* The order in which ProcessOne checks a claimed delivery.
Checks == <<"binding", "session", "message", "preferences", "eligible">>

\* What the checks look at besides the registration, and whose it is.
Gate == {"expiry", "session", "message", "preferences", "eligible"}

Owners(g) ==
  CASE g \in {"expiry", "session"} -> Session
    [] g = "message" -> Event
    [] OTHER -> User

\* The gate that decides a check on delivery <<e, d>> to user u under session s.
GateOf(c, e, u, s) ==
  CASE c = "session" -> <<c, s>>
    [] c = "message" -> <<c, e>>
    [] OTHER -> <<c, u>>

Gates == UNION {{g} \X Owners(g) : g \in Gate}

-----------------------------------------------------------------------------
(* State *)

\* state is "off" after Unregister and "dead" after FCM refused the token.
DeviceState ==
  [state   : {"absent", "on", "off", "dead"},
   session : Session,
   token   : FcmToken,
   binding : Nat]

DeliveryState ==
  [state     : {"absent", "pending", "skipped", "sent", "invalid_token", "dead_letter"},
   user      : User,
   binding   : Nat,
   expired   : BOOLEAN,
   available : {"due", "later"},
   locked    : {"null", "fresh", "expired"},
   lock      : Nat,
   attempt   : Nat]

\* next is the check to do next; shut holds the gates that were closed when the
\* delivery was claimed and have been closed ever since (history).
TaskState ==
  [pc      : {"idle", "check", "send", "disable", "finish"},
   on      : Event \X Device,
   lock    : Nat,
   attempt : Nat,
   next    : 1..Len(Checks),
   session : Session,
   token   : FcmToken,
   outcome : {"none", "skipped", "sent", "invalid_token", "dead_letter", "retry"},
   shut    : SUBSET (Gates \cup {<<"binding", u>> : u \in User})]

RequestState ==
  [pc      : {"idle", "write"},
   on      : Device,
   session : Session,
   token   : FcmToken,
   saw     : DeviceState]

AnyOf(S) == CHOOSE x \in S : TRUE

AbsentDevice ==
  [state |-> "absent", session |-> AnyOf(Session), token |-> AnyOf(FcmToken),
   binding |-> NoBinding]

AbsentDelivery ==
  [state |-> "absent", user |-> AnyOf(User), binding |-> NoBinding, expired |-> FALSE,
   available |-> "due", locked |-> "null", lock |-> NoToken, attempt |-> 0]

NoTask ==
  [pc |-> "idle", on |-> AnyOf(Event \X Device), lock |-> NoToken, attempt |-> 0,
   next |-> 1, session |-> AnyOf(Session), token |-> AnyOf(FcmToken),
   outcome |-> "none", shut |-> {}]

NoRequest ==
  [pc |-> "idle", on |-> AnyOf(Device), session |-> AnyOf(Session),
   token |-> AnyOf(FcmToken), saw |-> AbsentDevice]

TypeOK ==
  /\ device \in [Device -> DeviceState]
  /\ delivery \in [Event \X Device -> DeliveryState]
  /\ task \in [Worker -> TaskState]
  /\ request \in [Caller -> RequestState]
  /\ closed \subseteq Gates
  /\ unregistered \subseteq FcmToken
  /\ accepted \in [Event \X Device -> Nat]
  /\ nextBinding \in Nat
  /\ nextToken \in Nat
  /\ faults \in 0..MaxFaults
  /\ changes \in 0..MaxChanges

Init ==
  /\ device = [d \in Device |-> AbsentDevice]
  /\ delivery = [x \in Event \X Device |-> AbsentDelivery]
  /\ task = [w \in Worker |-> NoTask]
  /\ request = [c \in Caller |-> NoRequest]
  /\ closed = {}
  /\ unregistered = {}
  /\ accepted = [x \in Event \X Device |-> 0]
  /\ nextBinding = 1
  /\ nextToken = 1
  /\ faults = 0
  /\ changes = 0

Change == changes < MaxChanges /\ changes' = changes + 1

Fault == faults < MaxFaults /\ faults' = faults + 1

-----------------------------------------------------------------------------
(* Registration *)

\* The requests of a session that has expired or was revoked are turned away.
Admitted(s) == {<<"session", s>>, <<"expiry", s>>} \cap closed = {}

\* Upsert validates the session and reads the registration.
UpsertRead(c, d, s, t) ==
  /\ request[c].pc = "idle"
  /\ Admitted(s)
  /\ Change
  /\ request' = [request EXCEPT ![c] = [pc |-> "write", on |-> d, session |-> s, token |-> t,
                                       saw |-> device[d]]]
  /\ UNCHANGED <<device, delivery, task, closed, unregistered, accepted, nextBinding, nextToken, faults>>

\* A registration that changes hands, or was disabled, gets a new binding.
Rotates(seen, s, t) ==
  seen.state # "on" \/ seen.session # s \/ seen.token # t

TokenTaken(d, t) == \E e \in Device \ {d} : device[e].state # "absent" /\ device[e].token = t

\* The registration that request q writes.
Registration(q) ==
  [state |-> "on", session |-> q.session, token |-> q.token,
   binding |-> IF Rotates(q.saw, q.session, q.token) THEN nextBinding ELSE q.saw.binding]

\* Mutant: the update selects the registration by id alone.
ConflictById(q) == TokenTaken(q.on, q.token)

\* The binding is not the one that was read, or a unique index (installation,
\* token) refuses the row.
Conflict(q) == device[q.on].binding # q.saw.binding \/ TokenTaken(q.on, q.token)

\* Upsert writes what it computed from what it read, or reports a conflict.
UpsertWrite(c) ==
  LET q == request[c]
  IN  /\ q.pc = "write"
      /\ device' = IF Conflict(q) THEN device ELSE [device EXCEPT ![q.on] = Registration(q)]
      /\ nextBinding' = nextBinding + 1
      /\ request' = [request EXCEPT ![c] = NoRequest]
      /\ UNCHANGED <<delivery, task, closed, unregistered, accepted, nextToken, faults, changes>>

Unregister(d, s) ==
  /\ device[d].state # "absent"
  /\ device[d].session = s
  /\ Admitted(s)
  /\ Change
  /\ device' = [device EXCEPT ![d].state = "off", ![d].binding = nextBinding]
  /\ nextBinding' = nextBinding + 1
  /\ UNCHANGED <<delivery, task, request, closed, unregistered, accepted, nextToken, faults>>

-----------------------------------------------------------------------------
(* What the checks read *)

\* A logout, a revocation, a mute, a block, a deletion, an expired session.
CloseGate(g) ==
  /\ g \notin closed
  /\ Change
  /\ closed' = closed \cup {g}
  /\ UNCHANGED <<device, delivery, task, request, unregistered, accepted, nextBinding, nextToken, faults>>

\* An unmute, an unblock, a revocation rolled back; a message stays deleted and
\* a session expired.
OpenGate(g) ==
  /\ g \in closed
  /\ g[1] \notin {"message", "expiry"}
  /\ Change
  /\ closed' = closed \ {g}
  /\ task' = [w \in Worker |-> [task[w] EXCEPT !.shut = @ \ {g}]]
  /\ UNCHANGED <<device, delivery, request, unregistered, accepted, nextBinding, nextToken, faults>>

TokenDies(t) ==
  /\ t \notin unregistered
  /\ Change
  /\ unregistered' = unregistered \cup {t}
  /\ UNCHANGED <<device, delivery, task, request, closed, accepted, nextBinding, nextToken, faults>>

-----------------------------------------------------------------------------
(* Enqueue *)

\* The enabled devices with a live session whose user may see the message.
Targets(e) ==
  {d \in Device :
     LET s == device[d].session
     IN  /\ device[d].state = "on"
         /\ {<<"expiry", s>>, <<"message", e>>, <<"preferences", UserOf[s]>>,
             <<"eligible", UserOf[s]>>} \cap closed = {}}

\* The projection inserts a delivery for every enabled device of the message's
\* recipients; a projection that runs twice finds the rows it made before.
Enqueue(e) ==
  LET targets == Targets(e)
  IN  /\ targets # {}
      /\ delivery' = [x \in Event \X Device |->
                        IF x[1] = e /\ x[2] \in targets /\ delivery[x].state = "absent"
                        THEN [AbsentDelivery EXCEPT !.state = "pending",
                                                    !.user = UserOf[device[x[2]].session],
                                                    !.binding = device[x[2]].binding]
                        ELSE delivery[x]]
      /\ UNCHANGED <<device, task, request, closed, unregistered, accepted, nextBinding, nextToken, faults, changes>>

-----------------------------------------------------------------------------
(* The worker *)

\* The device was unregistered or registered anew since the delivery was made for
\* it, its session has ended, or time is up.
OptedOut(x) ==
  \/ device[x[2]].state = "off"
  \/ device[x[2]].binding # delivery[x].binding
  \/ UserOf[device[x[2]].session] # delivery[x].user
  \/ <<"expiry", device[x[2]].session>> \in closed
  \/ delivery[x].expired

\* The first check, on the device as it is now.
BindingStale(x) == device[x[2]].state # "on" \/ OptedOut(x)

\* What stands in the way of delivery x now.  A device that FCM's refusal has
\* disabled may be enabled again, under the same binding, by a registration that
\* had read it before.
ShutNow(x) ==
  LET gates == {GateOf(Checks[k], x[1], delivery[x].user, device[x[2]].session) : k \in 2..Len(Checks)}
  IN  (gates \cap closed) \cup (IF OptedOut(x) THEN {<<"binding", delivery[x].user>>} ELSE {})

\* Mutant: a claim does not look at the lease.
ClaimableLeased(x) ==
  /\ delivery[x].state = "pending"
  /\ delivery[x].available = "due"

\* Mutant: a lease is never taken over.
ClaimableUnlocked(x) ==
  /\ delivery[x].state = "pending"
  /\ delivery[x].available = "due"
  /\ delivery[x].locked = "null"

Claimable(x) ==
  /\ delivery[x].state = "pending"
  /\ delivery[x].available = "due"
  /\ delivery[x].locked # "fresh"

\* Delivery x with a new lease and one more attempt.
Leased(x) ==
  [delivery[x] EXCEPT !.locked = "fresh", !.lock = nextToken,
                      !.attempt = delivery[x].attempt + 1]

\* A lease and one more attempt on a claimable delivery.  The code takes the
\* oldest one that no other claim holds locked (SKIP LOCKED), so which one a
\* worker gets depends on the others and is left open.
Claim(w, x) ==
  /\ task[w].pc = "idle"
  /\ Claimable(x)
  /\ delivery' = [delivery EXCEPT ![x] = Leased(x)]
  /\ task' = [task EXCEPT ![w] = [NoTask EXCEPT !.pc = "check", !.on = x, !.lock = nextToken,
                                                !.attempt = delivery[x].attempt + 1,
                                                !.shut = ShutNow(x)]]
  /\ nextToken' = nextToken + 1
  /\ UNCHANGED <<api, accepted, faults>>

\* Claim finds nothing; run waits for its ticker.
IdlePoll(w) ==
  /\ task[w].pc = "idle"
  /\ \A x \in Event \X Device : ~Claimable(x)
  /\ UNCHANGED vars

GoFinish(w, outcome) ==
  task' = [task EXCEPT ![w].pc = "finish", ![w].outcome = outcome]

\* Mutant: the preferences are not checked again before sending.
CheckFailsNoPreferences(w, c) ==
  LET x == task[w].on
  IN  IF c = "binding"
      THEN BindingStale(x)
      ELSE c # "preferences" /\ GateOf(c, x[1], delivery[x].user, task[w].session) \in closed

\* The result of one check on the delivery as it is now: the first one reads the
\* device, the later ones use what it read.  The message is read once, and
\* Eligible looks at the deleted_at of that copy.
CheckFails(w, c) ==
  LET x == task[w].on
  IN  IF c = "binding"
      THEN BindingStale(x)
      ELSE GateOf(c, x[1], delivery[x].user, task[w].session) \in closed

\* The task after check c: the last one is followed by the call of FCM.
Passed(w, c) ==
  LET last == task[w].next = Len(Checks)
      here == device[task[w].on[2]]
  IN  [task[w] EXCEPT !.pc = IF last THEN "send" ELSE "check",
                      !.next = IF last THEN task[w].next ELSE task[w].next + 1,
                      !.session = IF c = "binding" THEN here.session ELSE task[w].session,
                      !.token = IF c = "binding" THEN here.token ELSE task[w].token]

\* One check: it fails, it cannot be read, or the next one follows.
DoCheck(w) ==
  /\ task[w].pc = "check"
  /\ LET c == Checks[task[w].next]
     IN  \/ CheckFails(w, c) /\ GoFinish(w, "skipped")
         \/ GoFinish(w, "retry")
         \/ ~CheckFails(w, c) /\ task' = [task EXCEPT ![w] = Passed(w, c)]
  /\ UNCHANGED <<api, delivery, accepted, nextToken, faults>>

Accept(x) == accepted' = [accepted EXCEPT ![x] = @ + 1]

\* FCM accepts the notification and the worker hears of it.
SendAccepted(w) ==
  /\ task[w].pc = "send"
  /\ task[w].token \notin unregistered
  /\ Accept(task[w].on)
  /\ GoFinish(w, "sent")
  /\ UNCHANGED <<api, delivery, nextToken, faults>>

\* FCM accepts it, but the answer does not reach the worker.
SendUnanswered(w) ==
  /\ task[w].pc = "send"
  /\ task[w].token \notin unregistered
  /\ Fault
  /\ Accept(task[w].on)
  /\ GoFinish(w, "retry")
  /\ UNCHANGED <<api, delivery, nextToken>>

\* FCM refuses: for now, for good, or because the token is gone.
SendRefused(w) ==
  /\ task[w].pc = "send"
  /\ \/ GoFinish(w, "retry")
     \/ GoFinish(w, "dead_letter")
     \/ /\ task[w].token \in unregistered
        /\ task' = [task EXCEPT ![w].pc = "disable"]
  /\ UNCHANGED <<api, delivery, accepted, nextToken, faults>>

\* Mutant: the device is disabled whatever token it has by now.
DisableTokenById(w) ==
  /\ task[w].pc = "disable"
  /\ \/ /\ device' = [device EXCEPT ![task[w].on[2]].state = "dead"]
        /\ GoFinish(w, "invalid_token")
     \/ GoFinish(w, "retry") /\ UNCHANGED device
  /\ UNCHANGED <<delivery, request, closed, unregistered, accepted, nextBinding, nextToken, faults, changes>>

\* The device is disabled if it still has the binding and the token that FCM
\* refused; the update may also fail.
DisableToken(w) ==
  /\ task[w].pc = "disable"
  /\ LET x == task[w].on
         still == device[x[2]].binding = delivery[x].binding /\ device[x[2]].token = task[w].token
     IN  \/ /\ device' = IF still THEN [device EXCEPT ![x[2]].state = "dead"] ELSE device
            /\ GoFinish(w, "invalid_token")
         \/ GoFinish(w, "retry") /\ UNCHANGED device
  /\ UNCHANGED <<delivery, request, closed, unregistered, accepted, nextBinding, nextToken, faults, changes>>

\* Mutant: a retry is recorded as an outcome of its own.
OutcomeRaw(w) == task[w].outcome

\* retry gives up after the last attempt or after the delivery has expired.
Outcome(w) ==
  LET x == task[w].on
  IN  IF task[w].outcome # "retry" THEN task[w].outcome
      ELSE IF task[w].attempt >= MaxAttempts \/ delivery[x].expired THEN "dead_letter"
      ELSE "pending"

\* Mutant: Finish selects the delivery by id alone.
HoldsLeaseById(w) == TRUE

HoldsLease(w) ==
  /\ delivery[task[w].on].lock = task[w].lock
  /\ delivery[task[w].on].state = "pending"

\* The delivery of w with its outcome recorded and its lease given up.
Recorded(w) ==
  LET x == task[w].on
  IN  [delivery[x] EXCEPT !.locked = "null", !.lock = NoToken, !.state = Outcome(w),
                          !.available = IF Outcome(w) = "pending" THEN "later"
                                        ELSE delivery[x].available]

\* Finish records the outcome if the lease is still held, else ErrLeaseLost.
Finish(w) ==
  /\ task[w].pc = "finish"
  /\ delivery' = IF HoldsLease(w) THEN [delivery EXCEPT ![task[w].on] = Recorded(w)] ELSE delivery
  /\ task' = [task EXCEPT ![w] = NoTask]
  /\ UNCHANGED <<api, accepted, nextToken, faults>>

\* The process dies, or the statement of Finish fails: the lease must run out.
Abandon(w) ==
  /\ task[w].pc # "idle"
  /\ Fault
  /\ task' = [task EXCEPT ![w] = NoTask]
  /\ UNCHANGED <<api, delivery, accepted, nextToken>>

Busy(x) == \E w \in Worker : task[w].pc # "idle" /\ task[w].on = x /\ task[w].lock = delivery[x].lock

\* A minute passes since the claim, with the worker gone or still busy.
LeaseExpires(x) ==
  /\ delivery[x].state = "pending"
  /\ delivery[x].locked = "fresh"
  /\ IF Busy(x) THEN Fault ELSE UNCHANGED faults
  /\ delivery' = [delivery EXCEPT ![x].locked = "expired"]
  /\ UNCHANGED <<api, task, accepted, nextToken>>

RetryDue(x) ==
  /\ delivery[x].state = "pending"
  /\ delivery[x].available = "later"
  /\ delivery' = [delivery EXCEPT ![x].available = "due"]
  /\ UNCHANGED <<api, task, accepted, nextToken, faults>>

\* An hour passes since the message was created.
DeliveryExpires(x) ==
  /\ delivery[x].state = "pending"
  /\ ~delivery[x].expired
  /\ delivery' = [delivery EXCEPT ![x].expired = TRUE]
  /\ UNCHANGED <<api, task, accepted, nextToken, faults>>

-----------------------------------------------------------------------------
WorkerStep(w) ==
  \/ DoCheck(w)
  \/ SendAccepted(w) \/ SendUnanswered(w) \/ SendRefused(w)
  \/ DisableToken(w)
  \/ Finish(w)

Next ==
  \/ \E c \in Caller, d \in Device, s \in Session, t \in FcmToken : UpsertRead(c, d, s, t)
  \/ \E c \in Caller : UpsertWrite(c)
  \/ \E d \in Device, s \in Session : Unregister(d, s)
  \/ \E g \in Gates : CloseGate(g) \/ OpenGate(g)
  \/ \E t \in FcmToken : TokenDies(t)
  \/ \E e \in Event : Enqueue(e)
  \/ \E w \in Worker, x \in Event \X Device : Claim(w, x)
  \/ \E w \in Worker : IdlePoll(w) \/ WorkerStep(w) \/ Abandon(w)
  \/ \E x \in Event \X Device : LeaseExpires(x) \/ RetryDue(x) \/ DeliveryExpires(x)

Spec == Init /\ [][Next]_vars

\* Workers poll and run on, requests complete, and time passes.
Fairness ==
  /\ \A w \in Worker : WF_vars(\E x \in Event \X Device : Claim(w, x))
  /\ \A w \in Worker : WF_vars(WorkerStep(w))
  /\ \A x \in Event \X Device : WF_vars(LeaseExpires(x) /\ ~Busy(x)) /\ WF_vars(RetryDue(x))

FairSpec == Spec /\ Fairness

-----------------------------------------------------------------------------
(* Properties *)

\* Nobody who had unregistered, logged out, muted the chat, lost access or
\* rebound the device before the delivery was claimed, and has not undone it
\* since, is sent the notification: every check ProcessOne makes before Send is
\* made on each attempt.
OptOutRespected ==
  \A w \in Worker : task[w].pc = "send" => task[w].shut = {}

\* FCM gets a delivery once, plus once for every crash, lost answer, failed
\* statement or stalled worker, the duplicates that "at-least-once" admits.
DuplicateBound ==
  \A x \in Event \X Device : accepted[x] <= 1 + faults

\* A finished delivery is never reopened or given another outcome, neither by a
\* worker that lost its lease nor by a second projection of the message.
FinishedIsFinal ==
  [][\A x \in Event \X Device :
       delivery[x].state \notin {"absent", "pending"} => delivery'[x] = delivery[x]]_vars

\* A worker disables a registration only for a token that FCM has refused, never
\* the new token that replaced it while the worker was sending.
DisablesRefusedToken ==
  [][\A d \in Device :
       device'[d].state = "dead" /\ device[d].state # "dead" => device[d].token \in unregistered]_vars

\* Unregister is not undone by a registration that was already under way: only
\* one that has read the unregistered device enables it again.
UnregisterSticks ==
  [][\A d \in Device :
       device[d].state = "off" /\ device'[d].state = "on" =>
         \E c \in Caller : request[c].pc = "write" /\ request[c].on = d /\ request[c].saw = device[d]]_vars

\* Every enqueued delivery is finished: sent, skipped, refused or given up.
EventuallyFinished ==
  \A x \in Event \X Device :
    delivery[x].state = "pending" ~> delivery[x].state \notin {"absent", "pending"}

=============================================================================
