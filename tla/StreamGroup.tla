---------------------------- MODULE StreamGroup ----------------------------
(***************************************************************************)
(* The Redis stream between the message workers and the WebSocket gateways *)
(* and the consumer group each gateway reads it with.                      *)
(*                                                                         *)
(* A gateway takes a lease on the group named after its instance id,       *)
(* destroys what a predecessor left, creates the group at the end of the   *)
(* stream and reads, delivers and acknowledges until it stops.  Meanwhile  *)
(* it refreshes the lease and removes the groups of instances that have    *)
(* none.  A process here is one run of the gateway binary with its token;  *)
(* a restarted gateway is another process of the same instance.            *)
(*                                                                         *)
(* An entry is a position in the log.  Error answers whose command took    *)
(* effect are a success followed by Stop.                                  *)
(***************************************************************************)
EXTENDS Naturals, Sequences, FiniteSets

CONSTANTS Process,        \* runs of the gateway binary
          Instance,       \* instance ids, which name the consumer groups
          InstanceOf,     \* the instance id each process is started with
          Event,          \* event ids, numbered in the order of their first publication
          Malformed,      \* events that cannot be decoded
          MaxLen,         \* length the stream is trimmed to
          Count,          \* messages asked for by one read
          MaxRemembered,  \* maxRememberedRealtimeEvents
          MaxLog,         \* bound: entries ever added to the stream
          MaxFaults,      \* bound: crashes, lapsed leases, lost answers at startup, repeated events
          None            \* no owner

ASSUME StreamAssumption ==
  /\ InstanceOf \in [Process -> Instance]
  /\ Event \subseteq Nat
  /\ Malformed \subseteq Event
  /\ {MaxLen, Count, MaxRemembered} \subseteq Nat \ {0}
  /\ {MaxLog, MaxFaults} \subseteq Nat
  /\ None \notin Process

VARIABLES log,       \* every entry ever added to the stream, oldest first
          trimmed,   \* how many of them MAXLEN has removed
          lease,     \* lease key of each group: the owner's token
          group,     \* consumer groups of the stream
          proc,      \* the gateway processes
          lapsed,    \* history: groups whose lease expired under a live owner
          faults     \* faults so far

vars == <<log, trimmed, lease, group, proc, lapsed, faults>>

\* The consumer group in Redis: the last entry handed out and the entries
\* handed out and not acknowledged.
GroupState == [exists : BOOLEAN, last : Nat, pending : SUBSET Nat]

NoGroup == [exists |-> FALSE, last |-> 0, pending |-> {}]

(***************************************************************************)
(* pc is main's progress, con that of the consumer goroutine.  delivered   *)
(* lists what the process has handed to its clients and start where the    *)
(* stream ended when the group was made; both are history.                 *)
(***************************************************************************)
ProcState ==
  [pc        : {"new", "reset", "ensure", "running", "closing", "stopped"},
   con       : {"receive", "process", "ack"},
   buffer    : Seq(Nat),
   current   : Nat,
   memory    : Seq(Event),
   delivered : Seq(Event),
   start     : Nat]

Fresh ==
  [pc |-> "new", con |-> "receive", buffer |-> <<>>,
   current |-> 0, memory |-> <<>>, delivered |-> <<>>, start |-> 0]

TypeOK ==
  /\ log \in Seq(Event)
  /\ trimmed \in 0..Len(log)
  /\ lease \in [Instance -> Process \cup {None}]
  /\ group \in [Instance -> GroupState]
  /\ proc \in [Process -> ProcState]
  /\ \A p \in Process : Len(proc[p].memory) <= MaxRemembered
  /\ lapsed \subseteq Instance
  /\ faults \in 0..MaxFaults

Init ==
  /\ log = <<>>
  /\ trimmed = 0
  /\ lease = [i \in Instance |-> None]
  /\ group = [i \in Instance |-> NoGroup]
  /\ proc = [p \in Process |-> Fresh]
  /\ lapsed = {}
  /\ faults = 0

In(s) == {s[k] : k \in 1..Len(s)}

At(p, label) == proc[p].pc = label

Alive(p) == proc[p].pc \notin {"new", "stopped"}

Put(p, x) == proc' = [proc EXCEPT ![p] = x]

Goto(p, label) == Put(p, [proc[p] EXCEPT !.pc = label])

SetGroup(i, g) == group' = [group EXCEPT ![i] = g]

Fault == faults < MaxFaults /\ faults' = faults + 1

-----------------------------------------------------------------------------
(* The publisher *)

\* publishMessageEventScript.  An event that is already in the stream is added
\* again only by a retry of its row after the dedupe hash has expired.  MAXLEN is
\* approximate: Redis removes some of what is too much.
Publish(e) ==
  /\ Len(log) < MaxLog
  /\ \/ e \in In(log) /\ Fault
     \/ e = Cardinality(In(log)) + 1 /\ UNCHANGED faults
  /\ log' = Append(log, e)
  /\ \E t \in trimmed..Len(log) :
       /\ t = trimmed \/ Len(log) + 1 - t >= MaxLen
       /\ trimmed' = t
  /\ UNCHANGED <<lease, group, proc, lapsed>>

-----------------------------------------------------------------------------
(* Startup: initializeRealtimeStream *)

\* RefreshLease takes the lease unless another token holds it.  A process that
\* is refused exits and is started again, which leaves it new.
AcquireLease(p) ==
  /\ At(p, "new")
  /\ lease[InstanceOf[p]] = None
  /\ lease' = [lease EXCEPT ![InstanceOf[p]] = p]
  /\ \/ Goto(p, "reset") /\ UNCHANGED faults
     \/ Goto(p, "stopped") /\ Fault  \* the answer was lost
  /\ UNCHANGED <<log, trimmed, group, lapsed>>

\* resetOwnedGroupScript, which fails when the lease is not the process's own.
ResetGroup(p) ==
  /\ At(p, "reset")
  /\ IF lease[InstanceOf[p]] = p
     THEN SetGroup(InstanceOf[p], NoGroup) /\ Goto(p, "ensure")
     ELSE Goto(p, "closing") /\ UNCHANGED group
  /\ UNCHANGED <<log, trimmed, lease, lapsed, faults>>

\* XGROUP CREATE at "$"; BUSYGROUP is no error.
EnsureGroup(p) ==
  /\ At(p, "ensure")
  /\ IF group[InstanceOf[p]].exists
     THEN UNCHANGED group
     ELSE SetGroup(InstanceOf[p], [exists |-> TRUE, last |-> Len(log), pending |-> {}])
  /\ Put(p, [proc[p] EXCEPT !.pc = "running", !.start = Len(log)])
  /\ UNCHANGED <<log, trimmed, lease, lapsed, faults>>

-----------------------------------------------------------------------------
(* The lifecycle goroutine *)

\* A tick.  Another owner ends the process; an error is only logged, so the
\* lease may run out: LeaseLapses.
RefreshLease(p) ==
  /\ At(p, "running")
  /\ IF lease[InstanceOf[p]] \in {p, None}
     THEN lease' = [lease EXCEPT ![InstanceOf[p]] = p] /\ UNCHANGED proc
     ELSE Goto(p, "closing") /\ UNCHANGED lease
  /\ UNCHANGED <<log, trimmed, group, lapsed, faults>>

\* Mutant: the sweep trusts its listing and does not look at the lease.
DestroyUnlessLeasedBlind(i) == SetGroup(i, NoGroup)

\* destroyStaleGroupScript
DestroyUnlessLeased(i) == IF lease[i] = None THEN SetGroup(i, NoGroup) ELSE UNCHANGED group

\* One group of CleanupStale's listing.  The cleanup lock keeps two gateways
\* from sweeping at the same time and is left out: the script decides each group
\* by itself and a second call of it finds nothing.
\* main sweeps after startup, a tick after its RefreshLease; as refreshing a lease
\* of one's own changes nothing the order is left open.
CleanupStale(p, i) ==
  /\ At(p, "running")
  /\ group[i].exists
  /\ DestroyUnlessLeased(i)
  /\ UNCHANGED <<log, trimmed, lease, proc, lapsed, faults>>

Lifecycle(p) == RefreshLease(p) \/ \E i \in Instance : CleanupStale(p, i)

-----------------------------------------------------------------------------
(* The consumer goroutine *)

Receiving(p) == At(p, "running") /\ proc[p].con = "receive"

\* The messages of an answer: the first is processed, the rest is buffered.
Take(p, entries) ==
  Put(p, [proc[p] EXCEPT !.con = "process", !.current = Head(entries), !.buffer = Tail(entries)])

ReceiveBuffered(p) ==
  /\ Receiving(p)
  /\ proc[p].buffer # <<>>
  /\ Take(p, proc[p].buffer)
  /\ UNCHANGED <<log, trimmed, lease, group, lapsed, faults>>

\* XAUTOCLAIM hands out pending entries that have been idle for half a minute, in
\* their order, and forgets trimmed ones.  Which entries are idle is a matter of time.
\* If none is handed out the read goes on with XREADGROUP.
ReceivePending(p) ==
  LET g == group[InstanceOf[p]] IN
  /\ Receiving(p)
  /\ proc[p].buffer = <<>>
  /\ g.exists
  /\ \E n \in 0..Count : \E s \in [1..n -> {k \in g.pending : k > trimmed}] :
       /\ \A a, b \in 1..n : a < b => s[a] < s[b]
       /\ IF n = 0 THEN UNCHANGED proc ELSE Take(p, s)
  /\ \E S \in SUBSET {k \in g.pending : k <= trimmed} :
       SetGroup(InstanceOf[p], [g EXCEPT !.pending = @ \ S])
  /\ UNCHANGED <<log, trimmed, lease, lapsed, faults>>

\* XREADGROUP hands out the next entries that are still in the stream.
ReceiveNew(p) ==
  LET g     == group[InstanceOf[p]]
      first == 1 + IF g.last > trimmed THEN g.last ELSE trimmed
      to    == IF first + Count - 1 < Len(log) THEN first + Count - 1 ELSE Len(log)
  IN
  /\ Receiving(p)
  /\ proc[p].buffer = <<>>
  /\ g.exists
  /\ first <= Len(log)
  /\ SetGroup(InstanceOf[p], [g EXCEPT !.last = to, !.pending = @ \cup (first..to)])
  /\ Take(p, [k \in 1..(to - first + 1) |-> first + k - 1])
  /\ UNCHANGED <<log, trimmed, lease, lapsed, faults>>

\* Mutant: the consumer stops without stopping the process.
ReceiveNoGroupUnnoticed(p) ==
  /\ Receiving(p)
  /\ proc[p].buffer = <<>>
  /\ ~group[InstanceOf[p]].exists
  /\ UNCHANGED vars

\* Without a group the read fails, Run returns and main stops the process.
ReceiveNoGroup(p) ==
  /\ Receiving(p)
  /\ proc[p].buffer = <<>>
  /\ ~group[InstanceOf[p]].exists
  /\ Goto(p, "closing")
  /\ UNCHANGED <<log, trimmed, lease, group, lapsed, faults>>

\* Mutant: the oldest id is forgotten one event too early.
RememberedTooShort(s, e) ==
  LET t == Append(s, e) IN IF Len(t) >= MaxRemembered THEN Tail(t) ELSE t

\* Mutant: no id is ever forgotten.
RememberedForever(s, e) == Append(s, e)

\* rememberDelivered: the oldest id makes room for the newest.
Remembered(s, e) ==
  LET t == Append(s, e) IN IF Len(t) > MaxRemembered THEN Tail(t) ELSE t

\* Process up to the acknowledgement: malformed events and events delivered
\* before are only acknowledged.
Deliver(p) ==
  LET e == log[proc[p].current] IN
  /\ At(p, "running") /\ proc[p].con = "process"
  /\ Put(p, IF e \in Malformed \cup In(proc[p].memory)
            THEN [proc[p] EXCEPT !.con = "ack"]
            ELSE [proc[p] EXCEPT !.con = "ack",
                                 !.delivered = Append(@, e),
                                 !.memory = Remembered(@, e)])
  /\ UNCHANGED <<log, trimmed, lease, group, lapsed, faults>>

\* Mutant: an acknowledgement covers the whole batch.
AckBatch(p) ==
  /\ At(p, "running") /\ proc[p].con = "ack"
  /\ SetGroup(InstanceOf[p], [group[InstanceOf[p]] EXCEPT !.pending = {}])
  /\ Put(p, [proc[p] EXCEPT !.con = "receive", !.buffer = <<>>])
  /\ UNCHANGED <<log, trimmed, lease, lapsed, faults>>

\* XACK; acknowledging an entry that is not pending is no error.
Ack(p) ==
  /\ At(p, "running") /\ proc[p].con = "ack"
  /\ SetGroup(InstanceOf[p], [group[InstanceOf[p]] EXCEPT !.pending = @ \ {proc[p].current}])
  /\ Put(p, [proc[p] EXCEPT !.con = "receive"])
  /\ UNCHANGED <<log, trimmed, lease, lapsed, faults>>

Consume(p) ==
  \/ ReceiveBuffered(p)
  \/ ReceivePending(p)
  \/ ReceiveNew(p)
  \/ ReceiveNoGroup(p)
  \/ Deliver(p)
  \/ Ack(p)

-----------------------------------------------------------------------------
(* Shutdown, crashes and time *)

\* A signal, an error of the consumer, or an error during startup.
Stop(p) ==
  /\ proc[p].pc \in {"reset", "ensure", "running"}
  /\ Goto(p, "closing")
  /\ UNCHANGED <<log, trimmed, lease, group, lapsed, faults>>

Ended == [Fresh EXCEPT !.pc = "stopped"]

\* closeOwnedGroupScript: group and lease go together, if the lease is the
\* process's own.  If the call fails the process ends all the same: Crash.
Close(p) ==
  /\ At(p, "closing")
  /\ IF lease[InstanceOf[p]] = p
     THEN SetGroup(InstanceOf[p], NoGroup) /\ lease' = [lease EXCEPT ![InstanceOf[p]] = None]
     ELSE UNCHANGED <<group, lease>>
  /\ Put(p, Ended)
  /\ UNCHANGED <<log, trimmed, lapsed, faults>>

Crash(p) ==
  /\ Alive(p)
  /\ Fault
  /\ Put(p, Ended)
  /\ UNCHANGED <<log, trimmed, lease, group, lapsed>>

\* The owner is gone and five minutes pass.
LeaseExpires(i) ==
  /\ lease[i] # None
  /\ ~Alive(lease[i])
  /\ lease' = [lease EXCEPT ![i] = None]
  /\ UNCHANGED <<log, trimmed, group, proc, lapsed, faults>>

\* The owner lives but its refreshes fail or are late for five minutes.
LeaseLapses(i) ==
  /\ lease[i] # None
  /\ Alive(lease[i])
  /\ Fault
  /\ lapsed' = lapsed \cup {i}
  /\ lease' = [lease EXCEPT ![i] = None]
  /\ UNCHANGED <<log, trimmed, group, proc>>

-----------------------------------------------------------------------------
Startup(p) == AcquireLease(p) \/ ResetGroup(p) \/ EnsureGroup(p)

Gateway(p) == Startup(p) \/ Lifecycle(p) \/ Consume(p) \/ Stop(p) \/ Close(p) \/ Crash(p)

Next ==
  \/ \E e \in Event : Publish(e)
  \/ \E p \in Process : Gateway(p)
  \/ \E i \in Instance : LeaseExpires(i) \/ LeaseLapses(i)

Spec == Init /\ [][Next]_vars

\* The goroutines of a live process run on, a closing process ends, and time
\* passes.  Processes need not be started.
Fairness ==
  /\ \A p \in Process :
       /\ WF_vars(ResetGroup(p) \/ EnsureGroup(p) \/ Close(p))
       /\ WF_vars(RefreshLease(p))
       /\ WF_vars(Consume(p))
  /\ \A i \in Instance : WF_vars(LeaseExpires(i))

FairSpec == Spec /\ Fairness

-----------------------------------------------------------------------------
(* Properties *)

\* Entry k needs nothing more from process p: delivered to its clients, not
\* decodable, or trimmed before it could be read.
Settled(p, k) ==
  \/ k \in 1..Len(log) /\ log[k] \in In(proc[p].delivered) \cup Malformed
  \/ k <= trimmed

\* Every entry added since a gateway created its group is delivered to its
\* clients, still pending in the group, or not yet handed out ("acknowledges an
\* event only after it has been delivered"), whatever other gateways start,
\* sweep, crash or stop: only a lease that ran out under a live process of the
\* same instance may open a gap.
NoGap ==
  \A p \in Process :
    LET g == group[InstanceOf[p]] IN
    At(p, "running") /\ InstanceOf[p] \notin lapsed =>
      /\ g.exists
      /\ \A k \in (proc[p].start + 1)..Len(log) :
           Settled(p, k) \/ k > g.last \/ k \in g.pending

\* A gateway delivers an event again only after it has delivered more other
\* events than it remembers, also when the publisher repeats the event or a
\* pending entry is claimed again.
DeliveredOnce ==
  \A p \in Process : \A j, k \in 1..Len(proc[p].delivered) :
    j < k /\ proc[p].delivered[j] = proc[p].delivered[k] => k - j > MaxRemembered

\* A gateway that stays up catches up with the stream again and again: every
\* entry added since it started reaches its clients, unless it is trimmed or the
\* lease ran out.
EventuallyDelivered ==
  \A p \in Process :
    []<>(\/ ~At(p, "running") \/ InstanceOf[p] \in lapsed
         \/ \A k \in (proc[p].start + 1)..Len(log) : Settled(p, k))

\* A gateway whose group is gone, or whose lease another process holds, does not
\* stay up with clients it serves nothing: it stops or gets group and lease back.
NoZombie ==
  \A p \in Process :
    LET i == InstanceOf[p] IN
    []<>(~At(p, "running") \/ (group[i].exists /\ lease[i] = p))

=============================================================================
