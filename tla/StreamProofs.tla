---------------------------- MODULE StreamProofs ----------------------------
(***************************************************************************)
(* Proofs about StreamGroup, for any number of gateways, restarts, events  *)
(* and faults, and any lengths of the stream, of a read and of the memory. *)
(***************************************************************************)
EXTENDS StreamGroup, TLAPS

\* What a process has in hand is in the log, what it remembers it has delivered, and
\* what it is about to acknowledge needs no delivery any more.
ProcOK(x) ==
  /\ x \in ProcState
  /\ Len(x.memory) <= MaxRemembered
  /\ In(x.buffer) \subseteq 1..Len(log)
  /\ x.con # "receive" => x.current \in 1..Len(log)
  /\ x.start <= Len(log)
  /\ In(x.memory) \subseteq In(x.delivered)
  /\ x.con = "ack" => log[x.current] \in In(x.delivered) \cup Malformed

GroupOK(g) ==
  /\ g \in GroupState
  /\ g.last <= Len(log)
  /\ g.pending \subseteq 1..Len(log)

\* Nothing that was added since x started is lost to x, reading with group g.
Covers(x, g) ==
  /\ g.exists
  /\ \A k \in (x.start + 1)..Len(log) :
       log[k] \in In(x.delivered) \cup Malformed \/ k <= trimmed \/ k > g.last \/ k \in g.pending

\* Whoever is alive has the lease of its group, unless that ran out.
OwnInv == \A p \in Process : Alive(p) /\ InstanceOf[p] \notin lapsed => lease[InstanceOf[p]] = p

CoverInv ==
  \A p \in Process : At(p, "running") /\ InstanceOf[p] \notin lapsed =>
    Covers(proc[p], group[InstanceOf[p]])

Inv ==
  /\ TypeOK
  /\ \A p \in Process : ProcOK(proc[p])
  /\ \A i \in Instance : GroupOK(group[i])
  /\ OwnInv
  /\ CoverInv

-----------------------------------------------------------------------------
(* Sequences *)

LEMMA InAppend ==
  ASSUME NEW S, NEW s \in Seq(S), NEW e \in S
  PROVE  Append(s, e) \in Seq(S) /\ In(Append(s, e)) = In(s) \cup {e}
         /\ Len(Append(s, e)) = Len(s) + 1
BY DEF In

LEMMA InTail ==
  ASSUME NEW S, NEW s \in Seq(S), s # <<>>
  PROVE  /\ Tail(s) \in Seq(S) /\ In(Tail(s)) \subseteq In(s) /\ Len(Tail(s)) = Len(s) - 1
         /\ Head(s) \in S /\ Head(s) \in In(s)
BY DEF In

LEMMA RememberedFact ==
  ASSUME NEW s \in Seq(Event), NEW e \in Event, Len(s) <= MaxRemembered
  PROVE  /\ Remembered(s, e) \in Seq(Event)
         /\ Len(Remembered(s, e)) <= MaxRemembered
         /\ In(Remembered(s, e)) \subseteq In(s) \cup {e}
<1>0. MaxRemembered \in Nat
  BY StreamAssumption
<1> DEFINE t == Append(s, e)
<1>1. t \in Seq(Event) /\ In(t) = In(s) \cup {e} /\ Len(t) = Len(s) + 1
  BY InAppend
<1>2. t # <<>>
  BY <1>1
<1>3. Remembered(s, e) = IF Len(t) > MaxRemembered THEN Tail(t) ELSE t
  BY DEF Remembered
<1> HIDE DEF t
<1>4. Tail(t) \in Seq(Event) /\ In(Tail(t)) \subseteq In(t) /\ Len(Tail(t)) = Len(t) - 1
  BY <1>1, <1>2, InTail
<1> QED
  BY <1>0, <1>1, <1>3, <1>4

LEMMA EmptyIn == In(<<>>) = {}
BY DEF In

LEMMA FreshOK == ASSUME TypeOK PROVE ProcOK(Fresh) /\ ProcOK(Ended) /\ GroupOK(NoGroup)
<1>0. <<>> \in Seq(Nat) /\ <<>> \in Seq(Event)
  OBVIOUS
<1>1. Fresh \in ProcState /\ NoGroup \in GroupState
  BY <1>0 DEF Fresh, NoGroup, ProcState, GroupState
<1>5. Ended \in ProcState
  BY <1>1 DEF Ended, ProcState
<1>2. Len(log) \in Nat /\ MaxRemembered \in Nat
  BY StreamAssumption DEF TypeOK
<1>3. Fresh.memory = <<>> /\ Fresh.buffer = <<>> /\ Fresh.con = "receive" /\ Fresh.start = 0
      /\ Ended.memory = <<>> /\ Ended.buffer = <<>> /\ Ended.con = "receive" /\ Ended.start = 0
  BY DEF Fresh, Ended
<1>4. NoGroup.last = 0 /\ NoGroup.pending = {}
  BY DEF NoGroup
<1> QED
  BY <1>1, <1>2, <1>3, <1>4, <1>5, EmptyIn DEF ProcOK, GroupOK

-----------------------------------------------------------------------------
(* One process at a time *)

LEMMA PutFact ==
  ASSUME TypeOK, NEW p \in Process, NEW x, Put(p, x)
  PROVE  proc'[p] = x /\ (\A q \in Process \ {p} : proc'[q] = proc[q]) /\ DOMAIN proc' = Process
         /\ proc' = [q \in Process |-> proc'[q]]
BY DEF TypeOK, Put

LEMMA SetGroupFact ==
  ASSUME TypeOK, NEW i \in Instance, NEW g, SetGroup(i, g)
  PROVE  group'[i] = g /\ (\A j \in Instance \ {i} : group'[j] = group[j])
         /\ group' = [j \in Instance |-> group'[j]]
BY DEF TypeOK, SetGroup

LEMMA InstanceType == ASSUME NEW p \in Process PROVE InstanceOf[p] \in Instance
BY StreamAssumption

\* The lease stays and p does not come to life.
LEMMA OwnSame ==
  ASSUME TypeOK, OwnInv, NEW p \in Process, NEW x, Put(p, x), UNCHANGED <<lease, lapsed>>,
         x.pc \notin {"new", "stopped"} => Alive(p)
  PROVE  OwnInv'
<1>1. proc'[p] = x /\ \A q \in Process \ {p} : proc'[q] = proc[q]
  BY PutFact
<1> QED
  BY <1>1 DEF OwnInv, Alive

LEMMA ProcStep ==
  ASSUME Inv, NEW p \in Process, NEW x, NEW g, ProcOK(x), GroupOK(g), Put(p, x),
         SetGroup(InstanceOf[p], g) \/ (UNCHANGED group /\ g = group[InstanceOf[p]]),
         UNCHANGED <<log, trimmed, lapsed>>, faults' \in 0..MaxFaults,
         lease' \in [Instance -> Process \cup {None}], OwnInv',
         InstanceOf[p] \notin lapsed => g = group[InstanceOf[p]] \/ lease[InstanceOf[p]] = p,
         x.pc = "running" /\ InstanceOf[p] \notin lapsed => Covers(x, g)
  PROVE  Inv'
<1> USE DEF Inv
<1>0. InstanceOf[p] \in Instance
  BY InstanceType
<1>1. proc'[p] = x /\ (\A q \in Process \ {p} : proc'[q] = proc[q])
      /\ proc' = [q \in Process |-> proc'[q]]
  BY PutFact
<1>2. group'[InstanceOf[p]] = g /\ (\A j \in Instance \ {InstanceOf[p]} : group'[j] = group[j])
      /\ group' = [j \in Instance |-> group'[j]]
  BY <1>0, SetGroupFact DEF TypeOK
<1>3. \A q \in Process : ProcOK(proc[q])'
  <2>1. \A q \in Process : ProcOK(proc'[q])
    BY <1>1
  <2> QED
    BY <2>1 DEF ProcOK
<1>4. \A j \in Instance : GroupOK(group[j])'
  <2>1. \A j \in Instance : GroupOK(group'[j])
    BY <1>2
  <2> QED
    BY <2>1 DEF GroupOK
<1>5. proc' \in [Process -> ProcState] /\ \A q \in Process : Len(proc'[q].memory) <= MaxRemembered
  BY <1>1, <1>3 DEF ProcOK
<1>6. group' \in [Instance -> GroupState]
  BY <1>2, <1>4 DEF GroupOK
<1>7. TypeOK'
  BY <1>5, <1>6 DEF TypeOK
<1>8. ASSUME NEW q \in Process, proc'[q].pc = "running", InstanceOf[q] \notin lapsed
      PROVE  Covers(proc'[q], group'[InstanceOf[q]])
  <2>1. CASE q = p
    BY <1>1, <1>2, <1>8, <2>1
  <2>2. CASE q # p
    <3>1. proc'[q] = proc[q] /\ At(q, "running") /\ Alive(q)
      BY <1>1, <1>8, <2>2 DEF At, Alive
    <3>2. lease[InstanceOf[q]] = q
      BY <1>8, <3>1 DEF OwnInv
    <3>3. group'[InstanceOf[q]] = group[InstanceOf[q]]
      BY <1>2, <1>8, <2>2, <3>2, InstanceType
    <3> QED
      BY <1>8, <3>1, <3>3 DEF CoverInv
  <2> QED
    BY <2>1, <2>2
<1>9. CoverInv'
  BY <1>8 DEF CoverInv, Covers, At
<1> QED
  BY <1>3, <1>4, <1>7, <1>9

\* The fields of a process that a step to another pc keeps.
LEMMA GotoFact ==
  ASSUME Inv, NEW p \in Process,
         NEW label \in {"reset", "ensure", "running", "closing", "stopped"}, Goto(p, label)
  PROVE  \E x : /\ ProcOK(x) /\ Put(p, x) /\ x.pc = label
                /\ x.start = proc[p].start /\ x.delivered = proc[p].delivered
<1> DEFINE y == [proc[p] EXCEPT !.pc = label]
<1>1. PICK x : x = y
  OBVIOUS
<1>2. Put(p, x)
  BY <1>1 DEF Goto
<1>3. ProcOK(proc[p]) /\ proc[p] \in ProcState
  BY DEF Inv, ProcOK
<1>4. y \in ProcState /\ y.pc = label /\ y.con = proc[p].con /\ y.buffer = proc[p].buffer
      /\ y.current = proc[p].current /\ y.memory = proc[p].memory
      /\ y.delivered = proc[p].delivered /\ y.start = proc[p].start
  BY <1>3 DEF ProcState
<1> HIDE DEF y
<1>5. ProcOK(x) /\ x.pc = label /\ x.start = proc[p].start /\ x.delivered = proc[p].delivered
  BY <1>1, <1>3, <1>4 DEF ProcOK
<1> QED
  BY <1>2, <1>5

LEMMA FaultType == TypeOK /\ Fault => faults' \in 0..MaxFaults
BY StreamAssumption DEF TypeOK, Fault

-----------------------------------------------------------------------------
(* Startup, lifecycle and shutdown *)

LEMMA AcquireLeaseInv == ASSUME Inv, NEW p \in Process, AcquireLease(p) PROVE Inv'
<1> USE DEF Inv
<1>0. InstanceOf[p] \in Instance
  BY InstanceType
<1>1. PICK label \in {"reset", "stopped"} : Goto(p, label)
  BY DEF AcquireLease
<1>2. At(p, "new") /\ lease[InstanceOf[p]] = None /\ lease' = [lease EXCEPT ![InstanceOf[p]] = p]
      /\ UNCHANGED <<log, trimmed, group, lapsed>>
  BY DEF AcquireLease
<1>3. faults' \in 0..MaxFaults
  BY FaultType DEF AcquireLease, TypeOK
<1>4. PICK x : ProcOK(x) /\ Put(p, x) /\ x.pc = label
  BY <1>1, GotoFact
<1>5. lease' \in [Instance -> Process \cup {None}] /\ lease'[InstanceOf[p]] = p
      /\ \A j \in Instance \ {InstanceOf[p]} : lease'[j] = lease[j]
  BY <1>0, <1>2 DEF TypeOK
<1>6. OwnInv'
  <2>1. \A q \in Process \ {p} : proc'[q] = proc[q]
    BY <1>4, PutFact
  <2>2. ASSUME NEW q \in Process, q # p, Alive(q)', InstanceOf[q] \notin lapsed'
        PROVE  lease'[InstanceOf[q]] = q
    <3>1. lease[InstanceOf[q]] = q
      BY <1>2, <2>1, <2>2 DEF OwnInv, Alive
    <3>2. InstanceOf[q] # InstanceOf[p]
      BY <1>2, <3>1, StreamAssumption
    <3> QED
      BY <1>5, <3>1, <3>2, InstanceType
  <2> QED
    BY <1>5, <2>2 DEF OwnInv
<1> QED
  BY <1>0, <1>2, <1>3, <1>4, <1>5, <1>6, ProcStep

LEMMA ResetGroupInv == ASSUME Inv, NEW p \in Process, ResetGroup(p) PROVE Inv'
<1> USE DEF Inv
<1>1. At(p, "reset") /\ UNCHANGED <<log, trimmed, lease, lapsed, faults>>
  BY DEF ResetGroup
<1>2. InstanceOf[p] \in Instance /\ GroupOK(group[InstanceOf[p]]) /\ GroupOK(NoGroup)
  BY InstanceType, FreshOK
<1>3. CASE lease[InstanceOf[p]] = p
  <2>1. SetGroup(InstanceOf[p], NoGroup) /\ Goto(p, "ensure")
    BY <1>3 DEF ResetGroup
  <2>2. PICK x : ProcOK(x) /\ Put(p, x) /\ x.pc = "ensure"
    BY <2>1, GotoFact
  <2>3. OwnInv'
    BY <1>1, <2>2, OwnSame DEF At, Alive
  <2> QED
    BY <1>1, <1>2, <1>3, <2>1, <2>2, <2>3, ProcStep DEF TypeOK
<1>4. CASE lease[InstanceOf[p]] # p
  <2>1. Goto(p, "closing") /\ UNCHANGED group
    BY <1>4 DEF ResetGroup
  <2>2. PICK x : ProcOK(x) /\ Put(p, x) /\ x.pc = "closing"
    BY <2>1, GotoFact
  <2>3. OwnInv'
    BY <1>1, <2>2, OwnSame DEF At, Alive
  <2> QED
    BY <1>1, <1>2, <2>1, <2>2, <2>3, ProcStep DEF TypeOK
<1> QED
  BY <1>3, <1>4

\* The group is new, and nothing was added since.
LEMMA EnsureGroupInv == ASSUME Inv, NEW p \in Process, EnsureGroup(p) PROVE Inv'
<1> USE DEF Inv
<1> DEFINE i == InstanceOf[p]
           g0 == IF group[i].exists THEN group[i]
                 ELSE [exists |-> TRUE, last |-> Len(log), pending |-> {}]
           y == [proc[p] EXCEPT !.pc = "running", !.start = Len(log)]
<1>1. At(p, "ensure") /\ UNCHANGED <<log, trimmed, lease, lapsed, faults>>
  BY DEF EnsureGroup
<1>2. i \in Instance /\ GroupOK(group[i]) /\ ProcOK(proc[p]) /\ Len(log) \in Nat
  BY InstanceType DEF TypeOK
<1>3. PICK g : g = g0
  OBVIOUS
<1>4. PICK x : x = y
  OBVIOUS
<1>5. Put(p, x) /\ (SetGroup(i, g) \/ (UNCHANGED group /\ g = group[i]))
  BY <1>3, <1>4 DEF EnsureGroup
<1>6. GroupOK(g) /\ g.exists
  <2>1. CASE group[i].exists
    BY <1>2, <1>3, <2>1
  <2>2. CASE ~group[i].exists
    <3>1. g = [exists |-> TRUE, last |-> Len(log), pending |-> {}]
      BY <1>3, <2>2
    <3> QED
      BY <1>2, <3>1 DEF GroupOK, GroupState
  <2> QED
    BY <2>1, <2>2
<1>7. y \in ProcState /\ y.pc = "running" /\ y.con = proc[p].con /\ y.buffer = proc[p].buffer
      /\ y.current = proc[p].current /\ y.memory = proc[p].memory
      /\ y.delivered = proc[p].delivered /\ y.start = Len(log)
  BY <1>2 DEF ProcState, ProcOK
<1> HIDE DEF y, g0
<1>8. ProcOK(x) /\ x.pc = "running" /\ x.start = Len(log)
  BY <1>2, <1>4, <1>7 DEF ProcOK
<1>9. Covers(x, g)
  BY <1>2, <1>6, <1>8 DEF Covers
<1>10. OwnInv'
  BY <1>1, <1>5, OwnSame DEF At, Alive
<1>11. i \notin lapsed => g = group[i] \/ lease[i] = p
  BY <1>1 DEF OwnInv, At, Alive
<1> QED
  BY <1>1, <1>2, <1>5, <1>6, <1>8, <1>9, <1>10, <1>11, ProcStep DEF TypeOK

LEMMA RefreshLeaseInv == ASSUME Inv, NEW p \in Process, RefreshLease(p) PROVE Inv'
<1> USE DEF Inv
<1>0. InstanceOf[p] \in Instance /\ GroupOK(group[InstanceOf[p]])
  BY InstanceType
<1>1. At(p, "running") /\ UNCHANGED <<log, trimmed, group, lapsed, faults>>
  BY DEF RefreshLease
<1>2. CASE lease[InstanceOf[p]] \in {p, None}
  <2>1. lease' = [lease EXCEPT ![InstanceOf[p]] = p] /\ UNCHANGED proc
    BY <1>2 DEF RefreshLease
  <2>2. lease' \in [Instance -> Process \cup {None}] /\ lease'[InstanceOf[p]] = p
        /\ \A j \in Instance \ {InstanceOf[p]} : lease'[j] = lease[j]
    BY <1>0, <2>1 DEF TypeOK
  <2>3. OwnInv'
    <3>1. ASSUME NEW q \in Process, q # p, Alive(q)', InstanceOf[q] \notin lapsed'
          PROVE  lease'[InstanceOf[q]] = q
      <4>1. lease[InstanceOf[q]] = q
        BY <1>1, <2>1, <3>1 DEF OwnInv, Alive
      <4>2. InstanceOf[q] # InstanceOf[p]
        BY <1>2, <3>1, <4>1, StreamAssumption
      <4> QED
        BY <2>2, <4>1, <4>2, InstanceType
    <3> QED
      BY <2>2, <3>1 DEF OwnInv
  <2>4. TypeOK' /\ CoverInv'
    BY <1>1, <2>1, <2>2 DEF TypeOK, CoverInv, Covers, At
  <2>5. (\A q \in Process : ProcOK(proc[q])') /\ (\A j \in Instance : GroupOK(group[j])')
    BY <1>1, <2>1 DEF ProcOK, GroupOK
  <2> QED
    BY <2>3, <2>4, <2>5
<1>3. CASE lease[InstanceOf[p]] \notin {p, None}
  <2>1. Goto(p, "closing") /\ UNCHANGED lease
    BY <1>3 DEF RefreshLease
  <2>2. PICK x : ProcOK(x) /\ Put(p, x) /\ x.pc = "closing"
    BY <2>1, GotoFact
  <2>3. OwnInv'
    BY <1>1, <2>1, <2>2, OwnSame DEF At, Alive
  <2> QED
    BY <1>0, <1>1, <2>1, <2>2, <2>3, ProcStep DEF TypeOK
<1> QED
  BY <1>2, <1>3

\* The sweep of one gateway does not touch the group of another that has its lease.
LEMMA CleanupStaleInv ==
  ASSUME Inv, NEW p \in Process, NEW i \in Instance, CleanupStale(p, i) PROVE Inv'
<1> USE DEF Inv
<1>1. UNCHANGED <<log, trimmed, lease, proc, lapsed, faults>>
  BY DEF CleanupStale
<1>2. \A j \in Instance : group'[j] = group[j] \/ (group'[j] = NoGroup /\ lease[j] = None)
  BY SetGroupFact DEF CleanupStale, DestroyUnlessLeased
<1>3. group' = [j \in Instance |-> group'[j]]
  BY SetGroupFact DEF CleanupStale, DestroyUnlessLeased, TypeOK
<1>4. \A j \in Instance : GroupOK(group'[j])
  BY <1>2, FreshOK
<1>5. (\A q \in Process : ProcOK(proc[q])') /\ (\A j \in Instance : GroupOK(group[j])') /\ OwnInv'
  BY <1>1, <1>4 DEF ProcOK, GroupOK, OwnInv, Alive
<1>6. group' \in [Instance -> GroupState]
  BY <1>3, <1>4 DEF GroupOK
<1>7. TypeOK'
  BY <1>1, <1>6 DEF TypeOK
<1>8. ASSUME NEW q \in Process, proc[q].pc = "running", InstanceOf[q] \notin lapsed
      PROVE  Covers(proc[q], group'[InstanceOf[q]])
  <2>1. lease[InstanceOf[q]] = q
    BY <1>8 DEF OwnInv, Alive
  <2>2. group'[InstanceOf[q]] = group[InstanceOf[q]]
    BY <1>2, <2>1, InstanceType, StreamAssumption
  <2> QED
    BY <1>8, <2>2 DEF CoverInv, At
<1>9. CoverInv'
  BY <1>1, <1>8 DEF CoverInv, Covers, At
<1> QED
  BY <1>5, <1>7, <1>9

LEMMA StopInv == ASSUME Inv, NEW p \in Process, Stop(p) \/ ReceiveNoGroup(p) PROVE Inv'
<1> USE DEF Inv
<1>0. InstanceOf[p] \in Instance /\ GroupOK(group[InstanceOf[p]])
  BY InstanceType
<1>1. Alive(p) /\ Goto(p, "closing") /\ UNCHANGED <<log, trimmed, lease, group, lapsed, faults>>
  BY DEF Stop, ReceiveNoGroup, Receiving, At, Alive
<1>2. PICK x : ProcOK(x) /\ Put(p, x) /\ x.pc = "closing"
  BY <1>1, GotoFact
<1>3. OwnInv'
  BY <1>1, <1>2, OwnSame
<1> QED
  BY <1>0, <1>1, <1>2, <1>3, ProcStep DEF TypeOK

LEMMA CloseInv == ASSUME Inv, NEW p \in Process, Close(p) PROVE Inv'
<1> USE DEF Inv
<1> DEFINE i == InstanceOf[p]
<1>0. i \in Instance /\ GroupOK(group[i]) /\ GroupOK(NoGroup) /\ ProcOK(Ended)
  BY InstanceType, FreshOK
<1>1. Put(p, Ended) /\ UNCHANGED <<log, trimmed, lapsed, faults>>
  BY DEF Close
<1>2. Ended.pc = "stopped"
  BY DEF Ended, Fresh
<1>3. PICK x : x = Ended
  OBVIOUS
<1>4. CASE lease[i] = p
  <2>1. SetGroup(i, NoGroup) /\ lease' = [lease EXCEPT ![i] = None]
    BY <1>4 DEF Close
  <2>2. lease' \in [Instance -> Process \cup {None}] /\ \A j \in Instance \ {i} : lease'[j] = lease[j]
    BY <1>0, <2>1 DEF TypeOK
  <2>3. proc'[p] = x /\ \A q \in Process \ {p} : proc'[q] = proc[q]
    BY <1>1, <1>3, PutFact
  <2>4. ASSUME NEW q \in Process, Alive(q)', InstanceOf[q] \notin lapsed'
        PROVE  lease'[InstanceOf[q]] = q
    <3>1. q # p
      BY <1>2, <1>3, <2>3, <2>4 DEF Alive
    <3>2. lease[InstanceOf[q]] = q
      BY <1>1, <2>3, <2>4, <3>1 DEF OwnInv, Alive
    <3> QED
      BY <1>4, <2>2, <3>1, <3>2, InstanceType
  <2>5. OwnInv'
    BY <2>4 DEF OwnInv
  <2> QED
    BY <1>0, <1>1, <1>2, <1>3, <1>4, <2>1, <2>2, <2>5, ProcStep DEF TypeOK
<1>5. CASE lease[i] # p
  <2>1. UNCHANGED <<group, lease>>
    BY <1>5 DEF Close
  <2>2. OwnInv'
    BY <1>1, <1>2, <1>3, <2>1, OwnSame
  <2> QED
    BY <1>0, <1>1, <1>2, <1>3, <2>1, <2>2, ProcStep DEF TypeOK
<1> QED
  BY <1>4, <1>5

LEMMA CrashInv == ASSUME Inv, NEW p \in Process, Crash(p) PROVE Inv'
<1> USE DEF Inv
<1>0. InstanceOf[p] \in Instance /\ GroupOK(group[InstanceOf[p]]) /\ ProcOK(Ended)
  BY InstanceType, FreshOK
<1>1. Put(p, Ended) /\ UNCHANGED <<log, trimmed, lease, group, lapsed>> /\ faults' \in 0..MaxFaults
  BY FaultType DEF Crash
<1>2. Ended.pc = "stopped"
  BY DEF Ended, Fresh
<1>3. PICK x : x = Ended
  OBVIOUS
<1>4. OwnInv'
  BY <1>1, <1>2, <1>3, OwnSame
<1> QED
  BY <1>0, <1>1, <1>2, <1>3, <1>4, ProcStep DEF TypeOK

\* Only a lapse takes the lease from a live process, and it is recorded.
LEMMA LeaseGoneInv ==
  ASSUME Inv, NEW i \in Instance, LeaseExpires(i) \/ LeaseLapses(i) PROVE Inv'
<1> USE DEF Inv
<1>1. UNCHANGED <<log, trimmed, group, proc>> /\ lease' = [lease EXCEPT ![i] = None]
  BY DEF LeaseExpires, LeaseLapses
<1>2. faults' \in 0..MaxFaults
  BY FaultType DEF LeaseExpires, LeaseLapses, TypeOK
<1>3. lapsed \subseteq lapsed' /\ lapsed' \subseteq Instance
      /\ (i \in lapsed' \/ (lease[i] # None /\ ~Alive(lease[i])))
  BY DEF LeaseExpires, LeaseLapses, TypeOK
<1>4. lease' \in [Instance -> Process \cup {None}] /\ \A j \in Instance \ {i} : lease'[j] = lease[j]
  BY <1>1 DEF TypeOK
<1>5. TypeOK'
  BY <1>1, <1>2, <1>3, <1>4 DEF TypeOK
<1>6. (\A q \in Process : ProcOK(proc[q])') /\ (\A j \in Instance : GroupOK(group[j])')
  BY <1>1 DEF ProcOK, GroupOK
<1>7. CoverInv'
  BY <1>1, <1>3 DEF CoverInv, Covers, At
<1>8. ASSUME NEW q \in Process, Alive(q)', InstanceOf[q] \notin lapsed'
      PROVE  lease'[InstanceOf[q]] = q
  <2>1. Alive(q) /\ lease[InstanceOf[q]] = q
    BY <1>1, <1>3, <1>8 DEF OwnInv, Alive
  <2>2. InstanceOf[q] # i
    BY <1>3, <1>8, <2>1
  <2> QED
    BY <1>4, <2>1, <2>2, InstanceType
<1>9. OwnInv'
  BY <1>8 DEF OwnInv
<1> QED
  BY <1>5, <1>6, <1>7, <1>9

-----------------------------------------------------------------------------
(* The consumer and the publisher *)

\* A consumer step keeps what the process must still see: an entry leaves the group's
\* unread and pending ones only when it needs nothing more.
LEMMA ConsumerStep ==
  ASSUME Inv, NEW p \in Process, At(p, "running"), NEW x, NEW g, ProcOK(x), GroupOK(g), Put(p, x),
         SetGroup(InstanceOf[p], g) \/ (UNCHANGED group /\ g = group[InstanceOf[p]]),
         UNCHANGED <<log, trimmed, lease, lapsed, faults>>,
         x.pc = "running", x.start = proc[p].start, In(proc[p].delivered) \subseteq In(x.delivered),
         group[InstanceOf[p]].exists => g.exists,
         \A k \in 1..Len(log) : k > group[InstanceOf[p]].last \/ k \in group[InstanceOf[p]].pending =>
           log[k] \in In(x.delivered) \cup Malformed \/ k <= trimmed \/ k > g.last \/ k \in g.pending
  PROVE  Inv'
<1> USE DEF Inv
<1>1. OwnInv'
  BY OwnSame DEF At, Alive
<1>2. InstanceOf[p] \notin lapsed => lease[InstanceOf[p]] = p
  BY DEF OwnInv, At, Alive
<1>3. ASSUME InstanceOf[p] \notin lapsed PROVE Covers(x, g)
  <2>1. Covers(proc[p], group[InstanceOf[p]])
    BY <1>3 DEF CoverInv
  <2>2. x.start \in Nat /\ Len(log) \in Nat
    BY DEF ProcOK, ProcState, TypeOK
  <2>3. \A k \in (x.start + 1)..Len(log) : k \in 1..Len(log)
    BY <2>2
  <2> QED
    BY <2>1, <2>3 DEF Covers
<1> QED
  BY <1>1, <1>2, <1>3, ProcStep DEF TypeOK

LEMMA TakeFact ==
  ASSUME Inv, NEW p \in Process, At(p, "running"), NEW entries \in Seq(Nat), entries # <<>>,
         In(entries) \subseteq 1..Len(log), Take(p, entries)
  PROVE  \E x : /\ ProcOK(x) /\ Put(p, x) /\ x.pc = "running"
                /\ x.start = proc[p].start /\ x.delivered = proc[p].delivered
<1> DEFINE y == [proc[p] EXCEPT !.con = "process", !.current = Head(entries), !.buffer = Tail(entries)]
<1>1. PICK x : x = y
  OBVIOUS
<1>2. Put(p, x)
  BY <1>1 DEF Take
<1>3. ProcOK(proc[p]) /\ proc[p] \in ProcState
  BY DEF Inv, ProcOK
<1>4. Tail(entries) \in Seq(Nat) /\ Head(entries) \in Nat
      /\ In(Tail(entries)) \subseteq 1..Len(log) /\ Head(entries) \in 1..Len(log)
  BY InTail
<1>5. y \in ProcState /\ y.pc = proc[p].pc /\ y.con = "process" /\ y.buffer = Tail(entries)
      /\ y.current = Head(entries) /\ y.memory = proc[p].memory
      /\ y.delivered = proc[p].delivered /\ y.start = proc[p].start
  BY <1>3, <1>4 DEF ProcState
<1> HIDE DEF y
<1>6. ProcOK(x) /\ x.pc = "running" /\ x.start = proc[p].start /\ x.delivered = proc[p].delivered
  BY <1>1, <1>3, <1>4, <1>5 DEF ProcOK, At
<1> QED
  BY <1>2, <1>6

LEMMA ReceiveBufferedInv == ASSUME Inv, NEW p \in Process, ReceiveBuffered(p) PROVE Inv'
<1> USE DEF Inv
<1>1. At(p, "running") /\ proc[p].buffer # <<>> /\ Take(p, proc[p].buffer)
      /\ UNCHANGED <<log, trimmed, lease, group, lapsed, faults>>
  BY DEF ReceiveBuffered, Receiving
<1>2. ProcOK(proc[p]) /\ InstanceOf[p] \in Instance /\ GroupOK(group[InstanceOf[p]])
  BY InstanceType
<1>3. proc[p].buffer \in Seq(Nat) /\ In(proc[p].buffer) \subseteq 1..Len(log)
  BY <1>2 DEF ProcOK, ProcState
<1>4. PICK entries : entries = proc[p].buffer
  OBVIOUS
<1>5. PICK x : /\ ProcOK(x) /\ Put(p, x) /\ x.pc = "running"
               /\ x.start = proc[p].start /\ x.delivered = proc[p].delivered
  BY <1>1, <1>3, <1>4, TakeFact
<1> QED
  BY <1>1, <1>2, <1>5, ConsumerStep

\* What XAUTOCLAIM forgets is trimmed.
LEMMA ReceivePendingInv == ASSUME Inv, NEW p \in Process, ReceivePending(p) PROVE Inv'
<1> USE DEF Inv
<1> DEFINE g0 == group[InstanceOf[p]]
<1>1. At(p, "running") /\ UNCHANGED <<log, trimmed, lease, lapsed, faults>>
  BY DEF ReceivePending, Receiving
<1>2. ProcOK(proc[p]) /\ InstanceOf[p] \in Instance /\ GroupOK(g0) /\ Len(log) \in Nat /\ trimmed \in Nat
  BY InstanceType DEF TypeOK
<1>3. PICK S \in SUBSET {k \in g0.pending : k <= trimmed} :
        SetGroup(InstanceOf[p], [g0 EXCEPT !.pending = @ \ S])
  BY DEF ReceivePending
<1>4. PICK n \in 0..Count : \E s \in [1..n -> {k \in g0.pending : k > trimmed}] :
        IF n = 0 THEN UNCHANGED proc ELSE Take(p, s)
  BY DEF ReceivePending
<1>5. PICK s \in [1..n -> {k \in g0.pending : k > trimmed}] :
        IF n = 0 THEN UNCHANGED proc ELSE Take(p, s)
  BY <1>4
<1> DEFINE h == [g0 EXCEPT !.pending = g0.pending \ S]
<1>6. PICK g : g = h
  OBVIOUS
<1>7. SetGroup(InstanceOf[p], g)
  BY <1>3, <1>6
<1>8. h \in GroupState /\ h.exists = g0.exists /\ h.last = g0.last /\ h.pending = g0.pending \ S
  BY <1>2 DEF GroupOK, GroupState
<1> HIDE DEF h
<1>9. GroupOK(g) /\ g.exists = g0.exists /\ g.last = g0.last /\ g.pending = g0.pending \ S
  BY <1>2, <1>6, <1>8 DEF GroupOK
<1>10. PICK x : /\ ProcOK(x) /\ Put(p, x) /\ x.pc = "running"
                /\ x.start = proc[p].start /\ x.delivered = proc[p].delivered
  <2>1. CASE n = 0
    <3>1. proc' = proc /\ proc \in [Process -> ProcState]
      BY <1>5, <2>1 DEF TypeOK
    <3>2. PICK x : x = proc[p]
      OBVIOUS
    <3>3. Put(p, x)
      BY <3>1, <3>2 DEF Put
    <3> QED
      BY <1>1, <1>2, <3>2, <3>3 DEF At
  <2>2. CASE n # 0
    <3>1. n \in Nat \ {0} /\ Take(p, s)
      BY <1>5, <2>2, StreamAssumption
    <3>2. s \in Seq(Nat) /\ s # <<>> /\ Len(s) = n
      BY <1>2, <1>5, <3>1 DEF GroupOK, GroupState
    <3>3. In(s) \subseteq 1..Len(log)
      BY <1>2, <1>5, <3>2 DEF In, GroupOK
    <3> QED
      BY <1>1, <3>1, <3>2, <3>3, TakeFact
  <2> QED
    BY <2>1, <2>2
<1>11. \A k \in 1..Len(log) : k > g0.last \/ k \in g0.pending =>
         k <= trimmed \/ k > g.last \/ k \in g.pending
  BY <1>9
<1> QED
  BY <1>1, <1>2, <1>7, <1>9, <1>10, <1>11, ConsumerStep

\* What is handed out is pending from then on; what is passed over is trimmed.
LEMMA ReceiveNewInv == ASSUME Inv, NEW p \in Process, ReceiveNew(p) PROVE Inv'
<1> USE DEF Inv
<1> DEFINE g0 == group[InstanceOf[p]]
           first0 == 1 + IF g0.last > trimmed THEN g0.last ELSE trimmed
           to0 == IF first0 + Count - 1 < Len(log) THEN first0 + Count - 1 ELSE Len(log)
<1>1. At(p, "running") /\ UNCHANGED <<log, trimmed, lease, lapsed, faults>>
  BY DEF ReceiveNew, Receiving
<1>2. ProcOK(proc[p]) /\ InstanceOf[p] \in Instance /\ GroupOK(g0) /\ Len(log) \in Nat /\ trimmed \in Nat
      /\ Count \in Nat \ {0}
  BY InstanceType, StreamAssumption DEF TypeOK
<1>3. PICK first, to : first = first0 /\ to = to0
  OBVIOUS
<1>4. /\ first <= Len(log)
      /\ SetGroup(InstanceOf[p], [g0 EXCEPT !.last = to, !.pending = @ \cup (first..to)])
      /\ Take(p, [k \in 1..(to - first + 1) |-> first + k - 1])
  BY <1>3 DEF ReceiveNew
<1>5. /\ g0.last \in Nat /\ first \in Nat /\ to \in Nat /\ 1 <= first /\ first <= to /\ to <= Len(log)
      /\ \A k \in 1..Len(log) : k > g0.last => k <= trimmed \/ k >= first
  <2>1. g0.last \in Nat
    BY <1>2 DEF GroupOK, GroupState
  <2>2. PICK l, m : l = g0.last /\ m = Len(log)
    OBVIOUS
  <2>3. l \in Nat /\ m \in Nat /\ trimmed \in Nat /\ Count \in Nat /\ Count # 0 /\ first <= m
    BY <1>2, <1>4, <2>1, <2>2
  <2>4. first = 1 + (IF l > trimmed THEN l ELSE trimmed)
    BY <1>3, <2>2
  <2>5. to = IF first + Count - 1 < m THEN first + Count - 1 ELSE m
    BY <1>3, <2>2
  <2>6. first \in Nat /\ 1 <= first /\ \A k \in Nat : k > l => k <= trimmed \/ k >= first
    BY <2>3, <2>4
  <2>7. to \in Nat /\ first <= to /\ to <= m
    BY <2>3, <2>5, <2>6
  <2> QED
    BY <2>1, <2>2, <2>3, <2>6, <2>7
<1> HIDE DEF first0, to0
<1> DEFINE h == [g0 EXCEPT !.last = to, !.pending = g0.pending \cup (first..to)]
           s0 == [k \in 1..(to - first + 1) |-> first + k - 1]
<1>6. PICK g, s : g = h /\ s = s0
  OBVIOUS
<1>7. SetGroup(InstanceOf[p], g) /\ Take(p, s)
  BY <1>4, <1>6
<1>8. h \in GroupState /\ h.exists = g0.exists /\ h.last = to /\ h.pending = g0.pending \cup (first..to)
  <2>1. g0 \in GroupState
    BY <1>2 DEF GroupOK
  <2>2. PICK P : P = g0.pending \cup (first..to)
    OBVIOUS
  <2>3. P \in SUBSET Nat
    BY <1>5, <2>1, <2>2 DEF GroupState
  <2>4. h = [g0 EXCEPT !.last = to, !.pending = P]
    BY <2>2
  <2> QED
    BY <1>5, <2>1, <2>2, <2>3, <2>4 DEF GroupState
<1>9. s0 \in Seq(Nat) /\ s0 # <<>> /\ Len(s0) = to - first + 1
      /\ \A k \in 1..(to - first + 1) : s0[k] = first + k - 1
  BY <1>5
<1> HIDE DEF h, s0
<1>10. GroupOK(g) /\ g.exists = g0.exists /\ g.last = to /\ g.pending = g0.pending \cup (first..to)
  BY <1>2, <1>5, <1>6, <1>8 DEF GroupOK
<1>11. s \in Seq(Nat) /\ s # <<>> /\ In(s) \subseteq 1..Len(log)
  BY <1>2, <1>5, <1>6, <1>9 DEF In
<1>12. PICK x : /\ ProcOK(x) /\ Put(p, x) /\ x.pc = "running"
                /\ x.start = proc[p].start /\ x.delivered = proc[p].delivered
  BY <1>1, <1>7, <1>11, TakeFact
<1>13. \A k \in 1..Len(log) : k > g0.last \/ k \in g0.pending =>
         k <= trimmed \/ k > g.last \/ k \in g.pending
  BY <1>2, <1>5, <1>10
<1> QED
  BY <1>1, <1>2, <1>7, <1>10, <1>12, <1>13, ConsumerStep

\* What is not delivered is in the memory, thus was delivered, or is malformed.
LEMMA DeliverInv == ASSUME Inv, NEW p \in Process, Deliver(p) PROVE Inv'
<1> USE DEF Inv
<1> DEFINE z == proc[p]
<1>1. At(p, "running") /\ z.con = "process" /\ UNCHANGED <<log, trimmed, lease, group, lapsed, faults>>
  BY DEF Deliver
<1>2. ProcOK(z) /\ z \in ProcState /\ InstanceOf[p] \in Instance /\ GroupOK(group[InstanceOf[p]])
  BY InstanceType DEF ProcOK
<1>3. PICK e : e = log[z.current]
  OBVIOUS
<1>4. e \in Event
  BY <1>1, <1>2, <1>3 DEF TypeOK, ProcOK
<1>5. \E x : ProcOK(x) /\ Put(p, x) /\ x.pc = "running" /\ x.start = z.start
             /\ In(z.delivered) \subseteq In(x.delivered)
  <2>1. CASE e \in Malformed \cup In(z.memory)
    <3> DEFINE y == [z EXCEPT !.con = "ack"]
    <3>1. PICK x : x = y
      OBVIOUS
    <3>2. Put(p, x)
      BY <1>3, <2>1, <3>1 DEF Deliver
    <3>3. y \in ProcState /\ y.pc = z.pc /\ y.con = "ack" /\ y.buffer = z.buffer
          /\ y.current = z.current /\ y.memory = z.memory /\ y.delivered = z.delivered /\ y.start = z.start
      BY <1>2 DEF ProcState
    <3> HIDE DEF y
    <3>4. ProcOK(x) /\ x.pc = "running" /\ x.start = z.start /\ x.delivered = z.delivered
      BY <1>1, <1>2, <1>3, <2>1, <3>1, <3>3 DEF ProcOK, At
    <3> QED
      BY <3>2, <3>4
  <2>2. CASE e \notin Malformed \cup In(z.memory)
    <3> DEFINE y == [z EXCEPT !.con = "ack", !.delivered = Append(@, e), !.memory = Remembered(@, e)]
    <3>1. PICK x : x = y
      OBVIOUS
    <3>2. Put(p, x)
      BY <1>3, <2>2, <3>1 DEF Deliver
    <3>3. z.memory \in Seq(Event) /\ z.delivered \in Seq(Event) /\ Len(z.memory) <= MaxRemembered
      BY <1>2 DEF ProcOK, ProcState
    <3>4. PICK d, m : d = Append(z.delivered, e) /\ m = Remembered(z.memory, e)
      OBVIOUS
    <3>5. d \in Seq(Event) /\ In(d) = In(z.delivered) \cup {e}
      BY <1>4, <3>3, <3>4, InAppend
    <3>6. m \in Seq(Event) /\ Len(m) <= MaxRemembered /\ In(m) \subseteq In(z.memory) \cup {e}
      BY <1>4, <3>3, <3>4, RememberedFact
    <3>7. y \in ProcState /\ y.pc = z.pc /\ y.con = "ack" /\ y.buffer = z.buffer
          /\ y.current = z.current /\ y.memory = m /\ y.delivered = d /\ y.start = z.start
      BY <1>2, <3>4, <3>5, <3>6 DEF ProcState
    <3> HIDE DEF y
    <3>8. ProcOK(x) /\ x.pc = "running" /\ x.start = z.start /\ x.delivered = d
      BY <1>1, <1>2, <1>3, <3>1, <3>5, <3>6, <3>7 DEF ProcOK, At
    <3> QED
      BY <3>2, <3>5, <3>8
  <2> QED
    BY <2>1, <2>2
<1>6. PICK x : ProcOK(x) /\ Put(p, x) /\ x.pc = "running" /\ x.start = z.start
               /\ In(z.delivered) \subseteq In(x.delivered)
  BY <1>5
<1> QED
  BY <1>1, <1>2, <1>6, ConsumerStep

\* What is acknowledged needs no delivery any more.
LEMMA AckInv == ASSUME Inv, NEW p \in Process, Ack(p) PROVE Inv'
<1> USE DEF Inv
<1> DEFINE z == proc[p]
           g0 == group[InstanceOf[p]]
           y == [z EXCEPT !.con = "receive"]
           h == [g0 EXCEPT !.pending = @ \ {z.current}]
<1>1. At(p, "running") /\ z.con = "ack" /\ UNCHANGED <<log, trimmed, lease, lapsed, faults>>
  BY DEF Ack
<1>2. ProcOK(z) /\ z \in ProcState /\ InstanceOf[p] \in Instance /\ GroupOK(g0)
  BY InstanceType DEF ProcOK
<1>3. PICK x, g : x = y /\ g = h
  OBVIOUS
<1>4. Put(p, x) /\ SetGroup(InstanceOf[p], g)
  BY <1>3 DEF Ack
<1>5. y \in ProcState /\ y.pc = z.pc /\ y.con = "receive" /\ y.buffer = z.buffer
      /\ y.current = z.current /\ y.memory = z.memory /\ y.delivered = z.delivered /\ y.start = z.start
  BY <1>2 DEF ProcState
<1>6. h \in GroupState /\ h.exists = g0.exists /\ h.last = g0.last /\ h.pending = g0.pending \ {z.current}
  BY <1>2 DEF GroupOK, GroupState
<1> HIDE DEF y, h
<1>7. ProcOK(x) /\ x.pc = "running" /\ x.start = z.start /\ x.delivered = z.delivered
  BY <1>1, <1>2, <1>3, <1>5 DEF ProcOK, At
<1>8. GroupOK(g) /\ g.exists = g0.exists /\ g.last = g0.last /\ g.pending = g0.pending \ {z.current}
  BY <1>2, <1>3, <1>6 DEF GroupOK
<1>9. log[z.current] \in In(z.delivered) \cup Malformed
  BY <1>1, <1>2 DEF ProcOK
<1>10. \A k \in 1..Len(log) : k > g0.last \/ k \in g0.pending =>
         log[k] \in In(x.delivered) \cup Malformed \/ k <= trimmed \/ k > g.last \/ k \in g.pending
  BY <1>7, <1>8, <1>9
<1> QED
  BY <1>1, <1>2, <1>4, <1>7, <1>8, <1>10, ConsumerStep

\* A new entry is beyond what any group has handed out.
LEMMA PublishInv == ASSUME Inv, NEW e \in Event, Publish(e) PROVE Inv'
<1> USE DEF Inv
<1>1. log' = Append(log, e) /\ UNCHANGED <<lease, group, proc, lapsed>> /\ trimmed' \in trimmed..Len(log)
  BY DEF Publish
<1>2. faults' \in 0..MaxFaults
  BY FaultType DEF Publish, TypeOK
<1>3. log' \in Seq(Event) /\ Len(log) \in Nat /\ Len(log') = Len(log) + 1 /\ trimmed \in Nat
      /\ \A k \in 1..Len(log) : log'[k] = log[k]
  BY <1>1 DEF TypeOK
<1>4. trimmed' \in 0..Len(log') /\ trimmed <= trimmed' /\ trimmed' \in Nat
  BY <1>1, <1>3
<1>5. TypeOK'
  BY <1>1, <1>2, <1>3, <1>4 DEF TypeOK
<1>6. ASSUME NEW q \in Process PROVE ProcOK(proc[q])'
  <2>1. ProcOK(proc[q]) /\ proc[q].start \in Nat
    BY DEF ProcOK, ProcState
  <2>2. 1..Len(log) \subseteq 1..Len(log') /\ (proc[q].start <= Len(log) => proc[q].start <= Len(log'))
    BY <1>3, <2>1
  <2>3. proc[q].con = "ack" => log'[proc[q].current] = log[proc[q].current]
    BY <1>3, <2>1 DEF ProcOK
  <2> QED
    BY <1>1, <2>1, <2>2, <2>3 DEF ProcOK
<1>7. ASSUME NEW j \in Instance PROVE GroupOK(group[j])'
  <2>1. GroupOK(group[j]) /\ group[j].last \in Nat
    BY DEF GroupOK, GroupState
  <2>2. 1..Len(log) \subseteq 1..Len(log') /\ (group[j].last <= Len(log) => group[j].last <= Len(log'))
    BY <1>3, <2>1
  <2> QED
    BY <1>1, <2>1, <2>2 DEF GroupOK
<1>8. OwnInv'
  BY <1>1 DEF OwnInv, Alive
<1>9. ASSUME NEW q \in Process, At(q, "running"), InstanceOf[q] \notin lapsed
      PROVE  Covers(proc[q], group[InstanceOf[q]])'
  <2> DEFINE x == proc[q]
             g == group[InstanceOf[q]]
  <2>1. Covers(x, g) /\ GroupOK(g) /\ x.start \in Nat /\ g.last \in Nat
    BY <1>9, InstanceType DEF CoverInv, ProcOK, ProcState, GroupOK, GroupState
  <2>2. ASSUME NEW k \in (x.start + 1)..Len(log')
        PROVE  log'[k] \in In(x.delivered) \cup Malformed \/ k <= trimmed' \/ k > g.last \/ k \in g.pending
    <3>1. CASE k = Len(log) + 1
      BY <1>3, <2>1, <3>1 DEF GroupOK
    <3>2. CASE k # Len(log) + 1
      <4>1. k \in (x.start + 1)..Len(log) /\ k \in 1..Len(log)
        BY <1>3, <2>1, <3>2
      <4> QED
        BY <1>3, <1>4, <2>1, <4>1 DEF Covers
    <3> QED
      BY <3>1, <3>2
  <2> QED
    BY <1>1, <2>1, <2>2 DEF Covers
<1>10. CoverInv'
  BY <1>1, <1>9 DEF CoverInv, At
<1> QED
  BY <1>5, <1>6, <1>7, <1>8, <1>10

-----------------------------------------------------------------------------
(* The specification *)

LEMMA InitInv == Init => Inv
<1> SUFFICES ASSUME Init PROVE Inv
  OBVIOUS
<1>1. <<>> \in Seq(Nat) /\ <<>> \in Seq(Event) /\ Len(<<>>) = 0 /\ {MaxFaults, MaxRemembered} \subseteq Nat
  BY StreamAssumption
<1>2. Fresh \in ProcState /\ NoGroup \in GroupState /\ Fresh.memory = <<>> /\ Fresh.pc = "new"
  BY <1>1 DEF Fresh, NoGroup, ProcState, GroupState
<1>3. (\A q \in Process : proc[q] = Fresh) /\ (\A i \in Instance : group[i] = NoGroup)
  BY DEF Init
<1>4. proc \in [Process -> ProcState] /\ group \in [Instance -> GroupState]
      /\ lease \in [Instance -> Process \cup {None}]
  BY <1>2 DEF Init
<1>5. TypeOK
  BY <1>1, <1>2, <1>3, <1>4 DEF Init, TypeOK
<1>6. (\A q \in Process : ProcOK(proc[q])) /\ (\A i \in Instance : GroupOK(group[i]))
  BY <1>3, <1>5, FreshOK
<1>7. OwnInv /\ CoverInv
  BY <1>2, <1>3 DEF OwnInv, CoverInv, Alive, At
<1> QED
  BY <1>5, <1>6, <1>7 DEF Inv

LEMMA NextInv == Inv /\ [Next]_vars => Inv'
<1> SUFFICES ASSUME Inv, [Next]_vars PROVE Inv'
  OBVIOUS
<1>1. CASE UNCHANGED vars
  BY <1>1 DEF vars, Inv, TypeOK, ProcOK, GroupOK, OwnInv, CoverInv, Covers, Alive, At
<1>2. ASSUME NEW e \in Event, Publish(e) PROVE Inv'
  BY <1>2, PublishInv
<1>3. ASSUME NEW i \in Instance, LeaseExpires(i) \/ LeaseLapses(i) PROVE Inv'
  BY <1>3, LeaseGoneInv
<1>4. ASSUME NEW p \in Process, Gateway(p) PROVE Inv'
  <2>1. CASE Startup(p)
    BY <2>1, AcquireLeaseInv, ResetGroupInv, EnsureGroupInv DEF Startup
  <2>2. CASE Lifecycle(p)
    BY <2>2, RefreshLeaseInv, CleanupStaleInv DEF Lifecycle
  <2>3. CASE Consume(p)
    BY <2>3, ReceiveBufferedInv, ReceivePendingInv, ReceiveNewInv, StopInv, DeliverInv, AckInv DEF Consume
  <2>4. CASE Stop(p) \/ Close(p) \/ Crash(p)
    BY <2>4, StopInv, CloseInv, CrashInv
  <2> QED
    BY <1>4, <2>1, <2>2, <2>3, <2>4 DEF Gateway
<1> QED
  BY <1>1, <1>2, <1>3, <1>4 DEF Next

\* The inductive invariant: whoever is alive owns its group unless its lease ran out,
\* and the owner's group, log and deliveries account for every entry.
THEOREM InvHolds == Spec => []Inv
BY InitInv, NextInv, PTL DEF Spec

\* The types hold; what a gateway remembers stays bounded.
THEOREM TypeCorrect == Spec => []TypeOK
<1>1. Inv => TypeOK
  BY DEF Inv
<1> QED
  BY <1>1, InvHolds, PTL

\* However many gateways start, sweep, crash and stop, a gateway that has kept its lease
\* misses no entry: acknowledgement after delivery, the fenced reset and close, and the
\* sweep's look at the lease suffice, whatever MAXLEN, batch size and memory are.
THEOREM NoGapOpens == Spec => []NoGap
<1>1. Inv => NoGap
  <2> SUFFICES ASSUME Inv, NEW p \in Process, At(p, "running"), InstanceOf[p] \notin lapsed
               PROVE  /\ group[InstanceOf[p]].exists
                      /\ \A k \in (proc[p].start + 1)..Len(log) :
                           \/ Settled(p, k)
                           \/ k > group[InstanceOf[p]].last
                           \/ k \in group[InstanceOf[p]].pending
    BY DEF NoGap
  <2>1. Covers(proc[p], group[InstanceOf[p]])
    BY DEF Inv, CoverInv
  <2>2. proc[p].start \in Nat /\ Len(log) \in Nat
    BY DEF Inv, TypeOK, ProcState
  <2>3. \A k \in (proc[p].start + 1)..Len(log) : k \in 1..Len(log)
    BY <2>2
  <2> QED
    BY <2>1, <2>3 DEF Covers, Settled
<1> QED
  BY <1>1, InvHolds, PTL

-----------------------------------------------------------------------------
(* Repeated deliveries *)

\* The memory is the end of the list of deliveries, as long as it may be.
MemoryOK(x) ==
  LET m == Len(x.memory)
      d == Len(x.delivered)
  IN
  /\ m <= d
  /\ m = d \/ m = MaxRemembered
  /\ \A a \in 1..m : x.memory[a] = x.delivered[d - m + a]

OnceOK(x) ==
  \A j, k \in 1..Len(x.delivered) :
    j < k /\ x.delivered[j] = x.delivered[k] => k - j > MaxRemembered

OnceInv == \A p \in Process : MemoryOK(proc[p]) /\ OnceOK(proc[p])

\* A delivery of an event that is not remembered.
LEMMA DeliveredFact ==
  ASSUME NEW m \in Seq(Event), NEW d \in Seq(Event), NEW e \in Event, NEW x,
         Len(m) <= MaxRemembered, Len(m) <= Len(d), Len(m) = Len(d) \/ Len(m) = MaxRemembered,
         \A a \in 1..Len(m) : m[a] = d[Len(d) - Len(m) + a],
         \A j, k \in 1..Len(d) : j < k /\ d[j] = d[k] => k - j > MaxRemembered,
         e \notin In(m), x.memory = Remembered(m, e), x.delivered = Append(d, e)
  PROVE  MemoryOK(x) /\ OnceOK(x)
<1>0. MaxRemembered \in Nat /\ MaxRemembered # 0
  BY StreamAssumption
<1>1. PICK t, f : t = Append(m, e) /\ f = Append(d, e)
  OBVIOUS
<1>2. /\ t \in Seq(Event) /\ Len(t) = Len(m) + 1 /\ t[Len(m) + 1] = e
      /\ \A a \in 1..Len(m) : t[a] = m[a]
  BY <1>1
<1>3. /\ f \in Seq(Event) /\ Len(f) = Len(d) + 1 /\ f[Len(d) + 1] = e
      /\ \A a \in 1..Len(d) : f[a] = d[a]
  BY <1>1
<1>4. Len(m) \in Nat /\ Len(d) \in Nat
  OBVIOUS
<1>5. \A a \in 1..Len(t) : t[a] = f[Len(f) - Len(t) + a]
  <2> TAKE a \in 1..Len(t)
  <2>1. CASE a = Len(m) + 1
    BY <1>2, <1>3, <1>4, <2>1
  <2>2. CASE a \in 1..Len(m)
    <3>1. Len(d) - Len(m) + a \in 1..Len(d) /\ Len(f) - Len(t) + a = Len(d) - Len(m) + a
      BY <1>2, <1>3, <1>4, <2>2
    <3> QED
      BY <1>2, <1>3, <2>2, <3>1
  <2> QED
    BY <1>2, <1>4, <2>1, <2>2
<1>6. MemoryOK(x)
  <2>1. CASE Len(t) > MaxRemembered
    <3>1. x.memory = Tail(t) /\ x.delivered = f
      BY <1>1, <2>1 DEF Remembered
    <3>2. PICK u : u = Tail(t)
      OBVIOUS
    <3>3. Len(u) = Len(t) - 1 /\ \A a \in 1..Len(u) : u[a] = t[a + 1] /\ a + 1 \in 1..Len(t)
      BY <1>2, <1>4, <3>2
    <3>4. Len(u) = MaxRemembered
      BY <1>0, <1>2, <1>4, <2>1, <3>3
    <3>5. \A a \in 1..Len(u) : u[a] = f[Len(f) - Len(u) + a]
      <4> TAKE a \in 1..Len(u)
      <4>1. u[a] = t[a + 1] /\ t[a + 1] = f[Len(f) - Len(t) + (a + 1)]
        BY <1>5, <3>3
      <4>2. Len(f) - Len(t) + (a + 1) = Len(f) - Len(u) + a
        BY <1>2, <1>3, <1>4, <3>3
      <4> QED
        BY <4>1, <4>2
    <3>6. Len(u) <= Len(f)
      BY <1>2, <1>3, <1>4, <3>3
    <3> QED
      BY <3>1, <3>2, <3>4, <3>5, <3>6 DEF MemoryOK
  <2>2. CASE ~(Len(t) > MaxRemembered)
    <3>1. x.memory = t /\ x.delivered = f
      BY <1>1, <2>2 DEF Remembered
    <3>2. Len(t) <= Len(f) /\ Len(t) = Len(f)
      BY <1>0, <1>2, <1>3, <1>4, <2>2
    <3> QED
      BY <1>5, <3>1, <3>2 DEF MemoryOK
  <2> QED
    BY <2>1, <2>2
<1>7. ASSUME NEW j \in 1..Len(d), d[j] = e PROVE Len(d) + 1 - j > MaxRemembered
  <2>1. CASE j > Len(d) - Len(m)
    <3>1. j - (Len(d) - Len(m)) \in 1..Len(m)
          /\ Len(d) - Len(m) + (j - (Len(d) - Len(m))) = j
      BY <1>4, <2>1
    <3>2. m[j - (Len(d) - Len(m))] = e
      BY <1>7, <3>1
    <3> QED
      BY <3>1, <3>2 DEF In
  <2>2. CASE j <= Len(d) - Len(m)
    BY <1>0, <1>4, <2>2
  <2> QED
    BY <1>4, <2>1, <2>2
<1>8. \A j, k \in 1..Len(f) : j < k /\ f[j] = f[k] => k - j > MaxRemembered
  <2> SUFFICES ASSUME NEW j \in 1..Len(f), NEW k \in 1..Len(f), j < k, f[j] = f[k]
               PROVE  k - j > MaxRemembered
    OBVIOUS
  <2>1. j \in 1..Len(d) /\ f[j] = d[j]
    BY <1>3, <1>4
  <2>2. CASE k = Len(d) + 1
    <3>1. d[j] = e
      BY <1>3, <2>1, <2>2
    <3> QED
      BY <1>7, <2>1, <2>2, <3>1
  <2>3. CASE k \in 1..Len(d)
    BY <1>3, <2>1, <2>3
  <2> QED
    BY <1>3, <1>4, <2>2, <2>3
<1> QED
  BY <1>1, <1>6, <1>8 DEF OnceOK

LEMMA NothingOnce ==
  ASSUME NEW x, x.memory = <<>>, x.delivered = <<>>
  PROVE  MemoryOK(x) /\ OnceOK(x)
<1>1. Len(x.memory) = 0 /\ Len(x.delivered) = 0
  OBVIOUS
<1> QED
  BY <1>1 DEF MemoryOK, OnceOK

\* Only a delivery changes what a process has delivered and remembers.
LEMMA OnceNext == Inv /\ OnceInv /\ [Next]_vars => OnceInv'
<1> SUFFICES ASSUME Inv, OnceInv, [Next]_vars, NEW q \in Process
             PROVE  MemoryOK(proc'[q]) /\ OnceOK(proc'[q])
  BY DEF OnceInv, MemoryOK, OnceOK
<1>0. proc \in [Process -> ProcState]
  BY DEF Inv, TypeOK
<1>1. ASSUME NEW x, x.memory = proc[q].memory, x.delivered = proc[q].delivered
      PROVE  MemoryOK(x) /\ OnceOK(x)
  BY <1>1 DEF OnceInv, MemoryOK, OnceOK
<1>2. CASE proc' = proc
  BY <1>1, <1>2
<1>3. ASSUME NEW p \in Process, Close(p) \/ Crash(p)
      PROVE  MemoryOK(proc'[q]) /\ OnceOK(proc'[q])
  <2>1. proc'[q] = proc[q] \/ proc'[q] = Ended
    BY <1>0, <1>3 DEF Close, Crash, Put
  <2>2. Ended.memory = <<>> /\ Ended.delivered = <<>>
    BY DEF Ended, Fresh
  <2>3. MemoryOK(Ended) /\ OnceOK(Ended)
    BY <2>2, NothingOnce
  <2> QED
    BY <1>1, <2>1, <2>3
<1>4. ASSUME NEW p \in Process, Deliver(p)
      PROVE  MemoryOK(proc'[q]) /\ OnceOK(proc'[q])
  <2> DEFINE z == proc[p]
  <2>1. PICK e : e = log[z.current]
    OBVIOUS
  <2>2. ProcOK(z) /\ z \in ProcState /\ z.con = "process"
    BY <1>4 DEF Inv, ProcOK, Deliver
  <2>3. e \in Event
    BY <2>1, <2>2 DEF Inv, TypeOK, ProcOK
  <2>4. CASE q # p \/ e \in Malformed \cup In(z.memory)
    <3>1. proc'[q].memory = proc[q].memory /\ proc'[q].delivered = proc[q].delivered
      BY <1>0, <1>4, <2>1, <2>2, <2>4 DEF Deliver, Put, ProcState
    <3> QED
      BY <1>1, <3>1
  <2>5. CASE q = p /\ e \notin Malformed \cup In(z.memory)
    <3>1. proc'[p] = [z EXCEPT !.con = "ack", !.delivered = Append(@, e), !.memory = Remembered(@, e)]
      BY <1>0, <1>4, <2>1, <2>5 DEF Deliver, Put
    <3>2. PICK x : x = proc'[p]
      OBVIOUS
    <3>3. x.memory = Remembered(z.memory, e) /\ x.delivered = Append(z.delivered, e)
      BY <2>2, <3>1, <3>2 DEF ProcState
    <3>4. z.memory \in Seq(Event) /\ z.delivered \in Seq(Event) /\ Len(z.memory) <= MaxRemembered
      BY <2>2 DEF ProcOK, ProcState
    <3>5. PICK m, d : m = z.memory /\ d = z.delivered
      OBVIOUS
    <3>6. MemoryOK(z) /\ OnceOK(z)
      BY DEF OnceInv
    <3>7. /\ Len(m) <= Len(d) /\ (Len(m) = Len(d) \/ Len(m) = MaxRemembered)
          /\ \A a \in 1..Len(m) : m[a] = d[Len(d) - Len(m) + a]
          /\ \A j, k \in 1..Len(d) : j < k /\ d[j] = d[k] => k - j > MaxRemembered
      BY <3>5, <3>6 DEF MemoryOK, OnceOK
    <3>8. e \notin In(m)
      BY <2>5, <3>5
    <3>9. MemoryOK(x) /\ OnceOK(x)
      BY <2>3, <3>3, <3>4, <3>5, <3>7, <3>8, DeliveredFact
    <3> QED
      BY <2>5, <3>2, <3>9
  <2> QED
    BY <2>4, <2>5
<1>5. ASSUME NEW p \in Process, NEW x, Put(p, x), x.memory = proc[p].memory, x.delivered = proc[p].delivered
      PROVE  MemoryOK(proc'[q]) /\ OnceOK(proc'[q])
  <2>1. proc'[q].memory = proc[q].memory /\ proc'[q].delivered = proc[q].delivered
    BY <1>0, <1>5 DEF Put
  <2> QED
    BY <1>1, <2>1
<1>6. ASSUME NEW p \in Process, NEW label, Goto(p, label)
      PROVE  MemoryOK(proc'[q]) /\ OnceOK(proc'[q])
  <2>1. PICK x : x = [proc[p] EXCEPT !.pc = label]
    OBVIOUS
  <2>2. Put(p, x) /\ x.memory = proc[p].memory /\ x.delivered = proc[p].delivered
    BY <1>0, <1>6, <2>1 DEF Goto, ProcState
  <2> QED
    BY <1>5, <2>2
<1>7. ASSUME NEW p \in Process, NEW s, Take(p, s)
      PROVE  MemoryOK(proc'[q]) /\ OnceOK(proc'[q])
  <2>1. PICK x : x = [proc[p] EXCEPT !.con = "process", !.current = Head(s), !.buffer = Tail(s)]
    OBVIOUS
  <2>2. Put(p, x) /\ x.memory = proc[p].memory /\ x.delivered = proc[p].delivered
    BY <1>0, <1>7, <2>1 DEF Take, ProcState
  <2> QED
    BY <1>5, <2>2
<1>8. ASSUME NEW p \in Process, EnsureGroup(p)
      PROVE  MemoryOK(proc'[q]) /\ OnceOK(proc'[q])
  <2>1. PICK x : x = [proc[p] EXCEPT !.pc = "running", !.start = Len(log)]
    OBVIOUS
  <2>2. Put(p, x) /\ x.memory = proc[p].memory /\ x.delivered = proc[p].delivered
    BY <1>0, <1>8, <2>1 DEF EnsureGroup, ProcState
  <2> QED
    BY <1>5, <2>2
<1>9. ASSUME NEW p \in Process, Ack(p)
      PROVE  MemoryOK(proc'[q]) /\ OnceOK(proc'[q])
  <2>1. PICK x : x = [proc[p] EXCEPT !.con = "receive"]
    OBVIOUS
  <2>2. Put(p, x) /\ x.memory = proc[p].memory /\ x.delivered = proc[p].delivered
    BY <1>0, <1>9, <2>1 DEF Ack, ProcState
  <2> QED
    BY <1>5, <2>2
<1>10. ASSUME NEW p \in Process, Gateway(p)
       PROVE  MemoryOK(proc'[q]) /\ OnceOK(proc'[q])
  <2>1. CASE AcquireLease(p) \/ ResetGroup(p) \/ RefreshLease(p) \/ ReceiveNoGroup(p) \/ Stop(p)
    <3>1. proc' = proc \/ \E label \in {"reset", "ensure", "closing", "stopped"} : Goto(p, label)
      BY <2>1 DEF AcquireLease, ResetGroup, RefreshLease, ReceiveNoGroup, Stop
    <3> QED
      BY <1>2, <1>6, <3>1
  <2>2. CASE ReceiveBuffered(p)
    <3>1. PICK s : s = proc[p].buffer
      OBVIOUS
    <3>2. Take(p, s)
      BY <2>2, <3>1 DEF ReceiveBuffered
    <3> QED
      BY <1>7, <3>2
  <2>3. CASE ReceivePending(p)
    <3>1. proc' = proc \/ \E s : Take(p, s)
      BY <2>3 DEF ReceivePending
    <3> QED
      BY <1>2, <1>7, <3>1
  <2>4. CASE ReceiveNew(p)
    <3>1. \E s : Take(p, s)
      BY <2>4 DEF ReceiveNew
    <3> QED
      BY <1>7, <3>1
  <2>5. CASE \E i \in Instance : CleanupStale(p, i)
    BY <1>2, <2>5 DEF CleanupStale
  <2> QED
    BY <1>3, <1>4, <1>8, <1>9, <1>10, <2>1, <2>2, <2>3, <2>4, <2>5
       DEF Gateway, Startup, Lifecycle, Consume
<1>11. CASE \E e \in Event : Publish(e)
  BY <1>2, <1>11 DEF Publish
<1>12. CASE \E i \in Instance : LeaseExpires(i) \/ LeaseLapses(i)
  BY <1>2, <1>12 DEF LeaseExpires, LeaseLapses
<1> QED
  BY <1>2, <1>10, <1>11, <1>12 DEF Next, vars

\* A gateway repeats an event only after more other deliveries than it remembers, for any
\* size of the memory and however often the publisher or XAUTOCLAIM repeat the entry.
THEOREM DeliveredOnceHolds == Spec => []DeliveredOnce
<1>1. Init => OnceInv
  <2>1. Fresh.memory = <<>> /\ Fresh.delivered = <<>>
    BY DEF Fresh
  <2>2. MemoryOK(Fresh) /\ OnceOK(Fresh)
    BY <2>1, NothingOnce
  <2> QED
    BY <2>2 DEF Init, OnceInv
<1>2. OnceInv => DeliveredOnce
  BY DEF OnceInv, OnceOK, DeliveredOnce
<1> QED
  BY <1>1, <1>2, OnceNext, InvHolds, PTL DEF Spec

=============================================================================
