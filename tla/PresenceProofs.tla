--------------------------- MODULE PresenceProofs ---------------------------
(***************************************************************************)
(* Theorems about Presence, for every set of gateways and connections and  *)
(* every length of their queues: its types, with the agreement of the two  *)
(* keys in Redis, that no channel is closed twice or sent on after, and    *)
(* that a connection found slow is in the hands of Run or of Deliver.      *)
(***************************************************************************)
EXTENDS Presence, FiniteSetTheorems, TLAPS

-----------------------------------------------------------------------------
(* The invariant *)

\* A connection that is served, in the map or about to be reported has a
\* gateway, so that the scripts write the entry of one.
AtInv ==
  \A c \in Client :
    client[c].pc # "idle" \/ client[c].open \/ client[c].leaving # "none" => client[c].at \in Gateway

IInv == TypeOK /\ AtInv /\ NoPanic

\* The part of TypeOK about Redis.
KeysOK ==
  /\ lease \in [Gateway -> {"none", "live", "expired"}]
  /\ online \in BOOLEAN
  /\ online <=> \E g \in Gateway : lease[g] = "live"

\* What the invariant says of one connection r.
ClientOK(r) ==
  /\ r \in ClientState
  /\ r.pc # "idle" \/ r.open \/ r.leaving # "none" => r.at \in Gateway
  /\ r.closes <= 1 /\ (r.open => r.closes = 0)

\* The part of TypeOK about the gateways.
GatewaysOK ==
  /\ closing \subseteq Gateway
  /\ unregister \in [Gateway -> Seq(Client)]
  /\ \A g \in Gateway : Len(unregister[g]) <= Signals
  /\ dropped \subseteq Client
  /\ faults \in 0..MaxFaults

ClientsOK == client \in [Client -> ClientState] /\ \A c \in Client : ClientOK(client[c])

LEMMA Parts == IInv <=> KeysOK /\ GatewaysOK /\ ClientsOK
  BY DEF IInv, TypeOK, AtInv, NoPanic, KeysOK, GatewaysOK, ClientsOK, ClientOK

-----------------------------------------------------------------------------
(* Redis *)

LEMMA PrunedType ==
  ASSUME KeysOK
  PROVE  /\ Pruned \in [Gateway -> {"none", "live", "expired"}]
         /\ \A g \in Gateway : Pruned[g] = "live" <=> lease[g] = "live"
  BY DEF KeysOK, Pruned

\* Every script leaves the two keys in agreement.
LEMMA ConnectKeys ==
  ASSUME KeysOK, NEW g \in Gateway, ConnectScript(g)
  PROVE  KeysOK'
  BY PrunedType DEF KeysOK, ConnectScript

LEMMA DisconnectKeys ==
  ASSUME KeysOK, NEW g \in Gateway, DisconnectScript(g)
  PROVE  KeysOK'
  <1>1. /\ lease' \in [Gateway -> {"none", "live", "expired"}]
        /\ lease'[g] = "none"
        /\ \A h \in Gateway \ {g} : lease'[h] = "live" <=> lease[h] = "live"
    BY PrunedType DEF DisconnectScript
  <1>2. online' \in BOOLEAN /\ (online' <=> \E h \in Gateway \ {g} : lease[h] = "live")
    BY DEF DisconnectScript
  <1> QED
    BY <1>1, <1>2 DEF KeysOK

LEMMA ExpireKeys ==
  ASSUME KeysOK, NEW g \in Gateway, LeaseExpires(g)
  PROVE  KeysOK'
  <1>1. /\ lease' \in [Gateway -> {"none", "live", "expired"}]
        /\ lease'[g] = "expired"
        /\ \A h \in Gateway \ {g} : lease'[h] = lease[h]
    BY DEF LeaseExpires, KeysOK
  <1>2. online' \in BOOLEAN /\ (online' <=> \E h \in Gateway \ {g} : lease[h] = "live")
    BY DEF LeaseExpires
  <1> QED
    BY <1>1, <1>2 DEF KeysOK

-----------------------------------------------------------------------------
(* Connections *)

LEMMA NoClientOK == ClientOK(NoClient)
  BY PresenceAssumption DEF ClientOK, NoClient, ClientState, Caller

\* One connection is replaced.
LEMMA ClientUpdate ==
  ASSUME ClientsOK, NEW c \in Client, NEW r, ClientOK(r), client' = [client EXCEPT ![c] = r]
  PROVE  ClientsOK'
  <1>1. r \in ClientState
    BY DEF ClientOK
  <1>2. client' \in [Client -> ClientState]
    BY <1>1 DEF ClientsOK
  <1>3. \A d \in Client : client'[d] = IF d = c THEN r ELSE client[d]
    BY DEF ClientsOK
  <1>4. \A d \in Client : ClientOK(client'[d])
    BY <1>3 DEF ClientsOK
  <1> QED
    BY <1>2, <1>4 DEF ClientsOK

\* Whoever unregisters a connection, and however often: the first one closes its
\* channel, the others find it gone from the map.
LEMMA UnregisterOnce ==
  ASSUME ClientsOK, NEW c \in Client, NEW by \in Caller
  PROVE  ClientOK(Unregistered(c, by)) /\ Unregistered(c, by).pc = client[c].pc
  <1> DEFINE r == client[c]
             l == IF OpenOn(client[c].at) = {c} THEN by ELSE "none"
             y == Unregistered(c, by)
  <1>1. ClientOK(r) /\ l \in Caller
    BY DEF ClientsOK, Caller
  <1>2. CASE ~r.open
    <2>1. y = r
      BY <1>2 DEF Unregistered
    <2> QED
      BY <1>1, <2>1
  <1>3. CASE r.open
    <2>1. y = [r EXCEPT !.open = FALSE, !.queue = 0, !.overflow = FALSE, !.closes = r.closes + 1,
                        !.leaving = l]
      BY <1>3 DEF Unregistered
    <2>2. r \in ClientState /\ r.closes = 0 /\ r.at \in Gateway
      BY <1>1, <1>3 DEF ClientOK
    <2> HIDE DEF r, l, y
    <2>3. y = [r EXCEPT !.open = FALSE, !.queue = 0, !.overflow = FALSE, !.closes = 1,
                        !.leaving = l]
      BY <2>1, <2>2
    <2>a. 0 \in 0..Buffer /\ 1 \in Nat /\ FALSE \in BOOLEAN
      BY PresenceAssumption
    <2>4. y \in ClientState
      BY <1>1, <2>2, <2>3, <2>a DEF ClientState
    <2>5. y.open = FALSE
      BY <2>2, <2>3 DEF ClientState
    <2>6. y.closes = 1 /\ y.at = r.at /\ y.pc = r.pc
      BY <2>2, <2>3 DEF ClientState
    <2> QED
      BY <2>2, <2>4, <2>5, <2>6 DEF ClientOK, y, r
  <1> QED
    BY <1>2, <1>3

\* A connection that was unregistered by its pumps, Run, Deliver or CloseAll.
LEMMA UnregisterClients ==
  ASSUME ClientsOK, NEW c \in Client, NEW by \in Caller,
         client' = [client EXCEPT ![c] = Unregistered(c, by)]
  PROVE  ClientsOK'
  BY UnregisterOnce, ClientUpdate

\* RegisterWithClose makes a new connection.
LEMMA RegisterClients ==
  ASSUME ClientsOK, NEW c \in Client, NEW g \in Gateway, Register(c, g)
  PROVE  ClientsOK'
  <1> DEFINE p == IF OpenOn(g) = {} THEN "connecting" ELSE "served"
             r == [NoClient EXCEPT !.pc = p, !.at = g, !.open = TRUE]
  <1>1. client' = [client EXCEPT ![c] = r] /\ p \in {"connecting", "served"}
    BY DEF Register
  <1>2. NoClient \in ClientState /\ NoClient.closes = 0
    BY NoClientOK DEF ClientOK, NoClient
  <1> HIDE DEF p
  <1>3. r \in ClientState /\ r.at = g /\ r.closes = 0
    BY <1>1, <1>2 DEF ClientState
  <1> HIDE DEF r
  <1>4. ClientOK(r)
    BY <1>3 DEF ClientOK
  <1> QED
    BY <1>1, <1>4, ClientUpdate

\* The progress of the goroutine that serves a connection.
LEMMA ServeClients ==
  ASSUME ClientsOK, NEW c \in Client, client[c].pc # "idle",
         client' = [client EXCEPT ![c].pc = "served"]
  PROVE  ClientsOK'
  <1> DEFINE r == client[c]
             y == [r EXCEPT !.pc = "served"]
  <1>1. client' = [client EXCEPT ![c] = y]
    OBVIOUS
  <1>2. ClientOK(r) /\ r.pc # "idle"
    BY DEF ClientsOK
  <1> HIDE DEF r
  <1>3. /\ y \in ClientState /\ y.at = r.at /\ y.open = r.open /\ y.closes = r.closes
    BY <1>2 DEF ClientOK, ClientState
  <1> HIDE DEF y
  <1>4. ClientOK(y)
    BY <1>2, <1>3 DEF ClientOK
  <1> QED
    BY <1>1, <1>4, ClientUpdate

\* The report of the last connection is made, fails or is given up.
LEMMA LeaveClients ==
  ASSUME ClientsOK, NEW c \in Client, client' = [client EXCEPT ![c].leaving = "none"]
  PROVE  ClientsOK'
  <1> DEFINE r == client[c]
             y == [r EXCEPT !.leaving = "none"]
  <1>1. client' = [client EXCEPT ![c] = y]
    OBVIOUS
  <1>2. ClientOK(r)
    BY DEF ClientsOK
  <1> HIDE DEF r
  <1>3. /\ y \in ClientState /\ y.at = r.at /\ y.open = r.open /\ y.closes = r.closes
        /\ y.pc = r.pc /\ y.leaving = "none"
    BY <1>2 DEF ClientOK, ClientState, Caller
  <1> HIDE DEF y
  <1>4. ClientOK(y)
    BY <1>2, <1>3 DEF ClientOK
  <1> QED
    BY <1>1, <1>4, ClientUpdate

LEMMA WriteClients ==
  ASSUME ClientsOK, NEW c \in Client, Write(c)
  PROVE  ClientsOK'
  <1> DEFINE r == client[c]
             q == r.queue - 1
             y == [r EXCEPT !.queue = q]
  <1>1. client' = [client EXCEPT ![c] = y] /\ r.queue > 0
    BY DEF Write
  <1>2. ClientOK(r) /\ r.queue \in 0..Buffer
    BY DEF ClientsOK, ClientState
  <1>3. q \in 0..Buffer
    BY <1>1, <1>2, PresenceAssumption
  <1> HIDE DEF r, q
  <1>4. /\ y \in ClientState /\ y.at = r.at /\ y.open = r.open /\ y.closes = r.closes
        /\ y.pc = r.pc /\ y.leaving = r.leaving
    BY <1>2, <1>3 DEF ClientOK, ClientState
  <1> HIDE DEF y
  <1>5. ClientOK(y)
    BY <1>2, <1>4 DEF ClientOK
  <1> QED
    BY <1>1, <1>5, ClientUpdate

LEMMA PumpsEndClients ==
  ASSUME ClientsOK, NEW c \in Client, PumpsEnd(c)
  PROVE  ClientsOK'
  <1> DEFINE r == Unregistered(c, "pumps")
             y == [r EXCEPT !.pc = "idle"]
  <1>1. client' = [client EXCEPT ![c] = y]
    BY DEF PumpsEnd
  <1>2. ClientOK(r)
    BY UnregisterOnce DEF Caller
  <1> HIDE DEF r
  <1>3. /\ y \in ClientState /\ y.at = r.at /\ y.open = r.open /\ y.closes = r.closes
        /\ y.pc = "idle" /\ y.leaving = r.leaving
    BY <1>2 DEF ClientOK, ClientState
  <1> HIDE DEF y
  <1>4. ClientOK(y)
    BY <1>2, <1>3 DEF ClientOK
  <1> QED
    BY <1>1, <1>4, ClientUpdate

\* Deliver fills a queue only where there is room.
LEMMA DeliverClients ==
  ASSUME ClientsOK, NEW g \in Gateway, Deliver(g)
  PROVE  ClientsOK'
  <1> DEFINE F == Full(g)
             more(r) == [r EXCEPT !.queue = r.queue + 1]
             full(r) == [r EXCEPT !.overflow = TRUE]
  <1>1. client' = [c \in Client |-> IF c \in F THEN full(client[c])
                                    ELSE IF c \in OpenOn(g) THEN more(client[c])
                                    ELSE client[c]]
    BY DEF Deliver
  <1>2. ASSUME NEW r, ClientOK(r) PROVE ClientOK(full(r)) /\ full(r) \in ClientState
    <2> DEFINE y == full(r)
    <2>1. /\ y \in ClientState /\ y.at = r.at /\ y.open = r.open /\ y.closes = r.closes
          /\ y.pc = r.pc /\ y.leaving = r.leaving
      BY <1>2 DEF ClientOK, ClientState
    <2> HIDE DEF y
    <2>2. ClientOK(y)
      BY <1>2, <2>1 DEF ClientOK
    <2> QED
      BY <2>1, <2>2 DEF y
  <1>3. ASSUME NEW r, ClientOK(r), r.queue # Buffer
        PROVE  ClientOK(more(r)) /\ more(r) \in ClientState
    <2> DEFINE q == r.queue + 1
               y == [r EXCEPT !.queue = q]
    <2>1. r.queue \in 0..Buffer
      BY <1>3 DEF ClientOK, ClientState
    <2>2. q \in 0..Buffer
      BY <1>3, <2>1, PresenceAssumption
    <2> HIDE DEF q
    <2>3. /\ y \in ClientState /\ y.at = r.at /\ y.open = r.open /\ y.closes = r.closes
          /\ y.pc = r.pc /\ y.leaving = r.leaving
      BY <1>3, <2>2 DEF ClientOK, ClientState
    <2> HIDE DEF y
    <2>4. ClientOK(y)
      BY <1>3, <2>3 DEF ClientOK
    <2> QED
      BY <2>3, <2>4 DEF y, q
  <1> HIDE DEF more, full
  <1>4. ASSUME NEW c \in Client PROVE ClientOK(client'[c]) /\ client'[c] \in ClientState
    <2>1. ClientOK(client[c]) /\ client[c] \in ClientState
      BY DEF ClientsOK
    <2>2. c \in OpenOn(g) /\ c \notin F => client[c].queue # Buffer
      BY DEF Full
    <2> QED
      BY <1>1, <1>2, <1>3, <2>1, <2>2
  <1>5. client' \in [Client -> ClientState]
    BY <1>1, <1>4
  <1> QED
    BY <1>4, <1>5 DEF ClientsOK

LEMMA EndClients ==
  ASSUME ClientsOK, NEW g, End(g)
  PROVE  ClientsOK'
  <1>1. client' = [c \in Client |-> IF c \in ClientsOf(g) THEN NoClient ELSE client[c]]
    BY DEF End
  <1>2. NoClient \in ClientState
    BY NoClientOK DEF ClientOK
  <1>3. \A c \in Client : ClientOK(client'[c]) /\ client'[c] \in ClientState
    BY <1>1, <1>2, NoClientOK DEF ClientsOK
  <1> QED
    BY <1>1, <1>3 DEF ClientsOK

-----------------------------------------------------------------------------
(* Gateways *)

\* The channel to Run never holds more than it has room for.
LEMMA DeliverGateways ==
  ASSUME GatewaysOK, NEW g \in Gateway, Deliver(g)
  PROVE  GatewaysOK'
  <1> DEFINE F == Full(g)
             room == Signals - Len(unregister[g])
  <1>1. PICK S \in SUBSET F :
          /\ Cardinality(S) = IF Cardinality(F) < room THEN Cardinality(F) ELSE room
          /\ \E order \in SetToSeqs(S) :
               unregister' = [unregister EXCEPT ![g] = unregister[g] \o order]
          /\ dropped' = Dropped(F, S)
    BY DEF Deliver
  <1>2. PICK order \in SetToSeqs(S) :
          unregister' = [unregister EXCEPT ![g] = unregister[g] \o order]
    BY <1>1
  <1>3. F \subseteq Client /\ S \subseteq Client
    BY <1>1 DEF Full, OpenOn, ClientsOf
  <1>4. Cardinality(F) \in Nat /\ Cardinality(S) \in Nat
    BY <1>3, PresenceAssumption, FS_Subset, FS_CardinalityType
  <1>5. unregister[g] \in Seq(Client) /\ Len(unregister[g]) \in 0..Signals
    BY PresenceAssumption DEF GatewaysOK
  <1>6. Cardinality(S) <= room
    BY <1>1, <1>4, <1>5, PresenceAssumption
  <1>7. order \in [1..Cardinality(S) -> Client]
    BY <1>2, <1>3 DEF SetToSeqs
  <1>8. order \in Seq(Client) /\ Len(order) = Cardinality(S)
    BY <1>4, <1>7
  <1> DEFINE joined == unregister[g] \o order
  <1>9. joined \in Seq(Client) /\ Len(joined) = Len(unregister[g]) + Len(order)
    BY <1>5, <1>8
  <1>10. Len(joined) <= Signals
    BY <1>4, <1>5, <1>6, <1>8, <1>9, PresenceAssumption
  <1> HIDE DEF joined
  <1>11. unregister' \in [Gateway -> Seq(Client)] /\ \A h \in Gateway : Len(unregister'[h]) <= Signals
    BY <1>2, <1>9, <1>10 DEF GatewaysOK, joined
  <1>12. dropped' \subseteq Client
    BY <1>1, <1>3 DEF Dropped, GatewaysOK
  <1>13. UNCHANGED <<closing, faults>>
    BY DEF Deliver
  <1> QED
    BY <1>11, <1>12, <1>13 DEF GatewaysOK

LEMMA RunGateways ==
  ASSUME GatewaysOK, NEW g \in Gateway, Run(g)
  PROVE  GatewaysOK' /\ Head(unregister[g]) \in Client
  <1> DEFINE s == unregister[g]
             t == Tail(s)
  <1>1. s \in Seq(Client) /\ s # <<>> /\ Len(s) <= Signals
    BY DEF Run, GatewaysOK
  <1>2. Head(s) \in Client /\ t \in Seq(Client) /\ Len(t) <= Signals
    BY <1>1, PresenceAssumption
  <1>3. unregister' = [unregister EXCEPT ![g] = t] /\ UNCHANGED <<closing, dropped, faults>>
    BY DEF Run
  <1> HIDE DEF t
  <1>4. unregister' \in [Gateway -> Seq(Client)] /\ \A h \in Gateway : Len(unregister'[h]) <= Signals
    BY <1>2, <1>3 DEF GatewaysOK
  <1> QED
    BY <1>2, <1>3, <1>4 DEF GatewaysOK

LEMMA EndGateways ==
  ASSUME GatewaysOK, NEW g \in Gateway, End(g), faults' \in 0..MaxFaults
  PROVE  GatewaysOK'
  BY PresenceAssumption DEF GatewaysOK, End

LEMMA FaultType ==
  ASSUME GatewaysOK, Fault
  PROVE  faults' \in 0..MaxFaults
  BY PresenceAssumption DEF GatewaysOK, Fault

-----------------------------------------------------------------------------
(* The theorems *)

LEMMA InitInv == Init => KeysOK /\ GatewaysOK /\ ClientsOK
  <1> SUFFICES ASSUME Init PROVE KeysOK /\ GatewaysOK /\ ClientsOK
    OBVIOUS
  <1>1. KeysOK
    BY DEF Init, KeysOK
  <1>2. GatewaysOK
    BY PresenceAssumption DEF Init, GatewaysOK
  <1>3. NoClient \in ClientState
    BY NoClientOK DEF ClientOK
  <1>4. ClientsOK
    BY <1>3, NoClientOK DEF Init, ClientsOK
  <1> QED
    BY <1>1, <1>2, <1>4

LEMMA ConnectionStep ==
  ASSUME KeysOK, GatewaysOK, ClientsOK, NEW c \in Client, Connection(c)
  PROVE  KeysOK' /\ GatewaysOK' /\ ClientsOK'
  <1>a. /\ client[c].pc # "idle" => client[c].at \in Gateway
        /\ client[c].leaving # "none" => client[c].at \in Gateway
    BY DEF ClientsOK, ClientOK
  <1>k. UNCHANGED <<lease, online>> => KeysOK'
    BY DEF KeysOK
  <1>g. UNCHANGED <<closing, unregister, dropped, faults>> => GatewaysOK'
    BY DEF GatewaysOK
  <1>f. UNCHANGED <<closing, unregister, dropped>> /\ Fault => GatewaysOK'
    BY FaultType DEF GatewaysOK
  <1>1. ASSUME NEW g \in Gateway, Register(c, g) PROVE KeysOK' /\ GatewaysOK' /\ ClientsOK'
    BY <1>1, <1>g, <1>k, RegisterClients DEF Register
  <1>2. CASE Connected(c)
    <2>1. ClientsOK'
      BY <1>2, ServeClients DEF Connected
    <2>2. KeysOK'
      BY <1>2, <1>a, ConnectKeys DEF Connected
    <2> QED
      BY <1>2, <1>g, <2>1, <2>2 DEF Connected
  <1>3. CASE ConnectedFails(c)
    <2>1. ClientsOK'
      BY <1>3, ServeClients DEF ConnectedFails
    <2> QED
      BY <1>3, <1>f, <1>k, <2>1 DEF ConnectedFails
  <1>4. CASE RefreshPresence(c)
    <2>1. KeysOK'
      BY <1>4, <1>a, ConnectKeys DEF RefreshPresence
    <2>2. ClientsOK'
      BY <1>4 DEF RefreshPresence, ClientsOK
    <2> QED
      BY <1>4, <1>g, <2>1, <2>2 DEF RefreshPresence
  <1>5. CASE Write(c)
    BY <1>5, <1>g, <1>k, WriteClients DEF Write
  <1>6. CASE PumpFails(c)
    BY <1>6, <1>g, <1>k, UnregisterClients DEF PumpFails, Caller
  <1>7. CASE PumpsEnd(c)
    BY <1>7, <1>g, <1>k, PumpsEndClients DEF PumpsEnd
  <1>8. CASE DeliverUnregister(c)
    <2>1. GatewaysOK'
      BY <1>8 DEF DeliverUnregister, GatewaysOK
    <2> QED
      BY <1>8, <1>k, <2>1, UnregisterClients DEF DeliverUnregister, Caller
  <1>9. CASE CloseClient(c)
    BY <1>9, <1>g, <1>k, UnregisterClients DEF CloseClient, Caller
  <1>10. CASE Disconnected(c)
    <2>1. KeysOK'
      BY <1>10, <1>a, DisconnectKeys DEF Disconnected
    <2> QED
      BY <1>10, <1>g, <2>1, LeaveClients DEF Disconnected
  <1>11. CASE DisconnectedFails(c)
    BY <1>11, <1>f, <1>k, LeaveClients DEF DisconnectedFails
  <1>12. CASE GiveUp(c)
    BY <1>12, <1>g, <1>k, LeaveClients DEF GiveUp
  <1> QED
    BY <1>1, <1>2, <1>3, <1>4, <1>5, <1>6, <1>7, <1>8, <1>9, <1>10, <1>11, <1>12 DEF Connection

LEMMA InstanceStep ==
  ASSUME KeysOK, GatewaysOK, ClientsOK, NEW g \in Gateway, Instance(g)
  PROVE  KeysOK' /\ GatewaysOK' /\ ClientsOK'
  <1>k. UNCHANGED <<lease, online>> => KeysOK'
    BY DEF KeysOK
  <1>1. CASE Deliver(g)
    BY <1>1, <1>k, DeliverClients, DeliverGateways DEF Deliver
  <1>2. CASE Run(g)
    <2>1. PICK c \in Client : c = Head(unregister[g])
      BY <1>2, RunGateways
    <2>2. client' = [client EXCEPT ![c] = Unregistered(c, "run")]
      BY <1>2, <2>1 DEF Run
    <2>3. ClientsOK'
      BY <2>2, UnregisterClients DEF Caller
    <2> QED
      BY <1>2, <1>k, <2>3, RunGateways DEF Run
  <1>3. CASE CloseAll(g)
    <2>1. ClientsOK'
      BY <1>3 DEF CloseAll, ClientsOK
    <2>2. GatewaysOK'
      BY <1>3 DEF CloseAll, GatewaysOK
    <2> QED
      BY <1>3, <1>k, <2>1, <2>2 DEF CloseAll
  <1>4. ASSUME End(g), faults' \in 0..MaxFaults PROVE KeysOK' /\ GatewaysOK' /\ ClientsOK'
    <2>1. UNCHANGED <<lease, online>>
      BY <1>4 DEF End
    <2> QED
      BY <1>4, <1>k, <2>1, EndClients, EndGateways
  <1>5. CASE Exit(g)
    BY <1>4, <1>5 DEF Exit, GatewaysOK
  <1>6. CASE Crash(g)
    BY <1>4, <1>6, FaultType DEF Crash
  <1>7. CASE LeaseExpires(g)
    <2>1. ClientsOK'
      BY <1>7 DEF LeaseExpires, ClientsOK
    <2>2. GatewaysOK'
      BY <1>7 DEF LeaseExpires, GatewaysOK
    <2> QED
      BY <1>7, <2>1, <2>2, ExpireKeys
  <1> QED
    BY <1>1, <1>2, <1>3, <1>5, <1>6, <1>7 DEF Instance

LEMMA StepInv ==
  KeysOK /\ GatewaysOK /\ ClientsOK /\ [Next]_vars => KeysOK' /\ GatewaysOK' /\ ClientsOK'
  <1> SUFFICES ASSUME KeysOK, GatewaysOK, ClientsOK, [Next]_vars
               PROVE  KeysOK' /\ GatewaysOK' /\ ClientsOK'
    OBVIOUS
  <1>1. CASE ReconcileExpired
    <2>1. KeysOK'
      BY <1>1, PrunedType DEF ReconcileExpired, KeysOK
    <2>2. GatewaysOK'
      BY <1>1 DEF ReconcileExpired, GatewaysOK
    <2>3. ClientsOK'
      BY <1>1 DEF ReconcileExpired, ClientsOK
    <2> QED
      BY <2>1, <2>2, <2>3
  <1>2. CASE UNCHANGED vars
    <2>1. KeysOK' /\ GatewaysOK'
      BY <1>2 DEF vars, KeysOK, GatewaysOK
    <2>2. ClientsOK'
      BY <1>2 DEF vars, ClientsOK
    <2> QED
      BY <2>1, <2>2
  <1> QED
    BY <1>1, <1>2, ConnectionStep, InstanceStep DEF Next

\* The invariant holds in every reachable state.
THEOREM InvariantHolds == Spec => []IInv
  <1> DEFINE Inv == KeysOK /\ GatewaysOK /\ ClientsOK
  <1>1. Init => Inv
    BY InitInv
  <1>2. Inv /\ [Next]_vars => Inv'
    BY StepInv
  <1>3. Inv => IInv
    BY Parts
  <1> QED
    BY <1>1, <1>2, <1>3, PTL DEF Spec

\* The connections, the channels and Redis are well typed; the online key exists
\* exactly while a gateway has an entry that has not run out, in whatever order
\* the gateways report, expire and crash.
THEOREM TypeCorrect == Spec => []TypeOK
  <1>1. IInv => TypeOK
    BY DEF IInv
  <1> QED
    BY InvariantHolds, <1>1, PTL

\* The channel of a connection is closed once at most, and not while Deliver can
\* find it in the map, whoever unregisters it.
THEOREM NeverPanics == Spec => []NoPanic
  <1>1. IInv => NoPanic
    BY DEF IInv
  <1> QED
    BY InvariantHolds, <1>1, PTL

-----------------------------------------------------------------------------
(* Slow connections *)

\* Somebody is to unregister c: Run, to whom it was signalled, or Deliver.
Pursued(c) ==
  \/ c \in dropped
  \/ \E i \in 1..Len(unregister[client[c].at]) : unregister[client[c].at][i] = c

SlowAt(c) == client[c].overflow => client[c].open /\ Pursued(c)

\* A client whose queue was found full is still in the map, and it is in the channel
\* to Run or left to Deliver: no signal is lost when the channel is full, when a
\* client of the same gateway is unregistered first, or when another gateway ends.
SlowIsPursued == \A c \in Client : SlowAt(c)

\* What an update of one connection leaves alone.
LEMMA OthersKept ==
  ASSUME ClientsOK, NEW d \in Client, NEW r, client' = [client EXCEPT ![d] = r]
  PROVE  client'[d] = r /\ \A c \in Client \ {d} : client'[c] = client[c]
  BY DEF ClientsOK

\* The mark of a full queue goes with the connection.
LEMMA UnregisterSlow ==
  ASSUME ClientsOK, NEW c \in Client, NEW by, SlowAt(c)
  PROVE  ~Unregistered(c, by).overflow
  <1> DEFINE r == client[c]
             l == IF OpenOn(client[c].at) = {c} THEN by ELSE "none"
             k == r.closes + 1
  <1>1. r \in ClientState
    BY DEF ClientsOK, ClientOK
  <1>2. CASE ~r.open
    BY <1>2 DEF Unregistered, SlowAt
  <1>3. CASE r.open
    <2>1. Unregistered(c, by) = [r EXCEPT !.open = FALSE, !.queue = 0, !.overflow = FALSE,
                                          !.closes = k, !.leaving = l]
      BY <1>3 DEF Unregistered
    <2> HIDE DEF r, k, l
    <2> QED
      BY <1>1, <2>1 DEF ClientState
  <1> QED
    BY <1>2, <1>3

\* A connection that stays as it is remains pursued, if nobody takes it up.
LEMMA SlowKept ==
  ASSUME NEW c \in Client, SlowAt(c),
         client'[c].overflow => client[c].overflow,
         client'[c].open = client[c].open, client'[c].at = client[c].at,
         unregister' = unregister, c \in dropped => c \in dropped'
  PROVE  SlowAt(c)'
  BY DEF SlowAt, Pursued

\* A step of d that changes only how far its goroutines have got.
LEMMA ProgressSlow ==
  ASSUME ClientsOK, NEW c \in Client, NEW d \in Client, SlowAt(c),
         UNCHANGED <<unregister, dropped>>,
         \/ client' = [client EXCEPT ![d].pc = "served"]
         \/ client' = [client EXCEPT ![d].leaving = "none"]
         \/ Write(d)
  PROVE  SlowAt(c)'
  <1> DEFINE r == client[d]
  <1>1. r \in ClientState
    BY DEF ClientsOK, ClientOK
  <1>2. PICK y : /\ client' = [client EXCEPT ![d] = y]
                 /\ y.overflow = r.overflow /\ y.open = r.open /\ y.at = r.at
    <2>1. CASE client' = [client EXCEPT ![d].pc = "served"]
      <3> DEFINE y == [r EXCEPT !.pc = "served"]
      <3>1. client' = [client EXCEPT ![d] = y]
        BY <2>1
      <3> HIDE DEF r
      <3>2. y.overflow = r.overflow /\ y.open = r.open /\ y.at = r.at
        BY <1>1 DEF ClientState
      <3> HIDE DEF y
      <3> QED
        BY <3>1, <3>2
    <2>2. CASE client' = [client EXCEPT ![d].leaving = "none"]
      <3> DEFINE y == [r EXCEPT !.leaving = "none"]
      <3>1. client' = [client EXCEPT ![d] = y]
        BY <2>2
      <3> HIDE DEF r
      <3>2. y.overflow = r.overflow /\ y.open = r.open /\ y.at = r.at
        BY <1>1 DEF ClientState
      <3> HIDE DEF y
      <3> QED
        BY <3>1, <3>2
    <2>3. CASE Write(d)
      <3> DEFINE q == r.queue - 1
                 y == [r EXCEPT !.queue = q]
      <3>1. client' = [client EXCEPT ![d] = y]
        BY <2>3 DEF Write
      <3> HIDE DEF r, q
      <3>2. y.overflow = r.overflow /\ y.open = r.open /\ y.at = r.at
        BY <1>1 DEF ClientState
      <3> HIDE DEF y
      <3> QED
        BY <3>1, <3>2
    <2> QED
      BY <2>1, <2>2, <2>3
  <1>3. client'[d] = y /\ \A b \in Client \ {d} : client'[b] = client[b]
    BY <1>2, OthersKept
  <1> QED
    BY <1>2, <1>3, SlowKept

\* A step that unregisters d, or makes it anew, ends the pursuit of d alone.
LEMMA ReplaceSlow ==
  ASSUME ClientsOK, NEW c \in Client, NEW d \in Client, SlowAt(c), NEW y, ~y.overflow,
         client' = [client EXCEPT ![d] = y],
         unregister' = unregister, dropped \ {d} \subseteq dropped'
  PROVE  SlowAt(c)'
  <1>1. client'[d] = y /\ \A b \in Client \ {d} : client'[b] = client[b]
    BY OthersKept
  <1>2. CASE c = d
    BY <1>1, <1>2 DEF SlowAt
  <1>3. CASE c # d
    BY <1>1, <1>3, SlowKept
  <1> QED
    BY <1>2, <1>3

\* The channel gets every signal for which it has room, and Deliver keeps the rest.
LEMMA DeliverSlow ==
  ASSUME GatewaysOK, ClientsOK, NEW c \in Client, NEW g \in Gateway, SlowAt(c), Deliver(g)
  PROVE  SlowAt(c)'
  <1> DEFINE F == Full(g)
             r == client[c]
             s == unregister[g]
  <1>a. PICK S \in SUBSET F :
          /\ \E order \in SetToSeqs(S) : unregister' = [unregister EXCEPT ![g] = s \o order]
          /\ dropped' = dropped \cup (F \ S)
    BY DEF Deliver, Dropped
  <1>1. PICK order \in SetToSeqs(S) :
          /\ unregister' = [unregister EXCEPT ![g] = s \o order]
          /\ dropped' = dropped \cup (F \ S)
    BY <1>a
  <1>2. S \subseteq Client /\ IsFiniteSet(S)
    BY <1>1, PresenceAssumption, FS_Subset DEF Full, OpenOn, ClientsOf
  <1>3. Cardinality(S) \in Nat
    BY <1>2, FS_CardinalityType
  <1>4. order \in [1..Cardinality(S) -> S] /\ order \in Injection(1..Cardinality(S), S)
    BY <1>1 DEF SetToSeqs, Injection, IsInjective
  <1>5. ASSUME NEW d \in S PROVE \E i \in 1..Cardinality(S) : order[i] = d
    <2>1. Cardinality(1..Cardinality(S)) = Cardinality(S)
      BY <1>3, FS_Interval
    <2>2. order \in Surjection(1..Cardinality(S), S)
      BY <1>2, <1>4, <2>1, FS_Injection
    <2> QED
      BY <2>2 DEF Surjection
  <1>6. s \in Seq(Client) /\ order \in Seq(Client) /\ Len(order) = Cardinality(S)
    BY <1>2, <1>3, <1>4 DEF GatewaysOK
  <1> DEFINE joined == s \o order
  <1>7. /\ Len(joined) = Len(s) + Cardinality(S)
        /\ \A i \in 1..Len(s) : joined[i] = s[i]
        /\ \A i \in 1..Cardinality(S) : joined[Len(s) + i] = order[i]
    BY <1>3, <1>6
  <1>8. \A i \in 1..Len(s) : i \in 1..Len(joined)
    BY <1>3, <1>6, <1>7
  <1>9. \A i \in 1..Cardinality(S) : Len(s) + i \in 1..Len(joined)
    BY <1>3, <1>6, <1>7
  <1> HIDE DEF joined
  <1>10. unregister'[g] = joined /\ \A h \in Gateway \ {g} : unregister'[h] = unregister[h]
    BY <1>1 DEF GatewaysOK, joined
  <1>11. r \in ClientState
    BY DEF ClientsOK, ClientOK
  <1>12. CASE c \in F
    <2>1. client'[c] = [r EXCEPT !.overflow = TRUE]
      BY <1>12 DEF Deliver
    <2>2. r.at = g /\ r.open
      BY <1>12 DEF Full, OpenOn, ClientsOf
    <2> HIDE DEF r
    <2>3. client'[c].at = g /\ client'[c].open
      BY <1>11, <2>1, <2>2 DEF ClientState
    <2>4. CASE c \in S
      <3>1. PICK i \in 1..Cardinality(S) : order[i] = c
        BY <1>5, <2>4
      <3>2. joined[Len(s) + i] = c /\ Len(s) + i \in 1..Len(joined)
        BY <1>7, <1>9, <3>1
      <3> QED
        BY <1>10, <2>3, <3>2 DEF SlowAt, Pursued
    <2>5. CASE c \notin S
      BY <1>1, <1>12, <2>3, <2>5 DEF SlowAt, Pursued
    <2> QED
      BY <2>4, <2>5
  <1>13. CASE c \notin F
    <2> DEFINE q == r.queue + 1
    <2>1. client'[c] = r \/ client'[c] = [r EXCEPT !.queue = q]
      BY <1>13 DEF Deliver
    <2> HIDE DEF r, q
    <2>2. client'[c].overflow = r.overflow /\ client'[c].at = r.at /\ client'[c].open = r.open
      BY <1>11, <2>1 DEF ClientState
    <2>3. SUFFICES ASSUME r.overflow PROVE Pursued(c)'
      BY <2>2 DEF SlowAt, r
    <2>4. r.open /\ Pursued(c)
      BY <2>3 DEF SlowAt, r
    <2>5. CASE c \in dropped
      BY <1>1, <2>5 DEF Pursued
    <2>6. CASE c \notin dropped
      <3>1. PICK i \in 1..Len(unregister[r.at]) : unregister[r.at][i] = c
        BY <2>4, <2>6 DEF Pursued, r
      <3>2. r.at \in Gateway
        BY <2>4 DEF ClientsOK, ClientOK, r
      <3>3. CASE r.at = g
        <4>1. joined[i] = c /\ i \in 1..Len(joined)
          BY <1>7, <1>8, <3>1, <3>3
        <4> QED
          BY <1>10, <2>2, <3>3, <4>1 DEF Pursued
      <3>4. CASE r.at # g
        BY <1>10, <2>2, <3>1, <3>2, <3>4 DEF Pursued
      <3> QED
        BY <3>3, <3>4
    <2> QED
      BY <2>5, <2>6
  <1> QED
    BY <1>12, <1>13

\* Run unregisters the client it takes from the channel; the others stay in it.
LEMMA RunSlow ==
  ASSUME GatewaysOK, ClientsOK, NEW c \in Client, NEW g \in Gateway, SlowIsPursued, Run(g)
  PROVE  SlowAt(c)'
  <1> DEFINE s == unregister[g]
             d == Head(s)
             t == Tail(s)
  <1>1. d \in Client
    BY RunGateways
  <1>2. /\ client' = [client EXCEPT ![d] = Unregistered(d, "run")]
        /\ unregister' = [unregister EXCEPT ![g] = t] /\ dropped' = dropped
    BY DEF Run
  <1>3. s \in Seq(Client) /\ s # <<>>
    BY DEF Run, GatewaysOK
  <1>4. ~Unregistered(d, "run").overflow
    BY <1>1, UnregisterSlow DEF SlowIsPursued
  <1>5. /\ client'[d] = Unregistered(d, "run")
        /\ \A b \in Client \ {d} : client'[b] = client[b]
    BY <1>1, <1>2, OthersKept
  <1>6. CASE c = d
    BY <1>4, <1>5, <1>6 DEF SlowAt
  <1>7. CASE c # d
    <2>1. client'[c] = client[c]
      BY <1>5, <1>7
    <2>2. SUFFICES ASSUME client[c].overflow PROVE Pursued(c)'
      BY <2>1 DEF SlowAt, SlowIsPursued
    <2>3. client[c].open /\ Pursued(c) /\ client[c].at \in Gateway
      BY <2>2 DEF SlowAt, SlowIsPursued, ClientsOK, ClientOK
    <2>4. CASE c \in dropped
      BY <1>2, <2>4 DEF Pursued
    <2>5. CASE c \notin dropped
      <3>1. PICK i \in 1..Len(unregister[client[c].at]) : unregister[client[c].at][i] = c
        BY <2>3, <2>5 DEF Pursued
      <3>2. CASE client[c].at = g
        <4>1. i \in 1..Len(s) /\ s[i] = c
          BY <3>1, <3>2
        <4>2. i # 1
          BY <1>3, <1>7, <4>1
        <4>3. i - 1 \in 1..Len(t) /\ t[i - 1] = c
          BY <1>3, <4>1, <4>2
        <4> HIDE DEF t
        <4>4. unregister'[g] = t
          BY <1>2 DEF GatewaysOK
        <4> QED
          BY <2>1, <3>2, <4>3, <4>4 DEF Pursued
      <3>3. CASE client[c].at # g
        <4>1. unregister'[client[c].at] = unregister[client[c].at]
          BY <1>2, <2>3, <3>3 DEF GatewaysOK
        <4> QED
          BY <2>1, <3>1, <4>1 DEF Pursued
      <3> QED
        BY <3>2, <3>3
    <2> QED
      BY <2>4, <2>5
  <1> QED
    BY <1>6, <1>7

\* A gateway that ends takes its connections with it and nobody else's signals.
LEMMA EndSlow ==
  ASSUME GatewaysOK, ClientsOK, NEW c \in Client, NEW g \in Gateway, SlowAt(c), End(g)
  PROVE  SlowAt(c)'
  <1>1. CASE client[c].at = g
    <2>1. client'[c] = NoClient
      BY <1>1 DEF End, ClientsOf
    <2> QED
      BY <2>1 DEF SlowAt, NoClient
  <1>2. CASE client[c].at # g
    <2>1. client'[c] = client[c] /\ (c \in dropped => c \in dropped')
      BY <1>2 DEF End, ClientsOf
    <2>2. client[c].open => unregister'[client[c].at] = unregister[client[c].at]
      BY <1>2 DEF End, GatewaysOK, ClientsOK, ClientOK
    <2> QED
      BY <2>1, <2>2 DEF SlowAt, Pursued
  <1> QED
    BY <1>1, <1>2

LEMMA SlowStep ==
  GatewaysOK /\ ClientsOK /\ SlowIsPursued /\ [Next]_vars => SlowIsPursued'
  <1> SUFFICES ASSUME GatewaysOK, ClientsOK, SlowIsPursued, [Next]_vars, NEW c \in Client
               PROVE  SlowAt(c)'
    BY DEF SlowIsPursued
  <1>0. SlowAt(c)
    BY DEF SlowIsPursued
  <1>n. ~NoClient.overflow
    BY DEF NoClient
  <1>1. ASSUME NEW d \in Client, Connection(d) PROVE SlowAt(c)'
    <2>1. ASSUME NEW g \in Gateway, Register(d, g) PROVE SlowAt(c)'
      <3> DEFINE p == IF OpenOn(g) = {} THEN "connecting" ELSE "served"
                 y == [NoClient EXCEPT !.pc = p, !.at = g, !.open = TRUE]
      <3>1. /\ client' = [client EXCEPT ![d] = y]
            /\ unregister' = unregister /\ dropped' = dropped
        BY <2>1 DEF Register
      <3>2. ~y.overflow
        BY DEF NoClient
      <3> HIDE DEF y
      <3> QED
        BY <1>0, <3>1, <3>2, ReplaceSlow
    <2>2. CASE Connected(d) \/ ConnectedFails(d)
      BY <1>0, <2>2, ProgressSlow DEF Connected, ConnectedFails
    <2>3. CASE Disconnected(d) \/ DisconnectedFails(d) \/ GiveUp(d)
      BY <1>0, <2>3, ProgressSlow DEF Disconnected, DisconnectedFails, GiveUp
    <2>4. CASE Write(d)
      <3>1. UNCHANGED <<unregister, dropped>>
        BY <2>4 DEF Write
      <3> QED
        BY <1>0, <2>4, <3>1, ProgressSlow
    <2>5. CASE RefreshPresence(d)
      BY <1>0, <2>5 DEF RefreshPresence, SlowAt, Pursued
    <2>6. ASSUME NEW by, client' = [client EXCEPT ![d] = Unregistered(d, by)],
                 unregister' = unregister, dropped \ {d} \subseteq dropped'
          PROVE  SlowAt(c)'
      <3>1. ~Unregistered(d, by).overflow
        BY UnregisterSlow DEF SlowIsPursued
      <3> QED
        BY <1>0, <2>6, <3>1, ReplaceSlow
    <2>7. CASE PumpFails(d)
      BY <2>6, <2>7 DEF PumpFails
    <2>8. CASE DeliverUnregister(d)
      BY <2>6, <2>8 DEF DeliverUnregister
    <2>9. CASE CloseClient(d)
      BY <2>6, <2>9 DEF CloseClient
    <2>10. CASE PumpsEnd(d)
      <3> DEFINE u == Unregistered(d, "pumps")
                 y == [u EXCEPT !.pc = "idle"]
      <3>1. client' = [client EXCEPT ![d] = y] /\ unregister' = unregister /\ dropped' = dropped
        BY <2>10 DEF PumpsEnd
      <3>2. ~u.overflow /\ u \in ClientState
        BY UnregisterSlow, UnregisterOnce DEF SlowIsPursued, Caller, ClientOK
      <3> HIDE DEF u
      <3>3. ~y.overflow
        BY <3>2 DEF ClientState
      <3> HIDE DEF y
      <3> QED
        BY <1>0, <3>1, <3>3, ReplaceSlow
    <2> QED
      BY <1>1, <2>1, <2>2, <2>3, <2>4, <2>5, <2>7, <2>8, <2>9, <2>10 DEF Connection
  <1>2. ASSUME NEW g \in Gateway, Instance(g) PROVE SlowAt(c)'
    <2>1. CASE CloseAll(g) \/ LeaseExpires(g)
      BY <1>0, <2>1 DEF CloseAll, LeaseExpires, SlowAt, Pursued
    <2> QED
      BY <1>0, <1>2, <2>1, DeliverSlow, RunSlow, EndSlow DEF Instance, Exit, Crash
  <1>3. CASE ReconcileExpired \/ UNCHANGED vars
    BY <1>0, <1>3 DEF ReconcileExpired, vars, SlowAt, Pursued
  <1> QED
    BY <1>1, <1>2, <1>3 DEF Next

\* No slow connection is forgotten: the safety half of SlowIsDropped, which leaves
\* to fairness only that Run and Deliver go on, or CloseAll once Run has stopped.
THEOREM SlowStaysPursued == Spec => []SlowIsPursued
  <1>1. Init => SlowIsPursued
    BY DEF Init, SlowIsPursued, SlowAt, NoClient
  <1>2. IInv /\ SlowIsPursued /\ [Next]_vars => SlowIsPursued'
    BY Parts, SlowStep
  <1> QED
    BY InvariantHolds, <1>1, <1>2, PTL DEF Spec

=============================================================================
