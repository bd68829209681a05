------------------------------ MODULE Presence ------------------------------
(***************************************************************************)
(* The WebSocket connections of one user on several gateways, and the two  *)
(* keys in Redis that say whether the user is online.                      *)
(*                                                                         *)
(* A gateway tells presence of the first connection and of the last one    *)
(* after it has released its mutex, so what Redis is told may arrive in    *)
(* another order than the connections opened and closed.  A connection is  *)
(* unregistered by its pumps, by Run for a client whose queue was full, by *)
(* Deliver itself when the channel to Run is full too, and by CloseAll.    *)
(* Events to the contacts of the user are best effort and left out.        *)
(***************************************************************************)
EXTENDS Naturals, Sequences, FiniteSets, SequencesExt

CONSTANTS Gateway,    \* instances of the gateway
          Client,     \* connections of the user
          Buffer,     \* length of the queue of a client
          Signals,    \* length of the channel to Run
          MaxFaults,  \* bound: crashes and failures of Redis
          None        \* no gateway

ASSUME PresenceAssumption ==
  /\ IsFiniteSet(Client)
  /\ Buffer \in Nat \ {0}
  /\ Signals \in Nat
  /\ MaxFaults \in Nat
  /\ None \notin Gateway

VARIABLES client,
          closing,     \* gateways that shut down
          unregister,  \* the channel to Run of each gateway
          dropped,     \* clients that Deliver is to unregister itself
          lease,       \* presence:instances:<user>: the entry of each gateway
          online,      \* online:<user> exists
          faults       \* faults so far

vars == <<client, closing, unregister, dropped, lease, online, faults>>

Caller == {"none", "pumps", "run", "deliver", "closeall"}

\* ready is closed when RegisterWithClose returns, which is when pc leaves "connecting".
ClientState ==
  [pc       : {"idle", "connecting", "served"},
   at       : Gateway \cup {None},
   open     : BOOLEAN,  \* in the map of the gateway
   closes   : Nat,      \* how often its channel was closed
   queue    : 0..Buffer,
   overflow : BOOLEAN,  \* history: was found full
   leaving  : Caller]   \* who is to call Disconnected after unregistering it

NoClient ==
  [pc |-> "idle", at |-> None, open |-> FALSE, closes |-> 0, queue |-> 0, overflow |-> FALSE,
   leaving |-> "none"]

Init ==
  /\ client = [c \in Client |-> NoClient]
  /\ closing = {}
  /\ unregister = [g \in Gateway |-> <<>>]
  /\ dropped = {}
  /\ lease = [g \in Gateway |-> "none"]
  /\ online = FALSE
  /\ faults = 0

ClientsOf(g) == {c \in Client : client[c].at = g}

OpenOn(g) == {c \in ClientsOf(g) : client[c].open}

Fault == faults < MaxFaults /\ faults' = faults + 1

-----------------------------------------------------------------------------
(* The scripts of presence *)

\* ZREMRANGEBYSCORE: entries that have run out are removed.
Pruned == [g \in Gateway |-> IF lease[g] = "expired" THEN "none" ELSE lease[g]]

\* Mutant: an entry is only renewed if there is one.
ConnectScriptRenew(g) ==
  /\ lease' = Pruned
  /\ online' = (lease[g] = "live" \/ online)

ConnectScript(g) ==
  /\ lease' = [Pruned EXCEPT ![g] = "live"]
  /\ online' = TRUE

\* Mutant: the key is deleted although another gateway has connections.
DisconnectScriptAlone(g) ==
  /\ lease' = [Pruned EXCEPT ![g] = "none"]
  /\ online' = FALSE

DisconnectScript(g) ==
  /\ lease' = [Pruned EXCEPT ![g] = "none"]
  /\ online' = \E h \in Gateway \ {g} : lease[h] = "live"

\* ReconcileExpired removes what has run out, and the set itself once it is empty.
ReconcileExpired ==
  /\ \E g \in Gateway : lease[g] = "expired"
  /\ lease' = Pruned
  /\ UNCHANGED <<client, closing, unregister, dropped, online, faults>>

\* Mutant: the online key has no expiry of its own.
LeaseExpiresAlone(g) ==
  /\ lease[g] = "live"
  /\ lease' = [lease EXCEPT ![g] = "expired"]
  /\ UNCHANGED <<client, closing, unregister, dropped, online, faults>>

\* The online key expires with the last entry.
LeaseExpires(g) ==
  /\ lease[g] = "live"
  /\ lease' = [lease EXCEPT ![g] = "expired"]
  /\ online' = \E h \in Gateway \ {g} : lease[h] = "live"
  /\ UNCHANGED <<client, closing, unregister, dropped, faults>>

-----------------------------------------------------------------------------
(* Connections *)

\* RegisterWithClose up to the release of the mutex.  The connection is a new
\* object: nothing refers to an earlier one of the same name.
Register(c, g) ==
  /\ client[c].pc = "idle"
  /\ client[c].leaving = "none"
  /\ c \notin dropped
  /\ \A h \in Gateway : ~Contains(unregister[h], c)
  /\ g \notin closing
  /\ client' = [client EXCEPT ![c] =
                  [NoClient EXCEPT !.pc = IF OpenOn(g) = {} THEN "connecting" ELSE "served",
                                   !.at = g,
                                   !.open = TRUE]]
  /\ UNCHANGED <<closing, unregister, dropped, lease, online, faults>>

\* The call of Connected for a first connection; the pumps start after it.
Connected(c) ==
  /\ client[c].pc = "connecting"
  /\ client' = [client EXCEPT ![c].pc = "served"]
  /\ ConnectScript(client[c].at)
  /\ UNCHANGED <<closing, unregister, dropped, faults>>

\* The script fails or runs out of time; nobody is told.
ConnectedFails(c) ==
  /\ client[c].pc = "connecting"
  /\ Fault
  /\ client' = [client EXCEPT ![c].pc = "served"]
  /\ UNCHANGED <<closing, unregister, dropped, lease, online>>

\* RefreshPresence, with each pong: the read pump may not yet know that its
\* client was unregistered.
RefreshPresence(c) ==
  /\ client[c].pc = "served"
  /\ ConnectScript(client[c].at)
  /\ UNCHANGED <<client, closing, unregister, dropped, faults>>

\* Mutant: whether the client is still in the map is not looked at.
UnregisteredBlind(c, by) ==
  [client[c] EXCEPT !.open = FALSE, !.queue = 0, !.overflow = FALSE, !.closes = @ + 1,
                    !.leaving = IF OpenOn(client[c].at) \subseteq {c} THEN by ELSE "none"]

\* unregisterClient up to the release of the mutex; what is left in the queue no
\* longer matters.
Unregistered(c, by) ==
  IF client[c].open
  THEN [client[c] EXCEPT !.open = FALSE, !.queue = 0, !.overflow = FALSE, !.closes = @ + 1,
                         !.leaving = IF OpenOn(client[c].at) = {c} THEN by ELSE "none"]
  ELSE client[c]

\* The rest of unregisterClient for the last connection, once it is ready.
Disconnected(c) ==
  /\ client[c].leaving # "none"
  /\ client[c].pc # "connecting"
  /\ client' = [client EXCEPT ![c].leaving = "none"]
  /\ DisconnectScript(client[c].at)
  /\ UNCHANGED <<closing, unregister, dropped, faults>>

DisconnectedFails(c) ==
  /\ client[c].leaving # "none"
  /\ client[c].pc # "connecting"
  /\ Fault
  /\ client' = [client EXCEPT ![c].leaving = "none"]
  /\ UNCHANGED <<closing, unregister, dropped, lease, online>>

\* The context of Deliver or of CloseAll ends while unregisterClient waits.
GiveUp(c) ==
  /\ client[c].leaving \in {"deliver", "closeall"}
  /\ client[c].at \in closing
  /\ client' = [client EXCEPT ![c].leaving = "none"]
  /\ UNCHANGED <<closing, unregister, dropped, lease, online, faults>>

\* writePump sends one payload.
Write(c) ==
  /\ client[c].pc = "served"
  /\ client[c].queue > 0
  /\ client' = [client EXCEPT ![c].queue = @ - 1]
  /\ UNCHANGED <<closing, unregister, dropped, lease, online, faults>>

\* One pump ends, the connection being lost or the session revoked.
PumpFails(c) ==
  /\ client[c].pc = "served"
  /\ client[c].open
  /\ client' = [client EXCEPT ![c] = Unregistered(c, "pumps")]
  /\ UNCHANGED <<closing, unregister, dropped, lease, online, faults>>

\* The pumps of a client that was unregistered end, and unregister it again.
PumpsEnd(c) ==
  /\ client[c].pc = "served"
  /\ ~client[c].open
  /\ client' = [client EXCEPT ![c] = [Unregistered(c, "pumps") EXCEPT !.pc = "idle"]]
  /\ UNCHANGED <<closing, unregister, dropped, lease, online, faults>>

-----------------------------------------------------------------------------
(* Delivery *)

Full(g) == {c \in OpenOn(g) : client[c].queue = Buffer}

\* Mutant: a client for which the channel has no room is forgotten.
DroppedNone(F, S) == dropped

\* Full clients that could not be signalled are left to Deliver.
Dropped(F, S) == dropped \cup (F \ S)

\* The clients are visited in the order of a Go map, which is any order.
Deliver(g) ==
  LET F == Full(g)
      room == Signals - Len(unregister[g])
  IN  /\ OpenOn(g) # {}
      /\ client' = [c \in Client |->
                      IF c \in F THEN [client[c] EXCEPT !.overflow = TRUE]
                      ELSE IF c \in OpenOn(g) THEN [client[c] EXCEPT !.queue = @ + 1]
                      ELSE client[c]]
      /\ \E S \in SUBSET F :
           /\ Cardinality(S) = IF Cardinality(F) < room THEN Cardinality(F) ELSE room
           /\ \E order \in SetToSeqs(S) : unregister' = [unregister EXCEPT ![g] = @ \o order]
           /\ dropped' = Dropped(F, S)
      /\ UNCHANGED <<closing, lease, online, faults>>

\* Deliver unregisters, after it has released the mutex.
DeliverUnregister(c) ==
  /\ c \in dropped
  /\ dropped' = dropped \ {c}
  /\ client' = [client EXCEPT ![c] = Unregistered(c, "deliver")]
  /\ UNCHANGED <<closing, unregister, lease, online, faults>>

\* Run takes one client at a time, and stops when the gateway shuts down.
Run(g) ==
  /\ g \notin closing
  /\ unregister[g] # <<>>
  /\ \A c \in ClientsOf(g) : client[c].leaving # "run"
  /\ LET c == Head(unregister[g])
     IN  client' = [client EXCEPT ![c] = Unregistered(c, "run")]
  /\ unregister' = [unregister EXCEPT ![g] = Tail(@)]
  /\ UNCHANGED <<closing, dropped, lease, online, faults>>

-----------------------------------------------------------------------------
(* The end of a gateway *)

\* No connection is registered from now on.
CloseAll(g) ==
  /\ g \notin closing
  /\ closing' = closing \cup {g}
  /\ UNCHANGED <<client, unregister, dropped, lease, online, faults>>

\* CloseAll unregisters one client after the other.
CloseClient(c) ==
  /\ client[c].at \in closing
  /\ client[c].open
  /\ \A d \in ClientsOf(client[c].at) : client[d].leaving # "closeall"
  /\ client' = [client EXCEPT ![c] = Unregistered(c, "closeall")]
  /\ UNCHANGED <<closing, unregister, dropped, lease, online, faults>>

\* What the process had in memory is gone; the next one starts anew.
End(g) ==
  /\ client' = [c \in Client |-> IF c \in ClientsOf(g) THEN NoClient ELSE client[c]]
  /\ closing' = closing \ {g}
  /\ unregister' = [unregister EXCEPT ![g] = <<>>]
  /\ dropped' = dropped \ ClientsOf(g)
  /\ UNCHANGED <<lease, online>>

Exit(g) ==
  /\ g \in closing
  /\ OpenOn(g) = {}
  /\ \A c \in ClientsOf(g) : client[c].leaving # "closeall"
  /\ End(g)
  /\ UNCHANGED faults

Crash(g) == Fault /\ End(g)

-----------------------------------------------------------------------------
Connection(c) ==
  \/ (\E g \in Gateway : Register(c, g)) \/ Connected(c) \/ ConnectedFails(c) \/ RefreshPresence(c)
  \/ Write(c) \/ PumpFails(c) \/ PumpsEnd(c) \/ DeliverUnregister(c) \/ CloseClient(c)
  \/ Disconnected(c) \/ DisconnectedFails(c) \/ GiveUp(c)

Instance(g) ==
  Deliver(g) \/ Run(g) \/ CloseAll(g) \/ Exit(g) \/ Crash(g) \/ LeaseExpires(g)

Next == (\E c \in Client : Connection(c)) \/ (\E g \in Gateway : Instance(g)) \/ ReconcileExpired

Spec == Init /\ [][Next]_vars

\* Goroutines run on, a connection that stays open answers the pings, and an entry
\* that nobody renews expires.
Fairness ==
  /\ \A c \in Client :
       /\ WF_vars(Connected(c)) /\ WF_vars(Disconnected(c))
       /\ WF_vars(RefreshPresence(c)) /\ WF_vars(PumpsEnd(c))
       /\ WF_vars(DeliverUnregister(c)) /\ WF_vars(CloseClient(c))
  /\ \A g \in Gateway :
       /\ WF_vars(Run(g)) /\ WF_vars(Exit(g))
       /\ WF_vars(OpenOn(g) = {} /\ LeaseExpires(g))

FairSpec == Spec /\ Fairness

-----------------------------------------------------------------------------
(* Properties *)

\* Types; the two keys agree: the user is online while some gateway has an entry
\* that has not run out, whichever gateways connected and disconnected.
TypeOK ==
  /\ client \in [Client -> ClientState]
  /\ closing \subseteq Gateway
  /\ unregister \in [Gateway -> Seq(Client)]
  /\ \A g \in Gateway : Len(unregister[g]) <= Signals
  /\ dropped \subseteq Client
  /\ lease \in [Gateway -> {"none", "live", "expired"}]
  /\ online \in BOOLEAN
  /\ faults \in 0..MaxFaults
  /\ online <=> \E g \in Gateway : lease[g] = "live"

\* Neither Deliver nor unregisterClient panics: a client in the map has an open
\* channel, and no channel is closed twice, though pumps, Run, Deliver and CloseAll
\* unregister the same client.
NoPanic ==
  \A c \in Client : client[c].closes <= 1 /\ (client[c].open => client[c].closes = 0)

\* A connection that stays open makes the user online again and again, even when the
\* Disconnected of an earlier last connection came after its Connected.
OpenIsOnline == \A c \in Client : []<>(online \/ ~client[c].open)

\* A user without connections is offline in the end: also when a gateway crashed,
\* gave up a Disconnected, or renewed the entry after its last Disconnected.
NoneIsOffline == []<>(~online \/ \E c \in Client : client[c].open)

\* A client whose queue was full is unregistered, also when the channel to Run was
\* full and when the gateway shuts down.
SlowIsDropped == \A c \in Client : []<>~client[c].overflow
=============================================================================
