------------------------------- MODULE Unread -------------------------------
(***************************************************************************)
(* The unread counters of one chat, private or group.                      *)
(*                                                                         *)
(* A message gets its created_at when it is written, becomes visible when  *)
(* its transaction commits, and moves the counters later, when a worker    *)
(* projects its outbox row.  MarkAsRead, HideChat and the joining of a     *)
(* group take their time from the clock of the API process and write it    *)
(* to the row in a later statement.  Rows are projected once and in the    *)
(* order of the chat: Outbox, with what its stalls and late commits do.    *)
(***************************************************************************)
EXTENDS Naturals, FiniteSets

CONSTANTS Message,   \* messages that may be sent, ordered as their ids are
          User,      \* users of the chat
          Founder,   \* the user who is in a group from its creation
          Request,   \* requests under way at the same time
          MaxClock,  \* bound: readings of the clock
          MaxOps,    \* bound: requests of MarkAsRead, HideChat and joining
          None       \* no user

ASSUME UnreadAssumption ==
  /\ Message \subseteq Nat /\ IsFiniteSet(Message)
  /\ Founder \in User
  /\ MaxClock \in Nat \ {0}
  /\ MaxOps \in Nat
  /\ None \notin User

VARIABLES kind,     \* type of the chat
          clock,
          message,  \* the messages and their outbox rows
          member,   \* user1_* and user2_* of private_chats, or group_members
          last,     \* chats.last_message_at
          request,  \* requests that have read the clock and not yet written
          ops,      \* requests so far
          raced     \* history: users for whom a message came between reading the clock
                    \* and writing, or whose own message was committed late

vars == <<kind, clock, message, member, last, request, ops, raced>>

MessageState ==
  [status : {"absent", "writing", "open", "claimed", "projected", "gone"},
   at     : Nat,
   sender : User \cup {None}]

\* A time of 0 is NULL.
MemberState ==
  [present : BOOLEAN, joined : Nat, count : Nat, read : Nat, hidden : Nat]

RequestState == [op : {"none", "read", "hide", "join"}, user : User \cup {None}, time : Nat]

NoRequest == [op |-> "none", user |-> None, time |-> 0]

TypeOK ==
  /\ kind \in {"private", "group"}
  /\ clock \in 1..MaxClock
  /\ message \in [Message -> MessageState]
  /\ member \in [User -> MemberState]
  /\ last \in Nat
  /\ request \in [Request -> RequestState]
  /\ ops \in 0..MaxOps
  /\ raced \subseteq User

Init ==
  /\ kind \in {"private", "group"}
  /\ clock = 1
  /\ message = [m \in Message |-> [status |-> "absent", at |-> 0, sender |-> None]]
  /\ member = [u \in User |->
                 [present |-> kind = "private" \/ u = Founder,
                  joined |-> 0, count |-> 0, read |-> 0, hidden |-> 0]]
  /\ last = 0
  /\ request = [r \in Request |-> NoRequest]
  /\ ops = 0
  /\ raced = {}

-----------------------------------------------------------------------------
(* Sending *)

\* The order in which rows of a chat are claimed: created_at, then id.
Before(m, q) ==
  message[m].at < message[q].at \/ (message[m].at = message[q].at /\ m < q)

Tick ==
  /\ clock < MaxClock
  /\ clock' = clock + 1
  /\ UNCHANGED <<kind, message, member, last, request, ops, raced>>

SendMessage(m, u) ==
  /\ message[m].status = "absent"
  /\ member[u].present
  /\ message' = [message EXCEPT ![m] = [status |-> "writing", at |-> clock, sender |-> u]]
  /\ UNCHANGED <<kind, clock, member, last, request, ops, raced>>

CommitMessage(m) ==
  /\ message[m].status = "writing"
  /\ message' = [message EXCEPT ![m].status = "open"]
  /\ raced' = IF \E q \in Message : Before(m, q) /\ message[q].status \in {"claimed", "projected"}
              THEN raced \cup {message[m].sender}
              ELSE raced
  /\ UNCHANGED <<kind, clock, member, last, request, ops>>

\* The transaction fails, or the row is given up before it was projected.
LoseMessage(m) ==
  /\ message[m].status \in {"writing", "claimed"}
  /\ message' = [message EXCEPT ![m].status = "gone"]
  /\ UNCHANGED <<kind, clock, member, last, request, ops, raced>>

-----------------------------------------------------------------------------
(* Projection *)

\* Mutant: a message the user has hidden the chat after still counts.
UnreadCountAfterHidden(x, at) == IF x.read >= at THEN x.count ELSE x.count + 1

\* unreadCountAfterProjection; group members have no hidden_at.
UnreadCountAfterProjection(x, at) ==
  IF x.read >= at \/ x.hidden >= at THEN x.count ELSE x.count + 1

\* Mutant: sending takes one message off the counter.
SenderReadsOne(x, at) ==
  IF x.read >= at THEN x ELSE [x EXCEPT !.count = @ - 1, !.read = at]

\* senderUnreadAfterProjection and readAtAfterProjection: sending reads the chat.
SenderAfterProjection(x, at) ==
  IF x.read >= at THEN x ELSE [x EXCEPT !.count = 0, !.read = at]

\* Mutant: joined_at must be before the message.
CountsForJoined(x, at) == x.present /\ x.joined < at

\* The rows the projection updates: both users of a private chat, the members
\* who had joined a group.
CountsFor(x, at) == x.present /\ x.joined <= at

ProjectUnread(m) ==
  LET at == message[m].at IN
  member' = [u \in User |->
    IF ~CountsFor(member[u], at) THEN member[u]
    ELSE IF u = message[m].sender THEN SenderAfterProjection(member[u], at)
    ELSE [member[u] EXCEPT !.count = UnreadCountAfterProjection(member[u], at)]]

\* Mutant: the metadata of the chat follow every message.
LastAfterAlways(at) == at

LastAfter(at) == IF last < at THEN at ELSE last

\* Claim takes the head of the chat; a row committed since does not stop the
\* projection of one already claimed.
ClaimRow(m) ==
  /\ message[m].status = "open"
  /\ \A q \in Message : message[q].status \in {"open", "claimed"} => ~Before(q, m)
  /\ message' = [message EXCEPT ![m].status = "claimed"]
  /\ UNCHANGED <<kind, clock, member, last, request, ops, raced>>

Project(m) ==
  /\ message[m].status = "claimed"
  /\ message' = [message EXCEPT ![m].status = "projected"]
  /\ ProjectUnread(m)
  /\ last' = LastAfter(message[m].at)
  /\ UNCHANGED <<kind, clock, request, ops, raced>>

-----------------------------------------------------------------------------
(* MarkAsRead, HideChat and joining: the clock is read, then the row written *)

Start(r, op, u) ==
  /\ request[r].op = "none"
  /\ ops < MaxOps
  /\ ops' = ops + 1
  /\ request' = [request EXCEPT ![r] = [op |-> op, user |-> u, time |-> clock]]
  /\ UNCHANGED <<kind, clock, message, member, last, raced>>

StartMarkAsRead(r, u) == member[u].present /\ Start(r, "read", u)

StartHideChat(r, u) == kind = "private" /\ Start(r, "hide", u)

StartJoin(r, u) == kind = "group" /\ ~member[u].present /\ Start(r, "join", u)

SentAfter(t) == \E m \in Message : message[m].at > t

Written(r, u, x) ==
  /\ member' = [member EXCEPT ![u] = x]
  /\ request' = [request EXCEPT ![r] = NoRequest]
  /\ UNCHANGED <<kind, clock, message, last, ops>>

FinishMarkAsRead(r) ==
  LET u == request[r].user
      t == request[r].time
  IN
  /\ request[r].op = "read"
  /\ Written(r, u, [member[u] EXCEPT !.count = 0, !.read = t])
  /\ raced' = IF SentAfter(t) THEN raced \cup {u} ELSE raced

FinishHideChat(r) ==
  LET u == request[r].user
      t == request[r].time
  IN
  /\ request[r].op = "hide"
  /\ Written(r, u, [member[u] EXCEPT !.count = 0, !.hidden = t])
  /\ raced' = IF SentAfter(t) THEN raced \cup {u} ELSE raced

\* The unique index on (group, user) refuses a second row.
FinishJoin(r) ==
  LET u == request[r].user
      t == request[r].time
  IN
  /\ request[r].op = "join"
  /\ ~member[u].present
  /\ Written(r, u, [present |-> TRUE, joined |-> t, count |-> 0, read |-> 0, hidden |-> 0])
  /\ raced' = IF \E m \in Message : message[m].at >= t THEN raced \cup {u} ELSE raced

\* An error: the transaction is rolled back.
Fail(r) ==
  /\ request[r].op # "none"
  /\ request' = [request EXCEPT ![r] = NoRequest]
  /\ UNCHANGED <<kind, clock, message, member, last, ops, raced>>

-----------------------------------------------------------------------------
Next ==
  \/ Tick
  \/ \E m \in Message :
       \/ \E u \in User : SendMessage(m, u)
       \/ CommitMessage(m) \/ LoseMessage(m) \/ ClaimRow(m) \/ Project(m)
  \/ \E r \in Request :
       \/ \E u \in User : StartMarkAsRead(r, u) \/ StartHideChat(r, u) \/ StartJoin(r, u)
       \/ FinishMarkAsRead(r) \/ FinishHideChat(r) \/ FinishJoin(r) \/ Fail(r)

Spec == Init /\ [][Next]_vars

-----------------------------------------------------------------------------
(* Properties *)

\* The messages a counter stands for: projected, of others, since the user
\* joined, and neither read nor hidden by what the row says.
UnreadOf(u) ==
  {m \in Message :
     /\ message[m].status = "projected"
     /\ message[m].sender # u
     /\ message[m].at >= member[u].joined
     /\ message[m].at > member[u].read
     /\ message[m].at > member[u].hidden}

\* No phantom unread: a counter never exceeds the messages that are unread by
\* the row's own times, however MarkAsRead, HideChat, joining, sending and late
\* projections interleave, and although times may move backwards.
NoPhantomUnread ==
  \A u \in User : member[u].present => member[u].count <= Cardinality(UnreadOf(u))

\* A counter is exact unless a message was sent between a request's reading of
\* the clock and its UPDATE, or the user's own message was committed late.
CountExact ==
  \A u \in User :
    member[u].present /\ u \notin raced => member[u].count = Cardinality(UnreadOf(u))

\* Who has unread messages in a private chat sees the chat: the list shows it
\* when last_message_at is after hidden_at, and late projections do not move
\* last_message_at back.
UnreadIsVisible ==
  \A u \in User : member[u].count > 0 => last > member[u].hidden

=============================================================================
