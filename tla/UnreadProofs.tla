---------------------------- MODULE UnreadProofs ----------------------------
(***************************************************************************)
(* Theorems about Unread, for every set of messages, users and requests:   *)
(* its types, that no counter exceeds what is unread, that a counter no    *)
(* request raced is exact, and that unread messages keep a chat visible.   *)
(***************************************************************************)
EXTENDS Unread, FiniteSetTheorems, TLAPS

\* Rows are claimed and projected in the order of the chat: a row that still
\* waits comes after every row that was claimed, unless it was committed late
\* and its sender is known to have raced.
OrderInv ==
  \A m, q \in Message :
    /\ message[m].status \in {"open", "claimed"}
    /\ message[m].sender \notin raced
    /\ message[q].status \in {"claimed", "projected"}
    => ~Before(m, q)

\* Who sent a message, and who asked, is a user of the chat.
ActorInv ==
  /\ \A m \in Message : message[m].status # "absent" => message[m].sender \in User
  /\ \A r \in Request : request[r].op # "none" => request[r].user \in User

TypeInv == TypeOK /\ ActorInv

IInv == TypeInv /\ OrderInv /\ NoPhantomUnread /\ CountExact /\ UnreadIsVisible

-----------------------------------------------------------------------------
(* Types *)

LEMMA MessageUpdate ==
  ASSUME TypeOK, NEW m \in Message, NEW y \in MessageState,
         message' = [message EXCEPT ![m] = y]
  PROVE  /\ message' \in [Message -> MessageState]
         /\ message'[m] = y
         /\ \A q \in Message \ {m} : message'[q] = message[q]
  BY DEF TypeOK

\* A change of status keeps the time and the sender of the message.
LEMMA StatusUpdate ==
  ASSUME TypeOK, NEW m \in Message,
         NEW s \in {"absent", "writing", "open", "claimed", "projected", "gone"},
         message' = [message EXCEPT ![m].status = s]
  PROVE  /\ message' \in [Message -> MessageState]
         /\ message'[m].status = s
         /\ \A q \in Message \ {m} : message'[q] = message[q]
         /\ \A q \in Message : message'[q].at = message[q].at
                            /\ message'[q].sender = message[q].sender
  <1>1. message[m] \in MessageState
    BY DEF TypeOK
  <1>2. [message[m] EXCEPT !.status = s] \in MessageState
    BY <1>1 DEF MessageState
  <1>3. message' = [message EXCEPT ![m] = [message[m] EXCEPT !.status = s]]
    OBVIOUS
  <1>4. /\ message' \in [Message -> MessageState]
        /\ message'[m] = [message[m] EXCEPT !.status = s]
        /\ \A q \in Message \ {m} : message'[q] = message[q]
    BY <1>2, <1>3, MessageUpdate
  <1>5. /\ [message[m] EXCEPT !.status = s].status = s
        /\ [message[m] EXCEPT !.status = s].at = message[m].at
        /\ [message[m] EXCEPT !.status = s].sender = message[m].sender
    BY <1>1 DEF MessageState
  <1> QED
    BY <1>4, <1>5

\* Every user's row after a projection.
LEMMA ProjectedMember ==
  ASSUME TypeOK, NEW m \in Message, ProjectUnread(m), NEW u \in User
  PROVE  LET x  == member[u]
             y  == member'[u]
             at == message[m].at
         IN /\ y \in MemberState
            /\ y.present = x.present /\ y.joined = x.joined /\ y.hidden = x.hidden
            /\ ~CountsFor(x, at) => y = x
            /\ CountsFor(x, at) /\ u = message[m].sender =>
                 IF x.read >= at THEN y = x ELSE y.count = 0 /\ y.read = at
            /\ CountsFor(x, at) /\ u # message[m].sender =>
                 y.read = x.read /\ y.count = UnreadCountAfterProjection(x, at)
  <1> DEFINE x == member[u]
             y == member'[u]
             at == message[m].at
  <1>1. x \in MemberState /\ at \in Nat
    BY DEF TypeOK, MessageState
  <1>2. y = IF ~CountsFor(x, at) THEN x
            ELSE IF u = message[m].sender THEN SenderAfterProjection(x, at)
            ELSE [x EXCEPT !.count = UnreadCountAfterProjection(x, at)]
    BY DEF ProjectUnread
  <1>3. UnreadCountAfterProjection(x, at) \in Nat
    BY <1>1 DEF MemberState, UnreadCountAfterProjection
  <1> HIDE DEF x, y, at
  <1>4. CASE ~CountsFor(x, at)
    BY <1>1, <1>2, <1>4 DEF x, y, at
  <1>5. CASE CountsFor(x, at) /\ u = message[m].sender
    <2>1. y = SenderAfterProjection(x, at)
      BY <1>2, <1>5
    <2>2. CASE x.read >= at
      <3>1. y = x
        BY <2>1, <2>2 DEF SenderAfterProjection
      <3> QED
        BY <1>1, <1>5, <2>2, <3>1 DEF x, y, at
    <2>3. CASE ~(x.read >= at)
      <3>1. y = [x EXCEPT !.count = 0, !.read = at]
        BY <2>1, <2>3 DEF SenderAfterProjection
      <3>2. /\ y \in MemberState /\ y.count = 0 /\ y.read = at
            /\ y.present = x.present /\ y.joined = x.joined /\ y.hidden = x.hidden
        BY <1>1, <3>1 DEF MemberState
      <3> QED
        BY <1>5, <2>3, <3>2 DEF x, y, at
    <2> QED
      BY <2>2, <2>3
  <1>6. CASE CountsFor(x, at) /\ u # message[m].sender
    <2>1. y = [x EXCEPT !.count = UnreadCountAfterProjection(x, at)]
      BY <1>2, <1>6
    <2> QED
      BY <1>1, <1>3, <1>6, <2>1 DEF MemberState, x, y, at
  <1> QED
    BY <1>4, <1>5, <1>6

\* The row a request writes, and the request it ends.
LEMMA WrittenMember ==
  ASSUME TypeOK, NEW r \in Request, NEW u \in User, NEW x \in MemberState, Written(r, u, x)
  PROVE  /\ member' \in [User -> MemberState]
         /\ member'[u] = x
         /\ \A v \in User \ {u} : member'[v] = member[v]
         /\ request' \in [Request -> RequestState]
  BY DEF TypeOK, Written, RequestState, NoRequest

\* What the three requests write, and for whom.
LEMMA RequestRow ==
  ASSUME TypeOK, NEW r \in Request
  PROVE  LET u == request[r].user
             t == request[r].time
         IN /\ t \in Nat
            /\ \A op \in {"read", "hide", "join"} : request[r].op = op /\ u \in User =>
                 /\ [member[u] EXCEPT !.count = 0, !.read = t] \in MemberState
                 /\ [member[u] EXCEPT !.count = 0, !.hidden = t] \in MemberState
                 /\ [present |-> TRUE, joined |-> t, count |-> 0, read |-> 0, hidden |-> 0]
                      \in MemberState
  BY DEF TypeOK, RequestState, MemberState

LEMMA InitType == Init => TypeInv
  <1>1. ASSUME Init PROVE TypeOK
    BY <1>1, UnreadAssumption DEF Init, TypeOK, MessageState, MemberState, RequestState, NoRequest
  <1>2. ASSUME Init PROVE ActorInv
    BY <1>2 DEF Init, ActorInv, NoRequest
  <1> QED
    BY <1>1, <1>2 DEF TypeInv

LEMMA SendMessageType ==
  ASSUME TypeInv, NEW m \in Message, NEW u \in User, SendMessage(m, u)
  PROVE  TypeInv'
  <1>1. TypeOK /\ ActorInv
    BY DEF TypeInv
  <1> DEFINE y == [status |-> "writing", at |-> clock, sender |-> u]
  <1>2. y \in MessageState /\ y.sender = u
    BY <1>1 DEF TypeOK, MessageState
  <1>3. message' = [message EXCEPT ![m] = y]
    BY DEF SendMessage
  <1> HIDE DEF y
  <1>4. /\ message' \in [Message -> MessageState] /\ message'[m] = y
        /\ \A q \in Message \ {m} : message'[q] = message[q]
    BY <1>1, <1>2, <1>3, MessageUpdate
  <1>5. TypeOK'
    BY <1>1, <1>4 DEF TypeOK, SendMessage
  <1>6. ActorInv'
    BY <1>1, <1>2, <1>4 DEF ActorInv, SendMessage
  <1> QED
    BY <1>5, <1>6 DEF TypeInv

\* Commit, claim and loss of a message change its status, and at most add its
\* sender to the users who raced.
LEMMA StatusType ==
  ASSUME TypeInv, NEW m \in Message, message[m].status # "absent",
         NEW s \in {"open", "claimed", "projected", "gone"},
         message' = [message EXCEPT ![m].status = s],
         UNCHANGED <<kind, clock, request, ops>>,
         member' \in [User -> MemberState], last' \in Nat,
         raced' \in {raced, raced \cup {message[m].sender}}
  PROVE  TypeInv'
  <1>1. TypeOK /\ ActorInv
    BY DEF TypeInv
  <1>2. /\ message' \in [Message -> MessageState]
        /\ \A q \in Message \ {m} : message'[q] = message[q]
        /\ \A q \in Message : message'[q].sender = message[q].sender
    BY <1>1, StatusUpdate
  <1>3. message[m].sender \in User
    BY <1>1 DEF ActorInv
  <1>4. TypeOK'
    BY <1>1, <1>2, <1>3 DEF TypeOK
  <1>5. ActorInv'
    BY <1>1, <1>2, <1>3 DEF ActorInv
  <1> QED
    BY <1>4, <1>5 DEF TypeInv

LEMMA ProjectType ==
  ASSUME TypeInv, NEW m \in Message, Project(m)
  PROVE  TypeInv'
  <1>1. TypeOK
    BY DEF TypeInv
  <1>2. member' = [u \in User |-> member'[u]]
    BY DEF Project, ProjectUnread
  <1>3. \A u \in User : member'[u] \in MemberState
    BY <1>1, ProjectedMember DEF Project
  <1>4. member' \in [User -> MemberState]
    BY <1>2, <1>3
  <1>5. last' \in Nat
    BY <1>1 DEF TypeOK, MessageState, Project, LastAfter
  <1> QED
    BY <1>4, <1>5, StatusType DEF Project

LEMMA StartType ==
  ASSUME TypeInv, NEW r \in Request, NEW u \in User, NEW op \in {"read", "hide", "join"},
         Start(r, op, u)
  PROVE  TypeInv'
  <1>1. TypeOK /\ ActorInv
    BY DEF TypeInv
  <1> DEFINE y == [op |-> op, user |-> u, time |-> clock]
  <1>2. y \in RequestState /\ y.user = u
    BY <1>1 DEF TypeOK, RequestState
  <1>3. request' = [request EXCEPT ![r] = y]
    BY DEF Start
  <1> HIDE DEF y
  <1>4. request' \in [Request -> RequestState]
    BY <1>1, <1>2, <1>3 DEF TypeOK
  <1>5. ops' \in 0..MaxOps
    BY <1>1, UnreadAssumption DEF TypeOK, Start
  <1>6. TypeOK'
    BY <1>1, <1>4, <1>5 DEF TypeOK, Start
  <1>7. ActorInv'
    BY <1>1, <1>2, <1>3 DEF ActorInv, TypeOK, Start
  <1> QED
    BY <1>6, <1>7 DEF TypeInv

\* The end of a request that writes x into the row of its user.
LEMMA FinishType ==
  ASSUME TypeInv, NEW r \in Request, request[r].op # "none", NEW x \in MemberState,
         Written(r, request[r].user, x),
         raced' \in {raced, raced \cup {request[r].user}}
  PROVE  TypeInv'
  <1>1. TypeOK /\ ActorInv
    BY DEF TypeInv
  <1>2. request[r].user \in User
    BY <1>1 DEF ActorInv
  <1>3. member' \in [User -> MemberState] /\ request' \in [Request -> RequestState]
    BY <1>1, <1>2, WrittenMember
  <1>4. TypeOK'
    BY <1>1, <1>2, <1>3 DEF TypeOK, Written
  <1>5. ActorInv'
    BY <1>1 DEF ActorInv, TypeOK, Written, NoRequest
  <1> QED
    BY <1>4, <1>5 DEF TypeInv

LEMMA FailType ==
  ASSUME TypeInv, NEW r \in Request, Fail(r)
  PROVE  TypeInv'
  <1>1. TypeOK'
    BY DEF TypeInv, TypeOK, Fail, RequestState, NoRequest
  <1>2. ActorInv'
    BY DEF TypeInv, TypeOK, ActorInv, Fail, NoRequest
  <1> QED
    BY <1>1, <1>2 DEF TypeInv

LEMMA StepType == TypeInv /\ [Next]_vars => TypeInv'
  <1> SUFFICES ASSUME TypeInv, [Next]_vars PROVE TypeInv'
    OBVIOUS
  <1>0. TypeOK /\ ActorInv
    BY DEF TypeInv
  <1>1. CASE Tick
    BY <1>0, <1>1, UnreadAssumption DEF Tick, TypeInv, TypeOK, ActorInv
  <1>2. ASSUME NEW m \in Message, NEW u \in User, SendMessage(m, u) PROVE TypeInv'
    BY <1>2, SendMessageType
  <1>3. ASSUME NEW m \in Message, CommitMessage(m) PROVE TypeInv'
    BY <1>0, <1>3, StatusType DEF CommitMessage, TypeOK
  <1>4. ASSUME NEW m \in Message, LoseMessage(m) PROVE TypeInv'
    BY <1>0, <1>4, StatusType DEF LoseMessage, TypeOK
  <1>5. ASSUME NEW m \in Message, ClaimRow(m) PROVE TypeInv'
    BY <1>0, <1>5, StatusType DEF ClaimRow, TypeOK
  <1>6. ASSUME NEW m \in Message, Project(m) PROVE TypeInv'
    BY <1>6, ProjectType
  <1>7. ASSUME NEW r \in Request, NEW u \in User,
               StartMarkAsRead(r, u) \/ StartHideChat(r, u) \/ StartJoin(r, u)
        PROVE  TypeInv'
    BY <1>7, StartType DEF StartMarkAsRead, StartHideChat, StartJoin
  <1>8. ASSUME NEW r \in Request, FinishMarkAsRead(r) PROVE TypeInv'
    <2>1. request[r].user \in User
      BY <1>0, <1>8 DEF ActorInv, FinishMarkAsRead
    <2> QED
      BY <1>0, <1>8, <2>1, RequestRow, FinishType DEF FinishMarkAsRead
  <1>9. ASSUME NEW r \in Request, FinishHideChat(r) PROVE TypeInv'
    <2>1. request[r].user \in User
      BY <1>0, <1>9 DEF ActorInv, FinishHideChat
    <2> QED
      BY <1>0, <1>9, <2>1, RequestRow, FinishType DEF FinishHideChat
  <1>10. ASSUME NEW r \in Request, FinishJoin(r) PROVE TypeInv'
    <2>1. request[r].user \in User
      BY <1>0, <1>10 DEF ActorInv, FinishJoin
    <2> QED
      BY <1>0, <1>10, <2>1, RequestRow, FinishType DEF FinishJoin
  <1>11. ASSUME NEW r \in Request, Fail(r) PROVE TypeInv'
    BY <1>11, FailType
  <1>12. CASE UNCHANGED vars
    BY <1>0, <1>12 DEF vars, TypeInv, TypeOK, ActorInv
  <1> QED
    BY <1>1, <1>2, <1>3, <1>4, <1>5, <1>6, <1>7, <1>8, <1>9, <1>10, <1>11, <1>12 DEF Next

\* Every reachable state of a chat, its counters and the requests against it is
\* well typed: in particular no counter becomes negative.
THEOREM TypeCorrect == Spec => []TypeOK
  <1>1. TypeInv => TypeOK
    BY DEF TypeInv
  <1> QED
    BY InitType, StepType, <1>1, PTL DEF Spec

-----------------------------------------------------------------------------
(* The order of the chat *)

\* A step that neither opens nor claims a row keeps the order.
LEMMA OrderKept ==
  ASSUME OrderInv, raced \subseteq raced',
         \A q \in Message :
           /\ message'[q].status \in {"open", "claimed"} =>
                message[q].status \in {"open", "claimed"} /\ message'[q] = message[q]
           /\ message'[q].status \in {"claimed", "projected"} =>
                /\ message[q].status \in {"claimed", "projected"}
                /\ message'[q].at = message[q].at
  PROVE  OrderInv'
  BY DEF OrderInv, Before

\* A row that opens behind a claimed one makes its sender one who raced.
LEMMA CommitOrder ==
  ASSUME TypeInv, OrderInv, NEW m \in Message, CommitMessage(m)
  PROVE  OrderInv' /\ raced \subseteq raced'
  <1>1. /\ message'[m].status = "open"
        /\ \A q \in Message \ {m} : message'[q] = message[q]
        /\ \A q \in Message : message'[q].at = message[q].at
                           /\ message'[q].sender = message[q].sender
    BY StatusUpdate DEF TypeInv, CommitMessage
  <1>2. raced \subseteq raced'
    BY DEF CommitMessage
  <1>3. ASSUME NEW n \in Message, NEW q \in Message,
               message'[n].status \in {"open", "claimed"}, message'[n].sender \notin raced',
               message'[q].status \in {"claimed", "projected"}
        PROVE  ~Before(n, q)'
    <2>1. q # m /\ message[q].status \in {"claimed", "projected"}
      BY <1>1, <1>3
    <2>2. ~Before(n, q)
      <3>1. CASE n = m
        BY <1>1, <1>3, <2>1, <3>1 DEF CommitMessage
      <3>2. CASE n # m
        BY <1>1, <1>2, <1>3, <2>1, <3>2 DEF OrderInv
      <3> QED
        BY <3>1, <3>2
    <2> QED
      BY <1>1, <2>2 DEF Before
  <1> QED
    BY <1>2, <1>3 DEF OrderInv

\* Claim takes the head of the chat.
LEMMA ClaimOrder ==
  ASSUME TypeInv, OrderInv, NEW m \in Message, ClaimRow(m)
  PROVE  OrderInv'
  <1>1. /\ message'[m].status = "claimed"
        /\ \A q \in Message \ {m} : message'[q] = message[q]
        /\ \A q \in Message : message'[q].at = message[q].at
                           /\ message'[q].sender = message[q].sender
    BY StatusUpdate DEF TypeInv, ClaimRow
  <1>2. ASSUME NEW n \in Message, NEW q \in Message,
               message'[n].status \in {"open", "claimed"}, message'[n].sender \notin raced',
               message'[q].status \in {"claimed", "projected"}
        PROVE  ~Before(n, q)'
    <2>1. message[n].status \in {"open", "claimed"} /\ message[n].sender \notin raced
      BY <1>1, <1>2 DEF ClaimRow
    <2>2. ~Before(n, q)
      <3>1. CASE q = m
        BY <2>1, <3>1 DEF ClaimRow
      <3>2. CASE q # m
        BY <1>1, <1>2, <2>1, <3>2 DEF OrderInv
      <3> QED
        BY <3>1, <3>2
    <2> QED
      BY <1>1, <2>2 DEF Before
  <1> QED
    BY <1>2 DEF OrderInv

-----------------------------------------------------------------------------
(* Counters *)

Counted == NoPhantomUnread /\ CountExact /\ UnreadIsVisible

LEMMA UnreadFinite ==
  ASSUME NEW S \in SUBSET Message
  PROVE  IsFiniteSet(S) /\ Cardinality(S) \in Nat
  BY UnreadAssumption, FS_Subset, FS_CardinalityType

\* Steps that project nothing and write no row of a member.
LEMMA CountedKept ==
  ASSUME Counted, member' = member, last' = last, raced \subseteq raced',
         \A q \in Message :
           /\ message'[q].status = "projected" <=> message[q].status = "projected"
           /\ message[q].status = "projected" => message'[q] = message[q]
  PROVE  Counted'
  <1>1. ASSUME NEW u \in User PROVE UnreadOf(u)' = UnreadOf(u)
    BY DEF UnreadOf
  <1> QED
    BY <1>1 DEF Counted, NoPhantomUnread, CountExact, UnreadIsVisible

\* A row is written with a counter of 0: it is exact unless some message is
\* unread by the new times, and that is a race.
LEMMA CountedReset ==
  ASSUME TypeInv, Counted, NEW u \in User, UNCHANGED <<message, last>>, raced \subseteq raced',
         member'[u].count = 0,
         \A v \in User \ {u} : member'[v] = member[v],
         UnreadOf(u)' = {} \/ u \in raced'
  PROVE  Counted'
  <1>1. \A v \in User \ {u} : UnreadOf(v)' = UnreadOf(v)
    BY DEF UnreadOf
  <1>2. UnreadOf(u)' \in SUBSET Message
    BY DEF UnreadOf
  <1>3. Cardinality(UnreadOf(u)') \in Nat
    BY <1>2, UnreadFinite
  <1>4. UnreadOf(u)' = {} => Cardinality(UnreadOf(u)') = 0
    BY FS_EmptySet
  <1>5. NoPhantomUnread'
    BY <1>1, <1>3 DEF Counted, NoPhantomUnread
  <1>6. CountExact'
    BY <1>1, <1>4 DEF Counted, CountExact
  <1>7. UnreadIsVisible'
    BY DEF Counted, UnreadIsVisible
  <1> QED
    BY <1>5, <1>6, <1>7 DEF Counted

\* A projection moves a counter exactly when it makes a message unread, and the
\* sender's own message clears it only up to messages that are read by then.
LEMMA ProjectCounted ==
  ASSUME TypeInv, OrderInv, Counted, NEW m \in Message, Project(m)
  PROVE  Counted'
  <1> DEFINE at == message[m].at
  <1>1. TypeOK /\ ActorInv
    BY DEF TypeInv
  <1>2. /\ message[m].status = "claimed" /\ message'[m].status = "projected"
        /\ \A q \in Message \ {m} : message'[q] = message[q]
        /\ \A q \in Message : message'[q].at = message[q].at
                           /\ message'[q].sender = message[q].sender
    BY <1>1, StatusUpdate DEF Project
  <1>3. at \in Nat /\ last' \in Nat /\ last \in Nat /\ last' >= at /\ last' >= last
    BY <1>1 DEF Project, LastAfter, TypeOK, MessageState
  <1>4. raced' = raced
    BY DEF Project
  <1>5. ASSUME NEW u \in User
        PROVE  /\ member'[u].present => member'[u].count <= Cardinality(UnreadOf(u)')
               /\ member'[u].present /\ u \notin raced =>
                    member'[u].count = Cardinality(UnreadOf(u)')
               /\ member'[u].count > 0 => last' > member'[u].hidden
    <2> DEFINE x == member[u]
               y == member'[u]
               S == UnreadOf(u)
               T == UnreadOf(u)'
    <2>1. x \in MemberState /\ y \in MemberState
      BY <1>1, ProjectedMember DEF TypeOK, Project
    <2>2. y.present = x.present /\ y.joined = x.joined /\ y.hidden = x.hidden
      BY <1>1, ProjectedMember DEF Project
    <2>3. S \in SUBSET Message /\ T \in SUBSET Message
      BY DEF UnreadOf
    <2>4. IsFiniteSet(S) /\ Cardinality(S) \in Nat /\ Cardinality(T) \in Nat
      BY <2>3, UnreadFinite
    <2>5. /\ x.present => x.count <= Cardinality(S)
          /\ x.present /\ u \notin raced => x.count = Cardinality(S)
          /\ x.count > 0 => last > x.hidden
      BY DEF Counted, NoPhantomUnread, CountExact, UnreadIsVisible
    <2>6. ASSUME y = x, ~(message[m].sender # u /\ at >= x.joined /\ at > x.read /\ at > x.hidden)
          PROVE  T = S
      BY <1>2, <2>6 DEF UnreadOf
    <2>7. m \notin S
      BY <1>2 DEF UnreadOf
    <2> HIDE DEF S, T
    <2>8. CASE ~CountsFor(x, at)
      <3>1. y = x
        BY <1>1, <2>8, ProjectedMember DEF Project
      <3>2. CASE x.present
        <4>1. T = S
          BY <1>3, <2>1, <2>6, <2>8, <3>1, <3>2 DEF CountsFor, MemberState
        <4> QED
          BY <1>3, <2>1, <2>4, <2>5, <3>1, <4>1 DEF T, MemberState
      <3>3. CASE ~x.present
        BY <1>3, <2>1, <2>5, <3>1, <3>3 DEF MemberState
      <3> QED
        BY <3>2, <3>3
    <2>9. CASE CountsFor(x, at) /\ u = message[m].sender /\ x.read >= at
      <3>1. y = x
        BY <1>1, <2>9, ProjectedMember DEF Project
      <3>2. T = S
        BY <2>6, <2>9, <3>1
      <3> QED
        BY <1>3, <2>1, <2>4, <2>5, <3>1, <3>2 DEF T, MemberState
    <2>10. CASE CountsFor(x, at) /\ u = message[m].sender /\ ~(x.read >= at)
      <3>1. y.count = 0 /\ y.read = at
        BY <1>1, <2>10, ProjectedMember DEF Project
      <3>2. ASSUME u \notin raced PROVE Cardinality(T) = 0
        <4>1. ASSUME NEW q \in Message, message'[q].status = "projected", message'[q].sender # u
              PROVE  ~(message'[q].at > at)
          <5>1. q # m /\ message[q].status = "projected"
            BY <1>2, <2>10, <4>1
          <5>2. ~Before(m, q)
            BY <1>2, <2>10, <3>2, <5>1 DEF OrderInv
          <5>3. message[q].at \in Nat
            BY <1>1 DEF TypeOK, MessageState
          <5> QED
            BY <1>2, <1>3, <5>2, <5>3 DEF Before
        <4>2. T = {}
          BY <3>1, <4>1 DEF T, UnreadOf
        <4> QED
          BY <4>2, FS_EmptySet
      <3> QED
        BY <2>4, <3>1, <3>2 DEF T
    <2>11. CASE CountsFor(x, at) /\ u # message[m].sender
      <3>1. y.read = x.read /\ y.count = UnreadCountAfterProjection(x, at)
        BY <1>1, <2>11, ProjectedMember DEF Project
      <3>2. CASE x.read >= at \/ x.hidden >= at
        <4>1. y.count = x.count
          BY <3>1, <3>2 DEF UnreadCountAfterProjection
        <4>2. ~(at > x.read /\ at > x.hidden)
          BY <1>3, <2>1, <3>2 DEF MemberState
        <4>3. T = S
          BY <1>2, <2>2, <3>1, <4>2 DEF S, T, UnreadOf
        <4> QED
          BY <1>3, <2>1, <2>2, <2>4, <2>5, <4>1, <4>3 DEF T, MemberState
      <3>3. CASE ~(x.read >= at \/ x.hidden >= at)
        <4>1. y.count = x.count + 1
          BY <3>1, <3>3 DEF UnreadCountAfterProjection
        <4>2. at > x.read /\ at > x.hidden /\ at >= x.joined
          BY <1>3, <2>1, <2>11, <3>3 DEF MemberState, CountsFor
        <4>3. T = S \cup {m}
          BY <1>2, <2>2, <2>11, <3>1, <4>2 DEF S, T, UnreadOf
        <4>4. Cardinality(T) = Cardinality(S) + 1
          BY <2>4, <2>7, <4>3, FS_AddElement
        <4> QED
          BY <1>3, <2>1, <2>2, <2>4, <2>5, <4>1, <4>2, <4>4 DEF T, MemberState
      <3> QED
        BY <3>2, <3>3
    <2> QED
      BY <2>8, <2>9, <2>10, <2>11
  <1> QED
    BY <1>4, <1>5 DEF Counted, NoPhantomUnread, CountExact, UnreadIsVisible

\* The end of a request: rows and order are as they were, one counter is reset.
LEMMA FinishSafe ==
  ASSUME IInv, NEW r \in Request, NEW x \in MemberState, NEW u \in User,
         Written(r, u, x), x.count = 0, raced \subseteq raced',
         \/ u \in raced'
         \/ \A m \in Message : ~(message[m].at >= x.joined /\ message[m].at > x.read
                                 /\ message[m].at > x.hidden)
  PROVE  OrderInv' /\ Counted'
  <1>1. TypeInv /\ TypeOK /\ Counted /\ OrderInv
    BY DEF IInv, TypeInv, Counted
  <1>2. member'[u] = x /\ \A v \in User \ {u} : member'[v] = member[v]
    BY <1>1, WrittenMember
  <1>3. UNCHANGED <<message, last>>
    BY DEF Written
  <1>4. UnreadOf(u)' = {} \/ u \in raced'
    BY <1>2, <1>3 DEF UnreadOf
  <1>5. Counted'
    BY <1>1, <1>2, <1>3, <1>4, CountedReset
  <1>6. OrderInv'
    BY <1>1, <1>3 DEF OrderInv, Before
  <1> QED
    BY <1>5, <1>6

LEMMA FinishMarkAsReadSafe ==
  ASSUME IInv, NEW r \in Request, FinishMarkAsRead(r)
  PROVE  OrderInv' /\ Counted'
  <1> DEFINE u == request[r].user
             t == request[r].time
             x == [member[u] EXCEPT !.count = 0, !.read = t]
  <1>1. TypeOK /\ ActorInv
    BY DEF IInv, TypeInv
  <1>2. u \in User
    BY <1>1 DEF ActorInv, FinishMarkAsRead
  <1>3. x \in MemberState
    BY <1>1, <1>2, RequestRow DEF FinishMarkAsRead
  <1>4. x.count = 0 /\ x.read = t
    BY <1>1, <1>2 DEF TypeOK, MemberState
  <1>5. raced \subseteq raced' /\ (u \in raced' \/ ~SentAfter(t))
    BY DEF FinishMarkAsRead
  <1>6. Written(r, u, x)
    BY DEF FinishMarkAsRead
  <1> HIDE DEF x
  <1> QED
    BY <1>2, <1>3, <1>4, <1>5, <1>6, FinishSafe DEF SentAfter

LEMMA FinishHideChatSafe ==
  ASSUME IInv, NEW r \in Request, FinishHideChat(r)
  PROVE  OrderInv' /\ Counted'
  <1> DEFINE u == request[r].user
             t == request[r].time
             x == [member[u] EXCEPT !.count = 0, !.hidden = t]
  <1>1. TypeOK /\ ActorInv
    BY DEF IInv, TypeInv
  <1>2. u \in User
    BY <1>1 DEF ActorInv, FinishHideChat
  <1>3. x \in MemberState
    BY <1>1, <1>2, RequestRow DEF FinishHideChat
  <1>4. x.count = 0 /\ x.hidden = t
    BY <1>1, <1>2 DEF TypeOK, MemberState
  <1>5. raced \subseteq raced' /\ (u \in raced' \/ ~SentAfter(t))
    BY DEF FinishHideChat
  <1>6. Written(r, u, x)
    BY DEF FinishHideChat
  <1> HIDE DEF x
  <1> QED
    BY <1>2, <1>3, <1>4, <1>5, <1>6, FinishSafe DEF SentAfter

LEMMA FinishJoinSafe ==
  ASSUME IInv, NEW r \in Request, FinishJoin(r)
  PROVE  OrderInv' /\ Counted'
  <1> DEFINE u == request[r].user
             t == request[r].time
             x == [present |-> TRUE, joined |-> t, count |-> 0, read |-> 0, hidden |-> 0]
  <1>1. TypeOK /\ ActorInv
    BY DEF IInv, TypeInv
  <1>2. u \in User
    BY <1>1 DEF ActorInv, FinishJoin
  <1>3. x \in MemberState
    BY <1>1, <1>2, RequestRow DEF FinishJoin
  <1>4. x.count = 0 /\ x.joined = t
    OBVIOUS
  <1>5. raced \subseteq raced' /\ (u \in raced' \/ \A m \in Message : ~(message[m].at >= t))
    BY DEF FinishJoin
  <1>6. Written(r, u, x)
    BY DEF FinishJoin
  <1> HIDE DEF x
  <1> QED
    BY <1>2, <1>3, <1>4, <1>5, <1>6, FinishSafe

-----------------------------------------------------------------------------
(* The invariant *)

LEMMA InitSafe == Init => IInv
  <1> SUFFICES ASSUME Init PROVE IInv
    OBVIOUS
  <1>1. TypeInv
    BY InitType
  <1>2. OrderInv
    BY DEF Init, OrderInv
  <1>3. \A u \in User : member[u].count = 0 /\ UnreadOf(u) = {}
    BY DEF Init, UnreadOf
  <1>4. Cardinality({}) = 0
    BY FS_EmptySet
  <1>5. \A u \in User : member[u].count = 0 /\ Cardinality(UnreadOf(u)) = 0
    BY <1>3, <1>4
  <1>6. NoPhantomUnread /\ CountExact /\ UnreadIsVisible
    BY <1>5, SMT DEF NoPhantomUnread, CountExact, UnreadIsVisible
  <1> QED
    BY <1>1, <1>2, <1>6 DEF IInv

LEMMA StepSafe == IInv /\ [Next]_vars => IInv'
  <1> SUFFICES ASSUME IInv, [Next]_vars PROVE IInv'
    OBVIOUS
  <1>0. TypeInv /\ TypeOK /\ ActorInv /\ OrderInv /\ Counted
    BY DEF IInv, TypeInv, Counted
  <1>1. TypeInv'
    BY <1>0, StepType
  <1> SUFFICES OrderInv' /\ Counted'
    BY <1>1 DEF IInv, Counted
  <1>2. CASE Tick
    BY <1>0, <1>2, OrderKept, CountedKept DEF Tick
  <1>3. ASSUME NEW m \in Message, NEW u \in User, SendMessage(m, u) PROVE OrderInv' /\ Counted'
    <2> DEFINE y == [status |-> "writing", at |-> clock, sender |-> u]
    <2>1. y \in MessageState /\ y.status = "writing"
      BY <1>0 DEF TypeOK, MessageState
    <2>2. message' = [message EXCEPT ![m] = y]
      BY <1>3 DEF SendMessage
    <2> HIDE DEF y
    <2>3. message'[m] = y /\ \A q \in Message \ {m} : message'[q] = message[q]
      BY <1>0, <2>1, <2>2, MessageUpdate
    <2>4. /\ \A q \in Message :
               /\ message'[q].status \in {"open", "claimed", "projected"} => message'[q] = message[q]
               /\ message'[q].status = "projected" <=> message[q].status = "projected"
          /\ raced' = raced /\ member' = member /\ last' = last
      BY <1>3, <2>1, <2>3 DEF SendMessage
    <2> QED
      BY <1>0, <2>4, OrderKept, CountedKept
  <1>4. ASSUME NEW m \in Message, CommitMessage(m) PROVE OrderInv' /\ Counted'
    <2>1. OrderInv' /\ raced \subseteq raced'
      BY <1>0, <1>4, CommitOrder
    <2>2. /\ message'[m].status = "open" /\ message[m].status = "writing"
          /\ \A q \in Message \ {m} : message'[q] = message[q]
      BY <1>0, <1>4, StatusUpdate DEF CommitMessage
    <2> QED
      BY <1>0, <1>4, <2>1, <2>2, CountedKept DEF CommitMessage
  <1>5. ASSUME NEW m \in Message, LoseMessage(m) PROVE OrderInv' /\ Counted'
    <2>1. /\ message'[m].status = "gone" /\ message[m].status # "projected"
          /\ \A q \in Message \ {m} : message'[q] = message[q]
      BY <1>0, <1>5, StatusUpdate DEF LoseMessage
    <2> QED
      BY <1>0, <1>5, <2>1, OrderKept, CountedKept DEF LoseMessage
  <1>6. ASSUME NEW m \in Message, ClaimRow(m) PROVE OrderInv' /\ Counted'
    <2>1. OrderInv'
      BY <1>0, <1>6, ClaimOrder
    <2>2. /\ message'[m].status = "claimed" /\ message[m].status # "projected"
          /\ \A q \in Message \ {m} : message'[q] = message[q]
      BY <1>0, <1>6, StatusUpdate DEF ClaimRow
    <2> QED
      BY <1>0, <1>6, <2>1, <2>2, CountedKept DEF ClaimRow
  <1>7. ASSUME NEW m \in Message, Project(m) PROVE OrderInv' /\ Counted'
    <2>1. /\ message'[m].status = "projected" /\ message[m].status = "claimed"
          /\ \A q \in Message \ {m} : message'[q] = message[q]
          /\ \A q \in Message : message'[q].at = message[q].at
      BY <1>0, <1>7, StatusUpdate DEF Project
    <2>2. OrderInv'
      BY <1>0, <1>7, <2>1, OrderKept DEF Project
    <2> QED
      BY <1>0, <1>7, <2>2, ProjectCounted
  <1>8. ASSUME NEW r \in Request, NEW u \in User,
               StartMarkAsRead(r, u) \/ StartHideChat(r, u) \/ StartJoin(r, u)
        PROVE  OrderInv' /\ Counted'
    <2>1. UNCHANGED <<message, member, last, raced>>
      BY <1>8 DEF StartMarkAsRead, StartHideChat, StartJoin, Start
    <2> QED
      BY <1>0, <2>1, OrderKept, CountedKept
  <1>9. ASSUME NEW r \in Request, FinishMarkAsRead(r) PROVE OrderInv' /\ Counted'
    BY <1>9, FinishMarkAsReadSafe
  <1>10. ASSUME NEW r \in Request, FinishHideChat(r) PROVE OrderInv' /\ Counted'
    BY <1>10, FinishHideChatSafe
  <1>11. ASSUME NEW r \in Request, FinishJoin(r) PROVE OrderInv' /\ Counted'
    BY <1>11, FinishJoinSafe
  <1>12. ASSUME NEW r \in Request, Fail(r) PROVE OrderInv' /\ Counted'
    BY <1>0, <1>12, OrderKept, CountedKept DEF Fail
  <1>13. CASE UNCHANGED vars
    BY <1>0, <1>13, OrderKept, CountedKept DEF vars
  <1> QED
    BY <1>2, <1>3, <1>4, <1>5, <1>6, <1>7, <1>8, <1>9, <1>10, <1>11, <1>12, <1>13 DEF Next

\* The inductive invariant holds of every reachable state.
THEOREM InvariantHolds == Spec => []IInv
  BY InitSafe, StepSafe, PTL DEF Spec

\* No counter ever exceeds the messages its row's own times leave unread: no
\* interleaving of MarkAsRead, HideChat, joining and late projections makes a
\* user see unread messages that are not there.
THEOREM NeverTooMany == Spec => []NoPhantomUnread
  <1>1. IInv => NoPhantomUnread
    BY DEF IInv
  <1> QED
    BY InvariantHolds, <1>1, PTL

\* A counter is exact unless a message was sent between a request's reading of
\* the clock and its UPDATE, or the user's own message was committed late: the
\* projection itself, in the order of the outbox, never loses or repeats one.
THEOREM ExactUnlessRaced == Spec => []CountExact
  <1>1. IInv => CountExact
    BY DEF IInv
  <1> QED
    BY InvariantHolds, <1>1, PTL

\* A chat with unread messages is on the user's list, whatever order hiding,
\* late commits and projections come in.
THEOREM UnreadShowsChat == Spec => []UnreadIsVisible
  <1>1. IInv => UnreadIsVisible
    BY DEF IInv
  <1> QED
    BY InvariantHolds, <1>1, PTL

=============================================================================
