---------------------------- MODULE GroupsProofs ----------------------------
(***************************************************************************)
(* Proofs about Groups: types, one owner, capacity, and who may change a   *)
(* membership, for any number of groups, users and concurrent requests.    *)
(***************************************************************************)
EXTENDS Groups, FiniteSetTheorems, TLAPS

\* An idle slot is a well-typed request (its fields are placeholders).
LEMMA IdleType == Idle \in RequestState /\ Idle.pc = "idle"
<1>1. AnyOf(User) \in User /\ AnyOf(Group) \in Group
  BY GroupsAssumption DEF AnyOf
<1> QED BY <1>1 DEF Idle, MakeRequest, RequestState, Locking

\* An idle slot is about nothing.
LEMMA IdleWellFormed == WellFormed(Idle)
BY DEF Idle, MakeRequest, WellFormed

\* A membership operation that begins puts a well-formed request in its slot.
LEMMA BeginStep ==
  ASSUME NEW r \in Request, NEW op \in Locking, NEW u \in User, NEW g \in Group,
         NEW users \in SUBSET User, NEW new \in {"member", "admin"},
         Begin(r, op, u, g, users, new),
         op = "transfer" => \E v \in User \ {u} : users = {v}
  PROVE  \E q \in RequestState : q.pc # "commit" /\ WellFormed(q) /\ Start(r, q)
<1> DEFINE q == MakeRequest("lock", op, u, g, users, new, FALSE)
<1>2. Start(r, q) /\ group[g].state = "live"
  BY DEF Begin
<1>3. q \in RequestState /\ q.pc # "commit"
  BY DEF RequestState, MakeRequest
<1>4. WellFormed(q)
  BY <1>2 DEF WellFormed, MakeRequest
<1> QED BY <1>2, <1>3, <1>4

\* The step of a membership operation is a Begin with arguments of their types.
LEMMA MembershipIsBegin ==
  ASSUME NEW r \in Request, NEW u \in User, NEW g \in Group, MembershipRequest(r, u, g)
  PROVE  \E op \in Locking, users \in SUBSET User, new \in {"member", "admin"} :
           /\ Begin(r, op, u, g, users, new)
           /\ op = "transfer" => \E v \in User \ {u} : users = {v}
<1>1. CASE \E users \in SUBSET User : AddMember(r, u, g, users)
  BY <1>1 DEF AddMember, Locking
<1>2. CASE LeaveGroup(r, u, g)
  BY <1>2 DEF LeaveGroup, Locking
<1>3. CASE \E v \in User : KickMember(r, u, g, v) \/ TransferOwnership(r, u, g, v)
  <2>1. PICK v \in User : KickMember(r, u, g, v) \/ TransferOwnership(r, u, g, v)
    BY <1>3
  <2>2. {v} \in SUBSET User
    OBVIOUS
  <2>3. CASE KickMember(r, u, g, v)
    <3>1. Begin(r, "kick", u, g, {v}, "member")
      BY <2>3 DEF KickMember
    <3> QED BY <2>2, <3>1 DEF Locking
  <2>4. CASE TransferOwnership(r, u, g, v)
    <3>1. Begin(r, "transfer", u, g, {v}, "member") /\ v \in User \ {u}
      BY <2>4 DEF TransferOwnership
    <3> QED BY <2>2, <3>1 DEF Locking
  <2> QED BY <2>1, <2>3, <2>4
<1>4. CASE \E v \in User, new \in {"member", "admin"} : UpdateMemberRole(r, u, g, v, new)
  <2>1. PICK v \in User, new \in {"member", "admin"} : Begin(r, "role", u, g, {v}, new)
    BY <1>4 DEF UpdateMemberRole
  <2>2. {v} \in SUBSET User
    OBVIOUS
  <2> QED BY <2>1, <2>2 DEF Locking
<1>5. CASE JoinPublicGroup(r, u, g)
  BY <1>5 DEF JoinPublicGroup, Locking
<1>6. CASE \E code \in 1..nextCode : JoinGroupByInvite(r, u, g, code)
  BY <1>6 DEF JoinGroupByInvite, Locking
<1> QED BY <1>1, <1>2, <1>3, <1>4, <1>5, <1>6 DEF MembershipRequest

\* The other operations, too, leave a well-formed request behind.
LEMMA OtherStep ==
  ASSUME TypeOK, NEW r \in Request, NEW u \in User, NEW g \in Group, OtherRequest(r, u, g)
  PROVE  \E q \in RequestState : q.pc # "commit" /\ WellFormed(q) /\ Start(r, q)
<1> DEFINE Q(op, h, users, public) == MakeRequest("write", op, u, h, users, "member", public)
<1>0. ASSUME NEW op \in Unlocked, NEW h \in Group, NEW users \in SUBSET User, NEW public \in BOOLEAN,
             Start(r, Q(op, h, users, public)), WellFormed(Q(op, h, users, public))
      PROVE  \E q \in RequestState : q.pc # "commit" /\ WellFormed(q) /\ Start(r, q)
  <2>1. Q(op, h, users, public) \in RequestState /\ Q(op, h, users, public).pc # "commit"
    BY DEF RequestState, MakeRequest
  <2> QED BY <1>0, <2>1
<1>1. ASSUME NEW users \in SUBSET User, NEW public \in BOOLEAN, CreateGroupChat(r, u, g, users, public)
      PROVE  Start(r, Q("create", g, users, public)) /\ WellFormed(Q("create", g, users, public))
  <2>2. Start(r, Q("create", g, users, public))
    BY <1>1 DEF CreateGroupChat
  <2>3. Cardinality(users) < MaxGroupMembers /\ u \notin users
    BY <1>1 DEF CreateGroupChat
  <2>4. WellFormed(Q("create", g, users, public))
    BY <2>3 DEF WellFormed, MakeRequest, Unlocked
  <2> QED BY <2>2, <2>4
<1>2. ASSUME NEW public \in BOOLEAN, UpdateGroupChat(r, u, g, public)
      PROVE  Start(r, Q("update", g, {}, public)) /\ WellFormed(Q("update", g, {}, public))
  <2>2. Start(r, Q("update", g, {}, public)) /\ group[g].state = "live"
    BY <1>2 DEF UpdateGroupChat
  <2>3. WellFormed(Q("update", g, {}, public))
    BY <2>2 DEF WellFormed, MakeRequest, Unlocked
  <2> QED BY <2>2, <2>3
<1>3. ASSUME ResetInviteCode(r, u, g)
      PROVE  Start(r, Q("reset", g, {}, group[g].public)) /\ WellFormed(Q("reset", g, {}, group[g].public))
  <2>2. Start(r, Q("reset", g, {}, group[g].public)) /\ group[g].state = "live"
    BY <1>3 DEF ResetInviteCode
  <2>3. WellFormed(Q("reset", g, {}, group[g].public))
    BY <2>2 DEF WellFormed, MakeRequest, Unlocked
  <2> QED BY <2>2, <2>3
<1>4. ASSUME DeleteGroup(r, u, g)
      PROVE  Start(r, Q("delete", g, {}, FALSE)) /\ WellFormed(Q("delete", g, {}, FALSE))
  <2>2. Start(r, Q("delete", g, {}, FALSE)) /\ group[g].state = "live"
    BY <1>4 DEF DeleteGroup
  <2>3. WellFormed(Q("delete", g, {}, FALSE))
    BY <2>2 DEF WellFormed, MakeRequest, Unlocked
  <2> QED BY <2>2, <2>3
<1>5. ASSUME DeleteAccount(r, u)
      PROVE  Start(r, Q("account", AnyOf(Group), {}, FALSE)) /\ WellFormed(Q("account", AnyOf(Group), {}, FALSE))
  <2>2. Start(r, Q("account", AnyOf(Group), {}, FALSE))
    BY <1>5 DEF DeleteAccount
  <2>3. WellFormed(Q("account", AnyOf(Group), {}, FALSE))
    BY DEF WellFormed, MakeRequest, Unlocked
  <2> QED BY <2>2, <2>3
<1>6. AnyOf(Group) \in Group /\ group[g].public \in BOOLEAN
  BY GroupsAssumption DEF AnyOf, TypeOK, GroupState
<1> HIDE DEF Q
<1>7. CASE \E users \in SUBSET User, public \in BOOLEAN : CreateGroupChat(r, u, g, users, public)
  <2>1. PICK users \in SUBSET User, public \in BOOLEAN : CreateGroupChat(r, u, g, users, public)
    BY <1>7
  <2>2. Start(r, Q("create", g, users, public)) /\ WellFormed(Q("create", g, users, public))
    BY <1>1, <2>1
  <2> QED BY <1>0, <2>2 DEF Unlocked
<1>8. CASE \E public \in BOOLEAN : UpdateGroupChat(r, u, g, public)
  <2>1. PICK public \in BOOLEAN : UpdateGroupChat(r, u, g, public)
    BY <1>8
  <2>2. Start(r, Q("update", g, {}, public)) /\ WellFormed(Q("update", g, {}, public))
    BY <1>2, <2>1
  <2> QED BY <1>0, <2>2 DEF Unlocked
<1>9. CASE ResetInviteCode(r, u, g)
  BY <1>0, <1>3, <1>6, <1>9 DEF Unlocked
<1>10. CASE DeleteGroup(r, u, g)
  BY <1>0, <1>4, <1>10 DEF Unlocked
<1>11. CASE DeleteAccount(r, u)
  BY <1>0, <1>5, <1>6, <1>11 DEF Unlocked
<1> QED BY <1>7, <1>8, <1>9, <1>10, <1>11 DEF OtherRequest

\* Every request that comes in is typed and well formed, and holds no lock yet.
LEMMA RequestStep ==
  ASSUME TypeOK, NEW r \in Request, NEW u \in User, NEW g \in Group,
         MembershipRequest(r, u, g) \/ OtherRequest(r, u, g)
  PROVE  \E q \in RequestState : q.pc # "commit" /\ WellFormed(q) /\ Start(r, q)
<1>1. CASE MembershipRequest(r, u, g)
  <2>1. PICK op \in Locking, users \in SUBSET User, new \in {"member", "admin"} :
          /\ Begin(r, op, u, g, users, new)
          /\ op = "transfer" => \E v \in User \ {u} : users = {v}
    BY <1>1, MembershipIsBegin
  <2> QED BY <2>1, BeginStep
<1>2. CASE OtherRequest(r, u, g)
  BY <1>2, OtherStep
<1> QED BY <1>1, <1>2

-----------------------------------------------------------------------------
\* Type correctness, action by action.

\* A request that comes in keeps the types.
LEMMA StartType ==
  ASSUME TypeOK, NEW r \in Request, NEW q \in RequestState, Start(r, q)
  PROVE  TypeOK'
BY GroupsAssumption DEF TypeOK, Start

\* The end of the checks keeps the types.
LEMMA LockAndCheckType ==
  ASSUME TypeOK, NEW r \in Request, LockAndCheck(r)
  PROVE  TypeOK'
<1> DEFINE q == IF Permitted(req[r]) THEN [req[r] EXCEPT !.pc = "commit"] ELSE Idle
<1>1. req[r] \in RequestState
  BY DEF TypeOK
<1>2. q \in RequestState
  BY <1>1, IdleType DEF RequestState
<1>3. req' = [req EXCEPT ![r] = q] /\ UNCHANGED <<group, role, deleted, banned, blocked, nextCode, ops, changes>>
  BY DEF LockAndCheck
<1> HIDE DEF q
<1> QED BY <1>2, <1>3 DEF TypeOK

\* The role a commit writes is a role.
LEMMA RoleAfterType ==
  ASSUME TypeOK, NEW q \in RequestState, NEW u \in User
  PROVE  RoleAfter(q, u) \in Role
BY DEF TypeOK, RequestState, RoleAfter, Role

\* A commit keeps the types.
LEMMA CommitType ==
  ASSUME TypeOK, NEW r \in Request, Commit(r)
  PROVE  TypeOK'
<1> DEFINE f == [u \in User |-> RoleAfter(req[r], u)]
<1>1. req[r] \in RequestState /\ req[r].group \in Group
  BY DEF TypeOK, RequestState
<1>2. f \in [User -> Role]
  BY <1>1, RoleAfterType
<1>3. role' = [role EXCEPT ![req[r].group] = f] /\ req' = [req EXCEPT ![r] = Idle]
  BY DEF Commit
<1>4. UNCHANGED <<group, deleted, banned, blocked, nextCode, ops, changes>>
  BY DEF Commit
<1> HIDE DEF f
<1> QED BY <1>1, <1>2, <1>3, <1>4, IdleType DEF TypeOK

\* A request that is given up keeps the types.
LEMMA AbortType ==
  ASSUME TypeOK, NEW r \in Request, Abort(r)
  PROVE  TypeOK'
BY IdleType DEF TypeOK, Abort

\* The creation of a group keeps the types.
LEMMA CreateWriteType ==
  ASSUME TypeOK, NEW r \in Request, CreateWrite(r)
  PROVE  TypeOK'
<1> DEFINE q == req[r]
           n == [state |-> "live", public |-> q.public, code |-> nextCode,
                 expires |-> ~q.public, expired |-> FALSE]
           f == [u \in User |-> IF u = q.actor THEN "owner"
                                ELSE IF u \in q.users THEN "member" ELSE "none"]
<1>1. q.group \in Group /\ q.public \in BOOLEAN
  BY DEF TypeOK, RequestState
<1>2. n \in GroupState
  BY <1>1 DEF GroupState, TypeOK
<1>3. f \in [User -> Role]
  BY DEF Role
<1>4. /\ group' = [group EXCEPT ![q.group] = n]
      /\ role' = [role EXCEPT ![q.group] = f]
      /\ nextCode' = nextCode + 1
      /\ req' = [req EXCEPT ![r] = Idle]
      /\ UNCHANGED <<deleted, banned, blocked, ops, changes>>
  BY DEF CreateWrite
<1> HIDE DEF n, f
<1> QED BY <1>1, <1>2, <1>3, <1>4, IdleType DEF TypeOK

\* A change of visibility keeps the types, and groups that exist.
LEMMA UpdateWriteType ==
  ASSUME TypeOK, NEW r \in Request, UpdateWrite(r)
  PROVE  TypeOK' /\ \A g \in Group : group'[g].state = group[g].state
<1> DEFINE q == req[r]
           c == IF q.public THEN group[q.group].code ELSE nextCode
           n == [group[q.group] EXCEPT !.public = q.public, !.expires = ~q.public, !.expired = FALSE,
                                       !.code = c]
<1>1. q.group \in Group /\ q.public \in BOOLEAN /\ group[q.group] \in GroupState /\ nextCode \in Nat
  BY DEF TypeOK, RequestState
<1>2. c \in Nat
  BY <1>1 DEF GroupState
<1>3. n \in GroupState /\ n.state = group[q.group].state
  <2> HIDE DEF c
  <2> QED BY <1>1, <1>2 DEF GroupState
<1>4. /\ group' = [group EXCEPT ![q.group] = n]
      /\ nextCode' = nextCode + 1
      /\ req' = [req EXCEPT ![r] = Idle]
      /\ UNCHANGED <<role, deleted, banned, blocked, ops, changes>>
  BY DEF UpdateWrite
<1> HIDE DEF n
<1> QED BY <1>1, <1>3, <1>4, IdleType DEF TypeOK

\* So does a new invite code.
LEMMA ResetWriteType ==
  ASSUME TypeOK, NEW r \in Request, ResetWrite(r)
  PROVE  TypeOK' /\ \A g \in Group : group'[g].state = group[g].state
<1> DEFINE q == req[r]
           n == [group[q.group] EXCEPT !.code = nextCode, !.expires = ~q.public, !.expired = FALSE]
<1>1. q.group \in Group /\ q.public \in BOOLEAN /\ group[q.group] \in GroupState /\ nextCode \in Nat
  BY DEF TypeOK, RequestState
<1>2. n \in GroupState /\ n.state = group[q.group].state
  BY <1>1 DEF GroupState
<1>4. /\ group' = [group EXCEPT ![q.group] = n]
      /\ nextCode' = nextCode + 1
      /\ req' = [req EXCEPT ![r] = Idle]
      /\ UNCHANGED <<role, deleted, banned, blocked, ops, changes>>
  BY DEF ResetWrite
<1> HIDE DEF n
<1> QED BY <1>1, <1>2, <1>4, IdleType DEF TypeOK

\* A deletion marks one group.
LEMMA DeleteWriteType ==
  ASSUME TypeOK, NEW r \in Request, DeleteWrite(r)
  PROVE  /\ TypeOK'
         /\ \A g \in Group : group'[g].state = IF g = req[r].group THEN "deleted" ELSE group[g].state
<1> DEFINE q == req[r]
           n == [group[q.group] EXCEPT !.state = "deleted"]
<1>1. q.group \in Group /\ group[q.group] \in GroupState
  BY DEF TypeOK, RequestState
<1>2. n \in GroupState /\ n.state = "deleted"
  BY <1>1 DEF GroupState
<1>4. /\ group' = [group EXCEPT ![q.group] = n]
      /\ req' = [req EXCEPT ![r] = Idle]
      /\ UNCHANGED <<role, deleted, banned, blocked, nextCode, ops, changes>>
  BY DEF DeleteWrite
<1> HIDE DEF n
<1> QED BY <1>1, <1>2, <1>4, IdleType DEF TypeOK

\* The deletion of an account keeps the types.
LEMMA AccountWriteType ==
  ASSUME TypeOK, NEW r \in Request, AccountWrite(r)
  PROVE  TypeOK'
BY IdleType DEF TypeOK, AccountWrite, RequestState

\* The environment keeps the types, and groups that exist.
LEMMA EnvironmentType ==
  ASSUME TypeOK, Environment
  PROVE  TypeOK' /\ \A g \in Group : group'[g].state = group[g].state
<1>1. CASE \E u \in User : BanUser(u) \/ UnbanUser(u)
  BY <1>1, GroupsAssumption DEF TypeOK, BanUser, UnbanUser
<1>2. CASE \E u, v \in User : BlockUser(u, v) \/ UnblockUser(u, v)
  BY <1>2, GroupsAssumption DEF TypeOK, BlockUser, UnblockUser
<1>3. CASE \E g \in Group : InviteExpires(g)
  <2>1. PICK g \in Group : InviteExpires(g)
    BY <1>3
  <2> DEFINE n == [group[g] EXCEPT !.expired = TRUE]
  <2>2. n \in GroupState /\ n.state = group[g].state
    BY DEF TypeOK, GroupState
  <2>3. /\ group' = [group EXCEPT ![g] = n]
        /\ UNCHANGED <<role, deleted, banned, blocked, req, nextCode, ops, changes>>
    BY <2>1 DEF InviteExpires
  <2> HIDE DEF n
  <2> QED BY <2>2, <2>3 DEF TypeOK
<1> QED BY <1>1, <1>2, <1>3 DEF Environment

\* Every step keeps the types.
LEMMA NextType ==
  ASSUME TypeOK, [Next]_vars
  PROVE  TypeOK'
<1>1. CASE \E r \in Request, u \in User, g \in Group : MembershipRequest(r, u, g) \/ OtherRequest(r, u, g)
  <2>1. PICK r \in Request, u \in User, g \in Group : MembershipRequest(r, u, g) \/ OtherRequest(r, u, g)
    BY <1>1
  <2>2. PICK q \in RequestState : Start(r, q)
    BY <2>1, RequestStep
  <2> QED BY <2>2, StartType
<1>2. CASE \E r \in Request : LockAndCheck(r) \/ Commit(r) \/ Abort(r) \/ Write(r)
  BY <1>2, LockAndCheckType, CommitType, AbortType, CreateWriteType, UpdateWriteType, ResetWriteType,
     DeleteWriteType, AccountWriteType DEF Write
<1>3. CASE Environment
  BY <1>3, EnvironmentType
<1>4. CASE UNCHANGED vars
  BY <1>4 DEF vars, TypeOK
<1> QED BY <1>1, <1>2, <1>3, <1>4 DEF Next

-----------------------------------------------------------------------------
\* The inductive invariant.

IInv == TypeOK /\ LockInv /\ OneOwner /\ WithinCapacity

\* The members of a group are finitely many.
LEMMA ActiveFinite ==
  ASSUME NEW g \in Group
  PROVE  /\ IsFiniteSet(Active(g))
         /\ Cardinality(Active(g)) \in Nat
<1>1. Active(g) \subseteq User
  BY DEF Active
<1> QED BY <1>1, GroupsAssumption, FS_Subset, FS_CardinalityType

\* As accounts are deleted the members that count can only become fewer.
LEMMA ActiveShrinks ==
  ASSUME NEW g \in Group, role'[g] = role[g], deleted \subseteq deleted'
  PROVE  /\ Cardinality(Active(g)') \in Nat
         /\ Cardinality(Active(g)') <= Cardinality(Active(g))
<1>1. Active(g)' \subseteq Active(g)
  BY DEF Active
<1> QED BY <1>1, ActiveFinite, FS_Subset, FS_CardinalityType

\* What a request has checked under the lock stays true while the roles of its
\* group stay and accounts are only deleted.
LEMMA DecidedStays ==
  ASSUME TypeOK, NEW q \in RequestState, Decided(q),
         role'[q.group] = role[q.group], deleted \subseteq deleted'
  PROVE  Decided(q)'
<1>1. q.group \in Group /\ q.actor \in User /\ q.users \subseteq User
  BY DEF RequestState
<1>2. Newcomers(q)' = Newcomers(q) /\ Newcomers(q) \subseteq User
  BY <1>1 DEF Newcomers
<1>3. Cardinality(Newcomers(q)) \in Nat /\ Cardinality({q.actor}) \in Nat
  BY <1>1, <1>2, GroupsAssumption, FS_Subset, FS_CardinalityType, FS_Singleton
<1>4. \A n \in Nat : Cardinality(Active(q.group)) + n <= MaxGroupMembers
                       => Cardinality(Active(q.group)') + n <= MaxGroupMembers
  BY <1>1, ActiveShrinks, ActiveFinite, GroupsAssumption
<1>5. /\ HasRoom(q.group, Newcomers(q)) => HasRoom(q.group, Newcomers(q))'
      /\ HasRoom(q.group, {q.actor}) => HasRoom(q.group, {q.actor})'
  BY <1>2, <1>3, <1>4 DEF HasRoom
<1> QED BY <1>5 DEF Decided

\* A step that leaves the roles alone, brings no group into being and none out of
\* it, and locks no row, keeps the invariants.
LEMMA QuietStep ==
  ASSUME IInv, TypeOK',
         role' = role,
         deleted \subseteq deleted',
         \A g \in Group : group'[g].state = "absent" <=> group[g].state = "absent",
         \A s \in Request : req'[s] = req[s] \/ (req'[s].pc # "commit" /\ WellFormed(req'[s]))
  PROVE  IInv'
<1> USE DEF IInv
<1>1. \A r, s \in Request :
        req'[r].pc = "commit" /\ req'[s].pc = "commit" /\ req'[r].group = req'[s].group => r = s
  BY DEF LockInv
<1>2. ASSUME NEW s \in Request PROVE WellFormed(req[s])'
  <2>1. WellFormed(req'[s])
    BY DEF LockInv
  <2>2. req'[s].group \in Group
    BY DEF TypeOK, RequestState
  <2> QED BY <2>1, <2>2 DEF WellFormed
<1>3. ASSUME NEW s \in Request, req'[s].pc = "commit" PROVE Decided(req[s])'
  <2>1. req'[s] = req[s] /\ Decided(req[s]) /\ req[s] \in RequestState
    BY <1>3 DEF LockInv, TypeOK
  <2>2. Decided(req[s]) => role'[req[s].group] = role[req[s].group]
    OBVIOUS
  <2>3. PICK q \in RequestState : q = req[s]
    BY <2>1
  <2>4. Decided(q)'
    BY <2>1, <2>3, DecidedStays
  <2> QED BY <2>1, <2>3, <2>4 DEF Decided, HasRoom, Newcomers, Active
<1>4. \A g \in Group : group'[g].state = "absent" => \A u \in User : role'[g][u] = "none"
  BY DEF LockInv
<1>5. LockInv'
  BY <1>1, <1>2, <1>3, <1>4 DEF LockInv
<1>6. OneOwner'
  BY DEF OneOwner
<1>7. WithinCapacity'
  BY ActiveShrinks, ActiveFinite, GroupsAssumption DEF WithinCapacity
<1> QED BY <1>5, <1>6, <1>7

\* The checks under the lock keep the invariants: the row was free, and what
\* Permitted found is what Decided says.
LEMMA LockAndCheckInv ==
  ASSUME IInv, NEW r \in Request, LockAndCheck(r)
  PROVE  IInv'
<1> USE DEF IInv
<1>1. TypeOK' /\ req[r] \in RequestState /\ WellFormed(req[r])
  BY LockAndCheckType DEF TypeOK, LockInv
<1>2. /\ UNCHANGED <<group, role, deleted>>
      /\ req[r].pc = "lock"
      /\ RowFree(req[r].group)
      /\ req' = [req EXCEPT ![r] = IF Permitted(req[r]) THEN [req[r] EXCEPT !.pc = "commit"] ELSE Idle]
  BY DEF LockAndCheck
<1>3. CASE ~Permitted(req[r])
  <2>1. req' = [req EXCEPT ![r] = Idle]
    BY <1>2, <1>3
  <2>2. \A s \in Request : req'[s] = req[s] \/ (req'[s].pc # "commit" /\ WellFormed(req'[s]))
    BY <2>1, IdleType, IdleWellFormed DEF TypeOK
  <2> QED BY <1>1, <1>2, <2>2, QuietStep
<1>4. CASE Permitted(req[r])
  <2> DEFINE q == [req[r] EXCEPT !.pc = "commit"]
  <2>1. /\ req' = [req EXCEPT ![r] = q]
        /\ req'[r] = q
        /\ \A s \in Request \ {r} : req'[s] = req[s]
    BY <1>2, <1>4 DEF TypeOK
  <2>2. /\ q.pc = "commit" /\ q.op = req[r].op /\ q.actor = req[r].actor
        /\ q.group = req[r].group /\ q.users = req[r].users /\ q.role = req[r].role
    BY <1>1 DEF RequestState
  <2> HIDE DEF q
  <2>3. \A s, t \in Request :
          req'[s].pc = "commit" /\ req'[t].pc = "commit" /\ req'[s].group = req'[t].group => s = t
    BY <1>2, <2>1, <2>2 DEF LockInv, RowFree
  <2>4. WellFormed(q)
    BY <1>1, <1>2, <2>2 DEF WellFormed
  <2>5. Decided(q)
    <3>1. q.op \in Locking
      BY <2>2, <2>4 DEF WellFormed
    <3>2. q.users \subseteq User /\ role[q.group] \in [User -> Role]
      BY <1>1, <2>2 DEF TypeOK, RequestState
    <3>3. CASE q.op = "add"
      BY <1>4, <2>2, <3>3 DEF Permitted, AddPermitted, Decided, Newcomers, HasRoom
    <3>4. CASE q.op = "leave"
      BY <1>4, <2>2, <3>4 DEF Permitted, LeavePermitted, Decided
    <3>5. CASE q.op = "kick"
      BY <1>4, <2>2, <3>5 DEF Permitted, KickPermitted, Decided
    <3>6. CASE q.op = "role"
      BY <1>4, <2>2, <3>6 DEF Permitted, RolePermitted, Decided
    <3>7. CASE q.op = "transfer"
      BY <1>4, <2>2, <3>2, <3>7 DEF Permitted, TransferPermitted, Decided, Role
    <3>8. CASE q.op = "join"
      BY <1>4, <2>2, <3>8 DEF Permitted, JoinPermitted, Decided, HasRoom
    <3> QED BY <3>1, <3>3, <3>4, <3>5, <3>6, <3>7, <3>8 DEF Locking
  <2>6. ASSUME NEW s \in Request
        PROVE  WellFormed(req[s])'
    <3>1. WellFormed(req'[s])
      BY <2>1, <2>4 DEF LockInv
    <3> QED BY <1>2, <3>1 DEF WellFormed
  <2>7. ASSUME NEW s \in Request, req'[s].pc = "commit"
        PROVE  Decided(req[s])'
    <3>1. Decided(req'[s])
      BY <2>1, <2>5, <2>7 DEF LockInv
    <3> QED BY <1>2, <3>1 DEF Decided, HasRoom, Newcomers, Active
  <2>8. LockInv'
    BY <1>2, <2>3, <2>6, <2>7 DEF LockInv
  <2>9. OneOwner' /\ WithinCapacity'
    BY <1>2 DEF OneOwner, WithinCapacity, Active
  <2> QED BY <1>1, <2>8, <2>9
<1> QED BY <1>3, <1>4

\* What a commit does to the roles of its group.
LEMMA CommitRoles ==
  ASSUME IInv, NEW r \in Request, Commit(r)
  PROVE  /\ req[r] \in RequestState
         /\ req[r].group \in Group
         /\ req[r].actor \in User
         /\ req[r].users \subseteq User
         /\ req[r].op \in Locking
         /\ req[r].pc = "commit"
         /\ group[req[r].group].state # "absent"
         /\ Decided(req[r])
         /\ WellFormed(req[r])
         /\ \A u \in User : role'[req[r].group][u] = RoleAfter(req[r], u)
         /\ \A g \in Group \ {req[r].group} : role'[g] = role[g]
         /\ req' = [req EXCEPT ![r] = Idle]
         /\ UNCHANGED <<group, deleted>>
<1>1. req[r] \in RequestState /\ req[r].pc = "commit" /\ WellFormed(req[r]) /\ Decided(req[r])
  BY DEF IInv, LockInv, TypeOK, Commit
<1>2. req[r].op \in Locking /\ group[req[r].group].state # "absent"
  BY <1>1 DEF WellFormed
<1>3. req[r].group \in Group /\ req[r].actor \in User /\ req[r].users \subseteq User
  BY <1>1 DEF RequestState
<1>4. /\ role' = [role EXCEPT ![req[r].group] = [u \in User |-> RoleAfter(req[r], u)]]
      /\ req' = [req EXCEPT ![r] = Idle]
      /\ UNCHANGED <<group, deleted>>
  BY DEF Commit
<1>5. /\ \A u \in User : role'[req[r].group][u] = RoleAfter(req[r], u)
      /\ \A g \in Group \ {req[r].group} : role'[g] = role[g]
  BY <1>3, <1>4 DEF IInv, TypeOK
<1> QED BY <1>1, <1>2, <1>3, <1>4, <1>5

\* What a commit writes, operation by operation.
LEMMA RoleAfterCases ==
  ASSUME NEW q \in RequestState, NEW u \in User
  PROVE  /\ q.op = "add" => RoleAfter(q, u) = IF u \in Newcomers(q) THEN "member" ELSE role[q.group][u]
         /\ q.op = "join" => RoleAfter(q, u) = IF u = q.actor THEN "member" ELSE role[q.group][u]
         /\ q.op = "leave" => RoleAfter(q, u) = IF u = q.actor THEN "none" ELSE role[q.group][u]
         /\ q.op = "kick" => RoleAfter(q, u) = IF u \in q.users THEN "none" ELSE role[q.group][u]
         /\ q.op = "role" => RoleAfter(q, u) = IF u \in q.users THEN q.role ELSE role[q.group][u]
         /\ q.op = "transfer" /\ q.actor \notin q.users =>
              RoleAfter(q, u) = IF u = q.actor THEN "admin"
                                ELSE IF u \in q.users THEN "owner" ELSE role[q.group][u]
<1>1. CASE q.op = "add"
  BY <1>1 DEF RoleAfter
<1>2. CASE q.op = "join"
  BY <1>2 DEF RoleAfter
<1>3. CASE q.op = "leave"
  BY <1>3 DEF RoleAfter
<1>4. CASE q.op = "kick"
  BY <1>4 DEF RoleAfter
<1>5. CASE q.op = "role"
  BY <1>5 DEF RoleAfter
<1>6. CASE q.op = "transfer"
  <2>1. CASE u = q.actor
    BY <1>6, <2>1 DEF RoleAfter
  <2>2. CASE u # q.actor /\ u \in q.users
    BY <1>6, <2>2 DEF RoleAfter
  <2>3. CASE u # q.actor /\ u \notin q.users
    BY <1>6, <2>3 DEF RoleAfter
  <2> QED BY <2>1, <2>2, <2>3
<1>7. CASE q.op \notin Locking
  BY <1>7 DEF Locking
<1> QED BY <1>1, <1>2, <1>3, <1>4, <1>5, <1>6, <1>7 DEF Locking

\* A commit leaves the group with one owner: the same one, or the one the
\* ownership was transferred to.
LEMMA CommitOwner ==
  ASSUME IInv, NEW r \in Request, Commit(r)
  PROVE  OneOwner'
<1> DEFINE q == req[r]
           g == q.group
<1>1. PICK o \in User : role[g][o] = "owner" /\ \A v \in User : role[g][v] = "owner" => v = o
  BY CommitRoles DEF IInv, OneOwner
<1>2. /\ q \in RequestState /\ q.actor \in User /\ q.users \subseteq User
      /\ q.op \in Locking /\ q.pc = "commit" /\ Decided(q) /\ WellFormed(q)
      /\ \A u \in User : role'[g][u] = RoleAfter(q, u)
  BY CommitRoles
<1>3. \E p \in User : role'[g][p] = "owner" /\ \A v \in User : role'[g][v] = "owner" => v = p
  <2>1. CASE q.op = "add"
    <3>1. \A u \in User : role'[g][u] = IF u \in Newcomers(q) THEN "member" ELSE role[g][u]
      BY <1>2, <2>1, RoleAfterCases
    <3>2. o \notin Newcomers(q)
      BY <1>1 DEF Newcomers
    <3> QED BY <1>1, <3>1, <3>2
  <2>2. CASE q.op = "join"
    <3>1. \A u \in User : role'[g][u] = IF u = q.actor THEN "member" ELSE role[g][u]
      BY <1>2, <2>2, RoleAfterCases
    <3>2. o # q.actor
      BY <1>1, <1>2, <2>2 DEF Decided
    <3> QED BY <1>1, <3>1, <3>2
  <2>3. CASE q.op = "leave"
    <3>1. \A u \in User : role'[g][u] = IF u = q.actor THEN "none" ELSE role[g][u]
      BY <1>2, <2>3, RoleAfterCases
    <3>2. o # q.actor
      BY <1>1, <1>2, <2>3 DEF Decided
    <3> QED BY <1>1, <3>1, <3>2
  <2>4. CASE q.op = "kick"
    <3>1. \A u \in User : role'[g][u] = IF u \in q.users THEN "none" ELSE role[g][u]
      BY <1>2, <2>4, RoleAfterCases
    <3>2. o \notin q.users
      BY <1>1, <1>2, <2>4 DEF Decided
    <3> QED BY <1>1, <3>1, <3>2
  <2>5. CASE q.op = "role"
    <3>1. \A u \in User : role'[g][u] = IF u \in q.users THEN q.role ELSE role[g][u]
      BY <1>2, <2>5, RoleAfterCases
    <3>2. o = q.actor /\ o \notin q.users /\ q.role # "owner"
      BY <1>1, <1>2, <2>5 DEF Decided, RequestState
    <3> QED BY <1>1, <3>1, <3>2
  <2>6. CASE q.op = "transfer"
    <3>1. PICK p \in User \ {q.actor} : q.users = {p}
      BY <1>2, <2>6 DEF WellFormed
    <3>2. \A u \in User : role'[g][u] = IF u = q.actor THEN "admin"
                                        ELSE IF u \in q.users THEN "owner" ELSE role[g][u]
      BY <1>2, <2>6, <3>1, RoleAfterCases
    <3>3. o = q.actor
      BY <1>1, <1>2, <2>6 DEF Decided
    <3> QED BY <1>1, <3>1, <3>2, <3>3
  <2> QED BY <1>2, <2>1, <2>2, <2>3, <2>4, <2>5, <2>6 DEF Locking
<1>4. ASSUME NEW h \in Group, group'[h].state # "absent"
      PROVE  \E p \in User : role'[h][p] = "owner" /\ \A v \in User : role'[h][v] = "owner" => v = p
  <2>1. CASE h = g
    BY <1>3, <2>1
  <2>2. CASE h # g
    BY <1>4, <2>2, CommitRoles DEF IInv, OneOwner
  <2> QED BY <2>1, <2>2
<1> QED BY <1>4 DEF OneOwner

\* A commit leaves the group within its capacity: the places it takes were
\* counted under the lock it still holds.
LEMMA CommitCapacity ==
  ASSUME IInv, NEW r \in Request, Commit(r)
  PROVE  WithinCapacity'
<1> DEFINE q == req[r]
<1>0. PICK g \in Group : g = q.group
  BY CommitRoles
<1>1. /\ q \in RequestState /\ g \in Group /\ q.actor \in User /\ q.users \subseteq User
      /\ q.op \in Locking /\ Decided(q)
      /\ q.op = "transfer" => q.actor \notin q.users
      /\ \A u \in User : role'[g][u] = RoleAfter(q, u)
      /\ deleted' = deleted
  BY <1>0, CommitRoles DEF WellFormed
<1>2. /\ IsFiniteSet(Active(g)) /\ Cardinality(Active(g)) \in Nat
      /\ Cardinality(Active(g)) <= MaxGroupMembers
  BY <1>1, ActiveFinite DEF IInv, WithinCapacity
<1>3. ASSUME NEW S \in SUBSET User, Active(g)' \subseteq Active(g) \cup S, HasRoom(g, S)
      PROVE  Cardinality(Active(g)') <= MaxGroupMembers
  <2>1. IsFiniteSet(S) /\ Cardinality(S) \in Nat
    BY GroupsAssumption, FS_Subset, FS_CardinalityType
  <2>2. IsFiniteSet(Active(g) \cup S) /\ Cardinality(Active(g) \cup S) \in Nat
    BY <1>2, <2>1, FS_Union, FS_CardinalityType
  <2>3. Cardinality(Active(g) \cup S) <= Cardinality(Active(g)) + Cardinality(S)
    <3>1. Cardinality(Active(g) \cup S)
            = Cardinality(Active(g)) + Cardinality(S) - Cardinality(Active(g) \cap S)
      BY <1>2, <2>1, FS_Union
    <3>2. Cardinality(Active(g) \cap S) \in Nat
      BY <1>2, FS_Intersection, FS_CardinalityType
    <3> QED BY <1>2, <2>1, <2>2, <3>1, <3>2
  <2>4. IsFiniteSet(Active(g)') /\ Cardinality(Active(g)') <= Cardinality(Active(g) \cup S)
    BY <1>3, <2>2, FS_Subset
  <2>5. Cardinality(Active(g)') \in Nat
    BY <2>4, FS_CardinalityType
  <2> QED BY <1>2, <1>3, <2>1, <2>2, <2>3, <2>4, <2>5, GroupsAssumption DEF HasRoom
<1>4. HasRoom(g, {})
  BY <1>2, FS_EmptySet DEF HasRoom
<1>5. Cardinality(Active(g)') <= MaxGroupMembers
  <2>1. CASE q.op = "add"
    <3>1. \A u \in User : role'[g][u] = IF u \in Newcomers(q) THEN "member" ELSE role[g][u]
      BY <1>0, <1>1, <2>1, RoleAfterCases
    <3>2. Newcomers(q) \in SUBSET User /\ HasRoom(g, Newcomers(q))
      BY <1>0, <1>1, <2>1 DEF Newcomers, Decided
    <3>3. Active(g)' \subseteq Active(g) \cup Newcomers(q)
      BY <1>1, <3>1 DEF Active
    <3> QED BY <1>3, <3>2, <3>3
  <2>2. CASE q.op = "join"
    <3>1. \A u \in User : role'[g][u] = IF u = q.actor THEN "member" ELSE role[g][u]
      BY <1>0, <1>1, <2>2, RoleAfterCases
    <3>2. {q.actor} \in SUBSET User /\ HasRoom(g, {q.actor})
      BY <1>0, <1>1, <2>2 DEF Decided
    <3>3. Active(g)' \subseteq Active(g) \cup {q.actor}
      BY <1>1, <3>1 DEF Active
    <3> QED BY <1>3, <3>2, <3>3
  <2>3. CASE q.op \in {"leave", "kick", "role", "transfer"}
    <3>1. \A u \in User : role[g][u] = "none" => role'[g][u] = "none"
      BY <1>0, <1>1, <2>3, RoleAfterCases DEF Decided
    <3>2. Active(g)' \subseteq Active(g) \cup {}
      BY <1>1, <3>1 DEF Active
    <3> QED BY <1>3, <1>4, <3>2
  <2> QED BY <1>1, <2>1, <2>2, <2>3 DEF Locking
<1>6. ASSUME NEW h \in Group
      PROVE  Cardinality(Active(h)') <= MaxGroupMembers
  <2>1. CASE h = g
    BY <1>5, <2>1
  <2>2. CASE h # g
    <3>1. Active(h)' = Active(h)
      BY <1>0, <2>2, CommitRoles DEF Active
    <3> QED BY <3>1 DEF IInv, WithinCapacity
  <2> QED BY <2>1, <2>2
<1> QED BY <1>6 DEF WithinCapacity

\* A commit keeps the invariants: no other request holds the lock of its group.
LEMMA CommitInv ==
  ASSUME IInv, NEW r \in Request, Commit(r)
  PROVE  IInv'
<1>1. TypeOK'
  BY CommitType DEF IInv
<1>2. /\ req'[r] = Idle
      /\ \A s \in Request \ {r} : req'[s] = req[s]
      /\ UNCHANGED <<group, deleted>>
      /\ group[req[r].group].state # "absent"
      /\ \A g \in Group \ {req[r].group} : role'[g] = role[g]
  BY CommitRoles DEF IInv, TypeOK
<1>3. \A s, t \in Request :
        req'[s].pc = "commit" /\ req'[t].pc = "commit" /\ req'[s].group = req'[t].group => s = t
  BY <1>2, IdleType DEF IInv, LockInv
<1>4. ASSUME NEW s \in Request
      PROVE  WellFormed(req[s])'
  <2>1. WellFormed(req'[s])
    BY <1>2, IdleWellFormed DEF IInv, LockInv
  <2> QED BY <1>2, <2>1 DEF WellFormed
<1>5. ASSUME NEW s \in Request, req'[s].pc = "commit"
      PROVE  Decided(req[s])'
  <2>1. s # r /\ req'[s] = req[s]
    BY <1>2, <1>5, IdleType
  <2>2. PICK q \in RequestState : q = req[s]
    BY DEF IInv, TypeOK
  <2>3. q.group # req[r].group /\ q.group \in Group
    BY <1>5, <2>1, <2>2, CommitRoles DEF IInv, LockInv, RequestState
  <2>4. Decided(q) /\ role'[q.group] = role[q.group]
    BY <1>2, <1>5, <2>1, <2>2, <2>3 DEF IInv, LockInv
  <2>5. Decided(q)'
    BY <1>2, <2>4, DecidedStays DEF IInv
  <2> QED BY <2>1, <2>2, <2>5 DEF Decided, HasRoom, Newcomers, Active
<1>6. \A g \in Group : group'[g].state = "absent" => \A u \in User : role'[g][u] = "none"
  BY <1>2 DEF IInv, LockInv
<1>7. LockInv'
  BY <1>3, <1>4, <1>5, <1>6 DEF LockInv
<1> QED BY <1>1, <1>7, CommitOwner, CommitCapacity DEF IInv

\* The creation of a group keeps the invariants: the creator owns it, and there
\* is room for the members asked for.
LEMMA CreateWriteInv ==
  ASSUME IInv, NEW r \in Request, CreateWrite(r)
  PROVE  IInv'
<1>0. PICK q \in RequestState : q = req[r]
  BY DEF IInv, TypeOK
<1>1. TypeOK'
  BY CreateWriteType DEF IInv
<1>2. /\ q.group \in Group /\ q.actor \in User /\ q.users \subseteq User
      /\ q.pc = "write" /\ q.op = "create"
      /\ Cardinality(q.users) < MaxGroupMembers
      /\ group[q.group].state = "absent"
  BY <1>0 DEF CreateWrite, RequestState, IInv, LockInv, WellFormed
<1>3. /\ req'[r] = Idle
      /\ \A s \in Request \ {r} : req'[s] = req[s]
      /\ deleted' = deleted
      /\ group'[q.group].state = "live"
      /\ \A g \in Group \ {q.group} : role'[g] = role[g] /\ group'[g] = group[g]
      /\ \A u \in User : role'[q.group][u] = IF u = q.actor THEN "owner"
                                             ELSE IF u \in q.users THEN "member" ELSE "none"
  BY <1>0, <1>2 DEF CreateWrite, IInv, TypeOK
<1>4. \A s, t \in Request :
        req'[s].pc = "commit" /\ req'[t].pc = "commit" /\ req'[s].group = req'[t].group => s = t
  BY <1>3, IdleType DEF IInv, LockInv
<1>5. ASSUME NEW s \in Request
      PROVE  WellFormed(req[s])'
  <2>1. WellFormed(req'[s])
    BY <1>3, IdleWellFormed DEF IInv, LockInv
  <2>2. req'[s].group \in Group
    BY <1>1 DEF TypeOK, RequestState
  <2> QED BY <1>3, <2>1, <2>2 DEF WellFormed
<1>6. ASSUME NEW s \in Request, req'[s].pc = "commit"
      PROVE  Decided(req[s])'
  <2>1. s # r /\ req'[s] = req[s]
    BY <1>3, <1>6, IdleType
  <2>2. PICK p \in RequestState : p = req[s]
    BY DEF IInv, TypeOK
  <2>3. p.group # q.group /\ p.group \in Group
    BY <1>2, <1>6, <2>1, <2>2 DEF IInv, LockInv, WellFormed, RequestState
  <2>4. Decided(p) /\ role'[p.group] = role[p.group]
    BY <1>3, <1>6, <2>1, <2>2, <2>3 DEF IInv, LockInv
  <2>5. Decided(p)'
    BY <1>3, <2>4, DecidedStays DEF IInv
  <2> QED BY <2>1, <2>2, <2>5 DEF Decided, HasRoom, Newcomers, Active
<1>7. \A g \in Group : group'[g].state = "absent" => \A u \in User : role'[g][u] = "none"
  BY <1>3 DEF IInv, LockInv
<1>8. LockInv'
  BY <1>4, <1>5, <1>6, <1>7 DEF LockInv
<1>9. OneOwner'
  BY <1>2, <1>3 DEF IInv, OneOwner
<1>10. ASSUME NEW g \in Group
       PROVE  Cardinality(Active(g)') <= MaxGroupMembers
  <2>1. CASE g = q.group
    <3>1. Active(g)' \subseteq q.users \cup {q.actor}
      BY <1>3, <2>1 DEF Active
    <3>2. IsFiniteSet(q.users) /\ Cardinality(q.users) \in Nat
      BY <1>2, GroupsAssumption, FS_Subset, FS_CardinalityType
    <3>3. IsFiniteSet(q.users \cup {q.actor}) /\ Cardinality(q.users \cup {q.actor}) <= Cardinality(q.users) + 1
      <4> DEFINE c == Cardinality(q.users)
                 d == Cardinality(q.users \cup {q.actor})
      <4>1. IsFiniteSet(q.users \cup {q.actor}) /\ d = IF q.actor \in q.users THEN c ELSE c + 1
        BY <3>2, FS_AddElement
      <4>2. c \in Nat
        BY <3>2
      <4> HIDE DEF c, d
      <4>3. d <= c + 1
        BY <4>1, <4>2
      <4> QED BY <4>1, <4>3 DEF c, d
    <3>4. Cardinality(q.users \cup {q.actor}) \in Nat
      BY <3>3, FS_CardinalityType
    <3>5. Cardinality(Active(g)') <= Cardinality(q.users \cup {q.actor}) /\ Cardinality(Active(g)') \in Nat
      BY <3>1, <3>3, FS_Subset, FS_CardinalityType
    <3> QED BY <1>2, <3>2, <3>3, <3>4, <3>5, GroupsAssumption
  <2>2. CASE g # q.group
    <3>1. Active(g)' = Active(g)
      BY <1>3, <2>2 DEF Active
    <3> QED BY <3>1 DEF IInv, WithinCapacity
  <2> QED BY <2>1, <2>2
<1>11. WithinCapacity'
  BY <1>10 DEF WithinCapacity
<1> QED BY <1>1, <1>8, <1>9, <1>11 DEF IInv

\* Every step keeps the invariants.
LEMMA NextInv ==
  ASSUME IInv, [Next]_vars
  PROVE  IInv'
<1>0. TypeOK /\ TypeOK'
  BY NextType DEF IInv
<1>1. CASE \E r \in Request, u \in User, g \in Group : MembershipRequest(r, u, g) \/ OtherRequest(r, u, g)
  <2>1. PICK r \in Request, u \in User, g \in Group : MembershipRequest(r, u, g) \/ OtherRequest(r, u, g)
    BY <1>1
  <2>2. PICK q \in RequestState : q.pc # "commit" /\ WellFormed(q) /\ Start(r, q)
    BY <1>0, <2>1, RequestStep
  <2>3. \A s \in Request : req'[s] = req[s] \/ (req'[s].pc # "commit" /\ WellFormed(req'[s]))
    BY <1>0, <2>2 DEF TypeOK, Start
  <2> QED BY <1>0, <2>2, <2>3, QuietStep DEF Start
<1>2. ASSUME NEW r \in Request, LockAndCheck(r) \/ Commit(r) \/ Abort(r) \/ Write(r)
      PROVE  IInv'
  <2>1. CASE LockAndCheck(r)
    BY <2>1, LockAndCheckInv
  <2>2. CASE Commit(r)
    BY <2>2, CommitInv
  <2>3. CASE CreateWrite(r)
    BY <2>3, CreateWriteInv
  <2>4. CASE Abort(r) \/ UpdateWrite(r) \/ ResetWrite(r) \/ DeleteWrite(r) \/ AccountWrite(r)
    <3>1. req' = [req EXCEPT ![r] = Idle] /\ role' = role /\ deleted \subseteq deleted'
      BY <2>4 DEF Abort, UpdateWrite, ResetWrite, DeleteWrite, AccountWrite
    <3>2. \A s \in Request : req'[s] = req[s] \/ (req'[s].pc # "commit" /\ WellFormed(req'[s]))
      BY <1>0, <3>1, IdleType, IdleWellFormed DEF TypeOK
    <3>3. \A g \in Group : group'[g].state = "absent" <=> group[g].state = "absent"
      <4>1. CASE Abort(r) \/ AccountWrite(r)
        BY <4>1 DEF Abort, AccountWrite
      <4>2. CASE UpdateWrite(r)
        BY <1>0, <4>2, UpdateWriteType
      <4>3. CASE ResetWrite(r)
        BY <1>0, <4>3, ResetWriteType
      <4>4. CASE DeleteWrite(r)
        <5>1. group[req[r].group].state # "absent"
          BY <4>4 DEF DeleteWrite, IInv, LockInv, WellFormed
        <5> QED BY <1>0, <4>4, <5>1, DeleteWriteType
      <4> QED BY <2>4, <4>1, <4>2, <4>3, <4>4
    <3> QED BY <1>0, <3>1, <3>2, <3>3, QuietStep
  <2> QED BY <1>2, <2>1, <2>2, <2>3, <2>4 DEF Write
<1>3. CASE Environment
  <2>1. UNCHANGED <<role, deleted, req>>
    BY <1>3 DEF Environment, BanUser, UnbanUser, BlockUser, UnblockUser, InviteExpires
  <2>2. \A g \in Group : group'[g].state = group[g].state
    BY <1>0, <1>3, EnvironmentType
  <2> QED BY <1>0, <2>1, <2>2, QuietStep
<1>4. CASE UNCHANGED vars
  <2>1. UNCHANGED <<group, role, deleted, req>>
    BY <1>4 DEF vars
  <2> QED BY <1>0, <2>1, QuietStep
<1> QED BY <1>1, <1>2, <1>3, <1>4 DEF Next

\* The initial state satisfies the invariants: no group exists.
LEMMA InitInv ==
  ASSUME Init
  PROVE  IInv
<1>1. TypeOK
  BY IdleType, GroupsAssumption DEF Init, TypeOK, AbsentGroup, GroupState, Role
<1>2. \A r \in Request : req[r] = Idle
  BY DEF Init
<1>3. \A g \in Group : group[g].state = "absent" /\ \A u \in User : role[g][u] = "none"
  BY DEF Init, AbsentGroup
<1>4. LockInv
  BY <1>2, <1>3, IdleType, IdleWellFormed DEF LockInv
<1>5. OneOwner
  BY <1>3 DEF OneOwner
<1>6. WithinCapacity
  <2>1. ASSUME NEW g \in Group PROVE Cardinality(Active(g)) <= MaxGroupMembers
    <3>1. Active(g) = {}
      BY <1>3 DEF Active
    <3> QED BY <3>1, FS_EmptySet, GroupsAssumption
  <2> QED BY <2>1 DEF WithinCapacity
<1> QED BY <1>1, <1>4, <1>5, <1>6 DEF IInv

-----------------------------------------------------------------------------
\* The invariant holds in every reachable state.
THEOREM InvariantHolds == Spec => []IInv
<1>1. Init => IInv
  BY InitInv
<1>2. IInv /\ [Next]_vars => IInv'
  BY NextInv
<1> QED BY <1>1, <1>2, PTL DEF Spec

\* The tables and the requests in progress always have their types.
THEOREM TypeCorrect == Spec => []TypeOK
<1>1. IInv => TypeOK
  BY DEF IInv
<1> QED BY <1>1, InvariantHolds, PTL

\* At most one request holds the lock of a group row, and nothing it has checked
\* under the lock changes before its commit.
THEOREM ChecksHoldUnderLock == Spec => []LockInv
<1>1. IInv => LockInv
  BY DEF IInv
<1> QED BY <1>1, InvariantHolds, PTL

\* Every group that exists has exactly one owner, for any number of transfers,
\* role changes, kicks and departures at once.
THEOREM ExactlyOneOwner == Spec => []OneOwner
<1>1. IInv => OneOwner
  BY DEF IInv
<1> QED BY <1>1, InvariantHolds, PTL

\* No group ever has more members with an account than the capacity, for any
\* capacity and any number of concurrent additions and joins.
THEOREM CapacityRespected == Spec => []WithinCapacity
<1>1. IInv => WithinCapacity
  BY DEF IInv
<1> QED BY <1>1, InvariantHolds, PTL

\* The roles of a group that exists change by a commit to that group only.
LEMMA RolesChangeByCommit ==
  ASSUME IInv, [Next]_vars, NEW g \in Group, NEW u \in User,
         role'[g][u] # role[g][u]
  PROVE  \/ group[g].state = "absent" /\ role[g][u] = "none"
         \/ \E r \in Request : Commit(r) /\ req[r].group = g
<1>1. CASE \E r \in Request, v \in User, h \in Group : MembershipRequest(r, v, h) \/ OtherRequest(r, v, h)
  <2>1. PICK r \in Request, q \in RequestState : Start(r, q)
    BY <1>1, RequestStep DEF IInv
  <2> QED BY <2>1 DEF Start
<1>2. ASSUME NEW r \in Request, LockAndCheck(r) \/ Commit(r) \/ Abort(r) \/ Write(r)
      PROVE  \/ group[g].state = "absent" /\ role[g][u] = "none"
             \/ Commit(r) /\ req[r].group = g
  <2>1. CASE Commit(r)
    BY <2>1, CommitRoles
  <2>2. CASE CreateWrite(r)
    <3>1. req[r].group \in Group /\ group[req[r].group].state = "absent"
      BY <2>2 DEF CreateWrite, IInv, TypeOK, RequestState
    <3>2. g = req[r].group
      BY <2>2, <3>1 DEF CreateWrite, IInv, TypeOK
    <3> QED BY <3>1, <3>2 DEF IInv, LockInv
  <2>3. CASE LockAndCheck(r) \/ Abort(r) \/ UpdateWrite(r) \/ ResetWrite(r) \/ DeleteWrite(r) \/ AccountWrite(r)
    BY <2>3 DEF LockAndCheck, Abort, UpdateWrite, ResetWrite, DeleteWrite, AccountWrite
  <2> QED BY <1>2, <2>1, <2>2, <2>3 DEF Write
<1>3. CASE Environment
  BY <1>3 DEF Environment, BanUser, UnbanUser, BlockUser, UnblockUser, InviteExpires
<1>4. CASE UNCHANGED vars
  BY <1>4 DEF vars
<1> QED BY <1>1, <1>2, <1>3, <1>4 DEF Next

\* A commit respects the ranks: the rank was read under the lock it still holds.
LEMMA StepRespectsRank ==
  ASSUME IInv, [Next]_vars
  PROVE  RankStep
<1> SUFFICES ASSUME NEW g \in Group, NEW u \in User,
                    group[g].state # "absent", role'[g][u] # role[g][u]
             PROVE  \E r \in Request :
                      /\ req[r].pc = "commit"
                      /\ req[r].group = g
                      /\ \/ req[r].actor = u
                         \/ role[g][req[r].actor] = "owner"
                         \/ /\ role[g][req[r].actor] = "admin"
                            /\ {role[g][u], role'[g][u]} = {"none", "member"}
  BY DEF RankStep
<1>1. PICK r \in Request : Commit(r) /\ req[r].group = g
  BY RolesChangeByCommit
<1> DEFINE q == req[r]
<1>2. /\ q \in RequestState /\ q.op \in Locking /\ q.pc = "commit" /\ Decided(q)
      /\ q.op = "transfer" => q.actor \notin q.users
      /\ role'[g][u] = RoleAfter(q, u)
  BY <1>1, CommitRoles DEF WellFormed
<1>3. CASE q.op = "add"
  <2>1. u \in Newcomers(q) /\ role'[g][u] = "member"
    BY <1>1, <1>2, <1>3, RoleAfterCases
  <2>2. role[g][u] = "none" /\ role[g][q.actor] \in {"owner", "admin"}
    BY <1>1, <1>2, <1>3, <2>1 DEF Newcomers, Decided
  <2> QED BY <1>1, <1>2, <2>1, <2>2
<1>4. CASE q.op \in {"join", "leave"}
  BY <1>1, <1>2, <1>4, RoleAfterCases
<1>5. CASE q.op = "kick"
  <2>1. u \in q.users /\ role'[g][u] = "none"
    BY <1>1, <1>2, <1>5, RoleAfterCases
  <2>2. /\ role[g][q.actor] \in {"owner", "admin"}
        /\ role[g][q.actor] = "admin" => role[g][u] = "member"
    BY <1>1, <1>2, <1>5, <2>1 DEF Decided
  <2> QED BY <1>1, <1>2, <2>1, <2>2
<1>6. CASE q.op \in {"role", "transfer"}
  <2>1. role[g][q.actor] = "owner"
    BY <1>1, <1>2, <1>6 DEF Decided
  <2> QED BY <1>1, <1>2, <2>1
<1> QED BY <1>2, <1>3, <1>4, <1>5, <1>6 DEF Locking

\* Only a transfer ends an ownership.
LEMMA StepHandsOver ==
  ASSUME IInv, [Next]_vars
  PROVE  HandOver
<1> SUFFICES ASSUME NEW g \in Group, NEW u \in User,
                    role[g][u] = "owner", role'[g][u] # "owner"
             PROVE  /\ role'[g][u] = "admin"
                    /\ \E v \in User : role[g][v] \in {"member", "admin"} /\ role'[g][v] = "owner"
  BY DEF HandOver
<1>1. PICK r \in Request : Commit(r) /\ req[r].group = g
  BY RolesChangeByCommit
<1> DEFINE q == req[r]
<1>2. /\ q \in RequestState /\ q.op \in Locking /\ q.pc = "commit" /\ Decided(q) /\ WellFormed(q)
      /\ q.actor \in User
      /\ \A v \in User : role'[g][v] = RoleAfter(q, v)
  BY <1>1, CommitRoles
<1>3. PICK o \in User : \A v \in User : role[g][v] = "owner" => v = o
  BY <1>1, CommitRoles DEF IInv, OneOwner
<1>4. CASE q.op = "transfer"
  <2>1. PICK v \in User \ {q.actor} : q.users = {v}
    BY <1>2, <1>4 DEF WellFormed
  <2>2. u = q.actor /\ role[g][v] \in {"member", "admin"}
    BY <1>1, <1>2, <1>3, <1>4, <2>1 DEF Decided
  <2>3. role'[g][u] = "admin" /\ role'[g][v] = "owner"
    BY <1>2, <1>4, <2>1, <2>2, RoleAfterCases
  <2> QED BY <2>2, <2>3
<1>5. CASE q.op = "add"
  BY <1>1, <1>2, <1>5, RoleAfterCases DEF Newcomers
<1>6. CASE q.op \in {"join", "leave"}
  BY <1>1, <1>2, <1>6, RoleAfterCases DEF Decided
<1>7. CASE q.op = "kick"
  <2>1. u \in q.users
    BY <1>1, <1>2, <1>7, RoleAfterCases
  <2>2. u # q.actor /\ role[g][q.actor] = "owner"
    BY <1>1, <1>2, <1>7, <2>1 DEF Decided
  <2> QED BY <1>2, <1>3, <2>2
<1>8. CASE q.op = "role"
  <2>1. u \in q.users
    BY <1>1, <1>2, <1>8, RoleAfterCases
  <2>2. u # q.actor /\ role[g][q.actor] = "owner"
    BY <1>1, <1>2, <1>8, <2>1 DEF Decided
  <2> QED BY <1>2, <1>3, <2>2
<1> QED BY <1>2, <1>4, <1>5, <1>6, <1>7, <1>8 DEF Locking

\* A membership changes only by the member, the owner, or for plain members an
\* administrator, each with the role they still have at that moment.
THEOREM RanksAreRespected == Spec => RankRespected
<1>1. IInv /\ [Next]_vars => [RankStep]_vars
  BY StepRespectsRank
<1> QED BY <1>1, InvariantHolds, PTL DEF Spec, RankRespected

\* An owner stops being one only by handing the group to another member.
THEOREM OwnershipIsHandedOver == Spec => OwnerStepsDown
<1>1. IInv /\ [Next]_vars => [HandOver]_vars
  BY StepHandsOver
<1> QED BY <1>1, InvariantHolds, PTL DEF Spec, OwnerStepsDown

=============================================================================
