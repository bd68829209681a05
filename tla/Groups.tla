------------------------------- MODULE Groups -------------------------------
(***************************************************************************)
(* Group chats: who is a member with which role, who may change it, the    *)
(* invite code, and what the deletion of an account leaves behind.         *)
(*                                                                         *)
(* Every operation is a request of the API in up to three steps.  The ones *)
(* that change the membership look the group up, lock its row, check under *)
(* the lock and write; the lock is held until the commit.  The others      *)
(* check first and write later, without a lock in between.                 *)
(***************************************************************************)
EXTENDS Naturals, FiniteSets

CONSTANTS Group,            \* groups
          User,             \* users
          SysAdmin,         \* users with the administrator role of the system
          Request,          \* slots for requests in progress
          MaxGroupMembers,  \* the capacity, 100 in the code
          MaxOps,           \* bound: requests
          MaxChanges        \* bound: bans and blocks set

ASSUME GroupsAssumption ==
  /\ Group # {} /\ User # {}
  /\ SysAdmin \subseteq User
  /\ MaxGroupMembers \in Nat \ {0}
  /\ MaxOps \in Nat
  /\ MaxChanges \in Nat
  /\ IsFiniteSet(User)

VARIABLES group,     \* the group_chats and chats rows
          role,      \* the group_members rows
          deleted,   \* users with deleted_at set
          banned,    \* users banned now
          blocked,   \* the user_blocks rows, blocker and blocked
          req,       \* requests in progress
          nextCode,  \* source of invite codes
          ops,       \* requests so far
          changes    \* bans and blocks so far

vars == <<group, role, deleted, banned, blocked, req, nextCode, ops, changes>>

-----------------------------------------------------------------------------
(* State *)

\* expires: invite_expires_at is set; expired: it has passed.
GroupState ==
  [state   : {"absent", "live", "deleted"},
   public  : BOOLEAN,
   code    : Nat,
   expires : BOOLEAN,
   expired : BOOLEAN]

AbsentGroup ==
  [state |-> "absent", public |-> FALSE, code |-> 0, expires |-> FALSE, expired |-> FALSE]

Role == {"none", "member", "admin", "owner"}

\* What each kind of request does between its steps.
Locking == {"add", "leave", "kick", "role", "transfer", "join"}

Unlocked == {"create", "update", "reset", "delete", "account"}

\* pc is "lock" when a group was looked up, "commit" when its lock is held and
\* the checks were passed, "write" when they were passed without a lock.
\* public is the visibility that was read (reset) or asked for (create, update).
RequestState ==
  [pc     : {"idle", "lock", "commit", "write"},
   op     : Locking \cup Unlocked,
   actor  : User,
   group  : Group,
   users  : SUBSET User,
   role   : {"member", "admin"},
   public : BOOLEAN]

AnyOf(S) == CHOOSE x \in S : TRUE

MakeRequest(pc, op, u, g, users, new, public) ==
  [pc |-> pc, op |-> op, actor |-> u, group |-> g, users |-> users, role |-> new, public |-> public]

Idle == MakeRequest("idle", "leave", AnyOf(User), AnyOf(Group), {}, "member", FALSE)

TypeOK ==
  /\ group \in [Group -> GroupState]
  /\ role \in [Group -> [User -> Role]]
  /\ deleted \in SUBSET User
  /\ banned \in SUBSET User
  /\ blocked \in SUBSET (User \X User)
  /\ req \in [Request -> RequestState]
  /\ nextCode \in Nat
  /\ ops \in 0..MaxOps
  /\ changes \in 0..MaxChanges

Init ==
  /\ group = [g \in Group |-> AbsentGroup]
  /\ role = [g \in Group |-> [u \in User |-> "none"]]
  /\ deleted = {}
  /\ banned = {}
  /\ blocked = {}
  /\ req = [r \in Request |-> Idle]
  /\ nextCode = 1
  /\ ops = 0
  /\ changes = 0

-----------------------------------------------------------------------------
(* Requests *)

\* The middleware lets requests of active users in.
Start(r, q) ==
  /\ req[r].pc = "idle"
  /\ q.actor \notin deleted \cup banned
  /\ ops < MaxOps
  /\ ops' = ops + 1
  /\ req' = [req EXCEPT ![r] = q]
  /\ UNCHANGED <<group, role, deleted, banned, blocked, nextCode, changes>>

\* A membership request has looked up a group that is not deleted.
Begin(r, op, u, g, users, new) ==
  /\ group[g].state = "live"
  /\ Start(r, MakeRequest("lock", op, u, g, users, new, FALSE))

AddMember(r, u, g, users) == users # {} /\ Begin(r, "add", u, g, users, "member")

LeaveGroup(r, u, g) == Begin(r, "leave", u, g, {}, "member")

KickMember(r, u, g, v) == Begin(r, "kick", u, g, {v}, "member")

UpdateMemberRole(r, u, g, v, new) == Begin(r, "role", u, g, {v}, new)

TransferOwnership(r, u, g, v) == u # v /\ Begin(r, "transfer", u, g, {v}, "member")

JoinPublicGroup(r, u, g) == group[g].public /\ Begin(r, "join", u, g, {}, "member")

\* The holder of a code finds the group by it.
JoinGroupByInvite(r, u, g, code) ==
  /\ group[g].code = code
  /\ ~(group[g].expires /\ group[g].expired)
  /\ Begin(r, "join", u, g, {}, "member")

-----------------------------------------------------------------------------
(* The checks under the lock *)

Active(g) == {u \in User : role[g][u] # "none" /\ u \notin deleted}

HasRoom(g, users) == Cardinality(Active(g)) + Cardinality(users) <= MaxGroupMembers

Newcomers(q) == {u \in q.users : role[q.group][u] = "none"}

Apart(u, users) == \A v \in users : <<u, v>> \notin blocked /\ <<v, u>> \notin blocked

AddPermitted(q) ==
  /\ role[q.group][q.actor] \in {"owner", "admin"}
  /\ q.users \cap (deleted \cup banned) = {}
  /\ Apart(q.actor, q.users)
  /\ Newcomers(q) # {}
  /\ HasRoom(q.group, Newcomers(q))

LeavePermitted(q) == role[q.group][q.actor] \in {"member", "admin"}

\* Mutant: an administrator may kick anybody else.
KickPermittedAnyone(q) ==
  /\ role[q.group][q.actor] \in {"owner", "admin"}
  /\ \A u \in q.users : role[q.group][u] # "none" /\ u # q.actor

KickPermitted(q) ==
  /\ role[q.group][q.actor] \in {"owner", "admin"}
  /\ \A u \in q.users :
       /\ role[q.group][u] # "none"
       /\ u # q.actor
       /\ role[q.group][q.actor] = "admin" => role[q.group][u] = "member"

RolePermitted(q) ==
  /\ role[q.group][q.actor] = "owner"
  /\ \A u \in q.users :
       /\ role[q.group][u] \notin {"none", q.role}
       /\ u # q.actor
       /\ u \notin deleted \cup banned

TransferPermitted(q) ==
  /\ role[q.group][q.actor] = "owner"
  /\ \A u \in q.users :
       /\ role[q.group][u] \notin {"none", "owner"}
       /\ u \notin deleted \cup banned

JoinPermitted(q) ==
  /\ role[q.group][q.actor] = "none"
  /\ HasRoom(q.group, {q.actor})

Permitted(q) ==
  CASE q.op = "add"      -> AddPermitted(q)
    [] q.op = "leave"    -> LeavePermitted(q)
    [] q.op = "kick"     -> KickPermitted(q)
    [] q.op = "role"     -> RolePermitted(q)
    [] q.op = "transfer" -> TransferPermitted(q)
    [] OTHER             -> JoinPermitted(q)

\* Mutant: the row is not locked.
RowFreeAlways(g) == TRUE

\* No transaction holds the lock of the group row.
RowFree(g) == \A r \in Request : ~(req[r].pc = "commit" /\ req[r].group = g)

\* lockGroupMembership and the checks that follow it; a request that fails them
\* is answered and its transaction rolled back.
LockAndCheck(r) ==
  /\ req[r].pc = "lock"
  /\ RowFree(req[r].group)
  /\ req' = [req EXCEPT ![r] = IF Permitted(req[r]) THEN [@ EXCEPT !.pc = "commit"] ELSE Idle]
  /\ UNCHANGED <<group, role, deleted, banned, blocked, nextCode, ops, changes>>

\* Mutant: a member who is kicked keeps a row.
RoleAfterKept(q, u) ==
  CASE q.op = "add" /\ u \in Newcomers(q)   -> "member"
    [] q.op = "join" /\ u = q.actor         -> "member"
    [] q.op = "leave" /\ u = q.actor        -> "none"
    [] q.op = "kick" /\ u \in q.users       -> "kicked"
    [] q.op = "role" /\ u \in q.users       -> q.role
    [] q.op = "transfer" /\ u = q.actor     -> "admin"
    [] q.op = "transfer" /\ u \in q.users   -> "owner"
    [] OTHER                                -> role[q.group][u]

\* The role of u once request q is committed.
RoleAfter(q, u) ==
  CASE q.op = "add" /\ u \in Newcomers(q)   -> "member"
    [] q.op = "join" /\ u = q.actor         -> "member"
    [] q.op = "leave" /\ u = q.actor        -> "none"
    [] q.op = "kick" /\ u \in q.users       -> "none"
    [] q.op = "role" /\ u \in q.users       -> q.role
    [] q.op = "transfer" /\ u = q.actor     -> "admin"
    [] q.op = "transfer" /\ u \in q.users   -> "owner"
    [] OTHER                                -> role[q.group][u]

\* The writes become visible and the lock is released.
Commit(r) ==
  /\ req[r].pc = "commit"
  /\ role' = [role EXCEPT ![req[r].group] = [u \in User |-> RoleAfter(req[r], u)]]
  /\ req' = [req EXCEPT ![r] = Idle]
  /\ UNCHANGED <<group, deleted, banned, blocked, nextCode, ops, changes>>

\* A statement fails or the client goes away: the transaction is rolled back.
Abort(r) ==
  /\ req[r].pc # "idle"
  /\ req' = [req EXCEPT ![r] = Idle]
  /\ UNCHANGED <<group, role, deleted, banned, blocked, nextCode, ops, changes>>

-----------------------------------------------------------------------------
(* Requests that check first and write later *)

CreateGroupChat(r, u, g, users, public) ==
  /\ group[g].state = "absent"
  /\ users # {}
  /\ Cardinality(users) < MaxGroupMembers
  /\ users \cap (deleted \cup banned \cup {u}) = {}
  /\ Apart(u, users)
  /\ Start(r, MakeRequest("write", "create", u, g, users, "member", public))

\* The new group gets an id of its own: one that is still unused.
CreateWrite(r) ==
  LET q == req[r]
  IN  /\ q.pc = "write"
      /\ q.op = "create"
      /\ group[q.group].state = "absent"
      /\ group' = [group EXCEPT ![q.group] =
                     [state |-> "live", public |-> q.public, code |-> nextCode,
                      expires |-> ~q.public, expired |-> FALSE]]
      /\ role' = [role EXCEPT ![q.group] =
                    [u \in User |-> IF u = q.actor THEN "owner"
                                    ELSE IF u \in q.users THEN "member" ELSE "none"]]
      /\ nextCode' = nextCode + 1
      /\ req' = [req EXCEPT ![r] = Idle]
      /\ UNCHANGED <<deleted, banned, blocked, ops, changes>>

MayManage(u, g) == role[g][u] \in {"owner", "admin"}

\* A change of visibility; a request that changes nothing ends here.  The reset
\* by an administrator of the system changes only name, description and avatar.
UpdateGroupChat(r, u, g, public) ==
  /\ group[g].state = "live"
  /\ MayManage(u, g)
  /\ public # group[g].public
  /\ Start(r, MakeRequest("write", "update", u, g, {}, "member", public))

\* A group that becomes private gets a new code that expires.
UpdateWrite(r) ==
  LET q == req[r]
  IN  /\ q.pc = "write"
      /\ q.op = "update"
      /\ RowFree(q.group)
      /\ group' = [group EXCEPT ![q.group] =
                     [@ EXCEPT !.public = q.public, !.expires = ~q.public, !.expired = FALSE,
                               !.code = IF q.public THEN group[q.group].code ELSE nextCode]]
      /\ nextCode' = nextCode + 1
      /\ req' = [req EXCEPT ![r] = Idle]
      /\ UNCHANGED <<role, deleted, banned, blocked, ops, changes>>

\* The role and the visibility are read.
ResetInviteCode(r, u, g) ==
  /\ group[g].state = "live"
  /\ MayManage(u, g)
  /\ Start(r, MakeRequest("write", "reset", u, g, {}, "member", group[g].public))

\* The expiry follows from the visibility as it was read.
ResetWrite(r) ==
  LET q == req[r]
  IN  /\ q.pc = "write"
      /\ q.op = "reset"
      /\ RowFree(q.group)
      /\ group' = [group EXCEPT ![q.group] =
                     [@ EXCEPT !.code = nextCode, !.expires = ~q.public, !.expired = FALSE]]
      /\ nextCode' = nextCode + 1
      /\ req' = [req EXCEPT ![r] = Idle]
      /\ UNCHANGED <<role, deleted, banned, blocked, ops, changes>>

DeleteGroup(r, u, g) ==
  /\ group[g].state = "live"
  /\ u \in SysAdmin \/ role[g][u] = "owner"
  /\ Start(r, MakeRequest("write", "delete", u, g, {}, "member", FALSE))

\* deleted_at is set on the chats row, whoever holds the lock of the group row.
DeleteWrite(r) ==
  /\ req[r].pc = "write"
  /\ req[r].op = "delete"
  /\ group' = [group EXCEPT ![req[r].group].state = "deleted"]
  /\ req' = [req EXCEPT ![r] = Idle]
  /\ UNCHANGED <<role, deleted, banned, blocked, nextCode, ops, changes>>

Owns(u, g) == role[g][u] = "owner" /\ group[g].state = "live"

\* Owned groups are counted before the transaction begins.
DeleteAccount(r, u) ==
  /\ \A g \in Group : ~Owns(u, g)
  /\ Start(r, MakeRequest("write", "account", u, AnyOf(Group), {}, "member", FALSE))

AccountWrite(r) ==
  /\ req[r].pc = "write"
  /\ req[r].op = "account"
  /\ deleted' = deleted \cup {req[r].actor}
  /\ req' = [req EXCEPT ![r] = Idle]
  /\ UNCHANGED <<group, role, banned, blocked, nextCode, ops, changes>>

-----------------------------------------------------------------------------
(* What goes on around the groups *)

BanUser(u) ==
  /\ u \notin SysAdmin
  /\ changes < MaxChanges
  /\ changes' = changes + 1
  /\ banned' = banned \cup {u}
  /\ UNCHANGED <<group, role, deleted, blocked, req, nextCode, ops>>

\* An administrator lifts the ban, or it runs out.
UnbanUser(u) ==
  /\ u \in banned
  /\ banned' = banned \ {u}
  /\ UNCHANGED <<group, role, deleted, blocked, req, nextCode, ops, changes>>

BlockUser(u, v) ==
  /\ u # v
  /\ u \notin deleted \cup banned
  /\ v \notin deleted
  /\ changes < MaxChanges
  /\ changes' = changes + 1
  /\ blocked' = blocked \cup {<<u, v>>}
  /\ UNCHANGED <<group, role, deleted, banned, req, nextCode, ops>>

UnblockUser(u, v) ==
  /\ u \notin deleted \cup banned
  /\ <<u, v>> \in blocked
  /\ blocked' = blocked \ {<<u, v>>}
  /\ UNCHANGED <<group, role, deleted, banned, req, nextCode, ops, changes>>

\* Seven days pass.
InviteExpires(g) ==
  /\ group[g].expires
  /\ ~group[g].expired
  /\ group' = [group EXCEPT ![g].expired = TRUE]
  /\ UNCHANGED <<role, deleted, banned, blocked, req, nextCode, ops, changes>>

-----------------------------------------------------------------------------
MembershipRequest(r, u, g) ==
  \/ \E users \in SUBSET User : AddMember(r, u, g, users)
  \/ LeaveGroup(r, u, g)
  \/ \E v \in User : KickMember(r, u, g, v) \/ TransferOwnership(r, u, g, v)
  \/ \E v \in User, new \in {"member", "admin"} : UpdateMemberRole(r, u, g, v, new)
  \/ JoinPublicGroup(r, u, g)
  \/ \E code \in 1..nextCode : JoinGroupByInvite(r, u, g, code)

OtherRequest(r, u, g) ==
  \/ \E users \in SUBSET User, public \in BOOLEAN : CreateGroupChat(r, u, g, users, public)
  \/ \E public \in BOOLEAN : UpdateGroupChat(r, u, g, public)
  \/ ResetInviteCode(r, u, g)
  \/ DeleteGroup(r, u, g)
  \/ DeleteAccount(r, u)

Write(r) ==
  \/ CreateWrite(r)
  \/ UpdateWrite(r)
  \/ ResetWrite(r)
  \/ DeleteWrite(r)
  \/ AccountWrite(r)

Environment ==
  \/ \E u \in User : BanUser(u) \/ UnbanUser(u)
  \/ \E u, v \in User : BlockUser(u, v) \/ UnblockUser(u, v)
  \/ \E g \in Group : InviteExpires(g)

Next ==
  \/ \E r \in Request, u \in User, g \in Group : MembershipRequest(r, u, g) \/ OtherRequest(r, u, g)
  \/ \E r \in Request : LockAndCheck(r) \/ Commit(r) \/ Abort(r) \/ Write(r)
  \/ Environment

Spec == Init /\ [][Next]_vars

-----------------------------------------------------------------------------
(* The inductive invariant *)

\* What a request that holds the lock has checked about roles and capacity; it
\* stays true until the commit, other than what was read about accounts.
Decided(q) ==
  LET g == q.group
      a == role[g][q.actor]
  IN  /\ q.op = "add" => a \in {"owner", "admin"} /\ HasRoom(g, Newcomers(q))
      /\ q.op = "leave" => a \in {"member", "admin"}
      /\ q.op = "kick" =>
           /\ a \in {"owner", "admin"}
           /\ \A u \in q.users :
                /\ role[g][u] # "none"
                /\ u # q.actor
                /\ a = "admin" => role[g][u] = "member"
      /\ q.op = "role" => a = "owner" /\ \A u \in q.users : role[g][u] # "none" /\ u # q.actor
      /\ q.op = "transfer" => a = "owner" /\ \A u \in q.users : role[g][u] \in {"member", "admin"}
      /\ q.op = "join" => a = "none" /\ HasRoom(g, {q.actor})

\* A membership request is about a group that exists, a transfer about one other
\* user, a creation about a number of users that fits.
WellFormed(q) ==
  /\ q.pc \in {"lock", "commit"} => q.op \in Locking /\ group[q.group].state # "absent"
  /\ q.pc \in {"lock", "commit"} /\ q.op = "transfer" => \E u \in User \ {q.actor} : q.users = {u}
  /\ q.pc = "write" => q.op \in Unlocked
  /\ q.pc = "write" /\ q.op \in {"update", "reset", "delete"} => group[q.group].state # "absent"
  /\ q.pc = "write" /\ q.op = "create" => Cardinality(q.users) < MaxGroupMembers /\ q.actor \notin q.users

\* At most one request holds the lock of a group row, what it has checked under
\* the lock is still so, and a group that does not exist has no members.
LockInv ==
  /\ \A r, s \in Request :
       req[r].pc = "commit" /\ req[s].pc = "commit" /\ req[r].group = req[s].group => r = s
  /\ \A r \in Request : WellFormed(req[r])
  /\ \A r \in Request : req[r].pc = "commit" => Decided(req[r])
  /\ \A g \in Group : group[g].state = "absent" => \A u \in User : role[g][u] = "none"

-----------------------------------------------------------------------------
(* Properties *)

\* A group has exactly one owner, whatever transfers, role changes, kicks and
\* departures are in progress at once (the roles are read under the row lock).
OneOwner ==
  \A g \in Group : group[g].state # "absent" =>
    \E u \in User : role[g][u] = "owner" /\ \A v \in User : role[g][v] = "owner" => v = u

\* The members whose account exists never exceed the capacity, however many
\* additions and joins race for the last place (checkMemberCapacity).
WithinCapacity ==
  \A g \in Group : Cardinality(Active(g)) <= MaxGroupMembers

RankStep ==
  \A g \in Group, u \in User :
    group[g].state # "absent" /\ role'[g][u] # role[g][u] =>
      \E r \in Request :
        LET by == role[g][req[r].actor]
        IN  /\ req[r].pc = "commit"
            /\ req[r].group = g
            /\ \/ req[r].actor = u
               \/ by = "owner"
               \/ /\ by = "admin"
                  /\ {role[g][u], role'[g][u]} = {"none", "member"}

\* A membership changes only by the hand of the member (a join, a departure),
\* of the owner, or, for plain members, of an administrator, and the one who
\* changes it still has that role at the moment of the change.
RankRespected == [][RankStep]_vars

HandOver ==
  \A g \in Group, u \in User :
    role[g][u] = "owner" /\ role'[g][u] # "owner" =>
      /\ role'[g][u] = "admin"
      /\ \E v \in User : role[g][v] \in {"member", "admin"} /\ role'[g][v] = "owner"

\* The owner loses that role only by handing it to somebody else (nobody kicks
\* or demotes the owner, and the owner does not leave).
OwnerStepsDown == [][HandOver]_vars

\* A live group is owned by an account that exists: DeleteAccount refuses with
\* "You must transfer ownership of your groups or delete them".
OwnerExists ==
  \A g \in Group, u \in User : Owns(u, g) => u \notin deleted

\* The invite of a public group is permanent, the one of a private group expires.
InviteMatchesVisibility ==
  \A g \in Group : group[g].state = "live" => group[g].expires = ~group[g].public

=============================================================================
