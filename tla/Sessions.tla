------------------------------ MODULE Sessions ------------------------------
(***************************************************************************)
(* The sessions of one account: tokens, the mark in Redis that revokes     *)
(* them, bans, and the checks of a request that presents a token.          *)
(*                                                                         *)
(* A change of credentials, the deletion of the account and a ban update   *)
(* the users row in a transaction, write the mark before they commit, and  *)
(* take the mark back when the commit fails.  The update locks the row to  *)
(* the end of the transaction; taking the mark back happens after it.      *)
(* A token is its time of issue: two tokens of one account issued in the   *)
(* same millisecond are the same string.                                   *)
(***************************************************************************)
EXTENDS Integers, FiniteSets

CONSTANTS Request,    \* requests, each of which runs one operation
          Process,    \* API processes, each with a cache of identities
          Lifetime,   \* lifetime of a token and of the mark, in ticks
          CacheTTL,   \* lifetime of a cached identity, in ticks
          MaxClock,   \* bound: readings of the clock
          MaxFaults,  \* bound: failures of a commit or of a Redis command
          None        \* no request, no process

ASSUME SessionsAssumption ==
  /\ Lifetime \in Nat \ {0}
  /\ CacheTTL \in Nat \ {0}
  /\ MaxClock \in Nat \ {0}
  /\ MaxFaults \in Nat
  /\ None \notin Request
  /\ None \notin Process

VARIABLES clock,
          user,       \* the users row, as committed
          lock,       \* the request whose transaction has updated the row
          marker,     \* revoked_user:<id>
          tokens,     \* tokens issued
          blacklist,  \* tokens logged out
          cache,      \* the cached identity of the account in each process: its expiry
          request,
          faults      \* failures so far

vars == <<clock, user, lock, marker, tokens, blacklist, cache, request, faults>>

\* is_banned and banned_until in one number.
NotBanned == 0
Forever == MaxClock + 1

\* A key without an expiry.
Never == MaxClock + Lifetime + 1

\* Credentials are not told apart: whoever logs in has those of the row it reads.
UserState == [ban : 0..Forever, deleted : BOOLEAN]

MarkerState == [by : Request \cup {None}, at : Nat, expires : 0..Never]

NoMarker == [by |-> None, at |-> 0, expires |-> 0]

RequestState ==
  [op       : {"none", "credentials", "delete", "ban", "unban", "login", "verify", "connect"},
   pc       : {"idle", "update", "snapshot", "ttl", "set", "commit", "compare", "restore",
               "committed", "unban", "lift", "issue", "revoked", "cache", "lookup", "store",
               "accepted", "done"},
   until    : 0..Forever,              \* the deadline of a new ban
   read     : 0..Forever,              \* the ban found in the row
   snapshot : MarkerState,             \* SessionRevokeSnapshot
   ttl      : 0..Lifetime,
   at       : Nat,                     \* revokedAt
   process  : Process \cup {None},
   token    : Nat,                     \* the token presented
   raced    : BOOLEAN,                 \* history: marked while another took its mark back
   barred   : BOOLEAN]                 \* history: the token was revoked from the start

NoRequest ==
  [op |-> "none", pc |-> "idle", until |-> NotBanned, read |-> NotBanned,
   snapshot |-> NoMarker, ttl |-> 0, at |-> 0, process |-> None, token |-> 0,
   raced |-> FALSE, barred |-> FALSE]

\* The account has one session, and perhaps a ban that ends at the next tick.
Init ==
  /\ clock = 1
  /\ user \in [ban : {NotBanned, 2}, deleted : {FALSE}]
  /\ lock = None
  /\ marker = NoMarker
  /\ tokens = {1}
  /\ blacklist = {}
  /\ cache = [p \in Process |-> 0]
  /\ request = [r \in Request |-> NoRequest]
  /\ faults = 0

At(r, pc) == request[r].pc = pc

Put(r, x) == request' = [request EXCEPT ![r] = x]

Goto(r, pc) == Put(r, [request[r] EXCEPT !.pc = pc])

\* The answer is given; what the request has read is forgotten.
Answer(r, pc) == Put(r, [NoRequest EXCEPT !.pc = pc])

Fault == faults < MaxFaults /\ faults' = faults + 1

-----------------------------------------------------------------------------
(* Time *)

\* Redis drops the mark when it expires; a token expires after as long.
Tick ==
  /\ clock < MaxClock
  /\ clock' = clock + 1
  /\ marker' = IF marker.expires > clock + 1 THEN marker ELSE NoMarker
  /\ UNCHANGED <<user, lock, tokens, blacklist, cache, request, faults>>

-----------------------------------------------------------------------------
(* Operations that revoke the sessions *)

\* ChangePassword, ResetPassword, ChangeEmail, DeleteAccount and BanUser, up to
\* their UPDATE: what they read before it is not read under a lock.
StartChange(r, op, until) ==
  /\ At(r, "idle")
  /\ Put(r, [request[r] EXCEPT !.op = op, !.until = until, !.pc = "update"])
  /\ UNCHANGED <<clock, user, lock, marker, tokens, blacklist, cache, faults>>

ChangePassword(r) == StartChange(r, "credentials", NotBanned)

DeleteAccount(r) == ~user.deleted /\ StartChange(r, "delete", NotBanned)

\* A deadline in the future, or none.
BanUser(r) == \E until \in {clock + 1, Forever} : StartChange(r, "ban", until)

UpdateUser(r) ==
  /\ At(r, "update")
  /\ lock = None
  /\ lock' = r
  /\ Goto(r, "snapshot")
  /\ UNCHANGED <<clock, user, marker, tokens, blacklist, cache, faults>>

\* SnapshotUserRevoke: GET, then TTL.
Snapshot(r) ==
  /\ At(r, "snapshot")
  /\ Put(r, [request[r] EXCEPT !.snapshot = marker,
                               !.at = clock,
                               !.pc = IF marker = NoMarker THEN "set" ELSE "ttl"])
  /\ UNCHANGED <<clock, user, lock, marker, tokens, blacklist, cache, faults>>

\* Mutant: the answer of TTL for a key that is gone is used as it is.
RemainingRaw(m) == IF m = NoMarker THEN 0 - 2 ELSE m.expires - clock

\* A key that is gone or never expires counts as no time to live.
Remaining(m) == IF m = NoMarker \/ m.expires = Never THEN 0 ELSE m.expires - clock

\* revokedAt is taken when the snapshot is complete.
SnapshotTTL(r) ==
  /\ At(r, "ttl")
  /\ Put(r, [request[r] EXCEPT !.ttl = Remaining(marker), !.at = clock, !.pc = "set"])
  /\ UNCHANGED <<clock, user, lock, marker, tokens, blacklist, cache, faults>>

\* RevokeAllSessionsAt.
Mark(r) == [by |-> r, at |-> request[r].at, expires |-> clock + Lifetime]

Revoke(r) ==
  /\ At(r, "set")
  /\ marker' = Mark(r)
  /\ Put(r, [request[r] EXCEPT !.pc = "commit",
                               !.raced = \E q \in Request : At(q, "restore")])
  /\ UNCHANGED <<clock, user, lock, tokens, blacklist, cache, faults>>

\* A Redis command fails, done or not: the transaction is rolled back and the mark stays.
RevokeFails(r) ==
  /\ request[r].pc \in {"snapshot", "ttl", "set"}
  /\ Fault
  /\ lock' = None
  /\ marker' \in IF At(r, "set") THEN {marker, Mark(r)} ELSE {marker}
  /\ Answer(r, "done")
  /\ UNCHANGED <<clock, user, tokens, blacklist, cache>>

\* The row once the transaction of r is committed.
Changed(r) ==
  [user EXCEPT !.deleted = @ \/ request[r].op = "delete",
               !.ban = IF request[r].op = "ban" THEN request[r].until ELSE @]

Commit(r) ==
  /\ At(r, "commit")
  /\ user' = Changed(r)
  /\ lock' = None
  /\ Put(r, [NoRequest EXCEPT !.pc = "committed",
                              !.at = request[r].at,
                              !.raced = request[r].raced])
  /\ UNCHANGED <<clock, marker, tokens, blacklist, cache, faults>>

\* Commit returns an error; the database may have committed all the same.
CommitFails(r) ==
  /\ At(r, "commit")
  /\ Fault
  /\ user' \in {user, Changed(r)}
  /\ lock' = None
  /\ Goto(r, "compare")
  /\ UNCHANGED <<clock, marker, tokens, blacklist, cache>>

\* Mutant: the value found is not compared.
IsOwnAny(r) == marker # NoMarker

\* currentValue = expectedValue: each mark carries a fresh uuid.
IsOwn(r) == marker.by = r

\* RollbackUserRevoke: GET and the comparison.
Compare(r) ==
  /\ At(r, "compare")
  /\ IF IsOwn(r) THEN Goto(r, "restore") ELSE Answer(r, "done")
  /\ UNCHANGED <<clock, user, lock, marker, tokens, blacklist, cache, faults>>

\* The previous mark with the time it had left, or no mark.
Previous(r) ==
  LET s == request[r].snapshot
      x == IF request[r].ttl = 0 THEN Never ELSE clock + request[r].ttl
  IN  IF s = NoMarker THEN NoMarker ELSE [s EXCEPT !.expires = x]

\* RollbackUserRevoke: SET or DEL.
Restore(r) ==
  /\ At(r, "restore")
  /\ marker' = Previous(r)
  /\ Answer(r, "done")
  /\ UNCHANGED <<clock, user, lock, tokens, blacklist, cache, faults>>

\* The error of the rollback is only logged.
RollbackFails(r) ==
  /\ request[r].pc \in {"compare", "restore"}
  /\ Fault
  /\ Answer(r, "done")
  /\ UNCHANGED <<clock, user, lock, marker, tokens, blacklist, cache>>

-----------------------------------------------------------------------------
(* Bans and logins *)

\* UnbanUser reads the row, and updates it without a condition.
StartUnban(r) ==
  /\ At(r, "idle")
  /\ user.ban # NotBanned
  /\ Put(r, [request[r] EXCEPT !.op = "unban", !.pc = "unban"])
  /\ UNCHANGED <<clock, user, lock, marker, tokens, blacklist, cache, faults>>

UnbanUser(r) ==
  /\ At(r, "unban")
  /\ lock = None
  /\ user' = [user EXCEPT !.ban = NotBanned]
  /\ Answer(r, "done")
  /\ UNCHANGED <<clock, lock, marker, tokens, blacklist, cache, faults>>

\* Mutant: the deadline is not looked at.
BanActiveForever(ban) == ban = Forever

\* time.Now().Before(bannedUntil), or no deadline.
BanActive(ban) == ban > clock

\* Login and GoogleExchange read the row: the credentials are right, no ban is active.
Login(r) ==
  /\ At(r, "idle")
  /\ ~user.deleted
  /\ ~BanActive(user.ban)
  /\ Put(r, [request[r] EXCEPT !.op = "login",
                               !.read = user.ban,
                               !.pc = IF user.ban = NotBanned THEN "issue" ELSE "lift"])
  /\ UNCHANGED <<clock, user, lock, marker, tokens, blacklist, cache, faults>>

\* An expired ban is lifted by id, whatever ban the row has by then.
LiftBan(r) ==
  /\ At(r, "lift")
  /\ lock = None
  /\ user' = [user EXCEPT !.ban = NotBanned]
  /\ Goto(r, IF request[r].op = "login" THEN "issue" ELSE "store")
  /\ UNCHANGED <<clock, lock, marker, tokens, blacklist, cache, faults>>

\* The error is only logged.
LiftFails(r) ==
  /\ At(r, "lift")
  /\ Fault
  /\ Goto(r, IF request[r].op = "login" THEN "issue" ELSE "store")
  /\ UNCHANGED <<clock, user, lock, marker, tokens, blacklist, cache>>

\* GenerateJWT takes the time.
GenerateJWT(r) ==
  /\ At(r, "issue")
  /\ tokens' = tokens \cup {clock}
  /\ Answer(r, "done")
  /\ UNCHANGED <<clock, user, lock, marker, blacklist, cache, faults>>

\* The blacklist keeps the token until it expires.
Logout(r, t) ==
  /\ At(r, "idle")
  /\ t + Lifetime > clock
  /\ blacklist' = blacklist \cup {t}
  /\ Answer(r, "done")
  /\ UNCHANGED <<clock, user, lock, marker, tokens, cache, faults>>

-----------------------------------------------------------------------------
(* Checking a token *)

\* A change that was answered with success, after which t must not be accepted.
Bars(o, t) == At(o, "committed") /\ ~request[o].raced /\ t <= request[o].at

\* VerifyToken, up to VerifyUser: the blacklist and the signature.
StartVerify(r, op, p, t) ==
  /\ At(r, "idle")
  /\ t \notin blacklist
  /\ t + Lifetime > clock
  /\ Put(r, [request[r] EXCEPT !.op = op,
                               !.process = p,
                               !.token = t,
                               !.barred = \E o \in Request : Bars(o, t),
                               !.pc = "revoked"])
  /\ UNCHANGED <<clock, user, lock, marker, tokens, blacklist, cache, faults>>

Verify(r, p, t) == StartVerify(r, "verify", p, t)

\* The gateway checks the token when a connection opens and with every frame of it.
Connect(r, t) == StartVerify(r, "connect", None, t)

IsSessionRevoked(t) == marker # NoMarker /\ t <= marker.at

Forget(p) == cache' = [q \in Process |-> IF q = p THEN 0 ELSE cache[q]]

\* IsUserRevoked, and its counterpart in the gateway, which has no cache.
CheckRevoked(r) ==
  LET x == request[r]
  IN  /\ At(r, "revoked")
      /\ IF IsSessionRevoked(x.token)
         THEN Answer(r, "done") /\ Forget(x.process)
         ELSE Goto(r, IF x.op = "verify" THEN "cache" ELSE "lookup") /\ UNCHANGED cache
      /\ UNCHANGED <<clock, user, lock, marker, tokens, blacklist, faults>>

CheckCache(r) ==
  LET p == request[r].process
  IN  /\ At(r, "cache")
      /\ IF cache[p] > clock
         THEN Answer(r, "accepted") /\ UNCHANGED cache
         ELSE Goto(r, "lookup") /\ Forget(p)
      /\ UNCHANGED <<clock, user, lock, marker, tokens, blacklist, faults>>

\* The users row: deleted, banned, banned no longer, or in order.
LookUp(r) ==
  LET x == request[r]
      next == IF user.deleted \/ BanActive(user.ban) THEN "done"
              ELSE IF x.op = "connect" THEN "accepted"
              ELSE IF user.ban = NotBanned THEN "store" ELSE "lift"
  IN  /\ At(r, "lookup")
      /\ IF next \in {"done", "accepted"}
         THEN Answer(r, next)
         ELSE Put(r, [request[r] EXCEPT !.read = user.ban, !.pc = next])
      /\ IF x.op = "verify" /\ next # "store" THEN Forget(x.process) ELSE UNCHANGED cache
      /\ UNCHANGED <<clock, user, lock, marker, tokens, blacklist, faults>>

StoreCache(r) ==
  /\ At(r, "store")
  /\ cache' = [cache EXCEPT ![request[r].process] = clock + CacheTTL]
  /\ Answer(r, "accepted")
  /\ UNCHANGED <<clock, user, lock, marker, tokens, blacklist, faults>>

-----------------------------------------------------------------------------
Change(r) ==
  \/ ChangePassword(r) \/ DeleteAccount(r) \/ BanUser(r)
  \/ UpdateUser(r) \/ Snapshot(r) \/ SnapshotTTL(r) \/ Revoke(r) \/ RevokeFails(r)
  \/ Commit(r) \/ CommitFails(r) \/ Compare(r) \/ Restore(r) \/ RollbackFails(r)

Ban(r) == StartUnban(r) \/ UnbanUser(r) \/ LiftBan(r) \/ LiftFails(r)

Session(r) ==
  \/ Login(r) \/ GenerateJWT(r)
  \/ \E t \in tokens : Logout(r, t) \/ Connect(r, t) \/ \E p \in Process : Verify(r, p, t)
  \/ CheckRevoked(r) \/ CheckCache(r) \/ LookUp(r) \/ StoreCache(r)

Next == Tick \/ \E r \in Request : Change(r) \/ Ban(r) \/ Session(r)

Spec == Init /\ [][Next]_vars

-----------------------------------------------------------------------------
(* Properties *)

\* Types of the rows, keys and requests; the row lock belongs to a transaction
\* that is between its UPDATE and its end, and every such transaction has it.
TypeOK ==
  /\ clock \in 1..MaxClock
  /\ user \in UserState
  /\ lock \in Request \cup {None}
  /\ marker \in MarkerState
  /\ tokens \subseteq 1..MaxClock
  /\ blacklist \subseteq tokens
  /\ cache \in [Process -> Nat]
  /\ request \in [Request -> RequestState]
  /\ faults \in 0..MaxFaults
  /\ \A r \in Request : lock = r <=> request[r].pc \in {"snapshot", "ttl", "set", "commit"}

\* Once ChangePassword, ResetPassword, ChangeEmail, DeleteAccount or BanUser has
\* answered with success, no request that begins later is let in with a token
\* issued up to the time of the mark, as long as the token lasts: not through a
\* cached identity, not because another such operation failed and took its mark
\* back, not because the mark expired.  Excepted is an operation that writes its mark
\* between the GET and the SET or DEL of a RollbackUserRevoke.
OldTokensShutOut ==
  [][\A r \in Request :
       request'[r].pc = "accepted" /\ ~At(r, "accepted") =>
         ~request[r].barred \/ request[r].token + Lifetime <= clock]_vars

\* A ban that has not run out is replaced by another ban, removed by UnbanUser, or
\* removed by a Login or VerifyUser that had read another, expired, ban; nothing
\* else that happens to the account removes it.
BanKept ==
  [][user.ban > clock /\ user'.ban # user.ban =>
       \E r \in Request :
         /\ request'[r].pc # request[r].pc
         /\ \/ request[r].op \in {"ban", "unban"}
            \/ At(r, "lift") /\ request[r].read # user.ban /\ request[r].read <= clock]_vars
=============================================================================
