--------------------------- MODULE SessionsProofs ---------------------------
(***************************************************************************)
(* Proofs about Sessions, for any number of requests and processes, any    *)
(* lifetimes and any number of faults.                                     *)
(***************************************************************************)
EXTENDS Sessions, TLAPS

\* The mark is there only while it lives, and lives at most as long as a token.
MarkerInv ==
  marker # NoMarker =>
    /\ clock < marker.expires
    /\ marker.expires = Never \/ marker.expires <= clock + Lifetime

\* A transaction with a time for its mark.
Marking == {"ttl", "set", "commit"}

\* A request that holds a snapshot it may put back.
Holding == {"ttl", "set", "commit", "compare", "restore"}

\* An operation whose mark must hold from now on, if it is committed.
Binding(o) == request[o].pc \in {"commit", "committed"} /\ ~request[o].raced

\* Times of marks do not lie in the future, and follow the order of the row lock.
OrderInv ==
  /\ \A r \in Request : request[r].at <= clock
  /\ \A r, o \in Request :
       At(o, "committed") /\ request[r].pc \in Marking => request[o].at <= request[r].at

\* Until the tokens issued before o have expired the mark revokes them.
Covered(o) ==
  clock < request[o].at + Lifetime =>
    /\ marker # NoMarker
    /\ request[o].at <= marker.at
    /\ request[o].at + Lifetime <= marker.expires

\* The mark p would put back does so too.
Kept(p, o) ==
  clock < request[o].at + Lifetime =>
    /\ request[p].snapshot # NoMarker
    /\ request[o].at <= request[p].snapshot.at
    /\ At(p, "ttl") \/ request[p].ttl = 0 \/ request[o].at + Lifetime <= clock + request[p].ttl

\* The requests of D marked before o, failed, and have not yet compared.  Their mark
\* is not in Redis, and nobody else will put it back: they cannot undo what o did.
Harmless(D, o) ==
  /\ \A q \in D : request[q].pc \in {"compare", "done"}
  /\ marker.by \notin D
  /\ \A p \in Request : p \notin D /\ p # o /\ request[p].pc \in Holding =>
       request[p].snapshot.by \notin D /\ Kept(p, o)

RevokeInv ==
  \A o \in Request : Binding(o) => Covered(o) /\ \E D \in SUBSET Request : Harmless(D, o)

\* A request whose token has been compared with the mark.
Passed == {"cache", "lookup", "lift", "store"}

\* A request that was barred when it began gets past the mark only with a token that
\* has expired since.
BarredInv ==
  \A r \in Request : request[r].barred =>
    /\ \E o \in Request : Bars(o, request[r].token)
    /\ request[r].op # "login"
    /\ At(r, "revoked") \/ (request[r].pc \in Passed /\ request[r].token + Lifetime <= clock)

\* Who unbans is an administrator, and who lifts a ban has read one that is over.
BanInv ==
  \A r \in Request :
    /\ At(r, "unban") => request[r].op = "unban"
    /\ At(r, "lift") => request[r].read <= clock

Inv == TypeOK /\ MarkerInv /\ OrderInv /\ RevokeInv /\ BarredInv /\ BanInv

-----------------------------------------------------------------------------
(* Records *)

LEMMA NoMarkerType == NoMarker \in MarkerState
BY SessionsAssumption DEF NoMarker, MarkerState, Never

LEMMA NoRequestType == NoRequest \in RequestState
BY SessionsAssumption, NoMarkerType DEF NoRequest, RequestState, NotBanned, Forever

LEMMA PutFact ==
  ASSUME TypeOK, NEW r \in Request, NEW x \in RequestState, Put(r, x)
  PROVE  /\ \A q \in Request \ {r} : request'[q] = request[q]
         /\ request'[r] = x
         /\ request' \in [Request -> RequestState]
BY DEF TypeOK, Put

\* The pcs of a request.
PC == {"idle", "update", "snapshot", "ttl", "set", "commit", "compare", "restore", "committed",
       "unban", "lift", "issue", "revoked", "cache", "lookup", "store", "accepted", "done"}

\* The fields that decide about marks and tokens.
SameMark(x, y) == x.snapshot = y.snapshot /\ x.ttl = y.ttl /\ x.at = y.at /\ x.raced = y.raced

SameToken(x, y) == x.op = y.op /\ x.token = y.token /\ x.barred = y.barred

\* A step of r alone that leaves the requests well typed.
Moves(r) ==
  /\ request' \in [Request -> RequestState]
  /\ \A q \in Request \ {r} : request'[q] = request[q]

LEMMA GotoFact ==
  ASSUME TypeOK, NEW r \in Request, NEW pc \in PC, Goto(r, pc)
  PROVE  /\ Moves(r)
         /\ request'[r].pc = pc
         /\ SameMark(request'[r], request[r])
         /\ SameToken(request'[r], request[r])
<1> DEFINE x == [request[r] EXCEPT !.pc = pc]
<1>1. request[r] \in RequestState
  BY DEF TypeOK
<1>2. x \in RequestState /\ x.pc = pc /\ SameMark(x, request[r]) /\ SameToken(x, request[r])
  BY <1>1 DEF RequestState, SameMark, SameToken, PC
<1>3. Put(r, x)
  BY DEF Goto
<1> HIDE DEF x
<1> QED
  BY <1>2, <1>3, PutFact DEF Moves

LEMMA AnswerFact ==
  ASSUME TypeOK, NEW r \in Request, NEW pc \in {"accepted", "done"}, Answer(r, pc)
  PROVE  /\ Moves(r)
         /\ request'[r].pc = pc
         /\ request'[r].at = 0
         /\ request'[r].barred = FALSE
<1> DEFINE x == [NoRequest EXCEPT !.pc = pc]
<1>1. x \in RequestState /\ x.pc = pc /\ x.at = 0 /\ x.barred = FALSE
  BY NoRequestType DEF RequestState, NoRequest
<1>2. Put(r, x)
  BY DEF Answer
<1> HIDE DEF x
<1> QED
  BY <1>1, <1>2, PutFact DEF Moves

LEMMA StartChangeFact ==
  ASSUME TypeOK, NEW r \in Request, NEW op \in {"credentials", "delete", "ban"},
         NEW until \in 0..Forever, StartChange(r, op, until)
  PROVE  /\ Moves(r)
         /\ request'[r].pc = "update"
         /\ SameMark(request'[r], request[r])
         /\ request'[r].barred = request[r].barred
<1> DEFINE x == [request[r] EXCEPT !.op = op, !.until = until, !.pc = "update"]
<1>1. request[r] \in RequestState
  BY DEF TypeOK
<1>2. x \in RequestState /\ x.pc = "update" /\ SameMark(x, request[r]) /\ x.barred = request[r].barred
  BY <1>1 DEF RequestState, SameMark
<1>3. Put(r, x)
  BY DEF StartChange
<1> HIDE DEF x
<1> QED
  BY <1>2, <1>3, PutFact DEF Moves

LEMMA SnapshotFact ==
  ASSUME TypeOK, NEW r \in Request, Snapshot(r)
  PROVE  /\ Moves(r)
         /\ request'[r].pc = IF marker = NoMarker THEN "set" ELSE "ttl"
         /\ request'[r].snapshot = marker
         /\ request'[r].at = clock
         /\ request'[r].barred = request[r].barred
<1> DEFINE pc == IF marker = NoMarker THEN "set" ELSE "ttl"
           x == [request[r] EXCEPT !.snapshot = marker, !.at = clock, !.pc = pc]
<1>1. request[r] \in RequestState /\ marker \in MarkerState /\ clock \in Nat /\ pc \in {"set", "ttl"}
  BY DEF TypeOK
<1>2. Put(r, x)
  BY DEF Snapshot
<1> HIDE DEF pc
<1>3. x \in RequestState /\ x.pc = pc /\ x.snapshot = marker /\ x.at = clock
      /\ x.barred = request[r].barred
  BY <1>1 DEF RequestState
<1> HIDE DEF x
<1>4. request'[r].pc = pc
  BY <1>2, <1>3, PutFact
<1> QED
  BY <1>2, <1>3, <1>4, PutFact DEF Moves, pc

LEMMA SnapshotTTLFact ==
  ASSUME TypeOK, NEW r \in Request, SnapshotTTL(r), Remaining(marker) \in 0..Lifetime
  PROVE  /\ Moves(r)
         /\ request'[r].pc = "set"
         /\ request'[r].snapshot = request[r].snapshot
         /\ request'[r].ttl = Remaining(marker)
         /\ request'[r].at = clock
         /\ request'[r].barred = request[r].barred
<1> DEFINE t == Remaining(marker)
           x == [request[r] EXCEPT !.ttl = t, !.at = clock, !.pc = "set"]
<1>1. request[r] \in RequestState /\ clock \in Nat /\ t \in 0..Lifetime
  BY DEF TypeOK
<1>2. Put(r, x)
  BY DEF SnapshotTTL
<1> HIDE DEF t
<1>3. x \in RequestState /\ x.pc = "set" /\ x.snapshot = request[r].snapshot /\ x.ttl = t
      /\ x.at = clock /\ x.barred = request[r].barred
  BY <1>1 DEF RequestState
<1> HIDE DEF x
<1>4. request'[r].ttl = t
  BY <1>2, <1>3, PutFact
<1> QED
  BY <1>2, <1>3, <1>4, PutFact DEF Moves, t

LEMMA RevokeFact ==
  ASSUME TypeOK, NEW r \in Request, Revoke(r)
  PROVE  /\ Moves(r)
         /\ request'[r].pc = "commit"
         /\ request'[r].at = request[r].at
         /\ request'[r].snapshot = request[r].snapshot
         /\ request'[r].ttl = request[r].ttl
         /\ request'[r].barred = request[r].barred
         /\ ~request'[r].raced => \A q \in Request : ~At(q, "restore")
<1> DEFINE b == \E q \in Request : At(q, "restore")
           x == [request[r] EXCEPT !.pc = "commit", !.raced = b]
<1>1. request[r] \in RequestState /\ b \in BOOLEAN
  BY DEF TypeOK
<1>2. Put(r, x)
  BY DEF Revoke
<1>3. ~b => \A q \in Request : ~At(q, "restore")
  OBVIOUS
<1> HIDE DEF b
<1>4. x \in RequestState /\ x.pc = "commit" /\ x.at = request[r].at
      /\ x.snapshot = request[r].snapshot /\ x.ttl = request[r].ttl
      /\ x.barred = request[r].barred /\ x.raced = b
  BY <1>1 DEF RequestState
<1> HIDE DEF x
<1> QED
  BY <1>2, <1>3, <1>4, PutFact DEF Moves

LEMMA CommitFact ==
  ASSUME TypeOK, NEW r \in Request, Commit(r)
  PROVE  /\ Moves(r)
         /\ request'[r].pc = "committed"
         /\ request'[r].at = request[r].at
         /\ request'[r].raced = request[r].raced
         /\ request'[r].barred = FALSE
<1> DEFINE y == request[r].at
           z == request[r].raced
           x == [NoRequest EXCEPT !.pc = "committed", !.at = y, !.raced = z]
<1>1. y \in Nat /\ z \in BOOLEAN
  BY DEF TypeOK, RequestState
<1>2. Put(r, x)
  BY DEF Commit
<1> HIDE DEF y, z
<1>3. x \in RequestState /\ x.pc = "committed" /\ x.at = y /\ x.raced = z /\ x.barred = FALSE
  BY <1>1, NoRequestType DEF RequestState, NoRequest
<1> HIDE DEF x
<1>4. request'[r].at = y /\ request'[r].raced = z
  BY <1>2, <1>3, PutFact
<1> QED
  BY <1>2, <1>3, <1>4, PutFact DEF Moves, y, z

LEMMA StartUnbanFact ==
  ASSUME TypeOK, NEW r \in Request, StartUnban(r)
  PROVE  /\ Moves(r)
         /\ request'[r].pc = "unban"
         /\ request'[r].op = "unban"
         /\ SameMark(request'[r], request[r])
         /\ request'[r].barred = request[r].barred
<1> DEFINE x == [request[r] EXCEPT !.op = "unban", !.pc = "unban"]
<1>1. request[r] \in RequestState
  BY DEF TypeOK
<1>2. x \in RequestState /\ x.pc = "unban" /\ x.op = "unban" /\ SameMark(x, request[r]) /\ x.barred = request[r].barred
  BY <1>1 DEF RequestState, SameMark
<1>3. Put(r, x)
  BY DEF StartUnban
<1> HIDE DEF x
<1> QED
  BY <1>2, <1>3, PutFact DEF Moves

LEMMA LoginFact ==
  ASSUME TypeOK, NEW r \in Request, Login(r)
  PROVE  /\ Moves(r)
         /\ request'[r].pc \in {"issue", "lift"}
         /\ request'[r].read <= clock
         /\ SameMark(request'[r], request[r])
         /\ request'[r].barred = request[r].barred
<1> DEFINE b == user.ban
           pc == IF b = NotBanned THEN "issue" ELSE "lift"
           x == [request[r] EXCEPT !.op = "login", !.read = b, !.pc = pc]
<1>1. request[r] \in RequestState /\ b \in 0..Forever /\ pc \in {"issue", "lift"}
  BY DEF TypeOK, UserState
<1>2. Put(r, x)
  BY DEF Login
<1>0. b <= clock
  BY <1>1, SessionsAssumption DEF Login, BanActive, TypeOK, Forever
<1> HIDE DEF pc
<1> HIDE DEF b
<1>3. x \in RequestState /\ x.pc = pc /\ x.read = b /\ SameMark(x, request[r])
      /\ x.barred = request[r].barred
  BY <1>1 DEF RequestState, SameMark
<1> HIDE DEF x
<1> QED
  BY <1>0, <1>1, <1>2, <1>3, PutFact DEF Moves

\* The row is in order, or its ban has run out.
LEMMA ReadFact ==
  ASSUME TypeOK, NEW r \in Request, NEW pc \in {"lift", "store"},
         Put(r, [request[r] EXCEPT !.read = user.ban, !.pc = pc])
  PROVE  /\ Moves(r)
         /\ request'[r].pc = pc
         /\ request'[r].read = user.ban
         /\ SameMark(request'[r], request[r])
         /\ SameToken(request'[r], request[r])
<1> DEFINE b == user.ban
           x == [request[r] EXCEPT !.read = b, !.pc = pc]
<1>1. request[r] \in RequestState /\ b \in 0..Forever
  BY DEF TypeOK, UserState
<1>2. Put(r, x)
  OBVIOUS
<1> HIDE DEF b
<1>3. x \in RequestState /\ x.pc = pc /\ x.read = b /\ SameMark(x, request[r]) /\ SameToken(x, request[r])
  BY <1>1 DEF RequestState, SameMark, SameToken
<1> HIDE DEF x
<1>4. request'[r].read = b
  BY <1>2, <1>3, PutFact
<1> QED
  BY <1>2, <1>3, <1>4, PutFact DEF Moves, b

LEMMA StartVerifyFact ==
  ASSUME TypeOK, NEW r \in Request, NEW op \in {"verify", "connect"},
         NEW p \in Process \cup {None}, NEW t \in tokens, StartVerify(r, op, p, t)
  PROVE  /\ Moves(r)
         /\ request'[r].pc = "revoked"
         /\ SameMark(request'[r], request[r])
         /\ request'[r].op = op
         /\ request'[r].token = t
         /\ request'[r].barred => \E o \in Request : Bars(o, t)
<1> DEFINE b == \E o \in Request : Bars(o, t)
           x == [request[r] EXCEPT !.op = op, !.process = p, !.token = t, !.barred = b,
                                   !.pc = "revoked"]
<1>1. request[r] \in RequestState /\ b \in BOOLEAN /\ t \in Nat
  BY SessionsAssumption DEF TypeOK
<1>2. Put(r, x)
  BY DEF StartVerify
<1>3. b => \E o \in Request : Bars(o, t)
  OBVIOUS
<1> HIDE DEF b
<1>4. x \in RequestState /\ x.pc = "revoked" /\ SameMark(x, request[r]) /\ x.token = t
      /\ x.op = op /\ x.barred = b
  BY <1>1 DEF RequestState, SameMark
<1> HIDE DEF x
<1> QED
  BY <1>2, <1>3, <1>4, PutFact DEF Moves

-----------------------------------------------------------------------------
(* Types *)

\* The transactions that hold the row lock.
Locking == {"snapshot", "ttl", "set", "commit"}

\* The type of what a step leaves alone, and the lock clause, from the pc of r.
LEMMA TypeFrame ==
  ASSUME TypeOK, NEW r \in Request,
         clock' = clock, user' \in UserState, lock' \in Request \cup {None},
         marker' \in MarkerState, tokens' \subseteq 1..MaxClock, blacklist' \subseteq tokens',
         cache' \in [Process -> Nat], faults' \in 0..MaxFaults,
         request' \in [Request -> RequestState],
         \A q \in Request \ {r} : request'[q].pc = request[q].pc,
         \/ lock' = lock /\ (request'[r].pc \in Locking <=> request[r].pc \in Locking)
         \/ lock = None /\ lock' = r /\ request'[r].pc \in Locking
         \/ lock = r /\ lock' = None /\ request'[r].pc \notin Locking
  PROVE  TypeOK'
<1>1. \A q \in Request : lock' = q <=> request'[q].pc \in {"snapshot", "ttl", "set", "commit"}
  BY SessionsAssumption DEF TypeOK, Locking
<1> QED
  BY <1>1 DEF TypeOK

LEMMA TickType == TypeOK /\ Tick => TypeOK'
BY SessionsAssumption, NoMarkerType DEF TypeOK, Tick

LEMMA FaultType == TypeOK /\ Fault => faults' \in 0..MaxFaults
BY SessionsAssumption DEF TypeOK, Fault

LEMMA ChangedType == ASSUME TypeOK, NEW r \in Request PROVE Changed(r) \in UserState
BY DEF TypeOK, Changed, UserState, RequestState

LEMMA MarkType == ASSUME TypeOK, NEW r \in Request PROVE Mark(r) \in MarkerState
BY SessionsAssumption DEF TypeOK, Mark, MarkerState, RequestState, Never

LEMMA PreviousType == ASSUME TypeOK, NEW r \in Request PROVE Previous(r) \in MarkerState
<1>1. request[r].snapshot \in MarkerState /\ request[r].ttl \in 0..Lifetime /\ clock \in 1..MaxClock
  BY DEF TypeOK, RequestState
<1>2. (IF request[r].ttl = 0 THEN Never ELSE clock + request[r].ttl) \in 0..Never
  BY <1>1, SessionsAssumption DEF Never
<1> QED
  BY <1>1, <1>2, NoMarkerType DEF Previous, MarkerState

\* Where a step of r leads to, as far as bans are concerned.
BanStep(r) ==
  /\ request'[r].pc = "unban" => request'[r].op = "unban"
  /\ request'[r].pc = "lift" => request'[r].read <= clock

\* A step of r that writes no mark of its own that it may take back.
Quiet(r) ==
  /\ clock' = clock
  /\ Moves(r)
  /\ marker' = marker \/ (At(r, "set") /\ marker' = Mark(r))
  /\ request[r].pc \notin {"committed", "done"}
  /\ request'[r].pc \notin Holding \cup {"committed"}
  /\ At(r, "compare") => request'[r].pc = "done"
  /\ request'[r].at \in {0, request[r].at}
  /\ BanStep(r)
  /\ request'[r].pc = "accepted" => request[r].pc \in Passed

\* What a step of r may do to the token it presents.
TokenStep(r) ==
  \/ ~request'[r].barred
  \/ request'[r].barred = request[r].barred /\ request[r].pc \notin Passed \cup {"revoked"}
  \/ SameToken(request'[r], request[r]) /\ request[r].pc \in Passed
       /\ (request[r].op # "login" => request'[r].pc \in Passed)
  \/ SameToken(request'[r], request[r]) /\ At(r, "revoked") /\ request'[r].pc \in Passed
       /\ ~IsSessionRevoked(request[r].token)
  \/ request'[r].pc = "revoked" /\ request'[r].op # "login"
       /\ \E o \in Request : Bars(o, request'[r].token)

LEMMA StartChangeStep ==
  ASSUME TypeOK, NEW r \in Request, NEW op \in {"credentials", "delete", "ban"},
         NEW until \in 0..Forever, StartChange(r, op, until)
  PROVE  TypeOK' /\ Quiet(r) /\ TokenStep(r)
<1>1. Moves(r) /\ request'[r].pc = "update" /\ request'[r].at = request[r].at
      /\ request'[r].barred = request[r].barred
  BY StartChangeFact DEF SameMark
<1>2. At(r, "idle") /\ UNCHANGED <<clock, user, lock, marker, tokens, blacklist, cache, faults>>
  BY DEF StartChange
<1>3. TypeOK'
  BY <1>1, <1>2, TypeFrame DEF Moves, At, Locking, TypeOK
<1> QED
  BY <1>1, <1>2, <1>3 DEF Quiet, BanStep, TokenStep, At, Holding, Passed

LEMMA BeginChangeStep ==
  ASSUME TypeOK, NEW r \in Request, ChangePassword(r) \/ DeleteAccount(r) \/ BanUser(r)
  PROVE  TypeOK' /\ Quiet(r) /\ TokenStep(r)
<1>1. NotBanned \in 0..Forever /\ Forever \in 0..Forever /\ clock + 1 \in 0..Forever
  BY SessionsAssumption DEF TypeOK, NotBanned, Forever
<1>2. PICK op \in {"credentials", "delete", "ban"}, until \in 0..Forever : StartChange(r, op, until)
  BY <1>1 DEF ChangePassword, DeleteAccount, BanUser
<1> QED
  BY <1>2, StartChangeStep

LEMMA UpdateUserStep ==
  ASSUME TypeOK, NEW r \in Request, UpdateUser(r)
  PROVE  TypeOK' /\ Quiet(r) /\ TokenStep(r)
<1>1. Moves(r) /\ request'[r].pc = "snapshot" /\ request'[r].at = request[r].at
      /\ request'[r].barred = request[r].barred
  BY GotoFact DEF UpdateUser, PC, SameMark, SameToken
<1>2. At(r, "update") /\ lock = None /\ lock' = r
      /\ UNCHANGED <<clock, user, marker, tokens, blacklist, cache, faults>>
  BY DEF UpdateUser
<1>3. TypeOK'
  BY <1>1, <1>2, TypeFrame DEF Moves, At, Locking, TypeOK
<1> QED
  BY <1>1, <1>2, <1>3 DEF Quiet, BanStep, TokenStep, At, Holding, Passed

LEMMA SnapshotType == ASSUME TypeOK, NEW r \in Request, Snapshot(r) PROVE TypeOK'
<1>1. Moves(r) /\ request'[r].pc \in {"set", "ttl"}
  BY SnapshotFact
<1>2. At(r, "snapshot") /\ UNCHANGED <<clock, user, lock, marker, tokens, blacklist, cache, faults>>
  BY DEF Snapshot
<1> QED
  BY <1>1, <1>2, TypeFrame DEF Moves, At, Locking, TypeOK

LEMMA RemainingType ==
  ASSUME TypeOK, MarkerInv
  PROVE  /\ Remaining(marker) \in 0..Lifetime
         /\ marker # NoMarker /\ Remaining(marker) # 0 => marker.expires = clock + Remaining(marker)
<1>1. marker.expires \in Int /\ clock \in Int /\ Lifetime \in Nat
  BY SessionsAssumption DEF TypeOK, MarkerState, Never
<1> QED
  BY <1>1 DEF MarkerInv, Remaining

LEMMA SnapshotTTLType == ASSUME TypeOK, MarkerInv, NEW r \in Request, SnapshotTTL(r) PROVE TypeOK'
<1>1. Moves(r) /\ request'[r].pc = "set"
  BY SnapshotTTLFact, RemainingType
<1>2. At(r, "ttl") /\ UNCHANGED <<clock, user, lock, marker, tokens, blacklist, cache, faults>>
  BY DEF SnapshotTTL
<1> QED
  BY <1>1, <1>2, TypeFrame DEF Moves, At, Locking, TypeOK

LEMMA RevokeType == ASSUME TypeOK, NEW r \in Request, Revoke(r) PROVE TypeOK'
<1>1. Moves(r) /\ request'[r].pc = "commit"
  BY RevokeFact
<1>2. At(r, "set") /\ marker' = Mark(r)
      /\ UNCHANGED <<clock, user, lock, tokens, blacklist, cache, faults>>
  BY DEF Revoke
<1> QED
  BY <1>1, <1>2, MarkType, TypeFrame DEF Moves, At, Locking, TypeOK

LEMMA RevokeFailsStep ==
  ASSUME TypeOK, NEW r \in Request, RevokeFails(r)
  PROVE  TypeOK' /\ Quiet(r) /\ TokenStep(r)
<1>1. Moves(r) /\ request'[r].pc = "done" /\ request'[r].at = 0 /\ ~request'[r].barred
  BY AnswerFact DEF RevokeFails
<1>2. request[r].pc \in {"snapshot", "ttl", "set"} /\ lock' = None
      /\ UNCHANGED <<clock, user, tokens, blacklist, cache>>
  BY DEF RevokeFails
<1>3. marker' = marker \/ (At(r, "set") /\ marker' = Mark(r))
  BY DEF RevokeFails
<1>4. faults' \in 0..MaxFaults
  BY FaultType DEF RevokeFails
<1>5. lock = r
  BY <1>2 DEF TypeOK
<1>6. TypeOK'
  BY <1>1, <1>2, <1>3, <1>4, <1>5, MarkType, TypeFrame DEF Moves, Locking, TypeOK
<1> QED
  BY <1>1, <1>2, <1>3, <1>6 DEF Quiet, BanStep, TokenStep, At, Holding

LEMMA CommitType == ASSUME TypeOK, NEW r \in Request, Commit(r) PROVE TypeOK'
<1>1. Moves(r) /\ request'[r].pc = "committed"
  BY CommitFact
<1>2. At(r, "commit") /\ user' = Changed(r) /\ lock' = None
      /\ UNCHANGED <<clock, marker, tokens, blacklist, cache, faults>>
  BY DEF Commit
<1>3. lock = r
  BY <1>2 DEF TypeOK, At
<1> QED
  BY <1>1, <1>2, <1>3, ChangedType, TypeFrame DEF Moves, Locking, TypeOK

LEMMA CommitFailsType == ASSUME TypeOK, NEW r \in Request, CommitFails(r) PROVE TypeOK'
<1>1. Moves(r) /\ request'[r].pc = "compare"
  BY GotoFact DEF CommitFails, PC
<1>2. At(r, "commit") /\ user' \in {user, Changed(r)} /\ lock' = None
      /\ UNCHANGED <<clock, marker, tokens, blacklist, cache>>
  BY DEF CommitFails
<1>3. lock = r
  BY <1>2 DEF TypeOK, At
<1>4. faults' \in 0..MaxFaults
  BY FaultType DEF CommitFails
<1> QED
  BY <1>1, <1>2, <1>3, <1>4, ChangedType, TypeFrame DEF Moves, Locking, TypeOK

\* The mark is its own, or the request ends.
LEMMA CompareStep ==
  ASSUME TypeOK, NEW r \in Request, Compare(r)
  PROVE  /\ TypeOK'
         /\ \/ Quiet(r) /\ TokenStep(r)
            \/ /\ IsOwn(r) /\ Moves(r) /\ request'[r].pc = "restore"
               /\ SameMark(request'[r], request[r])
               /\ request'[r].barred = request[r].barred
<1>1. At(r, "compare") /\ UNCHANGED <<clock, user, lock, marker, tokens, blacklist, cache, faults>>
  BY DEF Compare
<1>2. CASE IsOwn(r)
  <2>1. Moves(r) /\ request'[r].pc = "restore" /\ SameMark(request'[r], request[r])
        /\ request'[r].barred = request[r].barred
    BY <1>2, GotoFact DEF Compare, PC, SameToken
  <2> QED
    BY <1>1, <1>2, <2>1, TypeFrame DEF Moves, At, Locking, TypeOK
<1>3. CASE ~IsOwn(r)
  <2>1. Moves(r) /\ request'[r].pc = "done" /\ request'[r].at = 0 /\ ~request'[r].barred
    BY <1>3, AnswerFact DEF Compare
  <2>2. TypeOK'
    BY <1>1, <2>1, TypeFrame DEF Moves, At, Locking, TypeOK
  <2> QED
    BY <1>1, <2>1, <2>2 DEF Quiet, BanStep, TokenStep, At, Holding
<1> QED
  BY <1>2, <1>3

LEMMA RestoreType == ASSUME TypeOK, NEW r \in Request, Restore(r) PROVE TypeOK'
<1>1. Moves(r) /\ request'[r].pc = "done"
  BY AnswerFact DEF Restore
<1>2. At(r, "restore") /\ marker' = Previous(r)
      /\ UNCHANGED <<clock, user, lock, tokens, blacklist, cache, faults>>
  BY DEF Restore
<1> QED
  BY <1>1, <1>2, PreviousType, TypeFrame DEF Moves, At, Locking, TypeOK

LEMMA RollbackFailsStep ==
  ASSUME TypeOK, NEW r \in Request, RollbackFails(r)
  PROVE  TypeOK' /\ Quiet(r) /\ TokenStep(r)
<1>1. Moves(r) /\ request'[r].pc = "done" /\ request'[r].at = 0 /\ ~request'[r].barred
  BY AnswerFact DEF RollbackFails
<1>2. request[r].pc \in {"compare", "restore"}
      /\ UNCHANGED <<clock, user, lock, marker, tokens, blacklist, cache>>
  BY DEF RollbackFails
<1>3. faults' \in 0..MaxFaults
  BY FaultType DEF RollbackFails
<1>4. TypeOK'
  BY <1>1, <1>2, <1>3, TypeFrame DEF Moves, Locking, TypeOK
<1> QED
  BY <1>1, <1>2, <1>4 DEF Quiet, BanStep, TokenStep, At, Holding

\* Steps that begin, and steps that end, a request that holds neither the lock nor a mark.
LEMMA BeginStep ==
  ASSUME TypeOK, NEW r \in Request, At(r, "idle"), Moves(r),
         request'[r].pc \notin Locking \cup Holding \cup {"committed", "accepted"}, BanStep(r),
         SameMark(request'[r], request[r]), request'[r].barred = request[r].barred,
         UNCHANGED <<clock, user, lock, marker, tokens, blacklist, cache, faults>>
  PROVE  TypeOK' /\ Quiet(r) /\ TokenStep(r)
<1>1. TypeOK'
  BY TypeFrame DEF Moves, At, Locking, TypeOK
<1> QED
  BY <1>1 DEF Quiet, TokenStep, At, Holding, Passed, SameMark

LEMMA EndStep ==
  ASSUME TypeOK, NEW r \in Request, NEW pc \in {"accepted", "done"}, Answer(r, pc),
         request[r].pc \in {"idle", "unban", "issue", "revoked", "cache", "lookup", "store"},
         pc = "accepted" => request[r].pc \in Passed,
         user' \in UserState, tokens' \subseteq 1..MaxClock, blacklist' \subseteq tokens',
         cache' \in [Process -> Nat], UNCHANGED <<clock, lock, marker, faults>>
  PROVE  TypeOK' /\ Quiet(r) /\ TokenStep(r)
<1>1. Moves(r) /\ request'[r].pc = pc /\ request'[r].at = 0 /\ ~request'[r].barred
  BY AnswerFact
<1>2. TypeOK'
  BY <1>1, TypeFrame DEF Moves, At, Locking, TypeOK
<1> QED
  BY <1>1, <1>2 DEF Quiet, BanStep, TokenStep, At, Holding

LEMMA UnbanType == TypeOK => [user EXCEPT !.ban = NotBanned] \in UserState
BY SessionsAssumption DEF TypeOK, UserState, NotBanned, Forever

LEMMA UnbanStep ==
  ASSUME TypeOK, NEW r \in Request, StartUnban(r) \/ UnbanUser(r)
  PROVE  TypeOK' /\ Quiet(r) /\ TokenStep(r)
<1>1. CASE StartUnban(r)
  BY <1>1, StartUnbanFact, BeginStep DEF StartUnban, BanStep, Locking, Holding
<1>2. CASE UnbanUser(r)
  <2>1. At(r, "unban") /\ user' \in UserState /\ Answer(r, "done")
        /\ UNCHANGED <<clock, lock, marker, tokens, blacklist, cache, faults>>
    BY <1>2, UnbanType DEF UnbanUser
  <2> QED
    BY <2>1, EndStep DEF TypeOK, At
<1> QED
  BY <1>1, <1>2

LEMMA LiftStep ==
  ASSUME TypeOK, NEW r \in Request, LiftBan(r) \/ LiftFails(r)
  PROVE  TypeOK' /\ Quiet(r) /\ TokenStep(r)
<1>1. PICK pc \in {"issue", "store"} : Goto(r, pc) /\ (request[r].op # "login" => pc = "store")
  BY DEF LiftBan, LiftFails
<1>2. Moves(r) /\ request'[r].pc = pc /\ request'[r].at = request[r].at
      /\ SameToken(request'[r], request[r])
  BY <1>1, GotoFact DEF PC, SameMark
<1>3. At(r, "lift") /\ user' \in UserState /\ faults' \in 0..MaxFaults
      /\ UNCHANGED <<clock, lock, marker, tokens, blacklist, cache>>
  BY UnbanType, FaultType DEF LiftBan, LiftFails, TypeOK
<1>4. TypeOK'
  BY <1>2, <1>3, TypeFrame DEF Moves, At, Locking, TypeOK
<1> QED
  BY <1>1, <1>2, <1>3, <1>4 DEF Quiet, BanStep, TokenStep, At, Holding, Passed

LEMMA LoginStep ==
  ASSUME TypeOK, NEW r \in Request, Login(r) \/ GenerateJWT(r)
  PROVE  TypeOK' /\ Quiet(r) /\ TokenStep(r)
<1>1. CASE Login(r)
  BY <1>1, LoginFact, BeginStep DEF Login, BanStep, Locking, Holding
<1>2. CASE GenerateJWT(r)
  <2>1. At(r, "issue") /\ tokens' = tokens \cup {clock} /\ Answer(r, "done")
        /\ UNCHANGED <<clock, user, lock, marker, blacklist, cache, faults>>
    BY <1>2 DEF GenerateJWT
  <2> QED
    BY <2>1, EndStep DEF TypeOK, At
<1> QED
  BY <1>1, <1>2

LEMMA LogoutStep ==
  ASSUME TypeOK, NEW r \in Request, NEW t \in tokens, Logout(r, t)
  PROVE  TypeOK' /\ Quiet(r) /\ TokenStep(r)
<1>1. At(r, "idle") /\ blacklist' = blacklist \cup {t} /\ Answer(r, "done")
      /\ UNCHANGED <<clock, user, lock, marker, tokens, cache, faults>>
  BY DEF Logout
<1> QED
  BY <1>1, EndStep DEF TypeOK, At

LEMMA StartVerifyStep ==
  ASSUME TypeOK, NEW r \in Request, NEW op \in {"verify", "connect"},
         NEW p \in Process \cup {None}, NEW t \in tokens, StartVerify(r, op, p, t)
  PROVE  TypeOK' /\ Quiet(r) /\ TokenStep(r)
<1>1. Moves(r) /\ request'[r].pc = "revoked" /\ SameMark(request'[r], request[r])
      /\ request'[r].token = t /\ request'[r].op # "login"
      /\ (request'[r].barred => \E o \in Request : Bars(o, t))
  BY StartVerifyFact
<1>2. At(r, "idle") /\ UNCHANGED <<clock, user, lock, marker, tokens, blacklist, cache, faults>>
  BY DEF StartVerify
<1>3. TypeOK'
  BY <1>1, <1>2, TypeFrame DEF Moves, At, Locking, TypeOK
<1>4. Quiet(r)
  BY <1>1, <1>2 DEF Quiet, BanStep, At, Holding, SameMark
<1> QED
  BY <1>1, <1>3, <1>4 DEF TokenStep

LEMMA ForgetType == ASSUME TypeOK, NEW p, Forget(p) PROVE cache' \in [Process -> Nat]
BY DEF TypeOK, Forget

\* A step from one check of a token to the next.
LEMMA PassStep ==
  ASSUME TypeOK, NEW r \in Request, Moves(r), SameMark(request'[r], request[r]),
         SameToken(request'[r], request[r]), request'[r].pc \in Passed, BanStep(r),
         \/ request[r].pc \in {"cache", "lookup"}
         \/ At(r, "revoked") /\ ~IsSessionRevoked(request[r].token),
         cache' \in [Process -> Nat],
         UNCHANGED <<clock, user, lock, marker, tokens, blacklist, faults>>
  PROVE  TypeOK' /\ Quiet(r) /\ TokenStep(r)
<1>1. TypeOK'
  BY TypeFrame DEF Moves, At, Locking, Passed, TypeOK
<1>2. Quiet(r)
  BY DEF Quiet, At, Holding, Passed, SameMark
<1> QED
  BY <1>1, <1>2 DEF TokenStep, Passed

LEMMA CheckRevokedStep ==
  ASSUME TypeOK, NEW r \in Request, CheckRevoked(r)
  PROVE  TypeOK' /\ Quiet(r) /\ TokenStep(r)
<1>1. At(r, "revoked") /\ UNCHANGED <<clock, user, lock, marker, tokens, blacklist, faults>>
  BY DEF CheckRevoked
<1>2. CASE IsSessionRevoked(request[r].token)
  <2>1. Answer(r, "done") /\ Forget(request[r].process)
    BY <1>2 DEF CheckRevoked
  <2>2. PICK p : p = request[r].process
    OBVIOUS
  <2>3. cache' \in [Process -> Nat]
    BY <2>1, <2>2, ForgetType
  <2> QED
    BY <1>1, <2>1, <2>3, EndStep DEF TypeOK, At
<1>3. CASE ~IsSessionRevoked(request[r].token)
  <2>1. PICK pc \in {"cache", "lookup"} : Goto(r, pc) /\ UNCHANGED cache
    BY <1>3 DEF CheckRevoked
  <2> QED
    BY <1>1, <1>3, <2>1, GotoFact, PassStep DEF BanStep, PC, Passed, TypeOK
<1> QED
  BY <1>2, <1>3

LEMMA CheckCacheStep ==
  ASSUME TypeOK, NEW r \in Request, CheckCache(r)
  PROVE  TypeOK' /\ Quiet(r) /\ TokenStep(r)
<1>1. At(r, "cache") /\ UNCHANGED <<clock, user, lock, marker, tokens, blacklist, faults>>
  BY DEF CheckCache
<1>2. PICK p : p = request[r].process
  OBVIOUS
<1>3. CASE cache[p] > clock
  BY <1>1, <1>2, <1>3, EndStep DEF CheckCache, TypeOK, At, Passed
<1>4. CASE ~(cache[p] > clock)
  <2>1. Goto(r, "lookup") /\ Forget(p)
    BY <1>2, <1>4 DEF CheckCache
  <2> QED
    BY <1>1, <2>1, ForgetType, GotoFact, PassStep DEF BanStep, PC, Passed, TypeOK, At
<1> QED
  BY <1>3, <1>4

LEMMA LookUpStep ==
  ASSUME TypeOK, NEW r \in Request, LookUp(r)
  PROVE  TypeOK' /\ Quiet(r) /\ TokenStep(r)
<1>1. At(r, "lookup") /\ UNCHANGED <<clock, user, lock, marker, tokens, blacklist, faults>>
  BY DEF LookUp
<1>2. PICK p : p = request[r].process
  OBVIOUS
<1>3. Forget(p) \/ UNCHANGED cache
  BY <1>2 DEF LookUp
<1>4. cache' \in [Process -> Nat]
  BY <1>3, ForgetType DEF TypeOK
<1>5. \/ \E pc \in {"accepted", "done"} : Answer(r, pc)
      \/ /\ \E pc \in {"lift", "store"} : Put(r, [request[r] EXCEPT !.read = user.ban, !.pc = pc])
         /\ ~BanActive(user.ban)
  BY DEF LookUp
<1>6. CASE \E pc \in {"accepted", "done"} : Answer(r, pc)
  BY <1>1, <1>4, <1>6, EndStep DEF TypeOK, At, Passed
<1>7. CASE /\ \E pc \in {"lift", "store"} : Put(r, [request[r] EXCEPT !.read = user.ban, !.pc = pc])
           /\ ~BanActive(user.ban)
  <2>1. user.ban <= clock
    BY <1>7, SessionsAssumption DEF BanActive, TypeOK, UserState, Forever
  <2> QED
    BY <1>1, <1>4, <1>7, <2>1, ReadFact, PassStep DEF BanStep, Passed, At
<1> QED
  BY <1>5, <1>6, <1>7

LEMMA StoreCacheStep ==
  ASSUME TypeOK, NEW r \in Request, StoreCache(r)
  PROVE  TypeOK' /\ Quiet(r) /\ TokenStep(r)
<1>1. At(r, "store") /\ Answer(r, "accepted")
      /\ UNCHANGED <<clock, user, lock, marker, tokens, blacklist, faults>>
  BY DEF StoreCache
<1>2. clock + CacheTTL \in Nat
  BY SessionsAssumption DEF TypeOK
<1>3. cache' \in [Process -> Nat]
  BY <1>2 DEF StoreCache, TypeOK
<1> QED
  BY <1>1, <1>3, EndStep DEF TypeOK, At, Passed

\* The steps that take no mark back and write none to keep.
LEMMA QuietSteps ==
  ASSUME TypeOK, NEW r \in Request,
         \/ ChangePassword(r) \/ DeleteAccount(r) \/ BanUser(r) \/ UpdateUser(r)
         \/ RevokeFails(r) \/ RollbackFails(r) \/ Ban(r) \/ Session(r)
  PROVE  TypeOK' /\ Quiet(r) /\ TokenStep(r)
<1>1. CASE \/ ChangePassword(r) \/ DeleteAccount(r) \/ BanUser(r) \/ UpdateUser(r)
           \/ RevokeFails(r) \/ RollbackFails(r)
  BY <1>1, BeginChangeStep, UpdateUserStep, RevokeFailsStep, RollbackFailsStep
<1>2. CASE Ban(r)
  BY <1>2, UnbanStep, LiftStep DEF Ban
<1>3. CASE Session(r)
  <2>1. CASE \E t \in tokens : Logout(r, t) \/ Connect(r, t) \/ \E p \in Process : Verify(r, p, t)
    <3>1. PICK t \in tokens : Logout(r, t) \/ Connect(r, t) \/ \E p \in Process : Verify(r, p, t)
      BY <2>1
    <3> QED
      BY <3>1, LogoutStep, StartVerifyStep DEF Connect, Verify
  <2> QED
    BY <1>3, <2>1, LoginStep, CheckRevokedStep, CheckCacheStep, LookUpStep, StoreCacheStep DEF Session
<1> QED
  BY <1>1, <1>2, <1>3

-----------------------------------------------------------------------------
(* The invariant *)

LEMMA Numbers ==
  ASSUME TypeOK
  PROVE  /\ clock \in Nat /\ Lifetime \in Nat /\ Lifetime > 0 /\ Never \in Nat /\ clock < Never
         /\ clock + Lifetime < Never
         /\ marker.at \in Nat /\ marker.expires \in Nat
         /\ \A r \in Request : /\ request[r].at \in Nat /\ request[r].ttl \in 0..Lifetime
                               /\ request[r].token \in Nat /\ request[r].read \in Nat /\ request[r].barred \in BOOLEAN
                               /\ request[r].snapshot.at \in Nat
BY SessionsAssumption DEF TypeOK, RequestState, MarkerState, Never, Forever

\* One transaction at a time holds the row lock.
LEMMA OneLocks ==
  ASSUME TypeOK, NEW r \in Request, NEW o \in Request \ {r}, request[r].pc \in Locking
  PROVE  request[o].pc \notin Locking
BY SessionsAssumption DEF TypeOK, Locking

LEMMA CarryHarmless ==
  ASSUME NEW r \in Request, Moves(r), clock' = clock, NEW o \in Request \ {r},
         NEW D \in SUBSET Request, Harmless(D, o), marker'.by \notin D,
         r \in D => request'[r].pc \in {"compare", "done"},
         r \notin D /\ request'[r].pc \in Holding =>
           request'[r].snapshot.by \notin D /\ Kept(r, o)'
  PROVE  Harmless(D, o)'
<1>1. \A q \in D : request'[q].pc \in {"compare", "done"}
  BY DEF Harmless, Moves
<1>2. ASSUME NEW p \in Request, p \notin D, p # o, request'[p].pc \in Holding
      PROVE  request'[p].snapshot.by \notin D /\ Kept(p, o)'
  <2>1. CASE p = r
    BY <1>2, <2>1
  <2>2. CASE p # r
    <3>1. request'[p] = request[p] /\ request'[o] = request[o]
      BY <2>2 DEF Moves
    <3>2. request[p].snapshot.by \notin D /\ Kept(p, o)
      BY <1>2, <3>1 DEF Harmless
    <3> QED
      BY <3>1, <3>2 DEF Kept, At
  <2> QED
    BY <2>1, <2>2
<1> QED
  BY <1>1, <1>2 DEF Harmless

\* A mark written by the holder of the row lock revokes what earlier ones did.
LEMMA NewMark ==
  ASSUME TypeOK, OrderInv, NEW r \in Request, At(r, "set"), NEW o \in Request \ {r}, Binding(o),
         marker' = Mark(r), clock' = clock, request'[o] = request[o]
  PROVE  Covered(o)' /\ marker'.by = r
<1>1. At(o, "committed")
  BY OneLocks DEF Binding, At, Locking
<1>2. request[o].at <= request[r].at
  BY <1>1 DEF OrderInv, At, Marking
<1>3. marker'.by = r /\ marker'.at = request[r].at /\ marker'.expires = clock + Lifetime
  BY DEF Mark
<1>4. marker' # NoMarker
  BY <1>3, SessionsAssumption DEF NoMarker
<1>5. request[o].at <= clock
  BY DEF OrderInv
<1> QED
  BY <1>2, <1>3, <1>4, <1>5, Numbers DEF Covered

LEMMA MarkLives ==
  ASSUME TypeOK, NEW r \in Request, marker' = Mark(r), clock' = clock PROVE MarkerInv'
BY Numbers DEF Mark, MarkerInv

\* Steps of one request keep the order of the marks, whoever commits.
LEMMA OrderStep ==
  ASSUME TypeOK, OrderInv, NEW r \in Request, Moves(r), clock' = clock, TypeOK',
         request[r].pc # "committed",
         \/ request'[r].at \in {0, request[r].at} /\ request'[r].pc \notin Marking
              /\ (request'[r].pc = "committed" => request[r].pc \in Locking /\ request'[r].at = request[r].at)
         \/ request'[r].at = clock /\ request'[r].pc # "committed"
         \/ request'[r].at = request[r].at /\ request[r].pc \in Marking /\ request'[r].pc # "committed"
  PROVE  OrderInv'
<1>1. \A q \in Request : request'[q].at <= clock
  BY Numbers DEF OrderInv, Moves
<1>2. ASSUME NEW q \in Request, NEW o \in Request, request'[o].pc = "committed", request'[q].pc \in Marking
      PROVE  request'[o].at <= request'[q].at
  <2>1. q # o
    BY <1>2 DEF Marking
  <2>2. CASE o = r
    <3>1. request'[q] = request[q] /\ request[r].pc \in Locking
      BY <1>2, <2>1, <2>2 DEF Moves
    <3> QED
      BY <1>2, <2>1, <2>2, <3>1, OneLocks DEF Marking, Locking
  <2>3. CASE q = r
    <3>1. request'[o] = request[o] /\ request[o].at <= clock
      BY <2>1, <2>3 DEF Moves, OrderInv
    <3> QED
      BY <1>2, <2>1, <2>3, <3>1 DEF OrderInv, At
  <2>4. CASE o # r /\ q # r
    BY <1>2, <2>4 DEF OrderInv, Moves, At
  <2> QED
    BY <2>2, <2>3, <2>4
<1> QED
  BY <1>1, <1>2 DEF OrderInv, At

LEMMA QuietInv ==
  ASSUME Inv, NEW r \in Request, Quiet(r), TypeOK'
  PROVE  MarkerInv' /\ OrderInv' /\ RevokeInv'
<1> USE DEF Inv
<1>0. Moves(r) /\ clock' = clock /\ request[r].pc \notin {"committed", "done"}
      /\ request'[r].pc \notin Holding \cup {"committed"} /\ request'[r].at \in {0, request[r].at}
  BY DEF Quiet
<1>1. CASE marker' = marker
  <2>1. MarkerInv'
    BY <1>0, <1>1 DEF MarkerInv
  <2>2. OrderInv'
    BY <1>0, OrderStep DEF Marking, Holding
  <2>3. ASSUME NEW o \in Request, Binding(o)'
        PROVE  Covered(o)' /\ \E D \in SUBSET Request : Harmless(D, o)'
    <3>1. o # r /\ request'[o] = request[o]
      BY <1>0, <2>3 DEF Binding, Holding, Moves
    <3>2. Binding(o)
      BY <2>3, <3>1 DEF Binding
    <3>3. Covered(o)
      BY <3>2 DEF RevokeInv
    <3>4. Covered(o)'
      BY <1>0, <1>1, <3>1, <3>3 DEF Covered
    <3>5. PICK D \in SUBSET Request : Harmless(D, o)
      BY <3>2 DEF RevokeInv
    <3>6. marker'.by \notin D
      BY <1>1, <3>5 DEF Harmless
    <3>7. r \in D => request'[r].pc \in {"compare", "done"}
      BY <1>0, <3>5 DEF Harmless, Quiet, At
    <3>8. Harmless(D, o)'
      BY <1>0, <3>1, <3>5, <3>6, <3>7, CarryHarmless
    <3> QED
      BY <3>4, <3>8
  <2> QED
    BY <2>1, <2>2, <2>3 DEF RevokeInv
<1>2. CASE At(r, "set") /\ marker' = Mark(r)
  <2>1. MarkerInv'
    BY <1>0, <1>2, MarkLives
  <2>2. OrderInv'
    BY <1>0, OrderStep DEF Marking, Holding
  <2>3. ASSUME NEW o \in Request, Binding(o)'
        PROVE  Covered(o)' /\ \E D \in SUBSET Request : Harmless(D, o)'
    <3>1. o # r /\ request'[o] = request[o]
      BY <1>0, <2>3 DEF Binding, Holding, Moves
    <3>2. Binding(o)
      BY <2>3, <3>1 DEF Binding
    <3>3. Covered(o)' /\ marker'.by = r
      BY <1>0, <1>2, <3>1, <3>2, NewMark
    <3>4. PICK D \in SUBSET Request : Harmless(D, o)
      BY <3>2 DEF RevokeInv
    <3>5. r \notin D
      BY <1>2, <3>4 DEF Harmless, At
    <3>6. Harmless(D, o)'
      BY <1>0, <3>1, <3>3, <3>4, <3>5, CarryHarmless
    <3> QED
      BY <3>3, <3>6
  <2> QED
    BY <2>1, <2>2, <2>3 DEF RevokeInv
<1> QED
  BY <1>1, <1>2 DEF Quiet

LEMMA SnapshotInv ==
  ASSUME Inv, NEW r \in Request, Snapshot(r), TypeOK'
  PROVE  MarkerInv' /\ OrderInv' /\ RevokeInv'
<1> USE DEF Inv
<1>0. At(r, "snapshot") /\ clock' = clock /\ marker' = marker
  BY DEF Snapshot
<1>1. Moves(r) /\ request'[r].pc = (IF marker = NoMarker THEN "set" ELSE "ttl")
      /\ request'[r].snapshot = marker /\ request'[r].at = clock
  BY SnapshotFact
<1>2. MarkerInv'
  BY <1>0 DEF MarkerInv
<1>3. OrderInv'
  BY <1>0, <1>1, OrderStep DEF At
<1>4. ASSUME NEW o \in Request, Binding(o)'
      PROVE  Covered(o)' /\ \E D \in SUBSET Request : Harmless(D, o)'
  <2>1. o # r /\ request'[o] = request[o]
    BY <1>1, <1>4 DEF Binding, Moves
  <2>2. Binding(o)
    BY <1>4, <2>1 DEF Binding
  <2>3. Covered(o)
    BY <2>2 DEF RevokeInv
  <2>4. PICK D \in SUBSET Request : Harmless(D, o)
    BY <2>2 DEF RevokeInv
  <2>5. r \notin D /\ marker.by \notin D
    BY <1>0, <2>4 DEF Harmless, At
  <2>6. Kept(r, o)'
    BY <1>0, <1>1, <2>1, <2>3 DEF Covered, Kept, At
  <2>7. Harmless(D, o)'
    BY <1>0, <1>1, <2>1, <2>4, <2>5, <2>6, CarryHarmless
  <2> QED
    BY <1>0, <2>1, <2>3, <2>7 DEF Covered
<1> QED
  BY <1>2, <1>3, <1>4 DEF RevokeInv

LEMMA SnapshotTTLInv ==
  ASSUME Inv, NEW r \in Request, SnapshotTTL(r), TypeOK'
  PROVE  MarkerInv' /\ OrderInv' /\ RevokeInv'
<1> USE DEF Inv
<1>0. At(r, "ttl") /\ clock' = clock /\ marker' = marker
  BY DEF SnapshotTTL
<1>1. Moves(r) /\ request'[r].pc = "set" /\ request'[r].snapshot = request[r].snapshot
      /\ request'[r].ttl = Remaining(marker) /\ request'[r].at = clock
  BY SnapshotTTLFact, RemainingType
<1>2. MarkerInv'
  BY <1>0 DEF MarkerInv
<1>3. OrderInv'
  BY <1>0, <1>1, OrderStep DEF At
<1>4. ASSUME NEW o \in Request, Binding(o)'
      PROVE  Covered(o)' /\ \E D \in SUBSET Request : Harmless(D, o)'
  <2>1. o # r /\ request'[o] = request[o]
    BY <1>1, <1>4 DEF Binding, Moves
  <2>2. Binding(o)
    BY <1>4, <2>1 DEF Binding
  <2>3. Covered(o)
    BY <2>2 DEF RevokeInv
  <2>4. PICK D \in SUBSET Request : Harmless(D, o)
    BY <2>2 DEF RevokeInv
  <2>5. r \notin D /\ marker.by \notin D
    BY <1>0, <2>4 DEF Harmless, At
  <2>6. request[r].snapshot.by \notin D /\ Kept(r, o)
    BY <1>0, <2>1, <2>4, <2>5 DEF Harmless, At, Holding
  <2>7. clock < request[o].at + Lifetime =>
          request'[r].ttl = 0 \/ request[o].at + Lifetime <= clock + request'[r].ttl
    BY <1>1, <2>3, Numbers, RemainingType DEF Covered
  <2>8. Kept(r, o)'
    BY <1>0, <1>1, <2>1, <2>6, <2>7 DEF Kept, At
  <2>9. Harmless(D, o)'
    BY <1>0, <1>1, <2>1, <2>4, <2>5, <2>6, <2>8, CarryHarmless
  <2> QED
    BY <1>0, <2>1, <2>3, <2>9 DEF Covered
<1> QED
  BY <1>2, <1>3, <1>4 DEF RevokeInv

\* The new mark covers its own operation and the earlier ones; the requests that may
\* still take a mark back are those that have yet to compare, and find another's.
LEMMA RevokeInvStep ==
  ASSUME Inv, NEW r \in Request, Revoke(r), TypeOK'
  PROVE  MarkerInv' /\ OrderInv' /\ RevokeInv'
<1> USE DEF Inv
<1>0. At(r, "set") /\ clock' = clock /\ marker' = Mark(r)
  BY DEF Revoke
<1>1. Moves(r) /\ request'[r].pc = "commit" /\ request'[r].at = request[r].at
      /\ request'[r].snapshot = request[r].snapshot /\ request'[r].ttl = request[r].ttl
      /\ (~request'[r].raced => \A q \in Request : ~At(q, "restore"))
  BY RevokeFact
<1>2. MarkerInv'
  BY <1>0, MarkLives
<1>3. OrderInv'
  BY <1>0, <1>1, OrderStep DEF At, Marking
<1>4. ASSUME NEW o \in Request, Binding(o)'
      PROVE  Covered(o)' /\ \E D \in SUBSET Request : Harmless(D, o)'
  <2>1. CASE o = r
    <3>1. ~request'[r].raced
      BY <1>4, <2>1 DEF Binding
    <3>2. marker'.by = r /\ marker'.at = request[r].at /\ marker'.expires = clock + Lifetime
      BY <1>0 DEF Mark
    <3>3. marker' # NoMarker
      BY <3>2, SessionsAssumption DEF NoMarker
    <3>4. Covered(o)'
      BY <1>0, <1>1, <2>1, <3>2, <3>3, Numbers DEF Covered, OrderInv
    <3>0. PICK D \in SUBSET Request : \A q \in Request : q \in D <=> At(q, "compare")
      <4>1. {q \in Request : At(q, "compare")} \in SUBSET Request
        OBVIOUS
      <4> QED
        BY <4>1
    <3>5. r \notin D
      BY <1>0, <3>0 DEF At
    <3>6. \A q \in D : request'[q].pc \in {"compare", "done"}
      BY <1>1, <3>0, <3>5 DEF Moves, At
    <3>7. ASSUME NEW p \in Request, p \notin D, p # o PROVE request'[p].pc \notin Holding
      <4>1. request'[p] = request[p] /\ ~At(p, "restore") /\ ~At(p, "compare")
        BY <1>1, <2>1, <3>0, <3>1, <3>7 DEF Moves
      <4>2. request[p].pc \notin Locking
        BY <1>0, <2>1, <3>7, OneLocks DEF At, Locking
      <4> QED
        BY <4>1, <4>2 DEF Holding, Locking, At
    <3>8. Harmless(D, o)'
      BY <3>2, <3>5, <3>6, <3>7 DEF Harmless
    <3> QED
      BY <3>4, <3>8
  <2>2. CASE o # r
    <3>1. request'[o] = request[o]
      BY <1>1, <2>2 DEF Moves
    <3>2. Binding(o)
      BY <1>4, <3>1 DEF Binding
    <3>3. Covered(o)' /\ marker'.by = r
      BY <1>0, <2>2, <3>1, <3>2, NewMark
    <3>4. PICK D \in SUBSET Request : Harmless(D, o)
      BY <3>2 DEF RevokeInv
    <3>5. r \notin D
      BY <1>0, <3>4 DEF Harmless, At
    <3>6. request[r].snapshot.by \notin D /\ Kept(r, o)
      BY <1>0, <2>2, <3>4, <3>5 DEF Harmless, At, Holding
    <3>7. Kept(r, o)'
      BY <1>0, <1>1, <3>1, <3>6 DEF Kept, At
    <3>8. Harmless(D, o)'
      BY <1>0, <1>1, <2>2, <3>3, <3>4, <3>5, <3>6, <3>7, CarryHarmless
    <3> QED
      BY <3>3, <3>8
  <2> QED
    BY <2>1, <2>2
<1> QED
  BY <1>2, <1>3, <1>4 DEF RevokeInv

LEMMA CommitInv ==
  ASSUME Inv, NEW r \in Request, Commit(r), TypeOK'
  PROVE  MarkerInv' /\ OrderInv' /\ RevokeInv'
<1> USE DEF Inv
<1>0. At(r, "commit") /\ clock' = clock /\ marker' = marker
  BY DEF Commit
<1>1. Moves(r) /\ request'[r].pc = "committed" /\ request'[r].at = request[r].at
      /\ request'[r].raced = request[r].raced
  BY CommitFact
<1>2. MarkerInv'
  BY <1>0 DEF MarkerInv
<1>3. OrderInv'
  BY <1>0, <1>1, OrderStep DEF At, Marking, Locking
<1>4. ASSUME NEW o \in Request, Binding(o)'
      PROVE  Covered(o)' /\ \E D \in SUBSET Request : Harmless(D, o)'
  <2>1. Binding(o) /\ request'[o].at = request[o].at
    BY <1>0, <1>1, <1>4 DEF Binding, Moves, At
  <2>2. Covered(o)
    BY <2>1 DEF RevokeInv
  <2>3. PICK D \in SUBSET Request : Harmless(D, o)
    BY <2>1 DEF RevokeInv
  <2>4. r \notin D /\ marker'.by \notin D
    BY <1>0, <2>3 DEF Harmless, At
  <2>5. CASE o # r
    <3>1. Harmless(D, o)'
      BY <1>0, <1>1, <2>3, <2>4, <2>5, CarryHarmless DEF Holding
    <3> QED
      BY <1>0, <2>1, <2>2, <3>1 DEF Covered
  <2>6. CASE o = r
    <3>1. \A q \in D : request'[q].pc \in {"compare", "done"}
      BY <1>1, <2>3, <2>4 DEF Harmless, Moves
    <3>2. ASSUME NEW p \in Request, p \notin D, p # o, request'[p].pc \in Holding
          PROVE  request'[p].snapshot.by \notin D /\ Kept(p, o)'
      <4>1. request'[p] = request[p]
        BY <1>1, <2>6, <3>2 DEF Moves
      <4>2. request[p].snapshot.by \notin D /\ Kept(p, o)
        BY <2>3, <3>2, <4>1 DEF Harmless
      <4> QED
        BY <1>0, <2>1, <4>1, <4>2 DEF Kept, At
    <3>3. Harmless(D, o)'
      BY <2>4, <3>1, <3>2 DEF Harmless
    <3> QED
      BY <1>0, <2>1, <2>2, <3>3 DEF Covered
  <2> QED
    BY <2>5, <2>6
<1> QED
  BY <1>2, <1>3, <1>4 DEF RevokeInv

\* A request goes on holding its snapshot.
LEMMA HoldInv ==
  ASSUME Inv, NEW r \in Request, TypeOK', Moves(r), clock' = clock, marker' = marker,
         SameMark(request'[r], request[r]),
         \/ At(r, "commit") /\ request'[r].pc = "compare"
         \/ At(r, "compare") /\ request'[r].pc = "restore" /\ IsOwn(r)
  PROVE  MarkerInv' /\ OrderInv' /\ RevokeInv'
<1> USE DEF Inv
<1>1. request'[r].at = request[r].at /\ request'[r].snapshot = request[r].snapshot
      /\ request'[r].ttl = request[r].ttl
  BY DEF SameMark
<1>2. MarkerInv'
  BY DEF MarkerInv
<1>3. OrderInv'
  BY <1>1, OrderStep DEF At, Marking
<1>4. ASSUME NEW o \in Request, Binding(o)'
      PROVE  Covered(o)' /\ \E D \in SUBSET Request : Harmless(D, o)'
  <2>1. o # r /\ request'[o] = request[o]
    BY <1>4 DEF Binding, Moves
  <2>2. Binding(o)
    BY <1>4, <2>1 DEF Binding
  <2>3. Covered(o)
    BY <2>2 DEF RevokeInv
  <2>4. PICK D \in SUBSET Request : Harmless(D, o)
    BY <2>2 DEF RevokeInv
  <2>5. r \notin D /\ marker'.by \notin D
    BY <2>4 DEF Harmless, At, IsOwn
  <2>6. request[r].snapshot.by \notin D /\ Kept(r, o)
    BY <2>1, <2>4, <2>5 DEF Harmless, At, Holding
  <2>7. Kept(r, o)'
    BY <1>1, <2>1, <2>6 DEF Kept, At
  <2>8. Harmless(D, o)'
    BY <1>1, <2>1, <2>4, <2>5, <2>6, <2>7, CarryHarmless
  <2> QED
    BY <2>1, <2>3, <2>8 DEF Covered
<1> QED
  BY <1>2, <1>3, <1>4 DEF RevokeInv

\* The mark put back revokes what the removed one did for the operations that succeeded.
LEMMA RestoreInv ==
  ASSUME Inv, NEW r \in Request, Restore(r), TypeOK'
  PROVE  MarkerInv' /\ OrderInv' /\ RevokeInv'
<1> USE DEF Inv
<1>0. At(r, "restore") /\ clock' = clock /\ marker' = Previous(r)
  BY DEF Restore
<1>1. Moves(r) /\ request'[r].pc = "done" /\ request'[r].at = 0
  BY AnswerFact DEF Restore
<1>2. request[r].snapshot \in MarkerState
  BY DEF TypeOK, RequestState
<1>3. CASE request[r].snapshot = NoMarker
  <2>1. marker' = NoMarker
    BY <1>0, <1>3 DEF Previous
  <2>2. MarkerInv'
    BY <2>1 DEF MarkerInv
  <2>3. ASSUME NEW o \in Request, Binding(o)'
        PROVE  Covered(o)' /\ \E D \in SUBSET Request : Harmless(D, o)'
    <3>1. o # r /\ request'[o] = request[o]
      BY <1>1, <2>3 DEF Binding, Moves
    <3>2. Binding(o)
      BY <2>3, <3>1 DEF Binding
    <3>3. PICK D \in SUBSET Request : Harmless(D, o)
      BY <3>2 DEF RevokeInv
    <3>4. r \notin D /\ marker'.by \notin D
      BY <1>0, <2>1, <3>3, SessionsAssumption DEF Harmless, At, NoMarker
    <3>5. Kept(r, o)
      BY <1>0, <3>1, <3>3, <3>4 DEF Harmless, At, Holding
    <3>6. Covered(o)'
      BY <1>0, <1>3, <3>1, <3>5 DEF Kept, Covered
    <3>7. Harmless(D, o)'
      BY <1>0, <1>1, <3>1, <3>3, <3>4, CarryHarmless DEF Holding
    <3> QED
      BY <3>6, <3>7
  <2> QED
    BY <1>0, <1>1, <2>2, <2>3, OrderStep DEF RevokeInv, Marking, At
<1>4. CASE request[r].snapshot # NoMarker
  <2>1. marker'.by = request[r].snapshot.by /\ marker'.at = request[r].snapshot.at
        /\ marker'.expires = (IF request[r].ttl = 0 THEN Never ELSE clock + request[r].ttl)
    BY <1>0, <1>2, <1>4 DEF Previous, MarkerState
  <2>2. MarkerInv'
    BY <1>0, <2>1, Numbers DEF MarkerInv
  <2>3. marker' # NoMarker
    BY <2>1, Numbers DEF NoMarker
  <2>4. ASSUME NEW o \in Request, Binding(o)'
        PROVE  Covered(o)' /\ \E D \in SUBSET Request : Harmless(D, o)'
    <3>1. o # r /\ request'[o] = request[o]
      BY <1>1, <2>4 DEF Binding, Moves
    <3>2. Binding(o)
      BY <2>4, <3>1 DEF Binding
    <3>3. PICK D \in SUBSET Request : Harmless(D, o)
      BY <3>2 DEF RevokeInv
    <3>4. r \notin D
      BY <1>0, <3>3 DEF Harmless, At
    <3>5. request[r].snapshot.by \notin D /\ Kept(r, o)
      BY <1>0, <3>1, <3>3, <3>4 DEF Harmless, At, Holding
    <3>6. request[o].at <= clock
      BY DEF OrderInv
    <3>7. Covered(o)'
      BY <1>0, <2>1, <2>3, <3>1, <3>5, <3>6, Numbers DEF Kept, Covered, At
    <3>8. Harmless(D, o)'
      BY <1>0, <1>1, <2>1, <3>1, <3>3, <3>4, <3>5, CarryHarmless DEF Holding
    <3> QED
      BY <3>7, <3>8
  <2> QED
    BY <1>0, <1>1, <2>2, <2>4, OrderStep DEF RevokeInv, Marking, At
<1> QED
  BY <1>3, <1>4

LEMMA TickInv ==
  ASSUME Inv, Tick
  PROVE  MarkerInv' /\ OrderInv' /\ RevokeInv' /\ BarredInv' /\ BanInv'
<1> USE DEF Inv
<1>0. clock' = clock + 1 /\ request' = request
      /\ marker' = (IF marker.expires > clock + 1 THEN marker ELSE NoMarker)
  BY DEF Tick
<1>1. MarkerInv'
  BY <1>0, Numbers DEF MarkerInv
<1>2. OrderInv'
  BY <1>0, Numbers DEF OrderInv, At
<1>3. ASSUME NEW o \in Request, Binding(o)'
      PROVE  Covered(o)' /\ \E D \in SUBSET Request : Harmless(D, o)'
  <2>1. Binding(o)
    BY <1>0, <1>3 DEF Binding
  <2>2. Covered(o)
    BY <2>1 DEF RevokeInv
  <2>3. Covered(o)'
    BY <1>0, <2>2, Numbers DEF Covered
  <2>4. PICK D \in SUBSET Request : Harmless(D, o)
    BY <2>1 DEF RevokeInv
  <2>5. marker'.by \notin D
    BY <1>0, <2>4, SessionsAssumption DEF Harmless, NoMarker
  <2>6. ASSUME NEW p \in Request, Kept(p, o) PROVE Kept(p, o)'
    BY <1>0, <2>6, Numbers DEF Kept, At
  <2>7. Harmless(D, o)'
    BY <1>0, <2>4, <2>5, <2>6 DEF Harmless
  <2> QED
    BY <2>3, <2>7
<1>4. BarredInv'
  BY <1>0, Numbers DEF BarredInv, Bars, At
<1>5. BanInv'
  BY <1>0, Numbers DEF BanInv, At
<1> QED
  BY <1>1, <1>2, <1>3, <1>4, <1>5 DEF RevokeInv

\* An operation that succeeded stays as it is.
LEMMA BarsStay ==
  ASSUME NEW r \in Request, Moves(r), request[r].pc # "committed",
         NEW o \in Request, NEW t, Bars(o, t)
  PROVE  Bars(o, t)'
<1>1. request'[o] = request[o]
  BY DEF Bars, At, Moves
<1> QED
  BY <1>1 DEF Bars, At

\* The mark turns a barred token away until the token expires.
LEMMA BarredIsRevoked ==
  ASSUME TypeOK, RevokeInv, NEW t \in Nat, NEW o \in Request, Bars(o, t), ~IsSessionRevoked(t)
  PROVE  t + Lifetime <= clock
<1>1. Covered(o) /\ t <= request[o].at
  BY DEF Bars, RevokeInv, Binding, At
<1>2. ~(clock < request[o].at + Lifetime)
  BY <1>1, Numbers DEF Covered, IsSessionRevoked
<1> QED
  BY <1>1, <1>2, Numbers

LEMMA BarredStep ==
  ASSUME Inv, TypeOK', NEW r \in Request, Moves(r), clock' = clock, request[r].pc # "committed",
         TokenStep(r)
  PROVE  BarredInv'
<1> USE DEF Inv
<1> SUFFICES ASSUME NEW q \in Request, request'[q].barred
             PROVE  /\ \E o \in Request : Bars(o, request[q].token)'
                    /\ request'[q].op # "login"
                    /\ \/ request'[q].pc = "revoked"
                       \/ request'[q].pc \in Passed /\ request'[q].token + Lifetime <= clock'
  BY DEF BarredInv, At
<1>1. PICK t : t = request'[q].token
  OBVIOUS
<1>2. t \in Nat
  BY <1>1 DEF TypeOK, RequestState
<1>3. CASE q # r
  <2>1. request'[q] = request[q]
    BY <1>3 DEF Moves
  <2>2. PICK o \in Request : Bars(o, t)
    BY <1>1, <2>1 DEF BarredInv
  <2>3. Bars(o, t)'
    BY <2>2, BarsStay
  <2> QED
    BY <1>1, <2>1, <2>3 DEF BarredInv, At
<1>4. CASE q = r
  <2>1. CASE request'[r].barred = request[r].barred /\ request[r].pc \notin Passed \cup {"revoked"}
    BY <1>4, <2>1 DEF BarredInv, At
  <2>2. CASE SameToken(request'[r], request[r]) /\ request[r].pc \in Passed
               /\ (request[r].op # "login" => request'[r].pc \in Passed)
    <3>1. request[r].barred /\ request[r].token = t /\ request'[r].op = request[r].op
      BY <1>1, <1>4, <2>2 DEF SameToken
    <3>2. request[r].op # "login" /\ t + Lifetime <= clock /\ \E o \in Request : Bars(o, t)
      BY <2>2, <3>1 DEF BarredInv, At, Passed
    <3>3. PICK o \in Request : Bars(o, t)
      BY <3>2
    <3>4. Bars(o, t)'
      BY <3>3, BarsStay
    <3> QED
      BY <1>1, <1>4, <2>2, <3>1, <3>2, <3>4
  <2>3. CASE SameToken(request'[r], request[r]) /\ At(r, "revoked") /\ request'[r].pc \in Passed
               /\ ~IsSessionRevoked(request[r].token)
    <3>1. request[r].barred /\ request[r].token = t /\ request'[r].op = request[r].op
      BY <1>1, <1>4, <2>3 DEF SameToken
    <3>2. request[r].op # "login" /\ \E o \in Request : Bars(o, t)
      BY <3>1 DEF BarredInv
    <3>3. PICK o \in Request : Bars(o, t)
      BY <3>2
    <3>4. Bars(o, t)'
      BY <3>3, BarsStay
    <3>5. t + Lifetime <= clock
      BY <1>2, <2>3, <3>1, <3>3, BarredIsRevoked
    <3> QED
      BY <1>1, <1>4, <2>3, <3>1, <3>2, <3>4, <3>5
  <2>4. CASE request'[r].pc = "revoked" /\ request'[r].op # "login"
               /\ \E o \in Request : Bars(o, request'[r].token)
    <3>1. PICK o \in Request : Bars(o, t)
      BY <1>1, <1>4, <2>4
    <3>2. Bars(o, t)'
      BY <3>1, BarsStay
    <3> QED
      BY <1>1, <1>4, <2>4, <3>2
  <2> QED
    BY <1>4, <2>1, <2>2, <2>3, <2>4 DEF TokenStep
<1> QED
  BY <1>3, <1>4

LEMMA BanInvStep ==
  ASSUME BanInv, NEW r \in Request, Moves(r), clock' = clock, BanStep(r)
  PROVE  BanInv'
BY DEF BanInv, BanStep, Moves, At

\* A change of the account on its way from the UPDATE to its end.
LEMMA ChangeInv ==
  ASSUME Inv, NEW r \in Request,
         \/ Snapshot(r) \/ SnapshotTTL(r) \/ Revoke(r)
         \/ Commit(r) \/ CommitFails(r) \/ Compare(r) \/ Restore(r)
  PROVE  /\ Inv' /\ Moves(r)
         /\ request'[r].pc = "accepted" => request[r].pc \in Passed
<1> USE DEF Inv
<1>1. CASE Snapshot(r)
  <2>1. Moves(r) /\ request'[r].pc \in {"set", "ttl"} /\ request'[r].barred = request[r].barred
        /\ At(r, "snapshot") /\ clock' = clock
    BY <1>1, SnapshotFact DEF Snapshot
  <2> QED
    BY <1>1, <2>1, SnapshotType, SnapshotInv, BarredStep, BanInvStep
       DEF TokenStep, BanStep, Passed, At
<1>2. CASE SnapshotTTL(r)
  <2>1. Moves(r) /\ request'[r].pc = "set" /\ request'[r].barred = request[r].barred
        /\ At(r, "ttl") /\ clock' = clock
    BY <1>2, SnapshotTTLFact, RemainingType DEF SnapshotTTL
  <2> QED
    BY <1>2, <2>1, SnapshotTTLType, SnapshotTTLInv, BarredStep, BanInvStep
       DEF TokenStep, BanStep, Passed, At
<1>3. CASE Revoke(r)
  <2>1. Moves(r) /\ request'[r].pc = "commit" /\ request'[r].barred = request[r].barred
        /\ At(r, "set") /\ clock' = clock
    BY <1>3, RevokeFact DEF Revoke
  <2> QED
    BY <1>3, <2>1, RevokeType, RevokeInvStep, BarredStep, BanInvStep
       DEF TokenStep, BanStep, Passed, At
<1>4. CASE Commit(r)
  <2>1. Moves(r) /\ request'[r].pc = "committed" /\ ~request'[r].barred
        /\ At(r, "commit") /\ clock' = clock
    BY <1>4, CommitFact DEF Commit
  <2> QED
    BY <1>4, <2>1, CommitType, CommitInv, BarredStep, BanInvStep DEF TokenStep, BanStep, At
<1>5. CASE CommitFails(r)
  <2>1. Moves(r) /\ request'[r].pc = "compare" /\ SameMark(request'[r], request[r])
        /\ request'[r].barred = request[r].barred
    BY <1>5, GotoFact DEF CommitFails, PC, SameToken
  <2>2. At(r, "commit") /\ clock' = clock /\ marker' = marker
    BY <1>5 DEF CommitFails
  <2> QED
    BY <1>5, <2>1, <2>2, CommitFailsType, HoldInv, BarredStep, BanInvStep
       DEF TokenStep, BanStep, Passed, At
<1>6. CASE Compare(r)
  <2>1. At(r, "compare") /\ clock' = clock /\ marker' = marker
    BY <1>6 DEF Compare
  <2>2. TypeOK'
    BY <1>6, CompareStep
  <2>3. CASE Quiet(r) /\ TokenStep(r)
    BY <2>1, <2>2, <2>3, QuietInv, BarredStep, BanInvStep DEF Quiet
  <2>4. CASE /\ IsOwn(r) /\ Moves(r) /\ request'[r].pc = "restore"
             /\ SameMark(request'[r], request[r])
             /\ request'[r].barred = request[r].barred
    BY <2>1, <2>2, <2>4, HoldInv, BarredStep, BanInvStep DEF TokenStep, BanStep, Passed, At
  <2> QED
    BY <1>6, <2>3, <2>4, CompareStep
<1>7. CASE Restore(r)
  <2>1. Moves(r) /\ request'[r].pc = "done" /\ ~request'[r].barred
    BY <1>7, AnswerFact DEF Restore
  <2>2. At(r, "restore") /\ clock' = clock
    BY <1>7 DEF Restore
  <2> QED
    BY <1>7, <2>1, <2>2, RestoreType, RestoreInv, BarredStep, BanInvStep DEF TokenStep, BanStep, At
<1> QED
  BY <1>1, <1>2, <1>3, <1>4, <1>5, <1>6, <1>7

\* A step of a request keeps the invariant, and lets nobody in who has not passed the mark.
LEMMA RequestInv ==
  ASSUME Inv, NEW r \in Request, Change(r) \/ Ban(r) \/ Session(r)
  PROVE  /\ Inv' /\ Moves(r)
         /\ request'[r].pc = "accepted" => request[r].pc \in Passed
<1>1. CASE \/ ChangePassword(r) \/ DeleteAccount(r) \/ BanUser(r) \/ UpdateUser(r)
           \/ RevokeFails(r) \/ RollbackFails(r) \/ Ban(r) \/ Session(r)
  <2>1. TypeOK' /\ Quiet(r) /\ TokenStep(r)
    BY <1>1, QuietSteps DEF Inv
  <2> QED
    BY <2>1, QuietInv, BarredStep, BanInvStep DEF Inv, Quiet
<1>2. CASE \/ Snapshot(r) \/ SnapshotTTL(r) \/ Revoke(r)
           \/ Commit(r) \/ CommitFails(r) \/ Compare(r) \/ Restore(r)
  BY <1>2, ChangeInv
<1> QED
  BY <1>1, <1>2 DEF Change

LEMMA InitInv == Init => Inv
<1> SUFFICES ASSUME Init PROVE Inv
  OBVIOUS
<1>1. request = [r \in Request |-> NoRequest] /\ clock = 1 /\ marker = NoMarker
  BY DEF Init
<1>2. user \in UserState
  <2>1. NotBanned \in 0..Forever /\ 2 \in 0..Forever
    BY SessionsAssumption DEF NotBanned, Forever
  <2> QED
    BY <2>1, Zenon DEF Init, UserState
<1>3. TypeOK
  BY <1>1, <1>2, NoRequestType, NoMarkerType, SessionsAssumption DEF Init, TypeOK, NoRequest
<1>4. MarkerInv
  BY <1>1 DEF MarkerInv
<1>5. \A r \in Request : request[r].pc = "idle" /\ request[r].at = 0 /\ ~request[r].barred
  BY <1>1 DEF NoRequest
<1>6. OrderInv /\ RevokeInv /\ BarredInv /\ BanInv
  BY <1>1, <1>5 DEF OrderInv, RevokeInv, BarredInv, BanInv, Marking, Binding, At
<1> QED
  BY <1>3, <1>4, <1>6 DEF Inv

LEMMA StutterInv == Inv /\ UNCHANGED vars => Inv'
<1> SUFFICES ASSUME Inv, UNCHANGED vars PROVE Inv'
  OBVIOUS
<1>1. TypeOK' /\ MarkerInv' /\ OrderInv'
  BY DEF Inv, vars, TypeOK, MarkerInv, OrderInv, At
<1>2. BarredInv' /\ BanInv'
  BY DEF Inv, vars, BarredInv, BanInv, Bars, At
<1>3. RevokeInv'
  BY DEF Inv, vars, RevokeInv, Binding, Covered, Harmless, Kept, At
<1> QED
  BY <1>1, <1>2, <1>3 DEF Inv

LEMMA NextInv == Inv /\ [Next]_vars => Inv'
<1> SUFFICES ASSUME Inv, [Next]_vars PROVE Inv'
  OBVIOUS
<1>1. CASE Tick
  BY <1>1, TickType, TickInv DEF Inv
<1>2. CASE \E r \in Request : Change(r) \/ Ban(r) \/ Session(r)
  BY <1>2, RequestInv
<1> QED
  BY <1>1, <1>2, StutterInv DEF Next

\* The invariant holds in every reachable state: the mark in Redis, and whatever a
\* failed operation may still put in its place, covers every operation that succeeded.
THEOREM InvHolds == Spec => []Inv
<1>1. Init => Inv
  BY InitInv
<1>2. Inv /\ [Next]_vars => Inv'
  BY NextInv
<1> QED
  BY <1>1, <1>2, PTL DEF Spec

\* The rows, keys and requests keep their types, and the row lock has one holder.
THEOREM TypeCorrect == Spec => []TypeOK
<1>1. Inv => TypeOK
  BY DEF Inv
<1> QED
  BY <1>1, InvHolds, PTL

\* No request that begins after the account was changed is let in with an older
\* token: neither the caches, nor the failure of another change, nor time help it.
THEOREM OldTokensAreShutOut == Spec => OldTokensShutOut
<1> DEFINE Step == \A r \in Request :
                     request'[r].pc = "accepted" /\ ~At(r, "accepted") =>
                       ~request[r].barred \/ request[r].token + Lifetime <= clock
<1>1. Inv /\ [Next]_vars => [Step]_vars
  <2> SUFFICES ASSUME Inv, Next PROVE Step
    OBVIOUS
  <2> SUFFICES ASSUME NEW q \in Request, request'[q].pc = "accepted", ~At(q, "accepted")
               PROVE  ~request[q].barred \/ request[q].token + Lifetime <= clock
    OBVIOUS
  <2>1. CASE Tick
    BY <2>1 DEF Tick, At
  <2>2. CASE \E r \in Request : Change(r) \/ Ban(r) \/ Session(r)
    <3>1. PICK r \in Request : Change(r) \/ Ban(r) \/ Session(r)
      BY <2>2
    <3>2. Moves(r) /\ (request'[r].pc = "accepted" => request[r].pc \in Passed)
      BY <3>1, RequestInv
    <3>3. q = r
      BY <3>2 DEF Moves, At
    <3> QED
      BY <3>2, <3>3 DEF Inv, BarredInv, At, Passed
  <2> QED
    BY <2>1, <2>2 DEF Next
<1> QED
  BY <1>1, InvHolds, PTL DEF Spec, OldTokensShutOut

\* A ban that has not run out ends only by another ban, by UnbanUser, or by a request
\* that had read an earlier, expired ban.
THEOREM BanIsKept == Spec => BanKept
<1> DEFINE Step == user.ban > clock /\ user'.ban # user.ban =>
                     \E r \in Request :
                       /\ request'[r].pc # request[r].pc
                       /\ \/ request[r].op \in {"ban", "unban"}
                          \/ At(r, "lift") /\ request[r].read # user.ban /\ request[r].read <= clock
<1>1. Inv /\ [Next]_vars => [Step]_vars
  <2> SUFFICES ASSUME Inv, Next, user.ban > clock, user'.ban # user.ban
               PROVE  \E r \in Request :
                        /\ request'[r].pc # request[r].pc
                        /\ \/ request[r].op \in {"ban", "unban"}
                           \/ At(r, "lift") /\ request[r].read # user.ban /\ request[r].read <= clock
    OBVIOUS
  <2>0. TypeOK /\ user \in UserState
    BY DEF Inv, TypeOK
  <2>1. PICK r \in Request : Commit(r) \/ CommitFails(r) \/ UnbanUser(r) \/ LiftBan(r)
    BY DEF Next, Tick, Change, Ban, Session, ChangePassword, DeleteAccount, BanUser, StartChange,
           UpdateUser, Snapshot, SnapshotTTL, Revoke, RevokeFails, Compare, Restore, RollbackFails,
           StartUnban, LiftFails, Login, GenerateJWT, Logout, Connect, Verify, StartVerify,
           CheckRevoked, CheckCache, LookUp, StoreCache
  <2>2. CASE Commit(r) \/ CommitFails(r)
    <3>1. At(r, "commit") /\ user' \in {user, Changed(r)}
      BY <2>2 DEF Commit, CommitFails
    <3>2. request'[r].pc \in {"committed", "compare"}
      BY <2>0, <2>2, CommitFact, GotoFact DEF CommitFails, PC
    <3>3. request[r].op = "ban"
      BY <2>0, <3>1 DEF Changed, UserState
    <3> QED
      BY <3>1, <3>2, <3>3 DEF At
  <2>3. CASE UnbanUser(r)
    <3>1. At(r, "unban") /\ request'[r].pc = "done"
      BY <2>0, <2>3, AnswerFact DEF UnbanUser
    <3>2. request[r].op = "unban"
      BY <3>1 DEF Inv, BanInv
    <3> QED
      BY <3>1, <3>2 DEF At
  <2>4. CASE LiftBan(r)
    <3>1. PICK pc \in {"issue", "store"} : Goto(r, pc) /\ At(r, "lift")
      BY <2>4 DEF LiftBan
    <3>2. request'[r].pc = pc
      BY <2>0, <3>1, GotoFact DEF PC
    <3>3. request[r].read <= clock
      BY <3>1 DEF Inv, BanInv
    <3>4. request[r].read # user.ban
      BY <2>0, <3>3, Numbers, SessionsAssumption DEF UserState, Forever
    <3> QED
      BY <3>1, <3>2, <3>3, <3>4 DEF At
  <2> QED
    BY <2>1, <2>2, <2>3, <2>4
<1> QED
  BY <1>1, InvHolds, PTL DEF Spec, BanKept
=============================================================================
