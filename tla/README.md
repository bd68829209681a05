# Atoi Talk: TLA+ models, checks and proofs

This directory models the parts of the Atoi Talk backend whose correctness depends on the order of concurrent steps,
on leases and retries, and on what happens when a step fails half way. TLC checks the models on small instances, TLAPS
proves the main results for every instance.

`PROJECT.json` is the machine-readable index: components, runs, mutants, the map from definitions to source lines,
findings, hazards and theorems.

## 1. The system

Atoi Talk is a chat backend in Go: four processes around PostgreSQL and Redis.

| Process | Code | What it does |
|---|---|---|
| API | `cmd/api`, `internal/api` | HTTP requests; every change is one database transaction, messages leave an outbox row in it |
| message worker | `cmd/message_worker`, `internal/message_worker` | claims outbox rows, projects unread counters and push deliveries, publishes events to a Redis stream |
| WebSocket gateway | `cmd/websocket_gateway`, `internal/websocket_gateway` | reads the stream through a consumer group of its own, delivers to its connections, keeps presence, relays typing |
| push worker | `cmd/push_worker`, `internal/push_worker` | claims push deliveries, checks them again, calls FCM |
| scheduler | `cmd/scheduler`, `internal/scheduler` | cleanup jobs, one replica |

How they interact: API and workers share tables (`messages`, `message_outbox`, `push_devices`, `push_deliveries`, chat
and member rows); workers and gateways share the Redis stream; API, gateways and push worker share session keys in
Redis; best-effort events (presence, typing, profile changes) go over Redis pub/sub. No process calls another
directly.

### Inventory

| Component | State | Operations | What is hard | What makes it correct |
|---|---|---|---|---|
| Message outbox, message worker | `message_outbox` rows with lock, attempts, `projected_at`; records in process | persist with the message, Claim, Project, BuildEvents, Publish, MarkPublished / MarkFailed / MarkDeadLetter | several workers, crash between any two steps, lease expiry under a live worker, lost answers, rows that become visible late | each event once on the stream, order per chat, projection before publication and once, retry limit, every row settled |
| Redis stream publisher | stream, dedupe hash per outbox row | publish script, receive, acknowledge | lost answer, trimming, expiry of the hash | no duplicate within the dedupe window |
| Push registration | `push_devices` with binding id | Upsert, Unregister | read and write are two statements | a stale request changes nothing; Unregister sticks |
| Push worker | `push_deliveries` with lock and attempts | Enqueue, Claim, checks, Send, disable token, Finish | everything checked can change while it is checked; FCM's answer can be lost | opt-outs respected, duplicates bounded by faults, outcome final, every delivery finished |
| Stream consumer, group lifecycle | consumer group and lease key per gateway, set of recent events | RefreshLease, CleanupStale, ResetGroup, Receive, Process, Ack, Close | cleanup against a slow gateway, bounded dedupe | a live gateway keeps its group or notices; no event acknowledged before it was handed on |
| Connections | connections per user with bounded queues | Register, Deliver, unregister, CloseAll | slow clients, shutdown, first and last connection | no delivery to a removed client; presence calls match the connections |
| Presence | Redis sorted sets with a TTL of 70 s | Connected, Refresh, Disconnected, ReconcileExpired | order of calls of two connections and two gateways | a user with a connection is shown online in the end |
| Chats, unread counters | `unread_count`, `last_read_at`, `hidden_at` per side | projection, MarkAsRead, HideChat | times taken before the statement, messages that are projected late | the counter is the number of visible unread messages, up to requests that overlap a message |
| Groups | members with roles, invite code, capacity | Create, Add, Join, Leave, Kick, UpdateRole, Transfer, Delete, ResetInvite | checks before locks | one owner, capacity, no member of a deleted group |
| Accounts, admin | users, bans, deleted_at | ChangePassword, ChangeEmail, DeleteAccount, BanUser, UnbanUser | owned groups checked outside the transaction; revocation in Redis, change in SQL | no group with a deleted owner; no session survives its revocation |
| Sessions | `revoked_user` marks, blacklisted tokens | revoke, snapshot, rollback, validate | mark before commit, comparison and write in two calls | no token from before a completed revocation is accepted |
| Authentication, OTP | codes, tickets, cooldowns in Redis; identities cached in the process | SendOTP, VerifyOTP, VerifyUser, Login, Logout | a cached identity after a revocation; an expired ban lifted when there is a new one | a revoked token is shut out, a ban that runs is kept |
| Messages | `messages` rows, the `message_id` of attachments | Send, Edit, Delete | edits and deletions that overlap; an upload offered twice | a sent message has content, a deleted one has none; an attachment stays with its message |
| Media, scheduler | `media` rows, objects in the store | upload, complete, attach, use as avatar, report, cleanup jobs | object and row deleted in two steps, long after they were found unused | nothing in use is deleted; nothing is left behind |
| HTTP layer, configuration, observability, adapters, generated code | none | decoding, wording, logging | - | not modelled |

The hazards, each at its line, are in `PROJECT.json` under `hazards`, with the properties that cover them or the
reason why none does.

## 2. How the project is organised

| Specification | Instances | Proofs | Covers |
|---|---|---|---|
| `Outbox`, refining `EventLog` | `MCOutbox` | `OutboxProofs` | outbox rows, message worker, publish script |
| `StreamGroup` | `MCStreamGroup` | `StreamProofs` | the stream from the publisher to the clients of a gateway |
| `Presence` | `MCPresence` | `PresenceProofs` | connections of a user on several gateways, online keys |
| `Unread` | `MCUnread` | `UnreadProofs` | unread counters, `last_message_at`, MarkAsRead, HideChat, joining |
| `Push` | `MCPush` | `PushProofs` | device registration, push worker |
| `Groups` | `MCGroups` | `GroupsProofs` | membership, roles, invites, deletion of accounts |
| `Messages` | `MCMessages` | `MessagesProofs` | messages, uploads, reports, media cleanup |
| `Sessions` | `MCSessions` | `SessionsProofs` | tokens, revocation, bans, checks of a token |

The modules meet at interfaces. `Outbox` implements `EventLog`, an append-only log that holds each event once;
`StreamGroup` starts from such a log, trims it, and lets an event come twice only as a fault (the dedupe hash of a row
has expired). `Unread` takes from `Outbox` that rows are claimed in the order of their chat and projected once, rows
committed late apart. `Presence` takes `Deliver` from `StreamGroup` and from pub/sub. Each module is checked by
itself; a composition of two of them would multiply their states and add no interaction beyond these interfaces.

## 3. Modules

### Outbox

`row` is the `message_outbox` table, `task[w][r]` what worker process `w` is doing with its claimed record `r` (one
record per row of a batch, run under the semaphore of `ProcessBatch`), `stream` and `dedupe` the Redis stream and the
hashes of the publish script, `clock` and `nextToken` the sources of `created_at` and of lock tokens.

| Action | Code |
|---|---|
| `BeginWrite`, `CommitWrite`, `AbortWrite` | the transaction of `SendMessage`: `created_at` is taken at the insert, visibility comes with the commit |
| `Claim`, `IdlePoll` | `EntOutboxStore.Claim`: the oldest due rows without or with an expired lease that are the head of their chat, up to the batch size |
| `ProjectRead`, `ProjectWrite`, `ProjectError` | `Project`: the plain SELECT by lock token, and the write of `projected_at` by id in the same transaction; the commit may succeed without the worker learning of it |
| `BuildEvents`, `Publish`, `PublishError` | `processRecord`: targets computed afresh, one script call each, answers lost or calls failed |
| `MarkPublished`, `MarkFailed`, `MarkDeadLetter`, `MarkError` | the fenced updates, which may match no row, and their failure |
| `Crash`, `LeaseExpires`, `LeaseExpiresUnderOwner`, `RetryDue` | processes that die, time that passes |

What is abstracted: time is an order of `created_at` values and, per row, whether the retry time or the lease has
passed; payloads, target computation (any set of users) and the unread arithmetic (each committed projection of a
`message.new` row counts one; `Unread` has the arithmetic) are left out; the stream is never trimmed and hashes do not
expire (`StreamGroup` has both). `late` is a history variable: the pairs of rows of a chat of which the earlier was
committed after the later was claimed.

`EventLog` is what all this promises: `Add` appends an event that is not in the log, `Settle` publishes a row whose
targets all have their event, `GiveUp` makes it dead; outcomes are final. `Outbox` maps its stream to the log, the
status of settled rows to the outcome, and `sentTo` to the targets (`Log`, `ImplementsEventLog`).

### Push

`device` is `push_devices`, `delivery` is `push_deliveries` keyed by event and device, `task[w]` what a goroutine of
the push worker does, `request[c]` a registration between its SELECT and its UPDATE. What the checks read besides the
device (session keys, the message, preferences, eligibility) is a set of gates, closed or open for a session, an event
or a user; `CloseGate` and `OpenGate` stand for logout, revocation, mute, block, removal from the chat, deletion, and
their reversal where there is one. `unregistered` holds the tokens FCM refuses.

`UpsertRead`/`UpsertWrite`/`Unregister` are `push_service.go`; `Enqueue` is the insert that ignores conflicts;
`Claim`, `DoCheck` (one step per check, in the code's order), `SendAccepted`, `SendUnanswered`, `SendRefused`,
`DisableToken` and `Finish` are `ProcessOne` with `retry` and `Finish`; `Abandon` is a crash or a failing `Finish`.
`shut` is history: what stood in the way of a delivery when it was claimed and has not been undone since. A device
that FCM's refusal has disabled is no part of it, although the first check looks at that too (`BindingStale`, against
`OptedOut`): an `Upsert` that had read the device before the refusal enables it again under the binding it had
(`push_service.go:57-61`), and the delivery may then be sent, which is no breach of anybody's choice.
Refused requests (wrong secret, malformed token) change nothing and are left out; so is the text of the notification.

### Groups

`group` is the `group_chats` row with the `deleted_at` of its `chats` row, `role` the `group_members` rows, `deleted`,
`banned` and `blocked` what the operations read of the users, `req[r]` a request of the API in progress.

The membership operations (`AddMember`, `LeaveGroup`, `KickMember`, `UpdateMemberRole`, `TransferOwnership`,
`JoinPublicGroup`, `JoinGroupByInvite`) look the group up (`Begin`), take the row lock with the no-op update of
`lockGroupMembership` and check under it (`LockAndCheck`, one `...Permitted` per operation), and write and commit
(`Commit`, with `RoleAfter` for what each writes); `Abort` is a failure at any point. `CreateGroupChat`,
`UpdateGroupChat`, `ResetInviteCode`, `DeleteGroup` and `DeleteAccount` check in one step and write in a later one
(`...Write`) without a lock in between; their UPDATE waits for a lock on the same row. What a request has looked up
before the lock (that the group is not deleted, the invite code, the visibility) is not read again, as in the code.
PostgreSQL's default isolation makes each statement see what is committed when it starts.

Left out: names, descriptions, avatars, system messages (their outbox rows are in `Outbox`), the purge of chats and
users that were deleted long ago.

### Messages

`message` is the `messages` rows (status, whether there is text, whether the 15 minutes for edits have passed),
`media` the `media` rows (status, category, age, `message_id`), `object` the media whose object is in the store,
`avatar` the `avatar_id` of the users, `evidence` the media some report refers to, `req[r]` a request between its
reads and its writes, `job` the run of the media cleanup.

`SendMessage`, `EditMessage`, `DeleteMessage`, `CompleteUpload`, the new avatar of `UpdateProfile` and `CreateReport`
are each a `...Read`, with the checks, and a `...Write`; nothing read is locked in between, and updates are by id, as
in the code. An edit gives a whole new set of attachments (`A`); an edit without one keeps the set it has read.
`Linkable` is ent's `AddAttachmentIDs`: an UPDATE of the rows with `message_id IS NULL` that fails unless it finds all
of them. The cleanup is `JobStart` (the two times it compares with), `JobQuery` (the batch), `DeleteObject`,
`DeleteRow`, their failures, and `JobStops` (time limit, crash); one run at a time, as `SkipIfStillRunning` and the
single replica of the scheduler have it.

The store has two buckets, a public one for avatars and a private one for attachments. Upload and cleanup derive the
bucket from the category alike, so an object is only ever in the bucket of its own (`object`). The cleanup asks that
bucket first. If it fails (`OwnBucketFails`: an error, with the object deleted or not), the cleanup deletes the same
key in the other bucket; S3 confirms the deletion of a key it does not have, so the run goes on to the row
(`DeleteObjectFallback`). Only if the other bucket fails too is the medium left for the next run
(`DeleteObjectFails`).

`disturbed`, `raced` and `stranded` are history variables that name what the code leaves open: messages written by a
request that read them before another one wrote, or whose attachment the cleanup deleted under them; media put to
use when the cleanup had already chosen them; and media whose object stayed while the other bucket answered. The
properties say that nothing else goes wrong.

Left out: membership, blocks and bans (they refuse a request and change nothing), `reply_to`, group avatars (they are
used and collected as user avatars are), attachments of chats that are purged. Assumed: the retention of completed
uploads is longer than the 15 minutes an upload URL is valid.

### StreamGroup

`log` holds every entry ever added to the stream and `trimmed` how many of them MAXLEN has removed; `lease` is the
lease key of each consumer group, `group` the groups with their last entry and their pending entries; `proc[p]` is one
run of the gateway binary: the progress of `main` and of the consumer goroutine, the buffer of a read, the memory of
delivered events. A restarted gateway is another process of the same instance.

`AcquireLease`, `ResetGroup`, `EnsureGroup` are `initializeRealtimeStream`; `RefreshLease` and `CleanupStale` the
lifecycle goroutine; `ReceiveBuffered`, `ReceivePending` (XAUTOCLAIM), `ReceiveNew` (XREADGROUP), `ReceiveNoGroup`,
`Deliver` and `Ack` the consumer; `Stop`, `Close`, `Crash` the end of a process; `LeaseExpires` and `LeaseLapses` the
lease of a dead and of a live owner running out. `Publish` is the publish script, trimming included: MAXLEN is
approximate, so Redis removes any part of what is too much. `lapsed`, `delivered` and `start` are history.

Abstracted: which pending entries have been idle for half a minute is left open; the cleanup lock is left out, because
the script decides each group by itself; an error answer to a command that took effect is the success followed by
`Stop`.

### Unread

One chat, private or group: `message` are messages with the state of their outbox rows, `member` the counter,
`last_read_at`, `hidden_at` and `joined_at` of each user, `last` the `last_message_at` of the chat, `request` the
requests that have taken their time and not yet written it. `ProjectUnread` with `UnreadCountAfterProjection` and
`SenderAfterProjection` is the SQL of the projection. `MarkAsRead`, `HideChat` and joining are a `Start...`, which
reads the clock of the API process, and a `Finish...`, which writes the row. `raced` is history: users for whom a
message came between the two, or whose own message was committed late. The properties say that nothing else makes a
counter inexact, and that no counter ever counts too much. Times are few, so that equal times happen. Left out:
leaving a group (the row goes), system messages, blocks.

### Sessions

One account: the `users` row with the request whose transaction has updated it (`lock`), the mark `revoked_user:<id>`
with its time and expiry, the tokens issued and logged out, the identity cached in each API process, and the requests
in progress. A token is its time of issue in milliseconds.

`ChangePassword` (which stands for `ChangeEmail` and `ResetPassword` too: all three update the row, revoke and
commit), `DeleteAccount` and `BanUser` go through `UpdateUser`, `Snapshot`, `SnapshotTTL`, `Revoke`, `Commit`; when
the commit fails, through `Compare` and `Restore`. `CommitFails` leaves open whether the database committed. `Login`
and `GenerateJWT`, `StartUnban` and `UnbanUser`, `LiftBan`, `Logout` are the other writers. `Verify` is the check of
the API (`CheckRevoked`, `CheckCache`, `LookUp`, `StoreCache`), `Connect` that of the gateway, which has no cache.
`raced` and `barred` are history: a mark written while another request was between the GET and the SET or DEL of its
rollback, and a token that was revoked when its check began.

Left out: skew between the clocks of processes and the rounding of TTLs to seconds; failing reads of Redis, which
refuse the request; the early return of `BanUser` for the same ban; which password is right.

### Presence

The connections of one user: `client[c]` with its gateway, whether it is in the map, how often its channel was closed,
the fill of its queue; `unregister[g]` the channel to `Run`; `lease[g]` the entry of gateway `g` in
`presence:instances:<user>`, `online` the key `online:<user>`. `Register` and `Unregistered` are what happens under
the mutex; `Connected` and `Disconnected` are the calls made after its release, in any order, as `ready` allows.
`Deliver` fills queues and signals full clients to `Run`, in the arbitrary order in which Go visits a map, or leaves
them to `DeliverUnregister`; `PumpFails` and
`PumpsEnd` are the pumps, `RefreshPresence` the pong, `CloseAll`, `CloseClient` and `Exit` the shutdown.
`LeaseExpires` is time: the online key expires with the latest entry, as `connectScript` sets it.

Left out: the events to the contacts and `last_seen_at`, which are best effort, and the payloads. The context that
ends `Run` and a waiting `Deliver` is cancelled up to five seconds before `CloseAll` begins, while the HTTP server
shuts down (`cmd/websocket_gateway/main.go:121`); the model lets both end with `CloseAll`. A `Run` that has ended is
in the meantime one that has not run yet, and a call of `Disconnected` given up one that still waits: neither keeps
anybody else from a step.

## 4. Runs

| Run | Instance | Shows |
|---|---|---|
| `outbox_order` | two rows of one chat, one user, two workers, one fault, one stall, two attempts, fairness | implements `EventLog`; projection before publication; order per chat; every committed row is settled |
| `outbox_unfenced_projection` | one row, two workers, one stall | **violation**: with a stall a row is projected twice |
| `stream` | a gateway, its restart and a gateway of another instance; two entries, MAXLEN 1, reads of 2, memory of 1, one fault, fairness | no gap, no repetition of what is remembered, gateways catch up, none stays up without its group |
| `presence` | two connections, two gateways, queues and signal channel of 1, one fault, fairness | no panic on a channel; keys agree; online again and again while connected, offline in the end without; slow clients dropped |
| `unread` | two messages, two users, two requests at a time, three in all, clock of 3, private chat and group | no phantom unread; counters exact but for named overlaps; who has unread messages sees the chat |
| `push_registration` | two accounts, two tokens, two concurrent registrations on one installation | opt-outs respected; stale writes do not reach a new registration |
| `push_lease` | one delivery, two workers, two faults, two changes, fairness | duplicates bounded by faults; outcomes final; every delivery is finished |
| `groups` | three users, capacity two, two requests at a time, four in all, one ban or block | one owner, the last place is taken once, ranks respected, ownership only handed over |
| `groups_deleted_owner` | three users, four requests in all | **violation**: a live group whose owner's account is deleted |
| `groups_stale_invite` | three users, four requests in all | **violation**: the expiry of an invite does not match the visibility |
| `messages` | two messages and one upload of one user, two requests at a time, four in all, one fault, fairness | content of messages, uploads in use are stored, no object without its row but by the fallback bucket, no attachment is stolen, orphans are collected |
| `sessions` | three requests, one API process, clock of 3, lifetime 2, cache 1, two faults | tokens from before a completed revocation are shut out; a ban that runs is kept |

Bounds. Two workers are enough for every race on a lease (a third only repeats the role of one of the two); two rows
are enough for order and head of line, because both relate a row to one later row of its chat; two attempts reach
first try, retry and dead letter; one stall and one or two faults reach every takeover, and `DuplicateBound` is stated
relative to the number of faults. For the stream, a second process of the same instance and one of another are the two
kinds of neighbour a gateway has, and a stream, a memory and a read of one or two entries overflow at once;
`Malformed` is empty in the run and arbitrary in the proofs. For presence, two connections on two gateways are a last
one that closes while a first one opens, on the same gateway or on another; with queues of 1 the third delivery finds
both full. Two messages are a late one and a later one. For groups, two requests at a time reach every race between
two operations (the lock lets no third matter), the first of them creates the group, and three users are an owner, an
administrator and a member; longer histories are covered by the proofs. The race for the last place needs four
requests: a creation fills the group (it needs a second member), somebody leaves, and two newcomers meet. No user of
the run is a system administrator (who may delete any group and cannot be banned); the proofs take any set of them. For messages, one upload and two messages are
the least in which an attachment can be stolen, and two requests reach every overlap; what more uploads could change
(the batches of the cleanup, several attachments on a message) is covered by the proofs, except for the liveness
property: that uploads which can be deleted are collected although others in their batch fail is not checked, and a
batch in which the same hundred deletions fail forever does end every run (`media_cleanup.go:73`). For sessions, three requests are a completed revocation, one that fails and takes its mark
back, and a check. Every bound is a constant named in the module. Symmetry is used over requests (and, in `sessions`,
API processes, in `groups`, users), in runs without liveness only.

Fairness. Workers loop on a ticker until the process is told to stop (`Worker.Run`, `Worker.run`), so claiming and
each step of a claimed record are weakly fair; leases and retry times are times that pass, so `LeaseExpires` and
`RetryDue` are weakly fair; a transaction of the API ends. Nothing is assumed of faults, stalls, registrations or
gates, and nothing says that publishing or sending ever succeeds: the retry limit ends it. In `StreamGroup` the
goroutines of a live process run on, a closing process ends, and the lease of a dead owner expires; no process need be
started, and nothing is assumed of other errors. In `Presence` goroutines run on, a connection that stays open answers
the pings (otherwise its read deadline closes it), and an entry that nobody renews expires; connections need not open,
close or be written to. In `Messages` only `RunMediaCleanup` is fair: cron starts it again and again, and a run goes
on until it ends, fails or is cut short; deletions that fail or runs that stop are at most `MaxFaults`. `Groups`,
`Unread` and `Sessions` state no fairness: requests come from clients.

Deadlock is checked in the runs of `Outbox`, `Push`, `Messages` and `Presence`. The runs of `Groups`, `Unread`,
`Sessions` and `StreamGroup` end when the requests, the clock or the processes are used up and nobody asks for
anything more, so they say CHECK_DEADLOCK FALSE; that no request waits forever for a lock follows from the commit and
the failure being enabled for its holder.

### The findings

`Project` (`ent_store.go:422`) checks the lock token with a plain SELECT and sets `projected_at` by id at the end of
the transaction. If the lease expires between the two, the worker that takes the row over reads `projected_at` as null
as well; both transactions commit and the unread counters move twice, although two tests are named for the opposite
(`ent_store_test.go:220`, `:338`). `outbox_unfenced_projection` is the trace, the theorem `OnceWithoutStalls` shows
that a stall is the only way to it.

`DeleteAccount` (`account_service.go:231`) counts the owned groups before its transaction begins and locks nothing. A
group created by the user, or an ownership transferred to the user, in between is left with an owner whose account is
deleted, which the message of the refusal (`:247`) and the test at `integration/account_test.go:356` mean to exclude
(`groups_deleted_owner`).

`ResetInviteCode` (`group_invite_service.go:226`) reads the visibility without a transaction and writes the expiry
from it. A change of visibility in between leaves a private group with a permanent invite, or a public one with an
expiring one (`groups_stale_invite`).

### Races the properties name

Some races are in the code and contradict nothing it promises. The models contain them, and the properties are stated
so that nothing else can go wrong: a revocation written between the GET and the SET or DEL of another request's
`RollbackUserRevoke` is undone (`session_repository.go:75`); `Login` and `VerifyUser` lift a ban by id that they have
read as expired, also when there is a new one (`auth_service.go:289`); a login that ends between the mark and the
commit of a change of password gets a token newer than the mark (`session_revoke.go:49`); `MarkAsRead` and `HideChat`
reset a counter although a message came after the time they write (`chat_service.go:452`); an upload that the cleanup
has chosen may be put to use before it is deleted (`media_cleanup.go:59`); an `Upsert` that read a device before FCM
refused its token enables it again (`push_service.go:61`); a gateway whose lease runs out for five
minutes loses its group and restarts (`group_lifecycle.go:166`); an entry
that MAXLEN trims before a gateway has read it is lost to that gateway (`redis_stream.go:32`), and `NoGap` and
`EventuallyDelivered` count it as settled.

Besides these races, the properties of `Messages` name one failure. When the bucket of an upload fails, the media
cleanup takes the answer of the other bucket for its own (`media_cleanup.go:60`). The other bucket never had the key,
and S3 answers its deletion with success; the row goes, the object stays, and no later run finds it, although the
cleanup "deletes orphaned files from S3 and database" (`src/README.md:218`) and logs the file as deleted (`:64`). The
test of this path (`media_cleanup_test.go:82`) looks at the row and at the calls only. `LeakedOnlyByFallback` shows
that there is no other way to an object without its row.

## 5. Proofs

Every safety property that a passing run checks, invariant or action property, is also a theorem, for all values of
the constants; so is the refinement of `EventLog`.

`OutboxProofs` proves the types, the safety invariants and the action property, single projection without stalls, and
that `Outbox` implements `EventLog`. The assumptions are those of `OutboxAssumption` in `Outbox`: the chat of each row
is a chat, the limits are naturals; no set need be finite.

The safety invariants are not inductive by themselves. `IInv` adds:

- `StreamInv`: stream and dedupe hashes hold the same events, each once, and only of projected rows;
- `TaskInv`: a task past its projection has a projected row; what it has published is in the hashes;
- `TokenInv`: lock tokens are below `nextToken`, and two tasks with the same token are the same task;
- `RowInv`: only open rows are locked, a published row has its targets in the hashes, absent rows are untouched.

`ChatOrder` needs most of it: a worker that lost its lease goes on publishing an earlier row while the later rows of
the chat are claimed, and what keeps the order is that a settled earlier row has all of its events in the hashes
already, so that the stale publish adds nothing. The proofs go action by action, and under each by conjunct.
`OnceWithoutStalls` needs an invariant of its own: without stalls the lease of a live task never expires, so a task
between the SELECT and the write is the only one on its row and `projected_at` is still null.

`GroupsProofs` proves types, one owner, capacity, and the two action properties of `Groups`, from `GroupsAssumption`:
there is a user and a group, the users are finitely many (the capacity is a cardinality), the capacity is positive.
Its invariant adds `LockInv` to the three safety invariants: at most one request holds the lock of a group row; what
it checked under the lock (`Decided`) is still so, except for the state of accounts, which the lock does not protect
and no property needs; a request is well formed, so that a transfer has one target other than the actor and a creation
is about a group that does not exist. `OneOwner` and the capacity follow at the commit because `Decided` speaks of the
roles as they are then. `QuietStep` handles all steps that leave the roles alone at once.

`MessagesProofs` proves types, `InUseIsStored`, `LeakedOnlyByFallback`, `NotStolen` and `MessageShape` of `Messages`, from
`MessagesAssumption`: the ids of media are naturals, senders and uploaders are users, the limits are naturals. Its
invariant adds to the types and to `LeakedOnlyByFallback`

- `StoreInv`: what is in use is complete; what is complete has its object or was in the hands of a cleanup; the batch
  of a cleanup holds uploads whose URL is no longer valid (so that nobody can put the object back) and those in use
  are `raced`; when a row is about to be deleted its object is gone or `stranded`;
- `LinkInv`: what a request has read of its uploads is still so when it writes, except that the row may be gone.

`NotStolen` needs no more than the types: the update that attaches finds only rows that are attached to nothing.
`MessageShape` needs `ShapeInv`: a message that does not exist yet has no attachments, nobody else writes a message
that is being sent, and an edit that nothing came before leaves text or an attachment (`ReqShape`).

The refinement in `OutboxProofs` goes through the actions once more: all but three are invisible, the publish script adds an event
that the hashes did not have (`StreamInv`), and the two final marks settle a row that was open, `MarkPublished` with
all its targets in the log (`TaskInv`). The theorems `EventsOnce`, `NoEventMissing`, `OneRowPerChat`,
`LeaseExclusive`, `OutcomeFinal` and, in `Groups`, `ChecksHoldUnderLock` state facts that no run lists, because a
property of a run implies them or their part of the invariant carries them.

`StreamProofs` proves types, `NoGap` and `DeliveredOnce` of `StreamGroup`, from `StreamAssumption`. The invariant says
what a process has in hand (`ProcOK`: an entry about to be acknowledged was delivered or cannot be decoded) and what
its group knows (`GroupOK`), that who is alive has the lease unless it ran out (`OwnInv`), and that every entry since
its start is delivered, trimmed, pending or not yet handed out (`CoverInv`). `OwnInv` is why a sweep or a restart
cannot open a gap. `DeliveredOnce` needs `OnceInv`: the memory is the tail of the deliveries, up to its bound.

`SessionsProofs` proves types, `OldTokensShutOut` and `BanKept` of `Sessions`, from `SessionsAssumption`.
`OldTokensShutOut` rests on `RevokeInv`: a committed revocation is `Covered` by the mark until its tokens have
expired, and whatever another request may still put back keeps it so. The difficulty is a request that marked earlier,
failed, and has not yet compared: its mark is no longer in Redis, but a third request could have it in its snapshot
and put it back, and then the comparison would succeed and restore something older. `Harmless(D, o)` names the set `D`
of such requests and says that their marks are neither in Redis nor in a snapshot anyone holds. `OrderInv` orders the
times of marks by the row lock, `MarkerInv` bounds their lives, `BarredInv` and `BanInv` carry what a check and a lift
have read.

`PushProofs` proves all safety properties of `Push`, from `PushAssumption`: there is something to register and to
send, the workers are finitely many, a session has a user, the limits are naturals. Its invariant has four parts
besides the types:

- `BindInv`: binding ids are fresh and stand for one session and one token; a registration under way that saw the
  current binding saw the current row, its disabling by FCM aside; a delivery with the current binding is for the
  current user, who has not unregistered. `UnregisterSticks` follows from it, because `Unregister` takes a new id;
- `LockInv`: lock tokens are fresh, no two busy workers share one, and a running lease is on a pending delivery;
- `ShutInv`: as long as a worker is checking, each thing that was closed at its claim and still is belongs to a check
  it has yet to make, or the device has been lost to this delivery for good (`OptedOutStays`); nothing is left when it
  comes to sending. It also carries what `DisablesRefusedToken` needs;
- `CountInv`: what FCM has accepted of a delivery, plus the workers that have lost their lease and may still send
  (`Stale`), is at most the faults, plus one if an outcome is recorded or a worker with the lease is about to record
  it (`Credit`). `DuplicateBound` alone says nothing of the sends that are still to come.

A theorem that no run states, `AttemptsAreBounded`, bounds how often a delivery is claimed: `MaxAttempts`, and once
more for each fault. `Claim` does not look at the limit; only `retry` does, in a worker that holds the lease. So the
invariant (`AttemptAt`) follows what a lease can come to: given back, it was below the limit; expired or abandoned, a
fault has paid for it.

The proof of `OptOutRespected` failed at first, rightly: the property then counted a device that FCM had refused as
one that had opted out. The registration described in section 3 refutes that on instances larger than the run's, and
the property now speaks of what people did.

`UnreadProofs` proves types, `NoPhantomUnread`, `CountExact` and `UnreadIsVisible` of `Unread`, from
`UnreadAssumption`; the messages are finitely many, since a counter is compared with a cardinality. The three
properties are inductive together with `OrderInv`: a row that waits comes after every row that was claimed, unless its
sender is known to have raced. It is needed where the sender's own message counts as read: a projection resets the
counter of the sender, which is exact only if nothing earlier is still to come.

`PresenceProofs` proves types and `NoPanic` of `Presence`, from `PresenceAssumption`, for any number of gateways and
connections and any length of the queues. `TypeOK` holds the agreement of the two keys in Redis, which every script
keeps; it needs `AtInv`, that whoever calls a script has a gateway. That `Run`'s channel never holds more than its
length rests on the connections being finitely many.
`SlowStaysPursued` is the safety half of `SlowIsDropped`: a client whose queue was found full is in the map, and in
the channel to `Run` or among those that `Deliver` unregisters itself.

Only model-checked, because liveness under fairness is out of this prover's reach: `EventuallySettled`,
`EventuallyFinished`, `OrphansCollected`, `EventuallyDelivered`, `NoZombie`, `OpenIsOnline`, `NoneIsOffline` and
`SlowIsDropped`. The three runs that expect a violation have no theorem.

## 6. Not modelled

- Generated code: the ent client and the API documentation are three quarters of the lines of the implementation. They
  have no logic of this program; the models use the schemas in `ent/schema`.
- The HTTP layer, configuration, bootstrap, observability, e-mail, captcha: decoding, wording and I/O without state of
  their own.
- Typing indicators and pub/sub events: published once, not stored, not acknowledged; nothing depends on their
  arrival.
- One-time codes: verified and consumed by one Lua script, so that no two requests can use the same code; registration
  is one transaction behind unique indexes.
- Rate limiting: an atomic counter; a missing expiry is repaired by the next call. The retry helper: a sequential
  function with unit tests.
- The cleanup of users, chats and outbox rows: it deletes what has been deleted or settled for days, which no
  operation revives.
- Private chat creation, listing and search, ResolveReport, ResetUserInfo, notification preference rows: single
  statements, or reads.
- The contents of messages, events and notifications.
