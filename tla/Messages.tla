------------------------------ MODULE Messages ------------------------------
(***************************************************************************)
(* Messages and media: sending, editing and deleting messages, the uploads *)
(* they attach, avatars and reports that hold on to an upload, and the     *)
(* scheduler's cleanup of uploads nobody uses.                             *)
(*                                                                         *)
(* A request of the API reads and checks in one step and writes in a later *)
(* one, in one transaction or two statements; nothing it read is locked    *)
(* in between.  The cleanup deletes an object from the store and the row   *)
(* of it in two steps, long after it chose them.  The store has a public   *)
(* and a private bucket; an object is in the one of its category, and the  *)
(* cleanup tries the other one when that one fails.                        *)
(*                                                                         *)
(* That a user may write to the chat (membership, blocks, bans) is checked *)
(* first; a refusal changes nothing and is left out.  Somebody may always  *)
(* delete a message: its sender, or an administrator of the group.         *)
(***************************************************************************)
EXTENDS Naturals, FiniteSets

CONSTANTS Message,       \* messages
          Media,         \* uploads, ordered by their ids
          User,          \* users
          SenderOf,      \* the user who may send and edit a message
          UploaderOf,    \* the user who uploads a medium
          Request,       \* slots for requests in progress
          BatchSize,     \* uploads the cleanup takes at a time, 100 in the code
          MaxOps,        \* bound: requests
          MaxFaults,     \* bound: failures of the store, of the row's deletion, crashes
          None           \* no message, no medium

ASSUME MessagesAssumption ==
  /\ Media \subseteq Nat /\ IsFiniteSet(Media)
  /\ SenderOf \in [Message -> User]
  /\ UploaderOf \in [Media -> User]
  /\ BatchSize \in Nat \ {0}
  /\ MaxOps \in Nat
  /\ MaxFaults \in Nat
  /\ None \notin Message \cup Media

VARIABLES message,    \* the messages rows
          media,      \* the media rows
          object,     \* the media whose object is in the store
          avatar,     \* the avatar of each user
          evidence,   \* the media some report holds as evidence
          req,        \* requests in progress
          job,        \* the run of the media cleanup
          ops,        \* requests so far
          faults,     \* faults so far
          disturbed,  \* history: messages hit by overlapping requests or by the cleanup
          raced,      \* history: media the cleanup was deleting before they were put to use
          stranded    \* history: media whose object stayed while the other bucket answered

vars == <<message, media, object, avatar, evidence, req, job, ops, faults,
          disturbed, raced, stranded>>

-----------------------------------------------------------------------------
(* State *)

\* aged: older than the 15 minutes in which it may be edited.
MessageState ==
  [status : {"absent", "sent", "deleted"}, text : BOOLEAN, aged : BOOLEAN]

Category == {"message_attachment", "user_avatar"}

\* fresh: the upload URL is valid; expired: it is not; old: the retention has
\* passed as well.
Age == {"fresh", "expired", "old"}

MediaState ==
  [status   : {"absent", "pending", "completed", "purged"},
   category : Category,
   age      : Age,
   msg      : Message \cup {None}]

MakeMessage(status, text, aged) == [status |-> status, text |-> text, aged |-> aged]

AbsentMessage == MakeMessage("absent", FALSE, FALSE)

MakeMedium(status, category, age, m) ==
  [status |-> status, category |-> category, age |-> age, msg |-> m]

AbsentMedium == MakeMedium("absent", "message_attachment", "fresh", None)

Op == {"idle", "send", "edit", "delete", "complete", "avatar", "report"}

MessageOp == {"send", "edit", "delete"}

\* stale: history, another request has written the message since this one read it.
RequestState ==
  [op : Op, msg : Message \cup {None}, text : BOOLEAN, link : SUBSET Media,
   unlink : SUBSET Media, stale : BOOLEAN]

MakeRequest(op, m, text, link, unlink) ==
  [op |-> op, msg |-> m, text |-> text, link |-> link, unlink |-> unlink, stale |-> FALSE]

Outdated(q) ==
  [op |-> q.op, msg |-> q.msg, text |-> q.text, link |-> q.link, unlink |-> q.unlink,
   stale |-> TRUE]

Idle == MakeRequest("idle", None, FALSE, {}, {})

JobState ==
  [phase    : {"idle", "query", "object", "row"},
   now      : [Media -> Age],
   batch    : SUBSET Media,
   progress : BOOLEAN]

MakeJob(phase, now, batch, progress) ==
  [phase |-> phase, now |-> now, batch |-> batch, progress |-> progress]

NoJob == MakeJob("idle", [x \in Media |-> "fresh"], {}, FALSE)

\* Every variable has the type the schema gives it, and the requests about a
\* message have one.
TypeOK ==
  /\ message \in [Message -> MessageState]
  /\ media \in [Media -> MediaState]
  /\ object \subseteq Media
  /\ avatar \in [User -> Media \cup {None}]
  /\ evidence \subseteq Media
  /\ req \in [Request -> RequestState]
  /\ \A r \in Request : req[r].msg = None <=> req[r].op \notin MessageOp
  /\ job \in JobState
  /\ ops \in 0..MaxOps
  /\ faults \in 0..MaxFaults
  /\ disturbed \subseteq Message
  /\ raced \subseteq Media
  /\ stranded \subseteq Media

Init ==
  /\ message = [m \in Message |-> AbsentMessage]
  /\ media = [x \in Media |-> AbsentMedium]
  /\ object = {}
  /\ avatar = [u \in User |-> None]
  /\ evidence = {}
  /\ req = [r \in Request |-> Idle]
  /\ job = NoJob
  /\ ops = 0
  /\ faults = 0
  /\ disturbed = {}
  /\ raced = {}
  /\ stranded = {}

-----------------------------------------------------------------------------
(* Requests *)

Attached(m) == {x \in Media : media[x].msg = m}

Avatars == {avatar[u] : u \in User} \ {None}

InUse(x) == media[x].msg # None \/ x \in Avatars \/ x \in evidence

\* A request has read and checked; it writes in a later step.
Start(r, q) ==
  /\ req[r] = Idle
  /\ ops < MaxOps
  /\ ops' = ops + 1
  /\ req' = [req EXCEPT ![r] = q]
  /\ UNCHANGED <<message, media, object, avatar, evidence, job, faults,
                 disturbed, raced, stranded>>

\* The request ends without a change: an error, a lost connection, a rollback.
Abort(r) ==
  /\ req[r] # Idle
  /\ req' = [req EXCEPT ![r] = Idle]
  /\ UNCHANGED <<message, media, object, avatar, evidence, job, ops, faults,
                 disturbed, raced, stranded>>

\* The media of X that are put to use while the cleanup has them in its hands.
Endangered(X) == X \cap job.batch

\* The end of a request that wrote message m.
EndWrite(r, m) ==
  /\ req' = [s \in Request |->
              IF s = r THEN Idle
              ELSE IF req[s].msg = m THEN Outdated(req[s])
              ELSE req[s]]
  /\ disturbed' = IF req[r].stale THEN disturbed \cup {m} ELSE disturbed

\* Mutant: the update attaches a row whatever it is attached to.
LinkableAny(X) == \A x \in X : media[x].status # "purged"

\* The rows an UPDATE finds to attach: there, and attached to nothing.  If one
\* is missing the update reports a constraint error and the transaction ends.
Linkable(X) == \A x \in X : media[x].status # "purged" /\ media[x].msg = None

MovedTo(x, m) == MakeMedium(media[x].status, media[x].category, media[x].age, m)

\* media after X is attached to m and Y is taken off it.
Relinked(m, X, Y) ==
  [x \in Media |->
    IF x \in X THEN MovedTo(x, m)
    ELSE IF x \in Y /\ media[x].msg = m THEN MovedTo(x, None)
    ELSE media[x]]

\* The count of valid uploads in SendMessage and EditMessage.
Attachable(x, u) ==
  /\ media[x].status = "completed"
  /\ media[x].category = "message_attachment"
  /\ media[x].msg = None
  /\ UploaderOf[x] = u

\* The message is new: its id is generated by the insert.
SendRead(r, m, X, text) ==
  /\ message[m].status = "absent"
  /\ \A s \in Request : req[s].msg # m
  /\ text \/ X # {}
  /\ \A x \in X : Attachable(x, SenderOf[m])
  /\ Start(r, MakeRequest("send", m, text, X, {}))

SendWrite(r) ==
  LET q == req[r] IN
  /\ q.op = "send"
  /\ Linkable(q.link)
  /\ message' = [message EXCEPT ![q.msg] = MakeMessage("sent", q.text, FALSE)]
  /\ media' = Relinked(q.msg, q.link, {})
  /\ raced' = raced \cup Endangered(q.link)
  /\ EndWrite(r, q.msg)
  /\ UNCHANGED <<object, avatar, evidence, job, ops, faults, stranded>>

\* Mutant: an edit may take away the last of a message.
EditReadUnchecked(r, m, text, A) ==
  /\ message[m].status = "sent"
  /\ ~message[m].aged
  /\ \A x \in A \ Attached(m) : Attachable(x, SenderOf[m]) /\ x \notin Avatars
  /\ Start(r, MakeRequest("edit", m, text, A \ Attached(m), Attached(m) \ A))

\* A is the new set of attachments; without one the attachments stay.  An edit
\* that changes nothing ends here.
EditRead(r, m, text, A) ==
  LET link == A \ Attached(m)
      unlink == Attached(m) \ A
  IN
  /\ message[m].status = "sent"
  /\ ~message[m].aged
  /\ text \/ A # {}
  /\ text \/ message[m].text \/ link \cup unlink # {}
  /\ \A x \in link : Attachable(x, SenderOf[m]) /\ x \notin Avatars
  /\ Start(r, MakeRequest("edit", m, text, link, unlink))

\* The update is by id: it does not ask whether the message is still there to
\* be edited.
EditWrite(r) ==
  LET q == req[r] IN
  /\ q.op = "edit"
  /\ Linkable(q.link)
  /\ message' = [message EXCEPT ![q.msg] =
                  MakeMessage(message[q.msg].status, q.text, message[q.msg].aged)]
  /\ media' = Relinked(q.msg, q.link, q.unlink)
  /\ raced' = raced \cup Endangered(q.link)
  /\ EndWrite(r, q.msg)
  /\ UNCHANGED <<object, avatar, evidence, job, ops, faults, stranded>>

DeleteRead(r, m) ==
  /\ message[m].status = "sent"
  /\ Start(r, MakeRequest("delete", m, FALSE, {}, {}))

\* ClearAttachments takes off whatever is attached when the update runs.
DeleteWrite(r) ==
  LET q == req[r] IN
  /\ q.op = "delete"
  /\ message' = [message EXCEPT ![q.msg] =
                  MakeMessage("deleted", FALSE, message[q.msg].aged)]
  /\ media' = Relinked(q.msg, {}, Media)
  /\ EndWrite(r, q.msg)
  /\ UNCHANGED <<object, avatar, evidence, job, ops, faults, raced, stranded>>

Ages(m) ==
  /\ message[m].status = "sent"
  /\ ~message[m].aged
  /\ message' = [message EXCEPT ![m] = MakeMessage("sent", message[m].text, TRUE)]
  /\ UNCHANGED <<media, object, avatar, evidence, req, job, ops, faults,
                 disturbed, raced, stranded>>

-----------------------------------------------------------------------------
(* Uploads, avatars and reports *)

UploadMedia(x, c) ==
  /\ media[x].status = "absent"
  /\ media' = [media EXCEPT ![x] = MakeMedium("pending", c, "fresh", None)]
  /\ UNCHANGED <<message, object, avatar, evidence, req, job, ops, faults,
                 disturbed, raced, stranded>>

\* The client uses the presigned URL.
PutObject(x) ==
  /\ media[x].status # "absent"
  /\ media[x].age = "fresh"
  /\ x \notin object
  /\ object' = object \cup {x}
  /\ UNCHANGED <<message, media, avatar, evidence, req, job, ops, faults,
                 disturbed, raced, stranded>>

\* The upload is pending and not expired, and its object is in the store.
CompleteRead(r, x) ==
  /\ media[x].status = "pending"
  /\ media[x].age = "fresh"
  /\ x \in object
  /\ Start(r, MakeRequest("complete", None, FALSE, {x}, {}))

\* Mutant: the status is one the schema does not have.
CompleteWriteStatus(r) ==
  LET q == req[r] IN
  /\ q.op = "complete"
  /\ media' = [x \in Media |->
                IF x \in q.link
                THEN MakeMedium("uploaded", media[x].category, media[x].age, media[x].msg)
                ELSE media[x]]
  /\ req' = [req EXCEPT ![r] = Idle]
  /\ UNCHANGED <<message, object, avatar, evidence, job, ops, faults,
                 disturbed, raced, stranded>>

CompleteWrite(r) ==
  LET q == req[r] IN
  /\ q.op = "complete"
  /\ \A x \in q.link : media[x].status # "purged"
  /\ media' = [x \in Media |->
                IF x \in q.link
                THEN MakeMedium("completed", media[x].category, media[x].age, media[x].msg)
                ELSE media[x]]
  /\ req' = [req EXCEPT ![r] = Idle]
  /\ UNCHANGED <<message, object, avatar, evidence, job, ops, faults,
                 disturbed, raced, stranded>>

\* UpdateProfile with a new avatar.
AvatarRead(r, x) ==
  /\ media[x].status = "completed"
  /\ media[x].category = "user_avatar"
  /\ media[x].msg = None
  /\ x \notin Avatars
  /\ Start(r, MakeRequest("avatar", None, FALSE, {x}, {}))

\* avatar_id refers to a row that exists.
AvatarWrite(r) ==
  LET q == req[r] IN
  /\ q.op = "avatar"
  /\ \A x \in q.link : media[x].status # "purged"
  /\ \E x \in q.link : avatar' = [avatar EXCEPT ![UploaderOf[x]] = x]
  /\ raced' = raced \cup Endangered(q.link)
  /\ req' = [req EXCEPT ![r] = Idle]
  /\ UNCHANGED <<message, media, object, evidence, job, ops, faults, disturbed, stranded>>

\* UpdateProfile with delete_avatar.
DeleteAvatar(u) ==
  /\ avatar[u] # None
  /\ avatar' = [avatar EXCEPT ![u] = None]
  /\ UNCHANGED <<message, media, object, evidence, req, job, ops, faults,
                 disturbed, raced, stranded>>

\* CreateReport on a message or on a user: what the target shows is evidence.
ReportRead(r, X) ==
  /\ X # {}
  /\ \/ \E m \in Message : X = Attached(m)
     \/ \E u \in User : X = {avatar[u]} \cap Media
  /\ Start(r, MakeRequest("report", None, FALSE, X, {}))

ReportWrite(r) ==
  LET q == req[r] IN
  /\ q.op = "report"
  /\ \A x \in q.link : media[x].status # "purged"
  /\ evidence' = evidence \cup q.link
  /\ raced' = raced \cup Endangered(q.link)
  /\ req' = [req EXCEPT ![r] = Idle]
  /\ UNCHANGED <<message, media, object, avatar, job, ops, faults, disturbed, stranded>>

\* The last report on a medium is deleted by an administrator.
DeleteReport(x) ==
  /\ x \in evidence
  /\ evidence' = evidence \ {x}
  /\ UNCHANGED <<message, media, object, avatar, req, job, ops, faults,
                 disturbed, raced, stranded>>

\* Time passes.  The retention is longer than the validity of an upload URL.
Aged(x, age) == MakeMedium(media[x].status, media[x].category, age, media[x].msg)

Expires(x) ==
  /\ media[x].status \in {"pending", "completed"}
  /\ media[x].age = "fresh"
  /\ media' = [media EXCEPT ![x] = Aged(x, "expired")]
  /\ UNCHANGED <<message, object, avatar, evidence, req, job, ops, faults,
                 disturbed, raced, stranded>>

GrowsOld(x) ==
  /\ media[x].status \in {"pending", "completed"}
  /\ media[x].age = "expired"
  /\ media' = [media EXCEPT ![x] = Aged(x, "old")]
  /\ UNCHANGED <<message, object, avatar, evidence, req, job, ops, faults,
                 disturbed, raced, stranded>>

-----------------------------------------------------------------------------
(* The media cleanup *)

\* Mutant: the query does not ask for reports.
DueIgnoringReports(x) ==
  /\ \/ media[x].status = "pending" /\ job.now[x] # "fresh"
     \/ media[x].status = "completed" /\ job.now[x] = "old"
  /\ media[x].msg = None
  /\ x \notin Avatars

\* Mutant: the query finds completed uploads only.
DueCompletedOnly(x) ==
  /\ media[x].status = "completed" /\ job.now[x] = "old"
  /\ media[x].msg = None
  /\ x \notin Avatars
  /\ x \notin evidence

\* The query for orphans, with the times the run began with.
Due(x) ==
  /\ \/ media[x].status = "pending" /\ job.now[x] # "fresh"
     \/ media[x].status = "completed" /\ job.now[x] = "old"
  /\ media[x].msg = None
  /\ x \notin Avatars
  /\ x \notin evidence

Orphans == {x \in Media : Due(x)}

JobStart ==
  /\ job.phase = "idle"
  /\ job' = MakeJob("query", [x \in Media |-> media[x].age], {}, FALSE)
  /\ UNCHANGED <<message, media, object, avatar, evidence, req, ops, faults,
                 disturbed, raced, stranded>>

\* The first BatchSize orphans by id; the run ends when there are none.
FirstOrphans == {x \in Orphans : Cardinality({y \in Orphans : y < x}) < BatchSize}

JobQuery ==
  /\ job.phase = "query"
  /\ job' = IF Orphans = {} THEN NoJob
            ELSE MakeJob("object", job.now, FirstOrphans, FALSE)
  /\ UNCHANGED <<message, media, object, avatar, evidence, req, ops, faults,
                 disturbed, raced, stranded>>

\* x is the medium of the batch the run has come to.
IsNext(x) == x \in job.batch /\ \A y \in job.batch : x <= y

\* The next medium of the batch, the next query, or the end of a run whose
\* batch made no progress.
Advance(x, done) ==
  LET rest == job.batch \ {x}
      progress == job.progress \/ done
  IN  IF rest # {} THEN MakeJob("object", job.now, rest, progress)
      ELSE IF progress THEN MakeJob("query", job.now, {}, FALSE)
      ELSE NoJob

\* The object of x is deleted from the bucket of its category.
ObjectGone(x) ==
  /\ object' = object \ {x}
  /\ raced' = IF InUse(x) THEN raced ELSE raced \cup {x}

DeleteObject(x) ==
  /\ job.phase = "object"
  /\ IsNext(x)
  /\ ObjectGone(x)
  /\ job' = MakeJob("row", job.now, job.batch, job.progress)
  /\ UNCHANGED <<message, media, avatar, evidence, req, ops, faults, disturbed, stranded>>

\* The bucket of x reports an error, with the object deleted or not.
OwnBucketFails(x) ==
  /\ job.phase = "object"
  /\ IsNext(x)
  /\ faults < MaxFaults
  /\ faults' = faults + 1
  /\ ObjectGone(x) \/ UNCHANGED <<object, raced>>

\* The other bucket is asked for the same key.  It does not have it, and its
\* answer is the one for a deletion: the run goes on to the row.
DeleteObjectFallback(x) ==
  /\ OwnBucketFails(x)
  /\ job' = MakeJob("row", job.now, job.batch, job.progress)
  /\ stranded' = stranded \cup ({x} \cap object')
  /\ UNCHANGED <<message, media, avatar, evidence, req, ops, disturbed>>

\* Mutant: neither bucket answers and the run goes on to the row.
DeleteObjectFailsIgnored(x) ==
  /\ OwnBucketFails(x)
  /\ job' = MakeJob("row", job.now, job.batch, job.progress)
  /\ UNCHANGED <<message, media, avatar, evidence, req, ops, disturbed, stranded>>

\* Neither bucket answers.
DeleteObjectFails(x) ==
  /\ OwnBucketFails(x)
  /\ job' = Advance(x, FALSE)
  /\ UNCHANGED <<message, media, avatar, evidence, req, ops, disturbed, stranded>>

\* By id, whatever the row is used for by now; the references to it are cleared.
DeleteRow(x) ==
  /\ job.phase = "row"
  /\ IsNext(x)
  /\ media' = [media EXCEPT ![x] =
                MakeMedium("purged", media[x].category, media[x].age, None)]
  /\ avatar' = [u \in User |-> IF avatar[u] = x THEN None ELSE avatar[u]]
  /\ evidence' = evidence \ {x}
  /\ disturbed' = disturbed \cup ({media[x].msg} \ {None})
  /\ job' = Advance(x, TRUE)
  /\ UNCHANGED <<message, object, req, ops, faults, raced, stranded>>

DeleteRowFails(x) ==
  /\ job.phase = "row"
  /\ IsNext(x)
  /\ faults < MaxFaults
  /\ faults' = faults + 1
  /\ job' = Advance(x, FALSE)
  /\ UNCHANGED <<message, media, object, avatar, evidence, req, ops,
                 disturbed, raced, stranded>>

\* The scheduler dies or the run exceeds its time limit.
JobStops ==
  /\ job.phase # "idle"
  /\ faults < MaxFaults
  /\ faults' = faults + 1
  /\ job' = NoJob
  /\ UNCHANGED <<message, media, object, avatar, evidence, req, ops,
                 disturbed, raced, stranded>>

RunMediaCleanup ==
  \/ JobStart
  \/ JobQuery
  \/ \E x \in Media : DeleteObject(x) \/ DeleteRow(x)

-----------------------------------------------------------------------------
(* Specification *)

Next ==
  \/ \E r \in Request :
       \/ Abort(r)
       \/ SendWrite(r) \/ EditWrite(r) \/ DeleteWrite(r)
       \/ CompleteWrite(r) \/ AvatarWrite(r) \/ ReportWrite(r)
       \/ \E m \in Message :
            \/ DeleteRead(r, m)
            \/ \E X \in SUBSET Media, text \in BOOLEAN :
                 SendRead(r, m, X, text) \/ EditRead(r, m, text, X)
       \/ \E x \in Media : CompleteRead(r, x) \/ AvatarRead(r, x)
       \/ \E X \in SUBSET Media : ReportRead(r, X)
  \/ \E m \in Message : Ages(m)
  \/ \E x \in Media, c \in Category : UploadMedia(x, c)
  \/ \E x \in Media : PutObject(x) \/ Expires(x) \/ GrowsOld(x) \/ DeleteReport(x)
  \/ \E u \in User : DeleteAvatar(u)
  \/ RunMediaCleanup
  \/ \E x \in Media :
       DeleteObjectFallback(x) \/ DeleteObjectFails(x) \/ DeleteRowFails(x)
  \/ JobStops

Spec == Init /\ [][Next]_vars

\* The scheduler starts the cleanup again and again and goes on with it.
FairSpec == Spec /\ WF_vars(RunMediaCleanup)

-----------------------------------------------------------------------------
(* Properties *)

\* A sent message has text or an attachment, and a deleted one has neither
\* (EditMessage checks the one, DeleteMessage clears both), unless requests on
\* the message overlapped or the cleanup deleted an attachment under it.
MessageShape ==
  \A m \in Message \ disturbed :
    /\ message[m].status = "sent" => message[m].text \/ Attached(m) # {}
    /\ message[m].status = "deleted" => ~message[m].text /\ Attached(m) = {}

\* What a message, a profile or a report uses is complete and in the store,
\* unless the cleanup had chosen it, or had deleted its object, before it was put
\* to use: the cleanup takes nothing that is in use (RunMediaCleanup).
InUseIsStored ==
  \A x \in Media \ raced : InUse(x) => media[x].status = "completed" /\ x \in object

\* RunMediaCleanup leaves an object without its row, where no later run finds it,
\* only if the object's own bucket failed and the other one answered in its place:
\* not if both fail, not if the run ends between the object and the row, and not
\* by an upload that comes after the cleanup.
LeakedOnlyByFallback ==
  \A x \in object \ stranded : media[x].status \in {"pending", "completed"}

\* An attachment does not move from one message to another, however many
\* requests offer the same upload at once.
NotStolen ==
  [][\A x \in Media :
       media[x].msg # None => media'[x].msg \in {media[x].msg, None}]_vars

\* The upload could be collected by a cleanup that starts now.
Collectable(x) ==
  /\ \/ media[x].status = "pending" /\ media[x].age # "fresh"
     \/ media[x].status = "completed" /\ media[x].age = "old"
  /\ ~InUse(x)

\* Every upload that nobody uses is collected: none stays collectable forever,
\* although deletions fail and runs of RunMediaCleanup are cut short.
OrphansCollected == \A x \in Media : []<>~Collectable(x)
=============================================================================
