--------------------------- MODULE MessagesProofs ---------------------------
(***************************************************************************)
(* Proofs about Messages: types, the media in use and their objects,       *)
(* attachments that are not stolen, and the shape of messages.             *)
(***************************************************************************)
EXTENDS Messages, TLAPS

\* What the requests and the cleanup rely on about uploads.
StoreInv ==
  \* An upload not yet made is fresh and has no object; a purged one is not fresh.
  /\ \A x \in Media : media[x].status = "absent" => media[x].age = "fresh"
  /\ \A x \in Media : media[x].status = "purged" => media[x].age # "fresh"
  \* What is in use is complete; a completed upload has its object unless raced.
  /\ \A x \in Media : InUse(x) => media[x].status = "completed"
  /\ \A x \in Media : media[x].status = "completed" => x \in object \/ x \in raced
  \* A batch holds uploads whose time is over, and those in use are raced.
  /\ \A x \in Media : job.now[x] # "fresh" => media[x].age # "fresh"
  /\ \A x \in job.batch : /\ media[x].status \in {"pending", "completed"}
                          /\ media[x].age # "fresh"
                          /\ InUse(x) => x \in raced
  /\ job.phase = "row" => \A x \in Media : IsNext(x) => x \notin object \/ x \in stranded

\* What a request has read of its uploads and may rely on when it writes.
LinkInv ==
  \A r \in Request : \A x \in req[r].link :
    /\ req[r].op # "complete" => media[x].status \in {"completed", "purged"}
    /\ req[r].op = "complete" =>
         /\ media[x].status \in {"pending", "completed", "purged"}
         /\ media[x].status = "pending" => x \in object \/ x \in raced

IInv == TypeOK /\ StoreInv /\ LinkInv /\ LeakedOnlyByFallback
-----------------------------------------------------------------------------
(* Types *)

\* The records the actions build have the types of the variables.
LEMMA Constructors ==
  /\ \A status \in {"absent", "sent", "deleted"}, text, aged \in BOOLEAN :
       MakeMessage(status, text, aged) \in MessageState
  /\ \A status \in {"absent", "pending", "completed", "purged"}, c \in Category, a \in Age,
        m \in Message \cup {None} : MakeMedium(status, c, a, m) \in MediaState
  /\ \A op \in Op, m \in Message \cup {None}, text \in BOOLEAN, X, Y \in SUBSET Media :
       MakeRequest(op, m, text, X, Y) \in RequestState
  /\ \A q \in RequestState : Outdated(q) \in RequestState
  /\ \A phase \in {"idle", "query", "object", "row"}, now \in [Media -> Age],
        batch \in SUBSET Media, progress \in BOOLEAN :
       MakeJob(phase, now, batch, progress) \in JobState
  /\ Idle \in RequestState
  /\ NoJob \in JobState
BY DEF MakeMessage, MessageState, MakeMedium, MediaState, MakeRequest, RequestState, Outdated,
       MakeJob, JobState, Idle, NoJob, Op, Category, Age

\* The initial state is well typed.
LEMMA TypeInit == Init => TypeOK
<1> SUFFICES ASSUME Init PROVE TypeOK
  OBVIOUS
<1> USE Constructors, MessagesAssumption
<1>1. AbsentMessage \in MessageState
  BY DEF AbsentMessage
<1>2. AbsentMedium \in MediaState
  BY DEF AbsentMedium, Category, Age
<1>3. Idle.msg = None /\ Idle.op \notin MessageOp
  BY DEF Idle, MakeRequest, MessageOp
<1> QED
  BY <1>1, <1>2, <1>3 DEF Init, TypeOK

\* A request that starts leaves every variable well typed.
LEMMA StartTypes ==
  ASSUME TypeOK, NEW r \in Request, NEW q \in RequestState, Start(r, q),
         q.msg = None <=> q.op \notin MessageOp
  PROVE  TypeOK'
BY MessagesAssumption DEF TypeOK, Start

\* So do the media after attachments are moved.
LEMMA RelinkedTypes ==
  ASSUME TypeOK, NEW m \in Message, NEW X, NEW Y
  PROVE  Relinked(m, X, Y) \in [Media -> MediaState]
<1> SUFFICES ASSUME NEW x \in Media
             PROVE  /\ MovedTo(x, m) \in MediaState
                    /\ MovedTo(x, None) \in MediaState
                    /\ media[x] \in MediaState
  BY DEF Relinked
<1>1. media[x] \in MediaState
  BY DEF TypeOK
<1> QED
  BY <1>1, Constructors DEF MovedTo, MediaState

\* So does the end of a request that wrote a message.
LEMMA EndWriteTypes ==
  ASSUME TypeOK, NEW r \in Request, NEW m \in Message, EndWrite(r, m)
  PROVE  /\ req' \in [Request -> RequestState]
         /\ \A s \in Request : req'[s].msg = None <=> req'[s].op \notin MessageOp
         /\ disturbed' \subseteq Message
<1>1. \A s \in Request : req[s] \in RequestState
  BY DEF TypeOK
<1>2. Idle.msg = None /\ Idle.op \notin MessageOp
  BY DEF Idle, MakeRequest, MessageOp
<1>3. \A s \in Request : Outdated(req[s]).msg = req[s].msg /\ Outdated(req[s]).op = req[s].op
  BY DEF Outdated
<1> QED
  BY <1>1, <1>2, <1>3, Constructors DEF EndWrite, TypeOK

\* And a request that goes back to idle.
LEMMA IdleTypes ==
  ASSUME TypeOK, NEW r \in Request, req' = [req EXCEPT ![r] = Idle]
  PROVE  /\ req' \in [Request -> RequestState]
         /\ \A s \in Request : req'[s].msg = None <=> req'[s].op \notin MessageOp
<1>2. Idle.msg = None /\ Idle.op \notin MessageOp
  BY DEF Idle, MakeRequest, MessageOp
<1> QED
  BY <1>2, Constructors DEF TypeOK

\* The cleanup stays well typed when it goes on.
LEMMA AdvanceTypes ==
  ASSUME TypeOK, NEW x, NEW done \in BOOLEAN
  PROVE  Advance(x, done) \in JobState
<1>1. /\ job.now \in [Media -> Age]
      /\ job.batch \in SUBSET Media
      /\ job.progress \in BOOLEAN
  BY DEF TypeOK, JobState
<1> QED
  BY <1>1, Constructors DEF Advance

\* Every step keeps the types.
LEMMA TypeNext == TypeOK /\ [Next]_vars => TypeOK'
<1> SUFFICES ASSUME TypeOK, [Next]_vars PROVE TypeOK'
  OBVIOUS
<1> USE MessagesAssumption
<1>t. /\ \A x \in Media : media[x] \in MediaState
      /\ \A m \in Message : message[m] \in MessageState
      /\ \A r \in Request : req[r] \in RequestState
      /\ \A r \in Request : req[r].link \subseteq Media
      /\ \A r \in Request : req[r].op \in MessageOp => req[r].msg \in Message
      /\ job \in JobState
  BY DEF TypeOK, RequestState
<1>1. ASSUME NEW r \in Request, Abort(r) PROVE TypeOK'
  BY <1>1, IdleTypes DEF Abort, TypeOK
<1>2. ASSUME NEW r \in Request, SendWrite(r) PROVE TypeOK'
  <2>1. req[r].msg \in Message /\ req[r].text \in BOOLEAN
    BY <1>2, <1>t DEF SendWrite, MessageOp, RequestState
  <2>2. media' \in [Media -> MediaState]
    BY <1>2, <2>1, RelinkedTypes DEF SendWrite
  <2>3. message' \in [Message -> MessageState]
    BY <1>2, <2>1, <1>t, Constructors DEF SendWrite, TypeOK
  <2> QED
    BY <1>2, <1>t, <2>1, <2>2, <2>3, EndWriteTypes DEF SendWrite, TypeOK, Endangered
<1>3. ASSUME NEW r \in Request, EditWrite(r) PROVE TypeOK'
  <2>1. req[r].msg \in Message /\ req[r].text \in BOOLEAN
    BY <1>3, <1>t DEF EditWrite, MessageOp, RequestState
  <2>2. media' \in [Media -> MediaState]
    BY <1>3, <2>1, RelinkedTypes DEF EditWrite
  <2>3. message' \in [Message -> MessageState]
    BY <1>3, <2>1, <1>t, Constructors DEF EditWrite, TypeOK, MessageState
  <2> QED
    BY <1>3, <1>t, <2>1, <2>2, <2>3, EndWriteTypes DEF EditWrite, TypeOK, Endangered
<1>4. ASSUME NEW r \in Request, DeleteWrite(r) PROVE TypeOK'
  <2>1. req[r].msg \in Message
    BY <1>4, <1>t DEF DeleteWrite, MessageOp
  <2>2. media' \in [Media -> MediaState]
    BY <1>4, <2>1, RelinkedTypes DEF DeleteWrite
  <2>3. message' \in [Message -> MessageState]
    BY <1>4, <2>1, <1>t, Constructors DEF DeleteWrite, TypeOK, MessageState
  <2> QED
    BY <1>4, <2>1, <2>2, <2>3, EndWriteTypes DEF DeleteWrite, TypeOK
<1>5. ASSUME NEW r \in Request, CompleteWrite(r) PROVE TypeOK'
  <2>1. media' \in [Media -> MediaState]
    BY <1>5, <1>t, Constructors DEF CompleteWrite, MediaState
  <2> QED
    BY <1>5, <2>1, IdleTypes DEF CompleteWrite, TypeOK
<1>6. ASSUME NEW r \in Request, AvatarWrite(r) PROVE TypeOK'
  <2>1. avatar' \in [User -> Media \cup {None}]
    BY <1>6, <1>t DEF AvatarWrite, TypeOK
  <2> QED
    BY <1>6, <1>t, <2>1, IdleTypes DEF AvatarWrite, TypeOK, Endangered
<1>7. ASSUME NEW r \in Request, ReportWrite(r) PROVE TypeOK'
  BY <1>7, <1>t, IdleTypes DEF ReportWrite, TypeOK, Endangered
<1>8. ASSUME NEW r \in Request, NEW op \in Op, NEW m \in Message \cup {None}, NEW text \in BOOLEAN,
             NEW X \in SUBSET Media, NEW Y \in SUBSET Media,
             m = None <=> op \notin MessageOp,
             Start(r, MakeRequest(op, m, text, X, Y))
      PROVE  TypeOK'
  <2>1. MakeRequest(op, m, text, X, Y).op = op /\ MakeRequest(op, m, text, X, Y).msg = m
    BY DEF MakeRequest
  <2> QED
    BY <1>8, <2>1, Constructors, StartTypes
<1>9. ASSUME NEW r \in Request, NEW m \in Message, DeleteRead(r, m) PROVE TypeOK'
  <2>1. Start(r, MakeRequest("delete", m, FALSE, {}, {}))
    BY <1>9 DEF DeleteRead
  <2>2. "delete" \in Op /\ "delete" \in MessageOp /\ {} \in SUBSET Media /\ FALSE \in BOOLEAN
    BY DEF Op, MessageOp
  <2> QED
    BY <2>1, <2>2, <1>8
<1>10. ASSUME NEW r \in Request, NEW m \in Message, NEW X \in SUBSET Media, NEW text \in BOOLEAN,
              SendRead(r, m, X, text)
       PROVE  TypeOK'
  BY <1>10, <1>8 DEF SendRead, Op, MessageOp
<1>11. ASSUME NEW r \in Request, NEW m \in Message, NEW X \in SUBSET Media, NEW text \in BOOLEAN,
              EditRead(r, m, text, X)
       PROVE  TypeOK'
  BY <1>11, <1>8 DEF EditRead, Op, MessageOp, Attached
<1>12. ASSUME NEW r \in Request, NEW x \in Media, CompleteRead(r, x) \/ AvatarRead(r, x)
       PROVE  TypeOK'
  <2>1. PICK op \in {"complete", "avatar"} : Start(r, MakeRequest(op, None, FALSE, {x}, {}))
    BY <1>12 DEF CompleteRead, AvatarRead
  <2>2. op \in Op /\ op \notin MessageOp /\ {x} \in SUBSET Media /\ {} \in SUBSET Media
        /\ FALSE \in BOOLEAN
    BY DEF Op, MessageOp
  <2> QED
    BY <2>1, <2>2, <1>8
<1>13. ASSUME NEW r \in Request, NEW X \in SUBSET Media, ReportRead(r, X) PROVE TypeOK'
  <2>1. Start(r, MakeRequest("report", None, FALSE, X, {}))
    BY <1>13 DEF ReportRead
  <2>2. "report" \in Op /\ "report" \notin MessageOp /\ {} \in SUBSET Media /\ FALSE \in BOOLEAN
    BY DEF Op, MessageOp
  <2> QED
    BY <2>1, <2>2, <1>8
<1>14. ASSUME NEW m \in Message, Ages(m) PROVE TypeOK'
  <2>1. message' \in [Message -> MessageState]
    BY <1>14, <1>t, Constructors DEF Ages, TypeOK, MessageState
  <2> QED
    BY <1>14, <2>1 DEF Ages, TypeOK
<1>15. ASSUME NEW x \in Media, NEW c \in Category, UploadMedia(x, c) PROVE TypeOK'
  <2>1. media' \in [Media -> MediaState]
    BY <1>15, Constructors DEF UploadMedia, TypeOK, Age
  <2> QED
    BY <1>15, <2>1 DEF UploadMedia, TypeOK
<1>16. ASSUME NEW x \in Media, PutObject(x) PROVE TypeOK'
  BY <1>16 DEF PutObject, TypeOK
<1>17. ASSUME NEW x \in Media, Expires(x) \/ GrowsOld(x) PROVE TypeOK'
  <2>1. Aged(x, "expired") \in MediaState /\ Aged(x, "old") \in MediaState
    BY <1>t, Constructors DEF Aged, MediaState, Age
  <2>2. media' \in [Media -> MediaState]
    BY <1>17, <2>1 DEF Expires, GrowsOld, TypeOK
  <2> QED
    BY <1>17, <2>2 DEF Expires, GrowsOld, TypeOK
<1>18. ASSUME NEW x \in Media, DeleteReport(x) PROVE TypeOK'
  BY <1>18 DEF DeleteReport, TypeOK
<1>19. ASSUME NEW u \in User, DeleteAvatar(u) PROVE TypeOK'
  BY <1>19 DEF DeleteAvatar, TypeOK
<1>20. CASE JobStart
  <2>1. [x \in Media |-> media[x].age] \in [Media -> Age]
    BY <1>t DEF MediaState
  <2>2. job' \in JobState
    BY <1>20, <2>1, Constructors DEF JobStart
  <2> QED
    BY <1>20, <2>2 DEF JobStart, TypeOK
<1>21. CASE JobQuery
  <2>1. FirstOrphans \in SUBSET Media /\ job.now \in [Media -> Age]
    BY <1>t DEF FirstOrphans, Orphans, JobState
  <2>2. job' \in JobState
    BY <1>21, <2>1, Constructors DEF JobQuery
  <2> QED
    BY <1>21, <2>2 DEF JobQuery, TypeOK
<1>22. ASSUME NEW x \in Media,
              DeleteObject(x) \/ DeleteObjectFallback(x) \/ DeleteObjectFails(x)
       PROVE  TypeOK'
  <2>1. job' \in JobState
    <3>1. MakeJob("row", job.now, job.batch, job.progress) \in JobState
      BY <1>t, Constructors DEF JobState
    <3>2. Advance(x, FALSE) \in JobState
      BY AdvanceTypes
    <3> QED
      BY <1>22, <3>1, <3>2 DEF DeleteObject, DeleteObjectFallback, DeleteObjectFails
  <2>2. object' \subseteq Media /\ raced' \subseteq Media
    BY <1>22 DEF DeleteObject, DeleteObjectFallback, DeleteObjectFails, OwnBucketFails, ObjectGone,
                 TypeOK
  <2>3. faults' \in 0..MaxFaults
    <3>1. faults' = faults \/ (faults < MaxFaults /\ faults' = faults + 1)
      BY <1>22 DEF DeleteObject, DeleteObjectFallback, DeleteObjectFails, OwnBucketFails
    <3> QED
      BY <3>1 DEF TypeOK
  <2>4. stranded' \subseteq Media
    BY <1>22 DEF DeleteObject, DeleteObjectFallback, DeleteObjectFails, TypeOK
  <2>5. UNCHANGED <<message, media, avatar, evidence, req, ops, disturbed>>
    BY <1>22 DEF DeleteObject, DeleteObjectFallback, DeleteObjectFails
  <2> QED
    BY <2>1, <2>2, <2>3, <2>4, <2>5 DEF TypeOK
<1>23. ASSUME NEW x \in Media, DeleteRow(x) PROVE TypeOK'
  <2>1. job' \in JobState
    BY <1>23, AdvanceTypes DEF DeleteRow
  <2>2. media' \in [Media -> MediaState] /\ media[x].msg \in Message \cup {None}
    BY <1>23, <1>t, Constructors DEF DeleteRow, TypeOK, MediaState
  <2> QED
    BY <1>23, <2>1, <2>2 DEF DeleteRow, TypeOK
<1>24. ASSUME NEW x \in Media, DeleteRowFails(x) PROVE TypeOK'
  <2>1. job' \in JobState
    BY <1>24, AdvanceTypes DEF DeleteRowFails
  <2>2. /\ UNCHANGED <<message, media, object, avatar, evidence, req, ops, disturbed, raced, stranded>>
        /\ faults < MaxFaults
        /\ faults' = faults + 1
    BY <1>24 DEF DeleteRowFails
  <2> QED
    BY <2>1, <2>2 DEF TypeOK
<1>25. CASE JobStops
  BY <1>25, Constructors DEF JobStops, TypeOK
<1>26. CASE UNCHANGED vars
  BY <1>26 DEF vars, TypeOK
<1> QED
  BY <1>1, <1>2, <1>3, <1>4, <1>5, <1>6, <1>7, <1>9, <1>10, <1>11, <1>12, <1>13, <1>14, <1>15,
     <1>16, <1>17, <1>18, <1>19, <1>20, <1>21, <1>22, <1>23, <1>24, <1>25, <1>26
     DEF Next, RunMediaCleanup

\* Every reachable state is well typed.
THEOREM TypeCorrect == Spec => []TypeOK
<1>1. Init => TypeOK
  BY TypeInit
<1>2. TypeOK /\ [Next]_vars => TypeOK'
  BY TypeNext
<1> QED
  BY <1>1, <1>2, PTL DEF Spec

-----------------------------------------------------------------------------
(* The media in use and their objects *)

\* The parts of the invariant hold initially.
LEMMA StoreInit == Init => StoreInv /\ LinkInv /\ LeakedOnlyByFallback
<1> SUFFICES ASSUME Init PROVE StoreInv /\ LinkInv /\ LeakedOnlyByFallback
  OBVIOUS
<1>1. /\ \A x \in Media : media[x].status = "absent" /\ media[x].age = "fresh" /\ ~InUse(x)
      /\ job.batch = {}
      /\ job.phase = "idle"
      /\ \A x \in Media : job.now[x] = "fresh"
      /\ \A r \in Request : req[r].link = {}
      /\ object = {}
  BY MessagesAssumption DEF Init, AbsentMedium, MakeMedium, InUse, Avatars, NoJob, MakeJob, Idle, MakeRequest
<1> QED
  BY <1>1 DEF StoreInv, LinkInv, LeakedOnlyByFallback

\* Steps that put the media of L to use, or take some out of use, and touch
\* neither the store nor the cleanup.
LEMMA UseStep ==
  ASSUME IInv, NEW L,
         \A x \in Media : media'[x].status = media[x].status /\ media'[x].age = media[x].age,
         \A x \in Media : InUse(x)' => InUse(x) \/ x \in L,
         \A x \in L \cap Media : media[x].status = "completed",
         raced \subseteq raced',
         L \cap job.batch \subseteq raced',
         UNCHANGED <<object, job, stranded>>
  PROVE  StoreInv' /\ LeakedOnlyByFallback'
<1>1. job.batch \subseteq Media /\ object \subseteq Media
  BY DEF IInv, TypeOK, JobState
<1>2. \A x \in Media : IsNext(x)' <=> IsNext(x)
  BY DEF IsNext
<1>3. LeakedOnlyByFallback'
  BY <1>1 DEF IInv, LeakedOnlyByFallback
<1>4. StoreInv'
  BY <1>1, <1>2 DEF IInv, StoreInv
<1> QED
  BY <1>3, <1>4

\* Steps that put nothing to use.
LEMMA QuietStep ==
  ASSUME IInv, UNCHANGED <<media, object, job, raced, stranded>>,
         \A x \in Media : InUse(x)' => InUse(x)
  PROVE  StoreInv' /\ LeakedOnlyByFallback'
<1> DEFINE L == {}
<1>1. \A x \in Media : InUse(x)' => InUse(x) \/ x \in L
  OBVIOUS
<1>2. raced \subseteq raced' /\ L \cap job.batch \subseteq raced'
  OBVIOUS
<1>3. \A x \in L \cap Media : media[x].status = "completed"
  OBVIOUS
<1> HIDE DEF L
<1> QED
  BY <1>1, <1>2, <1>3, UseStep

\* Steps that keep what the requests rely on: uploads are only completed, and
\* the requests in progress are those of before.
LEMMA LinkStep ==
  ASSUME IInv,
         \A x \in Media : \/ media'[x].status = media[x].status
                          \/ media[x].status = "pending" /\ media'[x].status = "completed"
                          \/ media[x].status = "absent" /\ media'[x].status = "pending"
                          \/ media'[x].status = "purged",
         object \cup raced \subseteq object' \cup raced',
         \A r \in Request : \/ req'[r].link = {}
                            \/ req'[r].link = req[r].link /\ req'[r].op = req[r].op
  PROVE  LinkInv'
<1>1. \A r \in Request : req[r].link \subseteq Media
  BY DEF IInv, TypeOK, RequestState
<1> SUFFICES ASSUME NEW r \in Request, NEW x \in req'[r].link
             PROVE  /\ req'[r].op # "complete" => media'[x].status \in {"completed", "purged"}
                    /\ req'[r].op = "complete" =>
                         /\ media'[x].status \in {"pending", "completed", "purged"}
                         /\ media'[x].status = "pending" => x \in object' \/ x \in raced'
  BY DEF LinkInv
<1>2. req'[r].link = req[r].link /\ req'[r].op = req[r].op /\ x \in Media
  BY <1>1
<1>3. /\ req[r].op # "complete" => media[x].status \in {"completed", "purged"}
      /\ req[r].op = "complete" =>
           /\ media[x].status \in {"pending", "completed", "purged"}
           /\ media[x].status = "pending" => x \in object \/ x \in raced
  BY <1>2 DEF IInv, LinkInv
<1> QED
  BY <1>2, <1>3

\* The links of the requests after one has ended.
LEMMA EndLinks ==
  ASSUME NEW r \in Request, IInv,
         (\E m : EndWrite(r, m)) \/ req' = [req EXCEPT ![r] = Idle]
  PROVE  \A s \in Request : \/ req'[s].link = {}
                            \/ req'[s].link = req[s].link /\ req'[s].op = req[s].op
<1>1. Idle.link = {}
  BY DEF Idle, MakeRequest
<1>2. \A s \in Request : Outdated(req[s]).link = req[s].link /\ Outdated(req[s]).op = req[s].op
  BY DEF Outdated
<1>3. req \in [Request -> RequestState]
  BY DEF IInv, TypeOK
<1> QED
  BY <1>1, <1>2, <1>3 DEF EndWrite

\* What Relinked changes of a medium.
LEMMA RelinkedFields ==
  ASSUME NEW m, NEW X, NEW Y, NEW x \in Media
  PROVE  /\ Relinked(m, X, Y)[x].status = media[x].status
         /\ Relinked(m, X, Y)[x].age = media[x].age
         /\ Relinked(m, X, Y)[x].category = media[x].category
         /\ Relinked(m, X, Y)[x].msg =
              IF x \in X THEN m
              ELSE IF x \in Y /\ media[x].msg = m THEN None
              ELSE media[x].msg
BY DEF Relinked, MovedTo, MakeMedium

\* Every step of Next keeps the parts of the invariant.
LEMMA StoreNext == IInv /\ [Next]_vars => StoreInv' /\ LinkInv' /\ LeakedOnlyByFallback'
<1> SUFFICES ASSUME IInv, [Next]_vars PROVE StoreInv' /\ LinkInv' /\ LeakedOnlyByFallback'
  OBVIOUS
<1> DEFINE Goal == StoreInv' /\ LinkInv' /\ LeakedOnlyByFallback'
<1> USE MessagesAssumption
<1>t. /\ \A r \in Request : req[r].link \subseteq Media
      /\ req \in [Request -> RequestState]
      /\ media \in [Media -> MediaState]
      /\ avatar \in [User -> Media \cup {None}]
      /\ job \in JobState /\ job.batch \subseteq Media /\ job.now \in [Media -> Age]
      /\ object \subseteq Media
  BY DEF IInv, TypeOK, RequestState, JobState
\* A request ends.
<1>1. ASSUME NEW r \in Request, Abort(r) PROVE Goal
  <2>1. LinkInv'
    BY <1>1, EndLinks, LinkStep DEF Abort
  <2>2. StoreInv' /\ LeakedOnlyByFallback'
    BY <1>1, QuietStep DEF Abort, InUse, Avatars
  <2> QED
    BY <2>1, <2>2
\* A request writes the attachments of a message.
<1>2. ASSUME NEW r \in Request, NEW X, NEW Y, NEW m,
             X \subseteq req[r].link,
             req[r].op # "complete",
             Linkable(X),
             media' = Relinked(m, X, Y),
             EndWrite(r, m),
             raced' = raced \cup Endangered(X),
             UNCHANGED <<object, avatar, evidence, job, stranded>>
      PROVE  Goal
  <2>1. \A x \in Media : media'[x].status = media[x].status /\ media'[x].age = media[x].age
    BY <1>2, RelinkedFields
  <2>2. \A x \in Media : InUse(x)' => InUse(x) \/ x \in X
    BY <1>2, RelinkedFields DEF InUse, Avatars
  <2>3. \A x \in X \cap Media : media[x].status = "completed"
    BY <1>2, <1>t DEF IInv, LinkInv, Linkable
  <2>4. StoreInv' /\ LeakedOnlyByFallback'
    BY <1>2, <2>1, <2>2, <2>3, UseStep DEF Endangered
  <2>5. LinkInv'
    BY <1>2, <2>1, EndLinks, LinkStep
  <2> QED
    BY <2>4, <2>5
<1>3. ASSUME NEW r \in Request, SendWrite(r) PROVE Goal
  BY <1>3, <1>2 DEF SendWrite
<1>4. ASSUME NEW r \in Request, EditWrite(r) PROVE Goal
  BY <1>4, <1>2 DEF EditWrite
<1>5. ASSUME NEW r \in Request, DeleteWrite(r) PROVE Goal
  <2>1. raced' = raced \cup Endangered({}) /\ Linkable({})
    BY <1>5 DEF DeleteWrite, Endangered, Linkable
  <2> QED
    BY <1>5, <1>2, <2>1 DEF DeleteWrite
\* A request or an administrator changes the other uses.
<1>6. ASSUME NEW r \in Request, AvatarWrite(r) \/ ReportWrite(r) PROVE Goal
  <2>1. /\ UNCHANGED <<media, object, job, stranded>>
        /\ raced' = raced \cup Endangered(req[r].link)
        /\ req' = [req EXCEPT ![r] = Idle]
        /\ req[r].op # "complete"
        /\ \A x \in req[r].link : media[x].status # "purged"
    BY <1>6 DEF AvatarWrite, ReportWrite
  <2>2. \A x \in Media : InUse(x)' => InUse(x) \/ x \in req[r].link
    <3>1. CASE AvatarWrite(r)
      <4>1. PICK y \in req[r].link : avatar' = [avatar EXCEPT ![UploaderOf[y]] = y]
        BY <3>1 DEF AvatarWrite
      <4>2. \A u \in User : avatar'[u] \in {avatar[u], y}
        BY <4>1, <1>t
      <4>3. Avatars' \subseteq Avatars \cup {y}
        BY <4>2 DEF Avatars
      <4> QED
        BY <3>1, <4>3 DEF AvatarWrite, InUse
    <3>2. CASE ReportWrite(r)
      BY <3>2 DEF ReportWrite, InUse, Avatars
    <3> QED
      BY <1>6, <3>1, <3>2
  <2>3. \A x \in req[r].link \cap Media : media[x].status = "completed"
    BY <2>1 DEF IInv, LinkInv
  <2>4. StoreInv' /\ LeakedOnlyByFallback'
    BY <2>1, <2>2, <2>3, UseStep DEF Endangered
  <2>5. LinkInv'
    BY <2>1, EndLinks, LinkStep
  <2> QED
    BY <2>4, <2>5
<1>7. ASSUME \/ \E x \in Media : DeleteReport(x)
             \/ \E u \in User : DeleteAvatar(u)
      PROVE  Goal
  <2>1. UNCHANGED <<media, object, job, raced, stranded, req>>
    BY <1>7 DEF DeleteReport, DeleteAvatar
  <2>2. evidence' \subseteq evidence /\ Avatars' \subseteq Avatars
    BY <1>7, <1>t DEF DeleteReport, DeleteAvatar, Avatars
  <2>3. \A y \in Media : InUse(y)' => InUse(y)
    BY <2>1, <2>2 DEF InUse
  <2>4. StoreInv' /\ LeakedOnlyByFallback'
    BY <2>1, <2>3, QuietStep
  <2>5. LinkInv'
    BY <2>1, LinkStep
  <2> QED
    BY <2>4, <2>5
<1>8. ASSUME NEW m \in Message, Ages(m) PROVE Goal
  <2>1. StoreInv' /\ LeakedOnlyByFallback'
    BY <1>8, QuietStep DEF Ages, InUse, Avatars
  <2>2. LinkInv'
    BY <1>8, LinkStep DEF Ages
  <2> QED
    BY <2>1, <2>2
<1>9. ASSUME UNCHANGED vars PROVE Goal
  <2>1. StoreInv' /\ LeakedOnlyByFallback'
    BY <1>9, QuietStep DEF vars, InUse, Avatars
  <2>2. LinkInv'
    BY <1>9, LinkStep DEF vars
  <2> QED
    BY <2>1, <2>2
\* A request starts.
<1>10. ASSUME NEW r \in Request, NEW op \in Op, NEW m, NEW text, NEW X \in SUBSET Media, NEW Y,
              op # "complete" => \A x \in X : media[x].status = "completed",
              op = "complete" => \A x \in X : media[x].status = "pending" /\ x \in object,
              Start(r, MakeRequest(op, m, text, X, Y))
       PROVE  Goal
  <2>1. StoreInv' /\ LeakedOnlyByFallback'
    BY <1>10, QuietStep DEF Start, InUse, Avatars
  <2>2. LinkInv'
    <3>1. \A s \in Request : \/ req'[s] = req[s]
                             \/ req'[s].op = op /\ req'[s].link = X
      BY <1>10, <1>t DEF Start, MakeRequest
    <3>2. UNCHANGED <<media, object, raced>>
      BY <1>10 DEF Start
    <3> QED
      BY <1>10, <3>1, <3>2 DEF IInv, LinkInv
  <2> QED
    BY <2>1, <2>2
<1>11. ASSUME NEW r \in Request, NEW m \in Message, DeleteRead(r, m) PROVE Goal
  BY <1>11, <1>10 DEF DeleteRead, Op
<1>12. ASSUME NEW r \in Request, NEW m \in Message, NEW X \in SUBSET Media, NEW text \in BOOLEAN,
              SendRead(r, m, X, text)
       PROVE  Goal
  BY <1>12, <1>10 DEF SendRead, Attachable, Op
<1>13. ASSUME NEW r \in Request, NEW m \in Message, NEW X \in SUBSET Media, NEW text \in BOOLEAN,
              EditRead(r, m, text, X)
       PROVE  Goal
  BY <1>13, <1>10 DEF EditRead, Attachable, Op
<1>14. ASSUME NEW r \in Request, NEW x \in Media, CompleteRead(r, x) PROVE Goal
  BY <1>14, <1>10 DEF CompleteRead, Op
<1>15. ASSUME NEW r \in Request, NEW x \in Media, AvatarRead(r, x) PROVE Goal
  <2>1. /\ Start(r, MakeRequest("avatar", None, FALSE, {x}, {}))
        /\ media[x].status = "completed"
    BY <1>15 DEF AvatarRead
  <2>2. "avatar" \in Op /\ {x} \in SUBSET Media
    BY DEF Op
  <2> QED
    BY <2>1, <2>2, <1>10
<1>16. ASSUME NEW r \in Request, NEW X \in SUBSET Media, ReportRead(r, X) PROVE Goal
  <2>1. \A x \in X : InUse(x)
    BY <1>16 DEF ReportRead, InUse, Avatars, Attached
  <2>2. \A x \in X : media[x].status = "completed"
    BY <2>1 DEF IInv, StoreInv
  <2> QED
    BY <1>16, <2>2, <1>10 DEF ReportRead, Op
\* The uploads change.
<1>17. ASSUME NEW x \in Media, NEW c \in Category, UploadMedia(x, c) PROVE Goal
  <2>1. /\ media'[x].status = "pending" /\ media'[x].age = "fresh" /\ media'[x].msg = None
        /\ media[x].status = "absent" /\ media[x].age = "fresh"
        /\ \A y \in Media \ {x} : media'[y] = media[y]
        /\ UNCHANGED <<object, avatar, evidence, req, job, raced, stranded>>
    BY <1>17, <1>t DEF UploadMedia, MakeMedium, IInv, StoreInv
  <2>i. ~InUse(x)
    BY <2>1 DEF IInv, StoreInv
  <2>a. Avatars' = Avatars
    BY <2>1 DEF Avatars
  <2>2. \A y \in Media : InUse(y)' => InUse(y) /\ y # x
    BY <2>1, <2>i, <2>a DEF InUse
  <2>3. x \notin job.batch /\ job.now[x] = "fresh"
    BY <2>1 DEF IInv, StoreInv
  <2>4. \A y \in Media : IsNext(y)' <=> IsNext(y)
    BY <2>1 DEF IsNext
  <2>5. StoreInv'
    <3>1. ASSUME NEW y \in Media
          PROVE  /\ media'[y].status = "absent" => media'[y].age = "fresh"
                 /\ media'[y].status = "purged" => media'[y].age # "fresh"
                 /\ InUse(y)' => media'[y].status = "completed"
                 /\ media'[y].status = "completed" => y \in object' \/ y \in raced'
                 /\ job'.now[y] # "fresh" => media'[y].age # "fresh"
                 /\ y \in job'.batch => /\ media'[y].status \in {"pending", "completed"}
                                        /\ media'[y].age # "fresh"
                                        /\ InUse(y)' => y \in raced'
      <4>1. CASE y = x
        BY <2>1, <2>2, <2>3, <4>1
      <4>2. CASE y # x
        BY <2>1, <2>2, <4>2 DEF IInv, StoreInv
      <4> QED
        BY <4>1, <4>2
    <3>2. job'.phase = "row" => \A y \in Media : IsNext(y)' => y \notin object' \/ y \in stranded'
      BY <2>1, <2>4 DEF IInv, StoreInv
    <3> QED
      BY <3>1, <3>2, <2>1, <1>t DEF StoreInv
  <2>6. LeakedOnlyByFallback'
    BY <2>1, <1>t DEF IInv, LeakedOnlyByFallback
  <2>7. LinkInv'
    BY <2>1, LinkStep
  <2> QED
    BY <2>5, <2>6, <2>7
<1>18. ASSUME NEW x \in Media, PutObject(x) PROVE Goal
  <2>1. /\ UNCHANGED <<media, avatar, evidence, req, job, raced, stranded>>
        /\ object' = object \cup {x}
        /\ media[x].status # "absent" /\ media[x].age = "fresh"
    BY <1>18 DEF PutObject
  <2>2. media[x].status \in {"pending", "completed"} /\ x \notin job.batch
    BY <2>1, <1>t DEF IInv, StoreInv, MediaState
  <2>3. \A y \in Media : (IsNext(y)' <=> IsNext(y)) /\ (InUse(y)' <=> InUse(y)) /\ ~IsNext(x)
    BY <2>1, <2>2 DEF IsNext, InUse, Avatars
  <2>4. StoreInv'
    BY <2>1, <2>2, <2>3, <1>t DEF IInv, StoreInv
  <2>5. LeakedOnlyByFallback'
    BY <2>1, <2>2 DEF IInv, LeakedOnlyByFallback
  <2>6. LinkInv'
    BY <2>1, LinkStep
  <2> QED
    BY <2>4, <2>5, <2>6
<1>19. ASSUME NEW r \in Request, CompleteWrite(r) PROVE Goal
  <2>1. /\ UNCHANGED <<object, avatar, evidence, job, raced, stranded>>
        /\ req' = [req EXCEPT ![r] = Idle]
        /\ req[r].op = "complete"
        /\ \A y \in Media \ req[r].link : media'[y] = media[y]
        /\ \A y \in req[r].link : /\ media'[y].status = "completed"
                                  /\ media'[y].age = media[y].age
                                  /\ media'[y].msg = media[y].msg
                                  /\ media[y].status # "purged"
    BY <1>19, <1>t DEF CompleteWrite, MakeMedium
  <2>2. \A y \in req[r].link : /\ media[y].status \in {"pending", "completed"}
                               /\ y \in object \/ y \in raced
    BY <2>1, <1>t DEF IInv, LinkInv, StoreInv
  <2>3. \A y \in Media : (InUse(y)' <=> InUse(y)) /\ (IsNext(y)' <=> IsNext(y))
    BY <2>1, <1>t DEF InUse, Avatars, IsNext
  <2>4. StoreInv'
    <3>1. ASSUME NEW y \in Media
          PROVE  /\ media'[y].status = "absent" => media'[y].age = "fresh"
                 /\ media'[y].status = "purged" => media'[y].age # "fresh"
                 /\ InUse(y)' => media'[y].status = "completed"
                 /\ media'[y].status = "completed" => y \in object' \/ y \in raced'
                 /\ job'.now[y] # "fresh" => media'[y].age # "fresh"
                 /\ y \in job'.batch => /\ media'[y].status \in {"pending", "completed"}
                                        /\ media'[y].age # "fresh"
                                        /\ InUse(y)' => y \in raced'
      <4>0. /\ InUse(y)' <=> InUse(y)
            /\ job'.now[y] # "fresh" => media[y].age # "fresh"
            /\ y \in job'.batch => media[y].age # "fresh" /\ (InUse(y) => y \in raced)
        BY <2>1, <2>3 DEF IInv, StoreInv
      <4>1. CASE y \in req[r].link
        BY <2>1, <2>2, <4>0, <4>1
      <4>2. CASE y \notin req[r].link
        BY <2>1, <4>0, <4>2 DEF IInv, StoreInv
      <4> QED
        BY <4>1, <4>2
    <3>2. job'.phase = "row" => \A y \in Media : IsNext(y)' => y \notin object' \/ y \in stranded'
      BY <2>1, <2>3 DEF IInv, StoreInv
    <3> QED
      BY <3>1, <3>2, <2>1, <1>t DEF StoreInv
  <2>5. LeakedOnlyByFallback'
    BY <2>1, <2>2, <1>t DEF IInv, LeakedOnlyByFallback
  <2>6. LinkInv'
    BY <2>1, <2>2, EndLinks, LinkStep
  <2> QED
    BY <2>4, <2>5, <2>6
<1>20. ASSUME NEW x \in Media, Expires(x) \/ GrowsOld(x) PROVE Goal
  <2>1. /\ UNCHANGED <<object, avatar, evidence, req, job, raced, stranded>>
        /\ \A y \in Media \ {x} : media'[y] = media[y]
        /\ media'[x].status = media[x].status /\ media'[x].msg = media[x].msg
        /\ media'[x].age # "fresh"
        /\ media[x].status \in {"pending", "completed"}
    BY <1>20, <1>t DEF Expires, GrowsOld, Aged, MakeMedium
  <2>2. \A y \in Media : (InUse(y)' <=> InUse(y)) /\ (IsNext(y)' <=> IsNext(y))
    BY <2>1 DEF InUse, Avatars, IsNext
  <2>3. StoreInv'
    BY <2>1, <2>2, <1>t DEF IInv, StoreInv
  <2>4. LeakedOnlyByFallback'
    BY <2>1, <1>t DEF IInv, LeakedOnlyByFallback
  <2>5. LinkInv'
    BY <2>1, LinkStep
  <2> QED
    BY <2>3, <2>4, <2>5
\* The cleanup goes on and deletes nothing.
<1>21. ASSUME UNCHANGED <<media, object, avatar, evidence, req, raced, stranded>>,
              job'.phase # "row",
              \A x \in Media : job'.now[x] # "fresh" => media[x].age # "fresh",
              \A x \in job'.batch : x \in job.batch \/ (x \in Media /\ Due(x) /\ job.now[x] # "fresh")
       PROVE  Goal
  <2>1. \A x \in Media : InUse(x)' <=> InUse(x)
    BY <1>21 DEF InUse, Avatars
  <2>2. \A x \in job'.batch : /\ x \in Media
                              /\ media[x].status \in {"pending", "completed"}
                              /\ media[x].age # "fresh"
                              /\ InUse(x) => x \in raced
    BY <1>21, <1>t DEF Due, InUse, IInv, StoreInv
  <2>3. StoreInv'
    BY <1>21, <2>1, <2>2 DEF IInv, StoreInv
  <2>4. LeakedOnlyByFallback'
    BY <1>21 DEF IInv, LeakedOnlyByFallback
  <2>5. LinkInv'
    BY <1>21, LinkStep
  <2> QED
    BY <2>3, <2>4, <2>5
<1>22. ASSUME JobStart PROVE Goal
  <2>1. job'.phase = "query" /\ job'.batch = {} /\ \A x \in Media : job'.now[x] = media[x].age
    BY <1>22 DEF JobStart, MakeJob
  <2> QED
    BY <1>22, <2>1, <1>21 DEF JobStart
<1>n. /\ NoJob.phase = "idle" /\ NoJob.batch = {}
      /\ \A x \in Media : NoJob.now[x] = "fresh"
      /\ \A x \in Media : job.now[x] # "fresh" => media[x].age # "fresh"
  BY DEF NoJob, MakeJob, IInv, StoreInv
<1>23. ASSUME JobQuery PROVE Goal
  <2>1. CASE Orphans = {}
    <3>1. job' = NoJob /\ UNCHANGED <<media, object, avatar, evidence, req, raced, stranded>>
      BY <1>23, <2>1 DEF JobQuery
    <3> QED
      BY <3>1, <1>n, <1>21
  <2>2. CASE Orphans # {}
    <3>1. /\ job'.phase = "object" /\ job'.now = job.now /\ job'.batch = FirstOrphans
          /\ UNCHANGED <<media, object, avatar, evidence, req, raced, stranded>>
      BY <1>23, <2>2 DEF JobQuery, MakeJob
    <3>2. \A x \in FirstOrphans : x \in Media /\ Due(x) /\ job.now[x] # "fresh"
      BY DEF FirstOrphans, Orphans, Due
    <3> QED
      BY <3>1, <3>2, <1>n, <1>21
  <2> QED
    BY <2>1, <2>2
<1>a. ASSUME NEW x, job' = Advance(x, TRUE) \/ job' = Advance(x, FALSE)
      PROVE  /\ job'.phase # "row"
             /\ job'.batch \subseteq job.batch \ {x}
             /\ \A y \in Media : job'.now[y] # "fresh" => media[y].age # "fresh"
  <2>1. \/ \E progress : job' = MakeJob("object", job.now, job.batch \ {x}, progress)
        \/ job' = MakeJob("query", job.now, {}, FALSE)
        \/ job' = NoJob
    BY <1>a DEF Advance
  <2>2. \/ job'.phase = "object" /\ job'.now = job.now /\ job'.batch = job.batch \ {x}
        \/ job'.phase = "query" /\ job'.now = job.now /\ job'.batch = {}
        \/ job' = NoJob
    BY <2>1 DEF MakeJob
  <2> QED
    BY <2>2, <1>n
<1>24. ASSUME NEW x \in Media, DeleteRowFails(x) PROVE Goal
  <2>1. job' = Advance(x, FALSE) /\ UNCHANGED <<media, object, avatar, evidence, req, raced, stranded>>
    BY <1>24 DEF DeleteRowFails
  <2>2. /\ job'.phase # "row"
        /\ job'.batch \subseteq job.batch \ {x}
        /\ \A y \in Media : job'.now[y] # "fresh" => media[y].age # "fresh"
    BY <2>1, <1>a
  <2>3. UNCHANGED <<media, object, avatar, evidence, req, raced, stranded>>
    BY <2>1
  <2>4. \A y \in job'.batch : y \in job.batch \/ (y \in Media /\ Due(y) /\ job.now[y] # "fresh")
    BY <2>2
  <2>5. job'.phase # "row"
    BY <2>2
  <2>6. \A y \in Media : job'.now[y] # "fresh" => media[y].age # "fresh"
    BY <2>2
  <2> HIDE DEF Goal
  <2> QED
    BY <2>3, <2>4, <2>5, <2>6, <1>21
<1>25. ASSUME JobStops PROVE Goal
  BY <1>25, <1>n, <1>21 DEF JobStops
\* The cleanup tries to delete an object: it is gone, and then nobody used it or
\* it is raced already, or it stays; the run goes on to the row only if it is gone
\* or stranded.
<1>26. ASSUME NEW x \in Media,
              DeleteObject(x) \/ DeleteObjectFallback(x) \/ DeleteObjectFails(x)
       PROVE  Goal
  <2>1. /\ UNCHANGED <<media, avatar, evidence, req>>
        /\ IsNext(x)
        /\ ObjectGone(x) \/ UNCHANGED <<object, raced>>
        /\ stranded \subseteq stranded'
    BY <1>26 DEF DeleteObject, DeleteObjectFallback, DeleteObjectFails, OwnBucketFails
  <2>2. \/ ObjectGone(x) /\ x \notin object' /\ x \in raced'
        \/ UNCHANGED <<object, raced>>
    BY <2>1 DEF ObjectGone, IInv, StoreInv, IsNext
  <2>3. /\ object' \subseteq object
        /\ raced \subseteq raced'
        /\ object \cup raced \subseteq object' \cup raced'
        /\ \A y \in Media : y \in object => y \in object' \/ y \in raced'
    BY <2>2 DEF ObjectGone
  <2>4. /\ job'.batch \subseteq job.batch
        /\ \A y \in Media : job'.now[y] # "fresh" => media[y].age # "fresh"
        /\ \/ job'.phase # "row"
           \/ job'.batch = job.batch /\ (x \notin object' \/ x \in stranded')
    <3>1. CASE DeleteObject(x) \/ DeleteObjectFallback(x)
      <4>1. job'.batch = job.batch /\ job'.now = job.now
        BY <3>1 DEF DeleteObject, DeleteObjectFallback, MakeJob
      <4>2. x \notin object' \/ x \in stranded'
        BY <3>1 DEF DeleteObject, ObjectGone, DeleteObjectFallback
      <4> QED
        BY <4>1, <4>2, <1>n
    <3>2. CASE DeleteObjectFails(x)
      BY <3>2, <1>a DEF DeleteObjectFails
    <3> QED
      BY <1>26, <3>1, <3>2
  <2>5. \A y \in Media : InUse(y)' <=> InUse(y)
    BY <2>1 DEF InUse, Avatars
  <2>6. ASSUME NEW y \in Media, IsNext(y)', job'.phase = "row"
        PROVE  y \notin object' \/ y \in stranded'
    <3>1. y \in job.batch /\ \A z \in job.batch : y <= z
      BY <2>4, <2>6 DEF IsNext
    <3>2. x \in job.batch /\ x <= y /\ y <= x
      BY <2>1, <3>1 DEF IsNext
    <3>3. x \in Nat /\ y \in Nat
      BY MessagesAssumption
    <3>4. x = y
      BY <3>2, <3>3
    <3> QED
      BY <2>4, <2>6, <3>4
  <2>7. StoreInv'
    BY <2>1, <2>3, <2>4, <2>5, <2>6, <1>t DEF IInv, StoreInv
  <2>8. LeakedOnlyByFallback'
    BY <2>1, <2>3 DEF IInv, LeakedOnlyByFallback
  <2>9. LinkInv'
    BY <2>1, <2>3, LinkStep
  <2> QED
    BY <2>7, <2>8, <2>9
\* The cleanup deletes a row, whose object is gone by then or stranded.
<1>27. ASSUME NEW x \in Media, DeleteRow(x) PROVE Goal
  <2>1. /\ UNCHANGED <<object, req, raced, stranded>>
        /\ job.phase = "row" /\ IsNext(x)
        /\ job' = Advance(x, TRUE)
        /\ media'[x].status = "purged" /\ media'[x].age = media[x].age /\ media'[x].msg = None
        /\ \A y \in Media \ {x} : media'[y] = media[y]
        /\ evidence' = evidence \ {x}
        /\ avatar' = [u \in User |-> IF avatar[u] = x THEN None ELSE avatar[u]]
    BY <1>27, <1>t DEF DeleteRow, MakeMedium
  <2>2. (x \notin object \/ x \in stranded) /\ x \in job.batch /\ media[x].age # "fresh"
    BY <2>1 DEF IInv, StoreInv, IsNext
  <2>3. Avatars' \subseteq Avatars \ {x}
    BY <2>1, <1>t DEF Avatars
  <2>4. \A y \in Media : InUse(y)' => InUse(y) /\ y # x
    BY <2>1, <2>3 DEF InUse
  <2>5. /\ job'.phase # "row"
        /\ job'.batch \subseteq job.batch \ {x}
        /\ \A y \in Media : job'.now[y] # "fresh" => media[y].age # "fresh"
    BY <2>1, <1>a
  <2>6. StoreInv'
    <3>1. ASSUME NEW y \in Media
          PROVE  /\ media'[y].status = "absent" => media'[y].age = "fresh"
                 /\ media'[y].status = "purged" => media'[y].age # "fresh"
                 /\ InUse(y)' => media'[y].status = "completed"
                 /\ media'[y].status = "completed" => y \in object' \/ y \in raced'
                 /\ job'.now[y] # "fresh" => media'[y].age # "fresh"
                 /\ y \in job'.batch => /\ media'[y].status \in {"pending", "completed"}
                                        /\ media'[y].age # "fresh"
                                        /\ InUse(y)' => y \in raced'
      <4>1. CASE y = x
        BY <2>1, <2>2, <2>4, <2>5, <4>1
      <4>2. CASE y # x
        BY <2>1, <2>4, <2>5, <4>2 DEF IInv, StoreInv
      <4> QED
        BY <4>1, <4>2
    <3> QED
      BY <3>1, <2>5, <1>t DEF StoreInv
  <2>7. LeakedOnlyByFallback'
    BY <2>1, <2>2, <1>t DEF IInv, LeakedOnlyByFallback
  <2>8. LinkInv'
    BY <2>1, LinkStep
  <2> QED
    BY <2>6, <2>7, <2>8
<1>28. ASSUME NEW r \in Request, NEW m \in Message,
              \/ DeleteRead(r, m)
              \/ \E X \in SUBSET Media, text \in BOOLEAN :
                   SendRead(r, m, X, text) \/ EditRead(r, m, text, X)
       PROVE  Goal
  BY <1>28, <1>11, <1>12, <1>13
<1>29. ASSUME NEW x \in Media,
              \/ PutObject(x) \/ Expires(x) \/ GrowsOld(x) \/ DeleteReport(x)
              \/ DeleteObject(x) \/ DeleteObjectFallback(x) \/ DeleteObjectFails(x)
              \/ DeleteRow(x) \/ DeleteRowFails(x)
       PROVE  Goal
  <2>1. CASE DeleteReport(x)
    BY <2>1, <1>7
  <2> QED
    BY <1>29, <2>1, <1>18, <1>20, <1>24, <1>26, <1>27
<1>30. ASSUME RunMediaCleanup PROVE Goal
  BY <1>30, <1>22, <1>23, <1>29 DEF RunMediaCleanup
<1>31. ASSUME NEW r \in Request,
              \/ Abort(r)
              \/ SendWrite(r) \/ EditWrite(r) \/ DeleteWrite(r)
              \/ CompleteWrite(r) \/ AvatarWrite(r) \/ ReportWrite(r)
              \/ \E x \in Media : CompleteRead(r, x) \/ AvatarRead(r, x)
              \/ \E X \in SUBSET Media : ReportRead(r, X)
       PROVE  Goal
  BY <1>31, <1>1, <1>3, <1>4, <1>5, <1>6, <1>14, <1>15, <1>16, <1>19
<1> HIDE DEF Goal
<1>32. Goal
  <2>1. CASE \E r \in Request :
               \/ Abort(r)
               \/ SendWrite(r) \/ EditWrite(r) \/ DeleteWrite(r)
               \/ CompleteWrite(r) \/ AvatarWrite(r) \/ ReportWrite(r)
               \/ \E m \in Message :
                    \/ DeleteRead(r, m)
                    \/ \E X \in SUBSET Media, text \in BOOLEAN :
                         SendRead(r, m, X, text) \/ EditRead(r, m, text, X)
               \/ \E x \in Media : CompleteRead(r, x) \/ AvatarRead(r, x)
               \/ \E X \in SUBSET Media : ReportRead(r, X)
    BY <2>1, <1>28, <1>31, Zenon
  <2>2. CASE \E x \in Media : PutObject(x) \/ Expires(x) \/ GrowsOld(x) \/ DeleteReport(x)
    BY <2>2, <1>29, Zenon
  <2>3. CASE \E x \in Media :
               DeleteObjectFallback(x) \/ DeleteObjectFails(x) \/ DeleteRowFails(x)
    BY <2>3, <1>29, Zenon
  <2>4. CASE \/ \E m \in Message : Ages(m)
             \/ \E x \in Media, c \in Category : UploadMedia(x, c)
             \/ \E u \in User : DeleteAvatar(u)
    BY <2>4, <1>7, <1>8, <1>17, Zenon
  <2>5. CASE Next
    BY <2>5, <2>1, <2>2, <2>3, <2>4, <1>25, <1>30, Zenon DEF Next
  <2> QED
    BY <2>5, <1>9
<1> QED
  BY <1>32 DEF Goal

\* The inductive invariant holds of every reachable state.
THEOREM InvariantHolds == Spec => []IInv
<1>1. Init => IInv
  BY TypeInit, StoreInit DEF IInv
<1>2. IInv /\ [Next]_vars => IInv'
  BY TypeNext, StoreNext DEF IInv
<1> QED
  BY <1>1, <1>2, PTL DEF Spec

\* An object is left in the store without its row only if its own bucket failed
\* and the other answered in its place, whatever else fails in a cleanup.
THEOREM ObjectsHaveRows == Spec => []LeakedOnlyByFallback
<1>1. IInv => LeakedOnlyByFallback
  BY DEF IInv
<1> QED
  BY <1>1, InvariantHolds, PTL

\* What is in use is complete and stored, unless a cleanup had it before.
THEOREM UsedMediaAreStored == Spec => []InUseIsStored
<1>1. IInv => InUseIsStored
  BY DEF IInv, StoreInv, InUseIsStored
<1> QED
  BY <1>1, InvariantHolds, PTL

-----------------------------------------------------------------------------
(* Attachments *)

\* Attaching what is attached to nothing steals from no message.
LEMMA RelinkedKeeps ==
  ASSUME NEW m, NEW X, NEW Y, Linkable(X), media' = Relinked(m, X, Y), NEW x \in Media,
         media[x].msg # None
  PROVE  media'[x].msg \in {media[x].msg, None}
BY RelinkedFields DEF Linkable

\* An attachment never moves from one message to another: the update that
\* attaches an upload finds it only where it is attached to nothing.
THEOREM AttachmentsNotStolen == Spec => NotStolen
<1>1. ASSUME TypeOK, [Next]_vars, NEW x \in Media, media[x].msg # None
      PROVE  media'[x].msg \in {media[x].msg, None}
  <2>t. media \in [Media -> MediaState]
    BY <1>1 DEF TypeOK
  <2>1. CASE UNCHANGED media
    BY <2>1
  <2>2. ASSUME NEW r \in Request, SendWrite(r) \/ EditWrite(r) \/ DeleteWrite(r)
        PROVE  media'[x].msg \in {media[x].msg, None}
    <3>1. \E m, X, Y : Linkable(X) /\ media' = Relinked(m, X, Y)
      <4>1. Linkable({})
        BY DEF Linkable
      <4> QED
        BY <2>2, <4>1 DEF SendWrite, EditWrite, DeleteWrite
    <3> QED
      BY <1>1, <3>1, RelinkedKeeps
  <2>3. ASSUME NEW r \in Request, CompleteWrite(r)
        PROVE  media'[x].msg \in {media[x].msg, None}
    BY <2>3 DEF CompleteWrite, MakeMedium
  <2>4. ASSUME NEW y \in Media, NEW c \in Category, UploadMedia(y, c)
        PROVE  media'[x].msg \in {media[x].msg, None}
    BY <2>4, <2>t DEF UploadMedia, MakeMedium
  <2>5. ASSUME NEW y \in Media, Expires(y) \/ GrowsOld(y) \/ DeleteRow(y)
        PROVE  media'[x].msg \in {media[x].msg, None}
    <3>1. CASE Expires(y) \/ GrowsOld(y)
      BY <3>1, <2>t DEF Expires, GrowsOld, Aged, MakeMedium
    <3>2. CASE DeleteRow(y)
      BY <3>2, <2>t DEF DeleteRow, MakeMedium
    <3> QED
      BY <2>5, <3>1, <3>2
  <2>6. ASSUME \/ \E r \in Request : Abort(r) \/ AvatarWrite(r) \/ ReportWrite(r)
               \/ \E r \in Request, y \in Media : CompleteRead(r, y) \/ AvatarRead(r, y)
               \/ \E r \in Request, X \in SUBSET Media : ReportRead(r, X)
               \/ \E r \in Request, m \in Message : DeleteRead(r, m)
               \/ \E r \in Request, m \in Message, X \in SUBSET Media, text \in BOOLEAN :
                    SendRead(r, m, X, text) \/ EditRead(r, m, text, X)
        PROVE  UNCHANGED media
    <3>1. ASSUME NEW r, NEW q, Start(r, q) PROVE UNCHANGED media
      BY <3>1 DEF Start
    <3>2. ASSUME NEW r, Abort(r) \/ AvatarWrite(r) \/ ReportWrite(r) PROVE UNCHANGED media
      BY <3>2 DEF Abort, AvatarWrite, ReportWrite
    <3>3. ASSUME NEW r, NEW y, CompleteRead(r, y) \/ AvatarRead(r, y) PROVE UNCHANGED media
      BY <3>3, <3>1 DEF CompleteRead, AvatarRead
    <3>4. ASSUME NEW r, NEW X, ReportRead(r, X) PROVE UNCHANGED media
      BY <3>4, <3>1 DEF ReportRead
    <3>5. ASSUME NEW r, NEW m, DeleteRead(r, m) PROVE UNCHANGED media
      BY <3>5, <3>1 DEF DeleteRead
    <3>6. ASSUME NEW r, NEW m, NEW X, NEW text, SendRead(r, m, X, text) \/ EditRead(r, m, text, X)
          PROVE  UNCHANGED media
      <4>1. CASE SendRead(r, m, X, text)
        BY <4>1, <3>1 DEF SendRead
      <4>2. CASE EditRead(r, m, text, X)
        BY <4>2, <3>1 DEF EditRead
      <4> QED
        BY <3>6, <4>1, <4>2
    <3> QED
      BY <2>6, <3>2, <3>3, <3>4, <3>5, <3>6, Zenon
  <2>7. ASSUME \/ \E m \in Message : Ages(m)
               \/ \E u \in User : DeleteAvatar(u)
               \/ \E y \in Media : \/ PutObject(y) \/ DeleteReport(y) \/ DeleteObject(y)
                                  \/ DeleteObjectFallback(y) \/ DeleteObjectFails(y)
                                  \/ DeleteRowFails(y)
               \/ JobStart \/ JobQuery \/ JobStops
               \/ UNCHANGED vars
        PROVE  UNCHANGED media
    BY <2>7 DEF Ages, DeleteAvatar, PutObject, DeleteReport, DeleteObject, DeleteObjectFallback,
                DeleteObjectFails, DeleteRowFails, JobStart, JobQuery, JobStops, vars
  <2> QED
    BY <1>1, <2>1, <2>2, <2>3, <2>4, <2>5, <2>6, <2>7 DEF Next, RunMediaCleanup
<1>2. TypeOK /\ [Next]_vars =>
        [\A x \in Media : media[x].msg # None => media'[x].msg \in {media[x].msg, None}]_vars
  BY <1>1
<1> QED
  BY <1>2, TypeCorrect, PTL DEF NotStolen, Spec

-----------------------------------------------------------------------------
(* The shape of messages *)

\* What the request in slot r has read of its message and may rely on when it
\* writes: a message being sent is nobody else's; an edit that no other request
\* and no cleanup came before leaves text or an attachment.
ReqShape(r) ==
  LET q == req[r] IN
  /\ q.op = "send" => /\ message[q.msg].status = "absent"
                      /\ q.text \/ q.link # {}
                      /\ \A s \in Request \ {r} : req[s].msg # q.msg
  /\ q.op \in {"edit", "delete"} => message[q.msg].status # "absent"
  /\ q.op = "edit" /\ ~q.stale /\ q.msg \notin disturbed =>
       /\ message[q.msg].status = "sent"
       /\ q.text \/ q.link # {} \/ Attached(q.msg) \ q.unlink # {}

ShapeInv ==
  /\ MessageShape
  /\ \A m \in Message : message[m].status = "absent" => Attached(m) = {}
  /\ \A r \in Request : ReqShape(r)

LEMMA IdleShape == Idle.op = "idle" /\ Idle.msg = None
  BY DEF Idle, MakeRequest

\* Steps that write no message: requests end, and an attachment is taken off at
\* most a message that is known to be disturbed.
LEMMA ShapeKept ==
  ASSUME TypeOK, ShapeInv, disturbed \subseteq disturbed',
         \A m \in Message : message'[m].status = message[m].status
                         /\ message'[m].text = message[m].text,
         \A x \in Media : \/ media'[x].msg = media[x].msg
                          \/ media'[x].msg = None /\ media[x].msg \in disturbed' \cup {None},
         \A r \in Request : req'[r] = req[r] \/ req'[r] = Idle
  PROVE  ShapeInv'
  <1>1. \A m \in Message : Attached(m)' \subseteq Attached(m)
    BY MessagesAssumption DEF Attached
  <1>2. \A m \in Message \ disturbed' : Attached(m)' = Attached(m)
    BY MessagesAssumption DEF Attached
  <1>3. MessageShape'
    BY <1>2 DEF ShapeInv, MessageShape
  <1>4. \A m \in Message : message'[m].status = "absent" => Attached(m)' = {}
    BY <1>1 DEF ShapeInv
  <1>5. ASSUME NEW r \in Request PROVE ReqShape(r)'
    <2>1. CASE req'[r] = Idle
      BY <2>1, IdleShape DEF ReqShape
    <2>2. CASE req'[r] = req[r] /\ req[r].op \in MessageOp
      <3> DEFINE q == req[r]
      <3>1. ReqShape(r)
        BY DEF ShapeInv
      <3>2. q.msg \in Message
        BY <2>2 DEF TypeOK, RequestState
      <3>3. \A s \in Request : req'[s].msg \in {req[s].msg, None}
        BY IdleShape
      <3>4. q.msg \notin disturbed' => q.msg \notin disturbed /\ Attached(q.msg)' = Attached(q.msg)
        <4> SUFFICES ASSUME NEW m \in Message, m \notin disturbed'
                     PROVE  m \notin disturbed /\ Attached(m)' = Attached(m)
          BY <2>2, <3>2 DEF Attached
        <4> QED
          BY <1>2
      <3>5. q.op = "send" => /\ message'[q.msg].status = "absent"
                             /\ q.text \/ q.link # {}
                             /\ \A s \in Request \ {r} : req'[s].msg # q.msg
        BY <3>1, <3>2, <3>3, MessagesAssumption DEF ReqShape
      <3>6. q.op \in {"edit", "delete"} => message'[q.msg].status # "absent"
        BY <3>1, <3>2 DEF ReqShape
      <3>7. q.op = "edit" /\ ~q.stale /\ q.msg \notin disturbed' =>
              /\ message'[q.msg].status = "sent"
              /\ q.text \/ q.link # {} \/ Attached(q.msg)' \ q.unlink # {}
        BY <3>1, <3>2, <3>4 DEF ReqShape
      <3> QED
        BY <2>2, <3>5, <3>6, <3>7 DEF ReqShape
    <2>3. CASE req'[r] = req[r] /\ req[r].op \notin MessageOp
      BY <2>3 DEF ReqShape, MessageOp
    <2> QED
      BY <2>1, <2>2, <2>3
  <1> QED
    BY <1>3, <1>4, <1>5 DEF ShapeInv

\* A request that starts relies only on what it has read.
LEMMA ShapeStart ==
  ASSUME TypeOK, ShapeInv, NEW r \in Request, NEW q \in RequestState, Start(r, q),
         q.op \notin MessageOp => q.msg = None,
         q.op = "send" => /\ message[q.msg].status = "absent"
                          /\ q.text \/ q.link # {}
                          /\ \A s \in Request : req[s].msg # q.msg,
         q.op \in {"edit", "delete"} => message[q.msg].status = "sent",
         q.op = "edit" => q.text \/ q.link # {} \/ Attached(q.msg) \ q.unlink # {}
  PROVE  ShapeInv'
  <1>1. req'[r] = q /\ \A s \in Request \ {r} : req'[s] = req[s]
    BY DEF Start, TypeOK
  <1>2. UNCHANGED <<message, media, disturbed>>
    BY DEF Start
  <1>3. \A m : Attached(m)' = Attached(m)
    BY <1>2 DEF Attached
  <1>4. MessageShape' /\ \A m \in Message : message'[m].status = "absent" => Attached(m)' = {}
    BY <1>2, <1>3 DEF ShapeInv, MessageShape
  <1>5. ASSUME NEW s \in Request PROVE ReqShape(s)'
    <2>1. CASE s = r
      <3>1. Attached(req[r].msg)' = Attached(q.msg)
        BY <1>1, <1>2 DEF Attached
      <3>2. q.op = "send" => /\ message'[q.msg].status = "absent"
                             /\ q.text \/ q.link # {}
                             /\ \A t \in Request \ {r} : req'[t].msg # q.msg
        BY <1>1, <1>2
      <3>3. q.op = "edit" => q.text \/ q.link # {} \/ Attached(req[r].msg)' \ q.unlink # {}
        BY <3>1
      <3> QED
        BY <1>1, <1>2, <2>1, <3>2, <3>3 DEF ReqShape
    <2>2. CASE s # r
      <3>1. ReqShape(s) /\ req'[s] = req[s]
        BY <1>1, <2>2 DEF ShapeInv
      <3>2. Attached(req[s].msg)' = Attached(req[s].msg)
        BY <1>2, <3>1 DEF Attached
      <3>3. req[s].op = "send" => q.msg # req[s].msg
        <4> SUFFICES ASSUME req[s].op = "send", q.msg = req[s].msg PROVE FALSE
          OBVIOUS
        <4>1. message[q.msg].status = "absent" /\ q.msg \in Message
          BY <3>1 DEF ReqShape, TypeOK, RequestState, MessageOp
        <4>2. q.op \in MessageOp
          BY <4>1, MessagesAssumption
        <4> QED
          BY <4>1, <4>2, <2>2 DEF MessageOp
      <3>4. req[s].op = "send" => \A t \in Request \ {s} : req'[t].msg # req[s].msg
        BY <1>1, <2>2, <3>1, <3>3 DEF ReqShape
      <3> QED
        BY <1>2, <3>1, <3>2, <3>4 DEF ReqShape
    <2> QED
      BY <2>1, <2>2
  <1> QED
    BY <1>4, <1>5 DEF ShapeInv

\* A request writes message m and moves its attachments: every other request on
\* the message is stale from then on.
LEMMA ShapeWrite ==
  ASSUME TypeOK, ShapeInv, NEW r \in Request, NEW m \in Message, req[r].msg = m,
         NEW X \in SUBSET Media, NEW Y, Linkable(X), media' = Relinked(m, X, Y),
         NEW y \in MessageState, message' = [message EXCEPT ![m] = y],
         y.status # "absent", EndWrite(r, m),
         m \notin disturbed' =>
           /\ y.status = "sent" => y.text \/ Attached(m)' # {}
           /\ y.status = "deleted" => ~y.text /\ Attached(m)' = {}
  PROVE  ShapeInv'
  <1>1. message'[m] = y /\ \A n \in Message \ {m} : message'[n] = message[n]
    BY DEF TypeOK
  <1>2. disturbed \subseteq disturbed'
    BY DEF EndWrite
  <1>3. \A n \in Message \ {m} : Attached(n)' = Attached(n)
    <2> SUFFICES ASSUME NEW n \in Message \ {m}, NEW x \in Media
                 PROVE  media'[x].msg = n <=> media[x].msg = n
      BY DEF Attached
    <2>1. media'[x].msg = IF x \in X THEN m
                          ELSE IF x \in Y /\ media[x].msg = m THEN None
                          ELSE media[x].msg
      BY RelinkedFields
    <2>2. x \in X => media[x].msg = None
      BY DEF Linkable
    <2> QED
      BY <2>1, <2>2, MessagesAssumption
  <1>4. MessageShape'
    BY <1>1, <1>2, <1>3 DEF ShapeInv, MessageShape
  <1>5. \A n \in Message : message'[n].status = "absent" => Attached(n)' = {}
    BY <1>1, <1>3 DEF ShapeInv
  <1>6. /\ req'[r] = Idle
        /\ \A s \in Request \ {r} :
             /\ req[s].msg = m => req'[s] = Outdated(req[s])
             /\ req[s].msg # m => req'[s] = req[s]
    BY DEF EndWrite
  <1>7. \A s \in Request : Outdated(req[s]).msg = req[s].msg /\ Outdated(req[s]).op = req[s].op
                           /\ Outdated(req[s]).stale
    BY DEF Outdated
  <1>8. \A s \in Request : req'[s].msg \in {req[s].msg, None}
    BY <1>6, <1>7, IdleShape
  <1>9. ASSUME NEW s \in Request PROVE ReqShape(s)'
    <2>1. CASE s = r
      BY <1>6, <2>1, IdleShape DEF ReqShape
    <2>2. CASE s # r /\ req[s].msg = m
      <3>1. req'[s].op = req[s].op /\ req'[s].msg = m /\ req'[s].stale
        BY <1>6, <1>7, <2>2
      <3>2. req[s].op # "send"
        BY <2>2 DEF ShapeInv, ReqShape
      <3> QED
        BY <1>1, <3>1, <3>2 DEF ReqShape
    <2>3. CASE s # r /\ req[s].msg # m /\ req[s].op \in MessageOp
      <3> DEFINE q == req[s]
      <3>1. ReqShape(s) /\ req'[s] = req[s]
        BY <1>6, <2>3 DEF ShapeInv
      <3>2. q.msg \in Message \ {m}
        BY <2>3 DEF TypeOK, RequestState
      <3>3. message'[q.msg] = message[q.msg]
        BY <1>1, <3>2
      <3>4. Attached(q.msg)' = Attached(q.msg)
        <4>1. ASSUME NEW n \in Message \ {m}, n = q.msg, n = q'.msg
              PROVE  Attached(q.msg)' = Attached(q.msg)
          BY <1>3, <4>1 DEF Attached
        <4> QED
          BY <3>1, <3>2, <4>1
      <3>5. q.op = "send" => \A t \in Request \ {s} : req'[t].msg # q.msg
        BY <1>8, <3>1, <3>2, MessagesAssumption DEF ReqShape
      <3> QED
        BY <1>2, <3>1, <3>3, <3>4, <3>5 DEF ReqShape
    <2>4. CASE s # r /\ req[s].msg # m /\ req[s].op \notin MessageOp
      BY <1>6, <2>4 DEF ReqShape, MessageOp
    <2> QED
      BY <2>1, <2>2, <2>3, <2>4
  <1> QED
    BY <1>4, <1>5, <1>9 DEF ShapeInv

\* What an update attaches to its message, and what it leaves on it.
LEMMA RelinkedAttached ==
  ASSUME NEW m \in Message, NEW X \in SUBSET Media, NEW Y, media' = Relinked(m, X, Y)
  PROVE  Attached(m)' = (Attached(m) \ Y) \cup X
  <1> SUFFICES ASSUME NEW x \in Media
               PROVE  media'[x].msg = m <=> x \in X \/ (media[x].msg = m /\ x \notin Y)
    BY DEF Attached
  <1> QED
    BY RelinkedFields, MessagesAssumption

LEMMA SendWriteShape ==
  ASSUME TypeOK, ShapeInv, NEW r \in Request, SendWrite(r)
  PROVE  ShapeInv'
  <1>1. PICK m \in Message : req[r].msg = m
    BY DEF TypeOK, RequestState, SendWrite, MessageOp
  <1> DEFINE X == req[r].link
             y == MakeMessage("sent", req[r].text, FALSE)
  <1>2. X \in SUBSET Media /\ req[r].text \in BOOLEAN /\ (req[r].text \/ X # {})
    BY DEF TypeOK, RequestState, SendWrite, ShapeInv, ReqShape
  <1>3. y \in MessageState
    BY <1>2, Constructors
  <1>4. y.status = "sent" /\ y.text = req[r].text
    BY DEF MakeMessage
  <1>5. media' = Relinked(m, X, {}) /\ Linkable(X) /\ EndWrite(r, m)
        /\ message' = [message EXCEPT ![m] = y]
    BY <1>1 DEF SendWrite
  <1>6. y.text \/ Attached(m)' # {}
    BY <1>2, <1>4, <1>5, RelinkedAttached
  <1> HIDE DEF X, y
  <1> QED
    BY <1>1, <1>2, <1>3, <1>4, <1>5, <1>6, ShapeWrite

LEMMA EditWriteShape ==
  ASSUME TypeOK, ShapeInv, NEW r \in Request, EditWrite(r)
  PROVE  ShapeInv'
  <1>1. PICK m \in Message : req[r].msg = m
    BY DEF TypeOK, RequestState, EditWrite, MessageOp
  <1> DEFINE q == req[r]
             X == q.link
             Y == q.unlink
             y == MakeMessage(message[m].status, q.text, message[m].aged)
  <1>2. X \in SUBSET Media /\ q.text \in BOOLEAN /\ ReqShape(r) /\ q.op = "edit"
    BY DEF TypeOK, RequestState, EditWrite, ShapeInv
  <1>3. message[m] \in MessageState
    BY DEF TypeOK
  <1>4. y \in MessageState /\ message[m].status # "absent"
    BY <1>1, <1>2, <1>3, Constructors DEF MessageState, ReqShape
  <1>5. y.status = message[m].status /\ y.text = q.text
    BY DEF MakeMessage
  <1>6. /\ media' = Relinked(m, X, Y) /\ Linkable(X) /\ EndWrite(r, m)
        /\ message' = [message EXCEPT ![m] = y]
    BY <1>1 DEF EditWrite
  <1>7. ASSUME m \notin disturbed'
        PROVE  y.status = "sent" /\ (y.text \/ Attached(m)' # {})
    <2>1. ~q.stale /\ m \notin disturbed
      BY <1>6, <1>7 DEF EndWrite
    <2>2. message[m].status = "sent" /\ (q.text \/ X # {} \/ Attached(m) \ Y # {})
      BY <1>1, <1>2, <2>1 DEF ReqShape
    <2>3. Attached(m)' = (Attached(m) \ Y) \cup X
      BY <1>2, <1>6, RelinkedAttached
    <2> QED
      BY <1>5, <2>2, <2>3
  <1> HIDE DEF X, Y, y
  <1> QED
    BY <1>1, <1>2, <1>4, <1>5, <1>6, <1>7, ShapeWrite

LEMMA DeleteWriteShape ==
  ASSUME TypeOK, ShapeInv, NEW r \in Request, DeleteWrite(r)
  PROVE  ShapeInv'
  <1>1. PICK m \in Message : req[r].msg = m
    BY DEF TypeOK, RequestState, DeleteWrite, MessageOp
  <1> DEFINE y == MakeMessage("deleted", FALSE, message[m].aged)
  <1>a. message[m].aged \in BOOLEAN
    BY DEF TypeOK, MessageState
  <1>2. y \in MessageState
    BY <1>a, Constructors
  <1>3. y.status = "deleted" /\ ~y.text
    BY DEF MakeMessage
  <1>4. /\ media' = Relinked(m, {}, Media) /\ Linkable({}) /\ EndWrite(r, m)
        /\ message' = [message EXCEPT ![m] = y]
    BY <1>1 DEF DeleteWrite, Linkable
  <1>5. Attached(m)' = {}
    <2>1. {} \in SUBSET Media /\ Attached(m) \ Media = {}
      BY DEF Attached
    <2>2. Attached(m)' = (Attached(m) \ Media) \cup {}
      BY <1>4, <2>1, RelinkedAttached
    <2> QED
      BY <2>1, <2>2
  <1> HIDE DEF y
  <1> QED
    BY <1>1, <1>2, <1>3, <1>4, <1>5, ShapeWrite

LEMMA ShapeInit == Init => ShapeInv
  <1> SUFFICES ASSUME Init PROVE ShapeInv
    OBVIOUS
  <1>1. \A m \in Message : message[m].status = "absent" /\ Attached(m) = {}
    BY MessagesAssumption DEF Init, AbsentMessage, MakeMessage, Attached, AbsentMedium, MakeMedium
  <1>2. \A r \in Request : req[r] = Idle
    BY DEF Init
  <1> QED
    BY <1>1, <1>2, IdleShape DEF ShapeInv, MessageShape, ReqShape

\* The requests on a message start with what they checked.
LEMMA ReadShape ==
  ASSUME TypeOK, ShapeInv, NEW r \in Request, NEW m \in Message,
         \/ DeleteRead(r, m)
         \/ \E X \in SUBSET Media, text \in BOOLEAN :
              SendRead(r, m, X, text) \/ EditRead(r, m, text, X)
  PROVE  ShapeInv'
  <1>1. ASSUME NEW op, NEW text, NEW X, NEW Y
        PROVE  LET q == MakeRequest(op, m, text, X, Y)
               IN  q.op = op /\ q.msg = m /\ q.text = text /\ q.link = X /\ q.unlink = Y
    BY DEF MakeRequest
  <1>2. CASE DeleteRead(r, m)
    <2> DEFINE q == MakeRequest("delete", m, FALSE, {}, {})
    <2>1. q \in RequestState
      BY Constructors DEF Op
    <2>2. q.op = "delete" /\ q.msg = m
      BY DEF MakeRequest
    <2>3. Start(r, q) /\ message[m].status = "sent"
      BY <1>2 DEF DeleteRead
    <2> HIDE DEF q
    <2> QED
      BY <2>1, <2>2, <2>3, ShapeStart DEF MessageOp
  <1>3. ASSUME NEW X \in SUBSET Media, NEW text \in BOOLEAN, SendRead(r, m, X, text)
        PROVE  ShapeInv'
    <2> DEFINE q == MakeRequest("send", m, text, X, {})
    <2>1. q \in RequestState
      BY Constructors DEF Op
    <2>2. q.op = "send" /\ q.msg = m /\ q.text = text /\ q.link = X
      BY <1>1
    <2>3. /\ Start(r, q) /\ message[m].status = "absent" /\ (text \/ X # {})
          /\ \A s \in Request : req[s].msg # m
      BY <1>3 DEF SendRead
    <2> HIDE DEF q
    <2> QED
      BY <2>1, <2>2, <2>3, ShapeStart DEF MessageOp
  <1>4. ASSUME NEW A \in SUBSET Media, NEW text \in BOOLEAN, EditRead(r, m, text, A)
        PROVE  ShapeInv'
    <2> DEFINE X == A \ Attached(m)
               Y == Attached(m) \ A
               q == MakeRequest("edit", m, text, X, Y)
    <2>1. q \in RequestState
      BY Constructors DEF Op, Attached
    <2>2. q.op = "edit" /\ q.msg = m /\ q.text = text /\ q.link = X /\ q.unlink = Y
      BY <1>1
    <2>3. Start(r, q) /\ message[m].status = "sent" /\ (text \/ A # {})
      BY <1>4 DEF EditRead
    <2>4. text \/ X # {} \/ Attached(m) \ Y # {}
      BY <2>3
    <2> HIDE DEF X, Y, q
    <2> QED
      BY <2>1, <2>2, <2>3, <2>4, ShapeStart DEF MessageOp
  <1> QED
    BY <1>2, <1>3, <1>4

\* The requests that are not about a message.
LEMMA OtherReadShape ==
  ASSUME TypeOK, ShapeInv, NEW r \in Request,
         NEW op \in {"complete", "avatar", "report"}, NEW X \in SUBSET Media,
         Start(r, MakeRequest(op, None, FALSE, X, {}))
  PROVE  ShapeInv'
  <1> DEFINE q == MakeRequest(op, None, FALSE, X, {})
  <1>1. q \in RequestState
    BY Constructors DEF Op
  <1>2. q.op = op /\ q.msg = None
    BY DEF MakeRequest
  <1>3. Start(r, q)
    OBVIOUS
  <1> HIDE DEF q
  <1> QED
    BY <1>1, <1>2, <1>3, ShapeStart

LEMMA ShapeNext == IInv /\ ShapeInv /\ [Next]_vars => ShapeInv'
  <1> SUFFICES ASSUME IInv, ShapeInv, [Next]_vars PROVE ShapeInv'
    OBVIOUS
  <1>t. TypeOK /\ media \in [Media -> MediaState] /\ message \in [Message -> MessageState]
        /\ req \in [Request -> RequestState]
    BY DEF IInv, TypeOK
  <1>k. ASSUME disturbed' = disturbed, message' = message,
               \A x \in Media : media'[x].msg = media[x].msg,
               \A r \in Request : req'[r] = req[r] \/ req'[r] = Idle
        PROVE  ShapeInv'
    BY <1>k, <1>t, ShapeKept
  <1>1. ASSUME NEW r \in Request, Abort(r) \/ AvatarWrite(r) \/ ReportWrite(r) PROVE ShapeInv'
    BY <1>1, <1>t, <1>k DEF Abort, AvatarWrite, ReportWrite
  <1>2. ASSUME NEW r \in Request, CompleteWrite(r) PROVE ShapeInv'
    BY <1>2, <1>t, <1>k DEF CompleteWrite, MakeMedium
  <1>3. ASSUME NEW r \in Request, SendWrite(r) \/ EditWrite(r) \/ DeleteWrite(r) PROVE ShapeInv'
    BY <1>3, <1>t, SendWriteShape, EditWriteShape, DeleteWriteShape
  <1>4. ASSUME NEW r \in Request, NEW m \in Message,
               \/ DeleteRead(r, m)
               \/ \E X \in SUBSET Media, text \in BOOLEAN :
                    SendRead(r, m, X, text) \/ EditRead(r, m, text, X)
        PROVE  ShapeInv'
    BY <1>4, <1>t, ReadShape
  <1>5. ASSUME NEW r \in Request, NEW x \in Media, CompleteRead(r, x) \/ AvatarRead(r, x)
        PROVE  ShapeInv'
    <2>1. PICK op \in {"complete", "avatar"} : Start(r, MakeRequest(op, None, FALSE, {x}, {}))
      BY <1>5 DEF CompleteRead, AvatarRead
    <2>2. {x} \in SUBSET Media /\ op \in {"complete", "avatar", "report"}
      OBVIOUS
    <2> QED
      BY <1>t, <2>1, <2>2, OtherReadShape
  <1>6. ASSUME NEW r \in Request, NEW X \in SUBSET Media, ReportRead(r, X) PROVE ShapeInv'
    BY <1>6, <1>t, OtherReadShape DEF ReportRead
  <1>7. ASSUME NEW m \in Message, Ages(m) PROVE ShapeInv'
    <2>1. \A n \in Message : message'[n].status = message[n].status
                          /\ message'[n].text = message[n].text
      BY <1>7, <1>t DEF Ages, MakeMessage
    <2> QED
      BY <1>7, <1>t, <2>1, ShapeKept DEF Ages
  <1>8. ASSUME NEW x \in Media, NEW c \in Category, UploadMedia(x, c) PROVE ShapeInv'
    <2>1. media[x].msg = None
      BY <1>8 DEF UploadMedia, IInv, StoreInv, InUse
    <2>2. \A y \in Media : media'[y].msg = media[y].msg
      BY <1>8, <1>t, <2>1 DEF UploadMedia, MakeMedium
    <2> QED
      BY <1>8, <2>2, <1>k DEF UploadMedia
  <1>9. ASSUME NEW x \in Media, Expires(x) \/ GrowsOld(x) PROVE ShapeInv'
    <2>1. \A y \in Media : media'[y].msg = media[y].msg
      BY <1>9, <1>t DEF Expires, GrowsOld, Aged, MakeMedium
    <2> QED
      BY <1>9, <2>1, <1>k DEF Expires, GrowsOld
  <1>10. ASSUME NEW x \in Media, DeleteRow(x) PROVE ShapeInv'
    <2>1. \A y \in Media : \/ media'[y].msg = media[y].msg
                           \/ media'[y].msg = None /\ media[y].msg \in disturbed' \cup {None}
      BY <1>10, <1>t DEF DeleteRow, MakeMedium
    <2> QED
      BY <1>10, <1>t, <2>1, ShapeKept DEF DeleteRow
  <1>11. ASSUME NEW x \in Media,
                \/ PutObject(x) \/ DeleteReport(x) \/ DeleteObject(x) \/ DeleteObjectFallback(x)
                \/ DeleteObjectFails(x) \/ DeleteRowFails(x)
         PROVE  ShapeInv'
    BY <1>11, <1>k DEF PutObject, DeleteReport, DeleteObject, DeleteObjectFallback,
                    DeleteObjectFails, DeleteRowFails
  <1>12. ASSUME NEW u \in User, DeleteAvatar(u) PROVE ShapeInv'
    BY <1>12, <1>k DEF DeleteAvatar
  <1>13. CASE JobStart \/ JobQuery \/ JobStops \/ UNCHANGED vars
    BY <1>13, <1>k DEF JobStart, JobQuery, JobStops, vars
  <1> QED
    BY <1>1, <1>2, <1>3, <1>4, <1>5, <1>6, <1>7, <1>8, <1>9, <1>10, <1>11, <1>12, <1>13
       DEF Next, RunMediaCleanup

\* A sent message has text or an attachment and a deleted one neither, unless
\* requests on it overlapped or the cleanup deleted an attachment under it: the
\* checks EditMessage makes before its UPDATE are enough wherever no other
\* request writes the message in between.
THEOREM ShapeUnlessDisturbed == Spec => []MessageShape
  <1>1. Init => ShapeInv
    BY ShapeInit
  <1>2. IInv /\ ShapeInv /\ [Next]_vars => ShapeInv'
    BY ShapeNext
  <1>3. ShapeInv => MessageShape
    BY DEF ShapeInv
  <1> QED
    BY <1>1, <1>2, <1>3, InvariantHolds, PTL DEF Spec

=============================================================================
