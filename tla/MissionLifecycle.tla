-------------------------- MODULE MissionLifecycle --------------------------
(***************************************************************************)
(* One mission, its media and the requests made about it:                  *)
(* src/src/modules/flight-ops, with the idempotency records of             *)
(* src/src/platform/idempotency and the transactions of                    *)
(* src/src/platform/database.                                              *)
(*                                                                         *)
(* Every operation is one database transaction under snapshot isolation:   *)
(* it decides on what it reads when it begins, and it commits unless a     *)
(* document it writes was committed by another transaction meanwhile (a    *)
(* write conflict, after which the driver runs it again from the start).   *)
(* Requests are resent with the same Idempotency-Key, because clients      *)
(* retry and because their first answer may be lost.  The media files are  *)
(* in an external store, which no transaction covers.                      *)
(***************************************************************************)
EXTENDS Naturals, FiniteSets

CONSTANTS
    Requests,      \* the requests clients send: [op, key, actor, pilot]
    Users,         \* pilots, reviewers, coordinators
    Workers,       \* transactions in progress at the same time
    Objects,       \* files of the external media store
    MaxExpiries,   \* bound: idempotency records the database removes (24 h TTL)
    Nobody         \* no user

Operations == {"assign", "accept", "reject", "start", "upload", "complete",
               "reviewClose", "cancel", "fail"}

ASSUME RequestsAssumption ==
    /\ \A q \in Requests : /\ q.op \in Operations
                           /\ q.actor \in Users /\ q.pilot \in Users
    /\ Requests # {} /\ MaxExpiries \in Nat /\ Nobody \notin Users

VARIABLES
    mission,    \* the mission document
    media,      \* file -> the media asset that refers to it, if committed
    storage,    \* files the media store holds
    records,    \* completed idempotency records
    events,     \* ids of the outbox events appended: type and request key
    txn,        \* worker -> its transaction
    expiries    \* idempotency records removed so far

vars == <<mission, media, storage, records, events, txn, expiries>>

----------------------------------------------------------------------------
(* Documents                                                               *)

MissionStatus    == {"ABSENT", "PLANNED", "READY", "IN_PROGRESS", "COMPLETED",
                     "CANCELLED", "FAILED"}
AssignmentStatus == {"UNASSIGNED", "ASSIGNED", "ACCEPTED", "REJECTED"}
ReviewStatus     == {"NOT_READY", "PENDING_REVIEW", "REVIEWED_CLOSED"}
EventTypes       == {"MissionRequested", "MissionAssigned", "MissionReassigned", "MissionAccepted",
                     "MissionRejected", "MissionStarted", "MissionMediaUploaded",
                     "MissionPilotCompleted", "MissionReviewedClosed",
                     "MissionCancelled", "MissionFailed"}

UserOrNobody == Users \cup {Nobody}

Mission == [status : MissionStatus, assignment : AssignmentStatus,
            review : ReviewStatus, pilot : UserOrNobody, startedBy : UserOrNobody,
            completedBy : UserOrNobody, reviewedBy : UserOrNobody]

NoMission == [status |-> "ABSENT", assignment |-> "UNASSIGNED",
              review |-> "NOT_READY", pilot |-> Nobody, startedBy |-> Nobody,
              completedBy |-> Nobody, reviewedBy |-> Nobody]

\* The media asset of a file: the request that uploaded it, and lockedAt.
NoAsset == [uploaded |-> FALSE]
Asset   == [uploaded : {TRUE}, by : Requests, locked : BOOLEAN]

Attached == {o \in Objects : media[o] # NoAsset}

\* An event's id is its type and the request's key; creation has no request key.
CreationKey == "none"
Keys        == {q.key : q \in Requests} \cup {CreationKey}

\* The unique index of idempotency_keys; the operation names the mission.
Record(q) == <<q.op, q.key>>

----------------------------------------------------------------------------
(* Transactions                                                            *)

AnyRequest == CHOOSE q \in Requests : TRUE

\* What a transaction holds: the request, the mission and the assets of its
\* snapshot, whether the mission was committed again since, and a stored file.
Free == [step |-> "free", request |-> AnyRequest, seen |-> NoMission,
         assets |-> {}, stale |-> FALSE, file |-> {}]

Txn == [step : {"free", "open", "stored"}, request : Requests, seen : Mission,
        assets : SUBSET Objects, stale : BOOLEAN, file : SUBSET Objects]

Init ==
    /\ mission = NoMission
    /\ media = [o \in Objects |-> NoAsset]
    /\ storage = {}
    /\ records = {}
    /\ events = {}
    /\ txn = [w \in Workers |-> Free]
    /\ expiries = 0

\* createMission: without an idempotency key, and with inserts only.
CreateMission(pilot) ==
    /\ mission.status = "ABSENT"
    /\ mission' = [NoMission EXCEPT !.status = "PLANNED", !.pilot = pilot,
                      !.assignment = IF pilot = Nobody THEN "UNASSIGNED" ELSE "ASSIGNED"]
    /\ events' = {<<"MissionRequested", CreationKey>>}
    /\ UNCHANGED <<media, storage, records, txn, expiries>>

\* runIdempotent and IdempotencyService.begin: a completed record answers the
\* request, and the record a running transaction inserts keeps others waiting.
Begin(w, q) ==
    /\ txn[w].step = "free"
    /\ mission.status # "ABSENT"
    /\ Record(q) \notin records
    /\ \A v \in Workers : txn[v].step # "free" => Record(txn[v].request) # Record(q)
    /\ txn' = [txn EXCEPT ![w] =
                  [Free EXCEPT !.step = "open", !.request = q, !.seen = mission,
                               !.assets = Attached]]
    /\ UNCHANGED <<mission, media, storage, records, events, expiries>>

\* The attempt ends without effect: a precondition does not hold, a permission or
\* the pilot's eligibility is refused, a write conflicts, the process dies.
Abort(w) ==
    /\ txn[w].step = "open"
    /\ txn' = [txn EXCEPT ![w] = Free]
    /\ UNCHANGED <<mission, media, storage, records, events, expiries>>

\* The expiry index of idempotency_keys.
ExpireRecord ==
    /\ expiries < MaxExpiries
    /\ \E k \in records : records' = records \ {k}
    /\ expiries' = expiries + 1
    /\ UNCHANGED <<mission, media, storage, events, txn>>

\* Worker w runs an attempt at operation op.
Runs(w, op) == txn[w].step = "open" /\ txn[w].request.op = op

\* What every commit writes besides the documents of its operation.
Complete(w) ==
    /\ records' = records \cup {Record(txn[w].request)}
    /\ expiries' = expiries

\* Faulty: the save is not part of the transaction.
SaveUnchecked(w, m, type) ==
    /\ <<type, txn[w].request.key>> \notin events
    /\ mission' = m
    /\ events' = events \cup {<<type, txn[w].request.key>>}
    /\ txn' = [txn EXCEPT ![w] = Free]
    /\ Complete(w)

\* mission.save and appendMissionEvent, at the commit: no other commit wrote the
\* mission since the snapshot, and the unique eventId is new.
Save(w, m, type) ==
    LET id == <<type, txn[w].request.key>>
    IN  /\ ~ txn[w].stale
        /\ id \notin events
        /\ mission' = m
        /\ events' = events \cup {id}
        /\ txn' = [v \in Workers |->
                      IF v = w THEN Free
                      ELSE [txn[v] EXCEPT !.stale = txn[v].step # "free"]]
        /\ Complete(w)

\* A request that is already satisfied is answered with the state it finds.
Answer(w) ==
    /\ Complete(w)
    /\ txn' = [txn EXCEPT ![w] = Free]
    /\ UNCHANGED <<mission, media, storage, events>>

----------------------------------------------------------------------------
(* The operations                                                          *)

Seen(w)  == txn[w].seen
Actor(w) == txn[w].request.actor

Over == {"COMPLETED", "CANCELLED", "FAILED"}

\* Faulty: a mission in progress can be assigned to another pilot.
AssignAnyTime(w) ==
    LET m == Seen(w)
    IN  /\ Runs(w, "assign")
        /\ m.status \notin Over
        /\ Save(w, [m EXCEPT !.pilot = txn[w].request.pilot, !.assignment = "ASSIGNED"],
                IF m.pilot = Nobody THEN "MissionAssigned" ELSE "MissionReassigned")
        /\ UNCHANGED <<media, storage>>

AssignMission(w) ==
    LET m == Seen(w)
    IN  /\ Runs(w, "assign")
        /\ m.status \notin Over \cup {"IN_PROGRESS"}
        /\ Save(w, [m EXCEPT !.pilot = txn[w].request.pilot, !.assignment = "ASSIGNED"],
                IF m.pilot = Nobody THEN "MissionAssigned" ELSE "MissionReassigned")
        /\ UNCHANGED <<media, storage>>

AcceptMission(w) ==
    LET m == Seen(w)
    IN  /\ Runs(w, "accept")
        /\ m.pilot = Actor(w)
        /\ \/ /\ m.status = "READY" /\ m.assignment = "ACCEPTED"
              /\ Answer(w)
           \/ /\ m.status = "PLANNED" /\ m.assignment = "ASSIGNED"
              /\ Save(w, [m EXCEPT !.status = "READY", !.assignment = "ACCEPTED"],
                      "MissionAccepted")
              /\ UNCHANGED <<media, storage>>

\* Faulty: a status that is not one of ASSIGNMENT_STATUSES.
RejectDeclined(w) ==
    LET m == Seen(w)
    IN  /\ Runs(w, "reject")
        /\ m.pilot = Actor(w)
        /\ m.status = "PLANNED" /\ m.assignment = "ASSIGNED"
        /\ Save(w, [m EXCEPT !.assignment = "DECLINED"], "MissionRejected")
        /\ UNCHANGED <<media, storage>>

RejectMission(w) ==
    LET m == Seen(w)
    IN  /\ Runs(w, "reject")
        /\ m.pilot = Actor(w)
        /\ m.status = "PLANNED" /\ m.assignment = "ASSIGNED"
        /\ Save(w, [m EXCEPT !.assignment = "REJECTED"], "MissionRejected")
        /\ UNCHANGED <<media, storage>>

StartMission(w) ==
    LET m == Seen(w)
    IN  /\ Runs(w, "start")
        /\ m.pilot = Actor(w)
        /\ m.status = "READY" /\ m.assignment = "ACCEPTED"
        /\ Save(w, [m EXCEPT !.status = "IN_PROGRESS", !.startedBy = Actor(w)],
                "MissionStarted")
        /\ UNCHANGED <<media, storage>>

\* Faulty: completes without any media.
CompleteWithoutMedia(w) ==
    LET m == Seen(w)
    IN  /\ Runs(w, "complete")
        /\ m.pilot = Actor(w)
        /\ m.status = "IN_PROGRESS"
        /\ Save(w, [m EXCEPT !.status = "COMPLETED", !.review = "PENDING_REVIEW",
                             !.completedBy = Actor(w)], "MissionPilotCompleted")
        /\ UNCHANGED <<media, storage>>

\* completeMission locks the assets its snapshot holds.
CompleteMission(w) ==
    LET m == Seen(w)
    IN  /\ Runs(w, "complete")
        /\ m.pilot = Actor(w)
        /\ \/ /\ m.status = "COMPLETED"
              /\ Answer(w)
           \/ /\ m.status = "IN_PROGRESS"
              /\ txn[w].assets # {}
              /\ Save(w, [m EXCEPT !.status = "COMPLETED", !.review = "PENDING_REVIEW",
                                   !.completedBy = Actor(w)], "MissionPilotCompleted")
              /\ media' = [o \in Objects |->
                              IF o \in txn[w].assets
                              THEN [media[o] EXCEPT !.locked = TRUE] ELSE media[o]]
              /\ UNCHANGED storage

ReviewCloseMission(w) ==
    LET m == Seen(w)
    IN  /\ Runs(w, "reviewClose")
        /\ m.pilot # Actor(w)
        /\ m.status = "COMPLETED" /\ m.review = "PENDING_REVIEW"
        /\ Save(w, [m EXCEPT !.review = "REVIEWED_CLOSED", !.reviewedBy = Actor(w)],
                "MissionReviewedClosed")
        /\ UNCHANGED <<media, storage>>

CancelMission(w) ==
    LET m == Seen(w)
    IN  /\ Runs(w, "cancel")
        /\ m.status \notin Over \cup {"IN_PROGRESS"}
        /\ Save(w, [m EXCEPT !.status = "CANCELLED", !.review = "NOT_READY"],
                "MissionCancelled")
        /\ UNCHANGED <<media, storage>>

FailMission(w) ==
    LET m == Seen(w)
    IN  /\ Runs(w, "fail")
        /\ m.status \in {"READY", "IN_PROGRESS"}
        /\ Save(w, [m EXCEPT !.status = "FAILED", !.review = "NOT_READY"],
                "MissionFailed")
        /\ UNCHANGED <<media, storage>>

\* Faulty: anyone may upload at any time.
StoreUnguarded(w) ==
    /\ Runs(w, "upload")
    /\ \E o \in Objects \ (storage \cup Attached) :
          /\ storage' = storage \cup {o}
          /\ txn' = [txn EXCEPT ![w].step = "stored", ![w].file = {o}]
    /\ UNCHANGED <<mission, media, records, events, expiries>>

\* uploadMissionMedia, up to the answer of the media store.
StoreMedia(w) ==
    LET m == Seen(w)
    IN  /\ Runs(w, "upload")
        /\ m.pilot = Actor(w)
        /\ m.status = "IN_PROGRESS" /\ m.assignment = "ACCEPTED"
        /\ \E o \in Objects \ (storage \cup Attached) :
              /\ storage' = storage \cup {o}
              /\ txn' = [txn EXCEPT ![w].step = "stored", ![w].file = {o}]
        /\ UNCHANGED <<mission, media, records, events, expiries>>

\* Faulty: an outbox event per upload attempt, not per key.
PersistMediaTwice(w) ==
    /\ txn[w].step = "stored"
    /\ media' = [o \in Objects |->
                    IF o \in txn[w].file
                    THEN [uploaded |-> TRUE, by |-> txn[w].request, locked |-> FALSE]
                    ELSE media[o]]
    /\ events' = events \cup {<<"MissionMediaUploaded", txn[w].request.key>>}
    /\ txn' = [txn EXCEPT ![w] = Free]
    /\ Complete(w)
    /\ UNCHANGED <<mission, storage>>

\* persistUploadedMissionMedia, committed: inserts only, the mission is not written.
PersistMedia(w) ==
    LET id == <<"MissionMediaUploaded", txn[w].request.key>>
    IN  /\ txn[w].step = "stored"
        /\ id \notin events
        /\ media' = [o \in Objects |->
                        IF o \in txn[w].file
                        THEN [uploaded |-> TRUE, by |-> txn[w].request, locked |-> FALSE]
                        ELSE media[o]]
        /\ events' = events \cup {id}
        /\ txn' = [txn EXCEPT ![w] = Free]
        /\ Complete(w)
        /\ UNCHANGED <<mission, storage>>

\* Faulty: the file is also deleted when the answer to the commit was lost.
PersistFailsLate(w) ==
    /\ txn[w].step = "stored"
    /\ storage' = storage \ txn[w].file
    /\ \/ /\ media' = [o \in Objects |->
                          IF o \in txn[w].file
                          THEN [uploaded |-> TRUE, by |-> txn[w].request, locked |-> FALSE]
                          ELSE media[o]]
          /\ events' = events \cup {<<"MissionMediaUploaded", txn[w].request.key>>}
          /\ Complete(w)
       \/ UNCHANGED <<media, events, records, expiries>>
    /\ txn' = [txn EXCEPT ![w] = Free]
    /\ UNCHANGED mission

\* The transaction fails after the upload.  compensateUploadedMissionMedia deletes
\* the file if the insert failed, unless the deletion itself fails; it does not run
\* if the commit failed or the process died.
PersistFails(w) ==
    /\ txn[w].step = "stored"
    /\ \/ storage' = storage \ txn[w].file
       \/ storage' = storage
    /\ txn' = [txn EXCEPT ![w] = Free]
    /\ UNCHANGED <<mission, media, records, events, expiries>>

Operation(w) ==
    \/ AssignMission(w) \/ AcceptMission(w) \/ RejectMission(w) \/ StartMission(w)
    \/ StoreMedia(w) \/ PersistMedia(w) \/ PersistFails(w) \/ CompleteMission(w)
    \/ ReviewCloseMission(w) \/ CancelMission(w) \/ FailMission(w)

Next ==
    \/ \E pilot \in UserOrNobody : CreateMission(pilot)
    \/ \E w \in Workers : \/ \E q \in Requests : Begin(w, q)
                          \/ Operation(w)
                          \/ Abort(w)
    \/ ExpireRecord

Spec == Init /\ [][Next]_vars

----------------------------------------------------------------------------
(* What must hold                                                          *)

\* Documents, files and transactions have the shape the schemas give them.
TypeOK ==
    /\ mission \in Mission
    /\ media \in [Objects -> Asset \cup {NoAsset}]
    /\ storage \in SUBSET Objects
    /\ records \in SUBSET (Operations \X Keys)
    /\ events \in SUBSET (EventTypes \X Keys)
    /\ txn \in [Workers -> Txn]
    /\ expiries \in 0 .. MaxExpiries

EventsOfType(type) == {id \in events : id[1] = type}

\* The outbox tells the outcome of the mission exactly once, whatever requests with
\* whatever keys raced for it: a completed mission has one completion event and no
\* other ending, and so for a cancelled and a failed one.
OneEventPerOutcome ==
    \A ending \in {<<"MissionPilotCompleted", "COMPLETED">>,
                   <<"MissionCancelled", "CANCELLED">>, <<"MissionFailed", "FAILED">>} :
        Cardinality(EventsOfType(ending[1])) = IF mission.status = ending[2] THEN 1 ELSE 0

\* The mission is flown, completed and answered for by one and the same pilot, and
\* reviewed by somebody else, although assignments race with starts.
FlownByItsPilot ==
    /\ mission.status \in {"IN_PROGRESS", "COMPLETED"} =>
          /\ mission.assignment = "ACCEPTED"
          /\ mission.pilot = mission.startedBy /\ mission.pilot # Nobody
    /\ mission.status = "COMPLETED" => mission.completedBy = mission.startedBy
    /\ mission.review = "REVIEWED_CLOSED" =>
          mission.reviewedBy \notin {mission.completedBy, Nobody}

\* Every asset was uploaded by the pilot who started the mission, although an upload
\* checks the pilot long before it commits and never writes the mission.
MediaByPilot ==
    \A o \in Attached : media[o].by.actor = mission.startedBy

\* A request resent after its answer was lost, or after its idempotency record
\* expired, never attaches a second asset.
OneAssetPerUpload ==
    \A o, p \in Attached : Record(media[o].by) = Record(media[p].by) => o = p

\* No asset refers to a file that the compensation of a failed upload deleted.
AssetsStored == Attached \subseteq storage

\* A completed mission shows the media it was completed with, locked; nothing is
\* locked before.
CompletedWithMedia ==
    (mission.status = "COMPLETED") <=> (\E o \in Attached : media[o].locked)

\* Once a mission has ended, only an upload that began before can still attach an
\* asset to it, and no asset is ever detached, replaced or unlocked.
MediaSettles ==
    [][\A o \in Objects :
          /\ o \in Attached =>
                /\ media'[o] # NoAsset /\ media'[o].by = media[o].by
                /\ media[o].locked => media'[o].locked
          /\ (o \notin Attached /\ media'[o] # NoAsset /\ mission.status \in Over) =>
                \E w \in Workers : txn[w].stale /\ txn[w].file = {o}]_vars

\* "Mission media is locked after completion".
MediaLockedAfterCompletion ==
    mission.status = "COMPLETED" => \A o \in Attached : media[o].locked

=============================================================================
