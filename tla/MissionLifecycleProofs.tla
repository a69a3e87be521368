----------------------- MODULE MissionLifecycleProofs -----------------------
(***************************************************************************)
(* Proofs about MissionLifecycle, for any number of users, requests,       *)
(* concurrent transactions and files.                                      *)
(*                                                                         *)
(* The invariant has four parts: what a running transaction knows of the   *)
(* mission (Snapshot), which file it has put into the media store          *)
(* (Holding), what the attached assets say about who uploaded them         *)
(* (Provenance), and how the events agree with the outcome (Told).         *)
(***************************************************************************)
EXTENDS MissionLifecycle, FiniteSetTheorems, TLAPS

\* Statuses a mission can have once it was started.
Begun == {"IN_PROGRESS", "COMPLETED", "FAILED"}

Active(w) == txn[w].step # "free"

\* A transaction whose snapshot is not stale knows the mission; one that read a
\* mission in progress knows who flies it, for nobody can change that any more.
Snapshot(w) ==
    Active(w) =>
        /\ mission.status # "ABSENT"
        /\ ~ txn[w].stale => txn[w].seen = mission
        /\ txn[w].seen.status = "IN_PROGRESS" =>
              /\ mission.status \in Begun
              /\ txn[w].seen.pilot = mission.startedBy
        /\ txn[w].assets \subseteq Attached

\* The file a transaction stored is in the store and nobody else's, and its actor
\* flew the mission of the snapshot.
Holding(w) ==
    /\ txn[w].file \subseteq storage
    /\ txn[w].file \cap Attached = {}
    /\ \A v \in Workers : v # w => txn[v].file \cap txn[w].file = {}
    /\ txn[w].step = "stored" =>
          /\ txn[w].request.op = "upload"
          /\ txn[w].seen.status = "IN_PROGRESS"
          /\ txn[w].seen.pilot = txn[w].request.actor
          /\ \E o \in Objects : txn[w].file = {o}

\* An attached asset was uploaded by the pilot of a started mission, and told.
Provenance(o) ==
    o \in Attached =>
        /\ media[o].by.op = "upload"
        /\ media[o].by.actor = mission.startedBy
        /\ <<"MissionMediaUploaded", media[o].by.key>> \in events
        /\ mission.status \in Begun

Endings == {<<"MissionPilotCompleted", "COMPLETED">>, <<"MissionCancelled", "CANCELLED">>,
            <<"MissionFailed", "FAILED">>}

\* The events of an ending: exactly one if the mission ended so, none otherwise.
Told(ending) ==
    IF mission.status = ending[2]
    THEN \E id \in events : EventsOfType(ending[1]) = {id}
    ELSE EventsOfType(ending[1]) = {}

FlightInv ==
    /\ TypeOK
    /\ \A w \in Workers : Snapshot(w) /\ Holding(w)
    /\ \A o \in Objects : Provenance(o)
    /\ \A ending \in Endings : Told(ending)
    /\ FlownByItsPilot
    /\ OneAssetPerUpload
    /\ AssetsStored
    /\ CompletedWithMedia

----------------------------------------------------------------------------
(* Types                                                                   *)

\* A request that is being worked on, when nothing is, is one of the requests.
LEMMA FreeType == Free \in Txn
  <1>1. AnyRequest \in Requests
    BY RequestsAssumption DEF AnyRequest
  <1>2. NoMission \in Mission
    BY DEF NoMission, Mission, MissionStatus, AssignmentStatus, ReviewStatus,
           UserOrNobody
  <1> QED BY <1>1, <1>2 DEF Free, Txn

\* The missing asset is no asset.
LEMMA NoAssetIsNoAsset == NoAsset \notin Asset
  <1> SUFFICES ASSUME NoAsset \in Asset PROVE FALSE
    OBVIOUS
  <1>1. NoAsset.uploaded = TRUE
    BY DEF Asset
  <1>2. NoAsset.uploaded = FALSE
    BY DEF NoAsset
  <1> QED BY <1>1, <1>2

\* What an insertion and a lock make of an asset.
LEMMA NewAsset ==
    ASSUME NEW q \in Requests
    PROVE  [uploaded |-> TRUE, by |-> q, locked |-> FALSE] \in Asset
  BY DEF Asset

LEMMA LockedAsset ==
    ASSUME NEW a \in Asset
    PROVE  /\ [a EXCEPT !.locked = TRUE] \in Asset
           /\ [a EXCEPT !.locked = TRUE].by = a.by
           /\ [a EXCEPT !.locked = TRUE].locked
  BY DEF Asset

\* The ids of events and idempotency records have their types.
LEMMA IdTypes ==
    ASSUME TypeOK, NEW w \in Workers
    PROVE  /\ txn[w] \in Txn
           /\ txn[w].request \in Requests
           /\ Record(txn[w].request) \in Operations \X Keys
           /\ \A type \in EventTypes :
                 <<type, txn[w].request.key>> \in EventTypes \X Keys
  <1>1. txn[w] \in Txn /\ txn[w].request \in Requests
    BY DEF TypeOK, Txn
  <1>2. txn[w].request.key \in Keys
    BY <1>1 DEF Keys
  <1>3. txn[w].request.op \in Operations
    BY <1>1, RequestsAssumption
  <1> QED BY <1>1, <1>2, <1>3 DEF Record

\* A commit that writes the mission keeps the types, if the mission has its own.
LEMMA SaveTypes ==
    ASSUME TypeOK, NEW w \in Workers, NEW m \in Mission, NEW type \in EventTypes,
           Save(w, m, type),
           media' \in [Objects -> Asset \cup {NoAsset}], UNCHANGED storage
    PROVE  TypeOK'
  <1>1. txn[w].request \in Requests
    BY IdTypes
  <1>2. mission' \in Mission
    BY DEF Save
  <1>3. records' \in SUBSET (Operations \X Keys)
    BY IdTypes DEF Save, Complete, TypeOK
  <1>4. events' \in SUBSET (EventTypes \X Keys)
    BY IdTypes DEF Save, TypeOK
  <1>5. txn' \in [Workers -> Txn]
    <2>1. \A v \in Workers : \A b \in BOOLEAN : [txn[v] EXCEPT !.stale = b] \in Txn
      BY DEF TypeOK, Txn
    <2>2. \A v \in Workers : (txn[v].step # "free") \in BOOLEAN
      OBVIOUS
    <2>3. txn' = [v \in Workers |->
                    IF v = w THEN Free
                    ELSE [txn[v] EXCEPT !.stale = txn[v].step # "free"]]
      BY DEF Save
    <2> QED BY <2>1, <2>2, <2>3, FreeType
  <1>6. expiries' \in 0 .. MaxExpiries /\ storage' \in SUBSET Objects
    BY DEF Save, Complete, TypeOK
  <1> QED BY <1>2, <1>3, <1>4, <1>5, <1>6 DEF TypeOK

----------------------------------------------------------------------------
(* Commits that write the mission                                          *)

\* How a commit may move the mission: what was started stays started, by the same
\* pilot, and an ending is entered once, with its event, and never left.
Moves(type) ==
    /\ mission'.status # "ABSENT"
    /\ mission.status \in Begun =>
          /\ mission'.status \in Begun
          /\ mission'.startedBy = mission.startedBy
    /\ \A ending \in Endings :
          /\ mission'.status = ending[2] <=>
                (mission.status = ending[2] \/ type = ending[1])
          /\ type = ending[1] => mission.status # ending[2]

\* The media a commit of the mission leaves as it found them, but for locks.
MediaKept ==
    /\ Attached' = Attached
    /\ \A o \in Attached : media'[o].by = media[o].by
    /\ storage' = storage

\* What Save does to the transactions: its own ends, the others become stale.
LEMMA SaveEnds ==
    ASSUME TypeOK, NEW w \in Workers, NEW m, NEW type, Save(w, m, type),
           NEW v \in Workers
    PROVE  /\ v = w => txn'[v] = Free
           /\ v # w => /\ txn'[v].step = txn[v].step
                       /\ txn'[v].request = txn[v].request
                       /\ txn'[v].seen = txn[v].seen
                       /\ txn'[v].assets = txn[v].assets
                       /\ txn'[v].file = txn[v].file
                       /\ txn'[v].stale = (txn[v].step # "free")
  <1>1. txn'[v] = IF v = w THEN Free
                  ELSE [txn[v] EXCEPT !.stale = txn[v].step # "free"]
    BY DEF Save
  <1>2. txn[v] \in Txn
    BY DEF TypeOK
  <1> QED BY <1>1, <1>2 DEF Txn

\* A commit of the mission keeps what the other transactions know.
LEMMA SaveSnapshots ==
    ASSUME FlightInv, NEW w \in Workers, NEW m, NEW type, Save(w, m, type),
           Moves(type), MediaKept, NEW v \in Workers
    PROVE  Snapshot(v)'
  <1>1. CASE v = w
    <2>1. txn'[v].step = "free"
      BY <1>1, SaveEnds DEF FlightInv, Free
    <2> QED BY <2>1 DEF Snapshot, Active
  <1>2. CASE v # w
    <2>1. Snapshot(v)
      BY DEF FlightInv
    <2>2. /\ txn'[v].step = txn[v].step
          /\ txn'[v].seen = txn[v].seen
          /\ txn'[v].assets = txn[v].assets
          /\ txn'[v].stale = (txn[v].step # "free")
      BY <1>2, SaveEnds DEF FlightInv
    <2> QED BY <2>1, <2>2 DEF Snapshot, Active, Moves, MediaKept
  <1> QED BY <1>1, <1>2

\* A commit of the mission keeps the files of the other transactions.
LEMMA SaveHolding ==
    ASSUME FlightInv, NEW w \in Workers, NEW m, NEW type, Save(w, m, type),
           Moves(type), MediaKept, NEW v \in Workers
    PROVE  Holding(v)'
  <1>1. \A u \in Workers : u # w => txn'[u].file = txn[u].file
    BY SaveEnds DEF FlightInv
  <1>2. txn'[w].file = {} /\ txn'[w].step = "free"
    BY SaveEnds DEF FlightInv, Free
  <1>3. Holding(v)
    BY DEF FlightInv
  <1>4. CASE v = w
    BY <1>2, <1>4 DEF Holding
  <1>5. CASE v # w
    <2>1. /\ txn'[v].step = txn[v].step /\ txn'[v].request = txn[v].request
          /\ txn'[v].seen = txn[v].seen
      BY <1>5, SaveEnds DEF FlightInv
    <2>2. txn'[v].file \subseteq storage' /\ txn'[v].file \cap Attached' = {}
      BY <1>1, <1>3, <1>5 DEF Holding, MediaKept
    <2>3. \A u \in Workers : u # v => txn'[u].file \cap txn'[v].file = {}
      BY <1>1, <1>2, <1>3, <1>5 DEF Holding
    <2>4. txn'[v].step = "stored" =>
             /\ txn'[v].request.op = "upload"
             /\ txn'[v].seen.status = "IN_PROGRESS"
             /\ txn'[v].seen.pilot = txn'[v].request.actor
             /\ \E o \in Objects : txn'[v].file = {o}
      BY <1>1, <1>3, <1>5, <2>1 DEF Holding
    <2> QED BY <2>2, <2>3, <2>4 DEF Holding
  <1> QED BY <1>4, <1>5

\* A commit of the mission keeps the assets attributed, single and stored.
LEMMA SaveProvenance ==
    ASSUME FlightInv, NEW w \in Workers, NEW m, NEW type, Save(w, m, type),
           Moves(type), MediaKept
    PROVE  /\ \A o \in Objects : Provenance(o)'
           /\ OneAssetPerUpload'
           /\ AssetsStored'
  <1>1. ASSUME NEW o \in Objects PROVE Provenance(o)'
    <2>1. Provenance(o)
      BY DEF FlightInv
    <2>2. events \subseteq events'
      BY DEF Save
    <2> QED BY <2>1, <2>2 DEF Provenance, Moves, MediaKept
  <1>2. OneAssetPerUpload'
    <2>1. OneAssetPerUpload
      BY DEF FlightInv
    <2> QED BY <2>1 DEF OneAssetPerUpload, MediaKept, Record
  <1>3. AssetsStored'
    BY DEF FlightInv, AssetsStored, MediaKept
  <1> QED BY <1>1, <1>2, <1>3

\* A commit of the mission tells its ending, if it has one.
LEMMA SaveTold ==
    ASSUME FlightInv, NEW w \in Workers, NEW m, NEW type, Save(w, m, type),
           Moves(type), NEW ending \in Endings
    PROVE  Told(ending)'
  <1> DEFINE id == <<type, txn[w].request.key>>
  <1>1. events' = events \cup {id} /\ id \notin events
    BY DEF Save
  <1>2. Told(ending)
    BY DEF FlightInv
  <1>3. CASE type = ending[1]
    <2>1. EventsOfType(ending[1]) = {}
      BY <1>2, <1>3 DEF Told, Moves
    <2>2. EventsOfType(ending[1])' = {id}
      <3>1. id[1] = ending[1]
        BY <1>3
      <3>2. \A e \in events : e[1] # ending[1]
        BY <2>1 DEF EventsOfType
      <3> HIDE DEF id
      <3> QED BY <1>1, <3>1, <3>2 DEF EventsOfType
    <2>3. mission'.status = ending[2]
      BY <1>3 DEF Moves
    <2>4. id \in events'
      BY <1>1
    <2> QED BY <2>2, <2>3, <2>4 DEF Told
  <1>4. CASE type # ending[1]
    <2>1. EventsOfType(ending[1])' = EventsOfType(ending[1])
      <3>1. id[1] # ending[1]
        BY <1>4
      <3> HIDE DEF id
      <3> QED BY <1>1, <3>1 DEF EventsOfType
    <2>2. mission'.status = ending[2] <=> mission.status = ending[2]
      BY <1>4 DEF Moves
    <2>3. events \subseteq events'
      BY <1>1
    <2> QED BY <1>2, <2>1, <2>2, <2>3 DEF Told
  <1> QED BY <1>3, <1>4

\* All that a commit of the mission keeps, whatever it does to the media's locks.
LEMMA SaveKeeps ==
    ASSUME FlightInv, NEW w \in Workers, NEW m \in Mission, NEW type \in EventTypes,
           Save(w, m, type), Moves(type), MediaKept,
           media' \in [Objects -> Asset \cup {NoAsset}],
           FlownByItsPilot', CompletedWithMedia'
    PROVE  FlightInv'
  <1>1. TypeOK'
    BY SaveTypes DEF FlightInv, MediaKept
  <1>2. \A v \in Workers : Snapshot(v)' /\ Holding(v)'
    BY SaveSnapshots, SaveHolding
  <1>3. (\A o \in Objects : Provenance(o)') /\ OneAssetPerUpload' /\ AssetsStored'
    BY SaveProvenance
  <1>4. \A ending \in Endings : Told(ending)'
    BY SaveTold
  <1> QED BY <1>1, <1>2, <1>3, <1>4 DEF FlightInv, Endings

\* The common case: the media are left alone and the mission does not complete.
LEMMA SaveOnly ==
    ASSUME FlightInv, NEW w \in Workers, NEW m \in Mission, NEW type \in EventTypes,
           Save(w, m, type), Moves(type), type # "MissionPilotCompleted",
           FlownByItsPilot', UNCHANGED <<media, storage>>
    PROVE  FlightInv'
  <1>1. MediaKept
    BY DEF MediaKept, Attached
  <1>2. media' \in [Objects -> Asset \cup {NoAsset}]
    BY DEF FlightInv, TypeOK
  <1>3. CompletedWithMedia'
    <2>1. mission'.status = "COMPLETED" <=> mission.status = "COMPLETED"
      BY DEF Moves, Endings
    <2> QED BY <2>1 DEF FlightInv, CompletedWithMedia, Attached
  <1> QED BY <1>1, <1>2, <1>3, SaveKeeps

----------------------------------------------------------------------------
(* The operations that write the mission                                   *)

\* What a transaction that can commit has read is the mission.
LEMMA SeenIsMission ==
    ASSUME FlightInv, NEW w \in Workers, txn[w].step = "open", ~ txn[w].stale
    PROVE  Seen(w) = mission /\ mission.status # "ABSENT"
  BY DEF FlightInv, Snapshot, Active, Seen

LEMMA RequestUsers ==
    ASSUME TypeOK, NEW w \in Workers
    PROVE  txn[w].request.actor \in Users /\ txn[w].request.pilot \in Users
  BY RequestsAssumption, IdTypes

LEMMA AssignKeeps ==
    ASSUME FlightInv, NEW w \in Workers, AssignMission(w)
    PROVE  FlightInv'
  <1> DEFINE m    == [mission EXCEPT !.pilot = txn[w].request.pilot,
                                     !.assignment = "ASSIGNED"]
             type == IF mission.pilot = Nobody THEN "MissionAssigned"
                     ELSE "MissionReassigned"
  <1>1. Seen(w) = mission /\ mission.status # "ABSENT"
    BY SeenIsMission DEF AssignMission, Runs, Save
  <1>2. /\ Save(w, m, type) /\ UNCHANGED <<media, storage>>
        /\ mission.status \notin Over \cup {"IN_PROGRESS"}
    BY <1>1 DEF AssignMission
  <1>3. mission \in Mission /\ txn[w].request.pilot \in UserOrNobody
    BY RequestUsers DEF FlightInv, TypeOK, UserOrNobody
  <1>4. m \in Mission /\ m.status = mission.status /\ m.review = mission.review
        /\ m.reviewedBy = mission.reviewedBy /\ m.completedBy = mission.completedBy
    BY <1>3 DEF Mission, AssignmentStatus
  <1>5. type \in EventTypes
    BY DEF EventTypes
  <1>6. mission' = m
    BY <1>2 DEF Save
  <1>7. Moves(type)
    BY <1>1, <1>2, <1>4, <1>6 DEF Moves, Endings, Over, Begun
  <1>8. FlownByItsPilot'
    BY <1>2, <1>4, <1>6 DEF FlightInv, FlownByItsPilot, Over
  <1> HIDE DEF m
  <1> QED BY <1>2, <1>4, <1>5, <1>7, <1>8, SaveOnly

LEMMA AnswerKeeps ==
    ASSUME FlightInv, NEW w \in Workers, Answer(w)
    PROVE  FlightInv'
  <1>1. UNCHANGED <<mission, media, storage, events, expiries>>
    BY DEF Answer, Complete
  <1>2. txn' = [txn EXCEPT ![w] = Free]
    BY DEF Answer
  <1>3. TypeOK'
    <2>1. records' \in SUBSET (Operations \X Keys)
      BY IdTypes DEF FlightInv, Answer, Complete, TypeOK
    <2> QED BY <1>1, <1>2, <2>1, FreeType DEF FlightInv, TypeOK
  <1>4. ASSUME NEW v \in Workers PROVE txn'[v] = txn[v] \/ txn'[v] = Free
    BY <1>2 DEF FlightInv, TypeOK
  <1>5. Free.step = "free" /\ Free.file = {}
    BY DEF Free
  <1>6. \A v \in Workers : Snapshot(v)' /\ Holding(v)'
    BY <1>1, <1>4, <1>5 DEF FlightInv, Snapshot, Holding, Active, Attached
  <1> QED BY <1>1, <1>3, <1>6 DEF FlightInv, Provenance, Told, EventsOfType, Attached,
             FlownByItsPilot, OneAssetPerUpload, AssetsStored, CompletedWithMedia,
             Record, Endings

LEMMA AcceptKeeps ==
    ASSUME FlightInv, NEW w \in Workers, AcceptMission(w)
    PROVE  FlightInv'
  <1>1. CASE Answer(w)
    BY <1>1, AnswerKeeps
  <1>2. CASE ~ Answer(w)
    <2> DEFINE m == [mission EXCEPT !.status = "READY", !.assignment = "ACCEPTED"]
    <2>1. Seen(w) = mission
      BY <1>2, SeenIsMission DEF AcceptMission, Runs, Save
    <2>2. /\ Save(w, m, "MissionAccepted") /\ UNCHANGED <<media, storage>>
          /\ mission.status = "PLANNED"
      BY <1>2, <2>1 DEF AcceptMission
    <2>3. mission \in Mission
      BY DEF FlightInv, TypeOK
    <2>4. m \in Mission /\ m.status = "READY" /\ m.review = mission.review
          /\ m.reviewedBy = mission.reviewedBy /\ m.completedBy = mission.completedBy
      BY <2>3 DEF Mission, MissionStatus, AssignmentStatus
    <2>5. mission' = m
      BY <2>2 DEF Save
    <2>6. Moves("MissionAccepted")
      BY <2>2, <2>4, <2>5 DEF Moves, Endings, Begun
    <2>7. FlownByItsPilot'
      BY <2>4, <2>5 DEF FlightInv, FlownByItsPilot
    <2>8. "MissionAccepted" \in EventTypes
      BY DEF EventTypes
    <2> HIDE DEF m
    <2> QED BY <2>2, <2>4, <2>6, <2>7, <2>8, SaveOnly
  <1> QED BY <1>1, <1>2

LEMMA RejectKeeps ==
    ASSUME FlightInv, NEW w \in Workers, RejectMission(w)
    PROVE  FlightInv'
  <1> DEFINE m == [mission EXCEPT !.assignment = "REJECTED"]
  <1>1. Seen(w) = mission
    BY SeenIsMission DEF RejectMission, Runs, Save
  <1>2. /\ Save(w, m, "MissionRejected") /\ UNCHANGED <<media, storage>>
        /\ mission.status = "PLANNED"
    BY <1>1 DEF RejectMission
  <1>3. mission \in Mission
    BY DEF FlightInv, TypeOK
  <1>4. m \in Mission /\ m.status = "PLANNED" /\ m.review = mission.review
        /\ m.reviewedBy = mission.reviewedBy /\ m.completedBy = mission.completedBy
    BY <1>2, <1>3 DEF Mission, AssignmentStatus
  <1>5. mission' = m
    BY <1>2 DEF Save
  <1>6. Moves("MissionRejected")
    BY <1>2, <1>4, <1>5 DEF Moves, Endings, Begun
  <1>7. FlownByItsPilot'
    BY <1>4, <1>5 DEF FlightInv, FlownByItsPilot
  <1>8. "MissionRejected" \in EventTypes
    BY DEF EventTypes
  <1> HIDE DEF m
  <1> QED BY <1>2, <1>4, <1>6, <1>7, <1>8, SaveOnly

LEMMA StartKeeps ==
    ASSUME FlightInv, NEW w \in Workers, StartMission(w)
    PROVE  FlightInv'
  <1> DEFINE m == [mission EXCEPT !.status = "IN_PROGRESS", !.startedBy = Actor(w)]
  <1>1. Seen(w) = mission
    BY SeenIsMission DEF StartMission, Runs, Save
  <1>2. /\ Save(w, m, "MissionStarted") /\ UNCHANGED <<media, storage>>
        /\ mission.status = "READY" /\ mission.assignment = "ACCEPTED"
        /\ mission.pilot = Actor(w)
    BY <1>1 DEF StartMission
  <1>3. mission \in Mission /\ Actor(w) \in Users /\ Actor(w) # Nobody
    BY RequestUsers, RequestsAssumption DEF FlightInv, TypeOK, Actor
  <1>4. m \in Mission /\ m.status = "IN_PROGRESS" /\ m.review = mission.review
        /\ m.reviewedBy = mission.reviewedBy /\ m.completedBy = mission.completedBy
        /\ m.assignment = "ACCEPTED" /\ m.pilot = Actor(w) /\ m.startedBy = Actor(w)
    BY <1>2, <1>3 DEF Mission, MissionStatus, UserOrNobody
  <1>5. mission' = m
    BY <1>2 DEF Save
  <1>6. Moves("MissionStarted")
    BY <1>2, <1>4, <1>5 DEF Moves, Endings, Begun
  <1>7. FlownByItsPilot'
    BY <1>3, <1>4, <1>5 DEF FlightInv, FlownByItsPilot
  <1>8. "MissionStarted" \in EventTypes
    BY DEF EventTypes
  <1> HIDE DEF m
  <1> QED BY <1>2, <1>4, <1>6, <1>7, <1>8, SaveOnly

LEMMA ReviewCloseKeeps ==
    ASSUME FlightInv, NEW w \in Workers, ReviewCloseMission(w)
    PROVE  FlightInv'
  <1> DEFINE m == [mission EXCEPT !.review = "REVIEWED_CLOSED", !.reviewedBy = Actor(w)]
  <1>1. Seen(w) = mission
    BY SeenIsMission DEF ReviewCloseMission, Runs, Save
  <1>2. /\ Save(w, m, "MissionReviewedClosed") /\ UNCHANGED <<media, storage>>
        /\ mission.status = "COMPLETED" /\ mission.pilot # Actor(w)
    BY <1>1 DEF ReviewCloseMission
  <1>3. mission \in Mission /\ Actor(w) \in Users /\ Actor(w) # Nobody
    BY RequestUsers, RequestsAssumption DEF FlightInv, TypeOK, Actor
  <1>4. m \in Mission /\ m.status = "COMPLETED" /\ m.reviewedBy = Actor(w)
        /\ m.completedBy = mission.completedBy /\ m.assignment = mission.assignment
        /\ m.pilot = mission.pilot /\ m.startedBy = mission.startedBy
    BY <1>2, <1>3 DEF Mission, ReviewStatus, UserOrNobody
  <1>5. mission' = m
    BY <1>2 DEF Save
  <1>6. Moves("MissionReviewedClosed")
    BY <1>2, <1>4, <1>5 DEF Moves, Endings, Begun
  <1>7. FlownByItsPilot'
    BY <1>2, <1>3, <1>4, <1>5 DEF FlightInv, FlownByItsPilot
  <1>8. "MissionReviewedClosed" \in EventTypes
    BY DEF EventTypes
  <1> HIDE DEF m
  <1> QED BY <1>2, <1>4, <1>6, <1>7, <1>8, SaveOnly

LEMMA CancelKeeps ==
    ASSUME FlightInv, NEW w \in Workers, CancelMission(w)
    PROVE  FlightInv'
  <1> DEFINE m == [mission EXCEPT !.status = "CANCELLED", !.review = "NOT_READY"]
  <1>1. Seen(w) = mission
    BY SeenIsMission DEF CancelMission, Runs, Save
  <1>2. /\ Save(w, m, "MissionCancelled") /\ UNCHANGED <<media, storage>>
        /\ mission.status \notin Over \cup {"IN_PROGRESS"}
    BY <1>1 DEF CancelMission
  <1>3. mission \in Mission
    BY DEF FlightInv, TypeOK
  <1>4. m \in Mission /\ m.status = "CANCELLED" /\ m.review = "NOT_READY"
    BY <1>3 DEF Mission, MissionStatus, ReviewStatus
  <1>5. mission' = m
    BY <1>2 DEF Save
  <1>6. Moves("MissionCancelled")
    BY <1>2, <1>4, <1>5 DEF Moves, Endings, Over, Begun
  <1>7. FlownByItsPilot'
    BY <1>4, <1>5 DEF FlownByItsPilot
  <1>8. "MissionCancelled" \in EventTypes
    BY DEF EventTypes
  <1> HIDE DEF m
  <1> QED BY <1>2, <1>4, <1>6, <1>7, <1>8, SaveOnly

LEMMA FailKeeps ==
    ASSUME FlightInv, NEW w \in Workers, FailMission(w)
    PROVE  FlightInv'
  <1> DEFINE m == [mission EXCEPT !.status = "FAILED", !.review = "NOT_READY"]
  <1>1. Seen(w) = mission
    BY SeenIsMission DEF FailMission, Runs, Save
  <1>2. /\ Save(w, m, "MissionFailed") /\ UNCHANGED <<media, storage>>
        /\ mission.status \in {"READY", "IN_PROGRESS"}
    BY <1>1 DEF FailMission
  <1>3. mission \in Mission
    BY DEF FlightInv, TypeOK
  <1>4. m \in Mission /\ m.status = "FAILED" /\ m.review = "NOT_READY"
        /\ m.startedBy = mission.startedBy
    BY <1>3 DEF Mission, MissionStatus, ReviewStatus
  <1>5. mission' = m
    BY <1>2 DEF Save
  <1>6. Moves("MissionFailed")
    BY <1>2, <1>4, <1>5 DEF Moves, Endings, Begun
  <1>7. FlownByItsPilot'
    BY <1>4, <1>5 DEF FlownByItsPilot
  <1>8. "MissionFailed" \in EventTypes
    BY DEF EventTypes
  <1> HIDE DEF m
  <1> QED BY <1>2, <1>4, <1>6, <1>7, <1>8, SaveOnly

\* The lock of the completion: every asset keeps its uploader, and those of the
\* snapshot are locked.
LEMMA LockKeepsMedia ==
    ASSUME TypeOK, NEW S \in SUBSET Attached,
           media' = [o \in Objects |-> IF o \in S THEN [media[o] EXCEPT !.locked = TRUE]
                                       ELSE media[o]],
           UNCHANGED storage
    PROVE  /\ MediaKept
           /\ media' \in [Objects -> Asset \cup {NoAsset}]
           /\ \A o \in S : media'[o].locked
  <1>1. \A o \in S : o \in Objects /\ media[o] \in Asset
    BY DEF Attached, TypeOK
  <1>2. \A o \in S : media'[o] = [media[o] EXCEPT !.locked = TRUE]
    BY <1>1
  <1>3. \A o \in S : /\ media'[o] \in Asset /\ media'[o].by = media[o].by
                     /\ media'[o].locked
    BY <1>1, <1>2, LockedAsset
  <1>4. \A o \in Objects \ S : media'[o] = media[o]
    OBVIOUS
  <1>5. media' \in [Objects -> Asset \cup {NoAsset}]
    BY <1>3, <1>4 DEF TypeOK
  <1>6. Attached' = Attached
    BY <1>3, <1>4, NoAssetIsNoAsset DEF Attached
  <1>7. \A o \in Attached : media'[o].by = media[o].by
    BY <1>3, <1>4 DEF Attached
  <1> QED BY <1>3, <1>5, <1>6, <1>7 DEF MediaKept

LEMMA CompleteKeeps ==
    ASSUME FlightInv, NEW w \in Workers, CompleteMission(w)
    PROVE  FlightInv'
  <1>1. CASE Answer(w)
    BY <1>1, AnswerKeeps
  <1>2. CASE ~ Answer(w)
    <2> DEFINE m == [mission EXCEPT !.status = "COMPLETED", !.review = "PENDING_REVIEW",
                                    !.completedBy = Actor(w)]
    <2>1. Seen(w) = mission
      BY <1>2, SeenIsMission DEF CompleteMission, Runs, Save
    <2>2. /\ Save(w, m, "MissionPilotCompleted")
          /\ mission.status = "IN_PROGRESS" /\ mission.pilot = Actor(w)
          /\ txn[w].assets # {} /\ UNCHANGED storage
          /\ media' = [o \in Objects |-> IF o \in txn[w].assets
                                         THEN [media[o] EXCEPT !.locked = TRUE]
                                         ELSE media[o]]
      BY <1>2, <2>1 DEF CompleteMission
    <2>3. mission \in Mission /\ Actor(w) \in Users
      BY RequestUsers DEF FlightInv, TypeOK, Actor
    <2>4. m \in Mission /\ m.status = "COMPLETED" /\ m.review = "PENDING_REVIEW"
          /\ m.completedBy = Actor(w) /\ m.assignment = mission.assignment
          /\ m.pilot = mission.pilot /\ m.startedBy = mission.startedBy
      BY <2>3 DEF Mission, MissionStatus, ReviewStatus, UserOrNobody
    <2>5. mission' = m
      BY <2>2 DEF Save
    <2>6. Moves("MissionPilotCompleted")
      BY <2>2, <2>4, <2>5 DEF Moves, Endings, Begun
    <2>7. FlownByItsPilot'
      BY <2>2, <2>4, <2>5 DEF FlightInv, FlownByItsPilot
    <2>8. txn[w].assets \in SUBSET Attached
      BY <1>2 DEF FlightInv, Snapshot, Active, CompleteMission, Runs
    <2>9. /\ MediaKept
          /\ media' \in [Objects -> Asset \cup {NoAsset}]
          /\ \A o \in txn[w].assets : media'[o].locked
      BY <2>2, <2>8, LockKeepsMedia DEF FlightInv
    <2>10. CompletedWithMedia'
      BY <2>2, <2>4, <2>5, <2>8, <2>9 DEF CompletedWithMedia, MediaKept
    <2>11. "MissionPilotCompleted" \in EventTypes
      BY DEF EventTypes
    <2> HIDE DEF m
    <2> QED BY <2>2, <2>4, <2>6, <2>7, <2>9, <2>10, <2>11, SaveKeeps
  <1> QED BY <1>1, <1>2

----------------------------------------------------------------------------
(* Uploads                                                                 *)

\* What only looks at the mission, the media and the events is kept by a step
\* that leaves them alone, as long as no attached file leaves the store.
LEMMA MediaUntouched ==
    ASSUME FlightInv, UNCHANGED <<mission, media, events>>, Attached \subseteq storage'
    PROVE  /\ \A o \in Objects : Provenance(o)'
           /\ \A ending \in Endings : Told(ending)'
           /\ FlownByItsPilot' /\ OneAssetPerUpload' /\ AssetsStored'
           /\ CompletedWithMedia'
  <1>1. Attached' = Attached
    BY DEF Attached
  <1>2. \A o \in Objects : Provenance(o)'
    BY <1>1 DEF FlightInv, Provenance
  <1>3. \A ending \in Endings : Told(ending)'
    BY DEF FlightInv, Told, EventsOfType
  <1>4. FlownByItsPilot' /\ OneAssetPerUpload' /\ AssetsStored' /\ CompletedWithMedia'
    BY <1>1 DEF FlightInv, FlownByItsPilot, OneAssetPerUpload, AssetsStored,
                CompletedWithMedia, Record
  <1> QED BY <1>2, <1>3, <1>4

LEMMA StoreKeeps ==
    ASSUME FlightInv, NEW w \in Workers, StoreMedia(w)
    PROVE  FlightInv'
  <1>1. PICK o \in Objects \ (storage \cup Attached) :
           /\ storage' = storage \cup {o}
           /\ txn' = [txn EXCEPT ![w].step = "stored", ![w].file = {o}]
    BY DEF StoreMedia
  <1>2. UNCHANGED <<mission, media, records, events, expiries>> /\ Attached' = Attached
    BY DEF StoreMedia, Attached
  <1>3. /\ txn[w].step = "open" /\ txn[w].request.op = "upload"
        /\ txn[w].seen.pilot = txn[w].request.actor
        /\ txn[w].seen.status = "IN_PROGRESS"
    BY DEF StoreMedia, Runs, Seen, Actor
  <1>4. /\ txn'[w].step = "stored" /\ txn'[w].file = {o}
        /\ txn'[w].request = txn[w].request /\ txn'[w].seen = txn[w].seen
        /\ txn'[w].stale = txn[w].stale /\ txn'[w].assets = txn[w].assets
        /\ txn'[w] \in Txn
    BY <1>1 DEF FlightInv, TypeOK, Txn
  <1>5. \A v \in Workers : v # w => txn'[v] = txn[v]
    BY <1>1 DEF FlightInv, TypeOK
  <1>6. TypeOK'
    BY <1>1, <1>2, <1>4, <1>5 DEF FlightInv, TypeOK
  <1>7. ASSUME NEW v \in Workers PROVE Snapshot(v)'
    BY <1>2, <1>3, <1>4, <1>5 DEF FlightInv, Snapshot, Active
  <1>8. ASSUME NEW v \in Workers PROVE Holding(v)'
    <2>1. \A u \in Workers : u # w => txn[u].file \cap {o} = {}
      BY <1>1 DEF FlightInv, Holding
    <2>2. CASE v = w
      <3>1. \A u \in Workers : u # w => txn'[u].file \cap txn'[w].file = {}
        BY <1>4, <1>5, <2>1
      <3> QED BY <1>1, <1>2, <1>3, <1>4, <2>2, <3>1 DEF Holding
    <2>3. CASE v # w
      <3>1. Holding(v)
        BY DEF FlightInv
      <3>2. txn'[v] = txn[v]
        BY <1>5, <2>3
      <3>3. \A u \in Workers : u # v => txn'[u].file \cap txn'[v].file = {}
        BY <1>4, <1>5, <2>1, <2>3, <3>1 DEF Holding
      <3> QED BY <1>1, <1>2, <3>1, <3>2, <3>3 DEF Holding
    <2> QED BY <2>2, <2>3
  <1>9. Attached \subseteq storage'
    BY <1>1 DEF FlightInv, AssetsStored
  <1> QED BY <1>2, <1>6, <1>7, <1>8, <1>9, MediaUntouched DEF FlightInv, Endings

LEMMA PersistFailsKeeps ==
    ASSUME FlightInv, NEW w \in Workers, PersistFails(w)
    PROVE  FlightInv'
  <1>1. /\ UNCHANGED <<mission, media, records, events, expiries>>
        /\ txn' = [txn EXCEPT ![w] = Free]
        /\ storage' = storage \ txn[w].file \/ storage' = storage
    BY DEF PersistFails
  <1>2. Attached' = Attached
    BY <1>1 DEF Attached
  <1>3. txn'[w] = Free /\ \A v \in Workers : v # w => txn'[v] = txn[v]
    BY <1>1 DEF FlightInv, TypeOK
  <1>4. TypeOK'
    BY <1>1, FreeType DEF FlightInv, TypeOK
  <1>5. Free.step = "free" /\ Free.file = {}
    BY DEF Free
  <1>6. ASSUME NEW v \in Workers PROVE Snapshot(v)'
    BY <1>1, <1>2, <1>3, <1>5 DEF FlightInv, Snapshot, Active
  <1>7. ASSUME NEW v \in Workers PROVE Holding(v)'
    <2>1. CASE v = w
      BY <1>3, <1>5, <2>1 DEF Holding
    <2>2. CASE v # w
      <3>1. Holding(v)
        BY DEF FlightInv
      <3>2. txn'[v] = txn[v] /\ txn[v].file \cap txn[w].file = {}
        BY <1>3, <2>2, <3>1 DEF Holding
      <3>3. \A u \in Workers : u # v => txn'[u].file \cap txn'[v].file = {}
        BY <1>3, <1>5, <3>1, <3>2 DEF Holding
      <3>4. txn'[v].file \subseteq storage'
        BY <1>1, <3>1, <3>2 DEF Holding
      <3> QED BY <1>1, <1>2, <3>1, <3>2, <3>3, <3>4 DEF Holding
    <2> QED BY <2>1, <2>2
  <1>8. Attached \subseteq storage'
    BY <1>1 DEF FlightInv, AssetsStored, Holding
  <1> QED BY <1>1, <1>4, <1>6, <1>7, <1>8, MediaUntouched DEF FlightInv, Endings

LEMMA PersistKeeps ==
    ASSUME FlightInv, NEW w \in Workers, PersistMedia(w)
    PROVE  FlightInv'
  <1> DEFINE q     == txn[w].request
             asset == [uploaded |-> TRUE, by |-> q, locked |-> FALSE]
             id    == <<"MissionMediaUploaded", q.key>>
  <1>1. /\ txn[w].step = "stored" /\ id \notin events
        /\ media' = [o \in Objects |-> IF o \in txn[w].file THEN asset ELSE media[o]]
        /\ events' = events \cup {id}
        /\ txn' = [txn EXCEPT ![w] = Free]
        /\ records' = records \cup {Record(q)}
        /\ UNCHANGED <<mission, storage, expiries>>
    BY DEF PersistMedia, Complete
  <1>2. Holding(w) /\ Snapshot(w)
    BY DEF FlightInv
  <1>3. /\ q.op = "upload" /\ q.actor = mission.startedBy /\ mission.status \in Begun
        /\ txn[w].file \subseteq storage /\ txn[w].file \cap Attached = {}
    BY <1>1, <1>2 DEF Holding, Snapshot, Active
  <1>4. PICK f \in Objects : txn[w].file = {f}
    BY <1>1, <1>2 DEF Holding
  <1>5. q \in Requests /\ asset \in Asset /\ asset # NoAsset
    BY IdTypes, NewAsset, NoAssetIsNoAsset DEF FlightInv
  <1>6. asset.by = q /\ ~ asset.locked /\ id[1] = "MissionMediaUploaded"
    OBVIOUS
  <1> HIDE DEF asset
  <1>7. media'[f] = asset /\ \A o \in Objects \ {f} : media'[o] = media[o]
    BY <1>1, <1>4
  <1>8. Attached' = Attached \cup {f}
    BY <1>5, <1>7 DEF Attached
  <1>9. txn'[w] = Free /\ \A v \in Workers : v # w => txn'[v] = txn[v]
    BY <1>1 DEF FlightInv, TypeOK
  <1>10. Free.step = "free" /\ Free.file = {}
    BY DEF Free
  <1>11. TypeOK'
    <2>1. media' \in [Objects -> Asset \cup {NoAsset}]
      BY <1>1, <1>5 DEF FlightInv, TypeOK
    <2>2. id \in EventTypes \X Keys /\ Record(q) \in Operations \X Keys
      BY IdTypes DEF FlightInv, EventTypes
    <2> QED BY <1>1, <2>1, <2>2, FreeType DEF FlightInv, TypeOK
  <1>12. ASSUME NEW v \in Workers PROVE Snapshot(v)'
    BY <1>1, <1>8, <1>9, <1>10 DEF FlightInv, Snapshot, Active
  <1>13. ASSUME NEW v \in Workers PROVE Holding(v)'
    <2>1. CASE v = w
      BY <1>9, <1>10, <2>1 DEF Holding
    <2>2. CASE v # w
      <3>1. Holding(v)
        BY DEF FlightInv
      <3>2. txn'[v] = txn[v] /\ txn[v].file \cap {f} = {}
        BY <1>4, <1>9, <2>2, <3>1 DEF Holding
      <3>3. \A u \in Workers : u # v => txn'[u].file \cap txn'[v].file = {}
        BY <1>9, <1>10, <3>1, <3>2 DEF Holding
      <3> QED BY <1>1, <1>8, <3>1, <3>2, <3>3 DEF Holding
    <2> QED BY <2>1, <2>2
  <1>14. ASSUME NEW o \in Objects PROVE Provenance(o)'
    <2>1. CASE o = f
      BY <1>1, <1>3, <1>6, <1>7, <2>1 DEF Provenance
    <2>2. CASE o # f
      <3>1. Provenance(o)
        BY DEF FlightInv
      <3>2. media'[o] = media[o] /\ (o \in Attached' <=> o \in Attached)
        BY <1>7, <1>8, <2>2
      <3> QED BY <1>1, <3>1, <3>2 DEF Provenance
    <2> QED BY <2>1, <2>2
  <1>15. \A ending \in Endings : Told(ending)'
    <2>1. ASSUME NEW ending \in Endings PROVE Told(ending)'
      <3>1. EventsOfType(ending[1])' = EventsOfType(ending[1])
        <4>1. id[1] # ending[1]
          BY <1>6 DEF Endings
        <4> HIDE DEF id
        <4> QED BY <1>1, <4>1 DEF EventsOfType
      <3>2. Told(ending) /\ events \subseteq events'
        BY <1>1 DEF FlightInv
      <3> QED BY <1>1, <3>1, <3>2 DEF Told
    <2> QED BY <2>1
  <1>16. FlownByItsPilot'
    BY <1>1 DEF FlightInv, FlownByItsPilot
  <1>17. OneAssetPerUpload'
    <2>1. \A o \in Attached : media[o].by.op = "upload" /\ media[o].by.key # q.key
      BY <1>1 DEF FlightInv, Provenance, Attached
    <2>2. \A o \in Attached : o # f /\ media'[o] = media[o]
      BY <1>3, <1>4, <1>7 DEF Attached
    <2> QED BY <1>6, <1>7, <1>8, <2>1, <2>2 DEF FlightInv, OneAssetPerUpload, Record
  <1>18. AssetsStored'
    BY <1>1, <1>3, <1>4, <1>8 DEF FlightInv, AssetsStored
  <1>19. CompletedWithMedia'
    <2>1. \A o \in Attached : o # f /\ media'[o] = media[o]
      BY <1>3, <1>4, <1>7 DEF Attached
    <2> QED BY <1>1, <1>6, <1>7, <1>8, <2>1 DEF FlightInv, CompletedWithMedia
  <1> QED BY <1>11, <1>12, <1>13, <1>14, <1>15, <1>16, <1>17, <1>18, <1>19
          DEF FlightInv, Endings

----------------------------------------------------------------------------
(* Creation, and the steps of the environment                              *)

LEMMA CreateKeeps ==
    ASSUME FlightInv, NEW pilot \in UserOrNobody, CreateMission(pilot)
    PROVE  FlightInv'
  <1>1. /\ mission.status = "ABSENT"
        /\ mission' = [NoMission EXCEPT !.status = "PLANNED", !.pilot = pilot,
                          !.assignment = IF pilot = Nobody THEN "UNASSIGNED"
                                         ELSE "ASSIGNED"]
        /\ events' = {<<"MissionRequested", CreationKey>>}
        /\ UNCHANGED <<media, storage, records, txn, expiries>>
    BY DEF CreateMission
  <1>2. mission' \in Mission /\ mission'.status = "PLANNED" /\ mission'.review = "NOT_READY"
    BY <1>1 DEF NoMission, Mission, MissionStatus, AssignmentStatus, ReviewStatus,
                UserOrNobody
  <1>3. \A w \in Workers : ~ Active(w)
    BY <1>1 DEF FlightInv, Snapshot
  <1>4. Attached = {} /\ Attached' = {}
    BY <1>1 DEF FlightInv, Provenance, Begun, Attached
  <1>5. TypeOK'
    <2>1. <<"MissionRequested", CreationKey>> \in EventTypes \X Keys
      BY DEF EventTypes, Keys
    <2> QED BY <1>1, <1>2, <2>1 DEF FlightInv, TypeOK
  <1>6. ASSUME NEW w \in Workers PROVE Snapshot(w)' /\ Holding(w)'
    BY <1>1, <1>3, <1>4 DEF FlightInv, Snapshot, Holding, Active
  <1>7. (\A o \in Objects : Provenance(o)') /\ OneAssetPerUpload' /\ AssetsStored'
    BY <1>4 DEF Provenance, OneAssetPerUpload, AssetsStored
  <1>8. \A ending \in Endings : Told(ending)'
    BY <1>1, <1>2 DEF Told, Endings, EventsOfType
  <1>9. FlownByItsPilot' /\ CompletedWithMedia'
    BY <1>2, <1>4 DEF FlownByItsPilot, CompletedWithMedia
  <1> QED BY <1>5, <1>6, <1>7, <1>8, <1>9 DEF FlightInv, Endings

\* A transaction that begins or ends without effect holds no file.
LEMMA TxnKeeps ==
    ASSUME FlightInv, NEW w \in Workers, NEW t \in Txn,
           txn' = [txn EXCEPT ![w] = t],
           UNCHANGED <<mission, media, storage, records, events, expiries>>,
           t.file = {}, t.step # "stored",
           t.step # "free" => /\ t.seen = mission
                              /\ t.assets \subseteq Attached
                              /\ mission.status # "ABSENT"
    PROVE  FlightInv'
  <1>1. txn'[w] = t /\ \A v \in Workers : v # w => txn'[v] = txn[v]
    BY DEF FlightInv, TypeOK
  <1>2. TypeOK'
    BY DEF FlightInv, TypeOK
  <1>3. Attached' = Attached
    BY DEF Attached
  <1>4. ASSUME NEW v \in Workers PROVE Snapshot(v)'
    BY <1>1, <1>3 DEF FlightInv, Snapshot, Active, FlownByItsPilot, Begun
  <1>5. ASSUME NEW v \in Workers PROVE Holding(v)'
    BY <1>1, <1>3 DEF FlightInv, Holding
  <1>6. Attached \subseteq storage'
    BY DEF FlightInv, AssetsStored
  <1> QED BY <1>2, <1>4, <1>5, <1>6, MediaUntouched DEF FlightInv, Endings

LEMMA BeginKeeps ==
    ASSUME FlightInv, NEW w \in Workers, NEW q \in Requests, Begin(w, q)
    PROVE  FlightInv'
  <1> DEFINE t == [Free EXCEPT !.step = "open", !.request = q, !.seen = mission,
                               !.assets = Attached]
  <1>1. /\ txn' = [txn EXCEPT ![w] = t] /\ mission.status # "ABSENT"
        /\ UNCHANGED <<mission, media, storage, records, events, expiries>>
    BY DEF Begin
  <1>2. mission \in Mission /\ Attached \in SUBSET Objects
    BY DEF FlightInv, TypeOK, Attached
  <1>3. t \in Txn /\ t.file = {} /\ t.step = "open" /\ t.seen = mission
        /\ t.assets = Attached
    BY <1>2, FreeType DEF Free, Txn
  <1> HIDE DEF t
  <1> QED BY <1>1, <1>3, TxnKeeps

LEMMA AbortKeeps ==
    ASSUME FlightInv, NEW w \in Workers, Abort(w)
    PROVE  FlightInv'
  <1>1. Free.file = {} /\ Free.step = "free"
    BY DEF Free
  <1> QED BY <1>1, FreeType, TxnKeeps DEF Abort

LEMMA ExpireKeeps ==
    ASSUME FlightInv, ExpireRecord
    PROVE  FlightInv'
  <1>1. /\ UNCHANGED <<mission, media, storage, events, txn>>
        /\ records' \subseteq records /\ expiries < MaxExpiries
        /\ expiries' = expiries + 1
    BY DEF ExpireRecord
  <1>2. TypeOK'
    BY <1>1, RequestsAssumption DEF FlightInv, TypeOK
  <1>3. Attached' = Attached
    BY <1>1 DEF Attached
  <1>4. \A w \in Workers : Snapshot(w)' /\ Holding(w)'
    BY <1>1, <1>3 DEF FlightInv, Snapshot, Holding, Active
  <1>5. Attached \subseteq storage'
    BY <1>1 DEF FlightInv, AssetsStored
  <1> QED BY <1>1, <1>2, <1>4, <1>5, MediaUntouched DEF FlightInv, Endings

LEMMA StutterKeeps ==
    ASSUME FlightInv, UNCHANGED vars
    PROVE  FlightInv'
  <1>1. UNCHANGED <<mission, media, storage, records, events, txn, expiries>>
    BY DEF vars
  <1>2. TypeOK'
    BY <1>1 DEF FlightInv, TypeOK
  <1>3. Attached' = Attached
    BY <1>1 DEF Attached
  <1>4. \A w \in Workers : Snapshot(w)' /\ Holding(w)'
    BY <1>1, <1>3 DEF FlightInv, Snapshot, Holding, Active
  <1>5. Attached \subseteq storage'
    BY <1>1 DEF FlightInv, AssetsStored
  <1> QED BY <1>1, <1>2, <1>4, <1>5, MediaUntouched DEF FlightInv, Endings

----------------------------------------------------------------------------
(* The theorems                                                            *)

LEMMA InitFlight == Init => FlightInv
  <1> SUFFICES ASSUME Init PROVE FlightInv
    OBVIOUS
  <1>1. Attached = {}
    BY DEF Init, Attached
  <1>2. TypeOK
    BY FreeType, RequestsAssumption DEF Init, TypeOK, NoMission, Mission,
       MissionStatus, AssignmentStatus, ReviewStatus, UserOrNobody
  <1>3. \A w \in Workers : Snapshot(w) /\ Holding(w)
    BY <1>1 DEF Init, Snapshot, Holding, Active, Free
  <1>4. (\A o \in Objects : Provenance(o)) /\ OneAssetPerUpload /\ AssetsStored
    BY <1>1 DEF Provenance, OneAssetPerUpload, AssetsStored
  <1>5. mission.status = "ABSENT" /\ mission.review = "NOT_READY" /\ events = {}
    BY DEF Init, NoMission
  <1>6. \A ending \in Endings : Told(ending)
    BY <1>5 DEF Told, Endings, EventsOfType
  <1>7. FlownByItsPilot /\ CompletedWithMedia
    BY <1>1, <1>5 DEF FlownByItsPilot, CompletedWithMedia
  <1> QED BY <1>2, <1>3, <1>4, <1>6, <1>7 DEF FlightInv

LEMMA NextFlight == FlightInv /\ [Next]_vars => FlightInv'
  <1> SUFFICES ASSUME FlightInv, [Next]_vars PROVE FlightInv'
    OBVIOUS
  <1>1. ASSUME NEW pilot \in UserOrNobody, CreateMission(pilot) PROVE FlightInv'
    BY <1>1, CreateKeeps
  <1>2. ASSUME NEW w \in Workers, NEW q \in Requests, Begin(w, q) PROVE FlightInv'
    BY <1>2, BeginKeeps
  <1>3. ASSUME NEW w \in Workers, Operation(w) PROVE FlightInv'
    BY <1>3, AssignKeeps, AcceptKeeps, RejectKeeps, StartKeeps, StoreKeeps, PersistKeeps,
       PersistFailsKeeps, CompleteKeeps, ReviewCloseKeeps, CancelKeeps, FailKeeps
       DEF Operation
  <1>4. ASSUME NEW w \in Workers, Abort(w) PROVE FlightInv'
    BY <1>4, AbortKeeps
  <1>5. CASE ExpireRecord
    BY <1>5, ExpireKeeps
  <1>6. CASE UNCHANGED vars
    BY <1>6, StutterKeeps
  <1> QED BY <1>1, <1>2, <1>3, <1>4, <1>5, <1>6 DEF Next

\* The invariant from which the rest follows: snapshots, files, provenance, events.
THEOREM FlightInvariant == Spec => []FlightInv
  BY InitFlight, NextFlight, PTL DEF Spec

\* Documents, files and transactions keep their shape, whatever requests are sent.
THEOREM TypeCorrect == Spec => []TypeOK
  <1>1. FlightInv => TypeOK
    BY DEF FlightInv
  <1> QED BY <1>1, FlightInvariant, PTL

\* However many transactions race for a mission, the pilot who starts it completes it
\* and somebody else reviews it.
THEOREM FlownByOnePilot == Spec => []FlownByItsPilot
  <1>1. FlightInv => FlownByItsPilot
    BY DEF FlightInv
  <1> QED BY <1>1, FlightInvariant, PTL

\* The outbox tells the outcome of the mission exactly once, for any set of requests.
THEOREM OutcomeToldOnce == Spec => []OneEventPerOutcome
  <1>1. ASSUME FlightInv PROVE OneEventPerOutcome
    <2>1. \A ending \in Endings :
             Cardinality(EventsOfType(ending[1])) =
                IF mission.status = ending[2] THEN 1 ELSE 0
      <3>1. ASSUME NEW ending \in Endings, mission.status = ending[2]
            PROVE  Cardinality(EventsOfType(ending[1])) = 1
        <4>1. PICK id \in events : EventsOfType(ending[1]) = {id}
          BY <1>1, <3>1 DEF FlightInv, Told
        <4> QED BY <4>1, FS_Singleton
      <3>2. ASSUME NEW ending \in Endings, mission.status # ending[2]
            PROVE  Cardinality(EventsOfType(ending[1])) = 0
        <4>1. EventsOfType(ending[1]) = {}
          BY <1>1, <3>2 DEF FlightInv, Told
        <4> QED BY <4>1, FS_EmptySet
      <3> QED BY <3>1, <3>2
    <2> QED BY <2>1 DEF OneEventPerOutcome, Endings
  <1> QED BY <1>1, FlightInvariant, PTL

\* Every asset was uploaded by the pilot of the flight, though uploads check the
\* mission long before they commit and never write it.
THEOREM MediaByThePilot == Spec => []MediaByPilot
  <1>1. FlightInv => MediaByPilot
    BY DEF FlightInv, MediaByPilot, Provenance, Attached
  <1> QED BY <1>1, FlightInvariant, PTL

\* An upload resent, even after its idempotency record expired, attaches one asset.
THEOREM UploadOnce == Spec => []OneAssetPerUpload
  <1>1. FlightInv => OneAssetPerUpload
    BY DEF FlightInv
  <1> QED BY <1>1, FlightInvariant, PTL

\* The compensation of failed uploads never deletes the file of an attached asset.
THEOREM CompensationSafe == Spec => []AssetsStored
  <1>1. FlightInv => AssetsStored
    BY DEF FlightInv
  <1> QED BY <1>1, FlightInvariant, PTL

\* A mission is completed exactly if there are locked assets to show for it.
THEOREM CompletionHasMedia == Spec => []CompletedWithMedia
  <1>1. FlightInv => CompletedWithMedia
    BY DEF FlightInv
  <1> QED BY <1>1, FlightInvariant, PTL

\* What MediaSettles says of one step.
MediaStep ==
    \A o \in Objects :
        /\ o \in Attached =>
              /\ media'[o] # NoAsset /\ media'[o].by = media[o].by
              /\ media[o].locked => media'[o].locked
        /\ (o \notin Attached /\ media'[o] # NoAsset /\ mission.status \in Over) =>
              \E w \in Workers : txn[w].stale /\ txn[w].file = {o}

LEMMA MediaUnchangedSettles ==
    ASSUME UNCHANGED media
    PROVE  MediaStep
  BY DEF MediaStep, Attached

LEMMA LockSettles ==
    ASSUME FlightInv, NEW w \in Workers, CompleteMission(w)
    PROVE  MediaStep
  <1>1. CASE UNCHANGED media
    BY <1>1, MediaUnchangedSettles
  <1>2. CASE media' # media
    <2>1. /\ txn[w].step = "open"
          /\ media' = [o \in Objects |-> IF o \in txn[w].assets
                                         THEN [media[o] EXCEPT !.locked = TRUE]
                                         ELSE media[o]]
          /\ UNCHANGED storage
      BY <1>2 DEF CompleteMission, Answer, Runs
    <2>2. txn[w].assets \in SUBSET Attached
      BY <2>1 DEF FlightInv, Snapshot, Active
    <2>3. /\ MediaKept
          /\ \A o \in txn[w].assets : media'[o].locked
      BY <2>1, <2>2, LockKeepsMedia DEF FlightInv
    <2>4. \A o \in Objects \ txn[w].assets : media'[o] = media[o]
      BY <2>1
    <2> QED BY <2>3, <2>4 DEF MediaStep, MediaKept, Attached
  <1> QED BY <1>1, <1>2

LEMMA PersistSettles ==
    ASSUME FlightInv, NEW w \in Workers, PersistMedia(w)
    PROVE  MediaStep
  <1>1. /\ txn[w].step = "stored"
        /\ \A o \in Objects \ txn[w].file : media'[o] = media[o]
    BY DEF PersistMedia
  <1>2. /\ txn[w].file \cap Attached = {} /\ txn[w].seen.status = "IN_PROGRESS"
        /\ \E o \in Objects : txn[w].file = {o}
    BY <1>1 DEF FlightInv, Holding
  <1>3. mission.status \in Over => txn[w].stale
    BY <1>1, <1>2 DEF FlightInv, Snapshot, Active, Over
  <1>4. \A o \in Objects : o \notin Attached <=> media[o] = NoAsset
    BY DEF Attached
  <1> QED BY <1>1, <1>2, <1>3, <1>4 DEF MediaStep

\* Nothing attached is ever detached, replaced or unlocked, and after the end of the
\* mission only an upload that began before it can still attach a file.
THEOREM MediaSettled == Spec => MediaSettles
  <1>1. ASSUME FlightInv, [Next]_vars PROVE MediaStep \/ UNCHANGED vars
    <2>1. ASSUME NEW pilot \in UserOrNobody, CreateMission(pilot) PROVE MediaStep
      BY <2>1, MediaUnchangedSettles DEF CreateMission
    <2>2. ASSUME NEW w \in Workers, NEW q \in Requests, Begin(w, q) PROVE MediaStep
      BY <2>2, MediaUnchangedSettles DEF Begin
    <2>3. ASSUME NEW w \in Workers, Operation(w) PROVE MediaStep
      <3>1. CASE CompleteMission(w)
        BY <1>1, <3>1, LockSettles
      <3>2. CASE PersistMedia(w)
        BY <1>1, <3>2, PersistSettles
      <3>3. CASE ~ CompleteMission(w) /\ ~ PersistMedia(w)
        <4>1. UNCHANGED media
          BY <2>3, <3>3 DEF Operation, AssignMission, AcceptMission, Answer, RejectMission,
             StartMission, StoreMedia, PersistFails, ReviewCloseMission, CancelMission,
             FailMission
        <4> QED BY <4>1, MediaUnchangedSettles
      <3> QED BY <3>1, <3>2, <3>3
    <2>4. ASSUME NEW w \in Workers, Abort(w) PROVE MediaStep
      BY <2>4, MediaUnchangedSettles DEF Abort
    <2>5. CASE ExpireRecord
      BY <2>5, MediaUnchangedSettles DEF ExpireRecord
    <2> QED BY <1>1, <2>1, <2>2, <2>3, <2>4, <2>5 DEF Next
  <1>2. FlightInv /\ [Next]_vars => [MediaStep]_vars
    BY <1>1
  <1>3. Spec => [][MediaStep]_vars
    BY <1>2, FlightInvariant, PTL DEF Spec
  <1> QED BY <1>3 DEF MediaSettles, MediaStep

=============================================================================
