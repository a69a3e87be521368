--------------------------- MODULE MCOutboxRelay ---------------------------
(* Small instances of OutboxRelay.  The consumers are the two the backend     *)
(* registers: image-ops.mission-completed and notifications.mission.          *)
EXTENDS OutboxRelay, TLC

CONSTANTS imageOps, missionNotices, d1, d2

Pair   == {imageOps, missionNotices}
Single == {missionNotices}
RegistrationOrder == [c \in Consumers |-> IF c = imageOps THEN 1 ELSE 2]

\* MissionPilotCompleted.v1 has both consumers, and both are expected.
CompletedOnly == 1 :> Pair

\* A completion, then an event type nobody supports (MediaIngested.v1).
CompletedThenOrphan == (1 :> Pair) @@ (2 :> {})

\* Any other mission event: notifications alone, and nothing expected.
NoticesOnly  == 1 :> Single
NoneExpected == 1 :> {}

SingleRelease == {Single}
OneRelease  == {Pair}
TwoReleases == {Pair, {missionNotices}}

OneDelay  == {1}

\* Two workers drain at once, and nothing goes wrong: no handler fails, no process
\* dies and no time passes.
UneventfulNext ==
    \/ \E e \in Events : AppendEvent(e)
    \/ \E d \in Drains : DrainStep(d) /\ pc'[d] # "fail"
UneventfulSpec == Init /\ [][UneventfulNext]_vars

DrainSymmetry == Permutations(Drains)
=============================================================================
