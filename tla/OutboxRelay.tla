---------------------------- MODULE OutboxRelay ----------------------------
(***************************************************************************)
(* The transactional outbox and its relay: src/src/platform/events.        *)
(*                                                                         *)
(* Use cases append events inside their own transactions; drains           *)
(* (invocations of drainOnce, started every second without waiting for the *)
(* previous one, in every process) read an event, create the per-consumer  *)
(* deliveries it lacks, claim one delivery under a lease, run the handler  *)
(* and write the outcome back.  Every database call of a drain is a step   *)
(* of its own, because other drains run between any two of them.           *)
(*                                                                         *)
(* Time is kept as ages, never as dates, so that it needs no bound: a      *)
(* drain holds the age of the `now` it took when it began, and a delivery  *)
(* the time since the one date its status makes relevant (nextAttemptAt    *)
(* while it waits, processingStartedAt while it is processed).  Ages grow  *)
(* together in Tick, and saturate where no comparison can tell them apart. *)
(*                                                                         *)
(* A lease token (a UUID) is named by the drain that drew it.  A drain's   *)
(* earlier tokens match nothing once it has used or replaced them, and are *)
(* dropped then.                                                           *)
(***************************************************************************)
EXTENDS Integers, Sequences, FiniteSets

CONSTANTS
    EventCount,       \* events ever appended, 1..EventCount in createdAt order
    Drains,           \* concurrent invocations of drainOnce
    Consumers,        \* consumer names
    Rank,             \* the order in which consumers register
    Supporters,       \* event -> consumers whose supports() accepts its type
    Expected,         \* event -> EXPECTED_CONSUMERS_BY_EVENT_TYPE of its type
    Releases,         \* sets of handlers a release of the backend registers
    MaxAttempts,      \* OUTBOX_MAX_ATTEMPTS
    Lease,            \* OUTBOX_PROCESSING_LEASE_MS, in ticks
    Backoffs,         \* the retry delays, in ticks
    Window,           \* candidates one query returns (200)
    ClearsUndefined,  \* whether $set: {f: undefined} removes f or is ignored
    MaxAge,           \* bound: the oldest `now` a drain still decides by
    MaxCrashes,       \* bound: drains that die half-way
    Many,             \* bound: handler runs from this number on look alike
    NoDrain

Events == 1 .. EventCount

ASSUME SizesAssumption ==
    /\ EventCount \in Nat /\ MaxAttempts \in Nat \ {0}
    /\ Lease \in Nat \ {0} /\ Window \in Nat
    /\ MaxAge \in Nat /\ MaxCrashes \in Nat /\ Many \in Nat \ {0}

ASSUME TablesAssumption ==
    /\ Backoffs \subseteq 1 .. Lease - 1
    /\ Rank \in [Consumers -> Nat]
    /\ Supporters \in [Events -> SUBSET Consumers]
    /\ Expected \in [Events -> SUBSET Consumers]
    /\ Releases \subseteq SUBSET Consumers
    /\ ClearsUndefined \in BOOLEAN
    /\ NoDrain \notin Drains

ASSUME ConsumersAssumption == IsFiniteSet(Consumers) /\ Consumers # {}

VARIABLES
    registered,   \* the handlers of the running release
    status,       \* event -> its aggregate status, "ABSENT" before append
    deliveries,   \* event -> its deliveries array
    effects,      \* event, consumer -> completed runs of the handler, up to Many
    pc,           \* drain -> the step it takes next
    local,        \* drain -> what it holds in memory
    crashes       \* drains that died so far

vars == <<registered, status, deliveries, effects, pc, local, crashes>>

----------------------------------------------------------------------------
(* Records and what the code reads off them                                *)

DeliveryStatus == {"PENDING", "PROCESSING", "PUBLISHED", "FAILED", "DEAD_LETTER"}

Closed == {"PUBLISHED", "DEAD_LETTER"}

\* The age from which on no drain tells two dates of a delivery apart.
Horizon(delivery) ==
    CASE delivery.status \in {"PENDING", "FAILED"} -> MaxAge
      [] delivery.status = "PROCESSING" -> MaxAge + Lease
      [] OTHER -> 0

Steps == {"idle", "noHandler", "reconcile", "reread", "removed", "claim",
          "handle", "publish", "fail", "refresh", "write"}

Deciding == {"reconcile", "reread", "claim"}   \* steps whose query uses `now`

Attempts == 0 .. MaxAttempts
Ages     == 0 .. MaxAge

Delivery == [consumer : Consumers, status : DeliveryStatus, since : Int,
             attempts : Attempts, token : Drains \cup {NoDrain}]

Least(S) == {i \in S : \A j \in S : i <= j}

ConsumersOf(ds) == {ds[i].consumer : i \in DOMAIN ds}

Handlers(e) == registered \cap Supporters[e]

\* Faulty: a processing delivery is due without its lease.
DueIgnoringLease(delivery, age) ==
    /\ delivery.status \in {"PENDING", "FAILED", "PROCESSING"}
    /\ delivery.since >= age

\* Faulty: a delivery whose drain died is never due again.
DueNeverStale(delivery, age) ==
    /\ delivery.status \in {"PENDING", "FAILED"}
    /\ delivery.since >= age

\* Faulty: only new deliveries are due.
DuePendingOnly(delivery, age) ==
    \/ delivery.status = "PENDING" /\ delivery.since >= age
    \/ delivery.status = "PROCESSING" /\ delivery.since >= age + Lease

\* The condition of selectDueDelivery and of claimDelivery's $elemMatch, for a
\* drain whose `now` is `age` old.
Due(delivery, age) ==
    \/ /\ delivery.status \in {"PENDING", "FAILED"}
       /\ delivery.since >= age
    \/ /\ delivery.status = "PROCESSING"
       /\ delivery.since >= age + Lease

DueIndices(ds, age) == {i \in DOMAIN ds : Due(ds[i], age)}

\* Faulty: one published delivery publishes the event.
AggregateStatusAny(ds, expected) ==
    IF \E i \in DOMAIN ds : ds[i].status = "PUBLISHED" THEN "PUBLISHED" ELSE "PENDING"

\* Faulty: the consumers that have no delivery yet are overlooked.
AggregateStatusOfListed(ds, expected) ==
    LET Some(s) == \E i \in DOMAIN ds : ds[i].status = s
    IN  IF ds = << >> THEN "DEAD_LETTER"
        ELSE IF \A i \in DOMAIN ds : ds[i].status = "PUBLISHED" THEN "PUBLISHED"
        ELSE IF Some("PROCESSING") THEN "PROCESSING"
        ELSE IF Some("PENDING") THEN "PENDING"
        ELSE IF Some("FAILED") THEN "FAILED"
        ELSE "DEAD_LETTER"

\* aggregateDeliveryStatus: the cases are tried in this order.
AggregateStatus(ds, expected) ==
    LET Some(s) == \E i \in DOMAIN ds : ds[i].status = s
    IN  CASE ds = << >> -> "DEAD_LETTER"
          [] ds # << >> /\ ~ (expected \subseteq ConsumersOf(ds)) -> "PENDING"
          [] OTHER ->
               IF \A i \in DOMAIN ds : ds[i].status = "PUBLISHED" THEN "PUBLISHED"
               ELSE IF Some("PROCESSING") THEN "PROCESSING"
               ELSE IF Some("PENDING") THEN "PENDING"
               ELSE IF Some("FAILED") THEN "FAILED"
               ELSE "DEAD_LETTER"

\* findDueOutboxEvent: open events within the query's limit, oldest first.
Open == {e \in Events : status[e] \notin Closed \cup {"ABSENT"}}

Candidates == {e \in Open : Cardinality({f \in Open : f < e}) < Window}

EventDue(e) == deliveries[e] = << >> \/ DueIndices(deliveries[e], 0) # {}

\* One more attempt.  Attempts only matter against MaxAttempts.
OneMore(attempts) == IF attempts < MaxAttempts THEN attempts + 1 ELSE attempts

----------------------------------------------------------------------------
(* What each update writes to the deliveries array                         *)

\* Faulty: a status that is not one of OUTBOX_STATUSES.
NewDeliveryQueued(c, age) ==
    [consumer |-> c, status |-> "QUEUED", since |-> age, attempts |-> 0,
     token |-> NoDrain]

NewDelivery(c, age) ==
    [consumer |-> c, status |-> "PENDING", since |-> age, attempts |-> 0,
     token |-> NoDrain]

\* The consumers of S in the order in which their handlers registered.
InOrder(S) ==
    {s \in [1 .. Cardinality(S) -> S] :
        /\ \A c \in S : \E i \in DOMAIN s : s[i] = c
        /\ \A i, j \in DOMAIN s : i < j => Rank[s[i]] < Rank[s[j]]}

NewDeliveries(order, age) == [i \in DOMAIN order |-> NewDelivery(order[i], age)]

Claimable(ds, c, age) == {i \in DueIndices(ds, age) : ds[i].consumer = c}

Claimed(ds, d, c, age) ==
    LET first == Least(Claimable(ds, c, age))
    IN  [i \in DOMAIN ds |->
            IF i \in first
            THEN [ds[i] EXCEPT !.status = "PROCESSING", !.since = age,
                               !.attempts = OneMore(@), !.token = d]
            ELSE IF ds[i].token = d THEN [ds[i] EXCEPT !.token = NoDrain]
            ELSE ds[i]]

\* markDeliveryPublished: the first entry of the consumer that holds the token.
Published(ds, d, c) ==
    LET first == Least({i \in DOMAIN ds : ds[i].consumer = c /\ ds[i].token = d})
    IN  [i \in DOMAIN ds |->
            IF i \in first
            THEN [ds[i] EXCEPT !.status = "PUBLISHED", !.since = 0, !.token = NoDrain]
            ELSE ds[i]]

\* Faulty: gives up one attempt early.
FailedEarly(ds, d, c, attempts, delay) ==
    LET first == Least({i \in DOMAIN ds : ds[i].consumer = c})
    IN  [i \in DOMAIN ds |->
            IF i \in first
            THEN [ds[i] EXCEPT !.status = IF attempts + 1 >= MaxAttempts
                                          THEN "DEAD_LETTER" ELSE "FAILED",
                               !.since  = 0 - delay]
            ELSE ds[i]]

\* markDeliveryFailed: the first entry of the consumer, whoever holds it.  The
\* token of another drain survives if the update cannot remove a field.
Failed(ds, d, c, attempts, delay) ==
    LET first   == Least({i \in DOMAIN ds : ds[i].consumer = c})
        dead    == attempts >= MaxAttempts
        Kept(t) == IF ClearsUndefined \/ t = d THEN NoDrain ELSE t
    IN  [i \in DOMAIN ds |->
            IF i \in first
            THEN [ds[i] EXCEPT !.status = IF dead THEN "DEAD_LETTER" ELSE "FAILED",
                               !.since  = IF dead THEN 0 ELSE 0 - delay,
                               !.token  = Kept(@)]
            ELSE ds[i]]

----------------------------------------------------------------------------
(* Initial state and the environment                                       *)

AnyConsumer == CHOOSE c \in Consumers : TRUE

Blank == [event |-> 0, age |-> 0, missing |-> {}, consumer |-> AnyConsumer,
             attempts |-> 0, seen |-> "ABSENT"]

Init ==
    /\ registered \in Releases
    /\ status = [e \in Events |-> "ABSENT"]
    /\ deliveries = [e \in Events |-> << >>]
    /\ effects = [e \in Events |-> [c \in Consumers |-> 0]]
    /\ pc = [d \in Drains |-> "idle"]
    /\ local = [d \in Drains |-> Blank]
    /\ crashes = 0

\* OutboxService.append, at the commit of the transaction it is called in.
AppendEvent(e) ==
    /\ status[e] = "ABSENT"
    /\ \A f \in Events : f < e => status[f] # "ABSENT"
    /\ status' = [status EXCEPT ![e] = "PENDING"]
    /\ UNCHANGED <<registered, deliveries, effects, pc, local, crashes>>

Aged(ds) ==
    [i \in DOMAIN ds |->
        IF ds[i].since < Horizon(ds[i]) THEN [ds[i] EXCEPT !.since = @ + 1] ELSE ds[i]]

\* Time passes for every drain that still has to compare dates and for every
\* delivery that waits for one.
Tick ==
    /\ \A d \in Drains : pc[d] \in Deciding => local[d].age < MaxAge
    /\ local' = [d \in Drains |->
                    IF pc[d] \in Deciding THEN [local[d] EXCEPT !.age = @ + 1]
                    ELSE local[d]]
    /\ deliveries' = [e \in Events |-> Aged(deliveries[e])]
    /\ UNCHANGED <<registered, status, effects, pc, crashes>>

\* The process of a drain dies: what the drain held in memory is lost.
Crash(d) ==
    /\ pc[d] # "idle"
    /\ crashes < MaxCrashes
    /\ crashes' = crashes + 1
    /\ pc' = [pc EXCEPT ![d] = "idle"]
    /\ local' = [local EXCEPT ![d] = Blank]
    /\ UNCHANGED <<registered, status, deliveries, effects>>

\* Another release starts, with its own registered handlers, once no drain of
\* the previous one is running.
Deploy ==
    /\ \A d \in Drains : pc[d] = "idle"
    /\ registered' \in Releases \ {registered}
    /\ UNCHANGED <<status, deliveries, effects, pc, local, crashes>>

----------------------------------------------------------------------------
(* The steps of drainOnce                                                  *)

Goto(d, step, held) ==
    /\ pc' = [pc EXCEPT ![d] = step]
    /\ local' = [local EXCEPT ![d] = held]

Refresh(d, e) == Goto(d, "refresh", [Blank EXCEPT !.event = e])

Return(d) == Goto(d, "idle", Blank)

\* selectDueDelivery on a copy of the deliveries, and the lookup of the handler.
Select(d, held, ds) ==
    \/ /\ DueIndices(ds, held.age) = {}
       /\ Refresh(d, held.event)
    \/ \E i \in Least(DueIndices(ds, held.age)) :
          LET chosen == [held EXCEPT !.consumer = ds[i].consumer,
                                     !.attempts = ds[i].attempts]
          IN  IF ds[i].consumer \in Handlers(held.event)
              THEN Goto(d, "claim", chosen)
              ELSE Goto(d, "removed", [chosen EXCEPT !.age = 0])

\* One query for the oldest due event, and what follows from the copy it returns.
Find(d) ==
    /\ pc[d] = "idle"
    /\ \E e \in Least({f \in Candidates : EventDue(f)}) :
          LET held    == [Blank EXCEPT !.event = e]
              missing == Handlers(e) \ ConsumersOf(deliveries[e])
          IN  \/ /\ Handlers(e) = {}
                 /\ Goto(d, "noHandler", held)
              \/ /\ missing # {}
                 /\ Goto(d, "reconcile", [held EXCEPT !.missing = missing])
              \/ /\ Handlers(e) # {} /\ missing = {}
                 /\ Select(d, held, deliveries[e])
    /\ UNCHANGED <<registered, status, deliveries, effects, crashes>>

\* markEventDeadLetter
DeadLetterEvent(d) ==
    /\ pc[d] = "noHandler"
    /\ status' = [status EXCEPT ![local[d].event] = "DEAD_LETTER"]
    /\ Return(d)
    /\ UNCHANGED <<registered, deliveries, effects, crashes>>

\* Faulty: writes the whole array back ($set) instead of pushing.
ReconcileBySet(d) ==
    LET held == local[d]
    IN  /\ pc[d] = "reconcile"
        /\ \E order \in InOrder(held.missing) :
              deliveries' = [deliveries EXCEPT ![held.event] =
                                NewDeliveries(order, held.age)]
        /\ status' = [status EXCEPT ![held.event] = "PENDING"]
        /\ Goto(d, "reread", [held EXCEPT !.missing = {}])
        /\ UNCHANGED <<registered, effects, crashes>>

\* reconcileDeliveries, its update: pushes what the copy lacked, unconditionally.
Reconcile(d) ==
    LET held == local[d]
    IN  /\ pc[d] = "reconcile"
        /\ \E order \in InOrder(held.missing) :
              deliveries' = [deliveries EXCEPT ![held.event] =
                                @ \o NewDeliveries(order, held.age)]
        /\ status' = [status EXCEPT ![held.event] = "PENDING"]
        /\ Goto(d, "reread", [held EXCEPT !.missing = {}])
        /\ UNCHANGED <<registered, effects, crashes>>

\* reconcileDeliveries, its second read, and the selection on the new copy.
Reread(d) ==
    /\ pc[d] = "reread"
    /\ Select(d, local[d], deliveries[local[d].event])
    /\ UNCHANGED <<registered, status, deliveries, effects, crashes>>

\* claimDelivery: one atomic update, which also marks the event PROCESSING.
Claim(d) ==
    LET held == local[d]
        ds   == deliveries[held.event]
    IN  /\ pc[d] = "claim"
        /\ IF Claimable(ds, held.consumer, held.age) = {}
           THEN /\ Return(d)
                /\ UNCHANGED <<status, deliveries>>
           ELSE /\ deliveries' = [deliveries EXCEPT ![held.event] =
                                     Claimed(ds, d, held.consumer, held.age)]
                /\ status' = [status EXCEPT ![held.event] = "PROCESSING"]
                /\ Goto(d, "handle", [held EXCEPT !.age = 0,
                                                  !.attempts = OneMore(@)])
        /\ UNCHANGED <<registered, effects, crashes>>

OneMoreRun(c, runs) == [runs EXCEPT ![c] = IF @ < Many THEN @ + 1 ELSE @]

\* handler.handle resolves.
HandlerCompletes(d) ==
    /\ pc[d] = "handle"
    /\ effects' = [effects EXCEPT ![local[d].event] = OneMoreRun(local[d].consumer, @)]
    /\ pc' = [pc EXCEPT ![d] = "publish"]
    /\ UNCHANGED <<registered, status, deliveries, local, crashes>>

\* handler.handle rejects: before its effect, or after it (the answer of the
\* database to the handler's last write is lost).
HandlerThrows(d) ==
    /\ pc[d] = "handle"
    /\ \/ effects' = [effects EXCEPT ![local[d].event] =
                          OneMoreRun(local[d].consumer, @)]
       \/ effects' = effects
    /\ pc' = [pc EXCEPT ![d] = "fail"]
    /\ UNCHANGED <<registered, status, deliveries, local, crashes>>

\* markDeliveryPublished
MarkPublished(d) ==
    LET held == local[d]
    IN  /\ pc[d] = "publish"
        /\ deliveries' = [deliveries EXCEPT ![held.event] =
                              Published(@, d, held.consumer)]
        /\ Refresh(d, held.event)
        /\ UNCHANGED <<registered, status, effects, crashes>>

\* markDeliveryPublished throws, before or after the database applied it; the
\* catch block then treats the handler as failed.
MarkPublishedThrows(d) ==
    LET held == local[d]
    IN  /\ pc[d] = "publish"
        /\ \/ deliveries' = [deliveries EXCEPT ![held.event] =
                                Published(@, d, held.consumer)]
           \/ deliveries' = deliveries
        /\ Goto(d, "fail", held)
        /\ UNCHANGED <<registered, status, effects, crashes>>

\* Faulty: a delivery that is given up closes the event at once.
MarkFailedClosing(d) ==
    LET held == local[d]
        dead == held.attempts >= MaxAttempts
    IN  /\ pc[d] = "fail"
        /\ \E delay \in Backoffs :
              deliveries' = [deliveries EXCEPT ![held.event] =
                                Failed(@, d, held.consumer, held.attempts, delay)]
        /\ status' = [status EXCEPT ![held.event] = IF dead THEN "DEAD_LETTER" ELSE @]
        /\ Refresh(d, held.event)
        /\ UNCHANGED <<registered, effects, crashes>>

\* markDeliveryFailed, after the handler failed.
MarkFailed(d) ==
    LET held == local[d]
    IN  /\ pc[d] = "fail"
        /\ \E delay \in Backoffs :
              deliveries' = [deliveries EXCEPT ![held.event] =
                                Failed(@, d, held.consumer, held.attempts, delay)]
        /\ Refresh(d, held.event)
        /\ UNCHANGED <<registered, status, effects, crashes>>

\* markDeliveryFailed with HANDLER_REMOVED: no claim, no refresh.
MarkRemoved(d) ==
    LET held == local[d]
    IN  /\ pc[d] = "removed"
        /\ \E delay \in Backoffs :
              deliveries' = [deliveries EXCEPT ![held.event] =
                                Failed(@, d, held.consumer, held.attempts, delay)]
        /\ Return(d)
        /\ UNCHANGED <<registered, status, effects, crashes>>

\* refreshAggregateStatus, its read.
RefreshRead(d) ==
    LET e == local[d].event
    IN  /\ pc[d] = "refresh"
        /\ Goto(d, "write",
                [local[d] EXCEPT !.seen = AggregateStatus(deliveries[e], Expected[e])])
        /\ UNCHANGED <<registered, status, deliveries, effects, crashes>>

\* refreshAggregateStatus, its write: what the read implied, whatever happened since.
RefreshWrite(d) ==
    /\ pc[d] = "write"
    /\ status' = [status EXCEPT ![local[d].event] = local[d].seen]
    /\ Return(d)
    /\ UNCHANGED <<registered, deliveries, effects, crashes>>

DrainStep(d) ==
    \/ Find(d) \/ DeadLetterEvent(d) \/ Reconcile(d) \/ Reread(d) \/ Claim(d)
    \/ HandlerCompletes(d) \/ HandlerThrows(d) \/ MarkPublished(d) \/ MarkPublishedThrows(d)
    \/ MarkFailed(d) \/ MarkRemoved(d) \/ RefreshRead(d) \/ RefreshWrite(d)

Next ==
    \/ \E e \in Events : AppendEvent(e)
    \/ Tick
    \/ Deploy
    \/ \E d \in Drains : DrainStep(d) \/ Crash(d)

Spec == Init /\ [][Next]_vars

\* setInterval starts a drain every second and the event loop runs every drain
\* on; time passes.  Nothing obliges a use case to append, or a process to die.
Fairness == WF_vars(Tick) /\ \A d \in Drains : WF_vars(DrainStep(d))

\* What a handler fails for is transient: retried for ever, it completes once.
TransientFailures == \A d \in Drains : SF_vars(HandlerCompletes(d))

FairSpec == Spec /\ Fairness /\ TransientFailures

----------------------------------------------------------------------------
(* What must hold                                                          *)

Local == [event : 0 .. EventCount, age : Ages, missing : SUBSET Consumers,
          consumer : Consumers, attempts : Attempts,
          seen : DeliveryStatus \cup {"ABSENT"}]

\* Every document and every drain's memory has the shape the schema and the
\* code give it; a drain past its first step works on an event.
TypeOK ==
    /\ registered \in SUBSET Consumers
    /\ status \in [Events -> DeliveryStatus \cup {"ABSENT"}]
    /\ deliveries \in [Events -> Seq(Delivery)]
    /\ effects \in [Events -> [Consumers -> 0 .. Many]]
    /\ pc \in [Drains -> Steps]
    /\ local \in [Drains -> Local]
    /\ \A d \in Drains : pc[d] # "idle" => local[d].event \in Events
    /\ crashes \in 0 .. MaxCrashes

\* No silent loss: a delivery is marked PUBLISHED, and an event closed as
\* PUBLISHED, only if the handler of the delivery, of every delivery of the
\* event and of every consumer expected for its type has run to completion,
\* although the drain that closes the event decides from an earlier read and
\* although drains that know less push, fail and regress deliveries meanwhile.
PublishedMeansHandled ==
    \A e \in Events :
        /\ \A i \in DOMAIN deliveries[e] :
              deliveries[e][i].status = "PUBLISHED" =>
                  effects[e][deliveries[e][i].consumer] > 0
        /\ status[e] = "PUBLISHED" =>
              \A c \in ConsumersOf(deliveries[e]) \cup Expected[e] : effects[e][c] > 0

\* At least n claims of the consumer's deliveries, on one entry or over two.
AttemptsReached(ds, c, n) ==
    LET Of == {i \in DOMAIN ds : ds[i].consumer = c}
    IN  \/ \E i \in Of : ds[i].attempts >= n
        \/ \E i, j \in Of : i # j /\ ds[i].attempts + ds[j].attempts >= n

\* A delivery is given up only after MaxAttempts claims, counted over the entries
\* of its consumer: markDeliveryFailed counts with the attempts an earlier read
\* returned, and when overlapping reconciliations pushed the consumer twice the
\* entry read, the one claimed and the one given up may all differ.
DeadLetterEarned ==
    \A e \in Events : \A i \in DOMAIN deliveries[e] :
        deliveries[e][i].status = "DEAD_LETTER" =>
            AttemptsReached(deliveries[e], deliveries[e][i].consumer, MaxAttempts)

\* No step but a claim lets a drain hold a delivery, and a claim takes a delivery
\* another drain is processing only when the lease that drain recorded is over.
LeaseRespected ==
    [][\A e \in Events : \A i \in DOMAIN deliveries[e] :
          LET old == deliveries[e][i]
              new == deliveries'[e][i]
          IN  (old.status = "PROCESSING" /\ new.token \notin {old.token, NoDrain})
                  => old.since >= Lease]_vars

\* Attempts already made are never forgotten, by any drain whatever it read.
AttemptsGrow ==
    [][\A e \in Events : \A i \in DOMAIN deliveries[e] :
          /\ i \in DOMAIN deliveries'[e]
          /\ deliveries'[e][i].attempts >= deliveries[e][i].attempts]_vars

Served(e, c) ==
    \/ effects[e][c] > 0
    \/ status[e] = "DEAD_LETTER"
    \/ \E i \in DOMAIN deliveries[e] :
          deliveries[e][i].consumer = c /\ deliveries[e][i].status = "DEAD_LETTER"

\* Every consumer of an appended event eventually runs its handler, or is given
\* up, whatever the drains that overlap, fail, stall or die on the way.
EventuallyServed ==
    \A e \in Events : \A c \in Consumers :
        (status[e] # "ABSENT" /\ c \in Handlers(e)) ~> Served(e, c)

\* The release lacks a handler an open event waits for: a delivery of a removed
\* handler is retried again and again, and an expected consumer without a delivery
\* keeps the event PENDING.
Lacking(e) ==
    /\ status[e] \notin Closed
    /\ deliveries[e] # << >>
    /\ \/ ~ (ConsumersOf(deliveries[e]) \subseteq registered)
       \/ ~ (Expected[e] \subseteq ConsumersOf(deliveries[e]))

\* A drain died between the last outcome it wrote and the refresh of the aggregate:
\* nothing of the event is due any more, so no later drain looks at it again.
Stranded(e) ==
    /\ crashes > 0
    /\ status[e] \notin Closed
    /\ deliveries[e] # << >>
    /\ \A i \in DOMAIN deliveries[e] : deliveries[e][i].status \in Closed

\* One drain at a time settles every appended event for good, the events behind
\* others in the query's window included; only a lacking handler or a crash before
\* the refresh can keep it open, or keep an older event open that then holds its
\* place in the window for ever.
EventuallyClosed ==
    \A e \in Events : status[e] # "ABSENT" ~>
        \/ [](status[e] \in Closed)
        \/ \E f \in 1 .. e : []<>(Lacking(f) \/ Stranded(f))

\* With one drain at a time a closed status is the truth about the deliveries.
ClosedAgrees ==
    \A e \in Events : status[e] \in Closed =>
        \/ deliveries[e] = << >>
        \/ status[e] = AggregateStatus(deliveries[e], Expected[e])

OutcomeOf(s) ==
    CASE s = "ABSENT" -> "none"
      [] s = "PUBLISHED" -> "delivered"
      [] s = "DEAD_LETTER" -> "abandoned"
      [] OTHER -> "open"

Delivering ==
    INSTANCE EventDelivery WITH
        outcome <- [e \in Events |-> OutcomeOf(status[e])],
        handled <- [e \in Events |-> {c \in Consumers : effects[e][c] > 0}]

\* One drain at a time keeps the promise of the outbox, through crashes, lost
\* answers, stalls past the lease and a release that lacks a handler: an event that
\* is closed stays closed and its handlers rest, and it is closed as PUBLISHED only
\* after all expected consumers.
ImplementsDelivery == Delivering!Spec

\* No drain is running.
Settled == \A d \in Drains : pc[d] = "idle"

\* "processes it only once across two workers": no handler completes twice for
\* one event.
HandledOnce == \A e \in Events : \A c \in Consumers : effects[e][c] <= 1

\* Once two workers have drained, an event all of whose deliveries are PUBLISHED
\* is PUBLISHED itself.
PublishedWhenAllAre ==
    \A e \in Events :
        (/\ Settled
         /\ deliveries[e] # << >>
         /\ \A i \in DOMAIN deliveries[e] : deliveries[e][i].status = "PUBLISHED")
            => status[e] = "PUBLISHED"

=============================================================================
