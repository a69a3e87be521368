------------------------- MODULE OutboxRelayProofs -------------------------
(***************************************************************************)
(* What OutboxRelay states, for any number of events, drains and consumers *)
(* and any values of the limits.                                           *)
(*                                                                         *)
(* HandledInv: what a drain may rely on of the handlers that ran.          *)
(* EarnedInv: what the attempts a drain holds stand for.                   *)
(* SoloInv, AgreeInv: what holds besides with one drain at a time.  With   *)
(* them the relay implements EventDelivery, and closed statuses are true.  *)
(***************************************************************************)
EXTENDS OutboxRelay, SequenceTheorems, FiniteSetTheorems, WellFoundedInduction,
        TLAPS

----------------------------------------------------------------------------
(* The records the steps build                                                *)

LEMMA BlankType == Blank \in Local
  BY SizesAssumption, ConsumersAssumption DEF Blank, Local, AnyConsumer, Attempts, Ages

LEMMA OneMoreType ==
  ASSUME NEW n \in Attempts
  PROVE  OneMore(n) \in Attempts
  BY SizesAssumption DEF OneMore, Attempts

\* A sequence rewritten entry by entry is a sequence with the same indices.
LEMMA RewriteType ==
  ASSUME NEW S, NEW ds \in Seq(S), NEW es \in [DOMAIN ds -> S]
  PROVE  es \in Seq(S) /\ DOMAIN es = DOMAIN ds
<1>1. DOMAIN ds = 1 .. Len(ds) /\ Len(ds) \in Nat
  BY LenProperties
<1>2. es \in [1 .. Len(ds) -> S]
  BY <1>1
<1> QED
  BY <1>1, <1>2, SeqDef

LEMMA EntryType ==
  ASSUME NEW ds \in Seq(Delivery), NEW i \in DOMAIN ds
  PROVE  ds[i] \in Delivery
  BY LenProperties, ElementOfSeq

----------------------------------------------------------------------------
(* What each update does to a deliveries array                                *)

\* Only the entries of consumer c may gain the status s; no entry changes hands.
Updates(es, ds, c, gained) ==
    /\ es \in Seq(Delivery)
    /\ DOMAIN es = DOMAIN ds
    /\ \A i \in DOMAIN ds :
          /\ es[i].consumer = ds[i].consumer
          /\ \/ es[i].status = ds[i].status
             \/ es[i].status \in gained /\ ds[i].consumer = c

LEMMA AgedUpdates ==
  ASSUME NEW ds \in Seq(Delivery), NEW c
  PROVE  Updates(Aged(ds), ds, c, {})
<1>1. \A i \in DOMAIN ds : ds[i] \in Delivery
  BY EntryType
<1>2. Aged(ds) \in [DOMAIN ds -> Delivery]
  <2>1. ASSUME NEW r \in Delivery PROVE [r EXCEPT !.since = @ + 1] \in Delivery
    <3>1. r.since + 1 \in Int
      BY DEF Delivery
    <3> QED
      BY <3>1 DEF Delivery
  <2> QED
    BY <1>1, <2>1 DEF Aged
<1>3. Aged(ds) \in Seq(Delivery) /\ DOMAIN Aged(ds) = DOMAIN ds
  BY <1>2, RewriteType
<1>4. ASSUME NEW i \in DOMAIN ds
      PROVE  Aged(ds)[i].consumer = ds[i].consumer /\ Aged(ds)[i].status = ds[i].status
  BY <1>1 DEF Aged, Delivery
<1> QED
  BY <1>3, <1>4 DEF Updates

LEMMA ClaimedUpdates ==
  ASSUME NEW ds \in Seq(Delivery), NEW d \in Drains, NEW c \in Consumers,
         NEW age \in Int
  PROVE  Updates(Claimed(ds, d, c, age), ds, c, {"PROCESSING"})
<1> DEFINE es == Claimed(ds, d, c, age)
<1>1. \A i \in DOMAIN ds : ds[i] \in Delivery
  BY EntryType
<1>2. es \in [DOMAIN ds -> Delivery]
  <2>1. ASSUME NEW r \in Delivery
        PROVE  /\ [r EXCEPT !.status = "PROCESSING", !.since = age,
                            !.attempts = OneMore(@), !.token = d] \in Delivery
               /\ [r EXCEPT !.token = NoDrain] \in Delivery
    BY OneMoreType DEF Delivery, DeliveryStatus
  <2> QED
    BY <1>1, <2>1 DEF Claimed
<1>3. es \in Seq(Delivery) /\ DOMAIN es = DOMAIN ds
  BY <1>2, RewriteType
<1>4. ASSUME NEW i \in DOMAIN ds
      PROVE  /\ es[i].consumer = ds[i].consumer
             /\ \/ es[i].status = ds[i].status
                \/ es[i].status \in {"PROCESSING"} /\ ds[i].consumer = c
  BY <1>1 DEF Claimed, Delivery, Least, Claimable
<1> QED
  BY <1>3, <1>4 DEF Updates

LEMMA PublishedUpdates ==
  ASSUME NEW ds \in Seq(Delivery), NEW d \in Drains, NEW c \in Consumers
  PROVE  Updates(Published(ds, d, c), ds, c, {"PUBLISHED"})
<1> DEFINE es == Published(ds, d, c)
<1>1. \A i \in DOMAIN ds : ds[i] \in Delivery
  BY EntryType
<1>2. es \in [DOMAIN ds -> Delivery]
  <2>1. ASSUME NEW r \in Delivery
        PROVE  [r EXCEPT !.status = "PUBLISHED", !.since = 0, !.token = NoDrain]
                  \in Delivery
    <3> DEFINE now == 0
    <3>1. "PUBLISHED" \in DeliveryStatus /\ now \in Int
      BY DEF DeliveryStatus
    <3> HIDE DEF now
    <3>2. [r EXCEPT !.status = "PUBLISHED", !.since = now, !.token = NoDrain] \in Delivery
      BY <3>1 DEF Delivery
    <3> QED
      BY <3>2 DEF now
  <2> QED
    BY <1>1, <2>1 DEF Published
<1>3. es \in Seq(Delivery) /\ DOMAIN es = DOMAIN ds
  BY <1>2, RewriteType
<1>4. ASSUME NEW i \in DOMAIN ds
      PROVE  /\ es[i].consumer = ds[i].consumer
             /\ \/ es[i].status = ds[i].status
                \/ es[i].status \in {"PUBLISHED"} /\ ds[i].consumer = c
  BY <1>1 DEF Published, Delivery, Least
<1> QED
  BY <1>3, <1>4 DEF Updates

LEMMA FailedUpdates ==
  ASSUME NEW ds \in Seq(Delivery), NEW d \in Drains, NEW c \in Consumers,
         NEW n \in Nat, NEW delay \in Backoffs
  PROVE  Updates(Failed(ds, d, c, n, delay), ds, c, {"FAILED", "DEAD_LETTER"})
<1> DEFINE es == Failed(ds, d, c, n, delay)
<1>0. delay \in Int /\ 0 - delay \in Int
  BY SizesAssumption, TablesAssumption
<1>1. \A i \in DOMAIN ds : ds[i] \in Delivery
  BY EntryType
<1>2. es \in [DOMAIN ds -> Delivery]
  <2>1. ASSUME NEW i \in DOMAIN ds PROVE es[i] \in Delivery
    <3>1. ds[i] \in Delivery /\ ds[i].token \in Drains \cup {NoDrain}
      BY <1>1 DEF Delivery
    <3>2. ASSUME NEW s \in DeliveryStatus, NEW t \in Int, NEW k \in Drains \cup {NoDrain}
          PROVE  [ds[i] EXCEPT !.status = s, !.since = t, !.token = k] \in Delivery
      BY <3>1 DEF Delivery
    <3>3. CASE i \in Least({j \in DOMAIN ds : ds[j].consumer = c})
      <4> DEFINE s == IF n >= MaxAttempts THEN "DEAD_LETTER" ELSE "FAILED"
                 t == IF n >= MaxAttempts THEN 0 ELSE 0 - delay
                 k == IF ClearsUndefined \/ ds[i].token = d THEN NoDrain ELSE ds[i].token
      <4>1. s \in DeliveryStatus /\ t \in Int /\ k \in Drains \cup {NoDrain}
        BY <1>0, <3>1 DEF DeliveryStatus
      <4>2. es[i] = [ds[i] EXCEPT !.status = s, !.since = t, !.token = k]
        BY <3>3 DEF Failed
      <4> HIDE DEF s, t, k
      <4>3. [ds[i] EXCEPT !.status = s, !.since = t, !.token = k] \in Delivery
        BY <3>2, <4>1
      <4> QED
        BY <4>2, <4>3
    <3>4. CASE i \notin Least({j \in DOMAIN ds : ds[j].consumer = c})
      BY <3>1, <3>4 DEF Failed
    <3> QED
      BY <3>3, <3>4
  <2> QED
    BY <2>1 DEF Failed
<1>3. es \in Seq(Delivery) /\ DOMAIN es = DOMAIN ds
  BY <1>2, RewriteType
<1>4. ASSUME NEW i \in DOMAIN ds
      PROVE  /\ es[i].consumer = ds[i].consumer
             /\ \/ es[i].status = ds[i].status
                \/ es[i].status \in {"FAILED", "DEAD_LETTER"} /\ ds[i].consumer = c
  BY <1>1 DEF Failed, Delivery, Least
<1> QED
  BY <1>3, <1>4 DEF Updates

\* An update keeps the consumers an event is delivered to.
LEMMA UpdatesConsumers ==
  ASSUME NEW ds, NEW es, NEW c, NEW gained, Updates(es, ds, c, gained)
  PROVE  ConsumersOf(es) = ConsumersOf(ds)
  BY DEF Updates, ConsumersOf

Pushed(es, ds, missing) ==
    /\ es \in Seq(Delivery)
    /\ ConsumersOf(es) = ConsumersOf(ds) \cup missing
    /\ \A i \in DOMAIN es : es[i].status = "PUBLISHED" =>
          \E j \in DOMAIN ds : ds[j] = es[i]

\* reconcileDeliveries' push: the consumers it lacked are added, with a delivery
\* that is not PUBLISHED, and every older entry stays what it was.
LEMMA PushType ==
  ASSUME NEW ds \in Seq(Delivery), NEW missing \in SUBSET Consumers, NEW age \in Int,
         NEW order \in InOrder(missing), NEW es, es = ds \o NewDeliveries(order, age)
  PROVE  Pushed(es, ds, missing)
<1> DEFINE new == NewDeliveries(order, age)
           n   == Cardinality(missing)
<1>1. n \in Nat
  BY ConsumersAssumption, FS_Subset, FS_CardinalityType
<1>2. order \in [1 .. n -> missing] /\ \A c \in missing : \E i \in 1 .. n : order[i] = c
  BY DEF InOrder
<1>3. new \in [1 .. n -> Delivery]
  BY SizesAssumption, <1>1, <1>2
  DEF NewDeliveries, NewDelivery, Delivery, DeliveryStatus, Attempts
<1>4. new \in Seq(Delivery) /\ Len(new) = n
  BY <1>1, <1>3, SeqDef, LenProperties
<1>5. \A i \in 1 .. n : new[i].consumer = order[i] /\ new[i].status = "PENDING"
  BY <1>2 DEF NewDeliveries, NewDelivery
<1>6. Len(ds) \in Nat /\ DOMAIN ds = 1 .. Len(ds)
  BY LenProperties
<1>7. /\ es \in Seq(Delivery)
      /\ Len(es) = Len(ds) + n
      /\ \A i \in 1 .. Len(ds) + n :
            es[i] = IF i <= Len(ds) THEN ds[i] ELSE new[i - Len(ds)]
  BY <1>4, ConcatProperties
<1>8. DOMAIN es = 1 .. Len(ds) + n
  BY <1>7, LenProperties
<1>9. ASSUME NEW i \in DOMAIN es
      PROVE  \/ \E j \in DOMAIN ds : es[i] = ds[j]
             \/ \E j \in 1 .. n : es[i] = new[j]
  <2>1. CASE i <= Len(ds)
    BY <1>6, <1>7, <1>8, <2>1
  <2>2. CASE ~ (i <= Len(ds))
    <3>1. i - Len(ds) \in 1 .. n
      BY <1>1, <1>6, <1>8, <2>2
    <3> QED
      BY <1>6, <1>7, <1>8, <2>2, <3>1
  <2> QED
    BY <2>1, <2>2
<1>10. ConsumersOf(es) = ConsumersOf(ds) \cup missing
  <2>1. ConsumersOf(es) \subseteq ConsumersOf(ds) \cup missing
    <3>1. ASSUME NEW i \in DOMAIN es
          PROVE  es[i].consumer \in ConsumersOf(ds) \cup missing
      <4>1. CASE \E j \in DOMAIN ds : es[i] = ds[j]
        BY <4>1 DEF ConsumersOf
      <4>2. CASE \E j \in 1 .. n : es[i] = new[j]
        BY <1>2, <1>5, <4>2
      <4> QED
        BY <1>9, <4>1, <4>2
    <3> QED
      BY <3>1 DEF ConsumersOf
  <2>2. ConsumersOf(ds) \subseteq ConsumersOf(es)
    <3>1. \A i \in DOMAIN ds : i \in DOMAIN es /\ es[i] = ds[i]
      BY <1>1, <1>6, <1>7, <1>8
    <3> QED
      BY <3>1 DEF ConsumersOf
  <2>3. ASSUME NEW c \in missing PROVE c \in ConsumersOf(es)
    <3>1. PICK i \in 1 .. n : order[i] = c
      BY <1>2
    <3>2. Len(ds) + i \in DOMAIN es /\ es[Len(ds) + i] = new[i]
      BY <1>1, <1>6, <1>7, <1>8, <3>1
    <3> QED
      BY <1>5, <3>1, <3>2 DEF ConsumersOf
  <2> QED
    BY <2>1, <2>2, <2>3
<1>11. ASSUME NEW i \in DOMAIN es, es[i].status = "PUBLISHED"
       PROVE  \E j \in DOMAIN ds : ds[j] = es[i]
  BY <1>5, <1>9, <1>11
<1> QED
  BY <1>7, <1>10, <1>11 DEF Pushed

----------------------------------------------------------------------------
(* Type correctness                                                           *)

LEMMA InitType == Init => TypeOK
<1> SUFFICES ASSUME Init PROVE TypeOK
  OBVIOUS
<1>1. registered \in SUBSET Consumers
  BY TablesAssumption DEF Init
<1>2. status \in [Events -> DeliveryStatus \cup {"ABSENT"}] /\ pc \in [Drains -> Steps]
  BY DEF Init, Steps
<1>3. deliveries \in [Events -> Seq(Delivery)]
  BY EmptySeq DEF Init
<1>4. effects \in [Events -> [Consumers -> 0 .. Many]] /\ crashes \in 0 .. MaxCrashes
  BY SizesAssumption DEF Init
<1>5. local \in [Drains -> Local]
  BY BlankType DEF Init
<1> QED
  BY <1>1, <1>2, <1>3, <1>4, <1>5 DEF Init, TypeOK

\* A drain that goes on to another step, holding a record of the right type.
LEMMA GotoType ==
  ASSUME TypeOK, NEW d \in Drains, NEW step \in Steps, NEW held \in Local,
         Goto(d, step, held), step # "idle" => held.event \in Events
  PROVE  /\ pc' \in [Drains -> Steps]
         /\ local' \in [Drains -> Local]
         /\ \A x \in Drains : pc'[x] # "idle" => local'[x].event \in Events
  BY DEF TypeOK, Goto

\* A drain drops its `now`, and the rest of what it holds stays.
LEMMA ForgetAgeType ==
  ASSUME NEW held \in Local
  PROVE  /\ [held EXCEPT !.age = 0] \in Local
         /\ [held EXCEPT !.age = 0].event = held.event
<1> DEFINE zero == 0
<1>1. zero \in Ages
  BY SizesAssumption DEF Ages
<1> HIDE DEF zero
<1>2. /\ [held EXCEPT !.age = zero] \in Local
      /\ [held EXCEPT !.age = zero].event = held.event
  BY <1>1 DEF Local
<1> QED
  BY <1>2 DEF zero

LEMMA SelectType ==
  ASSUME TypeOK, NEW d \in Drains, NEW held \in Local, NEW ds \in Seq(Delivery),
         held.event \in Events, Select(d, held, ds)
  PROVE  /\ pc' \in [Drains -> Steps]
         /\ local' \in [Drains -> Local]
         /\ \A x \in Drains : pc'[x] # "idle" => local'[x].event \in Events
<1>1. CASE Refresh(d, held.event)
  <2>1. [Blank EXCEPT !.event = held.event] \in Local
    BY BlankType DEF Local
  <2> QED
    BY <1>1, <2>1, GotoType DEF Refresh, Steps, Local
<1>2. CASE \E i \in Least(DueIndices(ds, held.age)) :
             LET chosen == [held EXCEPT !.consumer = ds[i].consumer,
                                        !.attempts = ds[i].attempts]
             IN  \/ Goto(d, "claim", chosen)
                 \/ Goto(d, "removed", [chosen EXCEPT !.age = 0])
  <2>1. PICK i \in Least(DueIndices(ds, held.age)) :
             LET chosen == [held EXCEPT !.consumer = ds[i].consumer,
                                        !.attempts = ds[i].attempts]
             IN  \/ Goto(d, "claim", chosen)
                 \/ Goto(d, "removed", [chosen EXCEPT !.age = 0])
    BY <1>2
  <2> DEFINE chosen == [held EXCEPT !.consumer = ds[i].consumer, !.attempts = ds[i].attempts]
  <2>2. ds[i] \in Delivery
    BY EntryType DEF Least, DueIndices
  <2>3. /\ chosen \in Local /\ chosen.event = held.event
        /\ [chosen EXCEPT !.age = 0] \in Local /\ [chosen EXCEPT !.age = 0].event = held.event
    <3>1. chosen \in Local /\ chosen.event = held.event
      BY <2>2 DEF Local, Delivery
    <3> HIDE DEF chosen
    <3> QED
      BY <3>1, ForgetAgeType
  <2> QED
    BY <2>1, <2>3, GotoType DEF Steps
<1> QED
  BY <1>1, <1>2 DEF Select

\* A drain's own record, taken apart.
LEMMA HeldType ==
  ASSUME TypeOK, NEW d \in Drains, pc[d] # "idle"
  PROVE  /\ local[d] \in Local /\ local[d].event \in Events
         /\ local[d].consumer \in Consumers /\ local[d].attempts \in Attempts
         /\ local[d].age \in Int /\ local[d].missing \in SUBSET Consumers
         /\ local[d].seen \in DeliveryStatus \cup {"ABSENT"}
         /\ deliveries[local[d].event] \in Seq(Delivery)
  BY SizesAssumption DEF TypeOK, Local, Ages

LEMMA RefreshType ==
  ASSUME TypeOK, NEW d \in Drains, NEW e \in Events, Refresh(d, e)
  PROVE  /\ pc' \in [Drains -> Steps]
         /\ local' \in [Drains -> Local]
         /\ \A x \in Drains : pc'[x] # "idle" => local'[x].event \in Events
<1>1. [Blank EXCEPT !.event = e] \in Local /\ [Blank EXCEPT !.event = e].event = e
  BY BlankType DEF Local, Events
<1> QED
  BY <1>1, GotoType DEF Refresh, Steps

LEMMA ReturnType ==
  ASSUME TypeOK, NEW d \in Drains, Return(d)
  PROVE  /\ pc' \in [Drains -> Steps]
         /\ local' \in [Drains -> Local]
         /\ \A x \in Drains : pc'[x] # "idle" => local'[x].event \in Events
  BY BlankType, GotoType DEF Return, Steps

LEMMA StepType == TypeOK /\ [Next]_vars => TypeOK'
<1> SUFFICES ASSUME TypeOK, [Next]_vars PROVE TypeOK'
  OBVIOUS
<1>1. ASSUME NEW e \in Events, AppendEvent(e) PROVE TypeOK'
  BY <1>1 DEF AppendEvent, TypeOK, DeliveryStatus
<1>2. CASE Tick
  <2>1. deliveries' \in [Events -> Seq(Delivery)]
    BY <1>2, AgedUpdates DEF Tick, TypeOK, Updates
  <2>2. ASSUME NEW d \in Drains, pc[d] \in Deciding
        PROVE  /\ [local[d] EXCEPT !.age = @ + 1] \in Local
               /\ [local[d] EXCEPT !.age = @ + 1].event = local[d].event
    <3>1. local[d] \in Local /\ local[d].age + 1 \in Ages
      BY <1>2, <2>2, SizesAssumption DEF Tick, TypeOK, Local, Ages
    <3> QED
      BY <3>1 DEF Local
  <2>3. local' \in [Drains -> Local] /\ \A d \in Drains : local'[d].event = local[d].event
    BY <1>2, <2>2 DEF Tick, TypeOK
  <2> QED
    BY <1>2, <2>1, <2>3 DEF Tick, TypeOK
<1>3. CASE Deploy
  BY <1>3, TablesAssumption DEF Deploy, TypeOK
<1>4. ASSUME NEW d \in Drains, Crash(d) PROVE TypeOK'
  <2>1. crashes' \in 0 .. MaxCrashes
    BY <1>4, SizesAssumption DEF Crash, TypeOK
  <2>2. Return(d)
    BY <1>4 DEF Crash, Return, Goto
  <2> QED
    BY <1>4, <2>1, <2>2, ReturnType DEF Crash, TypeOK
<1>5. ASSUME NEW d \in Drains, Find(d) PROVE TypeOK'
  <2>1. PICK e \in Least({f \in Candidates : EventDue(f)}) :
          LET held    == [Blank EXCEPT !.event = e]
              missing == Handlers(e) \ ConsumersOf(deliveries[e])
          IN  \/ Goto(d, "noHandler", held)
              \/ Goto(d, "reconcile", [held EXCEPT !.missing = missing])
              \/ Select(d, held, deliveries[e])
    BY <1>5 DEF Find
  <2> DEFINE held    == [Blank EXCEPT !.event = e]
             missing == Handlers(e) \ ConsumersOf(deliveries[e])
  <2>2. e \in Events /\ deliveries[e] \in Seq(Delivery)
    BY <2>1 DEF Least, Candidates, Open, TypeOK
  <2>3. held \in Local /\ held.event = e
    BY <2>2, BlankType DEF Local, Events
  <2>4. missing \in SUBSET Consumers
    BY <2>2, TablesAssumption DEF Handlers, TypeOK
  <2>5. \/ Goto(d, "noHandler", held)
        \/ Goto(d, "reconcile", [held EXCEPT !.missing = missing])
        \/ Select(d, held, deliveries[e])
    BY <2>1
  <2> HIDE DEF held, missing
  <2>6. [held EXCEPT !.missing = missing] \in Local
        /\ [held EXCEPT !.missing = missing].event = e
    BY <2>3, <2>4 DEF Local
  <2>7. /\ pc' \in [Drains -> Steps]
        /\ local' \in [Drains -> Local]
        /\ \A x \in Drains : pc'[x] # "idle" => local'[x].event \in Events
    BY <2>2, <2>3, <2>5, <2>6, GotoType, SelectType DEF Steps
  <2> QED
    BY <1>5, <2>7 DEF Find, TypeOK
<1>6. ASSUME NEW d \in Drains, DeadLetterEvent(d) PROVE TypeOK'
  BY <1>6, ReturnType DEF DeadLetterEvent, TypeOK, DeliveryStatus
<1>7. ASSUME NEW d \in Drains, Reconcile(d) PROVE TypeOK'
  <2> DEFINE held == local[d]
  <2>1. pc[d] # "idle"
    BY <1>7 DEF Reconcile
  <2>2. deliveries' \in [Events -> Seq(Delivery)]
    <3>1. PICK order \in InOrder(held.missing) :
            deliveries' = [deliveries EXCEPT ![held.event] =
                              @ \o NewDeliveries(order, held.age)]
      BY <1>7 DEF Reconcile
    <3>2. deliveries[held.event] \o NewDeliveries(order, held.age) \in Seq(Delivery)
      BY <2>1, HeldType, PushType DEF Pushed
    <3> QED
      BY <2>1, <3>1, <3>2, HeldType DEF TypeOK
  <2>3. [held EXCEPT !.missing = {}] \in Local /\ [held EXCEPT !.missing = {}].event \in Events
    BY <2>1, HeldType DEF Local
  <2>4. /\ pc' \in [Drains -> Steps]
        /\ local' \in [Drains -> Local]
        /\ \A x \in Drains : pc'[x] # "idle" => local'[x].event \in Events
    BY <1>7, <2>3, GotoType DEF Reconcile, Steps
  <2> QED
    BY <1>7, <2>1, <2>2, <2>4, HeldType DEF Reconcile, TypeOK, DeliveryStatus
<1>8. ASSUME NEW d \in Drains, Reread(d) PROVE TypeOK'
  <2>1. pc[d] # "idle"
    BY <1>8 DEF Reread
  <2> QED
    BY <1>8, <2>1, HeldType, SelectType DEF Reread, TypeOK
<1>9. ASSUME NEW d \in Drains, Claim(d) PROVE TypeOK'
  <2> DEFINE held == local[d]
             ds   == deliveries[held.event]
  <2>1. pc[d] # "idle"
    BY <1>9 DEF Claim
  <2>2. CASE Return(d) /\ UNCHANGED <<status, deliveries>>
    BY <1>9, <2>2, ReturnType DEF Claim, TypeOK
  <2>3. CASE /\ deliveries' = [deliveries EXCEPT ![held.event] =
                                   Claimed(ds, d, held.consumer, held.age)]
             /\ status' = [status EXCEPT ![held.event] = "PROCESSING"]
             /\ Goto(d, "handle", [held EXCEPT !.age = 0, !.attempts = OneMore(@)])
    <3>1. deliveries' \in [Events -> Seq(Delivery)]
      BY <2>1, <2>3, HeldType, ClaimedUpdates DEF TypeOK, Updates
    <3>2. /\ [held EXCEPT !.age = 0, !.attempts = OneMore(@)] \in Local
          /\ [held EXCEPT !.age = 0, !.attempts = OneMore(@)].event \in Events
      <4>1. [held EXCEPT !.age = 0] \in Local /\ [held EXCEPT !.age = 0].event = held.event
        BY <2>1, HeldType, ForgetAgeType
      <4>2. OneMore(held.attempts) \in Attempts
        BY <2>1, HeldType, OneMoreType
      <4> DEFINE h == [held EXCEPT !.age = 0]
      <4>3. [held EXCEPT !.age = 0, !.attempts = OneMore(@)]
              = [h EXCEPT !.attempts = OneMore(held.attempts)]
        BY <2>1, HeldType DEF Local
      <4>4. h \in Local /\ h.event \in Events
        BY <2>1, <4>1, HeldType
      <4> HIDE DEF h
      <4>5. /\ [h EXCEPT !.attempts = OneMore(held.attempts)] \in Local
            /\ [h EXCEPT !.attempts = OneMore(held.attempts)].event \in Events
        BY <4>2, <4>4 DEF Local
      <4> QED
        BY <4>3, <4>5
    <3>3. /\ pc' \in [Drains -> Steps]
          /\ local' \in [Drains -> Local]
          /\ \A x \in Drains : pc'[x] # "idle" => local'[x].event \in Events
      BY <2>3, <3>2, GotoType DEF Steps
    <3> QED
      BY <1>9, <2>1, <2>3, <3>1, <3>3, HeldType DEF Claim, TypeOK, DeliveryStatus
  <2> QED
    BY <1>9, <2>2, <2>3 DEF Claim
<1>10. ASSUME NEW d \in Drains, HandlerCompletes(d) \/ HandlerThrows(d) PROVE TypeOK'
  <2>1. pc[d] # "idle" /\ pc' \in [Drains -> Steps]
    BY <1>10 DEF HandlerCompletes, HandlerThrows, TypeOK, Steps
  <2>2. ASSUME NEW runs \in [Consumers -> 0 .. Many], NEW c \in Consumers
        PROVE  OneMoreRun(c, runs) \in [Consumers -> 0 .. Many]
    BY SizesAssumption DEF OneMoreRun
  <2>3. effects' \in [Events -> [Consumers -> 0 .. Many]]
    <3> DEFINE e == local[d].event
               c == local[d].consumer
    <3>1. e \in Events /\ c \in Consumers /\ effects[e] \in [Consumers -> 0 .. Many]
      BY <2>1, HeldType DEF TypeOK
    <3>2. effects' = effects \/ effects' = [effects EXCEPT ![e] = OneMoreRun(c, effects[e])]
      BY <1>10 DEF HandlerCompletes, HandlerThrows
    <3>3. OneMoreRun(c, effects[e]) \in [Consumers -> 0 .. Many]
      BY <2>2, <3>1
    <3> QED
      BY <3>1, <3>2, <3>3 DEF TypeOK
  <2>4. \A x \in Drains : pc'[x] # "idle" => local'[x].event \in Events
    BY <1>10, <2>1 DEF HandlerCompletes, HandlerThrows, TypeOK
  <2> QED
    BY <1>10, <2>1, <2>3, <2>4 DEF HandlerCompletes, HandlerThrows, TypeOK
<1>11. ASSUME NEW d \in Drains, MarkPublished(d) PROVE TypeOK'
  <2>1. pc[d] # "idle"
    BY <1>11 DEF MarkPublished
  <2>2. deliveries' \in [Events -> Seq(Delivery)]
    <3> DEFINE e  == local[d].event
               es == Published(deliveries[e], d, local[d].consumer)
    <3>1. e \in Events /\ es \in Seq(Delivery)
      BY <2>1, HeldType, PublishedUpdates DEF Updates
    <3>2. deliveries' = [deliveries EXCEPT ![e] = es]
      BY <1>11 DEF MarkPublished
    <3> QED
      BY <3>1, <3>2 DEF TypeOK
  <2> QED
    BY <1>11, <2>1, <2>2, HeldType, RefreshType DEF MarkPublished, TypeOK
<1>12. ASSUME NEW d \in Drains, MarkPublishedThrows(d) PROVE TypeOK'
  <2>1. pc[d] # "idle"
    BY <1>12 DEF MarkPublishedThrows
  <2>2. deliveries' \in [Events -> Seq(Delivery)]
    <3> DEFINE e  == local[d].event
               es == Published(deliveries[e], d, local[d].consumer)
    <3>1. e \in Events /\ es \in Seq(Delivery)
      BY <2>1, HeldType, PublishedUpdates DEF Updates
    <3>2. deliveries' = deliveries \/ deliveries' = [deliveries EXCEPT ![e] = es]
      BY <1>12 DEF MarkPublishedThrows
    <3> QED
      BY <3>1, <3>2 DEF TypeOK
  <2> QED
    BY <1>12, <2>1, <2>2, HeldType, GotoType DEF MarkPublishedThrows, TypeOK, Steps
<1>13. ASSUME NEW d \in Drains, MarkFailed(d) \/ MarkRemoved(d) PROVE TypeOK'
  <2>1. pc[d] # "idle"
    BY <1>13 DEF MarkFailed, MarkRemoved
  <2>2. local[d].attempts \in Nat
    BY <2>1, SizesAssumption, HeldType DEF Attempts
  <2>3. deliveries' \in [Events -> Seq(Delivery)]
    <3> DEFINE e         == local[d].event
               es(delay) == Failed(deliveries[e], d, local[d].consumer,
                                   local[d].attempts, delay)
    <3>1. PICK delay \in Backoffs : deliveries' = [deliveries EXCEPT ![e] = es(delay)]
      BY <1>13 DEF MarkFailed, MarkRemoved
    <3>2. e \in Events /\ es(delay) \in Seq(Delivery)
      BY <2>1, <2>2, HeldType, FailedUpdates DEF Updates
    <3> QED
      BY <3>1, <3>2 DEF TypeOK
  <2>4. /\ pc' \in [Drains -> Steps]
        /\ local' \in [Drains -> Local]
        /\ \A x \in Drains : pc'[x] # "idle" => local'[x].event \in Events
    BY <1>13, <2>1, HeldType, RefreshType, ReturnType DEF MarkFailed, MarkRemoved
  <2> QED
    BY <1>13, <2>3, <2>4 DEF MarkFailed, MarkRemoved, TypeOK
<1>14. ASSUME NEW d \in Drains, RefreshRead(d) PROVE TypeOK'
  <2> DEFINE s == AggregateStatus(deliveries[local[d].event], Expected[local[d].event])
  <2>1. pc[d] # "idle"
    BY <1>14 DEF RefreshRead
  <2>2. s \in DeliveryStatus
    BY DEF AggregateStatus, DeliveryStatus
  <2>3. Goto(d, "write", [local[d] EXCEPT !.seen = s])
    BY <1>14 DEF RefreshRead
  <2> HIDE DEF s
  <2>4. [local[d] EXCEPT !.seen = s] \in Local /\ [local[d] EXCEPT !.seen = s].event \in Events
    BY <2>1, <2>2, HeldType DEF Local
  <2> QED
    BY <1>14, <2>3, <2>4, GotoType DEF RefreshRead, TypeOK, Steps
<1>15. ASSUME NEW d \in Drains, RefreshWrite(d) PROVE TypeOK'
  <2>1. pc[d] # "idle"
    BY <1>15 DEF RefreshWrite
  <2> QED
    BY <1>15, <2>1, HeldType, ReturnType DEF RefreshWrite, TypeOK
<1>16. CASE UNCHANGED vars
  BY <1>16 DEF vars, TypeOK
<1> QED
  BY <1>1, <1>2, <1>3, <1>4, <1>5, <1>6, <1>7, <1>8, <1>9, <1>10, <1>11, <1>12, <1>13,
     <1>14, <1>15, <1>16 DEF Next, DrainStep

\* Every document and every drain keeps its type in every reachable state.
THEOREM TypeCorrect == Spec => []TypeOK
<1>1. Init => TypeOK
  BY InitType
<1>2. TypeOK /\ [Next]_vars => TypeOK'
  BY StepType
<1> QED
  BY <1>1, <1>2, PTL DEF Spec

----------------------------------------------------------------------------
(* No silent loss                                                             *)

Handled(e, c) == effects[e][c] > 0

\* What a drain knows about its event, between any two of its steps: once it has
\* reconciled, every handler of the release has a delivery; what it still has to
\* push is missing handlers; the handler it reports as successful did complete;
\* and when it is about to write PUBLISHED, nobody can have added a consumer that
\* has not been handled, for every handler already had a delivery when it read.
DrainOK(d) ==
    LET e == local[d].event
    IN  /\ pc[d] \notin {"idle", "noHandler", "reconcile"} =>
              Handlers(e) \subseteq ConsumersOf(deliveries[e])
        /\ pc[d] = "reconcile" =>
              /\ local[d].missing \subseteq Handlers(e)
              /\ Handlers(e) \subseteq local[d].missing \cup ConsumersOf(deliveries[e])
        /\ pc[d] = "publish" => Handled(e, local[d].consumer)
        /\ pc[d] = "write" /\ local[d].seen = "PUBLISHED" =>
              \A c \in ConsumersOf(deliveries[e]) \cup Expected[e] : Handled(e, c)

HandledInv == PublishedMeansHandled /\ \A d \in Drains : DrainOK(d)

\* The steps that write a deliveries array entry by entry: an entry is newly
\* PUBLISHED only if its handler completed.
Sound(es, ds, e) ==
    \E c \in Consumers : \E gained \in SUBSET DeliveryStatus :
        Updates(es, ds, c, gained) /\ ("PUBLISHED" \in gained => Handled(e, c))

\* What every step of the relay but Deploy grants the drains that do not take it.
Growth ==
    /\ registered' = registered
    /\ \A e \in Events : \A c \in Consumers : Handled(e, c) => effects'[e][c] > 0
    /\ \A e \in Events :
          /\ ConsumersOf(deliveries[e]) \subseteq ConsumersOf(deliveries'[e])
          /\ ConsumersOf(deliveries'[e]) \subseteq ConsumersOf(deliveries[e]) \cup Handlers(e)

LEMMA UnchangedSound ==
  ASSUME TypeOK, NEW e \in Events
  PROVE  Sound(deliveries[e], deliveries[e], e)
<1>1. PICK c \in Consumers : TRUE
  BY ConsumersAssumption
<1>2. Updates(deliveries[e], deliveries[e], c, {})
  BY DEF Updates, TypeOK
<1> QED
  BY <1>2 DEF Sound

LEMMA ConsumersType ==
  ASSUME NEW ds \in Seq(Delivery)
  PROVE  ConsumersOf(ds) \subseteq Consumers
  BY EntryType DEF ConsumersOf, Delivery

\* Steps that update, publish for good reason and close for good reason keep
\* PublishedMeansHandled and take nothing from the other drains.
LEMMA SoundStep ==
  ASSUME TypeOK, PublishedMeansHandled, registered' = registered,
         \A e \in Events : \A c \in Consumers : Handled(e, c) => effects'[e][c] > 0,
         \A e \in Events : Sound(deliveries'[e], deliveries[e], e),
         \A e \in Events : status'[e] = "PUBLISHED" =>
            \/ status[e] = "PUBLISHED"
            \/ \A c \in ConsumersOf(deliveries[e]) \cup Expected[e] : Handled(e, c)
  PROVE  Growth /\ PublishedMeansHandled'
<1>1. ASSUME NEW e \in Events
      PROVE  ConsumersOf(deliveries'[e]) = ConsumersOf(deliveries[e])
  BY UpdatesConsumers DEF Sound
<1>2. ASSUME NEW e \in Events, NEW i \in DOMAIN deliveries'[e],
             deliveries'[e][i].status = "PUBLISHED"
      PROVE  effects'[e][deliveries'[e][i].consumer] > 0
  <2>1. PICK c \in Consumers, gained \in SUBSET DeliveryStatus :
              /\ Updates(deliveries'[e], deliveries[e], c, gained)
              /\ "PUBLISHED" \in gained => Handled(e, c)
    BY DEF Sound
  <2>2. i \in DOMAIN deliveries[e] /\ deliveries'[e][i].consumer = deliveries[e][i].consumer
    BY <2>1 DEF Updates
  <2>3. deliveries[e][i].consumer \in Consumers
    BY <2>2, EntryType DEF TypeOK, Delivery
  <2>4. Handled(e, deliveries[e][i].consumer)
    BY <1>2, <2>1, <2>2 DEF Updates, PublishedMeansHandled, Handled
  <2> QED
    BY <2>2, <2>3, <2>4
<1>3. ASSUME NEW e \in Events, status'[e] = "PUBLISHED",
             NEW c \in ConsumersOf(deliveries'[e]) \cup Expected[e]
      PROVE  effects'[e][c] > 0
  <2>1. c \in Consumers
    BY <1>1, ConsumersType, TablesAssumption DEF TypeOK
  <2>2. Handled(e, c)
    BY <1>1, <1>3 DEF PublishedMeansHandled, Handled
  <2> QED
    BY <2>1, <2>2
<1> QED
  BY <1>1, <1>2, <1>3 DEF Growth, PublishedMeansHandled

\* A drain that does not move keeps what it knows.
LEMMA Bystander ==
  ASSUME TypeOK, HandledInv, Growth, NEW x \in Drains, pc'[x] = pc[x],
         local'[x].event = local[x].event, local'[x].missing = local[x].missing,
         local'[x].consumer = local[x].consumer, local'[x].seen = local[x].seen
  PROVE  DrainOK(x)'
<1>1. CASE pc[x] = "idle"
  BY <1>1 DEF DrainOK
<1>2. CASE pc[x] # "idle"
  <2> DEFINE e == local[x].event
  <2>1. e \in Events /\ local[x].consumer \in Consumers /\ DrainOK(x)
    BY <1>2, HeldType DEF HandledInv
  <2>2. Handlers(e)' = Handlers(e)
    BY DEF Growth, Handlers
  <2>3. ConsumersOf(deliveries[e]) \cup Expected[e] \subseteq Consumers
    BY <2>1, ConsumersType, TablesAssumption DEF TypeOK
  <2>4. pc[x] \notin {"idle", "noHandler", "reconcile"} =>
            /\ Handlers(e) \subseteq ConsumersOf(deliveries[e])
            /\ ConsumersOf(deliveries'[e]) = ConsumersOf(deliveries[e])
    BY <2>1 DEF DrainOK, Growth
  <2>5. (pc[x] = "write" /\ local[x].seen = "PUBLISHED") =>
            \A c \in ConsumersOf(deliveries'[e]) \cup Expected[e] : effects'[e][c] > 0
    BY <2>1, <2>3, <2>4 DEF DrainOK, Growth
  <2>6. pc[x] = "publish" => effects'[e][local[x].consumer] > 0
    BY <2>1 DEF DrainOK, Growth
  <2>7. pc[x] = "reconcile" =>
            /\ local[x].missing \subseteq Handlers(e)
            /\ Handlers(e) \subseteq local[x].missing \cup ConsumersOf(deliveries'[e])
    BY <2>1 DEF DrainOK, Growth
  <2> QED
    BY <2>2, <2>4, <2>5, <2>6, <2>7 DEF DrainOK, Handled, Handlers, Growth
<1> QED
  BY <1>1, <1>2


\* The drain that moves: what it must know at its next step.
LEMMA Mover ==
  ASSUME TypeOK, HandledInv, Growth, PublishedMeansHandled',
         NEW d \in Drains, NEW step \in Steps, NEW held \in Local, Goto(d, step, held),
         step \notin {"idle", "noHandler", "reconcile"} =>
            Handlers(held.event) \subseteq ConsumersOf(deliveries'[held.event]),
         step = "reconcile" =>
            /\ held.missing \subseteq Handlers(held.event)
            /\ Handlers(held.event) \subseteq
                  held.missing \cup ConsumersOf(deliveries'[held.event]),
         step = "publish" => effects'[held.event][held.consumer] > 0,
         step = "write" /\ held.seen = "PUBLISHED" =>
            \A c \in ConsumersOf(deliveries'[held.event]) \cup Expected[held.event] :
                effects'[held.event][c] > 0
  PROVE  HandledInv'
<1>1. ASSUME NEW x \in Drains, x # d PROVE DrainOK(x)'
  <2>1. pc'[x] = pc[x] /\ local'[x] = local[x]
    BY <1>1 DEF Goto, TypeOK
  <2> QED
    BY <2>1, Bystander
<1>2. DrainOK(d)'
  <2>1. pc'[d] = step /\ local'[d] = held
    BY DEF Goto, TypeOK
  <2>2. registered' = registered
    BY DEF Growth
  <2> QED
    BY <2>1, <2>2 DEF DrainOK, Handled, Handlers
<1> QED
  BY <1>1, <1>2 DEF HandledInv

\* A step that leaves the documents alone.
LEMMA QuietGrowth ==
  ASSUME TypeOK, HandledInv, UNCHANGED <<registered, deliveries, effects>>,
         \A e \in Events : status'[e] = "PUBLISHED" =>
            \/ status[e] = "PUBLISHED"
            \/ \A c \in ConsumersOf(deliveries[e]) \cup Expected[e] : Handled(e, c)
  PROVE  Growth /\ PublishedMeansHandled'
<1>1. \A e \in Events : \A c \in Consumers : Handled(e, c) => effects'[e][c] > 0
  BY DEF Handled
<1>2. \A e \in Events : Sound(deliveries'[e], deliveries[e], e)
  BY UnchangedSound
<1> QED
  BY <1>1, <1>2, SoundStep DEF HandledInv

\* Selection keeps the knowledge that every handler has a delivery.
LEMMA SelectOK ==
  ASSUME TypeOK, HandledInv, Growth, PublishedMeansHandled',
         NEW d \in Drains, NEW held \in Local, held.event \in Events,
         deliveries' = deliveries,
         Handlers(held.event) \subseteq ConsumersOf(deliveries[held.event]),
         Select(d, held, deliveries[held.event])
  PROVE  HandledInv'
<1> DEFINE ds == deliveries[held.event]
<1>1. CASE Refresh(d, held.event)
  <2>1. [Blank EXCEPT !.event = held.event] \in Local
        /\ [Blank EXCEPT !.event = held.event].event = held.event
    BY BlankType DEF Local
  <2> QED
    BY <1>1, <2>1, Mover DEF Refresh, Steps
<1>2. CASE \E i \in Least(DueIndices(ds, held.age)) :
             LET chosen == [held EXCEPT !.consumer = ds[i].consumer,
                                        !.attempts = ds[i].attempts]
             IN  \/ Goto(d, "claim", chosen)
                 \/ Goto(d, "removed", [chosen EXCEPT !.age = 0])
  <2>1. PICK i \in Least(DueIndices(ds, held.age)) :
             LET chosen == [held EXCEPT !.consumer = ds[i].consumer,
                                        !.attempts = ds[i].attempts]
             IN  \/ Goto(d, "claim", chosen)
                 \/ Goto(d, "removed", [chosen EXCEPT !.age = 0])
    BY <1>2
  <2> DEFINE chosen == [held EXCEPT !.consumer = ds[i].consumer, !.attempts = ds[i].attempts]
  <2>2. ds[i] \in Delivery
    BY EntryType DEF Least, DueIndices, TypeOK
  <2>3. chosen \in Local /\ chosen.event = held.event
    BY <2>2 DEF Local, Delivery
  <2>4. Goto(d, "claim", chosen) \/ Goto(d, "removed", [chosen EXCEPT !.age = 0])
    BY <2>1
  <2> HIDE DEF chosen
  <2>5. [chosen EXCEPT !.age = 0] \in Local /\ [chosen EXCEPT !.age = 0].event = held.event
    BY <2>3, ForgetAgeType
  <2>6. CASE Goto(d, "claim", chosen)
    BY <2>3, <2>6, Mover DEF Steps
  <2>7. CASE Goto(d, "removed", [chosen EXCEPT !.age = 0])
    BY <2>5, <2>7, Mover DEF Steps
  <2> QED
    BY <2>4, <2>6, <2>7
<1> QED
  BY <1>1, <1>2 DEF Select

LEMMA ReturnOK ==
  ASSUME TypeOK, HandledInv, Growth, PublishedMeansHandled', NEW d \in Drains, Return(d)
  PROVE  HandledInv'
  BY BlankType, Mover DEF Return, Steps

\* The refresh after a step of the drain that wrote an outcome or found nothing due.
LEMMA RefreshOK ==
  ASSUME TypeOK, HandledInv, Growth, PublishedMeansHandled', NEW d \in Drains,
         pc[d] \notin {"idle", "noHandler", "reconcile"}, Refresh(d, local[d].event)
  PROVE  HandledInv'
<1> DEFINE held == [Blank EXCEPT !.event = local[d].event]
<1>1. held \in Local /\ held.event = local[d].event /\ held.event \in Events
  BY HeldType, BlankType DEF Local
<1>2. Handlers(held.event) \subseteq ConsumersOf(deliveries'[held.event])
  BY <1>1 DEF HandledInv, DrainOK, Growth
<1>3. Goto(d, "refresh", held)
  BY DEF Refresh
<1> HIDE DEF held
<1> QED
  BY <1>1, <1>2, <1>3, Mover DEF Steps

\* One event's deliveries updated, the other documents left alone.
LEMMA UpdateGrowth ==
  ASSUME TypeOK, HandledInv, UNCHANGED <<registered, effects>>,
         NEW e \in Events, NEW es, Sound(es, deliveries[e], e),
         deliveries' = [deliveries EXCEPT ![e] = es],
         \A f \in Events : status'[f] = "PUBLISHED" => status[f] = "PUBLISHED"
  PROVE  Growth /\ PublishedMeansHandled'
<1>1. \A f \in Events : \A c \in Consumers : Handled(f, c) => effects'[f][c] > 0
  BY DEF Handled
<1>2. \A f \in Events : Sound(deliveries'[f], deliveries[f], f)
  BY UnchangedSound DEF TypeOK
<1> QED
  BY <1>1, <1>2, SoundStep DEF HandledInv

LEMMA InitHandled == Init => HandledInv
  BY DEF Init, HandledInv, PublishedMeansHandled, DrainOK

\* reconcileDeliveries adds deliveries of handlers only, none of them PUBLISHED.
LEMMA ReconcileOK ==
  ASSUME TypeOK, HandledInv, NEW d \in Drains, Reconcile(d)
  PROVE  HandledInv'
<1> DEFINE held == local[d]
           e    == held.event
           next == [held EXCEPT !.missing = {}]
<1>1. /\ pc[d] = "reconcile" /\ DrainOK(d)
      /\ held \in Local /\ e \in Events /\ held.missing \in SUBSET Consumers
      /\ held.age \in Int /\ deliveries[e] \in Seq(Delivery)
  BY HeldType DEF Reconcile, HandledInv
<1>2. PICK order \in InOrder(held.missing) :
        deliveries' = [deliveries EXCEPT ![e] = @ \o NewDeliveries(order, held.age)]
  BY DEF Reconcile
<1> DEFINE es == deliveries[e] \o NewDeliveries(order, held.age)
<1>3. /\ ConsumersOf(es) = ConsumersOf(deliveries[e]) \cup held.missing
      /\ \A i \in DOMAIN es : es[i].status = "PUBLISHED" =>
            \E j \in DOMAIN deliveries[e] : deliveries[e][j] = es[i]
  <2>1. es = deliveries[e] \o NewDeliveries(order, held.age)
    OBVIOUS
  <2> HIDE DEF es, e, held
  <2>2. Pushed(es, deliveries[e], held.missing)
    BY <1>1, <2>1, PushType
  <2> QED
    BY <2>2 DEF Pushed
<1> HIDE DEF es
<1>4. /\ deliveries' = [deliveries EXCEPT ![e] = es]
      /\ status' = [status EXCEPT ![e] = "PENDING"]
      /\ UNCHANGED <<registered, effects>>
      /\ Goto(d, "reread", next)
  BY <1>2 DEF Reconcile, es
<1>5. deliveries'[e] = es /\ \A f \in Events : f # e => deliveries'[f] = deliveries[f]
  BY <1>1, <1>4 DEF TypeOK
<1>6. held.missing \subseteq Handlers(e)
      /\ Handlers(e) \subseteq held.missing \cup ConsumersOf(deliveries[e])
  BY <1>1 DEF DrainOK
<1>7. Growth
  <2>1. ASSUME NEW f \in Events
        PROVE  /\ ConsumersOf(deliveries[f]) \subseteq ConsumersOf(deliveries'[f])
               /\ ConsumersOf(deliveries'[f]) \subseteq ConsumersOf(deliveries[f]) \cup Handlers(f)
    BY <1>3, <1>5, <1>6
  <2> QED
    BY <1>4, <2>1 DEF Growth, Handled
<1>8. PublishedMeansHandled'
  <2>1. ASSUME NEW i \in DOMAIN es, es[i].status = "PUBLISHED"
        PROVE  effects[e][es[i].consumer] > 0
    BY <1>1, <1>3, <2>1 DEF HandledInv, PublishedMeansHandled
  <2>2. status'[e] = "PENDING" /\ \A f \in Events : f # e => status'[f] = status[f]
    BY <1>1, <1>4 DEF TypeOK
  <2>3. \A f \in Events : effects'[f] = effects[f]
    BY <1>4
  <2>4. ASSUME NEW f \in Events
        PROVE  /\ \A i \in DOMAIN deliveries'[f] : deliveries'[f][i].status = "PUBLISHED" =>
                      effects'[f][deliveries'[f][i].consumer] > 0
               /\ status'[f] = "PUBLISHED" =>
                      \A c \in ConsumersOf(deliveries'[f]) \cup Expected[f] : effects'[f][c] > 0
    <3>1. CASE f = e
      BY <1>5, <2>1, <2>2, <2>3, <3>1
    <3>2. CASE f # e
      BY <1>5, <2>2, <2>3, <3>2 DEF HandledInv, PublishedMeansHandled
    <3> QED
      BY <3>1, <3>2
  <2> QED
    BY <2>4 DEF PublishedMeansHandled
<1>9. next \in Local /\ next.event = e
  BY <1>1 DEF Local
<1>10. Handlers(e) \subseteq ConsumersOf(deliveries'[e])
  BY <1>3, <1>5, <1>6
<1> HIDE DEF next
<1> QED
  BY <1>4, <1>7, <1>8, <1>9, <1>10, Mover DEF Steps

\* The handler of the claimed delivery runs.
LEMMA HandlerOK ==
  ASSUME TypeOK, HandledInv, NEW d \in Drains, HandlerCompletes(d) \/ HandlerThrows(d)
  PROVE  HandledInv'
<1> DEFINE e == local[d].event
           c == local[d].consumer
<1>1. /\ pc[d] = "handle" /\ DrainOK(d)
      /\ local[d] \in Local /\ e \in Events /\ c \in Consumers
  BY HeldType DEF HandlerCompletes, HandlerThrows, HandledInv
<1>2. effects' = effects \/ effects' = [effects EXCEPT ![e] = OneMoreRun(c, effects[e])]
  BY DEF HandlerCompletes, HandlerThrows
<1>3. ASSUME NEW runs \in [Consumers -> 0 .. Many]
      PROVE  /\ OneMoreRun(c, runs)[c] > 0
             /\ \A x \in Consumers : runs[x] > 0 => OneMoreRun(c, runs)[x] > 0
  BY <1>1, SizesAssumption DEF OneMoreRun
<1>4. effects[e] \in [Consumers -> 0 .. Many]
  BY <1>1 DEF TypeOK
<1>5. \A f \in Events : \A x \in Consumers : Handled(f, x) => effects'[f][x] > 0
  BY <1>1, <1>2, <1>3, <1>4 DEF Handled, TypeOK
<1>6. HandlerCompletes(d) => effects'[e][c] > 0
  BY <1>1, <1>3, <1>4 DEF HandlerCompletes, TypeOK
<1>7. UNCHANGED <<registered, status, deliveries, local>>
  BY DEF HandlerCompletes, HandlerThrows
<1>8. Growth /\ PublishedMeansHandled'
  <2>1. \A f \in Events : Sound(deliveries'[f], deliveries[f], f)
    BY <1>7, UnchangedSound
  <2> QED
    BY <1>5, <1>7, <2>1, SoundStep DEF HandledInv
<1>9. Handlers(e) \subseteq ConsumersOf(deliveries'[e])
  BY <1>1, <1>7 DEF DrainOK
<1>10. local' = [local EXCEPT ![d] = local[d]]
  BY <1>7 DEF TypeOK
<1>11. CASE HandlerCompletes(d)
  <2>1. Goto(d, "publish", local[d])
    BY <1>10, <1>11 DEF Goto, HandlerCompletes
  <2> QED
    BY <1>1, <1>6, <1>8, <1>9, <1>11, <2>1, Mover DEF Steps
<1>12. CASE HandlerThrows(d)
  <2>1. Goto(d, "fail", local[d])
    BY <1>10, <1>12 DEF Goto, HandlerThrows
  <2> QED
    BY <1>1, <1>8, <1>9, <2>1, Mover DEF Steps
<1> QED
  BY <1>11, <1>12

\* The first query, and where it leads.
LEMMA FindOK ==
  ASSUME TypeOK, HandledInv, NEW d \in Drains, Find(d)
  PROVE  HandledInv'
<1>1. PICK e \in Least({f \in Candidates : EventDue(f)}) :
        LET held    == [Blank EXCEPT !.event = e]
            missing == Handlers(e) \ ConsumersOf(deliveries[e])
        IN  \/ Goto(d, "noHandler", held)
            \/ Goto(d, "reconcile", [held EXCEPT !.missing = missing])
            \/ missing = {} /\ Select(d, held, deliveries[e])
  BY DEF Find
<1> DEFINE held    == [Blank EXCEPT !.event = e]
           missing == Handlers(e) \ ConsumersOf(deliveries[e])
<1>2. e \in Events
  BY DEF Least, Candidates, Open
<1>3. held \in Local /\ held.event = e
  BY <1>2, BlankType DEF Local, Events
<1>4. Growth /\ PublishedMeansHandled'
  BY QuietGrowth DEF Find
<1>5. deliveries' = deliveries
  BY DEF Find
<1>6. missing \in SUBSET Consumers
  BY TablesAssumption, <1>2 DEF Handlers
<1>7. \/ Goto(d, "noHandler", held)
      \/ Goto(d, "reconcile", [held EXCEPT !.missing = missing])
      \/ missing = {} /\ Select(d, held, deliveries[e])
  BY <1>1
<1> HIDE DEF held
<1>8. CASE Goto(d, "noHandler", held)
  BY <1>3, <1>4, <1>8, Mover DEF Steps
<1>9. CASE Goto(d, "reconcile", [held EXCEPT !.missing = missing])
  <2> DEFINE h == [held EXCEPT !.missing = missing]
  <2>1. h \in Local /\ h.event = e /\ h.missing = missing
    BY <1>3, <1>6 DEF Local
  <2>2. Goto(d, "reconcile", h)
    BY <1>9
  <2>3. h.missing \subseteq Handlers(h.event)
        /\ Handlers(h.event) \subseteq h.missing \cup ConsumersOf(deliveries'[h.event])
    BY <1>5, <2>1
  <2> HIDE DEF h
  <2> QED
    BY <1>4, <2>1, <2>2, <2>3, Mover DEF Steps
<1>10. CASE missing = {} /\ Select(d, held, deliveries[e])
  BY <1>2, <1>3, <1>4, <1>5, <1>10, SelectOK
<1> QED
  BY <1>7, <1>8, <1>9, <1>10

\* The claim: no status becomes PUBLISHED by it.
LEMMA ClaimOK ==
  ASSUME TypeOK, HandledInv, NEW d \in Drains, Claim(d)
  PROVE  HandledInv'
<1> DEFINE held == local[d]
           e    == held.event
           es   == Claimed(deliveries[e], d, held.consumer, held.age)
<1>1. /\ pc[d] = "claim" /\ DrainOK(d) /\ held \in Local /\ e \in Events
      /\ held.consumer \in Consumers /\ held.age \in Int /\ held.attempts \in Attempts
      /\ deliveries[e] \in Seq(Delivery)
  BY HeldType DEF Claim, HandledInv
<1>2. CASE Return(d) /\ UNCHANGED <<status, deliveries>>
  <2>1. Growth /\ PublishedMeansHandled'
    BY <1>2, QuietGrowth DEF Claim
  <2> QED
    BY <1>2, <2>1, ReturnOK
<1>3. CASE /\ deliveries' = [deliveries EXCEPT ![e] = es]
           /\ status' = [status EXCEPT ![e] = "PROCESSING"]
           /\ Goto(d, "handle", [held EXCEPT !.age = 0, !.attempts = OneMore(@)])
  <2>1. Sound(es, deliveries[e], e)
    <3>1. Updates(es, deliveries[e], held.consumer, {"PROCESSING"})
      BY <1>1, ClaimedUpdates
    <3> QED
      BY <1>1, <3>1 DEF Sound, DeliveryStatus
  <2> HIDE DEF es
  <2>2. \A f \in Events : status'[f] = "PUBLISHED" => status[f] = "PUBLISHED"
    BY <1>3 DEF TypeOK
  <2>3. Growth /\ PublishedMeansHandled'
    BY <1>1, <1>3, <2>1, <2>2, UpdateGrowth DEF Claim
  <2> DEFINE h    == [held EXCEPT !.age = 0]
             next == [h EXCEPT !.attempts = OneMore(held.attempts)]
  <2>4. next \in Local /\ next.event = e
    <3>1. h \in Local /\ h.event = e
      BY <1>1, ForgetAgeType
    <3>2. OneMore(held.attempts) \in Attempts
      BY <1>1, OneMoreType
    <3> HIDE DEF h
    <3> QED
      BY <3>1, <3>2 DEF Local
  <2>5. next = [held EXCEPT !.age = 0, !.attempts = OneMore(@)]
    BY <1>1 DEF Local
  <2>6. Goto(d, "handle", next)
    BY <1>3, <2>5
  <2> HIDE DEF next
  <2>7. Handlers(e) \subseteq ConsumersOf(deliveries'[e])
    BY <1>1, <2>3 DEF DrainOK, Growth
  <2> QED
    BY <2>3, <2>4, <2>6, <2>7, Mover DEF Steps
<1> QED
  BY <1>2, <1>3 DEF Claim

\* markDeliveryPublished, applied or not: the handler of the delivery completed.
LEMMA PublishOK ==
  ASSUME TypeOK, HandledInv, NEW d \in Drains, MarkPublished(d) \/ MarkPublishedThrows(d)
  PROVE  HandledInv'
<1> DEFINE e  == local[d].event
           es == Published(deliveries[e], d, local[d].consumer)
<1>1. /\ pc[d] = "publish" /\ DrainOK(d) /\ local[d] \in Local /\ e \in Events
      /\ local[d].consumer \in Consumers /\ deliveries[e] \in Seq(Delivery)
  BY HeldType DEF MarkPublished, MarkPublishedThrows, HandledInv
<1>2. Sound(es, deliveries[e], e)
  <2>1. Updates(es, deliveries[e], local[d].consumer, {"PUBLISHED"})
    BY <1>1, PublishedUpdates
  <2> QED
    BY <1>1, <2>1 DEF Sound, DeliveryStatus, DrainOK
<1> HIDE DEF es
<1>3. \/ deliveries' = [deliveries EXCEPT ![e] = es]
      \/ deliveries' = deliveries
  BY DEF MarkPublished, MarkPublishedThrows, es
<1>4. UNCHANGED <<registered, status, effects>>
  BY DEF MarkPublished, MarkPublishedThrows
<1>5. Growth /\ PublishedMeansHandled'
  BY <1>1, <1>2, <1>3, <1>4, UpdateGrowth, QuietGrowth
<1>6. CASE MarkPublished(d)
  BY <1>1, <1>5, <1>6, RefreshOK DEF MarkPublished
<1>7. CASE MarkPublishedThrows(d)
  <2>1. Goto(d, "fail", local[d])
    BY <1>7 DEF MarkPublishedThrows
  <2>2. Handlers(e) \subseteq ConsumersOf(deliveries'[e])
    BY <1>1, <1>5 DEF DrainOK, Growth
  <2> QED
    BY <1>1, <1>5, <2>1, <2>2, Mover DEF Steps
<1> QED
  BY <1>6, <1>7

\* markDeliveryFailed never publishes.
LEMMA FailOK ==
  ASSUME TypeOK, HandledInv, NEW d \in Drains, MarkFailed(d) \/ MarkRemoved(d)
  PROVE  HandledInv'
<1> DEFINE e == local[d].event
           es(delay) == Failed(deliveries[e], d, local[d].consumer,
                               local[d].attempts, delay)
<1>1. /\ pc[d] \in {"fail", "removed"} /\ e \in Events
      /\ local[d].consumer \in Consumers /\ local[d].attempts \in Nat
      /\ deliveries[e] \in Seq(Delivery)
  BY SizesAssumption, HeldType DEF MarkFailed, MarkRemoved, Attempts
<1>2. PICK delay \in Backoffs : deliveries' = [deliveries EXCEPT ![e] = es(delay)]
  BY DEF MarkFailed, MarkRemoved
<1>3. Sound(es(delay), deliveries[e], e)
  <2>1. Updates(es(delay), deliveries[e], local[d].consumer, {"FAILED", "DEAD_LETTER"})
    BY <1>1, FailedUpdates
  <2> QED
    BY <1>1, <2>1 DEF Sound, DeliveryStatus
<1> HIDE DEF es
<1>4. UNCHANGED <<registered, status, effects>>
  BY DEF MarkFailed, MarkRemoved
<1>5. Growth /\ PublishedMeansHandled'
  BY <1>1, <1>2, <1>3, <1>4, UpdateGrowth
<1>6. CASE Refresh(d, e)
  BY <1>1, <1>5, <1>6, RefreshOK
<1>7. CASE Return(d)
  BY <1>5, <1>7, ReturnOK
<1> QED
  BY <1>6, <1>7 DEF MarkFailed, MarkRemoved

\* refreshAggregateStatus: PUBLISHED is read off deliveries that are all PUBLISHED
\* and that include every expected consumer; then it is written, however late.
LEMMA PublishedRead ==
  ASSUME TypeOK, HandledInv, NEW e \in Events,
         AggregateStatus(deliveries[e], Expected[e]) = "PUBLISHED"
  PROVE  \A c \in ConsumersOf(deliveries[e]) \cup Expected[e] : Handled(e, c)
<1>1. /\ Expected[e] \subseteq ConsumersOf(deliveries[e])
      /\ \A i \in DOMAIN deliveries[e] : deliveries[e][i].status = "PUBLISHED"
  BY DEF AggregateStatus
<1> QED
  BY <1>1 DEF ConsumersOf, HandledInv, PublishedMeansHandled, Handled

LEMMA RefreshReadOK ==
  ASSUME TypeOK, HandledInv, NEW d \in Drains, RefreshRead(d)
  PROVE  HandledInv'
<1> DEFINE e    == local[d].event
           s    == AggregateStatus(deliveries[e], Expected[e])
           next == [local[d] EXCEPT !.seen = s]
<1>1. pc[d] = "refresh" /\ DrainOK(d) /\ local[d] \in Local /\ e \in Events
  BY HeldType DEF RefreshRead, HandledInv
<1>2. s \in DeliveryStatus
  BY DEF AggregateStatus, DeliveryStatus
<1>3. Growth /\ PublishedMeansHandled'
  BY QuietGrowth DEF RefreshRead
<1>4. s = "PUBLISHED" =>
        \A c \in ConsumersOf(deliveries'[e]) \cup Expected[e] : effects'[e][c] > 0
  BY <1>1, PublishedRead DEF RefreshRead, Handled
<1>5. Goto(d, "write", next)
  BY DEF RefreshRead
<1> HIDE DEF s
<1>6. next \in Local /\ next.event = e /\ next.seen = s
  BY <1>1, <1>2 DEF Local
<1>7. Handlers(e) \subseteq ConsumersOf(deliveries'[e])
  BY <1>1, <1>3 DEF DrainOK, Growth
<1> HIDE DEF next
<1> QED
  BY <1>3, <1>4, <1>5, <1>6, <1>7, Mover DEF Steps

LEMMA StepHandled == TypeOK /\ HandledInv /\ [Next]_vars => HandledInv'
<1> SUFFICES ASSUME TypeOK, HandledInv, [Next]_vars PROVE HandledInv'
  OBVIOUS
<1>1. ASSUME NEW e \in Events, AppendEvent(e) PROVE HandledInv'
  <2>1. Growth /\ PublishedMeansHandled'
    BY <1>1, QuietGrowth DEF AppendEvent, TypeOK
  <2>2. \A x \in Drains : DrainOK(x)'
    BY <1>1, <2>1, Bystander DEF AppendEvent
  <2> QED
    BY <2>1, <2>2 DEF HandledInv
<1>2. CASE Tick
  <2>1. UNCHANGED <<registered, status, effects, pc>>
    BY <1>2 DEF Tick
  <2>2. \A e \in Events : Sound(deliveries'[e], deliveries[e], e)
    <3>1. \A e \in Events : \A c \in Consumers : Updates(deliveries'[e], deliveries[e], c, {})
      BY <1>2, AgedUpdates DEF Tick, TypeOK
    <3> QED
      BY <3>1, ConsumersAssumption DEF Sound
  <2>3. Growth /\ PublishedMeansHandled'
    BY <2>1, <2>2, SoundStep DEF HandledInv, Handled
  <2>4. ASSUME NEW x \in Drains
        PROVE  /\ local'[x].event = local[x].event /\ local'[x].missing = local[x].missing
               /\ local'[x].consumer = local[x].consumer /\ local'[x].seen = local[x].seen
    <3>1. local[x] \in Local
      BY DEF TypeOK
    <3>2. local'[x] = local[x] \/ local'[x] = [local[x] EXCEPT !.age = @ + 1]
      BY <1>2 DEF Tick
    <3> QED
      BY <3>1, <3>2 DEF Local
  <2>5. \A x \in Drains : DrainOK(x)'
    BY <2>1, <2>3, <2>4, Bystander
  <2> QED
    BY <2>3, <2>5 DEF HandledInv
<1>3. CASE Deploy
  <2>1. PublishedMeansHandled'
    BY <1>3 DEF Deploy, HandledInv, PublishedMeansHandled
  <2>2. \A x \in Drains : DrainOK(x)'
    BY <1>3 DEF Deploy, DrainOK
  <2> QED
    BY <2>1, <2>2 DEF HandledInv
<1>4. ASSUME NEW d \in Drains, Crash(d) PROVE HandledInv'
  <2>1. Growth /\ PublishedMeansHandled'
    BY <1>4, QuietGrowth DEF Crash
  <2> QED
    BY <1>4, <2>1, ReturnOK DEF Crash, Return, Goto
<1>5. ASSUME NEW d \in Drains, DeadLetterEvent(d) PROVE HandledInv'
  <2>1. Growth /\ PublishedMeansHandled'
    BY <1>5, QuietGrowth DEF DeadLetterEvent, TypeOK
  <2> QED
    BY <1>5, <2>1, ReturnOK DEF DeadLetterEvent
<1>6. ASSUME NEW d \in Drains, Reread(d) PROVE HandledInv'
  <2>1. Growth /\ PublishedMeansHandled'
    BY <1>6, QuietGrowth DEF Reread
  <2>2. /\ local[d] \in Local /\ local[d].event \in Events
        /\ Handlers(local[d].event) \subseteq ConsumersOf(deliveries[local[d].event])
    BY <1>6, HeldType DEF Reread, HandledInv, DrainOK
  <2> QED
    BY <1>6, <2>1, <2>2, SelectOK DEF Reread
<1>7. ASSUME NEW d \in Drains, RefreshWrite(d) PROVE HandledInv'
  <2>1. pc[d] = "write" /\ DrainOK(d) /\ local[d].event \in Events
    BY <1>7, HeldType DEF RefreshWrite, HandledInv
  <2>2. Growth /\ PublishedMeansHandled'
    BY <1>7, <2>1, QuietGrowth DEF RefreshWrite, DrainOK, TypeOK
  <2> QED
    BY <1>7, <2>2, ReturnOK DEF RefreshWrite
<1>8. CASE UNCHANGED vars
  BY <1>8 DEF vars, HandledInv, PublishedMeansHandled, DrainOK, Handled, Handlers
<1> QED
  BY <1>1, <1>2, <1>3, <1>4, <1>5, <1>6, <1>7, <1>8, FindOK, ReconcileOK, ClaimOK,
     HandlerOK, PublishOK, FailOK, RefreshReadOK DEF Next, DrainStep

LEMMA HandledInvariant == Spec => []HandledInv
<1>1. Init => HandledInv
  BY InitHandled
<1>2. TypeOK /\ TypeOK' /\ HandledInv /\ [Next]_vars => HandledInv'
  BY StepHandled
<1> QED
  BY <1>1, <1>2, TypeCorrect, PTL DEF Spec

\* In no run of any number of drains, whatever fails or dies on the way, is a
\* delivery or an event PUBLISHED whose handlers have not completed.
THEOREM NoSilentLoss == Spec => []PublishedMeansHandled
<1>1. HandledInv => PublishedMeansHandled
  BY DEF HandledInv
<1> QED
  BY <1>1, HandledInvariant, PTL

----------------------------------------------------------------------------
(* Attempts, leases and deliveries given up                                   *)

\* What a step may do to a deliveries array: entries stay and keep their consumer and
\* their attempts, a delivery in process changes hands when its lease is over, and
\* only those of the consumers of `dead` are given up.
Advances(es, ds, dead) ==
    /\ es \in Seq(Delivery)
    /\ \A i \in DOMAIN ds :
          /\ i \in DOMAIN es
          /\ es[i].consumer = ds[i].consumer
          /\ es[i].attempts >= ds[i].attempts
          /\ ds[i].status = "PROCESSING" /\ es[i].token \notin {ds[i].token, NoDrain}
                => ds[i].since >= Lease
    /\ \A i \in DOMAIN es : es[i].status = "DEAD_LETTER" =>
          \/ i \in DOMAIN ds /\ ds[i].status = "DEAD_LETTER"
          \/ es[i].consumer \in dead

LEMMA EntryParts ==
  ASSUME NEW ds \in Seq(Delivery), NEW i \in DOMAIN ds
  PROVE  /\ ds[i] \in Delivery /\ ds[i].attempts \in Attempts /\ ds[i].attempts \in Int
         /\ ds[i].since \in Int /\ ds[i].consumer \in Consumers
         /\ ds[i].token \in Drains \cup {NoDrain}
<1>1. ds[i] \in Delivery
  BY EntryType
<1>2. Attempts \subseteq Int
  BY SizesAssumption DEF Attempts
<1> QED
  BY <1>1, <1>2 DEF Delivery

LEMMA OneMoreGrows ==
  ASSUME NEW n \in Attempts
  PROVE  /\ OneMore(n) \in Attempts /\ OneMore(n) >= n
         /\ OneMore(n) = n + 1 \/ OneMore(n) = MaxAttempts
  BY SizesAssumption DEF OneMore, Attempts

LEMMA SameAdvances ==
  ASSUME NEW ds \in Seq(Delivery), NEW dead
  PROVE  Advances(ds, ds, dead)
<1>1. \A i \in DOMAIN ds : ds[i].attempts >= ds[i].attempts
  BY EntryParts
<1> QED
  BY <1>1 DEF Advances

\* An update that takes no entry away, entry by entry.
LEMMA EntryAdvances ==
  ASSUME NEW ds \in Seq(Delivery), NEW es \in Seq(Delivery), NEW dead,
         DOMAIN es = DOMAIN ds,
         \A i \in DOMAIN ds :
            /\ es[i].consumer = ds[i].consumer
            /\ es[i].attempts >= ds[i].attempts
            /\ ds[i].status = "PROCESSING" /\ es[i].token \notin {ds[i].token, NoDrain}
                  => ds[i].since >= Lease
            /\ es[i].status = "DEAD_LETTER" =>
                  ds[i].status = "DEAD_LETTER" \/ ds[i].consumer \in dead
  PROVE  Advances(es, ds, dead)
  BY DEF Advances

LEMMA AgedAdvances ==
  ASSUME NEW ds \in Seq(Delivery), NEW dead
  PROVE  Advances(Aged(ds), ds, dead)
<1> DEFINE es == Aged(ds)
<1>1. es \in Seq(Delivery) /\ DOMAIN es = DOMAIN ds
  BY AgedUpdates DEF Updates
<1>2. ASSUME NEW i \in DOMAIN ds
      PROVE  /\ es[i].consumer = ds[i].consumer /\ es[i].attempts = ds[i].attempts
             /\ es[i].token = ds[i].token /\ es[i].status = ds[i].status
             /\ ds[i].attempts \in Int
  BY EntryParts DEF Aged, Delivery
<1> HIDE DEF es
<1>3. \A i \in DOMAIN ds : es[i].attempts >= ds[i].attempts
  BY <1>2
<1> QED
  BY <1>1, <1>2, <1>3, EntryAdvances DEF es

\* A claim takes what is due: waiting, or in process for longer than its lease.
LEMMA ClaimedAdvances ==
  ASSUME NEW ds \in Seq(Delivery), NEW d \in Drains, NEW c \in Consumers, NEW age \in Ages,
         NEW dead
  PROVE  /\ Advances(Claimed(ds, d, c, age), ds, dead)
         /\ \A i \in Least(Claimable(ds, c, age)) :
               Claimed(ds, d, c, age)[i].attempts = OneMore(ds[i].attempts)
<1> DEFINE es    == Claimed(ds, d, c, age)
           first == Least(Claimable(ds, c, age))
<1>1. es \in Seq(Delivery) /\ DOMAIN es = DOMAIN ds
  BY ClaimedUpdates, SizesAssumption DEF Updates, Ages
<1>2. first \subseteq {i \in DOMAIN ds : Due(ds[i], age)}
  BY DEF Least, Claimable, DueIndices
<1>3. ASSUME NEW i \in DOMAIN ds, i \in first
      PROVE  /\ es[i].consumer = ds[i].consumer /\ es[i].status = "PROCESSING"
             /\ es[i].attempts = OneMore(ds[i].attempts)
  <2>1. PICK r \in Delivery : r = ds[i]
    BY EntryParts
  <2>2. es[i] = [r EXCEPT !.status = "PROCESSING", !.since = age,
                          !.attempts = OneMore(@), !.token = d]
    BY <1>3, <2>1 DEF Claimed
  <2> HIDE DEF es, first
  <2> QED
    BY <2>1, <2>2 DEF Delivery
<1>4. ASSUME NEW i \in DOMAIN ds, i \notin first
      PROVE  /\ es[i].consumer = ds[i].consumer /\ es[i].status = ds[i].status
             /\ es[i].attempts = ds[i].attempts /\ es[i].token \in {ds[i].token, NoDrain}
  <2>1. PICK r \in Delivery : r = ds[i]
    BY EntryParts
  <2>2. es[i] = r \/ es[i] = [r EXCEPT !.token = NoDrain]
    BY <1>4, <2>1 DEF Claimed
  <2> HIDE DEF es, first
  <2> QED
    BY <2>1, <2>2 DEF Delivery
<1>5. ASSUME NEW i \in DOMAIN ds, i \in first, ds[i].status = "PROCESSING"
      PROVE  ds[i].since >= Lease
  BY <1>2, <1>5, EntryParts, SizesAssumption DEF Due, Ages
<1> HIDE DEF es, first
<1>6. ASSUME NEW i \in DOMAIN ds
      PROVE  /\ es[i].consumer = ds[i].consumer
             /\ es[i].attempts >= ds[i].attempts
             /\ ds[i].status = "PROCESSING" /\ es[i].token \notin {ds[i].token, NoDrain}
                   => ds[i].since >= Lease
             /\ es[i].status = "DEAD_LETTER" => ds[i].status = "DEAD_LETTER"
  <2>1. ds[i].attempts \in Attempts /\ ds[i].attempts >= ds[i].attempts
    BY EntryParts
  <2> QED
    BY <1>3, <1>4, <1>5, <2>1, OneMoreGrows
<1>7. Advances(es, ds, dead)
  BY <1>1, <1>6, EntryAdvances
<1>8. \A i \in first : es[i].attempts = OneMore(ds[i].attempts)
  BY <1>2, <1>3
<1> QED
  BY <1>7, <1>8 DEF es, first

LEMMA PublishedAdvances ==
  ASSUME NEW ds \in Seq(Delivery), NEW d \in Drains, NEW c \in Consumers, NEW dead
  PROVE  Advances(Published(ds, d, c), ds, dead)
<1> DEFINE es == Published(ds, d, c)
<1>1. es \in Seq(Delivery) /\ DOMAIN es = DOMAIN ds
  BY PublishedUpdates DEF Updates
<1>2. ASSUME NEW i \in DOMAIN ds
      PROVE  /\ es[i].consumer = ds[i].consumer /\ es[i].attempts = ds[i].attempts
             /\ es[i].token \in {ds[i].token, NoDrain}
             /\ es[i].status \in {ds[i].status, "PUBLISHED"}
             /\ ds[i].attempts \in Int
  <2>1. PICK r \in Delivery : r = ds[i]
    BY EntryParts
  <2>2. es[i] = r \/ es[i] = [r EXCEPT !.status = "PUBLISHED", !.since = 0, !.token = NoDrain]
    BY <2>1 DEF Published
  <2> HIDE DEF es
  <2> QED
    BY <2>1, <2>2, EntryParts DEF Delivery
<1> HIDE DEF es
<1>3. \A i \in DOMAIN ds : es[i].attempts >= ds[i].attempts
  BY <1>2
<1> QED
  BY <1>1, <1>2, <1>3, EntryAdvances DEF es

LEMMA FailedAdvances ==
  ASSUME NEW ds \in Seq(Delivery), NEW d \in Drains, NEW c \in Consumers,
         NEW n \in Nat, NEW delay \in Backoffs, NEW dead, n >= MaxAttempts => c \in dead
  PROVE  Advances(Failed(ds, d, c, n, delay), ds, dead)
<1> DEFINE es    == Failed(ds, d, c, n, delay)
           first == Least({i \in DOMAIN ds : ds[i].consumer = c})
<1>1. es \in Seq(Delivery) /\ DOMAIN es = DOMAIN ds
  BY FailedUpdates DEF Updates
<1>2. ASSUME NEW i \in DOMAIN ds
      PROVE  /\ es[i].consumer = ds[i].consumer /\ es[i].attempts = ds[i].attempts
             /\ es[i].token \in {ds[i].token, NoDrain}
             /\ es[i].status = "DEAD_LETTER" =>
                   ds[i].status = "DEAD_LETTER" \/ (n >= MaxAttempts /\ ds[i].consumer = c)
             /\ ds[i].attempts \in Int
  <2>1. PICK r \in Delivery : r = ds[i]
    BY EntryParts
  <2>2. CASE i \in first
    <3>1. PICK t : t = IF n >= MaxAttempts THEN 0 ELSE 0 - delay
      OBVIOUS
    <3>2. PICK k : k = IF ClearsUndefined \/ r.token = d THEN NoDrain ELSE r.token
      OBVIOUS
    <3>3. PICK s : s = IF n >= MaxAttempts THEN "DEAD_LETTER" ELSE "FAILED"
      OBVIOUS
    <3>4. es[i] = [r EXCEPT !.status = s, !.since = t, !.token = k]
      BY <2>1, <2>2, <3>1, <3>2, <3>3 DEF Failed
    <3>5. ds[i].consumer = c
      BY <2>2 DEF Least
    <3> HIDE DEF es, first
    <3>6. es[i].consumer = r.consumer /\ es[i].attempts = r.attempts
          /\ es[i].token = k /\ es[i].status = s
      BY <3>4 DEF Delivery
    <3> QED
      BY <2>1, <3>2, <3>3, <3>5, <3>6, EntryParts
  <2>3. CASE i \notin first
    <3>1. es[i] = r
      BY <2>1, <2>3 DEF Failed
    <3> QED
      BY <2>1, <3>1, EntryParts
  <2> QED
    BY <2>2, <2>3
<1> HIDE DEF es
<1>3. \A i \in DOMAIN ds : es[i].attempts >= ds[i].attempts
  BY <1>2
<1> QED
  BY <1>1, <1>2, <1>3, EntryAdvances DEF es

LEMMA PushAdvances ==
  ASSUME NEW ds \in Seq(Delivery), NEW missing \in SUBSET Consumers, NEW age \in Int,
         NEW order \in InOrder(missing), NEW es, es = ds \o NewDeliveries(order, age),
         NEW dead
  PROVE  Advances(es, ds, dead)
<1> DEFINE new == NewDeliveries(order, age)
           n   == Cardinality(missing)
<1>1. n \in Nat /\ order \in [1 .. n -> missing]
  BY ConsumersAssumption, FS_Subset, FS_CardinalityType DEF InOrder
<1>2. \A i \in 1 .. n : new[i].status = "PENDING"
  BY <1>1 DEF NewDeliveries, NewDelivery
<1>3. new \in [1 .. n -> Delivery]
  BY SizesAssumption, <1>1
  DEF NewDeliveries, NewDelivery, Delivery, DeliveryStatus, Attempts
<1>4. new \in Seq(Delivery) /\ Len(new) = n
  BY <1>1, <1>3, SeqDef, LenProperties
<1>5. Len(ds) \in Nat /\ DOMAIN ds = 1 .. Len(ds)
  BY LenProperties
<1> HIDE DEF new
<1>6. /\ es \in Seq(Delivery)
      /\ Len(es) = Len(ds) + n
      /\ \A i \in 1 .. Len(ds) + n :
            es[i] = IF i <= Len(ds) THEN ds[i] ELSE new[i - Len(ds)]
  BY <1>4, ConcatProperties DEF new
<1>7. DOMAIN es = 1 .. Len(ds) + n
  BY <1>6, LenProperties
<1>8. \A i \in DOMAIN ds : i \in DOMAIN es /\ es[i] = ds[i]
  BY <1>1, <1>5, <1>6, <1>7
<1>9. ASSUME NEW i \in DOMAIN es, i \notin DOMAIN ds
      PROVE  es[i].status = "PENDING"
  <2>1. i - Len(ds) \in 1 .. n /\ ~ (i <= Len(ds))
    BY <1>1, <1>5, <1>7, <1>9
  <2> QED
    BY <1>2, <1>6, <1>7, <2>1
<1>10. \A i \in DOMAIN ds : ds[i].attempts >= ds[i].attempts
  BY EntryParts
<1> QED
  BY <1>6, <1>8, <1>9, <1>10 DEF Advances
\* The consumers whose deliveries of an event were claimed as often as allowed.
Exhausted(e) == {c \in Consumers : AttemptsReached(deliveries[e], c, MaxAttempts)}

\* The attempts a drain holds have been made: on the entry it read, before it claims;
\* after that on one entry of the consumer or over two.
Earned(d) ==
    LET ds == deliveries[local[d].event]
        c  == local[d].consumer
    IN  /\ pc[d] \in {"claim", "removed"} =>
              \E i \in DOMAIN ds : ds[i].consumer = c /\ ds[i].attempts >= local[d].attempts
        /\ pc[d] \in {"handle", "publish", "fail"} =>
              AttemptsReached(ds, c, local[d].attempts)

EarnedInv == DeadLetterEarned /\ \A d \in Drains : Earned(d)

LEMMA ReachedByOne ==
  ASSUME NEW ds, NEW c, NEW n, NEW i \in DOMAIN ds, ds[i].consumer = c, ds[i].attempts >= n
  PROVE  AttemptsReached(ds, c, n)
  BY DEF AttemptsReached

LEMMA ReachedByTwo ==
  ASSUME NEW ds, NEW c, NEW n, NEW i \in DOMAIN ds, NEW j \in DOMAIN ds, i # j,
         ds[i].consumer = c, ds[j].consumer = c, ds[i].attempts + ds[j].attempts >= n
  PROVE  AttemptsReached(ds, c, n)
  BY DEF AttemptsReached

\* Attempts once made stay made.
LEMMA ReachedKept ==
  ASSUME NEW ds \in Seq(Delivery), NEW es, NEW dead, Advances(es, ds, dead),
         NEW c, NEW n \in Int, AttemptsReached(ds, c, n)
  PROVE  AttemptsReached(es, c, n)
<1>1. es \in Seq(Delivery)
  BY DEF Advances
<1>2. ASSUME NEW i \in DOMAIN ds
      PROVE  /\ i \in DOMAIN es /\ es[i].consumer = ds[i].consumer
             /\ es[i].attempts >= ds[i].attempts
             /\ es[i].attempts \in Int /\ ds[i].attempts \in Int
  BY <1>1, EntryParts DEF Advances
<1>3. CASE \E i \in DOMAIN ds : ds[i].consumer = c /\ ds[i].attempts >= n
  <2>1. PICK i \in DOMAIN ds : ds[i].consumer = c /\ ds[i].attempts >= n
    BY <1>3
  <2>2. es[i].attempts >= n
    BY <1>2, <2>1
  <2> QED
    BY <1>2, <2>1, <2>2, ReachedByOne
<1>4. CASE \E i, j \in DOMAIN ds : /\ i # j /\ ds[i].consumer = c /\ ds[j].consumer = c
                                   /\ ds[i].attempts + ds[j].attempts >= n
  <2>1. PICK i \in DOMAIN ds, j \in DOMAIN ds :
           /\ i # j /\ ds[i].consumer = c /\ ds[j].consumer = c
           /\ ds[i].attempts + ds[j].attempts >= n
    BY <1>4
  <2>2. es[i].attempts + es[j].attempts >= n
    BY <1>2, <2>1
  <2> QED
    BY <1>2, <2>1, <2>2, ReachedByTwo
<1> QED
  BY <1>3, <1>4 DEF AttemptsReached

\* What every step grants: deliveries advance, and only where attempts are exhausted
\* one is given up.
Advance == \A e \in Events : Advances(deliveries'[e], deliveries[e], Exhausted(e))

LEMMA OneAdvance ==
  ASSUME TypeOK, NEW e \in Events, NEW es, Advances(es, deliveries[e], Exhausted(e)),
         \/ deliveries' = [deliveries EXCEPT ![e] = es]
         \/ deliveries' = deliveries
  PROVE  Advance
<1>1. \A f \in Events : deliveries[f] \in Seq(Delivery)
  BY DEF TypeOK
<1>2. \A f \in Events : deliveries'[f] = deliveries[f] \/ (f = e /\ deliveries'[f] = es)
  BY DEF TypeOK
<1> QED
  BY <1>1, <1>2, SameAdvances DEF Advance

LEMMA StillAdvance ==
  ASSUME TypeOK, deliveries' = deliveries
  PROVE  Advance
  BY SameAdvances DEF Advance, TypeOK

\* What a failed drain gives up, it may give up.
LEMMA EarnedExhausts ==
  ASSUME TypeOK, EarnedInv, NEW d \in Drains, pc[d] \in {"removed", "fail"},
         local[d].attempts >= MaxAttempts
  PROVE  local[d].consumer \in Exhausted(local[d].event)
<1> DEFINE ds == deliveries[local[d].event]
<1>1. /\ local[d].consumer \in Consumers /\ ds \in Seq(Delivery)
      /\ local[d].attempts \in Attempts /\ Earned(d)
  BY HeldType DEF EarnedInv
<1>2. local[d].attempts = MaxAttempts
  BY <1>1, SizesAssumption DEF Attempts
<1>3. AttemptsReached(ds, local[d].consumer, MaxAttempts)
  BY <1>1, <1>2, ReachedByOne DEF Earned
<1> QED
  BY <1>1, <1>3 DEF Exhausted

LEMMA StepAdvances ==
  ASSUME TypeOK, EarnedInv, [Next]_vars
  PROVE  Advance
<1>1. CASE Tick
  BY <1>1, AgedAdvances DEF Tick, TypeOK, Advance
<1>2. ASSUME NEW d \in Drains, Reconcile(d) PROVE Advance
  <2>1. PICK e \in Events : e = local[d].event
    BY <1>2, HeldType DEF Reconcile
  <2>2. PICK order, es :
          /\ order \in InOrder(local[d].missing)
          /\ es = deliveries[e] \o NewDeliveries(order, local[d].age)
          /\ deliveries' = [deliveries EXCEPT ![e] = es]
    BY <1>2, <2>1 DEF Reconcile
  <2>3. /\ local[d].missing \in SUBSET Consumers /\ local[d].age \in Int
        /\ deliveries[e] \in Seq(Delivery)
    BY <1>2, <2>1, HeldType DEF Reconcile
  <2> QED
    BY <2>2, <2>3, PushAdvances, OneAdvance
<1>3. ASSUME NEW d \in Drains, Claim(d) PROVE Advance
  <2>1. PICK e \in Events : e = local[d].event
    BY <1>3, HeldType DEF Claim
  <2>2. PICK es : es = Claimed(deliveries[e], d, local[d].consumer, local[d].age)
    OBVIOUS
  <2>3. local[d].consumer \in Consumers /\ local[d].age \in Ages /\ deliveries[e] \in Seq(Delivery)
    BY <1>3, <2>1, HeldType DEF Claim, Local
  <2>4. Advances(es, deliveries[e], Exhausted(e))
    BY <2>2, <2>3, ClaimedAdvances
  <2>5. \/ deliveries' = [deliveries EXCEPT ![e] = es]
        \/ deliveries' = deliveries
    BY <1>3, <2>1, <2>2 DEF Claim
  <2> QED
    BY <2>4, <2>5, OneAdvance
<1>4. ASSUME NEW d \in Drains, MarkPublished(d) \/ MarkPublishedThrows(d) PROVE Advance
  <2>1. PICK e \in Events : e = local[d].event
    BY <1>4, HeldType DEF MarkPublished, MarkPublishedThrows
  <2>2. PICK es : es = Published(deliveries[e], d, local[d].consumer)
    OBVIOUS
  <2>3. local[d].consumer \in Consumers /\ deliveries[e] \in Seq(Delivery)
    BY <1>4, <2>1, HeldType DEF MarkPublished, MarkPublishedThrows
  <2>4. Advances(es, deliveries[e], Exhausted(e))
    BY <2>2, <2>3, PublishedAdvances
  <2>5. \/ deliveries' = [deliveries EXCEPT ![e] = es]
        \/ deliveries' = deliveries
    BY <1>4, <2>1, <2>2 DEF MarkPublished, MarkPublishedThrows
  <2> QED
    BY <2>4, <2>5, OneAdvance
<1>5. ASSUME NEW d \in Drains, MarkFailed(d) \/ MarkRemoved(d) PROVE Advance
  <2>1. PICK e \in Events : e = local[d].event
    BY <1>5, HeldType DEF MarkFailed, MarkRemoved
  <2>2. PICK n : n = local[d].attempts
    OBVIOUS
  <2>3. PICK delay, es :
          /\ delay \in Backoffs
          /\ es = Failed(deliveries[e], d, local[d].consumer, n, delay)
          /\ deliveries' = [deliveries EXCEPT ![e] = es]
    BY <1>5, <2>1, <2>2 DEF MarkFailed, MarkRemoved
  <2>4. /\ local[d].consumer \in Consumers /\ deliveries[e] \in Seq(Delivery)
        /\ n \in Nat /\ pc[d] \in {"removed", "fail"}
    BY <1>5, <2>1, <2>2, HeldType, SizesAssumption DEF MarkFailed, MarkRemoved, Attempts
  <2>5. n >= MaxAttempts => local[d].consumer \in Exhausted(e)
    BY <2>1, <2>2, <2>4, EarnedExhausts
  <2> QED
    BY <2>3, <2>4, <2>5, FailedAdvances, OneAdvance
<1>6. CASE deliveries' = deliveries
  BY <1>6, StillAdvance
<1> QED
  BY <1>1, <1>2, <1>3, <1>4, <1>5, <1>6
  DEF Next, DrainStep, vars, AppendEvent, Deploy, Crash, Find, DeadLetterEvent, Reread,
      HandlerCompletes, HandlerThrows, RefreshRead, RefreshWrite

\* Attempts held stay earned for a drain that does not move or keeps what it holds.
LEMMA EarnedKept ==
  ASSUME TypeOK, Advance, NEW x \in Drains, Earned(x),
         pc'[x] \in {"claim", "removed"} => pc[x] = pc'[x],
         pc'[x] \in {"handle", "publish", "fail"} => pc[x] \in {"handle", "publish", "fail"},
         local'[x].event = local[x].event, local'[x].consumer = local[x].consumer,
         local'[x].attempts = local[x].attempts
  PROVE  Earned(x)'
<1>1. CASE pc[x] = "idle"
  BY <1>1 DEF Earned
<1>2. CASE pc[x] # "idle"
  <2> DEFINE ds == deliveries[local[x].event]
             es == deliveries'[local[x].event]
  <2>1. /\ Advances(es, ds, Exhausted(local[x].event)) /\ ds \in Seq(Delivery)
        /\ es \in Seq(Delivery) /\ local[x].attempts \in Int
    BY <1>2, HeldType, SizesAssumption DEF Advance, Advances, Attempts
  <2>2. ASSUME NEW i \in DOMAIN ds, ds[i].attempts >= local[x].attempts
        PROVE  /\ i \in DOMAIN es /\ es[i].consumer = ds[i].consumer
               /\ es[i].attempts >= local[x].attempts
    <3>1. /\ i \in DOMAIN es /\ es[i].consumer = ds[i].consumer
          /\ es[i].attempts >= ds[i].attempts
      BY <2>1 DEF Advances
    <3>2. ds[i].attempts \in Int /\ es[i].attempts \in Int
      BY <2>1, <3>1, EntryParts
    <3> QED
      BY <2>1, <2>2, <3>1, <3>2
  <2>3. AttemptsReached(ds, local[x].consumer, local[x].attempts) =>
            AttemptsReached(es, local[x].consumer, local[x].attempts)
    BY <2>1, ReachedKept
  <2> QED
    BY <2>2, <2>3 DEF Earned
<1> QED
  BY <1>1, <1>2

\* Deliveries given up stay rightly given up, and so are the new ones.
LEMMA DeadEarned ==
  ASSUME TypeOK, DeadLetterEarned, Advance
  PROVE  DeadLetterEarned'
<1>1. ASSUME NEW e \in Events, NEW i \in DOMAIN deliveries'[e],
             deliveries'[e][i].status = "DEAD_LETTER"
      PROVE  AttemptsReached(deliveries'[e], deliveries'[e][i].consumer, MaxAttempts)
  <2>1. /\ Advances(deliveries'[e], deliveries[e], Exhausted(e))
        /\ deliveries[e] \in Seq(Delivery) /\ MaxAttempts \in Int
    BY SizesAssumption DEF Advance, TypeOK
  <2>2. CASE i \in DOMAIN deliveries[e] /\ deliveries[e][i].status = "DEAD_LETTER"
    <3>1. AttemptsReached(deliveries[e], deliveries[e][i].consumer, MaxAttempts)
      BY <2>2 DEF DeadLetterEarned
    <3>2. deliveries'[e][i].consumer = deliveries[e][i].consumer
      BY <2>1, <2>2 DEF Advances
    <3> QED
      BY <2>1, <3>1, <3>2, ReachedKept
  <2>3. CASE deliveries'[e][i].consumer \in Exhausted(e)
    BY <2>1, <2>3, ReachedKept DEF Exhausted
  <2> QED
    BY <1>1, <2>1, <2>2, <2>3 DEF Advances
<1> QED
  BY <1>1 DEF DeadLetterEarned

\* The drain that moves, and all the others.
LEMMA EarnedMove ==
  ASSUME TypeOK, EarnedInv, Advance, NEW d \in Drains, NEW step, NEW held,
         Goto(d, step, held), Earned(d)'
  PROVE  EarnedInv'
<1>1. ASSUME NEW x \in Drains, x # d PROVE Earned(x)'
  <2>1. pc'[x] = pc[x] /\ local'[x] = local[x]
    BY <1>1 DEF Goto, TypeOK
  <2> QED
    BY <2>1, EarnedKept DEF EarnedInv
<1> QED
  BY <1>1, DeadEarned DEF EarnedInv

\* A drain that goes where no attempts count.
LEMMA EarnedElsewhere ==
  ASSUME TypeOK, EarnedInv, Advance, NEW d \in Drains, NEW step, NEW held,
         Goto(d, step, held),
         step \notin {"claim", "removed", "handle", "publish", "fail"}
  PROVE  EarnedInv'
<1>1. pc'[d] = step
  BY DEF Goto, TypeOK
<1> QED
  BY <1>1, EarnedMove DEF Earned

\* The selected entry has the attempts the drain takes along.
LEMMA SelectEarns ==
  ASSUME TypeOK, EarnedInv, Advance, NEW d \in Drains, NEW held \in Local,
         held.event \in Events, deliveries' = deliveries,
         Select(d, held, deliveries[held.event])
  PROVE  EarnedInv'
<1> DEFINE ds == deliveries[held.event]
<1>1. CASE Refresh(d, held.event)
  BY <1>1, EarnedElsewhere DEF Refresh
<1>2. CASE \E i \in Least(DueIndices(ds, held.age)) :
             LET chosen == [held EXCEPT !.consumer = ds[i].consumer,
                                        !.attempts = ds[i].attempts]
             IN  \/ Goto(d, "claim", chosen)
                 \/ Goto(d, "removed", [chosen EXCEPT !.age = 0])
  <2>1. PICK i, chosen :
             /\ i \in Least(DueIndices(ds, held.age))
             /\ chosen = [held EXCEPT !.consumer = ds[i].consumer,
                                      !.attempts = ds[i].attempts]
             /\ \/ Goto(d, "claim", chosen)
                \/ Goto(d, "removed", [chosen EXCEPT !.age = 0])
    BY <1>2
  <2>2. i \in DOMAIN ds /\ ds[i] \in Delivery /\ ds[i].attempts >= ds[i].attempts
    BY <2>1, EntryParts DEF Least, DueIndices, TypeOK
  <2>3. /\ chosen.event = held.event /\ chosen.consumer = ds[i].consumer
        /\ chosen.attempts = ds[i].attempts /\ chosen \in Local
    BY <2>1, <2>2 DEF Local, Delivery
  <2>4. PICK step, next :
          /\ Goto(d, step, next) /\ step \in {"claim", "removed"}
          /\ next.event = held.event /\ next.consumer = ds[i].consumer
          /\ next.attempts = ds[i].attempts
    <3>1. CASE Goto(d, "claim", chosen)
      BY <2>3, <3>1
    <3>2. CASE Goto(d, "removed", [chosen EXCEPT !.age = 0])
      <4>1. PICK next : next = [chosen EXCEPT !.age = 0]
        OBVIOUS
      <4>2. /\ next.event = chosen.event /\ next.consumer = chosen.consumer
            /\ next.attempts = chosen.attempts
        BY <2>3, <4>1 DEF Local
      <4> QED
        BY <2>3, <3>2, <4>1, <4>2
    <3> QED
      BY <2>1, <3>1, <3>2
  <2>5. pc'[d] = step /\ local'[d] = next
    BY <2>4 DEF Goto, TypeOK
  <2>6. Earned(d)'
    BY <2>2, <2>4, <2>5 DEF Earned
  <2> QED
    BY <2>4, <2>6, EarnedMove
<1> QED
  BY <1>1, <1>2 DEF Select

\* A set of positions that is not empty has a first one.
LEMMA LeastExists ==
  ASSUME NEW S, S \subseteq Nat, S # {}
  PROVE  Least(S) # {}
<1>1. PICK R : R = {ss \in Nat \X Nat : ss[1] < ss[2]}
  OBVIOUS
<1>2. OpToRel(<, Nat) = R
  BY <1>1, Zenon DEF OpToRel
<1>3. IsWellFoundedOn(R, Nat)
  BY <1>2, NatLessThanWellFounded
<1>4. PICK x \in S : \A y \in S : ~ (<<y, x>> \in R)
  BY <1>3, WFMin
<1>5. ASSUME NEW y \in S PROVE x <= y
  <2>1. x \in Nat /\ y \in Nat
    OBVIOUS
  <2>2. PICK p : p = <<y, x>>
    OBVIOUS
  <2>3. ~ (p[1] < p[2])
    <3>1. p \in Nat \X Nat
      BY <2>1, <2>2
    <3> QED
      BY <1>1, <1>4, <2>2, <3>1, Zenon
  <2>4. p[1] = y /\ p[2] = x
    BY <2>2
  <2> QED
    BY <2>1, <2>3, <2>4
<1> QED
  BY <1>4, <1>5 DEF Least

\* A claim adds an attempt to the entry the drain read, or to another one of the
\* same consumer.
LEMMA ClaimEarns ==
  ASSUME TypeOK, EarnedInv, Advance, NEW d \in Drains, Claim(d)
  PROVE  EarnedInv'
<1>1. CASE Return(d)
  BY <1>1, EarnedElsewhere DEF Return
<1>2. CASE ~ Return(d)
  <2>1. PICK held, e, ds, first, es, next :
          /\ held \in Local /\ e \in Events /\ ds \in Seq(Delivery)
          /\ held = local[d] /\ e = held.event /\ ds = deliveries[e]
          /\ first = Claimable(ds, held.consumer, held.age)
          /\ es = Claimed(ds, d, held.consumer, held.age)
          /\ next = [held EXCEPT !.age = 0, !.attempts = OneMore(@)]
    BY HeldType DEF Claim
  <2>2. /\ first # {} /\ deliveries' = [deliveries EXCEPT ![e] = es]
        /\ Goto(d, "handle", next) /\ pc[d] = "claim"
    BY <1>2, <2>1 DEF Claim
  <2>3. PICK c \in Consumers, age \in Ages, n \in Attempts :
          c = held.consumer /\ age = held.age /\ n = held.attempts
    BY <2>1 DEF Local
  <2>4. next.event = e /\ next.consumer = c /\ next.attempts = OneMore(n)
    BY <2>1, <2>3 DEF Local
  <2>5. pc'[d] = "handle" /\ local'[d] = next /\ deliveries'[e] = es
    BY <2>1, <2>2 DEF Goto, TypeOK
  <2>6. PICK i \in DOMAIN ds : ds[i].consumer = c /\ ds[i].attempts >= n
    BY <2>1, <2>2, <2>3 DEF EarnedInv, Earned
  <2>7. PICK k \in Least(first) : TRUE
    <3>1. first \subseteq Nat
      BY <2>1, LenProperties DEF Claimable, DueIndices
    <3> QED
      BY <2>2, <3>1, LeastExists
  <2>8. k \in DOMAIN ds /\ ds[k].consumer = c
    BY <2>1, <2>3, <2>7 DEF Least, Claimable, DueIndices
  <2>9. es[k].attempts = OneMore(ds[k].attempts) /\ Advances(es, ds, {})
    BY <2>1, <2>3, <2>7, ClaimedAdvances
  <2>10. /\ es \in Seq(Delivery) /\ i \in DOMAIN es /\ k \in DOMAIN es
         /\ es[i].consumer = c /\ es[k].consumer = c /\ es[i].attempts >= ds[i].attempts
    BY <2>6, <2>8, <2>9 DEF Advances
  <2>11. /\ es[i].attempts \in Int /\ es[k].attempts \in Int
         /\ ds[i].attempts \in Attempts /\ ds[k].attempts \in Attempts
    BY <2>1, <2>6, <2>8, <2>10, EntryParts
  <2>12. AttemptsReached(es, c, OneMore(n))
    <3>1. CASE i = k
      <4>1. es[k].attempts >= OneMore(n)
        BY <2>6, <2>9, <2>11, <3>1, SizesAssumption DEF OneMore, Attempts
      <4> QED
        BY <2>10, <4>1, ReachedByOne
    <3>2. CASE i # k
      <4>1. es[k].attempts >= 1 /\ OneMore(n) <= n + 1 /\ n \in Int
        BY <2>9, <2>11, SizesAssumption DEF OneMore, Attempts
      <4>2. es[i].attempts >= n
        BY <2>6, <2>10, <2>11, <4>1, SizesAssumption DEF Attempts
      <4>3. OneMore(n) \in Int
        BY <4>1, SizesAssumption DEF OneMore, Attempts
      <4>4. es[i].attempts + es[k].attempts >= OneMore(n)
        BY <2>11, <4>1, <4>2, <4>3
      <4> QED
        BY <2>10, <3>2, <4>4, ReachedByTwo
    <3> QED
      BY <3>1, <3>2
  <2>13. Earned(d)'
    BY <2>4, <2>5, <2>12 DEF Earned
  <2> QED
    BY <2>2, <2>13, EarnedMove
<1> QED
  BY <1>1, <1>2

LEMMA StepEarned ==
  ASSUME TypeOK, EarnedInv, [Next]_vars
  PROVE  EarnedInv'
<1>0. Advance
  BY StepAdvances
<1>1. ASSUME pc' = pc, \A x \in Drains : /\ local'[x].event = local[x].event
                                         /\ local'[x].consumer = local[x].consumer
                                         /\ local'[x].attempts = local[x].attempts
      PROVE  EarnedInv'
  BY <1>0, <1>1, EarnedKept, DeadEarned DEF EarnedInv
<1>2. CASE Tick
  <2>1. ASSUME NEW x \in Drains
        PROVE  /\ local'[x].event = local[x].event
               /\ local'[x].consumer = local[x].consumer
               /\ local'[x].attempts = local[x].attempts
    <3>1. local[x] \in Local
      BY DEF TypeOK
    <3>2. local'[x] = local[x] \/ local'[x] = [local[x] EXCEPT !.age = @ + 1]
      BY <1>2 DEF Tick
    <3> QED
      BY <3>1, <3>2 DEF Local
  <2> QED
    BY <1>1, <1>2, <2>1 DEF Tick
<1>3. CASE Deploy \/ UNCHANGED vars \/ \E e \in Events : AppendEvent(e)
  BY <1>1, <1>3 DEF Deploy, vars, AppendEvent
<1>4. ASSUME NEW d \in Drains, Find(d) PROVE EarnedInv'
  <2>1. PICK e, held :
          /\ e \in Least({f \in Candidates : EventDue(f)})
          /\ held = [Blank EXCEPT !.event = e]
          /\ \/ Goto(d, "noHandler", held)
             \/ \E h : Goto(d, "reconcile", h)
             \/ Select(d, held, deliveries[e])
    BY <1>4 DEF Find
  <2>2. e \in Events
    BY <2>1 DEF Least, Candidates, Open
  <2>3. held \in Local /\ held.event = e
    BY <2>1, <2>2, BlankType DEF Local, Events
  <2> QED
    BY <1>0, <1>4, <2>1, <2>2, <2>3, EarnedElsewhere, SelectEarns DEF Find
<1>5. ASSUME NEW d \in Drains, Reread(d) PROVE EarnedInv'
  <2>1. local[d] \in Local /\ local[d].event \in Events
    BY <1>5, HeldType DEF Reread
  <2> QED
    BY <1>0, <1>5, <2>1, SelectEarns DEF Reread
<1>6. ASSUME NEW d \in Drains,
             HandlerCompletes(d) \/ HandlerThrows(d) \/ MarkPublishedThrows(d)
      PROVE  EarnedInv'
  <2>1. PICK step \in {"publish", "fail"} : Goto(d, step, local[d])
    <3>1. local = [local EXCEPT ![d] = local[d]]
      BY DEF TypeOK
    <3> QED
      BY <1>6, <3>1 DEF HandlerCompletes, HandlerThrows, MarkPublishedThrows, Goto
  <2>2. pc'[d] = step /\ local'[d] = local[d] /\ pc[d] \in {"handle", "publish"}
    BY <1>6, <2>1 DEF HandlerCompletes, HandlerThrows, MarkPublishedThrows, Goto, TypeOK
  <2>3. Earned(d)'
    BY <1>0, <2>2, EarnedKept DEF EarnedInv
  <2> QED
    BY <1>0, <2>1, <2>3, EarnedMove
<1>7. ASSUME NEW d \in Drains,
             \/ DeadLetterEvent(d) \/ Reconcile(d) \/ MarkPublished(d) \/ MarkFailed(d)
             \/ MarkRemoved(d) \/ RefreshRead(d) \/ RefreshWrite(d) \/ Crash(d)
      PROVE  EarnedInv'
  <2>1. PICK step, held : Goto(d, step, held)
                          /\ step \in {"idle", "reread", "refresh", "write"}
    BY <1>7 DEF DeadLetterEvent, Reconcile, MarkPublished, MarkFailed, MarkRemoved,
       RefreshRead, RefreshWrite, Crash, Return, Refresh, Goto
  <2> QED
    BY <1>0, <2>1, EarnedElsewhere
<1> QED
  BY <1>0, <1>2, <1>3, <1>4, <1>5, <1>6, <1>7, ClaimEarns DEF Next, DrainStep

LEMMA EarnedInvariant == Spec => []EarnedInv
<1>1. Init => EarnedInv
  BY DEF Init, EarnedInv, DeadLetterEarned, Earned
<1>2. TypeOK /\ EarnedInv /\ [Next]_vars => EarnedInv'
  BY StepEarned
<1> QED
  BY <1>1, <1>2, TypeCorrect, PTL DEF Spec

\* A delivery is given up only after as many claims as allowed, whatever a drain read
\* before other drains claimed, failed or pushed the same consumer.
THEOREM GivenUpEarned == Spec => []DeadLetterEarned
<1>1. EarnedInv => DeadLetterEarned
  BY DEF EarnedInv
<1> QED
  BY <1>1, EarnedInvariant, PTL

\* A delivery in process changes hands only when its lease is over.
THEOREM LeasesHold == Spec => LeaseRespected
<1>1. ASSUME TypeOK, EarnedInv, [Next]_vars, NEW e \in Events, NEW i \in DOMAIN deliveries[e],
             deliveries[e][i].status = "PROCESSING",
             deliveries'[e][i].token \notin {deliveries[e][i].token, NoDrain}
      PROVE  deliveries[e][i].since >= Lease
  BY <1>1, StepAdvances DEF Advance, Advances
<1>2. TypeOK /\ EarnedInv /\ [Next]_vars =>
        [\A e \in Events : \A i \in DOMAIN deliveries[e] :
            LET old == deliveries[e][i]
                new == deliveries'[e][i]
            IN  (old.status = "PROCESSING" /\ new.token \notin {old.token, NoDrain})
                    => old.since >= Lease]_vars
  BY <1>1
<1> QED
  BY <1>2, TypeCorrect, EarnedInvariant, PTL DEF Spec, LeaseRespected

\* No step forgets an attempt or a delivery.
THEOREM AttemptsKept == Spec => AttemptsGrow
<1>1. ASSUME TypeOK, EarnedInv, [Next]_vars, NEW e \in Events, NEW i \in DOMAIN deliveries[e]
      PROVE  /\ i \in DOMAIN deliveries'[e]
             /\ deliveries'[e][i].attempts >= deliveries[e][i].attempts
  BY <1>1, StepAdvances DEF Advance, Advances
<1>2. TypeOK /\ EarnedInv /\ [Next]_vars =>
        [\A e \in Events : \A i \in DOMAIN deliveries[e] :
            /\ i \in DOMAIN deliveries'[e]
            /\ deliveries'[e][i].attempts >= deliveries[e][i].attempts]_vars
  BY <1>1
<1> QED
  BY <1>2, TypeCorrect, EarnedInvariant, PTL DEF Spec, AttemptsGrow
----------------------------------------------------------------------------
(* One drain at a time                                                        *)

\* What the two promises below need: no drain overlaps another.
Solo == \E d : Drains = {d}

OpenStatus == DeliveryStatus \ Closed

\* A drain works on an open event, and writes what the deliveries still say.
SoloOK(d) ==
    LET e == local[d].event
    IN  /\ pc[d] # "idle" => status[e] \in OpenStatus
        /\ pc[d] = "write" =>
              local[d].seen = AggregateStatus(deliveries[e], Expected[e])

SoloInv == \A d \in Drains : SoloOK(d)

LEMMA AggregateType ==
  ASSUME NEW ds, NEW expected
  PROVE  AggregateStatus(ds, expected) \in DeliveryStatus
  BY DEF AggregateStatus, DeliveryStatus

LEMMA NothingUpdated ==
  ASSUME NEW es, NEW c, NEW gained, Updates(es, << >>, c, gained)
  PROVE  es = << >>
<1>1. es \in Seq(Delivery) /\ DOMAIN es = {}
  BY DEF Updates
<1>2. DOMAIN es = 1 .. Len(es) /\ Len(es) \in Nat
  BY <1>1, LenProperties
<1>3. Len(es) = 0
  BY <1>1, <1>2
<1> QED
  BY <1>1, <1>3, EmptySeq

\* Time does not change what deliveries amount to.
LEMMA AgedAggregate ==
  ASSUME NEW ds \in Seq(Delivery), NEW expected
  PROVE  /\ AggregateStatus(Aged(ds), expected) = AggregateStatus(ds, expected)
         /\ Aged(ds) = << >> <=> ds = << >>
<1>1. PICK es : es = Aged(ds)
  OBVIOUS
<1>2. Updates(es, ds, AnyConsumer, {})
  BY <1>1, AgedUpdates
<1>3. /\ DOMAIN es = DOMAIN ds /\ es \in Seq(Delivery)
      /\ \A i \in DOMAIN ds : es[i].status = ds[i].status
  BY <1>2 DEF Updates
<1>4. ConsumersOf(es) = ConsumersOf(ds)
  BY <1>2, UpdatesConsumers
<1>5. es = << >> <=> ds = << >>
  BY <1>3, EmptySeq, LenProperties
<1>6. AggregateStatus(es, expected) = AggregateStatus(ds, expected)
  BY <1>3, <1>4, <1>5 DEF AggregateStatus
<1> QED
  BY <1>1, <1>5, <1>6

\* The one drain that moves.
LEMMA SoloMove ==
  ASSUME TypeOK, NEW d, Drains = {d}, NEW step, NEW held, Goto(d, step, held),
         step # "idle" => status'[held.event] \in OpenStatus,
         step # "write"
  PROVE  SoloInv'
<1>1. pc'[d] = step /\ local'[d] = held
  BY DEF Goto, TypeOK
<1> QED
  BY <1>1 DEF SoloInv, SoloOK

LEMMA SoloSelect ==
  ASSUME TypeOK, NEW d, Drains = {d}, NEW held \in Local, held.event \in Events,
         status[held.event] \in OpenStatus, status' = status,
         NEW ds \in Seq(Delivery), Select(d, held, ds)
  PROVE  SoloInv'
<1>1. CASE Refresh(d, held.event)
  <2>1. [Blank EXCEPT !.event = held.event].event = held.event
    BY BlankType DEF Local
  <2> QED
    BY <1>1, <2>1, SoloMove DEF Refresh
<1>2. CASE \E i \in Least(DueIndices(ds, held.age)) :
             LET chosen == [held EXCEPT !.consumer = ds[i].consumer,
                                        !.attempts = ds[i].attempts]
             IN  \/ Goto(d, "claim", chosen)
                 \/ Goto(d, "removed", [chosen EXCEPT !.age = 0])
  <2>1. PICK i, chosen :
             /\ i \in Least(DueIndices(ds, held.age))
             /\ chosen = [held EXCEPT !.consumer = ds[i].consumer,
                                      !.attempts = ds[i].attempts]
             /\ \/ Goto(d, "claim", chosen)
                \/ Goto(d, "removed", [chosen EXCEPT !.age = 0])
    BY <1>2
  <2>2. ds[i] \in Delivery
    BY <2>1, EntryType DEF Least, DueIndices
  <2>3. chosen \in Local /\ chosen.event = held.event
    BY <2>1, <2>2 DEF Local, Delivery
  <2>4. [chosen EXCEPT !.age = 0].event = held.event
    BY <2>3, ForgetAgeType
  <2> QED
    BY <2>1, <2>3, <2>4, SoloMove
<1> QED
  BY <1>1, <1>2 DEF Select

LEMMA StepSolo ==
  ASSUME Solo, TypeOK, SoloInv, [Next]_vars
  PROVE  SoloInv'
<1>0. PICK d : Drains = {d}
  BY DEF Solo
<1>00. SoloOK(d) /\ d \in Drains
  BY <1>0 DEF SoloInv
<1>1. ASSUME NEW e \in Events, AppendEvent(e) PROVE SoloInv'
  <2>1. "PENDING" \in OpenStatus
    BY DEF OpenStatus, DeliveryStatus, Closed
  <2> QED
    BY <1>1, <2>1 DEF AppendEvent, SoloInv, SoloOK, TypeOK
<1>2. CASE Tick
  <2>1. local[d] \in Local
    BY <1>00 DEF TypeOK
  <2>2. local'[d].event = local[d].event /\ local'[d].seen = local[d].seen
    <3>1. local'[d] = local[d] \/ local'[d] = [local[d] EXCEPT !.age = @ + 1]
      BY <1>2, <1>00 DEF Tick
    <3> QED
      BY <2>1, <3>1 DEF Local
  <2>3. CASE pc[d] = "idle"
    BY <1>0, <1>2, <2>3 DEF Tick, SoloInv, SoloOK
  <2>4. CASE pc[d] # "idle"
    <3>1. PICK e \in Events : e = local[d].event
      BY <1>00, <2>4, HeldType
    <3>2. AggregateStatus(deliveries'[e], Expected[e]) = AggregateStatus(deliveries[e], Expected[e])
      BY <1>2, AgedAggregate DEF Tick, TypeOK
    <3> QED
      BY <1>0, <1>00, <1>2, <2>2, <3>1, <3>2 DEF Tick, SoloInv, SoloOK
  <2> QED
    BY <2>3, <2>4
<1>3. CASE Deploy \/ UNCHANGED vars
  BY <1>3 DEF Deploy, vars, SoloInv, SoloOK
<1>4. CASE Find(d)
  <2>1. PICK e, held :
          /\ e \in Least({f \in Candidates : EventDue(f)})
          /\ held = [Blank EXCEPT !.event = e]
          /\ \/ Goto(d, "noHandler", held)
             \/ Goto(d, "reconcile",
                     [held EXCEPT !.missing = Handlers(e) \ ConsumersOf(deliveries[e])])
             \/ Select(d, held, deliveries[e])
    BY <1>4 DEF Find
  <2>2. e \in Events /\ status[e] \in OpenStatus /\ deliveries[e] \in Seq(Delivery)
    BY <2>1 DEF Least, Candidates, Open, TypeOK, OpenStatus
  <2>3. /\ held \in Local /\ held.event = e
        /\ [held EXCEPT !.missing = Handlers(e) \ ConsumersOf(deliveries[e])].event = e
    BY <2>1, <2>2, BlankType DEF Local, Events
  <2>4. status' = status
    BY <1>4 DEF Find
  <2> QED
    BY <1>0, <2>1, <2>2, <2>3, <2>4, SoloMove, SoloSelect
<1>5. CASE Reread(d)
  <2>1. /\ local[d] \in Local /\ local[d].event \in Events
        /\ deliveries[local[d].event] \in Seq(Delivery)
    BY <1>5, <1>00, HeldType DEF Reread
  <2> QED
    BY <1>0, <1>00, <1>5, <2>1, SoloSelect DEF Reread, SoloOK
<1>6. CASE Reconcile(d)
  <2>1. PICK held \in Local, e \in Events : held = local[d] /\ e = held.event
    BY <1>6, <1>00, HeldType DEF Reconcile
  <2>2. Goto(d, "reread", [held EXCEPT !.missing = {}])
        /\ status' = [status EXCEPT ![e] = "PENDING"]
    BY <1>6, <2>1 DEF Reconcile
  <2>3. [held EXCEPT !.missing = {}].event = e
    BY <2>1 DEF Local
  <2>4. status'[e] \in OpenStatus
    BY <2>2 DEF TypeOK, OpenStatus, DeliveryStatus, Closed
  <2> QED
    BY <1>0, <2>2, <2>3, <2>4, SoloMove
<1>7. CASE Claim(d)
  <2>1. PICK held \in Local, e \in Events : held = local[d] /\ e = held.event
    BY <1>7, <1>00, HeldType DEF Claim
  <2>2. CASE Return(d)
    BY <1>0, <2>2, SoloMove DEF Return
  <2>3. CASE /\ Goto(d, "handle", [held EXCEPT !.age = 0, !.attempts = OneMore(@)])
             /\ status' = [status EXCEPT ![e] = "PROCESSING"]
    <3>1. [held EXCEPT !.age = 0, !.attempts = OneMore(@)].event = e
      BY <2>1 DEF Local
    <3>2. status'[e] \in OpenStatus
      BY <2>3 DEF TypeOK, OpenStatus, DeliveryStatus, Closed
    <3> QED
      BY <1>0, <2>3, <3>1, <3>2, SoloMove
  <2> QED
    BY <1>7, <2>1, <2>2, <2>3 DEF Claim
<1>8. CASE HandlerCompletes(d) \/ HandlerThrows(d) \/ MarkPublishedThrows(d)
  <2>1. PICK step \in {"publish", "fail"} : Goto(d, step, local[d])
    <3>1. local = [local EXCEPT ![d] = local[d]]
      BY DEF TypeOK
    <3> QED
      BY <1>8, <3>1 DEF HandlerCompletes, HandlerThrows, MarkPublishedThrows, Goto
  <2>2. status' = status /\ pc[d] # "idle"
    BY <1>8 DEF HandlerCompletes, HandlerThrows, MarkPublishedThrows
  <2> QED
    BY <1>0, <1>00, <2>1, <2>2, SoloMove DEF SoloOK
<1>9. CASE MarkPublished(d) \/ MarkFailed(d)
  <2>1. PICK e \in Events : e = local[d].event
    BY <1>9, <1>00, HeldType DEF MarkPublished, MarkFailed
  <2>2. /\ Goto(d, "refresh", [Blank EXCEPT !.event = e])
        /\ status' = status /\ status[e] \in OpenStatus
    BY <1>9, <1>00, <2>1 DEF MarkPublished, MarkFailed, Refresh, SoloOK
  <2>3. [Blank EXCEPT !.event = e].event = e
    BY BlankType DEF Local
  <2> QED
    BY <1>0, <2>2, <2>3, SoloMove
<1>10. CASE RefreshRead(d)
  <2>1. PICK held \in Local, e \in Events, s \in DeliveryStatus :
          /\ held = local[d] /\ e = held.event
          /\ s = AggregateStatus(deliveries[e], Expected[e])
    BY <1>10, <1>00, HeldType, AggregateType DEF RefreshRead
  <2>2. PICK next : next = [held EXCEPT !.seen = s]
    OBVIOUS
  <2>3. /\ Goto(d, "write", next) /\ UNCHANGED <<status, deliveries>> /\ pc[d] # "idle"
    BY <1>10, <2>1, <2>2 DEF RefreshRead
  <2>4. next.event = e /\ next.seen = s
    BY <2>1, <2>2 DEF Local
  <2>5. pc'[d] = "write" /\ local'[d] = next
    BY <1>00, <2>3 DEF Goto, TypeOK
  <2> QED
    BY <1>0, <1>00, <2>1, <2>3, <2>4, <2>5 DEF SoloInv, SoloOK
<1>11. CASE DeadLetterEvent(d) \/ MarkRemoved(d) \/ RefreshWrite(d) \/ Crash(d)
  <2>1. Goto(d, "idle", Blank)
    BY <1>11 DEF DeadLetterEvent, MarkRemoved, RefreshWrite, Crash, Return, Goto
  <2> QED
    BY <1>0, <2>1, SoloMove
<1> QED
  BY <1>0, <1>1, <1>2, <1>3, <1>4, <1>5, <1>6, <1>7, <1>8, <1>9, <1>10, <1>11
  DEF Next, DrainStep

LEMMA SoloInvariant == Solo => (Spec => []SoloInv)
<1> SUFFICES ASSUME Solo PROVE Spec => []SoloInv
  OBVIOUS
<1>1. Init => SoloInv
  BY DEF Init, SoloInv, SoloOK
<1>2. TypeOK /\ SoloInv /\ [Next]_vars => SoloInv'
  BY StepSolo
<1> QED
  BY <1>1, <1>2, TypeCorrect, PTL DEF Spec
----------------------------------------------------------------------------
(* The relay keeps the promise of the outbox                                  *)

\* The state of EventDelivery that a state of the relay stands for.
Outcome   == [e \in Events |-> OutcomeOf(status[e])]
HandledBy == [e \in Events |-> {c \in Consumers : effects[e][c] > 0}]

LEMMA OpenOutcome ==
  ASSUME NEW s \in OpenStatus
  PROVE  OutcomeOf(s) = "open"
  BY DEF OutcomeOf, OpenStatus, DeliveryStatus, Closed

LEMMA OutcomeAt ==
  ASSUME NEW e \in Events
  PROVE  Outcome[e] = OutcomeOf(status[e])
         /\ HandledBy[e] = {c \in Consumers : effects[e][c] > 0}
  BY DEF Outcome, HandledBy

\* One status written.
LEMMA OutcomeSet ==
  ASSUME TypeOK, NEW e \in Events, NEW s, status' = [status EXCEPT ![e] = s]
  PROVE  Outcome' = [Outcome EXCEPT ![e] = OutcomeOf(s)]
  BY DEF Outcome, TypeOK

LEMMA OutcomeStays ==
  ASSUME \A e \in Events : OutcomeOf(status'[e]) = OutcomeOf(status[e])
  PROVE  Outcome' = Outcome
  BY DEF Outcome

LEMMA HandledStays ==
  ASSUME effects' = effects
  PROVE  HandledBy' = HandledBy
  BY DEF HandledBy

\* One handler completed.
LEMMA HandledSet ==
  ASSUME TypeOK, NEW e \in Events, NEW c \in Consumers,
         effects' = [effects EXCEPT ![e] = OneMoreRun(c, @)]
  PROVE  HandledBy' = [HandledBy EXCEPT ![e] = @ \cup {c}]
<1>1. effects[e] \in [Consumers -> 0 .. Many]
  BY DEF TypeOK
<1>2. PICK runs : runs = OneMoreRun(c, effects[e])
  OBVIOUS
<1>3. \A x \in Consumers : runs[x] > 0 <=> effects[e][x] > 0 \/ x = c
  BY <1>1, <1>2, SizesAssumption DEF OneMoreRun
<1>4. \A f \in Events : effects'[f] = IF f = e THEN runs ELSE effects[f]
  BY <1>2 DEF TypeOK
<1>5. ASSUME NEW f \in Events
      PROVE  HandledBy'[f] = [HandledBy EXCEPT ![e] = @ \cup {c}][f]
  <2>1. HandledBy'[f] = {x \in Consumers : effects'[f][x] > 0}
    BY DEF HandledBy
  <2>2. HandledBy[f] = {x \in Consumers : effects[f][x] > 0}
    BY DEF HandledBy
  <2>3. CASE f = e
    <3>1. {x \in Consumers : effects'[f][x] > 0}
            = {x \in Consumers : effects[f][x] > 0} \cup {c}
      BY <1>3, <1>4, <2>3
    <3>2. [HandledBy EXCEPT ![e] = @ \cup {c}][f] = HandledBy[f] \cup {c}
      BY <2>3 DEF HandledBy
    <3> QED
      BY <2>1, <2>2, <3>1, <3>2
  <2>4. CASE f # e
    <3>1. [HandledBy EXCEPT ![e] = @ \cup {c}][f] = HandledBy[f]
      BY <2>4 DEF HandledBy
    <3>2. effects'[f] = effects[f]
      BY <1>4, <2>4
    <3> QED
      BY <2>1, <2>2, <3>1, <3>2
  <2> QED
    BY <2>3, <2>4
<1>6. PICK old : old = HandledBy
  OBVIOUS
<1>7. PICK new : new = HandledBy'
  OBVIOUS
<1>8. old = [f \in Events |-> old[f]]
  BY <1>6 DEF HandledBy
<1>9. new = [f \in Events |-> new[f]]
  BY <1>7 DEF HandledBy
<1>10. \A f \in Events : new[f] = [old EXCEPT ![e] = @ \cup {c}][f]
  BY <1>5, <1>6, <1>7
<1>11. new = [old EXCEPT ![e] = @ \cup {c}]
  BY <1>8, <1>9, <1>10
<1> QED
  BY <1>6, <1>7, <1>11

\* What an event closed as PUBLISHED owes to its consumers.
LEMMA DeliverEarned ==
  ASSUME TypeOK, HandledInv, SoloInv, NEW d \in Drains, pc[d] = "write",
         local[d].seen = "PUBLISHED"
  PROVE  /\ HandledBy[local[d].event] # {}
         /\ Expected[local[d].event] \subseteq HandledBy[local[d].event]
<1>1. PICK e \in Events, ds \in Seq(Delivery) : e = local[d].event /\ ds = deliveries[e]
  BY HeldType
<1>2. \A c \in ConsumersOf(ds) \cup Expected[e] : effects[e][c] > 0
  BY <1>1 DEF HandledInv, DrainOK, Handled
<1>3. ds # << >>
  BY <1>1 DEF SoloInv, SoloOK, AggregateStatus
<1>4. 1 \in DOMAIN ds
  BY <1>3, LenProperties, EmptySeq
<1>5. ds[1].consumer \in ConsumersOf(ds) /\ ds[1].consumer \in Consumers
  BY <1>4, EntryParts DEF ConsumersOf
<1>6. Expected[e] \subseteq Consumers
  BY TablesAssumption
<1> QED
  BY <1>1, <1>2, <1>5, <1>6, OutcomeAt
LEMMA InitRefines == Init => Delivering!Init
  BY DEF Init, Delivering!Init, OutcomeOf

\* Every step of the one drain is one of the abstract steps, or changes nothing of
\* what the outbox promises.
LEMMA StepRefines ==
  ASSUME Solo, TypeOK, HandledInv, SoloInv, [Next]_vars
  PROVE  Delivering!Next \/ UNCHANGED <<Outcome, HandledBy>>
<1>0. PICK d : Drains = {d}
  BY DEF Solo
<1>00. SoloOK(d) /\ d \in Drains
  BY <1>0 DEF SoloInv
<1>1. ASSUME status' = status, effects' = effects
      PROVE  UNCHANGED <<Outcome, HandledBy>>
  BY <1>1, OutcomeStays, HandledStays
\* A status written over an open one.
<1>2. ASSUME NEW e \in Events, NEW s, status' = [status EXCEPT ![e] = s],
             effects' = effects, status[e] \in OpenStatus, s \in OpenStatus
      PROVE  UNCHANGED <<Outcome, HandledBy>>
  <2>1. \A f \in Events : OutcomeOf(status'[f]) = OutcomeOf(status[f])
    BY <1>2, OpenOutcome DEF TypeOK
  <2> QED
    BY <1>2, <2>1, OutcomeStays, HandledStays
<1>3. ASSUME NEW e \in Events, AppendEvent(e) PROVE Delivering!Next
  <2>1. Outcome[e] = "none" /\ Outcome' = [Outcome EXCEPT ![e] = "open"]
    <3>1. OutcomeOf("ABSENT") = "none" /\ OutcomeOf("PENDING") = "open"
      BY DEF OutcomeOf
    <3> QED
      <4>1. status[e] = "ABSENT" /\ status' = [status EXCEPT ![e] = "PENDING"]
        BY <1>3 DEF AppendEvent
      <4>2. Outcome' = [Outcome EXCEPT ![e] = OutcomeOf("PENDING")]
        BY <4>1, OutcomeSet
      <4> QED
        BY <3>1, <4>1, <4>2, OutcomeAt
  <2>2. HandledBy' = HandledBy
    BY <1>3, HandledStays DEF AppendEvent
  <2>3. Delivering!Announce(e)
    BY <2>1, <2>2 DEF Delivering!Announce, Outcome, HandledBy
  <2> QED
    BY <2>3 DEF Delivering!Next
<1>4. CASE HandlerCompletes(d) \/ HandlerThrows(d)
  <2>1. PICK e \in Events, c \in Consumers : e = local[d].event /\ c = local[d].consumer
    BY <1>4, <1>00, HeldType DEF HandlerCompletes, HandlerThrows
  <2>2. status' = status /\ status[e] \in OpenStatus
    BY <1>4, <1>00, <2>1 DEF HandlerCompletes, HandlerThrows, SoloOK
  <2>3. CASE effects' = effects
    BY <1>1, <2>2, <2>3
  <2>4. CASE effects' = [effects EXCEPT ![e] = OneMoreRun(c, @)]
    <3>1. HandledBy' = [HandledBy EXCEPT ![e] = @ \cup {c}]
      BY <2>4, HandledSet
    <3>2. Outcome' = Outcome /\ Outcome[e] = "open"
      BY <2>2, OutcomeStays, OutcomeAt, OpenOutcome
    <3>3. Delivering!Handle(e, c)
      BY <3>1, <3>2 DEF Delivering!Handle, Outcome, HandledBy
    <3> QED
      BY <3>3 DEF Delivering!Next
  <2> QED
    BY <1>4, <2>1, <2>3, <2>4 DEF HandlerCompletes, HandlerThrows
\* An event closed by the drain.
<1>5. ASSUME NEW e \in Events, NEW s \in Closed, status' = [status EXCEPT ![e] = s],
             effects' = effects, status[e] \in OpenStatus,
             s = "PUBLISHED" => HandledBy[e] # {} /\ Expected[e] \subseteq HandledBy[e]
      PROVE  Delivering!Next
  <2>1. Outcome[e] = "open" /\ Outcome' = [Outcome EXCEPT ![e] = OutcomeOf(s)]
    BY <1>5, OutcomeAt, OutcomeSet, OpenOutcome
  <2>2. HandledBy' = HandledBy
    BY <1>5, HandledStays
  <2>3. CASE s = "PUBLISHED"
    <3>1. OutcomeOf(s) = "delivered"
      BY <2>3 DEF OutcomeOf
    <3>2. Delivering!Deliver(e)
      BY <1>5, <2>1, <2>2, <2>3, <3>1 DEF Delivering!Deliver, Outcome, HandledBy
    <3> QED
      BY <3>2 DEF Delivering!Next
  <2>4. CASE s = "DEAD_LETTER"
    <3>1. OutcomeOf(s) = "abandoned"
      BY <2>4 DEF OutcomeOf
    <3>2. Delivering!Abandon(e)
      BY <2>1, <2>2, <3>1 DEF Delivering!Abandon, Outcome, HandledBy
    <3> QED
      BY <3>2 DEF Delivering!Next
  <2> QED
    BY <2>3, <2>4 DEF Closed
<1>6. CASE DeadLetterEvent(d)
  <2>1. PICK e \in Events : e = local[d].event
    BY <1>6, <1>00, HeldType DEF DeadLetterEvent
  <2> QED
    BY <1>5, <1>6, <1>00, <2>1 DEF DeadLetterEvent, SoloOK, Closed
<1>7. CASE RefreshWrite(d)
  <2>1. PICK e \in Events, s \in DeliveryStatus : e = local[d].event /\ s = local[d].seen
    BY <1>7, <1>00, HeldType, AggregateType DEF RefreshWrite, SoloOK
  <2>2. /\ status' = [status EXCEPT ![e] = s] /\ effects' = effects
        /\ pc[d] = "write" /\ status[e] \in OpenStatus
    BY <1>7, <1>00, <2>1 DEF RefreshWrite, SoloOK
  <2>3. CASE s \in OpenStatus
    BY <1>2, <2>2, <2>3
  <2>4. CASE s \in Closed
    <3>1. s = "PUBLISHED" => HandledBy[e] # {} /\ Expected[e] \subseteq HandledBy[e]
      BY <1>00, <2>1, <2>2, DeliverEarned
    <3> QED
      BY <1>5, <2>2, <2>4, <3>1
  <2> QED
    BY <2>3, <2>4 DEF OpenStatus
<1>8. CASE Reconcile(d)
  <2>1. PICK e \in Events : e = local[d].event
    BY <1>8, <1>00, HeldType DEF Reconcile
  <2>2. "PENDING" \in OpenStatus
    BY DEF OpenStatus, DeliveryStatus, Closed
  <2> QED
    BY <1>2, <1>8, <1>00, <2>1, <2>2 DEF Reconcile, SoloOK
<1>9. CASE Claim(d)
  <2>1. PICK e \in Events : e = local[d].event
    BY <1>9, <1>00, HeldType DEF Claim
  <2>2. "PROCESSING" \in OpenStatus
    BY DEF OpenStatus, DeliveryStatus, Closed
  <2>3. effects' = effects /\ status[e] \in OpenStatus
        /\ (status' = status \/ status' = [status EXCEPT ![e] = "PROCESSING"])
    BY <1>9, <1>00, <2>1 DEF Claim, SoloOK
  <2> QED
    BY <1>1, <1>2, <2>2, <2>3
<1>10. CASE \/ Tick \/ Deploy \/ Crash(d) \/ Find(d) \/ Reread(d) \/ MarkPublished(d)
            \/ MarkPublishedThrows(d) \/ MarkFailed(d) \/ MarkRemoved(d) \/ RefreshRead(d)
            \/ UNCHANGED vars
  <2>1. status' = status /\ effects' = effects
    BY <1>10 DEF Tick, Deploy, Crash, Find, Reread, MarkPublished, MarkPublishedThrows,
       MarkFailed, MarkRemoved, RefreshRead, vars
  <2> QED
    BY <1>1, <2>1
<1> QED
  BY <1>0, <1>3, <1>4, <1>6, <1>7, <1>8, <1>9, <1>10 DEF Next, DrainStep

\* With one drain at a time the relay implements EventDelivery: an event that is closed
\* stays closed and its handlers rest, and it is closed as PUBLISHED only after all the
\* expected consumers.
THEOREM PromiseKept == Solo => (Spec => ImplementsDelivery)
<1> SUFFICES ASSUME Solo PROVE Spec => ImplementsDelivery
  OBVIOUS
<1>1. TypeOK /\ HandledInv /\ SoloInv /\ [Next]_vars =>
          [Delivering!Next]_<<[e \in Events |-> OutcomeOf(status[e])],
                              [e \in Events |-> {c \in Consumers : effects[e][c] > 0}]>>
  BY StepRefines DEF Outcome, HandledBy
<1>2. Spec => []SoloInv
  BY SoloInvariant
<1> QED
  BY <1>1, <1>2, InitRefines, TypeCorrect, HandledInvariant, PTL
  DEF Spec, ImplementsDelivery, Delivering!Spec
----------------------------------------------------------------------------
(* A closed status is the truth                                               *)

\* No release drops the last handler of an event type.  A release that does has
\* markEventDeadLetter close events whose deliveries are still open.
HandlersStay ==
    \A r \in Releases : \A e \in Events : Supporters[e] # {} => r \cap Supporters[e] # {}

\* An event without supporters has no delivery, and only such an event is found
\* without a handler.
Unsupported(d) ==
    LET e == local[d].event
    IN  /\ pc[d] = "noHandler" => deliveries[e] = << >>
        /\ pc[d] = "reconcile" => Supporters[e] # {}

AgreeInv ==
    /\ registered \in Releases
    /\ \A e \in Events : Supporters[e] = {} => deliveries[e] = << >>
    /\ \A d \in Drains : Unsupported(d)
    /\ ClosedAgrees

\* A step that touches one event only.
LEMMA AgreeAt ==
  ASSUME TypeOK, AgreeInv, NEW e \in Events, NEW es, NEW s,
         \/ deliveries' = [deliveries EXCEPT ![e] = es]
         \/ deliveries' = deliveries /\ es = deliveries[e],
         \/ status' = [status EXCEPT ![e] = s]
         \/ status' = status /\ s = status[e],
         Supporters[e] = {} => es = << >>,
         s \in Closed => es = << >> \/ s = AggregateStatus(es, Expected[e])
  PROVE  ClosedAgrees' /\ \A f \in Events : Supporters[f] = {} => deliveries'[f] = << >>
<1>1. /\ deliveries'[e] = es /\ status'[e] = s
      /\ \A f \in Events : f # e => deliveries'[f] = deliveries[f] /\ status'[f] = status[f]
  BY DEF TypeOK
<1>2. ASSUME NEW f \in Events
      PROVE  /\ Supporters[f] = {} => deliveries'[f] = << >>
             /\ status'[f] \in Closed =>
                   \/ deliveries'[f] = << >>
                   \/ status'[f] = AggregateStatus(deliveries'[f], Expected[f])
  <2>1. CASE f = e
    BY <1>1, <2>1
  <2>2. CASE f # e
    BY <1>1, <2>2 DEF AgreeInv, ClosedAgrees
  <2> QED
    BY <2>1, <2>2
<1> QED
  BY <1>2 DEF ClosedAgrees

\* The drain goes on to a step that has nothing to do with events without handlers.
LEMMA AgreeMove ==
  ASSUME TypeOK, NEW d, Drains = {d}, NEW step, NEW held, Goto(d, step, held),
         step \notin {"noHandler", "reconcile"}
  PROVE  \A x \in Drains : Unsupported(x)'
<1>1. pc'[d] = step
  BY DEF Goto, TypeOK
<1> QED
  BY <1>1 DEF Unsupported

LEMMA SelectMoves ==
  ASSUME NEW d, NEW held, NEW ds, Select(d, held, ds)
  PROVE  \E step, next : step \in {"refresh", "claim", "removed"} /\ Goto(d, step, next)
<1>1. CASE Refresh(d, held.event)
  BY <1>1 DEF Refresh
<1>2. CASE \E i \in Least(DueIndices(ds, held.age)) :
             LET chosen == [held EXCEPT !.consumer = ds[i].consumer,
                                        !.attempts = ds[i].attempts]
             IN  \/ Goto(d, "claim", chosen)
                 \/ Goto(d, "removed", [chosen EXCEPT !.age = 0])
  BY <1>2
<1> QED
  BY <1>1, <1>2 DEF Select

LEMMA StepAgrees ==
  ASSUME Solo, HandlersStay, TypeOK, SoloInv, HandledInv, AgreeInv, [Next]_vars
  PROVE  AgreeInv'
<1>0. PICK d : Drains = {d}
  BY DEF Solo
<1>00. /\ d \in Drains /\ SoloOK(d) /\ Unsupported(d) /\ DrainOK(d) /\ registered \in Releases
       /\ ClosedAgrees /\ \A e \in Events : Supporters[e] = {} => deliveries[e] = << >>
  BY <1>0 DEF SoloInv, AgreeInv, HandledInv
\* A step that goes on with one event.
<1>101. ASSUME NEW step, step \notin {"noHandler", "reconcile"}, NEW held, Goto(d, step, held),
             registered' = registered,
             ClosedAgrees', \A f \in Events : Supporters[f] = {} => deliveries'[f] = << >>
      PROVE  AgreeInv'
  BY <1>0, <1>00, <1>101, AgreeMove DEF AgreeInv
\* A step that leaves the documents alone.
<1>102. ASSUME NEW step, step \notin {"noHandler", "reconcile"}, NEW held, Goto(d, step, held),
             UNCHANGED <<registered, status, deliveries>>
      PROVE  AgreeInv'
  BY <1>101, <1>102, <1>00 DEF ClosedAgrees
\* A step that updates deliveries of the event in work.
<1>103. ASSUME NEW step, step \notin {"noHandler", "reconcile"}, NEW held, Goto(d, step, held),
             registered' = registered, pc[d] # "idle",
             NEW e, e = local[d].event, NEW es, NEW c, NEW gained,
             Updates(es, deliveries[e], c, gained),
             \/ deliveries' = [deliveries EXCEPT ![e] = es]
             \/ deliveries' = deliveries,
             status' = status \/ status' = [status EXCEPT ![e] = "PROCESSING"]
      PROVE  AgreeInv'
  <2>1. e \in Events /\ status[e] \notin Closed /\ "PROCESSING" \notin Closed
    BY <1>103, <1>00, HeldType DEF SoloOK, OpenStatus, Closed
  <2>2. Supporters[e] = {} => es = << >> /\ deliveries[e] = << >>
    BY <1>103, <1>00, <2>1, NothingUpdated
  <2>3. PICK s : s \notin Closed /\ (\/ status' = [status EXCEPT ![e] = s]
                                     \/ status' = status /\ s = status[e])
    BY <1>103, <2>1
  <2>4. PICK now : /\ \/ deliveries' = [deliveries EXCEPT ![e] = now]
                      \/ deliveries' = deliveries /\ now = deliveries[e]
                   /\ Supporters[e] = {} => now = << >>
    BY <1>103, <2>2
  <2> QED
    BY <1>101, <1>103, <2>1, <2>3, <2>4, AgreeAt
<1>1. ASSUME NEW e \in Events, AppendEvent(e) PROVE AgreeInv'
  <2>1. PICK es : es = deliveries[e]
    OBVIOUS
  <2>2. /\ status' = [status EXCEPT ![e] = "PENDING"] /\ "PENDING" \notin Closed
        /\ UNCHANGED <<registered, deliveries, pc, local>>
    BY <1>1 DEF AppendEvent, Closed
  <2>3. ClosedAgrees' /\ \A f \in Events : Supporters[f] = {} => deliveries'[f] = << >>
    BY <1>00, <2>1, <2>2, AgreeAt
  <2> QED
    BY <1>0, <1>00, <2>2, <2>3 DEF AgreeInv, Unsupported
<1>2. CASE Tick
  <2>1. UNCHANGED <<registered, status, pc>>
        /\ \A e \in Events : deliveries'[e] = Aged(deliveries[e])
    BY <1>2 DEF Tick
  <2>2. ASSUME NEW e \in Events
        PROVE  /\ AggregateStatus(deliveries'[e], Expected[e])
                     = AggregateStatus(deliveries[e], Expected[e])
               /\ deliveries'[e] = << >> <=> deliveries[e] = << >>
    BY <2>1, AgedAggregate DEF TypeOK
  <2>3. ClosedAgrees' /\ \A f \in Events : Supporters[f] = {} => deliveries'[f] = << >>
    BY <1>00, <2>1, <2>2 DEF ClosedAgrees
  <2>4. CASE pc[d] = "idle"
    BY <1>0, <1>00, <2>1, <2>3, <2>4 DEF AgreeInv, Unsupported
  <2>5. CASE pc[d] # "idle"
    <3>1. PICK e \in Events : e = local[d].event
      BY <1>00, <2>5, HeldType
    <3>2. local'[d].event = e
      <4>1. local[d] \in Local
        BY <1>00 DEF TypeOK
      <4>2. local'[d] = local[d] \/ local'[d] = [local[d] EXCEPT !.age = @ + 1]
        BY <1>2, <1>00 DEF Tick
      <4> QED
        BY <3>1, <4>1, <4>2 DEF Local
    <3>3. Unsupported(d)'
      BY <1>00, <2>1, <2>2, <3>1, <3>2 DEF Unsupported
    <3> QED
      BY <1>0, <1>00, <2>1, <2>3, <3>3 DEF AgreeInv
  <2> QED
    BY <2>4, <2>5
<1>3. CASE Deploy
  BY <1>0, <1>00, <1>3 DEF Deploy, AgreeInv, Unsupported, ClosedAgrees
<1>4. CASE Find(d)
  <2>1. PICK e, held, missing :
          /\ e \in Least({f \in Candidates : EventDue(f)})
          /\ held = [Blank EXCEPT !.event = e]
          /\ missing = Handlers(e) \ ConsumersOf(deliveries[e])
          /\ \/ Handlers(e) = {} /\ Goto(d, "noHandler", held)
             \/ missing # {} /\ Goto(d, "reconcile", [held EXCEPT !.missing = missing])
             \/ Select(d, held, deliveries[e])
    BY <1>4 DEF Find
  <2>2. e \in Events
    BY <2>1 DEF Least, Candidates, Open
  <2>3. held \in Local /\ held.event = e
    BY <2>1, <2>2, BlankType DEF Local, Events
  <2>4. UNCHANGED <<registered, status, deliveries>>
    BY <1>4 DEF Find
  <2>5. CASE Handlers(e) = {} /\ Goto(d, "noHandler", held)
    <3>1. Supporters[e] = {}
      BY <1>00, <2>2, <2>5 DEF Handlers, HandlersStay
    <3>2. pc'[d] = "noHandler" /\ local'[d] = held
      BY <1>00, <2>5 DEF Goto, TypeOK
    <3> QED
      BY <1>0, <1>00, <2>2, <2>3, <2>4, <3>1, <3>2 DEF AgreeInv, Unsupported, ClosedAgrees
  <2>6. CASE missing # {} /\ Goto(d, "reconcile", [held EXCEPT !.missing = missing])
    <3>1. Supporters[e] # {}
      BY <2>1, <2>6 DEF Handlers
    <3>2. [held EXCEPT !.missing = missing].event = e
      BY <2>3 DEF Local
    <3>3. pc'[d] = "reconcile" /\ local'[d].event = e
      BY <1>00, <2>6, <3>2 DEF Goto, TypeOK
    <3> QED
      BY <1>0, <1>00, <2>4, <3>1, <3>3 DEF AgreeInv, Unsupported, ClosedAgrees
  <2>7. CASE Select(d, held, deliveries[e])
    BY <1>102, <2>4, <2>7, SelectMoves
  <2> QED
    BY <2>1, <2>5, <2>6, <2>7
<1>5. CASE Reread(d)
  <2>1. PICK step, next : step \in {"refresh", "claim", "removed"} /\ Goto(d, step, next)
    BY <1>5, SelectMoves DEF Reread
  <2> QED
    BY <1>102, <1>5, <2>1 DEF Reread
<1>6. CASE Reconcile(d)
  <2>1. PICK e \in Events : e = local[d].event
    BY <1>6, <1>00, HeldType DEF Reconcile
  <2>2. PICK es, held : /\ deliveries' = [deliveries EXCEPT ![e] = es]
                        /\ Goto(d, "reread", held)
    BY <1>6, <2>1 DEF Reconcile
  <2>3. /\ status' = [status EXCEPT ![e] = "PENDING"] /\ "PENDING" \notin Closed
        /\ registered' = registered /\ Supporters[e] # {}
    BY <1>6, <1>00, <2>1 DEF Reconcile, Unsupported, Closed
  <2>4. ClosedAgrees' /\ \A f \in Events : Supporters[f] = {} => deliveries'[f] = << >>
    BY <2>2, <2>3, AgreeAt
  <2> QED
    BY <1>101, <2>2, <2>3, <2>4
<1>7. CASE Claim(d)
  <2>1. PICK e \in Events : e = local[d].event
    BY <1>7, <1>00, HeldType DEF Claim
  <2>2. CASE Return(d) /\ UNCHANGED <<status, deliveries>>
    BY <1>102, <1>7, <2>2 DEF Claim, Return
  <2>3. CASE /\ deliveries' = [deliveries EXCEPT ![e] =
                                Claimed(deliveries[e], d, local[d].consumer, local[d].age)]
             /\ status' = [status EXCEPT ![e] = "PROCESSING"]
             /\ \E held : Goto(d, "handle", held)
    <3>1. PICK es, held : /\ es = Claimed(deliveries[e], d, local[d].consumer, local[d].age)
                          /\ Goto(d, "handle", held)
      BY <2>3
    <3>2. Updates(es, deliveries[e], local[d].consumer, {"PROCESSING"})
      BY <1>7, <1>00, <2>1, <3>1, HeldType, ClaimedUpdates DEF Claim
    <3> QED
      BY <1>103, <1>7, <2>1, <2>3, <3>1, <3>2 DEF Claim
  <2> QED
    BY <1>7, <2>1, <2>2, <2>3 DEF Claim
<1>8. CASE HandlerCompletes(d) \/ HandlerThrows(d)
  <2>1. local = [local EXCEPT ![d] = local[d]]
    BY DEF TypeOK
  <2>2. \E step \in {"publish", "fail"} : Goto(d, step, local[d])
    BY <1>8, <2>1 DEF HandlerCompletes, HandlerThrows, Goto
  <2> QED
    BY <1>102, <1>8, <2>2 DEF HandlerCompletes, HandlerThrows
<1>9. CASE MarkPublished(d) \/ MarkPublishedThrows(d)
  <2>1. PICK e, es : /\ e \in Events /\ e = local[d].event
                      /\ es = Published(deliveries[e], d, local[d].consumer)
    BY <1>9, <1>00, HeldType DEF MarkPublished, MarkPublishedThrows
  <2>2. Updates(es, deliveries[e], local[d].consumer, {"PUBLISHED"})
    BY <1>9, <1>00, <2>1, HeldType, PublishedUpdates DEF MarkPublished, MarkPublishedThrows
  <2>3. PICK step, held : step \in {"refresh", "fail"} /\ Goto(d, step, held)
    BY <1>9 DEF MarkPublished, MarkPublishedThrows, Refresh
  <2>4. /\ UNCHANGED <<registered, status>> /\ pc[d] # "idle"
        /\ \/ deliveries' = [deliveries EXCEPT ![e] = es]
           \/ deliveries' = deliveries
    BY <1>9, <2>1 DEF MarkPublished, MarkPublishedThrows
  <2> QED
    BY <1>103, <2>1, <2>2, <2>3, <2>4
<1>10. CASE MarkFailed(d) \/ MarkRemoved(d)
  <2>1. PICK e, delay, es :
          /\ e \in Events /\ delay \in Backoffs
          /\ e = local[d].event
          /\ es = Failed(deliveries[e], d, local[d].consumer, local[d].attempts, delay)
          /\ deliveries' = [deliveries EXCEPT ![e] = es]
    BY <1>10, <1>00, HeldType DEF MarkFailed, MarkRemoved
  <2>2. /\ local[d].consumer \in Consumers /\ local[d].attempts \in Nat
        /\ deliveries[e] \in Seq(Delivery)
    BY <1>10, <1>00, <2>1, HeldType, SizesAssumption DEF MarkFailed, MarkRemoved, Attempts
  <2>3. Updates(es, deliveries[e], local[d].consumer, {"FAILED", "DEAD_LETTER"})
    BY <1>00, <2>1, <2>2, FailedUpdates
  <2>4. PICK step, held : step \in {"refresh", "idle"} /\ Goto(d, step, held)
    BY <1>10 DEF MarkFailed, MarkRemoved, Refresh, Return
  <2>5. UNCHANGED <<registered, status>> /\ pc[d] # "idle"
    BY <1>10 DEF MarkFailed, MarkRemoved
  <2> QED
    BY <1>103, <2>1, <2>3, <2>4, <2>5
<1>11. CASE RefreshRead(d)
  <2>1. \E held : Goto(d, "write", held)
    BY <1>11 DEF RefreshRead
  <2> QED
    BY <1>102, <1>11, <2>1 DEF RefreshRead
<1>12. CASE DeadLetterEvent(d) \/ RefreshWrite(d)
  <2>1. PICK e, s, es :
          /\ e \in Events /\ e = local[d].event /\ es = deliveries[e]
          /\ status' = [status EXCEPT ![e] = s]
          /\ es = << >> \/ s = AggregateStatus(es, Expected[e])
    BY <1>12, <1>00, HeldType DEF DeadLetterEvent, RefreshWrite, SoloOK, Unsupported
  <2>2. Goto(d, "idle", Blank) /\ UNCHANGED <<registered, deliveries>>
    BY <1>12 DEF DeadLetterEvent, RefreshWrite, Return
  <2>3. ClosedAgrees' /\ \A f \in Events : Supporters[f] = {} => deliveries'[f] = << >>
    BY <1>00, <2>1, <2>2, AgreeAt
  <2> QED
    BY <1>101, <2>2, <2>3
<1>13. CASE Crash(d)
  BY <1>102, <1>13 DEF Crash, Goto
<1>14. CASE UNCHANGED vars
  BY <1>14 DEF vars, AgreeInv, Unsupported, ClosedAgrees
<1> QED
  BY <1>0, <1>1, <1>2, <1>3, <1>4, <1>5, <1>6, <1>7, <1>8, <1>9, <1>10, <1>11, <1>12,
     <1>13, <1>14 DEF Next, DrainStep

\* With one drain at a time, while every release handles what an earlier one did, a
\* closed status is the truth about the deliveries.
THEOREM ClosedIsTrue == Solo /\ HandlersStay => (Spec => []ClosedAgrees)
<1> SUFFICES ASSUME Solo, HandlersStay PROVE Spec => []ClosedAgrees
  OBVIOUS
<1>1. Init => AgreeInv
  BY DEF Init, AgreeInv, Unsupported, ClosedAgrees, Closed
<1>2. TypeOK /\ SoloInv /\ HandledInv /\ AgreeInv /\ [Next]_vars => AgreeInv'
  BY StepAgrees
<1>3. AgreeInv => ClosedAgrees
  BY DEF AgreeInv
<1>4. Spec => []SoloInv
  BY SoloInvariant
<1> QED
  BY <1>1, <1>2, <1>3, <1>4, TypeCorrect, HandledInvariant, PTL DEF Spec
=============================================================================
