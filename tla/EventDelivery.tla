---------------------------- MODULE EventDelivery ----------------------------
(***************************************************************************)
(* What the outbox promises to the use cases that append events, and to    *)
(* the consumers, while one drain runs at a time: an event stays open      *)
(* until it is settled, it is settled once and for all, its handlers run   *)
(* (once or more) while it is open and never after, and it is settled as   *)
(* delivered only when every consumer expected for its type has handled    *)
(* it.  OutboxRelay implements it.                                         *)
(***************************************************************************)
EXTENDS Naturals

CONSTANTS Events, Consumers, Expected

VARIABLES
    outcome,   \* event -> "none" before it is appended, "open", and how it ended
    handled    \* event -> the consumers that have handled it

Outcomes == {"none", "open", "delivered", "abandoned"}

Init ==
    /\ outcome = [e \in Events |-> "none"]
    /\ handled = [e \in Events |-> {}]

Announce(e) ==
    /\ outcome[e] = "none"
    /\ outcome' = [outcome EXCEPT ![e] = "open"]
    /\ UNCHANGED handled

Handle(e, c) ==
    /\ outcome[e] = "open"
    /\ handled' = [handled EXCEPT ![e] = @ \cup {c}]
    /\ UNCHANGED outcome

Deliver(e) ==
    /\ outcome[e] = "open"
    /\ handled[e] # {} /\ Expected[e] \subseteq handled[e]
    /\ outcome' = [outcome EXCEPT ![e] = "delivered"]
    /\ UNCHANGED handled

Abandon(e) ==
    /\ outcome[e] = "open"
    /\ outcome' = [outcome EXCEPT ![e] = "abandoned"]
    /\ UNCHANGED handled

Next ==
    \E e \in Events :
        \/ Announce(e) \/ Deliver(e) \/ Abandon(e)
        \/ \E c \in Consumers : Handle(e, c)

Spec == Init /\ [][Next]_<<outcome, handled>>
=============================================================================
