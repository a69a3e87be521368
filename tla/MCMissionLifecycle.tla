------------------------ MODULE MCMissionLifecycle ------------------------
(* Small instances of MissionLifecycle.                                      *)
EXTENDS MissionLifecycle, TLC

CONSTANTS lead, ana, ben, w1, w2, o1, o2

Crew == {lead, ana, ben}

Request(op, key, actor) == [op |-> op, key |-> key, actor |-> actor, pilot |-> actor]
Assign(key, pilot)      == [op |-> "assign", key |-> key, actor |-> lead, pilot |-> pilot]

\* Two pilots who may both be assigned; the operations that end a mission twice,
\* under keys of their own; two uploads.
Flight == {Assign("k1", ben),
           Request("accept", "k1", ana), Request("accept", "k2", ben),
           Request("reject", "k1", ana),
           Request("start", "k1", ana), Request("start", "k2", ben),
           Request("upload", "k1", ana), Request("upload", "k2", ana),
           Request("complete", "k1", ana), Request("complete", "k2", ana),
           Request("reviewClose", "k1", lead), Request("reviewClose", "k2", ana),
           Request("cancel", "k1", lead), Request("fail", "k1", lead)}

Symmetries == Permutations(Workers) \cup Permutations(Objects)
=============================================================================
