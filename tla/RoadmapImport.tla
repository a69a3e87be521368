---------------------------- MODULE RoadmapImport ----------------------------
(***************************************************************************)
(* What a generated roadmap must satisfy to be imported, and what its      *)
(* candidates must satisfy to become backlog items:                        *)
(* src/src/modules/projects (roadmap validation and backlog preview).      *)
(*                                                                         *)
(* A plan is a JSON document reduced to its keys, the references between   *)
(* them, and the estimates.  The key "" is a missing key; `formed` stands  *)
(* for the metadata, the dates and the absence of unknown fields.          *)
(***************************************************************************)
EXTENDS Naturals, Sequences, SequencesExt

Missing == ""

KeysOf(list) == {e.key : e \in ToSet(list)} \ {Missing}

\* An element without a key is passed over.
UniqueKeys(list) ==
    \A m, n \in DOMAIN list :
        list[m].key = list[n].key /\ list[m].key # Missing => m = n

ValidEstimate(e) ==
    \/ e.unit \in {"POINTS", "IDEAL_DAYS"} /\ e.value \in 0 .. 1000
    \/ e.unit = "T_SHIRT" /\ e.value \in {"XS", "S", "M", "L", "XL"}

MilestonesResolve(plan) ==
    \A m \in ToSet(plan.milestones) :
        m.horizon \in plan.horizons /\ m.after \subseteq KeysOf(plan.milestones)

EpicsResolve(plan) ==
    \A e \in ToSet(plan.epics) :
        /\ e.milestone \in KeysOf(plan.milestones) /\ e.after \subseteq KeysOf(plan.epics)
        /\ ValidEstimate(e.estimate)

CandidatesResolve(plan) ==
    \A c \in ToSet(plan.candidates) :
        c.epic \in KeysOf(plan.epics) /\ ValidEstimate(c.estimate)

\* validateRoadmapImportShape.  It looks at neither the keys, the types nor the titles
\* of the candidates.
Acceptable(plan) ==
    /\ plan.generationStatus = "READY" /\ plan.formed
    /\ plan.horizons # {} /\ plan.milestones # <<>> /\ plan.epics # <<>> /\ plan.candidates # <<>>
    /\ UniqueKeys(plan.milestones) /\ UniqueKeys(plan.epics)
    /\ MilestonesResolve(plan) /\ EpicsResolve(plan) /\ CandidatesResolve(plan)

\* The documents of milestones and epics require a key.
Storable(plan) ==
    \A e \in ToSet(plan.milestones) \cup ToSet(plan.epics) : e.key # Missing

----------------------------------------------------------------------------
(* Backlog                                                                 *)

\* A candidate stands under an epic that stands under a milestone.
Placed(plan, c) ==
    \E e \in ToSet(plan.epics) :
        e.key = c.epic /\ e.milestone \in KeysOf(plan.milestones)

\* The preview of the backlog reports no error.
Importable(plan) ==
    \A c \in ToSet(plan.candidates) :
        c.key # Missing /\ Placed(plan, c) /\ c.described /\ ValidEstimate(c.estimate)

CandidateKeys(plan) == KeysOf(plan.candidates)
=============================================================================
