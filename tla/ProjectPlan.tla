----------------------------- MODULE ProjectPlan -----------------------------
(***************************************************************************)
(* The planning of one project: its documentation, the roadmap made of a   *)
(* snapshot of it, and its team, with the readiness of the project that is *)
(* computed from all three: src/src/modules/projects.                      *)
(*                                                                         *)
(* Documentation, roadmap and team share no document, so a behaviour works *)
(* on one area: "documents" starts from an empty project, "plan" from one  *)
(* with an approved page and a snapshot of it, "team" likewise.            *)
(***************************************************************************)
EXTENDS DocumentPages, RoadmapVersions, ProjectTeam

CONSTANT Areas   \* bound: the areas a behaviour may work on

ASSUME AreaAssumption ==
    /\ Areas \subseteq {"documents", "plan", "team"}
    /\ MaxRows >= 3 /\ Slugs # {} /\ "text" \in Contents

VARIABLES
    area,   \* the area this behaviour works on
    board   \* what sprints and backlog add to the readiness (see SprintBoard)

vars == <<docVars, roadmapVars, teamVars, area, board>>

----------------------------------------------------------------------------
(* Readiness                                                               *)

Useful == {p \in Existing : page[p].status # "ARCHIVED" /\ page[p].content # "empty"}

ActiveTeam == {m \in Members : member[m].status = "ACTIVE"}

When(condition, signal) == IF condition THEN {signal} ELSE {}

\* The roadmap is asked for its status only.
Signals ==
    When(Useful # {}, "DOCUMENTATION_STARTED")
    \cup When(Useful \cap Approved # {}, "DOCUMENTATION_APPROVED")
    \cup When(snapshots # {}, "CONTEXT_SNAPSHOT_READY")
    \cup When(roadmap.status = "ACTIVE", "ROADMAP_ACTIVE")
    \cup When(ActiveTeam # {}, "MINIMUM_TEAM_READY")
    \cup board

ORDERED_READINESS ==
    <<"EMPTY", "DOCUMENTING", "DOCUMENTED", "ROADMAP_READY", "BACKLOG_READY", "READY_TO_START">>

\* What each level after the first needs besides the levels below it.
Needs ==
    <<{"DOCUMENTATION_STARTED"}, {"DOCUMENTATION_APPROVED"},
      {"CONTEXT_SNAPSHOT_READY", "ROADMAP_ACTIVE"}, {"BACKLOG_READY"},
      {"SCRUM_READY", "MINIMUM_TEAM_READY"}>>

Rank ==
    LET held == Signals
    IN  Max({n \in 0 .. Len(Needs) : \A k \in 1 .. n : Needs[k] \subseteq held})

ReadinessLevel == ORDERED_READINESS[Rank + 1]

----------------------------------------------------------------------------
(* Specification                                                           *)

\* A page that was created, submitted and approved, and the snapshot of it.
Written(p, status, n) ==
    [status |-> status, slug |-> CHOOSE s \in Slugs : TRUE, content |-> "text",
     sort |-> 0, version |-> n]

History(p) ==
    <<RowOf(Written(p, "DRAFT", 1), "CREATE"), RowOf(Written(p, "IN_REVIEW", 2), "SUBMIT_REVIEW"),
      RowOf(Written(p, "APPROVED", 3), "APPROVE")>>

Frozen(p) == Alone(p, [version |-> 3, row |-> History(p)[3]])

DocumentedInit(p) ==
    /\ page      = [q \in Pages |-> IF q = p THEN Written(p, "APPROVED", 3) ELSE Absent]
    /\ rows      = [q \in Pages |-> IF q = p THEN History(p) ELSE <<>>]
    /\ tokens    = {}
    /\ taking    = <<>>
    /\ snapshots = {Frozen(p)}
    /\ imported  = {}
    /\ approvals = {[page |-> p, read |-> "text"]}

Init ==
    /\ area \in Areas /\ board = {}
    /\ IF area = "documents" THEN DocInit ELSE \E p \in Pages : DocumentedInit(p)
    /\ RoadmapInit /\ TeamInit

\* What the operations on sprints and backlog items make of the readiness.
BoardChanges ==
    /\ board' \in SUBSET {"BACKLOG_READY", "SCRUM_READY"}
    /\ UNCHANGED <<docVars, roadmapVars, teamVars>>

DocumentStep == DocNext /\ UNCHANGED <<roadmapVars, teamVars, board>>

PlanStep ==
    (RoadmapStep(snapshots) \/ BacklogImportStep) /\ UNCHANGED <<docVars, teamVars, board>>

StaffStep == TeamStep /\ UNCHANGED <<docVars, roadmapVars, board>>

Next ==
    /\ \/ area = "documents" /\ DocumentStep
       \/ area = "plan" /\ (PlanStep \/ BoardChanges)
       \/ area = "team" /\ StaffStep
    /\ UNCHANGED area

Spec == Init /\ [][Next]_vars

----------------------------------------------------------------------------
(* Properties                                                              *)

\* Values of the state variables.
TypeOK ==
    /\ DocTypeOK /\ RoadmapTypeOK /\ TeamTypeOK
    /\ area \in Areas /\ board \subseteq {"BACKLOG_READY", "SCRUM_READY"}
    /\ ReadinessLevel \in ToSet(ORDERED_READINESS)

\* A project that counts as DOCUMENTED falls below it only when an approved page is
\* archived: no edit, review, move or import of pages takes the readiness away.
ReadinessKept ==
    [][ /\ Needs[1] \cup Needs[2] \subseteq Signals
        /\ ~(Needs[1] \cup Needs[2] \subseteq Signals')
        => \E p \in Approved : page'[p].status = "ARCHIVED" ]_vars

\* An active roadmap with an active version is found by the import of its backlog: the
\* preview answers "An active roadmap is required before importing backlog." only when
\* there is none.
ActiveRoadmapFound ==
    roadmap.status = "ACTIVE" /\ roadmap.active # None => RoadmapFound
=============================================================================
