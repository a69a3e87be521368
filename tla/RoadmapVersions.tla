--------------------------- MODULE RoadmapVersions ---------------------------
(***************************************************************************)
(* The roadmap of one project, the versions its imports leave, and the     *)
(* backlog items made of the candidates of the active version:             *)
(* src/src/modules/projects (roadmap and backlog import operations).       *)
(*                                                                         *)
(* An operation on the roadmap writes the roadmap document, so each is one *)
(* action.  The import of the backlog only reads it: it decides in its     *)
(* snapshot and commits later, unless the unique index of the candidates   *)
(* refuses one of its items.                                               *)
(***************************************************************************)
EXTENDS RoadmapImport, FiniteSets

CONSTANTS
    Plans,        \* roadmaps that clients submit
    Candidates,   \* keys of their backlog candidates
    Importers,    \* backlog imports in progress at the same time
    MaxVersions   \* bound: roadmap versions

ASSUME RoadmapAssumption ==
    MaxVersions \in Nat /\ \A plan \in Plans : CandidateKeys(plan) \subseteq Candidates

VARIABLES
    roadmap,     \* the roadmap document
    versions,    \* its versions, in the order of their numbers
    items,       \* backlog items: version, candidate, and how many were made of it
    job,         \* importer -> the import it has in progress
    previewed,   \* versions whose backlog preview a client holds a token of
    activated    \* history: versions that have been active

roadmapVars == <<roadmap, versions, items, job, previewed, activated>>

----------------------------------------------------------------------------
(* Documents                                                               *)

RoadmapStatus == {"DRAFT", "PLANNING", "ACTIVE", "REVIEW", "ARCHIVED"}
VersionStatus == {"DRAFT", "ACTIVE", "SUPERSEDED", "ARCHIVED"}

None    == 0
Numbers == 1 .. MaxVersions

\* `owned`: the document names its organization.
NoRoadmap == [status |-> "ABSENT", owned |-> FALSE, latest |-> None, active |-> None]
Roadmap   == [status : RoadmapStatus, owned : BOOLEAN, latest : {None} \cup Numbers,
              active : {None} \cup Numbers]

Idle == [version |-> None, missing |-> {}]

RoadmapInit ==
    /\ roadmap   = NoRoadmap
    /\ versions  = <<>>
    /\ items     = [v \in Numbers |-> [k \in Candidates |-> 0]]
    /\ job       = [w \in Importers |-> Idle]
    /\ previewed = {}
    /\ activated = {}

----------------------------------------------------------------------------
(* The roadmap                                                             *)

\* Faulty: a new roadmap has a status that is not in the schema.
EnsureWithoutStatus ==
    IF roadmap # NoRoadmap THEN roadmap ELSE [NoRoadmap EXCEPT !.status = "NEW"]

\* The roadmap a read or an update makes when there is none names no organization.
EnsureProjectRoadmap ==
    IF roadmap # NoRoadmap THEN roadmap ELSE [NoRoadmap EXCEPT !.status = "PLANNING"]

GetProjectRoadmap ==
    /\ roadmap = NoRoadmap
    /\ roadmap' = EnsureProjectRoadmap
    /\ UNCHANGED <<versions, items, job, previewed, activated>>

\* The status is set as the client asks, whatever the versions are.
UpdateProjectRoadmap(status) ==
    /\ status # EnsureProjectRoadmap.status
    /\ roadmap' = [EnsureProjectRoadmap EXCEPT !.status = status]
    /\ UNCHANGED <<versions, items, job, previewed, activated>>

RoadmapForImport ==
    IF roadmap # NoRoadmap THEN roadmap
    ELSE [NoRoadmap EXCEPT !.status = "PLANNING", !.owned = TRUE]

\* A plan that was imported before is answered from its import.
CommitRoadmapImport(plan, known) ==
    /\ Acceptable(plan) /\ plan.snapshot \in known
    /\ \A v \in DOMAIN versions : versions[v].plan # plan
    /\ Storable(plan)
    /\ Len(versions) < MaxVersions
    /\ versions' = Append(versions, [status |-> "DRAFT", plan |-> plan])
    /\ roadmap' = [RoadmapForImport EXCEPT !.latest = Len(versions) + 1]
    /\ UNCHANGED <<items, job, previewed, activated>>

\* Faulty: the version that was active stays so.
SupersedeNone(v) == versions[v].status

\* The other active versions are superseded.
Supersede(v) ==
    IF versions[v].status = "ACTIVE" THEN "SUPERSEDED" ELSE versions[v].status

Activate ==
    /\ roadmap.latest # None
    /\ versions' = [v \in DOMAIN versions |->
          [versions[v] EXCEPT !.status = IF v = roadmap.latest THEN "ACTIVE" ELSE Supersede(v)]]
    /\ roadmap' = [roadmap EXCEPT !.active = roadmap.latest, !.status = "ACTIVE"]
    /\ activated' = activated \cup {roadmap.latest}
    /\ UNCHANGED <<items, job, previewed>>

\* The latest version is still the latest, and may be activated again.
ArchiveRoadmap ==
    /\ roadmap # NoRoadmap
    /\ versions' = [v \in DOMAIN versions |-> [versions[v] EXCEPT !.status = "ARCHIVED"]]
    /\ roadmap' = [roadmap EXCEPT !.active = None, !.status = "ARCHIVED"]
    /\ UNCHANGED <<items, job, previewed, activated>>

----------------------------------------------------------------------------
(* Import of the backlog                                                   *)

\* The roadmap is looked up by organization, project, status and active version.
RoadmapFound ==
    roadmap.owned /\ roadmap.status = "ACTIVE" /\ roadmap.active # None

PreviewValid ==
    /\ RoadmapFound
    /\ versions[roadmap.active].status = "ACTIVE"
    /\ Importable(versions[roadmap.active].plan)

PreviewBacklogImport ==
    /\ PreviewValid
    /\ previewed' = previewed \cup {roadmap.active}
    /\ UNCHANGED <<roadmap, versions, items, job, activated>>

\* The token of the commit is that of the version which is active now.
BeginBacklogImport(w) ==
    /\ job[w] = Idle
    /\ PreviewValid /\ roadmap.active \in previewed
    /\ LET v == roadmap.active
       IN  job' = [job EXCEPT ![w] =
              [version |-> v,
               missing |-> {k \in CandidateKeys(versions[v].plan) : items[v][k] = 0}]]
    /\ UNCHANGED <<roadmap, versions, items, previewed, activated>>

\* Faulty: the collection has no unique index on the candidate.
IndexAbsent(v, keys) == TRUE

IndexFree(v, keys) == \A k \in keys : items[v][k] = 0

CommitBacklogImport(w) ==
    /\ job[w] # Idle
    /\ IndexFree(job[w].version, job[w].missing)
    /\ items' = [items EXCEPT ![job[w].version] =
          [k \in Candidates |-> @[k] + (IF k \in job[w].missing THEN 1 ELSE 0)]]
    /\ job' = [job EXCEPT ![w] = Idle]
    /\ UNCHANGED <<roadmap, versions, previewed, activated>>

AbortBacklogImport(w) ==
    /\ job[w] # Idle
    /\ job' = [job EXCEPT ![w] = Idle]
    /\ UNCHANGED <<roadmap, versions, items, previewed, activated>>

----------------------------------------------------------------------------
(* Specification                                                           *)

RoadmapStep(known) ==
    \/ GetProjectRoadmap
    \/ \E status \in RoadmapStatus : UpdateProjectRoadmap(status)
    \/ \E plan \in Plans : CommitRoadmapImport(plan, known)
    \/ Activate
    \/ ArchiveRoadmap

BacklogImportStep ==
    \/ PreviewBacklogImport
    \/ \E w \in Importers : BeginBacklogImport(w) \/ CommitBacklogImport(w) \/ AbortBacklogImport(w)

----------------------------------------------------------------------------
(* Properties                                                              *)

\* Values of the state variables.
RoadmapTypeOK ==
    /\ roadmap \in Roadmap \cup {NoRoadmap}
    /\ versions \in Seq([status : VersionStatus, plan : Plans]) /\ Len(versions) <= MaxVersions
    /\ items \in [Numbers -> [Candidates -> Nat]]
    /\ job \in [Importers -> [version : {None} \cup Numbers, missing : SUBSET Candidates]]
    /\ previewed \subseteq Numbers /\ activated \subseteq Numbers

\* Roadmap and versions agree through every sequence of imports, activations, archivals
\* and updates of the status: the version the roadmap calls active is the only active
\* one, the latest is the last imported, and every plan was imported as one version.
RoadmapAgrees ==
    /\ \A v \in DOMAIN versions : versions[v].status = "ACTIVE" <=> roadmap.active = v
    /\ roadmap.active \in {None} \cup DOMAIN versions
    /\ roadmap.latest = Len(versions)
    /\ IsInjective([v \in DOMAIN versions |-> versions[v].plan])

\* Each candidate of a version becomes at most one backlog item, though imports overlap
\* and are repeated; and items are made only of a version that has been active, of a
\* candidate that stands under an epic and a milestone of that version.
BacklogOnce ==
    \A v \in Numbers : \A k \in Candidates : items[v][k] # 0 =>
        /\ items[v][k] = 1
        /\ v \in activated
        /\ \E c \in ToSet(versions[v].plan.candidates) :
              c.key = k /\ Placed(versions[v].plan, c)
=============================================================================
