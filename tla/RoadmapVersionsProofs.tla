------------------------- MODULE RoadmapVersionsProofs -------------------------
(***************************************************************************)
(* What RoadmapVersions states, for any plans, candidates and importers.   *)
(*                                                                         *)
(* RoadmapInv is inductive.  Besides the agreement of the roadmap with its *)
(* versions, it says that the active version is remembered among those     *)
(* that have been active (Remembered), and that an import of the backlog   *)
(* in progress holds candidates which stand in their place in a version    *)
(* that has been active (JobSound): the version may have been superseded   *)
(* or archived since.                                                      *)
(***************************************************************************)
EXTENDS RoadmapVersions, SequenceTheorems, TLAPS

Version == [status : VersionStatus, plan : Plans]

Job == [version : {None} \cup Numbers, missing : SUBSET Candidates]

\* The version has the candidate, under an epic and a milestone of its own.
Stands(v, k) ==
    /\ v \in DOMAIN versions /\ v \in activated
    /\ \E c \in ToSet(versions[v].plan.candidates) : c.key = k /\ Placed(versions[v].plan, c)

Remembered ==
    /\ roadmap.active # None => roadmap.active \in activated
    /\ activated \subseteq DOMAIN versions

JobSound(j) == j # Idle => j.version \in Numbers /\ \A k \in j.missing : Stands(j.version, k)

ItemsSound ==
    \A v \in Numbers : \A k \in Candidates : items[v][k] # 0 => items[v][k] = 1 /\ Stands(v, k)

RoadmapInv ==
    /\ RoadmapTypeOK /\ RoadmapAgrees
    /\ Remembered /\ ItemsSound
    /\ \A w \in Importers : JobSound(job[w])

----------------------------------------------------------------------------
(* Roadmap and versions                                                    *)

LEMMA Kinds ==
    ASSUME RoadmapTypeOK
    PROVE  /\ versions \in Seq(Version) /\ Len(versions) \in Nat /\ Len(versions) <= MaxVersions
           /\ DOMAIN versions = 1 .. Len(versions) /\ DOMAIN versions \subseteq Numbers
           /\ \A v \in DOMAIN versions : versions[v] \in Version
           /\ roadmap \in Roadmap \cup {NoRoadmap} /\ MaxVersions \in Nat
           /\ roadmap.latest \in {None} \cup Numbers /\ roadmap.active \in {None} \cup Numbers
           /\ items \in [Numbers -> [Candidates -> Nat]] /\ job \in [Importers -> Job]
           /\ activated \subseteq Numbers /\ previewed \subseteq Numbers
  <1>1. versions \in Seq(Version) /\ Len(versions) <= MaxVersions /\ MaxVersions \in Nat
    BY RoadmapAssumption DEF RoadmapTypeOK, Version
  <1>2. Len(versions) \in Nat /\ DOMAIN versions = 1 .. Len(versions)
    BY <1>1
  <1>3. DOMAIN versions \subseteq Numbers /\ \A v \in DOMAIN versions : versions[v] \in Version
    BY <1>1, <1>2 DEF Numbers
  <1>4. /\ roadmap \in Roadmap \cup {NoRoadmap}
        /\ roadmap.latest \in {None} \cup Numbers /\ roadmap.active \in {None} \cup Numbers
    BY DEF RoadmapTypeOK, Roadmap, NoRoadmap
  <1>5. /\ items \in [Numbers -> [Candidates -> Nat]] /\ job \in [Importers -> Job]
        /\ activated \subseteq Numbers /\ previewed \subseteq Numbers
    BY DEF RoadmapTypeOK, Job
  <1> QED BY <1>1, <1>2, <1>3, <1>4, <1>5

\* Every plan was imported once.
OncePlanned(vs) == \A v, w \in DOMAIN vs : vs[v].plan = vs[w].plan => v = w

LEMMA PlansOnce == IsInjective([v \in DOMAIN versions |-> versions[v].plan]) <=> OncePlanned(versions)
  BY DEF IsInjective, OncePlanned

\* A new status for versions: what is said of their plans stays true.
LEMMA RestatusedVersions ==
    ASSUME RoadmapInv, NEW f, f = [v \in DOMAIN versions |-> f[v]],
           \A v \in DOMAIN versions : f[v] \in Version /\ f[v].plan = versions[v].plan
    PROVE  /\ f \in Seq(Version) /\ Len(f) = Len(versions) /\ DOMAIN f = DOMAIN versions
           /\ OncePlanned(f)
  <1>1. DOMAIN versions = 1 .. Len(versions) /\ Len(versions) \in Nat /\ DOMAIN f = DOMAIN versions
    BY Kinds DEF RoadmapInv
  <1>2. f \in [1 .. Len(versions) -> Version]
    BY <1>1
  <1>3. f \in Seq(Version)
    BY <1>1, <1>2, SeqDef
  <1>4. Len(f) = Len(versions)
    BY <1>1, <1>3
  <1>5. OncePlanned(versions)
    BY PlansOnce DEF RoadmapInv, RoadmapAgrees
  <1> QED BY <1>1, <1>3, <1>4, <1>5 DEF OncePlanned

\* What was made of a version, and is being made, stands as long as its plan does.
LEMMA BacklogKept ==
    ASSUME RoadmapInv, activated \subseteq activated',
           \A v \in DOMAIN versions : v \in DOMAIN versions' /\ versions'[v].plan = versions[v].plan,
           UNCHANGED <<items, job>>
    PROVE  ItemsSound' /\ \A w \in Importers : JobSound(job[w])'
  <1>1. \A v, k : Stands(v, k) => Stands(v, k)'
    BY DEF Stands
  <1> QED BY <1>1 DEF RoadmapInv, ItemsSound, JobSound

LEMMA ItemsAgree == RoadmapInv => BacklogOnce
  BY DEF RoadmapInv, ItemsSound, BacklogOnce, Stands

----------------------------------------------------------------------------
(* Operations on the roadmap                                               *)

LEMMA EnsuredRoadmap ==
    ASSUME RoadmapInv
    PROVE  /\ EnsureProjectRoadmap \in Roadmap /\ RoadmapForImport \in Roadmap
           /\ EnsureProjectRoadmap.active = roadmap.active
           /\ EnsureProjectRoadmap.latest = roadmap.latest
           /\ RoadmapForImport.active = roadmap.active
           /\ RoadmapForImport.latest = roadmap.latest
  BY Kinds DEF RoadmapInv, EnsureProjectRoadmap, RoadmapForImport, Roadmap, NoRoadmap, RoadmapStatus,
     None

\* The roadmap document changes, and neither of the versions it names.
LEMMA RoadmapRestated ==
    ASSUME RoadmapInv, roadmap' \in Roadmap, roadmap'.active = roadmap.active,
           roadmap'.latest = roadmap.latest,
           UNCHANGED <<versions, items, job, previewed, activated>>
    PROVE  RoadmapInv'
  <1>1. RoadmapTypeOK' /\ RoadmapAgrees' /\ Remembered'
    BY DEF RoadmapInv, RoadmapTypeOK, RoadmapAgrees, Remembered
  <1>2. ItemsSound' /\ \A w \in Importers : JobSound(job[w])'
    BY BacklogKept
  <1> QED BY <1>1, <1>2 DEF RoadmapInv

LEMMA ReadOrUpdateSound ==
    ASSUME RoadmapInv, GetProjectRoadmap \/ \E status \in RoadmapStatus : UpdateProjectRoadmap(status)
    PROVE  RoadmapInv'
  <1>1. CASE GetProjectRoadmap
    BY <1>1, EnsuredRoadmap, RoadmapRestated DEF GetProjectRoadmap
  <1>2. ASSUME NEW status \in RoadmapStatus, UpdateProjectRoadmap(status)
        PROVE  RoadmapInv'
    <2>1. PICK d \in Roadmap : d = EnsureProjectRoadmap
      BY EnsuredRoadmap
    <2>2. /\ [d EXCEPT !.status = status] \in Roadmap
          /\ [d EXCEPT !.status = status].active = d.active
          /\ [d EXCEPT !.status = status].latest = d.latest
      BY DEF Roadmap
    <2> QED BY <1>2, <2>1, <2>2, EnsuredRoadmap, RoadmapRestated DEF UpdateProjectRoadmap
  <1> QED BY <1>1, <1>2

\* A new version is the latest, and leaves the active one as it is.
LEMMA CommitRoadmapImportSound ==
    ASSUME RoadmapInv, NEW plan \in Plans, NEW known, CommitRoadmapImport(plan, known)
    PROVE  RoadmapInv'
  <1>1. PICK new : new = [status |-> "DRAFT", plan |-> plan]
    OBVIOUS
  <1>2. PICK d \in Roadmap : d = RoadmapForImport
    BY EnsuredRoadmap
  <1>3. /\ versions' = Append(versions, new) /\ roadmap' = [d EXCEPT !.latest = Len(versions) + 1]
        /\ Len(versions) < MaxVersions /\ \A v \in DOMAIN versions : versions[v].plan # plan
        /\ UNCHANGED <<items, job, previewed, activated>>
    BY <1>1, <1>2 DEF CommitRoadmapImport
  <1>4. new \in Version /\ new.status # "ACTIVE" /\ new.plan = plan
    BY <1>1 DEF Version, VersionStatus
  <1>5. /\ versions \in Seq(Version) /\ Len(versions) \in Nat /\ MaxVersions \in Nat
        /\ DOMAIN versions = 1 .. Len(versions)
    BY Kinds DEF RoadmapInv
  <1>6. /\ versions' \in Seq(Version) /\ Len(versions') = Len(versions) + 1
        /\ DOMAIN versions' = 1 .. Len(versions) + 1 /\ versions'[Len(versions) + 1] = new
        /\ \A v \in DOMAIN versions : v \in DOMAIN versions' /\ versions'[v] = versions[v]
    BY <1>3, <1>4, <1>5
  <1>7. /\ roadmap' \in Roadmap /\ roadmap'.latest = Len(versions) + 1
        /\ roadmap'.active = roadmap.active
    <2>1. Len(versions) + 1 \in Numbers
      BY <1>3, <1>5 DEF Numbers
    <2> QED BY <1>2, <1>3, <2>1, EnsuredRoadmap DEF Roadmap
  <1>8. RoadmapTypeOK'
    BY <1>3, <1>5, <1>6, <1>7 DEF RoadmapInv, RoadmapTypeOK, Version
  <1>9. RoadmapAgrees'
    <2>1. \A v \in DOMAIN versions : versions[v].status = "ACTIVE" <=> roadmap.active = v
      BY DEF RoadmapInv, RoadmapAgrees
    <2>2. roadmap.active \in {None} \cup DOMAIN versions
      BY DEF RoadmapInv, RoadmapAgrees
    <2>3. \A v \in DOMAIN versions' : v \in DOMAIN versions \/ v = Len(versions) + 1
      BY <1>5, <1>6
    <2>4. \A v \in DOMAIN versions' : versions'[v].status = "ACTIVE" <=> roadmap'.active = v
      BY <1>4, <1>5, <1>6, <1>7, <2>1, <2>2, <2>3 DEF None
    <2>5. OncePlanned(versions)
      BY PlansOnce DEF RoadmapInv, RoadmapAgrees
    <2>6. OncePlanned(versions')
      BY <1>3, <1>4, <1>6, <2>3, <2>5 DEF OncePlanned
    <2>7. IsInjective([v \in DOMAIN versions |-> versions[v].plan])'
      BY <2>6 DEF IsInjective, OncePlanned
    <2> QED BY <1>6, <1>7, <2>2, <2>4, <2>7 DEF RoadmapAgrees
  <1>10. Remembered'
    BY <1>3, <1>6, <1>7 DEF RoadmapInv, Remembered
  <1>11. ItemsSound' /\ \A w \in Importers : JobSound(job[w])'
    BY <1>3, <1>6, BacklogKept
  <1> QED BY <1>8, <1>9, <1>10, <1>11 DEF RoadmapInv
\* The latest version is the active one, and no other.
LEMMA ActivateSound ==
    ASSUME RoadmapInv, Activate
    PROVE  RoadmapInv'
  <1>0. /\ roadmap.latest # None /\ roadmap.latest \in DOMAIN versions
        /\ roadmap.latest = Len(versions) /\ roadmap \in Roadmap
    <2>1. roadmap.latest = Len(versions) /\ roadmap.latest # None
      BY DEF Activate, RoadmapInv, RoadmapAgrees
    <2>2. roadmap \in Roadmap
      BY <2>1, Kinds DEF RoadmapInv, NoRoadmap
    <2> QED BY <2>1, <2>2, Kinds DEF RoadmapInv, None
  <1>1. PICK n \in DOMAIN versions : n = roadmap.latest
    BY <1>0
  <1>2. PICK f : f = [v \in DOMAIN versions |->
                        [versions[v] EXCEPT !.status = IF v = n THEN "ACTIVE" ELSE Supersede(v)]]
    OBVIOUS
  <1>3. /\ versions' = f /\ roadmap' = [roadmap EXCEPT !.active = n, !.status = "ACTIVE"]
        /\ activated' = activated \cup {n} /\ UNCHANGED <<items, job, previewed>>
    BY <1>1, <1>2 DEF Activate
  <1>4. ASSUME NEW v \in DOMAIN versions
        PROVE  /\ f[v] \in Version /\ f[v].plan = versions[v].plan
               /\ f[v].status = "ACTIVE" <=> v = n
    <2>1. PICK d \in Version : d = versions[v]
      BY Kinds DEF RoadmapInv
    <2>2. Supersede(v) \in VersionStatus /\ Supersede(v) # "ACTIVE"
      BY <2>1 DEF Supersede, Version, VersionStatus
    <2>3. PICK status \in VersionStatus : status = IF v = n THEN "ACTIVE" ELSE Supersede(v)
      BY <2>2 DEF VersionStatus
    <2>4. f[v] = [d EXCEPT !.status = status]
      BY <1>2, <2>1, <2>3
    <2>5. f[v] \in Version /\ f[v].plan = d.plan /\ f[v].status = status
      BY <2>4 DEF Version
    <2> QED BY <2>1, <2>2, <2>3, <2>5
  <1>5. f \in Seq(Version) /\ Len(f) = Len(versions) /\ DOMAIN f = DOMAIN versions /\ OncePlanned(f)
    BY <1>2, <1>4, RestatusedVersions
  <1>6. /\ roadmap' \in Roadmap /\ roadmap'.active = n /\ roadmap'.latest = roadmap.latest
        /\ n \in Numbers
    BY <1>0, <1>1, <1>3, Kinds DEF Roadmap, RoadmapStatus, RoadmapInv
  <1>7. RoadmapTypeOK'
    BY <1>3, <1>5, <1>6 DEF RoadmapInv, RoadmapTypeOK, Version
  <1>8. RoadmapAgrees'
    <2>1. IsInjective([v \in DOMAIN versions |-> versions[v].plan])'
      BY <1>3, <1>5 DEF IsInjective, OncePlanned
    <2> QED BY <1>0, <1>3, <1>4, <1>5, <1>6, <2>1 DEF RoadmapAgrees
  <1>9. Remembered'
    BY <1>3, <1>5, <1>6 DEF RoadmapInv, Remembered
  <1>10. ItemsSound' /\ \A w \in Importers : JobSound(job[w])'
    BY <1>3, <1>4, <1>5, BacklogKept
  <1> QED BY <1>7, <1>8, <1>9, <1>10 DEF RoadmapInv

LEMMA ArchiveRoadmapSound ==
    ASSUME RoadmapInv, ArchiveRoadmap
    PROVE  RoadmapInv'
  <1>1. PICK f : f = [v \in DOMAIN versions |-> [versions[v] EXCEPT !.status = "ARCHIVED"]]
    OBVIOUS
  <1>2. /\ versions' = f /\ roadmap' = [roadmap EXCEPT !.active = None, !.status = "ARCHIVED"]
        /\ UNCHANGED <<items, job, previewed, activated>>
    BY <1>1 DEF ArchiveRoadmap
  <1>3. ASSUME NEW v \in DOMAIN versions
        PROVE  f[v] \in Version /\ f[v].plan = versions[v].plan /\ f[v].status # "ACTIVE"
    <2>1. PICK d \in Version : d = versions[v]
      BY Kinds DEF RoadmapInv
    <2>2. f[v] = [d EXCEPT !.status = "ARCHIVED"]
      BY <1>1, <2>1
    <2> QED BY <2>1, <2>2 DEF Version, VersionStatus
  <1>4. f \in Seq(Version) /\ Len(f) = Len(versions) /\ DOMAIN f = DOMAIN versions /\ OncePlanned(f)
    BY <1>1, <1>3, RestatusedVersions
  <1>5. /\ roadmap' \in Roadmap /\ roadmap'.active = None /\ roadmap'.latest = roadmap.latest
    BY <1>2, Kinds DEF ArchiveRoadmap, Roadmap, RoadmapStatus, RoadmapInv
  <1>6. RoadmapTypeOK'
    BY <1>2, <1>4, <1>5 DEF RoadmapInv, RoadmapTypeOK, Version
  <1>7. RoadmapAgrees'
    <2>1. IsInjective([v \in DOMAIN versions |-> versions[v].plan])'
      BY <1>2, <1>4 DEF IsInjective, OncePlanned
    <2>2. roadmap.latest = Len(versions)
      BY DEF RoadmapInv, RoadmapAgrees
    <2>3. \A v \in DOMAIN versions : v # None
      BY Kinds DEF RoadmapInv, None
    <2> QED BY <1>2, <1>3, <1>4, <1>5, <2>1, <2>2, <2>3 DEF RoadmapAgrees
  <1>8. Remembered'
    BY <1>2, <1>4, <1>5 DEF RoadmapInv, Remembered
  <1>9. ItemsSound' /\ \A w \in Importers : JobSound(job[w])'
    BY <1>2, <1>3, <1>4, BacklogKept
  <1> QED BY <1>6, <1>7, <1>8, <1>9 DEF RoadmapInv

----------------------------------------------------------------------------
(* Import of the backlog                                                   *)

\* Roadmap, versions and items, when only the imports in progress change.
LEMMA JobsChanged ==
    ASSUME RoadmapInv, UNCHANGED <<roadmap, versions, activated>>,
           previewed' \subseteq Numbers, job' \in [Importers -> Job],
           items' \in [Numbers -> [Candidates -> Nat]], ItemsSound',
           \A w \in Importers : JobSound(job'[w])
    PROVE  RoadmapInv'
  <1>1. RoadmapTypeOK' /\ RoadmapAgrees' /\ Remembered'
    BY DEF RoadmapInv, RoadmapTypeOK, RoadmapAgrees, Remembered, Job
  <1>2. \A w \in Importers : JobSound(job[w])'
    BY DEF JobSound, Stands
  <1> QED BY <1>1, <1>2 DEF RoadmapInv

LEMMA ItemsSame ==
    ASSUME RoadmapInv, UNCHANGED <<versions, activated, items>>
    PROVE  ItemsSound'
  BY DEF RoadmapInv, ItemsSound, Stands

\* An active version that may be imported has its candidates in their place.
LEMMA PreviewedStand ==
    ASSUME RoadmapInv, PreviewValid
    PROVE  /\ roadmap.active \in Numbers
           /\ CandidateKeys(versions[roadmap.active].plan) \subseteq Candidates
           /\ \A k \in CandidateKeys(versions[roadmap.active].plan) : Stands(roadmap.active, k)
  <1>1. roadmap.active # None /\ Importable(versions[roadmap.active].plan)
    BY DEF PreviewValid, RoadmapFound
  <1>2. roadmap.active \in DOMAIN versions /\ roadmap.active \in activated
    BY <1>1 DEF RoadmapInv, RoadmapAgrees, Remembered
  <1>3. roadmap.active \in Numbers /\ versions[roadmap.active].plan \in Plans
    BY <1>2, Kinds DEF RoadmapInv, Version
  <1>4. \A k \in CandidateKeys(versions[roadmap.active].plan) :
           \E c \in ToSet(versions[roadmap.active].plan.candidates) :
              c.key = k /\ Placed(versions[roadmap.active].plan, c)
    BY <1>1 DEF CandidateKeys, KeysOf, Importable
  <1> QED BY <1>2, <1>3, <1>4, RoadmapAssumption DEF Stands

LEMMA PreviewBacklogImportSound ==
    ASSUME RoadmapInv, PreviewBacklogImport
    PROVE  RoadmapInv'
  <1>1. /\ previewed' = previewed \cup {roadmap.active}
        /\ UNCHANGED <<roadmap, versions, items, job, activated>>
    BY DEF PreviewBacklogImport
  <1>2. previewed' \subseteq Numbers
    BY <1>1, PreviewedStand, Kinds DEF PreviewBacklogImport, RoadmapInv
  <1>3. ItemsSound' /\ items' \in [Numbers -> [Candidates -> Nat]] /\ job' \in [Importers -> Job]
    BY <1>1, ItemsSame, Kinds DEF RoadmapInv
  <1>4. \A w \in Importers : JobSound(job'[w])
    BY <1>1 DEF RoadmapInv
  <1> QED BY <1>1, <1>2, <1>3, <1>4, JobsChanged

LEMMA BeginBacklogImportSound ==
    ASSUME RoadmapInv, NEW w \in Importers, BeginBacklogImport(w)
    PROVE  RoadmapInv'
  <1>1. PICK v \in Numbers : v = roadmap.active
    BY PreviewedStand DEF BeginBacklogImport
  <1>2. PICK j : j = [version |-> v,
                      missing |-> {k \in CandidateKeys(versions[v].plan) : items[v][k] = 0}]
    OBVIOUS
  <1>3. job' = [job EXCEPT ![w] = j] /\ UNCHANGED <<roadmap, versions, items, previewed, activated>>
    BY <1>1, <1>2 DEF BeginBacklogImport
  <1>4. /\ j \in Job /\ j.version = v /\ \A k \in j.missing : Stands(v, k)
    BY <1>1, <1>2, PreviewedStand DEF BeginBacklogImport, Job
  <1>5. job' \in [Importers -> Job] /\ \A x \in Importers : job'[x] = IF x = w THEN j ELSE job[x]
    BY <1>3, <1>4, Kinds DEF RoadmapInv
  <1>6. \A x \in Importers : JobSound(job'[x])
    BY <1>4, <1>5 DEF RoadmapInv, JobSound
  <1>7. ItemsSound' /\ items' \in [Numbers -> [Candidates -> Nat]] /\ previewed' \subseteq Numbers
    BY <1>3, ItemsSame, Kinds DEF RoadmapInv
  <1> QED BY <1>3, <1>5, <1>6, <1>7, JobsChanged

LEMMA IdleJob == Idle \in Job /\ JobSound(Idle)
  BY DEF Idle, Job, JobSound

\* The unique index refuses the second item of a candidate.
LEMMA CommitBacklogImportSound ==
    ASSUME RoadmapInv, NEW w \in Importers, CommitBacklogImport(w)
    PROVE  RoadmapInv'
  <1>1. PICK j \in Job : j = job[w]
    BY Kinds DEF RoadmapInv
  <1>2. j.version \in Numbers /\ \A k \in j.missing : Stands(j.version, k) /\ items[j.version][k] = 0
    BY <1>1 DEF RoadmapInv, JobSound, CommitBacklogImport, IndexFree
  <1>3. PICK v \in Numbers : v = j.version
    BY <1>2
  <1>4. PICK f : f = [k \in Candidates |-> items[v][k] + (IF k \in j.missing THEN 1 ELSE 0)]
    OBVIOUS
  <1>5. /\ items' = [items EXCEPT ![v] = f] /\ job' = [job EXCEPT ![w] = Idle]
        /\ UNCHANGED <<roadmap, versions, previewed, activated>>
    BY <1>1, <1>3, <1>4, Kinds DEF CommitBacklogImport, RoadmapInv
  <1>6. items \in [Numbers -> [Candidates -> Nat]] /\ job \in [Importers -> Job]
    BY Kinds DEF RoadmapInv
  <1>7. /\ f \in [Candidates -> Nat]
        /\ \A k \in Candidates : f[k] = IF k \in j.missing THEN 1 ELSE items[v][k]
    <2>1. \A k \in Candidates : items[v][k] \in Nat /\ (k \in j.missing => items[v][k] = 0)
      BY <1>2, <1>3, <1>6
    <2> QED BY <1>4, <2>1
  <1>8. items' \in [Numbers -> [Candidates -> Nat]] /\ items'[v] = f
        /\ \A x \in Numbers \ {v} : items'[x] = items[x]
    BY <1>5, <1>6, <1>7
  <1>9. ItemsSound'
    <2> SUFFICES ASSUME NEW x \in Numbers, NEW k \in Candidates, items'[x][k] # 0
                 PROVE  items'[x][k] = 1 /\ Stands(x, k)'
      BY DEF ItemsSound
    <2>1. items'[x][k] = 1 /\ Stands(x, k)
      <3>1. CASE x = v /\ k \in j.missing
        BY <1>2, <1>3, <1>7, <1>8, <3>1
      <3>2. CASE ~(x = v /\ k \in j.missing)
        <4>1. items'[x][k] = items[x][k]
          BY <1>7, <1>8, <3>2
        <4> QED BY <4>1 DEF RoadmapInv, ItemsSound
      <3> QED BY <3>1, <3>2
    <2> QED BY <1>5, <2>1 DEF Stands
  <1>10. job' \in [Importers -> Job] /\ \A x \in Importers : JobSound(job'[x])
    BY <1>5, <1>6, IdleJob DEF RoadmapInv
  <1> QED BY <1>5, <1>8, <1>9, <1>10, Kinds, JobsChanged DEF RoadmapInv

LEMMA AbortBacklogImportSound ==
    ASSUME RoadmapInv, NEW w \in Importers, AbortBacklogImport(w)
    PROVE  RoadmapInv'
  <1>1. /\ job' = [job EXCEPT ![w] = Idle]
        /\ UNCHANGED <<roadmap, versions, items, previewed, activated>>
    BY DEF AbortBacklogImport
  <1>2. job' \in [Importers -> Job] /\ \A x \in Importers : JobSound(job'[x])
    BY <1>1, IdleJob, Kinds DEF RoadmapInv
  <1>3. ItemsSound' /\ items' \in [Numbers -> [Candidates -> Nat]] /\ previewed' \subseteq Numbers
    BY <1>1, ItemsSame, Kinds DEF RoadmapInv
  <1> QED BY <1>1, <1>2, <1>3, JobsChanged

----------------------------------------------------------------------------
(* The invariant                                                           *)

LEMMA RoadmapInitSound == RoadmapInit => RoadmapInv
  <1> SUFFICES ASSUME RoadmapInit PROVE RoadmapInv
    OBVIOUS
  <1>1. /\ roadmap = NoRoadmap /\ versions = <<>> /\ previewed = {} /\ activated = {}
        /\ items \in [Numbers -> [Candidates -> Nat]] /\ \A v \in Numbers : \A k \in Candidates : items[v][k] = 0
        /\ job \in [Importers -> Job] /\ \A w \in Importers : job[w] = Idle
    BY IdleJob DEF RoadmapInit
  <1>2. DOMAIN versions = {} /\ Len(versions) = 0 /\ versions \in Seq(Version)
    BY <1>1
  <1>3. RoadmapTypeOK
    BY <1>1, <1>2, RoadmapAssumption DEF RoadmapTypeOK, Version, Job
  <1>4. RoadmapAgrees
    <2>1. IsInjective([v \in DOMAIN versions |-> versions[v].plan])
      BY <1>2 DEF IsInjective
    <2> QED BY <1>1, <1>2, <2>1 DEF RoadmapAgrees, NoRoadmap, None
  <1>5. Remembered /\ ItemsSound /\ \A w \in Importers : JobSound(job[w])
    BY <1>1, IdleJob DEF Remembered, ItemsSound, NoRoadmap
  <1> QED BY <1>3, <1>4, <1>5 DEF RoadmapInv

LEMMA RoadmapSame ==
    ASSUME RoadmapInv, UNCHANGED roadmapVars
    PROVE  RoadmapInv'
  <1>1. UNCHANGED <<roadmap, versions, items, job, previewed, activated>>
    BY DEF roadmapVars
  <1>2. ItemsSound' /\ \A w \in Importers : JobSound(job'[w])
    BY <1>1, ItemsSame DEF RoadmapInv
  <1> QED BY <1>1, <1>2, Kinds, JobsChanged DEF RoadmapInv

\* Whatever snapshots are known.
LEMMA RoadmapNextSound ==
    ASSUME RoadmapInv, NEW known, RoadmapStep(known) \/ BacklogImportStep
    PROVE  RoadmapInv'
  <1>1. CASE RoadmapStep(known)
    BY <1>1, ReadOrUpdateSound, CommitRoadmapImportSound, ActivateSound, ArchiveRoadmapSound
       DEF RoadmapStep
  <1>2. CASE BacklogImportStep
    BY <1>2, PreviewBacklogImportSound, BeginBacklogImportSound, CommitBacklogImportSound,
       AbortBacklogImportSound DEF BacklogImportStep
  <1> QED BY <1>1, <1>2
=============================================================================
