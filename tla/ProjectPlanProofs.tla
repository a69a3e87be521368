--------------------------- MODULE ProjectPlanProofs ---------------------------
(***************************************************************************)
(* What the behaviours of ProjectPlan keep to, whatever area they work on: *)
(* the invariants of the documentation and of the roadmap, proved in       *)
(* DocumentPagesProofs and RoadmapVersionsProofs, that of the team, and    *)
(* the readiness made of all three.                                        *)
(***************************************************************************)
EXTENDS ProjectPlan, DocumentPagesProofs, RoadmapVersionsProofs

TeamInv == TeamTypeOK /\ OneMembership

BoardSignals == {"BACKLOG_READY", "SCRUM_READY"}

PlanInv ==
    /\ DocInv /\ RoadmapInv /\ TeamInv
    /\ area \in Areas /\ board \subseteq BoardSignals

----------------------------------------------------------------------------
(* The team                                                                *)

LEMMA SameSymmetric ==
    ASSUME NEW d, NEW e
    PROVE  (SameUser(d, e) <=> SameUser(e, d)) /\ (SameEmail(d, e) <=> SameEmail(e, d))
  BY DEF SameUser, SameEmail

LEMMA ChangeKinds ==
    ASSUME TeamTypeOK
    PROVE  /\ member \in [Members -> Member \cup {NoMember}]
           /\ change \in [Managers -> Change \cup {NoChange}]
           /\ \A m \in Members : member[m] # NoMember => member[m] \in Member
           /\ \A g \in Managers : change[g] # NoChange => change[g] \in Change
  BY DEF TeamTypeOK

\* The memberships, when only the changes in progress differ.
LEMMA ChangesMoved ==
    ASSUME TeamInv, member' = member, change' \in [Managers -> Change \cup {NoChange}]
    PROVE  TeamInv'
  BY DEF TeamInv, TeamTypeOK, OneMembership

LEMMA DecideSound ==
    ASSUME TeamInv, NEW g \in Managers, NEW m \in Members, NEW d \in Member, Decide(g, m, d)
    PROVE  TeamInv'
  <1>1. PICK c : c = [op |-> "save", member |-> m, document |-> d, stale |-> FALSE]
    OBVIOUS
  <1>2. c \in Change /\ change' = [change EXCEPT ![g] = c] /\ member' = member
    BY <1>1 DEF Change, Decide
  <1> QED BY <1>2, ChangeKinds, ChangesMoved DEF TeamInv

LEMMA BeginSound ==
    ASSUME TeamInv, NEW g \in Managers, NEW m \in Members,
           \/ BeginActivate(g, m)
           \/ \E d \in Member : BeginCreate(g, m, d) \/ BeginUpdate(g, m, d)
    PROVE  TeamInv'
  <1>1. CASE BeginActivate(g, m)
    <2>1. PICK e \in Member : e = member[m]
      BY <1>1, ChangeKinds DEF BeginActivate, TeamInv
    <2>2. PICK d : d = [e EXCEPT !.status = "ACTIVE"]
      OBVIOUS
    <2>3. d \in Member /\ Decide(g, m, d)
      BY <1>1, <2>1, <2>2 DEF Member, MemberStatus, BeginActivate
    <2> QED BY <2>3, DecideSound
  <1>2. ASSUME NEW d \in Member, BeginCreate(g, m, d) \/ BeginUpdate(g, m, d)
        PROVE  TeamInv'
    BY <1>2, DecideSound DEF BeginCreate, BeginUpdate
  <1> QED BY <1>1, <1>2

\* The changes in progress of a document, once it was written.
LEMMA StaleKinds ==
    ASSUME TeamTypeOK, NEW h \in Managers
    PROVE  /\ change[h] # NoChange => [change[h] EXCEPT !.stale = TRUE] \in Change
           /\ change[h] \in Change \cup {NoChange}
  BY ChangeKinds DEF Change

\* A membership that is written must find no other active one of its user or address.
LEMMA WrittenAlone ==
    ASSUME TeamInv, NEW m \in Members, NEW d \in Member, member' = [member EXCEPT ![m] = d],
           UniqueActive(m, d), change' \in [Managers -> Change \cup {NoChange}]
    PROVE  TeamInv'
  <1>1. /\ member' \in [Members -> Member \cup {NoMember}] /\ member'[m] = d
        /\ \A n \in Members \ {m} : member'[n] = member[n]
    BY ChangeKinds DEF TeamInv
  <1>2. ASSUME NEW n \in Members \ {m}, member[n].status = "ACTIVE", d.status = "ACTIVE"
        PROVE  ~SameUser(d, member[n]) /\ ~SameEmail(d, member[n])
    BY <1>2 DEF UniqueActive, ActiveOthers
  <1>3. ASSUME NEW x \in Members, NEW y \in Members, x # y,
               member'[x].status = "ACTIVE", member'[y].status = "ACTIVE"
        PROVE  ~SameUser(member'[x], member'[y]) /\ ~SameEmail(member'[x], member'[y])
    <2>1. CASE x = m
      BY <1>1, <1>2, <1>3, <2>1
    <2>2. CASE y = m
      BY <1>1, <1>2, <1>3, <2>2, SameSymmetric
    <2>3. CASE x # m /\ y # m
      BY <1>1, <1>3, <2>3 DEF TeamInv, OneMembership
    <2> QED BY <2>1, <2>2, <2>3
  <1>4. OneMembership'
    BY <1>3 DEF OneMembership, SameUser, SameEmail
  <1> QED BY <1>1, <1>4 DEF TeamInv, TeamTypeOK

LEMMA CommitChangeSound ==
    ASSUME TeamInv, NEW g \in Managers, CommitChange(g)
    PROVE  TeamInv'
  <1>1. PICK c \in Change : c = change[g]
    BY ChangeKinds DEF CommitChange, TeamInv
  <1>2. c.member \in Members /\ c.document \in Member
    BY DEF Change
  <1>3. UniqueActive(c.member, c.document) /\ member' = [member EXCEPT ![c.member] = c.document]
    BY <1>1 DEF CommitChange
  <1>4. change' \in [Managers -> Change \cup {NoChange}]
    <2>1. ASSUME NEW h \in Managers
          PROVE  (IF h = g THEN NoChange
                  ELSE IF change[h] # NoChange /\ change[h].member = change[g].member
                  THEN [change[h] EXCEPT !.stale = TRUE] ELSE change[h]) \in Change \cup {NoChange}
      BY StaleKinds DEF TeamInv
    <2> QED BY <2>1 DEF CommitChange
  <1> QED BY <1>2, <1>3, <1>4, WrittenAlone

LEMMA AbortChangeSound ==
    ASSUME TeamInv, NEW g \in Managers, AbortChange(g)
    PROVE  TeamInv'
  BY ChangeKinds, ChangesMoved DEF AbortChange, TeamInv

LEMMA DeactivateSound ==
    ASSUME TeamInv, NEW m \in Members, Deactivate(m)
    PROVE  TeamInv'
  <1>1. PICK e \in Member : e = member[m]
    BY ChangeKinds DEF Deactivate, TeamInv
  <1>2. PICK d : d = [e EXCEPT !.status = "INACTIVE"]
    OBVIOUS
  <1>3. d \in Member /\ d.status = "INACTIVE" /\ Write(m, d)
    BY <1>1, <1>2 DEF Member, MemberStatus, Deactivate
  <1>4. change' \in [Managers -> Change \cup {NoChange}]
    <2>1. ASSUME NEW h \in Managers
          PROVE  (IF change[h] # NoChange /\ change[h].member = m
                  THEN [change[h] EXCEPT !.stale = TRUE] ELSE change[h]) \in Change \cup {NoChange}
      BY StaleKinds DEF TeamInv
    <2> QED BY <1>3, <2>1 DEF Write
  <1> QED BY <1>3, <1>4, WrittenAlone DEF Write, UniqueActive

LEMMA TeamStepSound ==
    ASSUME TeamInv, TeamStep
    PROVE  TeamInv'
  BY BeginSound, CommitChangeSound, AbortChangeSound, DeactivateSound DEF TeamStep

LEMMA TeamSame ==
    ASSUME TeamInv, UNCHANGED teamVars
    PROVE  TeamInv'
  BY ChangeKinds, ChangesMoved DEF teamVars, TeamInv

LEMMA TeamInitSound == TeamInit => TeamInv
  <1> SUFFICES ASSUME TeamInit PROVE TeamInv
    OBVIOUS
  <1>1. TeamTypeOK /\ \A m \in Members : member[m].status = "ABSENT"
    BY DEF TeamInit, TeamTypeOK, NoMember
  <1> QED BY <1>1 DEF TeamInv, OneMembership
----------------------------------------------------------------------------
(* The documented project                                                  *)

\* A page, its rows and its snapshot, as three requests and a snapshot have left them.
LEMMA DocumentedSound ==
    ASSUME NEW p \in Pages, DocumentedInit(p)
    PROVE  DocInv
  <1>1. PICK slug \in Slugs : slug = CHOOSE s \in Slugs : TRUE
    BY AreaAssumption
  <1>2. PICK done : done = Written(p, "APPROVED", 3)
    OBVIOUS
  <1>3. done = [status |-> "APPROVED", slug |-> slug, content |-> "text", sort |-> 0, version |-> 3]
    BY <1>1, <1>2 DEF Written
  <1>4. 0 \in Positions
    BY DocumentAssumption, FS_CardinalityType DEF Positions
  <1>5. done \in Page /\ done.version = 3 /\ done.status = "APPROVED" /\ done.content = "text"
    BY <1>3, <1>4, AreaAssumption DEF Page, PageStatus
  <1> DEFINE row(made, status) == [change |-> made, status |-> status, slug |-> slug,
                                   content |-> "text", sort |-> 0]
  <1>6. PICK first : first = row("CREATE", "DRAFT")
    OBVIOUS
  <1>7. PICK second : second = row("SUBMIT_REVIEW", "IN_REVIEW")
    OBVIOUS
  <1>8. PICK third : third = row("APPROVE", "APPROVED")
    OBVIOUS
  <1>9. /\ first \in Row /\ second \in Row /\ third \in Row
        /\ first.change = "CREATE" /\ third.status = "APPROVED" /\ third.content = "text"
    BY <1>4, <1>6, <1>7, <1>8, AreaAssumption DEF Row, ChangeType, PageStatus
  <1>10. RowOf(done, "CREATE") = [third EXCEPT !.change = "CREATE"]
    BY <1>3, <1>8 DEF RowOf
  <1> HIDE DEF row
  <1>11. PICK history : history = <<first, second, third>>
    OBVIOUS
  <1>12. History(p) = history
    BY <1>1, <1>6, <1>7, <1>8, <1>11 DEF History, Written, RowOf, row
  <1>13. /\ history \in Seq(Row) /\ Len(history) = 3 /\ DOMAIN history = 1 .. 3
         /\ history[1] = first /\ history[3] = third
    BY <1>9, <1>11
  <1>14. /\ page = [q \in Pages |-> IF q = p THEN done ELSE Absent]
         /\ rows = [q \in Pages |-> IF q = p THEN history ELSE <<>>]
         /\ tokens = {} /\ taking = <<>> /\ snapshots = {Frozen(p)} /\ imported = {}
         /\ approvals = {[page |-> p, read |-> "text"]}
    BY <1>2, <1>12 DEF DocumentedInit
  <1>15. /\ page[p] = done /\ rows[p] = history
         /\ \A q \in Pages \ {p} : page[q] = Absent /\ rows[q] = <<>>
         /\ \A q \in Pages : q \in Existing <=> q = p
    BY <1>5, <1>14, Documents DEF Existing
  <1>16. PICK source : source = [version |-> 3, row |-> third]
    OBVIOUS
  <1>17. source \in Source /\ source.version = 3 /\ source.row = third
    BY <1>9, <1>16 DEF Source
  <1>18. PICK frozen : frozen = Frozen(p)
    OBVIOUS
  <1>19. DOMAIN frozen = {p} /\ frozen[p] = source
    BY <1>12, <1>13, <1>16, <1>18 DEF Frozen, Alone
  <1>20. DOMAIN <<>> = {}
    OBVIOUS
  <1>21. \A s \in snapshots \cup {taking} : Quoted(s)
    BY <1>9, <1>13, <1>14, <1>15, <1>17, <1>18, <1>19, <1>20 DEF Quoted
  <1>22. DocTypeOK
    <2>1. /\ page \in [Pages -> Page \cup {Absent}] /\ rows \in [Pages -> Seq(Row)]
      BY <1>5, <1>13, <1>14
    <2>2. approvals \in SUBSET [page : Pages, read : Contents]
      BY <1>14, AreaAssumption
    <2> QED BY <1>14, <1>21, <2>1, <2>2 DEF DocTypeOK, Quoted
  <1>23. PageHistory
    <2> SUFFICES ASSUME NEW q \in Pages
                 PROVE  IF q \in Existing
                        THEN /\ Len(rows[q]) = page[q].version
                             /\ RowOf(page[q], "CREATE") = [rows[q][Len(rows[q])] EXCEPT !.change = "CREATE"]
                             /\ rows[q][1].change = "CREATE"
                        ELSE rows[q] = <<>>
      BY DEF PageHistory
    <2>1. CASE q = p
      BY <1>5, <1>9, <1>10, <1>13, <1>15, <2>1
    <2>2. CASE q # p
      BY <1>15, <2>2
    <2> QED BY <2>1, <2>2
  <1>24. ApprovedRead
    BY <1>5, <1>14, <1>15 DEF ApprovedRead, Absent
  <1>25. ImportClosed
    BY <1>14 DEF ImportClosed
  <1> QED BY <1>21, <1>22, <1>23, <1>24, <1>25 DEF DocInv

----------------------------------------------------------------------------
(* The invariant                                                           *)

LEMMA PlanInitSound == Init => PlanInv
  <1> SUFFICES ASSUME Init PROVE PlanInv
    OBVIOUS
  <1>1. DocInv
    BY DocInitSound, DocumentedSound DEF Init
  <1>2. RoadmapInv /\ TeamInv
    BY RoadmapInitSound, TeamInitSound DEF Init
  <1> QED BY <1>1, <1>2 DEF Init, PlanInv

LEMMA PlanNextSound == PlanInv /\ [Next]_vars => PlanInv'
  <1> SUFFICES ASSUME PlanInv, [Next]_vars PROVE PlanInv'
    OBVIOUS
  <1>0. /\ DocInv /\ RoadmapInv /\ TeamInv /\ area \in Areas /\ board \subseteq BoardSignals
    BY DEF PlanInv
  <1>1. CASE DocumentStep /\ UNCHANGED area
    <2>1. DocInv' /\ UNCHANGED roadmapVars /\ UNCHANGED teamVars /\ UNCHANGED <<board, area>>
      BY <1>0, <1>1, DocNextSound DEF DocumentStep
    <2> QED BY <1>0, <2>1, RoadmapSame, TeamSame DEF PlanInv
  <1>2. CASE PlanStep /\ UNCHANGED area
    <2>1. PICK known : known = snapshots
      OBVIOUS
    <2>2. RoadmapStep(known) \/ BacklogImportStep
      BY <1>2, <2>1 DEF PlanStep
    <2>3. RoadmapInv' /\ UNCHANGED docVars /\ UNCHANGED teamVars /\ UNCHANGED <<board, area>>
      BY <1>0, <1>2, <2>2, RoadmapNextSound DEF PlanStep
    <2> QED BY <1>0, <2>3, DocSame, TeamSame DEF PlanInv
  <1>3. CASE BoardChanges /\ UNCHANGED area
    <2>1. /\ board' \subseteq BoardSignals /\ UNCHANGED docVars /\ UNCHANGED roadmapVars
          /\ UNCHANGED teamVars /\ UNCHANGED area
      BY <1>3 DEF BoardChanges, BoardSignals
    <2> QED BY <1>0, <2>1, DocSame, RoadmapSame, TeamSame DEF PlanInv
  <1>4. CASE StaffStep /\ UNCHANGED area
    <2>1. TeamInv' /\ UNCHANGED docVars /\ UNCHANGED roadmapVars /\ UNCHANGED <<board, area>>
      BY <1>0, <1>4, TeamStepSound DEF StaffStep
    <2> QED BY <1>0, <2>1, DocSame, RoadmapSame DEF PlanInv
  <1>5. CASE UNCHANGED vars
    <2>1. /\ UNCHANGED docVars /\ UNCHANGED roadmapVars /\ UNCHANGED teamVars
          /\ UNCHANGED <<board, area>>
      BY <1>5 DEF vars
    <2> QED BY <1>0, <2>1, DocSame, RoadmapSame, TeamSame DEF PlanInv
  <1> QED BY <1>1, <1>2, <1>3, <1>4, <1>5 DEF Next

\* The inductive invariant of documentation, roadmap and team.
THEOREM PlanInvariant == Spec => []PlanInv
  BY PlanInitSound, PlanNextSound, PTL DEF Spec

\* The level of readiness is one of the six there are.
LEMMA Greatest ==
    ASSUME NEW S \in SUBSET (0 .. 5), 0 \in S
    PROVE  Max(S) \in S
  <1>1. \E x \in S : \A y \in S : x >= y
    OBVIOUS
  <1> QED BY <1>1 DEF Max

LEMMA Levelled == ReadinessLevel \in ToSet(ORDERED_READINESS)
  <1> DEFINE S == {n \in 0 .. Len(Needs) : \A k \in 1 .. n : Needs[k] \subseteq Signals}
  <1>1. Len(Needs) = 5
    BY DEF Needs
  <1>2. S \in SUBSET (0 .. 5) /\ 0 \in S
    BY <1>1
  <1>3. Rank = Max(S)
    BY DEF Rank
  <1> HIDE DEF S
  <1>4. Rank \in 0 .. 5
    BY <1>2, <1>3, Greatest
  <1>5. Len(ORDERED_READINESS) = 6 /\ DOMAIN ORDERED_READINESS = 1 .. 6
    BY DEF ORDERED_READINESS
  <1>6. Rank + 1 \in DOMAIN ORDERED_READINESS
    BY <1>4, <1>5
  <1> QED BY <1>6 DEF ReadinessLevel, ToSet

\* The documents of the three parts keep the shape their schemas give them, and the
\* readiness is always one of its levels.
THEOREM TypeCorrect == Spec => []TypeOK
  <1>1. PlanInv => TypeOK
    BY Levelled DEF PlanInv, DocInv, RoadmapInv, TeamInv, TypeOK, BoardSignals
  <1> QED BY <1>1, PlanInvariant, PTL

\* Every version of a page has its row, the last of them the page as it is.
THEOREM HistoryKept == Spec => []PageHistory
  <1>1. PlanInv => PageHistory
    BY DEF PlanInv, DocInv
  <1> QED BY <1>1, PlanInvariant, PTL

\* Every row a snapshot quotes is there, and was read by the one who approved it.
THEOREM SnapshotKept == Spec => []SnapshotApproved
  <1>1. PlanInv => SnapshotApproved
    BY QuotedApproved DEF PlanInv
  <1> QED BY <1>1, PlanInvariant, PTL

\* What is imported refers to nothing that it does not contain.
THEOREM ImportKept == Spec => []ImportClosed
  <1>1. PlanInv => ImportClosed
    BY DEF PlanInv, DocInv
  <1> QED BY <1>1, PlanInvariant, PTL

\* The active version of the roadmap is the only one with that status, the latest is
\* the last, and no plan is imported twice.
THEOREM RoadmapKept == Spec => []RoadmapAgrees
  <1>1. PlanInv => RoadmapAgrees
    BY DEF PlanInv, RoadmapInv
  <1> QED BY <1>1, PlanInvariant, PTL

\* A candidate becomes one backlog item at most, and only of a version that was active.
THEOREM BacklogMadeOnce == Spec => []BacklogOnce
  <1>1. PlanInv => BacklogOnce
    BY ItemsAgree DEF PlanInv
  <1> QED BY <1>1, PlanInvariant, PTL

\* No user and no address has two active memberships.
THEOREM MembershipsUnique == Spec => []OneMembership
  <1>1. PlanInv => OneMembership
    BY DEF PlanInv, TeamInv
  <1> QED BY <1>1, PlanInvariant, PTL

----------------------------------------------------------------------------
(* Readiness                                                               *)

LEMMA SavedPages ==
    ASSUME NEW docs, NEW made, Save(docs, made), NEW p \in Pages
    PROVE  page'[p] = IF p \in DOMAIN docs THEN docs[p] ELSE page[p]
  BY DEF Save

\* Nothing but its archival takes an approved page from what is approved.
LEMMA ApprovedStays ==
    ASSUME DocInv, DocNext, NEW p \in Approved
    PROVE  \/ page'[p].status = "ARCHIVED"
           \/ page'[p].status = "APPROVED" /\ page'[p].content = page[p].content
  <1>1. p \in Pages /\ p \in Existing /\ page[p] \in Page /\ page[p].status = "APPROVED"
    BY Existence DEF Approved, DocInv
  <1>2. ASSUME page'[p] = page[p]
        PROVE  page'[p].status = "APPROVED" /\ page'[p].content = page[p].content
    BY <1>1, <1>2
  <1>3. ASSUME NEW q \in Pages, NEW d, NEW made, Save(Alone(q, d), made), q # p
        PROVE  page'[p] = page[p]
    BY <1>1, <1>3, SavedPages DEF Alone
  <1>4. CASE PageStep
    <2>1. ASSUME NEW q \in Pages, NEW status, NEW slug, NEW content, NEW sort,
                 CreatePage(q, status, slug, content, sort)
          PROVE  page'[p] = page[p]
      BY <1>1, <1>3, <2>1 DEF CreatePage
    <2>2. ASSUME NEW q \in Pages, NEW read, NEW slug, NEW content, NEW sort,
                 UpdatePage(q, read, slug, content, sort)
          PROVE  page'[p] = page[p]
      <3>1. q # p
        BY <1>1, <2>2 DEF UpdatePage, Editable
      <3>2. PICK d : Save(Alone(q, d), "UPDATE")
        BY <2>2 DEF UpdatePage, Changed
      <3> QED BY <1>3, <3>1, <3>2
    <2>3. ASSUME NEW place, Reorder(place)
          PROVE  page'[p].status = "APPROVED" /\ page'[p].content = page[p].content
      <3> DEFINE moved == {q \in DOMAIN place : place[q] # page[q].sort}
      <3>1. PICK docs : docs = [q \in moved |-> [page[q] EXCEPT !.sort = place[q], !.version = @ + 1]]
        OBVIOUS
      <3>2. Save(docs, "REORDER")
        BY <2>3, <3>1 DEF Reorder
      <3>3. CASE p \in moved
        <4>1. PICK d \in Page : d = page[p]
          BY <1>1
        <4>2. docs[p] = [d EXCEPT !.sort = place[p], !.version = @ + 1] /\ p \in DOMAIN docs
          BY <3>1, <3>3, <4>1
        <4>3. docs[p].status = d.status /\ docs[p].content = d.content
          BY <4>2 DEF Page
        <4>4. page'[p] = docs[p]
          BY <1>1, <3>2, <4>2, SavedPages
        <4>5. page[p].status = "APPROVED" /\ page[p].content = d.content /\ d.status = page[p].status
          BY <1>1, <4>1
        <4> QED BY <4>3, <4>4, <4>5
      <3>4. CASE p \notin moved
        <4>1. p \notin DOMAIN docs
          BY <3>1, <3>4
        <4>2. page'[p] = page[p]
          BY <1>1, <3>2, <4>1, SavedPages
        <4> QED BY <1>2, <4>2
      <3> QED BY <3>3, <3>4
    <2> QED BY <1>2, <1>4, <2>1, <2>2, <2>3 DEF PageStep
  <1>5. CASE ReviewStep
    <2>1. PICK q \in Pages, read \in 1 .. MaxRows :
              SubmitReview(q, read) \/ Approve(q, read) \/ ArchivePage(q, read)
      BY <1>5 DEF ReviewStep
    <2>2. CASE q = p
      <3>1. /\ page[p].status # "DRAFT" /\ page[p].status # "IN_REVIEW"
            /\ ArchivePage(p, read)
        BY <1>1, <2>1, <2>2 DEF SubmitReview, Approve
      <3>2. PICK e : e = [[page[p] EXCEPT !.status = "ARCHIVED"] EXCEPT !.version = @ + 1]
        OBVIOUS
      <3>3. Save(Alone(p, e), "ARCHIVE") /\ e.status = "ARCHIVED"
        BY <1>1, <3>1, <3>2 DEF ArchivePage, Changed, Page
      <3>4. page'[p] = e
        BY <1>1, <3>3, SavedPages DEF Alone
      <3> QED BY <3>3, <3>4
    <2>3. CASE q # p
      <3>1. PICK d, made : Save(Alone(q, d), made)
        BY <2>1 DEF SubmitReview, Approve, ArchivePage, Changed
      <3> QED BY <1>2, <1>3, <2>3, <3>1
    <2> QED BY <2>2, <2>3
  <1>6. CASE ImportStep
    <2>1. PICK payload \in Payloads : PreviewImport(payload) \/ CommitImport(payload)
      BY <1>6 DEF ImportStep
    <2>2. CASE PreviewImport(payload)
      BY <1>2, <2>2 DEF PreviewImport
    <2>3. CASE CommitImport(payload)
      <3>1. PICK new : new = NormalizedPages(payload)
        OBVIOUS
      <3>2. PICK f, docs :
                /\ f \in Injection(DOMAIN new, Pages \ Existing)
                /\ Save(docs, "CREATE") /\ DOMAIN docs = Range(f)
        BY <2>3, <3>1 DEF CommitImport
      <3>3. p \notin DOMAIN docs
        BY <1>1, <3>2 DEF Range, Injection
      <3> QED BY <1>1, <1>2, <3>2, <3>3, SavedPages
    <2> QED BY <2>1, <2>2, <2>3
  <1>7. CASE SnapshotStep
    BY <1>2, <1>7 DEF SnapshotStep, BeginSnapshot, CommitSnapshot
  <1> QED BY <1>4, <1>5, <1>6, <1>7 DEF DocNext

\* What DOCUMENTED means of the pages.
LEMMA DocumentedWhen ==
    /\ board \subseteq BoardSignals =>
          (Needs[1] \cup Needs[2] \subseteq Signals => Useful \cap Approved # {})
    /\ Useful \cap Approved # {} => Needs[1] \cup Needs[2] \subseteq Signals
  BY DEF Needs, Signals, When, BoardSignals

\* Only the archival of an approved page takes the level DOCUMENTED away.
THEOREM ReadinessStays == Spec => ReadinessKept
  <1>1. ASSUME PlanInv, Next, Needs[1] \cup Needs[2] \subseteq Signals,
               ~(Needs[1] \cup Needs[2] \subseteq Signals')
        PROVE  \E p \in Approved : page'[p].status = "ARCHIVED"
    <2>1. PICK p \in Useful \cap Approved : TRUE
      BY <1>1, DocumentedWhen DEF PlanInv
    <2>2. /\ p \in Existing /\ p \in Approved /\ page[p].content # "empty"
      BY <2>1 DEF Useful
    <2>3. (Useful \cap Approved)' = {}
      BY <1>1 DEF Needs, Signals, When
    <2>4. ASSUME page'[p].status = "APPROVED", page'[p].content = page[p].content
          PROVE  FALSE
      <3>1. page'[p] # Absent
        BY <2>4 DEF Absent
      <3>2. p \in (Useful \cap Approved)'
        BY <2>2, <2>4, <3>1 DEF Useful, Approved, Existing
      <3> QED BY <2>3, <3>2
    <2>5. page' # page
      BY <2>2, <2>4 DEF Approved
    <2>6. DocNext
      BY <1>1, <2>5 DEF Next, DocumentStep, PlanStep, StaffStep, BoardChanges, docVars
    <2> QED BY <1>1, <2>2, <2>4, <2>6, ApprovedStays DEF PlanInv
  <1>2. PlanInv /\ [Next]_vars =>
           [ /\ Needs[1] \cup Needs[2] \subseteq Signals
             /\ ~(Needs[1] \cup Needs[2] \subseteq Signals')
             => \E p \in Approved : page'[p].status = "ARCHIVED" ]_vars
    BY <1>1
  <1> QED BY <1>2, PlanInvariant, PTL DEF Spec, ReadinessKept
=============================================================================
