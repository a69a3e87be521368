-------------------------- MODULE DocumentPagesProofs --------------------------
(***************************************************************************)
(* What DocumentPages states, for any pages, texts and payloads.           *)
(*                                                                         *)
(* DocInv is inductive.  Of the pages it says that an approved page holds  *)
(* the text its approver had read (ApprovedRead), and of every snapshot,   *)
(* the one being taken included, that it quotes approved rows which are    *)
(* there (Quoted).                                                         *)
(***************************************************************************)
EXTENDS DocumentPages, FiniteSetTheorems, TLAPS

ApprovedRead ==
    \A p \in Pages : page[p].status = "APPROVED" => [page |-> p, read |-> page[p].content] \in approvals

\* A snapshot quotes rows that are there, approved and read by the one who approved them.
Quoted(s) ==
    \A p \in DOMAIN s :
        /\ p \in Pages /\ s[p] \in Source
        /\ s[p].version \in DOMAIN rows[p] /\ s[p].row = rows[p][s[p].version]
        /\ s[p].row.status = "APPROVED"
        /\ [page |-> p, read |-> s[p].row.content] \in approvals

DocInv ==
    /\ DocTypeOK /\ PageHistory /\ ImportClosed
    /\ ApprovedRead
    /\ \A s \in snapshots \cup {taking} : Quoted(s)

----------------------------------------------------------------------------
(* Pages and their rows                                                    *)

LEMMA Existence ==
    ASSUME DocTypeOK
    PROVE  /\ \A p \in Existing : p \in Pages /\ page[p] \in Page
           /\ \A p \in Pages \ Existing : page[p] = Absent
  BY DEF DocTypeOK, Existing

LEMMA Documents == \A d \in Page : d # Absent
  <1> SUFFICES ASSUME NEW d \in Page PROVE d.status # Absent.status
    OBVIOUS
  <1>1. d.status \in PageStatus /\ Absent.status = "ABSENT"
    BY DEF Page, Absent
  <1> QED BY <1>1 DEF PageStatus

\* A page that does not exist has no row.
LEMMA NoRows ==
    ASSUME PageHistory, NEW p \in Pages, p \notin Existing
    PROVE  rows[p] = <<>> /\ Len(rows[p]) = 0
  <1>1. rows[p] = <<>>
    BY DEF PageHistory
  <1> QED BY <1>1

\* The last row of a page is the page as it is.
LEMMA LastRow ==
    ASSUME DocTypeOK, PageHistory, NEW p \in Existing
    PROVE  /\ Len(rows[p]) = page[p].version /\ page[p].version \in DOMAIN rows[p]
           /\ rows[p] \in Seq(Row) /\ rows[p][page[p].version] \in Row
           /\ rows[p][page[p].version].status = page[p].status
           /\ rows[p][page[p].version].content = page[p].content
  <1>1. p \in Pages /\ page[p] \in Page /\ rows[p] \in Seq(Row)
    BY Existence DEF DocTypeOK
  <1>2. /\ Len(rows[p]) = page[p].version /\ page[p].version \in Nat \ {0}
        /\ RowOf(page[p], "CREATE") = [rows[p][Len(rows[p])] EXCEPT !.change = "CREATE"]
    BY <1>1 DEF PageHistory, Page
  <1>3. page[p].version \in DOMAIN rows[p]
    BY <1>1, <1>2
  <1>4. PICK row \in Row : row = rows[p][page[p].version]
    BY <1>1, <1>3
  <1>5. RowOf(page[p], "CREATE") = [row EXCEPT !.change = "CREATE"]
    BY <1>2, <1>4
  <1>6. row.status = page[p].status /\ row.content = page[p].content
    BY <1>5 DEF RowOf, Row
  <1> QED BY <1>1, <1>2, <1>3, <1>4, <1>6
\* The rows of a page grow at their end.
LEMMA Appended ==
    ASSUME NEW r \in Seq(Row), NEW row \in Row
    PROVE  /\ Append(r, row) \in Seq(Row) /\ Len(Append(r, row)) = Len(r) + 1
           /\ Append(r, row)[Len(r) + 1] = row
           /\ \A n \in DOMAIN r : n \in DOMAIN Append(r, row) /\ Append(r, row)[n] = r[n]
  OBVIOUS

\* What is saved with a row of each document, in its next version, keeps the pages and
\* the snapshots as they must be.
LEMMA SaveSound ==
    ASSUME DocInv, NEW docs, NEW change \in ChangeType, Save(docs, change),
           DOMAIN docs \subseteq Pages,
           \A p \in DOMAIN docs : /\ docs[p] \in Page /\ docs[p].version = Len(rows[p]) + 1
                                  /\ p \notin Existing => change = "CREATE"
                                  /\ docs[p].status = "APPROVED" =>
                                        [page |-> p, read |-> docs[p].content] \in approvals',
           approvals \subseteq approvals', approvals' \in SUBSET [page : Pages, read : Contents],
           imported' \subseteq Payloads, \A payload \in imported' : Closed(payload),
           UNCHANGED <<tokens, taking, snapshots>>
    PROVE  DocInv'
  <1>1. /\ page' = [p \in Pages |-> IF p \in DOMAIN docs THEN docs[p] ELSE page[p]]
        /\ rows' = [p \in Pages |-> IF p \in DOMAIN docs
                                    THEN Append(rows[p], RowOf(docs[p], change)) ELSE rows[p]]
    BY DEF Save, RecordVersions
  <1>2. /\ DocTypeOK /\ page \in [Pages -> Page \cup {Absent}] /\ rows \in [Pages -> Seq(Row)]
        /\ PageHistory /\ ApprovedRead
    BY DEF DocInv, DocTypeOK
  <1>3. ASSUME NEW p \in DOMAIN docs
        PROVE  /\ page'[p] = docs[p] /\ docs[p] \in Page /\ page'[p] # Absent
               /\ rows'[p] = Append(rows[p], RowOf(docs[p], change))
               /\ rows'[p] \in Seq(Row) /\ RowOf(docs[p], change) \in Row
               /\ Len(rows'[p]) = docs[p].version
               /\ rows'[p][docs[p].version] = RowOf(docs[p], change)
               /\ \A n \in DOMAIN rows[p] : n \in DOMAIN rows'[p] /\ rows'[p][n] = rows[p][n]
    <2>1. page'[p] = docs[p] /\ rows'[p] = Append(rows[p], RowOf(docs[p], change))
      BY <1>1
    <2>2. RowOf(docs[p], change) \in Row
      BY DEF RowOf, Row, Page
    <2>3. docs[p] # Absent
      BY Documents
    <2>4. Len(rows[p]) \in Nat /\ rows[p] \in Seq(Row)
      BY <1>2
    <2>5. docs[p] \in Page /\ docs[p].version = Len(rows[p]) + 1
      OBVIOUS
    <2> QED BY <2>1, <2>2, <2>3, <2>4, <2>5, Appended
  <1>4. \A p \in Pages \ DOMAIN docs : page'[p] = page[p] /\ rows'[p] = rows[p]
    BY <1>1
  <1>5. \A p \in Pages : /\ rows'[p] \in Seq(Row)
                         /\ \A n \in DOMAIN rows[p] : n \in DOMAIN rows'[p] /\ rows'[p][n] = rows[p][n]
    BY <1>2, <1>3, <1>4
  <1>6. DocTypeOK'
    <2>1. page' \in [Pages -> Page \cup {Absent}]
      BY <1>1, <1>2
    <2>2. rows' \in [Pages -> Seq(Row)]
      BY <1>1, <1>5
    <2> QED BY <2>1, <2>2 DEF DocInv, DocTypeOK
  <1>7. PageHistory'
    <2> SUFFICES ASSUME NEW p \in Pages
                 PROVE  (IF p \in Existing
                         THEN /\ Len(rows[p]) = page[p].version
                              /\ RowOf(page[p], "CREATE") = [rows[p][Len(rows[p])] EXCEPT !.change = "CREATE"]
                              /\ rows[p][1].change = "CREATE"
                         ELSE rows[p] = <<>>)'
      BY DEF PageHistory
    <2>1. CASE p \in DOMAIN docs
      <3>1. PICK d \in Page : d = docs[p]
        BY <2>1
      <3>2. PICK row \in Row : row = RowOf(d, change)
        BY <1>3, <2>1, <3>1
      <3>3. RowOf(d, "CREATE") = [row EXCEPT !.change = "CREATE"]
        BY <3>2 DEF RowOf
      <3>4. /\ p \in Existing' /\ Len(rows'[p]) = page'[p].version
            /\ RowOf(page'[p], "CREATE") = [rows'[p][Len(rows'[p])] EXCEPT !.change = "CREATE"]
        BY <1>3, <2>1, <3>1, <3>2, <3>3 DEF Existing
      <3>5. rows'[p][1].change = "CREATE"
        <4>1. CASE p \in Existing
          <5>1. 1 \in DOMAIN rows[p] /\ rows[p][1].change = "CREATE"
            BY <1>2, <4>1, LastRow, Existence DEF PageHistory, Page
          <5> QED BY <1>5, <5>1
        <4>2. CASE p \notin Existing
          <5>1. Len(rows[p]) = 0
            BY <1>2, <4>2, NoRows
          <5>2. docs[p].version = Len(rows[p]) + 1 /\ change = "CREATE"
            BY <2>1, <4>2
          <5>3. rows'[p][docs[p].version] = RowOf(docs[p], change)
            BY <1>3, <2>1
          <5>4. rows'[p][1] = RowOf(docs[p], change)
            BY <5>1, <5>2, <5>3
          <5> QED BY <5>2, <5>4 DEF RowOf
        <4> QED BY <4>1, <4>2
      <3> QED BY <3>4, <3>5 DEF RowOf
    <2>2. CASE p \notin DOMAIN docs
      <3>1. page'[p] = page[p] /\ rows'[p] = rows[p] /\ (p \in Existing' <=> p \in Existing)
        BY <1>4, <2>2 DEF Existing
      <3> QED BY <1>2, <3>1 DEF PageHistory, RowOf
    <2> QED BY <2>1, <2>2
  <1>8. ApprovedRead'
    BY <1>2, <1>3, <1>4 DEF ApprovedRead
  <1>9. ASSUME NEW s \in snapshots \cup {taking}
        PROVE  Quoted(s)'
    BY <1>5 DEF DocInv, Quoted
  <1>10. ImportClosed'
    BY DEF ImportClosed
  <1> QED BY <1>6, <1>7, <1>8, <1>9, <1>10 DEF DocInv

----------------------------------------------------------------------------
(* Operations on pages                                                     *)

LEMMA CreatePageSound ==
    ASSUME DocInv, NEW p \in Pages, NEW status \in {"DRAFT", "IN_REVIEW"}, NEW slug \in Slugs,
           NEW content \in Contents, NEW sort \in Sorts \cup {Cardinality(Existing)},
           CreatePage(p, status, slug, content, sort)
    PROVE  DocInv'
  <1>1. PICK d : d = [status |-> status, slug |-> slug, content |-> content, sort |-> sort,
                      version |-> 1]
    OBVIOUS
  <1>2. sort \in Positions
    <2>1. Existing \subseteq Pages
      BY DEF Existing
    <2>2. /\ Cardinality(Existing) <= Cardinality(Pages)
          /\ Cardinality(Existing) \in Nat /\ Cardinality(Pages) \in Nat
      BY <2>1, DocumentAssumption, FS_Subset, FS_CardinalityType
    <2> QED BY <2>2 DEF Positions
  <1>3. d \in Page /\ d.version = 1 /\ d.status # "APPROVED"
    BY <1>1, <1>2 DEF Page, PageStatus
  <1>4. PICK docs : docs = Alone(p, d)
    OBVIOUS
  <1>5. DOMAIN docs = {p} /\ docs[p] = d
    BY <1>4 DEF Alone
  <1>6. Save(docs, "CREATE") /\ UNCHANGED <<tokens, taking, snapshots, imported, approvals>>
    BY <1>1, <1>4 DEF CreatePage
  <1>7. Len(rows[p]) = 0
    BY NoRows DEF CreatePage, DocInv
  <1>8. /\ approvals \in SUBSET [page : Pages, read : Contents] /\ imported \subseteq Payloads
        /\ \A payload \in imported : Closed(payload)
    BY DEF DocInv, DocTypeOK, ImportClosed
  <1> QED BY <1>3, <1>5, <1>6, <1>7, <1>8, SaveSound DEF ChangeType
\* A page that exists goes to its next version.
LEMMA ChangeSound ==
    ASSUME DocInv, NEW p \in Pages, p \in Existing, NEW d \in Page, d.version = page[p].version,
           NEW change \in ChangeType, Save(Changed(p, d), change),
           approvals \subseteq approvals', approvals' \in SUBSET [page : Pages, read : Contents],
           d.status = "APPROVED" => [page |-> p, read |-> d.content] \in approvals',
           UNCHANGED <<tokens, taking, snapshots, imported>>
    PROVE  DocInv'
  <1>1. PICK e : e = [d EXCEPT !.version = @ + 1]
    OBVIOUS
  <1>2. /\ e \in Page /\ e.version = page[p].version + 1 /\ e.status = d.status
        /\ e.content = d.content
    BY <1>1 DEF Page
  <1>3. PICK docs : docs = Alone(p, e)
    OBVIOUS
  <1>4. DOMAIN docs = {p} /\ docs[p] = e
    BY <1>3 DEF Alone
  <1>5. Save(docs, change)
    BY <1>1, <1>3 DEF Changed
  <1>6. Len(rows[p]) = page[p].version
    BY LastRow DEF DocInv
  <1>7. imported' \subseteq Payloads /\ \A payload \in imported' : Closed(payload)
    BY DEF DocInv, DocTypeOK, ImportClosed
  <1> QED BY <1>2, <1>4, <1>5, <1>6, <1>7, SaveSound

LEMMA UpdatePageSound ==
    ASSUME DocInv, NEW p \in Pages, NEW read \in 1 .. MaxRows, NEW slug \in Slugs,
           NEW content \in Contents, NEW sort \in Sorts, UpdatePage(p, read, slug, content, sort)
    PROVE  DocInv'
  <1>1. p \in Existing /\ page[p] \in Page /\ page[p].status # "APPROVED"
    BY Existence DEF UpdatePage, Expected, Editable, DocInv
  <1>2. PICK d : d = [page[p] EXCEPT !.slug = slug, !.content = content, !.sort = sort]
    OBVIOUS
  <1>3. d \in Page /\ d.version = page[p].version /\ d.status = page[p].status
    BY <1>1, <1>2 DEF Page, Positions
  <1>4. Save(Changed(p, d), "UPDATE") /\ UNCHANGED <<tokens, taking, snapshots, imported, approvals>>
    BY <1>2 DEF UpdatePage
  <1>5. approvals \in SUBSET [page : Pages, read : Contents]
    BY DEF DocInv, DocTypeOK
  <1> QED BY <1>1, <1>3, <1>4, <1>5, ChangeSound DEF ChangeType

LEMMA ReviewSound ==
    ASSUME DocInv, NEW p \in Pages, NEW read \in 1 .. MaxRows,
           SubmitReview(p, read) \/ Approve(p, read) \/ ArchivePage(p, read)
    PROVE  DocInv'
  <1>1. p \in Existing /\ page[p] \in Page /\ page[p].version = read
    BY Existence DEF SubmitReview, Approve, ArchivePage, Expected, DocInv
  <1>2. approvals \in SUBSET [page : Pages, read : Contents]
    BY DEF DocInv, DocTypeOK
  <1>3. CASE SubmitReview(p, read)
    <2>1. PICK d : d = [page[p] EXCEPT !.status = "IN_REVIEW"]
      OBVIOUS
    <2>2. d \in Page /\ d.version = page[p].version /\ d.status = "IN_REVIEW"
      BY <1>1, <2>1 DEF Page, PageStatus
    <2>3. /\ Save(Changed(p, d), "SUBMIT_REVIEW")
          /\ UNCHANGED <<tokens, taking, snapshots, imported, approvals>>
      BY <1>3, <2>1 DEF SubmitReview
    <2> QED BY <1>1, <1>2, <2>2, <2>3, ChangeSound DEF ChangeType
  <1>4. CASE Approve(p, read)
    <2>1. PICK d : d = [page[p] EXCEPT !.status = "APPROVED"]
      OBVIOUS
    <2>2. d \in Page /\ d.version = page[p].version /\ d.content = page[p].content
      BY <1>1, <2>1 DEF Page, PageStatus
    <2>3. /\ Save(Changed(p, d), "APPROVE")
          /\ approvals' = approvals \cup {[page |-> p, read |-> rows[p][read].content]}
          /\ UNCHANGED <<tokens, taking, snapshots, imported>>
      BY <1>4, <2>1 DEF Approve
    <2>4. rows[p][read].content = d.content /\ d.content \in Contents
      BY <1>1, <2>2, LastRow DEF DocInv, Page
    <2> QED BY <1>1, <1>2, <2>2, <2>3, <2>4, ChangeSound DEF ChangeType
  <1>5. CASE ArchivePage(p, read)
    <2>1. PICK d : d = [page[p] EXCEPT !.status = "ARCHIVED"]
      OBVIOUS
    <2>2. d \in Page /\ d.version = page[p].version /\ d.status = "ARCHIVED"
      BY <1>1, <2>1 DEF Page, PageStatus
    <2>3. /\ Save(Changed(p, d), "ARCHIVE")
          /\ UNCHANGED <<tokens, taking, snapshots, imported, approvals>>
      BY <1>5, <2>1 DEF ArchivePage
    <2> QED BY <1>1, <1>2, <2>2, <2>3, ChangeSound DEF ChangeType
  <1> QED BY <1>3, <1>4, <1>5

LEMMA ReorderSound ==
    ASSUME DocInv, NEW chosen \in SUBSET Existing, NEW place \in [chosen -> Sorts], Reorder(place)
    PROVE  DocInv'
  <1> DEFINE moved == {p \in DOMAIN place : place[p] # page[p].sort}
             next(p) == [page[p] EXCEPT !.sort = place[p], !.version = @ + 1]
  <1>1. PICK docs : docs = [p \in moved |-> next(p)]
    OBVIOUS
  <1>2. DOMAIN docs = moved /\ moved \subseteq Existing /\ \A p \in moved : docs[p] = next(p)
    BY <1>1
  <1>3. Save(docs, "REORDER") /\ UNCHANGED <<tokens, taking, snapshots, imported, approvals>>
    BY <1>1 DEF Reorder
  <1>4. ASSUME NEW p \in moved
        PROVE  /\ docs[p] \in Page /\ docs[p].version = Len(rows[p]) + 1 /\ p \in Existing
               /\ docs[p].status = page[p].status /\ docs[p].content = page[p].content
               /\ p \in Pages
    <2>1. p \in Existing /\ p \in Pages /\ page[p] \in Page /\ place[p] \in Sorts
      BY <1>2, Existence DEF DocInv
    <2>2. Len(rows[p]) = page[p].version
      BY <2>1, LastRow DEF DocInv
    <2>3. PICK d \in Page : d = page[p]
      BY <2>1
    <2>4. /\ docs[p] = [d EXCEPT !.sort = place[p], !.version = @ + 1]
          /\ place[p] \in Positions /\ d.version + 1 \in Nat \ {0}
      <3>1. docs[p] = [page[p] EXCEPT !.sort = place[p], !.version = @ + 1]
        BY <1>1
      <3>2. docs[p] = [d EXCEPT !.sort = place[p], !.version = @ + 1]
        BY <2>3, <3>1, Zenon
      <3>3. d.version \in Nat \ {0}
        BY DEF Page
      <3> QED BY <2>1, <3>2, <3>3 DEF Positions
    <2> HIDE DEF moved, next
    <2>5. /\ docs[p] \in Page /\ docs[p].version = d.version + 1
          /\ docs[p].status = d.status /\ docs[p].content = d.content
      BY <2>4 DEF Page
    <2> QED BY <2>1, <2>2, <2>3, <2>5
  <1>5. /\ approvals \in SUBSET [page : Pages, read : Contents] /\ imported \subseteq Payloads
        /\ \A payload \in imported : Closed(payload)
    BY DEF DocInv, DocTypeOK, ImportClosed
  <1>6. \A p \in moved : docs[p].status = "APPROVED" => [page |-> p, read |-> docs[p].content] \in approvals
    BY <1>4 DEF DocInv, ApprovedRead
  <1> HIDE DEF moved, next
  <1> QED BY <1>2, <1>3, <1>4, <1>5, <1>6, SaveSound DEF ChangeType

----------------------------------------------------------------------------
(* Snapshots                                                               *)

LEMMA BeginSnapshotSound ==
    ASSUME DocInv, BeginSnapshot
    PROVE  DocInv'
  <1>1. /\ taking' = [p \in Approved |-> [version |-> page[p].version,
                                          row |-> rows[p][page[p].version]]]
        /\ UNCHANGED <<page, rows, tokens, snapshots, imported, approvals>>
    BY DEF BeginSnapshot, SourceVersion
  <1>2. ASSUME NEW p \in Approved
        PROVE  /\ p \in Pages /\ taking'[p] \in Source
               /\ taking'[p].version \in DOMAIN rows[p]
               /\ taking'[p].row = rows[p][taking'[p].version]
               /\ taking'[p].row.status = "APPROVED"
               /\ [page |-> p, read |-> taking'[p].row.content] \in approvals
    <2>1. p \in Existing /\ p \in Pages /\ page[p] \in Page /\ page[p].status = "APPROVED"
      BY Existence DEF Approved, DocInv
    <2>2. [page |-> p, read |-> page[p].content] \in approvals
      BY <2>1 DEF DocInv, ApprovedRead
    <2>3. /\ page[p].version \in DOMAIN rows[p] /\ rows[p][page[p].version] \in Row
          /\ rows[p][page[p].version].status = "APPROVED"
          /\ rows[p][page[p].version].content = page[p].content
          /\ page[p].version \in Nat \ {0}
      BY <2>1, LastRow DEF DocInv, Page
    <2>4. taking'[p] = [version |-> page[p].version, row |-> rows[p][page[p].version]]
      BY <1>1
    <2> QED BY <2>1, <2>2, <2>3, <2>4 DEF Source
  <1>3. PICK s : s = taking'
    OBVIOUS
  <1>4. DOMAIN s = Approved
    BY <1>1, <1>3
  <1>5. Quoted(s)'
    BY <1>1, <1>2, <1>3, <1>4 DEF Quoted
  <1>6. \A x \in snapshots : Quoted(x)'
    BY <1>1 DEF DocInv, Quoted
  <1>7. DocTypeOK'
    BY <1>1, <1>2, <1>3, <1>4 DEF DocInv, DocTypeOK
  <1>8. PageHistory' /\ ImportClosed' /\ ApprovedRead'
    BY <1>1 DEF DocInv, PageHistory, Existing, RowOf, ImportClosed, ApprovedRead
  <1> QED BY <1>1, <1>3, <1>5, <1>6, <1>7, <1>8 DEF DocInv

\* The pages, and the texts that were approved, as they were.
LEMMA PagesSame ==
    ASSUME DocInv, UNCHANGED <<page, rows, approvals>>
    PROVE  PageHistory' /\ ApprovedRead' /\ \A s : Quoted(s) => Quoted(s)'
  BY DEF DocInv, PageHistory, Existing, RowOf, ApprovedRead, Quoted

LEMMA CommitSnapshotSound ==
    ASSUME DocInv, CommitSnapshot
    PROVE  DocInv'
  <1>1. /\ snapshots' = snapshots \cup {taking} /\ taking' = <<>>
        /\ UNCHANGED <<page, rows, tokens, imported, approvals>>
    BY DEF CommitSnapshot
  <1>2. DOMAIN <<>> = {}
    OBVIOUS
  <1>3. \A s \in (snapshots \cup {taking})' : Quoted(s)'
    BY <1>1, <1>2, PagesSame DEF DocInv, Quoted
  <1>4. DocTypeOK'
    BY <1>1, <1>2 DEF DocInv, DocTypeOK
  <1>5. ImportClosed'
    BY <1>1 DEF DocInv, ImportClosed
  <1> QED BY <1>1, <1>3, <1>4, <1>5, PagesSame DEF DocInv
----------------------------------------------------------------------------
(* Imports                                                                 *)

\* What resolves among some items resolves among more.
LEMMA ResolvesMore ==
    ASSUME NEW ref, NEW few, NEW many, few \subseteq many, Resolves(ref, few)
    PROVE  Resolves(ref, many)
  BY DEF Resolves

\* The check of a page looks at the items up to it; the payload as a whole has them all.
LEMMA CheckedClosed ==
    ASSUME NEW payload \in Payloads, ReferencesResolve(payload)
    PROVE  Closed(payload)
  <1> DEFINE last == Len(payload.pages)
             all == ItemsUpTo(payload, last)
  <1>1. last \in Nat /\ DOMAIN payload.pages = 1 .. last
    BY PayloadAssumption
  <1>2. payload.items \subseteq all /\ \A n \in 1 .. last : ItemsUpTo(payload, n) \subseteq all
    BY <1>1 DEF ItemsUpTo
  <1>3. ASSUME NEW n \in 1 .. last, NEW ref \in RefsOf(payload.pages[n])
        PROVE  Resolves(ref, all)
    <2>1. Resolves(ref, ItemsUpTo(payload, n))
      BY <1>1 DEF ReferencesResolve
    <2> QED BY <1>2, <2>1, ResolvesMore
  <1>4. ASSUME NEW i \in all, NEW ref \in i.refs
        PROVE  Resolves(ref, all)
    <2>1. CASE i \in payload.items
      BY <1>2, <2>1, ResolvesMore DEF ReferencesResolve
    <2>2. CASE i \notin payload.items
      <3>1. PICK n \in 1 .. last : i \in payload.pages[n].items
        BY <2>2 DEF ItemsUpTo
      <3>2. ref \in RefsOf(payload.pages[n])
        BY <3>1 DEF RefsOf
      <3> QED BY <1>3, <3>2
    <2> QED BY <2>1, <2>2
  <1>5. ASSUME NEW p \in ToSet(payload.pages), NEW ref \in p.refs
        PROVE  Resolves(ref, all)
    <2>1. PICK n \in 1 .. last : p = payload.pages[n]
      BY <1>1 DEF ToSet
    <2>2. ref \in RefsOf(payload.pages[n])
      BY <2>1 DEF RefsOf
    <2> QED BY <1>3, <2>2
  <1> HIDE DEF all
  <1>6. \A ref \in (UNION {i.refs : i \in all})
                   \cup (UNION {p.refs : p \in ToSet(payload.pages)}) : Resolves(ref, all)
    BY <1>4, <1>5
  <1> QED BY <1>6 DEF Closed, all

LEMMA PreviewImportSound ==
    ASSUME DocInv, NEW payload \in Payloads, PreviewImport(payload)
    PROVE  DocInv'
  <1>1. /\ tokens' = tokens \cup {PreviewToken(payload)}
        /\ UNCHANGED <<page, rows, taking, snapshots, imported, approvals>>
    BY DEF PreviewImport
  <1>2. tokens' \subseteq {PreviewToken(x) : x \in Payloads}
    BY <1>1 DEF DocInv, DocTypeOK
  <1>3. DocTypeOK'
    BY <1>1, <1>2 DEF DocInv, DocTypeOK
  <1>4. ImportClosed'
    BY <1>1 DEF DocInv, ImportClosed
  <1> QED BY <1>1, <1>3, <1>4, PagesSame DEF DocInv

\* The pages of a payload, as documents.
LEMMA ImportedPage ==
    ASSUME NEW payload \in Payloads, Len(payload.pages) <= Cardinality(Pages),
           NEW n \in DOMAIN NormalizedPages(payload)
    PROVE  /\ NormalizedPages(payload)[n].slug \in Slugs
           /\ NormalizedPages(payload)[n].content \in Contents
           /\ NormalizedPages(payload)[n].sort \in Positions
  <1> DEFINE p == payload.pages[n]
  <1>1. n \in 1 .. Len(payload.pages) /\ Len(payload.pages) \in Nat /\ p \in ToSet(payload.pages)
    BY PayloadAssumption DEF NormalizedPages, ToSet
  <1>2. p.slug \in Slugs /\ p.content \in Contents /\ (p.place # <<>> => p.place[1] \in Positions)
    BY <1>1, PayloadAssumption
  <1>3. n - 1 \in Positions
    <2>1. Cardinality(Pages) \in Nat
      BY DocumentAssumption, FS_CardinalityType
    <2> QED BY <1>1, <2>1 DEF Positions
  <1>4. /\ NormalizedPages(payload)[n].slug = p.slug
        /\ NormalizedPages(payload)[n].content = p.content
        /\ NormalizedPages(payload)[n].sort = IF p.place = <<>> THEN n - 1 ELSE p.place[1]
    BY DEF NormalizedPages
  <1> QED BY <1>2, <1>3, <1>4

LEMMA CommitImportSound ==
    ASSUME DocInv, NEW payload \in Payloads, CommitImport(payload)
    PROVE  DocInv'
  <1>1. PICK new : new = NormalizedPages(payload)
    OBVIOUS
  <1>2. PICK f \in Injection(DOMAIN new, Pages \ Existing) :
           Save([p \in Range(f) |->
                   LET d == new[CHOOSE n \in DOMAIN new : f[n] = p]
                   IN  [status |-> "DRAFT", slug |-> d.slug, content |-> d.content,
                        sort |-> d.sort, version |-> 1]], "CREATE")
    BY <1>1 DEF CommitImport
  <1>3. /\ imported' = imported \cup {payload} /\ ReferencesResolve(payload)
        /\ UNCHANGED <<tokens, taking, snapshots, approvals>>
    BY DEF CommitImport, Committable, Previewable
  <1>4. DOMAIN new = 1 .. Len(payload.pages) /\ Len(payload.pages) \in Nat
    BY <1>1, PayloadAssumption DEF NormalizedPages
  <1>5. Len(payload.pages) <= Cardinality(Pages)
    <2>1. Pages \ Existing \in SUBSET Pages /\ IsFiniteSet(Pages)
      BY DocumentAssumption
    <2>2. IsFiniteSet(Pages \ Existing) /\ Cardinality(Pages \ Existing) <= Cardinality(Pages)
      BY <2>1, FS_Subset
    <2>3. Cardinality(1 .. Len(payload.pages)) <= Cardinality(Pages \ Existing)
      BY <1>2, <1>4, <2>2, FS_Injection
    <2>4. Cardinality(1 .. Len(payload.pages)) = Len(payload.pages)
      BY <1>4, FS_Interval
    <2>5. Cardinality(Pages \ Existing) \in Nat /\ Cardinality(Pages) \in Nat
      BY <2>1, <2>2, FS_CardinalityType
    <2> QED BY <1>4, <2>2, <2>3, <2>4, <2>5
  <1> DEFINE at(p) == CHOOSE n \in DOMAIN new : f[n] = p
             made(p) == [status |-> "DRAFT", slug |-> new[at(p)].slug,
                         content |-> new[at(p)].content, sort |-> new[at(p)].sort, version |-> 1]
  <1>6. PICK docs : docs = [p \in Range(f) |-> made(p)]
    OBVIOUS
  <1>7. Save(docs, "CREATE") /\ DOMAIN docs = Range(f) /\ \A p \in Range(f) : docs[p] = made(p)
    BY <1>2, <1>6
  <1>8. Range(f) \subseteq Pages \ Existing /\ \A p \in Range(f) : at(p) \in DOMAIN new
    <2>1. f \in [DOMAIN new -> Pages \ Existing]
      BY <1>2 DEF Injection
    <2>2. \A p \in Range(f) : \E n \in DOMAIN new : f[n] = p
      BY <2>1 DEF Range
    <2> QED BY <2>1, <2>2 DEF Range
  <1>9. ASSUME NEW p \in Range(f)
        PROVE  /\ docs[p] \in Page /\ docs[p].version = 1 /\ docs[p].status = "DRAFT"
               /\ p \in Pages /\ p \notin Existing /\ Len(rows[p]) = 0
    <2>1. PICK n \in DOMAIN new : n = at(p)
      BY <1>8
    <2>2. new[n].slug \in Slugs /\ new[n].content \in Contents /\ new[n].sort \in Positions
      BY <1>1, <1>5, ImportedPage
    <2>3. docs[p] = [status |-> "DRAFT", slug |-> new[n].slug, content |-> new[n].content,
                     sort |-> new[n].sort, version |-> 1]
      BY <1>7, <2>1
    <2>4. p \in Pages /\ p \notin Existing
      BY <1>8
    <2>5. Len(rows[p]) = 0
      BY <2>4, NoRows DEF DocInv
    <2> QED BY <2>2, <2>3, <2>4, <2>5 DEF Page, PageStatus
  <1>10. /\ approvals' \in SUBSET [page : Pages, read : Contents] /\ imported' \subseteq Payloads
         /\ approvals \subseteq approvals' /\ \A x \in imported' : Closed(x)
    BY <1>3, CheckedClosed DEF DocInv, DocTypeOK, ImportClosed
  <1> HIDE DEF made, at
  <1> QED BY <1>3, <1>7, <1>8, <1>9, <1>10, SaveSound DEF ChangeType

----------------------------------------------------------------------------
(* The invariant                                                           *)

LEMMA DocSame ==
    ASSUME DocInv, UNCHANGED docVars
    PROVE  DocInv'
  <1>1. UNCHANGED <<page, rows, tokens, taking, snapshots, imported, approvals>>
    BY DEF docVars
  <1>2. DocTypeOK' /\ ImportClosed'
    BY <1>1 DEF DocInv, DocTypeOK, ImportClosed
  <1> QED BY <1>1, <1>2, PagesSame DEF DocInv

LEMMA DocInitSound == DocInit => DocInv
  <1> SUFFICES ASSUME DocInit PROVE DocInv
    OBVIOUS
  <1>1. /\ page \in [Pages -> Page \cup {Absent}] /\ rows \in [Pages -> Seq(Row)]
        /\ \A p \in Pages : page[p] = Absent /\ page[p].status # "APPROVED" /\ rows[p] = <<>>
    BY DEF DocInit, Absent
  <1>2. DOMAIN <<>> = {}
    OBVIOUS
  <1> QED BY <1>1, <1>2 DEF DocInit, DocInv, DocTypeOK, PageHistory, Existing, ImportClosed, ApprovedRead,
          Quoted

LEMMA DocNextSound == DocInv /\ [DocNext]_docVars => DocInv'
  <1> SUFFICES ASSUME DocInv, [DocNext]_docVars PROVE DocInv'
    OBVIOUS
  <1>1. CASE PageStep
    BY <1>1, CreatePageSound, UpdatePageSound, ReorderSound DEF PageStep
  <1>2. CASE ReviewStep
    BY <1>2, ReviewSound DEF ReviewStep
  <1>3. CASE ImportStep
    BY <1>3, PreviewImportSound, CommitImportSound DEF ImportStep
  <1>4. CASE SnapshotStep
    BY <1>4, BeginSnapshotSound, CommitSnapshotSound DEF SnapshotStep
  <1> QED BY <1>1, <1>2, <1>3, <1>4, DocSame DEF DocNext

\* The inductive invariant of the documentation, from an empty project on.
THEOREM DocInvariant == DocSpec => []DocInv
  BY DocInitSound, DocNextSound, PTL DEF DocSpec

\* Every change of a page has left a row, and the last row is the page as it is.
THEOREM HistoryComplete == DocSpec => []PageHistory
  <1>1. DocInv => PageHistory
    BY DEF DocInv
  <1> QED BY <1>1, DocInvariant, PTL

\* What a snapshot quotes was approved as it reads there, and is there still.
LEMMA QuotedApproved == DocInv => SnapshotApproved
  BY DEF DocInv, SnapshotApproved, Quoted, PromptSources

THEOREM SnapshotsApproved == DocSpec => []SnapshotApproved
  BY QuotedApproved, DocInvariant, PTL

\* What is imported is closed under its references.
THEOREM ImportsClosed == DocSpec => []ImportClosed
  <1>1. DocInv => ImportClosed
    BY DEF DocInv
  <1> QED BY <1>1, DocInvariant, PTL
=============================================================================
