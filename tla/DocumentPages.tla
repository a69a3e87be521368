---------------------------- MODULE DocumentPages ----------------------------
(***************************************************************************)
(* The documentation of one project: its pages, the version row every      *)
(* change of a page leaves, the imports of pages written by an external    *)
(* AI, and the context snapshots taken of the approved pages:              *)
(* src/src/modules/projects (document and context snapshot operations).    *)
(*                                                                         *)
(* Every operation is one database transaction that writes each page it    *)
(* decides on, so it is one action; a snapshot decides on pages it does    *)
(* not write, and takes two steps.  A client writes a page it has read: it *)
(* names the version, and is refused, without a step, when the page has    *)
(* another one by now.                                                     *)
(***************************************************************************)
EXTENDS DocumentImport, FiniteSetsExt

CONSTANTS
    Pages,      \* page documents, existing or to come
    Slugs,
    Contents,   \* texts of a page; "empty" is a page without any
    Sorts,      \* positions a client asks for
    Payloads,   \* imports that clients submit
    MaxRows     \* bound: version rows of all pages

ASSUME DocumentAssumption ==
    /\ "empty" \in Contents /\ IsFiniteSet(Pages) /\ Sorts \subseteq Nat /\ MaxRows \in Nat

VARIABLES
    page,       \* page document, or Absent
    rows,       \* version rows of each page: row n was written at version n
    tokens,     \* preview tokens handed out
    taking,     \* the snapshot being taken: page -> the version row it names
    snapshots,  \* each a function from page to version and row
    imported,   \* history: payloads committed
    approvals   \* history: approved page, version, and what the approver had read

docVars == <<page, rows, tokens, taking, snapshots, imported, approvals>>

----------------------------------------------------------------------------
(* Documents                                                               *)

PageStatus == {"DRAFT", "IN_REVIEW", "APPROVED", "ARCHIVED"}
Absent     == [status |-> "ABSENT"]
Positions  == Sorts \cup 0 .. Cardinality(Pages)
Page       == [status : PageStatus, slug : Slugs, content : Contents, sort : Positions,
               version : Nat \ {0}]

ChangeType == {"CREATE", "UPDATE", "SUBMIT_REVIEW", "APPROVE", "REORDER", "ARCHIVE"}
Row        == [change : ChangeType, status : PageStatus, slug : Slugs, content : Contents,
               sort : Positions]

ASSUME PayloadAssumption ==
    \A payload \in Payloads :
        /\ Len(payload.pages) \in Nat /\ DOMAIN payload.pages = 1 .. Len(payload.pages)
        /\ \A p \in ToSet(payload.pages) :
              /\ p.slug \in Slugs /\ p.content \in Contents
              /\ p.place # <<>> => p.place[1] \in Positions

Existing == {p \in Pages : page[p] # Absent}
Taken    == {page[p].slug : p \in Existing}
Approved == {p \in Existing : page[p].status = "APPROVED"}
RowCount == MapThenSumSet(LAMBDA p : Len(rows[p]), Pages)

RowOf(d, change) ==
    [change |-> change, status |-> d.status, slug |-> d.slug, content |-> d.content,
     sort |-> d.sort]

DocInit ==
    /\ page      = [p \in Pages |-> Absent]
    /\ rows      = [p \in Pages |-> <<>>]
    /\ tokens    = {}
    /\ taking    = <<>>
    /\ snapshots = {}
    /\ imported  = {}
    /\ approvals = {}

\* Faulty: a reorder leaves no version row.
RecordOnlyNew(docs, change) ==
    [p \in Pages |-> IF p \in DOMAIN docs /\ change # "REORDER"
                     THEN Append(rows[p], RowOf(docs[p], change)) ELSE rows[p]]

RecordVersions(docs, change) ==
    [p \in Pages |-> IF p \in DOMAIN docs
                     THEN Append(rows[p], RowOf(docs[p], change)) ELSE rows[p]]

\* Save the given documents, and record a version row of each.
Save(docs, change) ==
    /\ RowCount + Cardinality(DOMAIN docs) <= MaxRows
    /\ page' = [p \in Pages |-> IF p \in DOMAIN docs THEN docs[p] ELSE page[p]]
    /\ rows' = RecordVersions(docs, change)

Alone(p, d) == [q \in {p} |-> d]

Changed(p, d) == Alone(p, [d EXCEPT !.version = @ + 1])

----------------------------------------------------------------------------
(* Pages                                                                   *)

CreatePage(p, status, slug, content, sort) ==
    /\ p \notin Existing /\ slug \notin Taken
    /\ Save(Alone(p, [status |-> status, slug |-> slug, content |-> content, sort |-> sort,
                      version |-> 1]), "CREATE")
    /\ UNCHANGED <<tokens, taking, snapshots, imported, approvals>>

\* Faulty: any version the page has had is taken.
ExpectedAny(p, read) == read \in DOMAIN rows[p]

\* The request names the version of the page that its client has read.
Expected(p, read) == p \in Existing /\ page[p].version = read

\* Faulty: an approved page may be edited.
EditableAny(d) == d # Absent

Editable(d) == d.status # "APPROVED"

\* An update of archived pages and of those in review is accepted.
UpdatePage(p, read, slug, content, sort) ==
    /\ Expected(p, read) /\ Editable(page[p])
    /\ LET d == [page[p] EXCEPT !.slug = slug, !.content = content, !.sort = sort]
       IN  /\ d # page[p] /\ (slug \in Taken => slug = page[p].slug)
           /\ Save(Changed(p, d), "UPDATE")
    /\ UNCHANGED <<tokens, taking, snapshots, imported, approvals>>

SubmitReview(p, read) ==
    /\ Expected(p, read) /\ page[p].status = "DRAFT"
    /\ Save(Changed(p, [page[p] EXCEPT !.status = "IN_REVIEW"]), "SUBMIT_REVIEW")
    /\ UNCHANGED <<tokens, taking, snapshots, imported, approvals>>

Approve(p, read) ==
    /\ Expected(p, read) /\ page[p].status = "IN_REVIEW"
    /\ Save(Changed(p, [page[p] EXCEPT !.status = "APPROVED"]), "APPROVE")
    /\ approvals' = approvals \cup {[page |-> p, read |-> rows[p][read].content]}
    /\ UNCHANGED <<tokens, taking, snapshots, imported>>

ArchivePage(p, read) ==
    /\ Expected(p, read) /\ page[p].status # "ARCHIVED"
    /\ Save(Changed(p, [page[p] EXCEPT !.status = "ARCHIVED"]), "ARCHIVE")
    /\ UNCHANGED <<tokens, taking, snapshots, imported, approvals>>

\* Names no version; pages of any status move, each that moves in a new version.
Reorder(place) ==
    LET moved == {p \in DOMAIN place : place[p] # page[p].sort}
    IN  /\ moved # {}
        /\ Save([p \in moved |-> [page[p] EXCEPT !.sort = place[p],
                                                 !.version = @ + 1]], "REORDER")
        /\ UNCHANGED <<tokens, taking, snapshots, imported, approvals>>

----------------------------------------------------------------------------
(* Imports                                                                 *)

PreviewImport(payload) ==
    /\ Previewable(payload, Taken)
    /\ tokens' = tokens \cup {PreviewToken(payload)}
    /\ UNCHANGED <<page, rows, taking, snapshots, imported, approvals>>

\* Faulty: the token of the preview stands for its checks.
CommittableByToken(payload) ==
    \A n \in DOMAIN payload.pages : payload.pages[n].slug \notin Taken

\* The payload of a commit is checked as that of a preview was.
Committable(payload) == Previewable(payload, Taken)

CommitImport(payload) ==
    /\ PreviewToken(payload) \in tokens /\ Committable(payload)
    /\ LET new == NormalizedPages(payload)
       IN  \E f \in Injection(DOMAIN new, Pages \ Existing) :
              Save([p \in Range(f) |->
                      LET d == new[CHOOSE n \in DOMAIN new : f[n] = p]
                      IN  [status |-> "DRAFT", slug |-> d.slug, content |-> d.content,
                           sort |-> d.sort, version |-> 1]], "CREATE")
    /\ imported' = imported \cup {payload}
    /\ UNCHANGED <<tokens, taking, snapshots, approvals>>

----------------------------------------------------------------------------
(* Context snapshots                                                       *)

FormerVersion(p) == page[p].version - 1

SourceVersion(p) == page[p].version

\* The transaction reads the approved pages and the row of each one's version.
BeginSnapshot ==
    /\ taking = <<>> /\ Approved # {}
    /\ \A p \in Approved : SourceVersion(p) \in DOMAIN rows[p]
    /\ taking' = [p \in Approved |-> [version |-> SourceVersion(p),
                                      row |-> rows[p][SourceVersion(p)]]]
    /\ UNCHANGED <<page, rows, tokens, snapshots, imported, approvals>>

\* The key is a hash of the rows: documentation approved before has its snapshot.
CommitSnapshot ==
    /\ taking # <<>>
    /\ snapshots' = snapshots \cup {taking}
    /\ taking' = <<>>
    /\ UNCHANGED <<page, rows, tokens, imported, approvals>>

\* The rows the prompt for a roadmap quotes.
PromptSources(s) == {p \in DOMAIN s : s[p].version \in DOMAIN rows[p]}

----------------------------------------------------------------------------
(* Specification                                                           *)

PageStep ==
    \/ \E p \in Pages, status \in {"DRAFT", "IN_REVIEW"}, slug \in Slugs, content \in Contents :
          \E sort \in Sorts \cup {Cardinality(Existing)} :
             CreatePage(p, status, slug, content, sort)
    \/ \E p \in Pages, read \in 1 .. MaxRows, slug \in Slugs, content \in Contents, sort \in Sorts :
          UpdatePage(p, read, slug, content, sort)
    \/ \E moved \in SUBSET Existing : \E place \in [moved -> Sorts] : Reorder(place)

ReviewStep ==
    \E p \in Pages, read \in 1 .. MaxRows :
        SubmitReview(p, read) \/ Approve(p, read) \/ ArchivePage(p, read)

ImportStep == \E payload \in Payloads : PreviewImport(payload) \/ CommitImport(payload)

SnapshotStep == BeginSnapshot \/ CommitSnapshot

DocNext == PageStep \/ ReviewStep \/ ImportStep \/ SnapshotStep

DocSpec == DocInit /\ [][DocNext]_docVars

----------------------------------------------------------------------------
(* Properties                                                              *)

Source == [version : Nat \ {0}, row : Row]

\* Values of the state variables.
DocTypeOK ==
    /\ page \in [Pages -> Page \cup {Absent}]
    /\ rows \in [Pages -> Seq(Row)]
    /\ imported \subseteq Payloads
    /\ tokens \subseteq {PreviewToken(payload) : payload \in Payloads}
    /\ \A s \in snapshots \cup {taking} : \A p \in DOMAIN s : p \in Pages /\ s[p] \in Source
    /\ approvals \in SUBSET [page : Pages, read : Contents]

\* The history of a page is complete: as many rows as it has had versions, the last
\* of them the page as it is, whichever operations, concurrent or not, changed it
\* (recordDocumentPageVersion after each save).  A page in review or approved has a
\* row that says so, and a snapshot of it can be taken.
PageHistory ==
    \A p \in Pages :
        IF p \in Existing
        THEN /\ Len(rows[p]) = page[p].version
             /\ RowOf(page[p], "CREATE") = [rows[p][Len(rows[p])] EXCEPT !.change = "CREATE"]
             /\ rows[p][1].change = "CREATE"
        ELSE rows[p] = <<>>

\* Every text in a snapshot was read by someone who then approved it, and the rows a
\* prompt quotes for the snapshot are there, approved and unchanged, however the pages
\* have been edited, moved or archived since.
SnapshotApproved ==
    \A s \in snapshots :
        /\ PromptSources(s) = DOMAIN s
        /\ \A p \in DOMAIN s :
              /\ s[p].row = rows[p][s[p].version] /\ s[p].row.status = "APPROVED"
              /\ [page |-> p, read |-> s[p].row.content] \in approvals

\* What was imported is closed under its references to assumptions and decisions,
\* though the payload of the commit need not be the one that was previewed.
ImportClosed == \A payload \in imported : Closed(payload)
=============================================================================
