--------------------------- MODULE DocumentImport ---------------------------
(***************************************************************************)
(* What a documentation import must satisfy to be previewed or committed:  *)
(* src/src/modules/projects/document-import.  The answer of an external    *)
(* AI, a JSON document, is checked for its shape, then for its references, *)
(* and its pages are normalised and compared with those of the project.    *)
(*                                                                         *)
(* A payload is reduced to what these checks tell apart: the items of each *)
(* collection with their key and source references, and the slug and the   *)
(* text of each page.  Lengths, enumerations and unknown keys are the      *)
(* fault of a part that is not `formed`.                                   *)
(***************************************************************************)
EXTENDS Naturals, Sequences, FiniteSets, SequencesExt

Statements  == {"facts", "assumptions", "decisions", "risks", "openQuestions"}
Collections == Statements \cup {"checklist"}

MinReferencesNone(kind) == 0

MinReferences(kind) == IF kind = "checklist" THEN 0 ELSE 1

ItemFormed(i) == i.formed /\ Cardinality(i.refs) >= MinReferences(i.kind)

ContradictionFormed(c) == Cardinality(c) >= 2

PageFormed(p) ==
    /\ p.formed /\ p.status = "DRAFT" /\ p.refs # {}
    /\ \A i \in p.items : ItemFormed(i)

\* The references are examined only when nothing is wrong with the shape.
ShapeFormed(payload) ==
    /\ payload.generationStatus = "READY"
    /\ \A i \in payload.items : i.kind \in Statements /\ ItemFormed(i)
    /\ \A c \in payload.contradictions : ContradictionFormed(c)
    /\ payload.pages # <<>> /\ \A p \in ToSet(payload.pages) : PageFormed(p)

----------------------------------------------------------------------------
(* References                                                              *)

\* The items a reference of page n may name: those of the document and of the
\* pages up to n, as the pages are added one after the other.
ItemsUpTo(payload, n) ==
    payload.items \cup UNION {payload.pages[k].items : k \in 1 .. n}

\* A reference to an interview answer, a note or a document is not looked up.
Resolves(ref, items) ==
    ref.to \in {"assumptions", "decisions"} =>
        \E i \in items : i.kind = ref.to /\ i.key = ref.key

\* The references of a page: its own, and those of its items.
RefsWithoutChecklist(p) ==
    p.refs \cup UNION {i.refs : i \in {j \in p.items : j.kind # "checklist"}}

RefsOf(p) == p.refs \cup UNION {i.refs : i \in p.items}

\* The references of contradictions are not examined.
ReferencesResolve(payload) ==
    /\ \A i \in payload.items : \A ref \in i.refs : Resolves(ref, payload.items)
    /\ \A n \in DOMAIN payload.pages : \A ref \in RefsOf(payload.pages[n]) :
          Resolves(ref, ItemsUpTo(payload, n))

----------------------------------------------------------------------------
(* Pages                                                                   *)

\* A slug that passes the shape is normalised already; a page that asks for no place
\* takes the one it has in the payload.  Of the items all is kept but the references.
NormalizedPages(payload) ==
    [n \in DOMAIN payload.pages |->
        LET p == payload.pages[n]
        IN  [slug |-> p.slug, content |-> p.content,
             sort |-> IF p.place = <<>> THEN n - 1 ELSE p.place[1],
             items |-> {<<i.kind, i.key>> : i \in p.items}]]

\* The token is a keyed hash of the normalised pages, and of nothing else.
PreviewToken(payload) == NormalizedPages(payload)

Previewable(payload, slugs) ==
    /\ ShapeFormed(payload) /\ ReferencesResolve(payload)
    /\ IsInjective([n \in DOMAIN payload.pages |-> payload.pages[n].slug])
    /\ \A n \in DOMAIN payload.pages : payload.pages[n].slug \notin slugs

\* What the author of a payload expects of it: every assumption and decision its
\* pages and items refer to is one of the payload's, wherever it stands.
Closed(payload) ==
    LET all == ItemsUpTo(payload, Len(payload.pages))
    IN  \A ref \in (UNION {i.refs : i \in all})
                    \cup (UNION {p.refs : p \in ToSet(payload.pages)}) : Resolves(ref, all)
=============================================================================
