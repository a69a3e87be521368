---------------------------- MODULE SprintBoard ----------------------------
(***************************************************************************)
(* The backlog of one project, its sprints and their boards:               *)
(* src/src/modules/projects (backlog and sprint operations).               *)
(*                                                                         *)
(* Every operation is one database transaction under snapshot isolation.   *)
(* An operation that writes each document it decides on is one action: a   *)
(* write conflict makes it run again, as if it had begun at its commit.    *)
(* Two operations decide on documents they do not write, and take two      *)
(* steps: the start of a sprint looks for another active sprint, and a     *)
(* board move reads its sprint and the other cards of the column.          *)
(*                                                                         *)
(* A request whose expectedVersion is not the document's version, or whose *)
(* Idempotency-Key was used, changes nothing and is not a step.            *)
(***************************************************************************)
EXTENDS Naturals, FiniteSets

CONSTANTS
    Sprints, Items,   \* sprint and backlog item documents, existing or to come
    Columns,          \* board statuses in use
    Workers,          \* transactions in progress at the same time
    MaxOrder,         \* bound: largest position a move asks for
    MaxEdits,         \* bound: edits and archivals of backlog items
    MaxMoves          \* bound: board moves begun

BoardStatus == {"TO_DO", "IN_PROGRESS", "REVIEW", "BLOCKED", "DONE"}

ASSUME BoardAssumption ==
    /\ "TO_DO" \in Columns /\ Columns \subseteq BoardStatus
    /\ IsFiniteSet(Items) /\ {MaxOrder, MaxEdits, MaxMoves} \subseteq Nat

VARIABLES
    backlog,   \* item -> its status
    status,    \* sprint -> its status; the flag `active` is status = ACTIVE
    board,     \* sprint -> item -> its card on the board, if any
    txn,       \* worker -> its transaction, if it takes two steps
    crossed,   \* history: columns that overlapping moves entered, not repaired since
    loosened,  \* history: items freed while a sprint in planning or active holds them
    used       \* edits and moves so far

vars == <<backlog, status, board, txn, crossed, loosened, used>>

----------------------------------------------------------------------------
(* Documents                                                               *)

BacklogStatus == {"ABSENT", "UNREFINED", "READY", "SELECTED_FOR_SPRINT", "ARCHIVED"}
SprintStatus  == {"ABSENT", "PLANNING", "ACTIVE", "COMPLETED", "CANCELLED"}

NoCard == [column |-> "none", order |-> 0]
Card   == [column : Columns, order : 0 .. Cardinality(Items) - 1]

Cards(s)     == {i \in Items : board[s][i] # NoCard}
Column(s, c) == {i \in Items : board[s][i].column = c}
Open         == {s \in Sprints : status[s] \in {"PLANNING", "ACTIVE"}}
HeldOpen     == {i \in Items : \E s \in Open : i \in Cards(s)}

\* What the clients may set: SELECTED_FOR_SPRINT is reserved to the sprints.
Creatable == {"UNREFINED", "READY", "ARCHIVED"}

EditableToAny(st) == BacklogStatus \ {"ABSENT", st}

EditableTo(st) == Creatable \ {st}

\* Faulty: the selected items are forgotten.
ReleasedNone(S) == backlog

Released(S) == [i \in Items |-> IF i \in S /\ backlog[i] = "SELECTED_FOR_SPRINT"
                                THEN "READY" ELSE backlog[i]]

----------------------------------------------------------------------------
(* Transactions                                                            *)

Free == [op |-> "free"]

Txn == {Free}
       \cup [op : {"start"}, sprint : Sprints, stale : BOOLEAN]
       \cup [op : {"move"}, sprint : Sprints, column : Columns, item : Items,
             writes : UNION {[S -> 0 .. Cardinality(Items) - 1] : S \in SUBSET Items},
             stale : BOOLEAN, overlaid : BOOLEAN]

Init ==
    /\ backlog  = [i \in Items |-> "ABSENT"]
    /\ status   = [s \in Sprints |-> "ABSENT"]
    /\ board    = [s \in Sprints |-> [i \in Items |-> NoCard]]
    /\ txn      = [w \in Workers |-> Free]
    /\ crossed  = {}
    /\ loosened = {}
    /\ used     = [edits |-> 0, moves |-> 0]

\* A commit that wrote the sprint document: a start that read it will conflict.
WritesSprint(s) ==
    txn' = [v \in Workers |-> IF txn[v].op = "start" /\ txn[v].sprint = s
                              THEN [txn[v] EXCEPT !.stale = TRUE] ELSE txn[v]]

----------------------------------------------------------------------------
(* Backlog                                                                 *)

CreateBacklogItem(i, st) ==
    /\ backlog[i] = "ABSENT" /\ st \in Creatable
    /\ backlog' = [backlog EXCEPT ![i] = st]
    /\ UNCHANGED <<status, board, txn, crossed, loosened, used>>

\* The status of any item may be edited, also that of a selected or archived one.
UpdateBacklogItem(i, st) ==
    /\ backlog[i] # "ABSENT" /\ st \in EditableTo(backlog[i])
    /\ backlog' = [backlog EXCEPT ![i] = st]
    /\ loosened' = loosened \cup ({i} \cap HeldOpen)
    /\ used.edits < MaxEdits /\ used' = [used EXCEPT !.edits = @ + 1]
    /\ UNCHANGED <<status, board, txn, crossed>>

ArchiveBacklogItem(i) ==
    /\ backlog[i] \notin {"ABSENT", "ARCHIVED"}
    /\ backlog' = [backlog EXCEPT ![i] = "ARCHIVED"]
    /\ used.edits < MaxEdits /\ used' = [used EXCEPT !.edits = @ + 1]
    /\ UNCHANGED <<status, board, txn, crossed, loosened>>

----------------------------------------------------------------------------
(* Planning                                                                *)

CreateSprint(s) ==
    /\ status[s] = "ABSENT"
    /\ status' = [status EXCEPT ![s] = "PLANNING"]
    /\ UNCHANGED <<backlog, board, txn, crossed, loosened, used>>

\* Faulty: any item that is not archived may be selected.
SelectableLive(i) == backlog[i] \notin {"ABSENT", "ARCHIVED"}

Selectable(i) == backlog[i] = "READY"

\* Faulty: a new card leaves a gap behind the last one.
NextOrderLate(s) == Cardinality(Column(s, "TO_DO")) + 1

NextOrder(s) == Cardinality(Column(s, "TO_DO"))

\* The items already in this sprint are skipped; the others must all be READY,
\* and go to the end of TO_DO in the order the database returns them.
AddItems(s, S) ==
    LET new == S \ Cards(s)
    IN  /\ status[s] = "PLANNING" /\ new # {}
        /\ \A i \in new : Selectable(i)
        /\ \E place \in [new -> NextOrder(s) .. NextOrder(s) + Cardinality(new) - 1] :
              /\ \A i, j \in new : place[i] = place[j] => i = j
              /\ board' = [board EXCEPT ![s] =
                    [i \in Items |-> IF i \in new
                                     THEN [column |-> "TO_DO", order |-> place[i]]
                                     ELSE board[s][i]]]
        /\ backlog' = [i \in Items |-> IF i \in new THEN "SELECTED_FOR_SPRINT" ELSE backlog[i]]
        /\ WritesSprint(s)
        /\ UNCHANGED <<status, crossed, loosened, used>>

\* The arrangements of S that keep the order of its cards; ties either way.
Arrangements(s, S) ==
    {place \in [S -> 0 .. Cardinality(S) - 1] :
        \A i, j \in S : /\ place[i] = place[j] => i = j
                        /\ board[s][i].order < board[s][j].order => place[i] < place[j]}

CompactColumnSkipped(s, i) == {[board[s] EXCEPT ![i] = NoCard]}

\* The column's other cards close the gap.
CompactColumn(s, i) ==
    LET rest == Column(s, board[s][i].column) \ {i}
    IN  {[j \in Items |-> CASE j = i -> NoCard
                            [] j \in rest -> [board[s][j] EXCEPT !.order = place[j]]
                            [] OTHER -> board[s][j]] : place \in Arrangements(s, rest)}

RemoveItem(s, i) ==
    /\ status[s] = "PLANNING" /\ i \in Cards(s)
    /\ \E cards \in CompactColumn(s, i) : board' = [board EXCEPT ![s] = cards]
    /\ backlog' = Released({i})
    /\ WritesSprint(s)
    /\ UNCHANGED <<status, crossed, loosened, used>>

----------------------------------------------------------------------------
(* Start: decides on a snapshot; the unique index on `active` decides again *)

BeginStart(w, s) ==
    /\ txn[w] = Free
    /\ status[s] = "PLANNING" /\ Cards(s) # {}
    /\ \A r \in Sprints \ {s} : status[r] # "ACTIVE"
    /\ txn' = [txn EXCEPT ![w] = [op |-> "start", sprint |-> s, stale |-> FALSE]]
    /\ UNCHANGED <<backlog, status, board, crossed, loosened, used>>

\* Faulty: the collection has no unique index on the active sprint.
IndexAbsent(s) == TRUE

\* The unique partial index takes the sprint only if it holds no other.
IndexFree(s) == \A r \in Sprints \ {s} : status[r] # "ACTIVE"

CommitStart(w) ==
    /\ txn[w].op = "start" /\ ~txn[w].stale
    /\ LET s == txn[w].sprint
       IN  /\ IndexFree(s)
           /\ status' = [status EXCEPT ![s] = "ACTIVE"]
           /\ txn' = [v \in Workers |->
                 CASE v = w -> Free
                   [] v # w /\ txn[v].op = "start" /\ txn[v].sprint = s
                        -> [txn[v] EXCEPT !.stale = TRUE]
                   [] OTHER -> txn[v]]
    /\ UNCHANGED <<backlog, board, crossed, loosened, used>>

----------------------------------------------------------------------------
(* Board moves                                                             *)

\* Faulty: only the moved card is written.
NormalizeColumnSkipped(s, i, c, order) == {[j \in {i} |-> order]}

\* normalizeSprintColumnOrder: the moved card at the position asked for, the others
\* around it in their order; only the cards whose order changes are written.
NormalizeColumn(s, i, c, order) ==
    LET others == Column(s, c) \ {i}
        target == IF order < Cardinality(others) THEN order ELSE Cardinality(others)
        shift(place, j) == IF place[j] < target THEN place[j] ELSE place[j] + 1
        moved(place)    == {j \in others : board[s][j].order # shift(place, j)}
    IN  {[j \in moved(place) \cup {i} |-> IF j = i THEN target ELSE shift(place, j)]
            : place \in Arrangements(s, others)}

\* Faulty: cards of a finished sprint move.
MovableEver(s) == status[s] # "PLANNING"

Movable(s) == status[s] = "ACTIVE"

BeginMove(w, s, i, c, order) ==
    /\ txn[w] = Free
    /\ Movable(s) /\ i \in Cards(s)
    /\ \E writes \in NormalizeColumn(s, i, c, order) :
          txn' = [txn EXCEPT ![w] =
                    [op |-> "move", sprint |-> s, column |-> c, item |-> i,
                     writes |-> writes, stale |-> FALSE, overlaid |-> FALSE]]
    /\ used.moves < MaxMoves /\ used' = [used EXCEPT !.moves = @ + 1]
    /\ UNCHANGED <<backlog, status, board, crossed, loosened>>

\* The move writes cards only.  Moves in progress that write one of them will
\* conflict; moves in progress into the same column have not seen this one.
CommitMove(w) ==
    /\ txn[w].op = "move" /\ ~txn[w].stale
    /\ LET t       == txn[w]
           written == DOMAIN t.writes
           place   == <<t.sprint, t.column>>
       IN  /\ board' = [board EXCEPT ![t.sprint] =
                 [j \in Items |-> IF j \in written
                                  THEN [column |-> t.column, order |-> t.writes[j]]
                                  ELSE board[t.sprint][j]]]
           /\ crossed' = IF t.overlaid THEN crossed \cup {place} ELSE crossed \ {place}
           /\ txn' = [v \in Workers |->
                 CASE v = w -> Free
                   [] v # w /\ txn[v].op = "move" /\ txn[v].sprint = t.sprint
                        -> [txn[v] EXCEPT
                              !.stale = @ \/ written \cap DOMAIN txn[v].writes # {},
                              !.overlaid = @ \/ txn[v].column = t.column]
                   [] OTHER -> txn[v]]
    /\ UNCHANGED <<backlog, status, loosened, used>>

\* A refused, conflicting or interrupted transaction leaves nothing.
Abort(w) ==
    /\ txn[w] # Free
    /\ txn' = [txn EXCEPT ![w] = Free]
    /\ UNCHANGED <<backlog, status, board, crossed, loosened, used>>

----------------------------------------------------------------------------
(* The end of a sprint                                                     *)

CompleteSprint(s) ==
    /\ status[s] = "ACTIVE"
    /\ status' = [status EXCEPT ![s] = "COMPLETED"]
    /\ WritesSprint(s)
    /\ UNCHANGED <<backlog, board, crossed, loosened, used>>

\* Also of a sprint in planning, or cancelled before: its cards stay on the board,
\* and every selected item they stand for is released.
CancelSprint(s) ==
    /\ status[s] \in {"PLANNING", "ACTIVE", "CANCELLED"}
    /\ status' = [status EXCEPT ![s] = "CANCELLED"]
    /\ backlog' = Released(Cards(s))
    /\ loosened' = loosened \cup IF status[s] = "CANCELLED" THEN Cards(s) \cap HeldOpen ELSE {}
    /\ WritesSprint(s)
    /\ UNCHANGED <<board, crossed, used>>

----------------------------------------------------------------------------

BacklogStep ==
    \E i \in Items : \/ \E st \in BacklogStatus : CreateBacklogItem(i, st) \/ UpdateBacklogItem(i, st)
                     \/ ArchiveBacklogItem(i)

PlanningStep ==
    \E s \in Sprints : \/ CreateSprint(s)
                       \/ \E S \in SUBSET Items : AddItems(s, S)
                       \/ \E i \in Items : RemoveItem(s, i)

SprintStep ==
    \/ \E s \in Sprints : CompleteSprint(s) \/ CancelSprint(s)
    \/ \E w \in Workers :
          \/ \E s \in Sprints : \/ BeginStart(w, s)
                                \/ \E i \in Items, c \in Columns, order \in 0 .. MaxOrder :
                                      BeginMove(w, s, i, c, order)
          \/ CommitStart(w) \/ CommitMove(w) \/ Abort(w)

Next == BacklogStep \/ PlanningStep \/ SprintStep

Spec == Init /\ [][Next]_vars

----------------------------------------------------------------------------
(* Properties                                                              *)

\* Documents and transactions keep their shape.
TypeOK ==
    /\ backlog \in [Items -> BacklogStatus]
    /\ status \in [Sprints -> SprintStatus]
    /\ board \in [Sprints -> [Items -> Card \cup {NoCard}]]
    /\ txn \in [Workers -> Txn]
    /\ crossed \subseteq Sprints \X Columns
    /\ loosened \subseteq Items
    /\ used \in [edits : 0 .. MaxEdits, moves : 0 .. MaxMoves]

\* A project has at most one active sprint, and it is not empty, although each start
\* counts the cards and looks for the other active sprint in a snapshot of its own
\* (startProjectSprintForRequest).
OneActiveSprint ==
    /\ \A r, s \in Sprints : status[r] = "ACTIVE" /\ status[s] = "ACTIVE" => r = s
    /\ \A s \in Sprints : status[s] = "ACTIVE" => Cards(s) # {}

\* No item stays SELECTED_FOR_SPRINT for a sprint that was cancelled or that dropped
\* it: a sprint that can still release it, or that was completed, holds it.
SelectedIsHeld ==
    \A i \in Items : backlog[i] = "SELECTED_FOR_SPRINT" =>
        \E s \in Sprints : status[s] \in {"PLANNING", "ACTIVE", "COMPLETED"} /\ i \in Cards(s)

\* Two sprints hold one item in planning or active only after the item was edited, or
\* released by the second cancellation of a sprint, while one of them held it.
OneOpenSprint ==
    \A i \in Items \ loosened, r, s \in Open : i \in Cards(r) \cap Cards(s) => r = s

\* The cards of a sprint in planning fill TO_DO without gaps.  Later two cards share
\* a position only after two moves into their column overlapped, and the next move
\* into it alone repairs it (normalizeSprintColumnOrder, compactSprintColumnOrder).
ColumnPlaces ==
    /\ \A s \in Sprints : status[s] = "PLANNING" =>
          {board[s][i].order : i \in Cards(s)} = 0 .. Cardinality(Column(s, "TO_DO")) - 1
    /\ \A s \in Sprints, c \in Columns : <<s, c>> \notin crossed =>
          \A i, j \in Column(s, c) : board[s][i].order = board[s][j].order => i = j

OpenMoves(s) == {w \in Workers : txn[w].op = "move" /\ txn[w].sprint = s}

\* The board of a finished sprint changes only by the moves that were in progress
\* when it finished, each at most once (moveProjectSprintItem does not write the
\* sprint it checked).
BoardSettles ==
    [][\A s \in Sprints : status[s] \in {"COMPLETED", "CANCELLED"} =>
          /\ OpenMoves(s)' \subseteq OpenMoves(s)
          /\ board'[s] # board[s] => OpenMoves(s)' # OpenMoves(s)]_vars
=============================================================================
