-------------------------- MODULE SprintBoardProofs --------------------------
(***************************************************************************)
(* What SprintBoard states, for any sprints, items, columns and workers.   *)
(*                                                                         *)
(* SprintInv is inductive.  Its parts besides the properties: a sprint     *)
(* that does not exist has no cards, and one in planning has them in TO_DO *)
(* (Drafts); a start without a conflict found its sprint in planning, with *)
(* cards (Starts); a move writes cards its sprint has, and the sprint has  *)
(* left planning (Moves); what a move writes fits into its column as long  *)
(* as no other move entered it (Fitting); an item on the board of an open  *)
(* sprint cannot be selected unless it was freed (Engaged).                *)
(***************************************************************************)
EXTENDS SprintBoard, FiniteSetTheorems, TLAPS

Left == {"ACTIVE", "COMPLETED", "CANCELLED"}

Drafts ==
    \A s \in Sprints :
        /\ status[s] = "ABSENT" => Cards(s) = {}
        /\ status[s] = "PLANNING" => \A i \in Cards(s) : board[s][i].column = "TO_DO"
        /\ \A i \in Cards(s) : backlog[i] # "ABSENT"

Starts ==
    \A w \in Workers : txn[w].op = "start" /\ ~txn[w].stale =>
        status[txn[w].sprint] = "PLANNING" /\ Cards(txn[w].sprint) # {}

Moves ==
    \A w \in Workers : txn[w].op = "move" =>
        /\ status[txn[w].sprint] \in Left
        /\ DOMAIN txn[w].writes \subseteq Cards(txn[w].sprint)

\* The place of card j of sprint s once writes are applied.
Placed(s, writes, j) == IF j \in DOMAIN writes THEN writes[j] ELSE board[s][j].order

Fits(s, c, writes) ==
    \A j, k \in Column(s, c) \cup DOMAIN writes :
        Placed(s, writes, j) = Placed(s, writes, k) => j = k

Fitting ==
    \A w \in Workers : txn[w].op = "move" /\ ~txn[w].stale /\ ~txn[w].overlaid =>
        Fits(txn[w].sprint, txn[w].column, txn[w].writes)

Engaged ==
    \A i \in HeldOpen \ loosened : backlog[i] \in {"SELECTED_FOR_SPRINT", "ARCHIVED"}

SprintInv ==
    /\ TypeOK /\ Drafts /\ Starts /\ Moves /\ Fitting /\ Engaged
    /\ OneActiveSprint /\ SelectedIsHeld /\ OneOpenSprint /\ ColumnPlaces

----------------------------------------------------------------------------
(* Facts about documents                                                   *)

LEMMA CardShape ==
    /\ NoCard \notin Card
    /\ \A d \in Card : d.column \in Columns /\ d.order \in Nat /\ d.order < Cardinality(Items)
    /\ \A c \in Columns : c # NoCard.column
  <1>1. Cardinality(Items) \in Nat
    BY BoardAssumption, FS_CardinalityType
  <1> QED BY <1>1, BoardAssumption DEF NoCard, Card, BoardStatus

LEMMA OnBoard ==
    ASSUME TypeOK, NEW s \in Sprints
    PROVE  /\ Cards(s) \subseteq Items
           /\ \A c \in Columns : Column(s, c) \subseteq Cards(s)
           /\ \A i \in Cards(s) : board[s][i] \in Card
  BY CardShape DEF TypeOK, Cards, Column

\* Sizes of sets of items.
LEMMA ItemSets ==
    ASSUME NEW S \in SUBSET Items
    PROVE  IsFiniteSet(S) /\ Cardinality(S) \in Nat /\ Cardinality(S) <= Cardinality(Items)
  BY BoardAssumption, FS_Subset, FS_CardinalityType

\* As many different positions as there are between a and b use all of them.
LEMMA AllPositions ==
    ASSUME NEW S \in SUBSET Items, NEW a \in Nat,
           NEW place \in [S -> a .. a + Cardinality(S) - 1],
           \A i, j \in S : place[i] = place[j] => i = j
    PROVE  {place[i] : i \in S} = a .. a + Cardinality(S) - 1
  <1> DEFINE T == a .. a + Cardinality(S) - 1
  <1>1. IsFiniteSet(S) /\ Cardinality(S) \in Nat
    BY ItemSets
  <1>2. IsFiniteSet(T) /\ Cardinality(T) = Cardinality(S)
    <2>1. a + Cardinality(S) - 1 \in Int
      BY <1>1
    <2>2. Cardinality(T) = IF a > a + Cardinality(S) - 1 THEN 0
                           ELSE (a + Cardinality(S) - 1) - a + 1
      BY <2>1, FS_Interval
    <2> QED BY <1>1, <2>1, <2>2, FS_Interval
  <1>3. place \in Injection(S, T)
    BY DEF Injection, IsInjective
  <1>4. place \in Surjection(S, T)
    BY <1>2, <1>3, FS_Injection
  <1> QED BY <1>4 DEF Surjection

StartTxn == [op : {"start"}, sprint : Sprints, stale : BOOLEAN]

MoveTxn ==
    [op : {"move"}, sprint : Sprints, column : Columns, item : Items,
     writes : UNION {[S -> 0 .. Cardinality(Items) - 1] : S \in SUBSET Items},
     stale : BOOLEAN, overlaid : BOOLEAN]

\* The kinds of transactions, by what they do.
LEMMA TxnKinds ==
    /\ Txn = {Free} \cup StartTxn \cup MoveTxn
    /\ \A t \in Txn : t.op \in {"free", "start", "move"}
    /\ \A t \in Txn : t.op = "free" => t = Free
    /\ \A t \in Txn : t.op = "start" => t \in StartTxn
    /\ \A t \in Txn : t.op = "move" => t \in MoveTxn
  BY DEF Txn, Free, StartTxn, MoveTxn

LEMMA StampedStart ==
    ASSUME NEW t \in Txn, t.op = "start"
    PROVE  [t EXCEPT !.stale = TRUE] \in Txn
  <1>1. [t EXCEPT !.stale = TRUE] \in StartTxn
    BY TxnKinds DEF StartTxn
  <1> QED BY <1>1, TxnKinds

LEMMA StampedMove ==
    ASSUME NEW t \in Txn, t.op = "move", NEW a \in BOOLEAN, NEW b \in BOOLEAN
    PROVE  [t EXCEPT !.stale = a, !.overlaid = b] \in Txn
  <1>1. [t EXCEPT !.stale = a, !.overlaid = b] \in MoveTxn
    BY TxnKinds DEF MoveTxn
  <1> QED BY <1>1, TxnKinds

----------------------------------------------------------------------------
(* Steps that leave the boards alone                                       *)

LEMMA InitInv ==
    ASSUME Init
    PROVE  SprintInv
  <1>1. Cardinality(Items) \in Nat
    BY BoardAssumption, FS_CardinalityType
  <1>2. \A s \in Sprints : status[s] = "ABSENT" /\ Cards(s) = {}
    BY DEF Init, Cards
  <1>3. \A s \in Sprints, c \in Columns : Column(s, c) = {}
    BY CardShape DEF Init, Column
  <1>4. Open = {} /\ HeldOpen = {}
    BY <1>2 DEF Open, HeldOpen
  <1>5. TypeOK
    BY BoardAssumption DEF Init, TypeOK, BacklogStatus, SprintStatus, Txn
  <1>6. \A w \in Workers : txn[w].op = "free"
    BY DEF Init, Free
  <1>7. \A i \in Items : backlog[i] = "ABSENT"
    BY DEF Init
  <1>8. Drafts /\ Starts /\ Moves /\ Fitting /\ Engaged
    BY <1>2, <1>4, <1>6 DEF Drafts, Starts, Moves, Fitting, Engaged
  <1>9. OneActiveSprint /\ SelectedIsHeld /\ OneOpenSprint /\ ColumnPlaces
    BY <1>2, <1>3, <1>4, <1>7 DEF OneActiveSprint, SelectedIsHeld, OneOpenSprint, ColumnPlaces
  <1> QED BY <1>5, <1>8, <1>9 DEF SprintInv

\* Moves in progress are not concerned by a step that keeps the boards of the sprints
\* that have left planning, and keeps them there.
LEMMA MovesKept ==
    ASSUME SprintInv, txn' \in [Workers -> Txn],
           \A v \in Workers : txn'[v].op = "move" => txn'[v] = txn[v],
           \A s \in Sprints : status[s] \in Left => status'[s] \in Left /\ board'[s] = board[s]
    PROVE  Moves' /\ Fitting'
  <1> SUFFICES ASSUME NEW w \in Workers, txn'[w].op = "move"
               PROVE  (/\ status[txn[w].sprint] \in Left
                       /\ DOMAIN txn[w].writes \subseteq Cards(txn[w].sprint)
                       /\ ~txn[w].stale /\ ~txn[w].overlaid =>
                            Fits(txn[w].sprint, txn[w].column, txn[w].writes))'
    BY DEF Moves, Fitting
  <1>1. txn'[w] = txn[w] /\ txn[w] \in MoveTxn
    BY TxnKinds DEF SprintInv, TypeOK
  <1> DEFINE s == txn[w].sprint
  <1>2. s \in Sprints /\ status[s] \in Left
    BY <1>1 DEF SprintInv, Moves, MoveTxn
  <1>3. status'[s] \in Left /\ board'[s] = board[s]
    BY <1>2
  <1>4. /\ DOMAIN txn[w].writes \subseteq Cards(s)
        /\ ~txn[w].stale /\ ~txn[w].overlaid => Fits(s, txn[w].column, txn[w].writes)
    BY <1>1 DEF SprintInv, Moves, Fitting
  <1> QED BY <1>1, <1>3, <1>4 DEF Cards, Column, Fits, Placed

\* A commit that writes a sprint: the starts that read it conflict from now on.
LEMMA WriteEffect ==
    ASSUME TypeOK, NEW s \in Sprints, WritesSprint(s)
    PROVE  /\ txn' \in [Workers -> Txn]
           /\ \A v \in Workers : txn'[v].op = "move" => txn'[v] = txn[v]
           /\ \A v \in Workers : txn[v].op = "move" => txn'[v] = txn[v]
           /\ \A v \in Workers : txn'[v].op = "start" /\ ~txn'[v].stale =>
                 txn'[v] = txn[v] /\ txn[v].sprint # s
  <1>1. \A v \in Workers : txn[v] \in Txn
    BY DEF TypeOK
  <1>2. \A v \in Workers : txn[v].op = "start" =>
            /\ [txn[v] EXCEPT !.stale = TRUE] \in Txn
            /\ [txn[v] EXCEPT !.stale = TRUE].op = "start"
            /\ [txn[v] EXCEPT !.stale = TRUE].stale
    BY <1>1, StampedStart, TxnKinds DEF StartTxn
  <1> QED BY <1>1, <1>2 DEF WritesSprint

\* Steps of the backlog keep every sprint, board and transaction.
LEMMA BacklogFrame ==
    ASSUME SprintInv, UNCHANGED <<status, board, txn, crossed>>
    PROVE  /\ Starts' /\ Moves' /\ Fitting' /\ OneActiveSprint' /\ ColumnPlaces'
           /\ \A s \in Sprints : Cards(s)' = Cards(s)
           /\ HeldOpen' = HeldOpen /\ Open' = Open
  <1>1. \A s \in Sprints : Cards(s)' = Cards(s) /\ \A c \in Columns : Column(s, c)' = Column(s, c)
    BY DEF Cards, Column
  <1>2. Open' = Open /\ HeldOpen' = HeldOpen
    BY <1>1 DEF Open, HeldOpen, Cards
  <1>3. Moves' /\ Fitting'
    BY MovesKept DEF SprintInv, TypeOK
  <1>4. Starts' /\ OneActiveSprint'
    BY <1>1 DEF SprintInv, Starts, OneActiveSprint, Cards
  <1>5. ColumnPlaces'
    BY DEF SprintInv, ColumnPlaces, Cards, Column
  <1> QED BY <1>1, <1>2, <1>3, <1>4, <1>5

LEMMA CreateBacklogItemInv ==
    ASSUME SprintInv, NEW i \in Items, NEW st \in BacklogStatus, CreateBacklogItem(i, st)
    PROVE  SprintInv'
  <1> USE DEF SprintInv, CreateBacklogItem
  <1>1. TypeOK'
    BY DEF TypeOK
  <1>2. \A s \in Sprints : i \notin Cards(s)
    BY DEF Drafts
  <1>3. Drafts'
    BY BacklogFrame DEF Drafts, TypeOK, Creatable
  <1>4. Engaged'
    BY <1>2, BacklogFrame DEF Engaged, HeldOpen, Open, TypeOK
  <1>5. SelectedIsHeld'
    BY BacklogFrame DEF SelectedIsHeld, TypeOK, Creatable
  <1>6. OneOpenSprint'
    BY BacklogFrame DEF OneOpenSprint, Open
  <1> QED BY <1>1, <1>3, <1>4, <1>5, <1>6, BacklogFrame

LEMMA UpdateBacklogItemInv ==
    ASSUME SprintInv, NEW i \in Items, NEW st \in BacklogStatus, UpdateBacklogItem(i, st)
    PROVE  SprintInv'
  <1> USE DEF SprintInv, UpdateBacklogItem, EditableTo, Creatable
  <1>1. TypeOK'
    BY BoardAssumption DEF TypeOK
  <1>3. Drafts'
    BY BacklogFrame DEF Drafts, TypeOK
  <1>4. Engaged'
    BY BacklogFrame DEF Engaged, HeldOpen, TypeOK
  <1>5. SelectedIsHeld'
    BY BacklogFrame DEF SelectedIsHeld, TypeOK
  <1>6. OneOpenSprint'
    BY BacklogFrame DEF OneOpenSprint, Open
  <1> QED BY <1>1, <1>3, <1>4, <1>5, <1>6, BacklogFrame

LEMMA ArchiveBacklogItemInv ==
    ASSUME SprintInv, NEW i \in Items, ArchiveBacklogItem(i)
    PROVE  SprintInv'
  <1> USE DEF SprintInv, ArchiveBacklogItem
  <1>1. TypeOK'
    BY BoardAssumption DEF TypeOK, BacklogStatus
  <1>3. Drafts'
    BY BacklogFrame DEF Drafts, TypeOK
  <1>4. Engaged'
    BY BacklogFrame DEF Engaged, HeldOpen, TypeOK
  <1>5. SelectedIsHeld'
    BY BacklogFrame DEF SelectedIsHeld, TypeOK
  <1>6. OneOpenSprint'
    BY BacklogFrame DEF OneOpenSprint, Open
  <1> QED BY <1>1, <1>3, <1>4, <1>5, <1>6, BacklogFrame

\* A new sprint has no cards.
LEMMA CreateSprintInv ==
    ASSUME SprintInv, NEW s \in Sprints, CreateSprint(s)
    PROVE  SprintInv'
  <1> USE DEF SprintInv, CreateSprint
  <1>1. TypeOK'
    BY DEF TypeOK, SprintStatus
  <1>2. /\ \A r \in Sprints : Cards(r)' = Cards(r) /\ \A c \in Columns : Column(r, c)' = Column(r, c)
        /\ Cards(s) = {} /\ \A c \in Columns : Column(s, c) = {}
        /\ \A r \in Sprints : status'[r] = IF r = s THEN "PLANNING" ELSE status[r]
    BY OnBoard DEF Drafts, Cards, Column, TypeOK
  <1>3. Open' = Open \cup {s} /\ s \notin Open /\ HeldOpen' = HeldOpen
    <2>1. Open' = Open \cup {s} /\ s \notin Open
      BY <1>2 DEF Open
    <2> QED BY <1>2, <2>1 DEF HeldOpen, Open
  <1>4. Drafts'
    BY <1>2 DEF Drafts
  <1>5. Starts'
    BY <1>2, TxnKinds DEF Starts, TypeOK, StartTxn
  <1>6. Moves' /\ Fitting'
    BY <1>2, MovesKept DEF TypeOK, Left
  <1>7. Engaged' /\ OneActiveSprint'
    BY <1>2, <1>3 DEF Engaged, OneActiveSprint
  <1>8. SelectedIsHeld' /\ OneOpenSprint'
    BY <1>2, <1>3 DEF SelectedIsHeld, OneOpenSprint, Open
  <1>9. ColumnPlaces'
    <2>1. {board[s][i].order : i \in Cards(s)} = 0 .. Cardinality(Column(s, "TO_DO")) - 1
      BY <1>2, FS_EmptySet, BoardAssumption
    <2>2. \A r \in Sprints : status'[r] = "PLANNING" =>
             {board[r][i].order : i \in Cards(r)} = 0 .. Cardinality(Column(r, "TO_DO")) - 1
      BY <1>2, <2>1 DEF ColumnPlaces
    <2> QED BY <1>2, <2>2, BoardAssumption DEF ColumnPlaces
  <1> QED BY <1>1, <1>4, <1>5, <1>6, <1>7, <1>8, <1>9

----------------------------------------------------------------------------
(* Planning                                                                *)

\* The cards of a sprint in planning are its column TO_DO.
LEMMA PlanningColumns ==
    ASSUME SprintInv, NEW s \in Sprints, status[s] = "PLANNING"
    PROVE  /\ Column(s, "TO_DO") = Cards(s)
           /\ \A c \in Columns \ {"TO_DO"} : Column(s, c) = {}
  BY OnBoard, BoardAssumption DEF SprintInv, Drafts, Cards, Column

\* Steps of planning change the board of one sprint, and no status.
LEMMA PlanningFrame ==
    ASSUME SprintInv, NEW s \in Sprints, status[s] = "PLANNING",
           NEW cards, board' = [board EXCEPT ![s] = cards],
           WritesSprint(s), UNCHANGED status
    PROVE  /\ Starts' /\ Moves' /\ Fitting'
           /\ Open' = Open /\ s \in Open
           /\ board'[s] = cards
           /\ \A r \in Sprints \ {s} :
                 /\ board'[r] = board[r] /\ Cards(r)' = Cards(r)
                 /\ \A c \in Columns : Column(r, c)' = Column(r, c)
  <1> USE DEF SprintInv
  <1>1. /\ board'[s] = cards
        /\ \A r \in Sprints \ {s} :
                 /\ board'[r] = board[r] /\ Cards(r)' = Cards(r)
                 /\ \A c \in Columns : Column(r, c)' = Column(r, c)
    BY DEF TypeOK, Cards, Column
  <1>2. Open' = Open /\ s \in Open
    BY DEF Open
  <1>3. Moves' /\ Fitting'
    BY <1>1, WriteEffect, MovesKept DEF Left
  <1>4. Starts'
    <2> SUFFICES ASSUME NEW w \in Workers, txn'[w].op = "start", ~txn'[w].stale
                 PROVE  /\ status'[txn'[w].sprint] = "PLANNING"
                        /\ \A r : r = txn'[w].sprint => Cards(r)' # {}
      BY DEF Starts
    <2>1. txn'[w] = txn[w] /\ txn[w].sprint \in Sprints \ {s}
      BY WriteEffect, TxnKinds DEF TypeOK, StartTxn
    <2> QED BY <1>1, <2>1 DEF Starts
  <1> QED BY <1>1, <1>2, <1>3, <1>4

LEMMA AddItemsInv ==
    ASSUME SprintInv, NEW s \in Sprints, NEW S \in SUBSET Items, AddItems(s, S)
    PROVE  SprintInv'
  <1> USE DEF SprintInv
  <1> DEFINE new == S \ Cards(s)
             n   == NextOrder(s)
             k   == Cardinality(new)
             full(place) == [i \in Items |-> IF i \in new
                                             THEN [column |-> "TO_DO", order |-> place[i]]
                                             ELSE board[s][i]]
  <1>1. PICK place \in [new -> n .. n + k - 1] :
            /\ \A i, j \in new : place[i] = place[j] => i = j
            /\ board' = [board EXCEPT ![s] = full(place)]
    BY DEF AddItems
  <1>2. /\ status[s] = "PLANNING" /\ UNCHANGED <<status, crossed, loosened, used>>
        /\ \A i \in new : backlog[i] = "READY"
        /\ WritesSprint(s) /\ new \subseteq Items /\ new \cap Cards(s) = {}
        /\ n = NextOrder(s) /\ k = Cardinality(new)
        /\ backlog' = [i \in Items |-> IF i \in new THEN "SELECTED_FOR_SPRINT" ELSE backlog[i]]
    BY DEF AddItems, Selectable
  <1> DEFINE cards == full(place)
  <1> HIDE DEF new, n, k, cards
  <1>3. /\ Starts' /\ Moves' /\ Fitting'
        /\ Open' = Open /\ s \in Open
        /\ board'[s] = cards
        /\ \A r \in Sprints \ {s} :
              /\ board'[r] = board[r] /\ Cards(r)' = Cards(r)
              /\ \A c \in Columns : Column(r, c)' = Column(r, c)
    BY <1>1, <1>2, PlanningFrame DEF cards
  <1>4. /\ Column(s, "TO_DO") = Cards(s) /\ Cards(s) \subseteq Items
        /\ \A c \in Columns \ {"TO_DO"} : Column(s, c) = {}
    BY <1>2, PlanningColumns, OnBoard
  <1>5. n \in Nat /\ k \in Nat /\ Cardinality(Cards(s) \cup new) = n + k /\ n + k <= Cardinality(Items)
    <2>1. /\ IsFiniteSet(new) /\ IsFiniteSet(Cards(s)) /\ Cards(s) \cap new = {}
          /\ n = Cardinality(Cards(s)) /\ n \in Nat /\ k \in Nat
      BY <1>2, <1>4, ItemSets DEF NextOrder
    <2>2. Cardinality(Cards(s) \cup new)
             = n + k - Cardinality(Cards(s) \cap new)
      BY <1>2, <2>1, FS_Union
    <2>3. Cardinality(Cards(s) \cap new) = 0
      BY <2>1, FS_EmptySet
    <2>4. Cardinality(Cards(s) \cup new) <= Cardinality(Items)
      BY <1>2, <1>4, ItemSets
    <2> QED BY <2>1, <2>2, <2>3, <2>4
  <1>6. \A i \in new : /\ cards[i].column = "TO_DO" /\ cards[i].order = place[i]
                       /\ cards[i] \in Card
    <2> SUFFICES ASSUME NEW i \in new
                 PROVE  /\ cards[i].column = "TO_DO" /\ cards[i].order = place[i]
                        /\ cards[i] \in Card
      OBVIOUS
    <2>1. cards[i] = [column |-> "TO_DO", order |-> place[i]]
      BY <1>2 DEF cards
    <2>2. place[i] \in 0 .. Cardinality(Items) - 1
      <3>1. Cardinality(Items) \in Nat
        BY ItemSets
      <3> QED BY <1>1, <1>5, <3>1
    <2>3. cards[i] \in Card
      BY <2>1, <2>2, BoardAssumption DEF Card
    <2> QED BY <2>1, <2>3
  <1>7. \A i \in Items \ new : cards[i] = board[s][i]
    BY DEF cards
  <1>8. cards \in [Items -> Card \cup {NoCard}]
    <2>1. DOMAIN cards = Items /\ cards = [i \in Items |-> cards[i]]
      BY DEF cards
    <2>2. \A i \in Items \ new : board[s][i] \in Card \cup {NoCard}
      BY DEF TypeOK
    <2> QED BY <1>6, <1>7, <2>1, <2>2
  <1>9. TypeOK'
    <2>1. board' \in [Sprints -> [Items -> Card \cup {NoCard}]]
      BY <1>1, <1>8 DEF TypeOK, cards
    <2>2. backlog' \in [Items -> BacklogStatus]
      BY <1>2 DEF TypeOK, BacklogStatus
    <2> QED BY <1>2, <2>1, <2>2, WriteEffect DEF TypeOK
  <1>10. /\ Cards(s)' = Cards(s) \cup new
         /\ Column(s, "TO_DO")' = Cards(s) \cup new
         /\ \A c \in Columns \ {"TO_DO"} : Column(s, c)' = {}
    <2>1. Cards(s)' = Cards(s) \cup new
      BY <1>2, <1>3, <1>6, <1>7, CardShape DEF Cards
    <2>2. \A c \in Columns : Column(s, c)' = {i \in Items : cards[i].column = c}
      BY <1>3 DEF Column
    <2>3. \A i \in new : cards[i].column = "TO_DO"
      BY <1>6
    <2>4. \A c \in Columns, i \in Items \ new : cards[i].column = c <=> i \in Column(s, c)
      BY <1>7 DEF Column
    <2> QED BY <1>2, <1>4, <2>1, <2>2, <2>3, <2>4, BoardAssumption
  <1>11. Drafts'
    <2>1. \A i \in Cards(s) \cup new : cards[i].column = "TO_DO"
      <3>1. \A i \in new : cards[i].column = "TO_DO"
        BY <1>6
      <3>2. \A i \in Cards(s) : i \in Items \ new /\ board[s][i].column = "TO_DO"
        BY <1>2, <1>4 DEF Column
      <3> QED BY <1>7, <3>1, <3>2
    <2>2. \A r \in Sprints : \A i \in Cards(r)' : backlog'[i] # "ABSENT"
      BY <1>2, <1>3, <1>4, <1>10, OnBoard DEF Drafts
    <2> QED BY <1>2, <1>3, <1>10, <2>1, <2>2 DEF Drafts
  <1>12. Engaged' /\ OneOpenSprint'
    <2>1. HeldOpen' = HeldOpen \cup new
      <3>1. \A i \in Items : i \in HeldOpen' <=> \E r \in Open : i \in Cards(r)'
        BY <1>3 DEF HeldOpen
      <3>2. \A r \in Open : Cards(r)' = IF r = s THEN Cards(s) \cup new ELSE Cards(r)
        BY <1>3, <1>10 DEF Open
      <3>3. HeldOpen \subseteq Items /\ HeldOpen' \subseteq Items
        BY DEF HeldOpen
      <3> QED BY <1>2, <1>3, <3>1, <3>2, <3>3 DEF HeldOpen
    <2>2. Engaged'
      BY <1>2, <2>1 DEF Engaged, HeldOpen
    <2>3. \A i \in new \ loosened, r \in Open \ {s} : i \notin Cards(r)
      BY <1>2 DEF Engaged, HeldOpen
    <2>4. ASSUME NEW i \in Items \ loosened, NEW r \in Open, i \in Cards(r)', i \in Cards(s)', r # s
          PROVE  FALSE
      <3>1. i \in Cards(r) /\ i \in Cards(s) \cup new
        BY <1>3, <1>10, <2>4 DEF Open
      <3> QED BY <2>3, <2>4, <3>1, <1>3 DEF OneOpenSprint
    <2>5. \A i \in Items \ loosened, r, q \in Open \ {s} : i \in Cards(r)' \cap Cards(q)' => r = q
      BY <1>3 DEF OneOpenSprint, Open
    <2> QED BY <1>2, <1>3, <2>2, <2>4, <2>5 DEF OneOpenSprint
  <1>13. OneActiveSprint' /\ SelectedIsHeld'
    <2>1. \A r \in Sprints : Cards(r) \subseteq Cards(r)'
      BY <1>3, <1>10
    <2>2. OneActiveSprint'
      BY <1>2, <2>1 DEF OneActiveSprint
    <2>3. \A i \in new : i \in Cards(s)'
      BY <1>10
    <2> QED BY <1>2, <2>1, <2>2, <2>3 DEF SelectedIsHeld
  <1>14. ColumnPlaces'
    <2>1. {place[i] : i \in new} = n .. n + k - 1
      BY <1>1, <1>2, <1>5, AllPositions
    <2>2. {board[s][i].order : i \in Cards(s)} = 0 .. n - 1
      BY <1>2 DEF ColumnPlaces, NextOrder
    <2>3. \A i \in Cards(s) : cards[i].order = board[s][i].order /\ board[s][i].order \in 0 .. n - 1
      <3>1. \A i \in Cards(s) : i \in Items \ new
        BY <1>2, <1>4
      <3> QED BY <1>7, <2>2, <3>1
    <2>4. \A i \in new : cards[i].order = place[i] /\ place[i] \in n .. n + k - 1
      <3>1. \A i \in new : cards[i].order = place[i]
        BY <1>6
      <3> QED BY <1>1, <3>1
    <2>5. {cards[i].order : i \in Cards(s) \cup new} = 0 .. n + k - 1
      <3>1. \A x \in 0 .. n + k - 1 : x \in 0 .. n - 1 \/ x \in n .. n + k - 1
        BY <1>5
      <3>2. \A x \in 0 .. n - 1 : \E i \in Cards(s) : cards[i].order = x
        BY <2>2, <2>3
      <3>3. \A x \in n .. n + k - 1 : \E i \in new : cards[i].order = x
        BY <2>1, <2>4
      <3>4. \A i \in Cards(s) \cup new : cards[i].order \in 0 .. n + k - 1
        BY <1>5, <2>3, <2>4
      <3> QED BY <3>1, <3>2, <3>3, <3>4
    <2>6. {board'[s][i].order : i \in Cards(s)'} = 0 .. Cardinality(Column(s, "TO_DO")') - 1
      <3> DEFINE F(f, C) == {f[i].order : i \in C}
      <3>1. F(board'[s], Cards(s)') = F(cards, Cards(s) \cup new)
        BY <1>3, <1>10
      <3>2. Cardinality(Column(s, "TO_DO")') = n + k
        BY <1>5, <1>10
      <3>3. F(cards, Cards(s) \cup new) = 0 .. Cardinality(Column(s, "TO_DO")') - 1
        BY <1>5, <2>5, <3>2
      <3>4. {board'[s][i].order : i \in Cards(s)'} = F(board'[s], Cards(s)')
        OBVIOUS
      <3> HIDE DEF F
      <3> QED BY <3>1, <3>3, <3>4
    <2>7. \A r \in Sprints : status'[r] = "PLANNING" =>
             {board'[r][i].order : i \in Cards(r)'} = 0 .. Cardinality(Column(r, "TO_DO")') - 1
      BY <1>2, <1>3, <2>6, BoardAssumption DEF ColumnPlaces
    <2>8. ASSUME <<s, "TO_DO">> \notin crossed,
                 NEW i \in Cards(s) \cup new, NEW j \in Cards(s) \cup new,
                 cards[i].order = cards[j].order
          PROVE  i = j
      <3>1. CASE i \in Cards(s) /\ j \in Cards(s)
        BY <1>4, <2>3, <2>8, <3>1, BoardAssumption DEF ColumnPlaces
      <3>2. CASE i \in new /\ j \in new
        BY <1>1, <2>4, <2>8, <3>2
      <3>3. CASE (i \in Cards(s) /\ j \in new) \/ (i \in new /\ j \in Cards(s))
        BY <1>5, <2>3, <2>4, <2>8, <3>3
      <3> QED BY <3>1, <3>2, <3>3
    <2>9. \A r \in Sprints, c \in Columns : <<r, c>> \notin crossed' =>
             \A i, j \in Column(r, c)' : board'[r][i].order = board'[r][j].order => i = j
      <3> SUFFICES ASSUME NEW r \in Sprints, NEW c \in Columns, <<r, c>> \notin crossed,
                          NEW i \in Column(r, c)', NEW j \in Column(r, c)',
                          board'[r][i].order = board'[r][j].order
                   PROVE  i = j
        BY <1>2
      <3>1. CASE r # s
        BY <1>3, <3>1 DEF ColumnPlaces
      <3>2. CASE r = s
        BY <1>3, <1>10, <2>8, <3>2
      <3> QED BY <3>1, <3>2
    <2> QED BY <2>7, <2>9 DEF ColumnPlaces
  <1> QED BY <1>3, <1>9, <1>11, <1>12, <1>13, <1>14

\* What is released was selected, and nothing else changes.
LEMMA Releases ==
    ASSUME TypeOK, NEW S \in SUBSET Items, backlog' = Released(S)
    PROVE  /\ backlog' \in [Items -> BacklogStatus]
           /\ \A i \in Items \ S : backlog'[i] = backlog[i]
           /\ \A i \in S : backlog'[i] # "SELECTED_FOR_SPRINT"
           /\ \A i \in Items : backlog'[i] = "ABSENT" => backlog[i] = "ABSENT"
  BY DEF TypeOK, Released, BacklogStatus

LEMMA RemoveItemInv ==
    ASSUME SprintInv, NEW s \in Sprints, NEW i \in Items, RemoveItem(s, i)
    PROVE  SprintInv'
  <1> USE DEF SprintInv
  <1>1. /\ status[s] = "PLANNING" /\ i \in Cards(s) /\ UNCHANGED <<status, crossed, loosened, used>>
        /\ backlog' = Released({i}) /\ WritesSprint(s)
        /\ Column(s, "TO_DO") = Cards(s) /\ Cards(s) \subseteq Items
        /\ \A c \in Columns \ {"TO_DO"} : Column(s, c) = {}
    BY PlanningColumns, OnBoard DEF RemoveItem
  <1> DEFINE rest == Column(s, board[s][i].column) \ {i}
             closed(place) == [j \in Items |-> CASE j = i -> NoCard
                                  [] j \in rest -> [board[s][j] EXCEPT !.order = place[j]]
                                  [] OTHER -> board[s][j]]
  <1>2. board[s][i].column = "TO_DO" /\ rest = Cards(s) \ {i}
    BY <1>1 DEF Column
  <1>3. PICK place \in Arrangements(s, rest) : board' = [board EXCEPT ![s] = closed(place)]
    BY DEF RemoveItem, CompactColumn
  <1> DEFINE cards == closed(place)
  <1> HIDE DEF cards, rest
  <1>4. /\ Starts' /\ Moves' /\ Fitting'
        /\ Open' = Open /\ s \in Open
        /\ board'[s] = cards
        /\ \A r \in Sprints \ {s} :
              /\ board'[r] = board[r] /\ Cards(r)' = Cards(r)
              /\ \A c \in Columns : Column(r, c)' = Column(r, c)
    BY <1>1, <1>3, PlanningFrame DEF cards
  <1>5. /\ place \in [rest -> 0 .. Cardinality(rest) - 1]
        /\ \A j, k \in rest : place[j] = place[k] => j = k
        /\ Cardinality(rest) \in Nat /\ Cardinality(rest) <= Cardinality(Items)
        /\ Cardinality(Items) \in Nat
    BY <1>1, <1>2, ItemSets DEF Arrangements
  <1>6. cards[i] = NoCard /\ cards = [j \in Items |-> cards[j]]
    <2>1. cards = [j \in Items |-> cards[j]]
      BY DEF cards
    <2>2. closed(place)[i] = NoCard
      BY <1>2
    <2> QED BY <2>1, <2>2 DEF cards
  <1>7. \A j \in rest : /\ cards[j].column = "TO_DO" /\ cards[j].order = place[j]
                        /\ cards[j] \in Card
    <2> SUFFICES ASSUME NEW j \in rest
                 PROVE  /\ cards[j].column = "TO_DO" /\ cards[j].order = place[j]
                        /\ cards[j] \in Card
      OBVIOUS
    <2>1. cards[j] = [board[s][j] EXCEPT !.order = place[j]]
      BY <1>1, <1>2 DEF cards
    <2>2. board[s][j] \in Card /\ board[s][j].column = "TO_DO"
      BY <1>1, <1>2, OnBoard DEF Column
    <2>3. place[j] \in 0 .. Cardinality(Items) - 1
      BY <1>5
    <2> QED BY <2>1, <2>2, <2>3 DEF Card
  <1>8. \A j \in Items \ Cards(s) : cards[j] = NoCard
    BY <1>1, <1>2 DEF cards, Cards
  <1>9. TypeOK'
    <2>1. cards \in [Items -> Card \cup {NoCard}]
      BY <1>1, <1>2, <1>6, <1>7, <1>8
    <2>2. board' \in [Sprints -> [Items -> Card \cup {NoCard}]]
      BY <1>3, <2>1 DEF TypeOK, cards
    <2> QED BY <1>1, <1>2, <2>2, WriteEffect, Releases DEF TypeOK
  <1>10. /\ Cards(s)' = rest /\ Column(s, "TO_DO")' = rest
         /\ \A c \in Columns \ {"TO_DO"} : Column(s, c)' = {}
    <2>1. Cards(s)' = rest
      BY <1>1, <1>2, <1>4, <1>6, <1>7, <1>8, CardShape DEF Cards
    <2>2. \A c \in Columns : Column(s, c)' = {j \in Items : cards[j].column = c}
      BY <1>4 DEF Column
    <2>3. \A j \in Items \ rest, c \in Columns : cards[j].column # c
      BY <1>2, <1>6, <1>8, CardShape
    <2> QED BY <1>1, <1>2, <1>7, <2>1, <2>2, <2>3, BoardAssumption
  <1>11. Drafts'
    <2>1. \A r \in Sprints : \A j \in Cards(r)' : backlog'[j] # "ABSENT"
      <3>1. \A r \in Sprints : Cards(r)' \subseteq Cards(r)
        BY <1>2, <1>4, <1>10
      <3> QED BY <1>1, <1>2, <3>1, Releases, OnBoard DEF Drafts
    <2>2. \A j \in Cards(s)' : board'[s][j].column = "TO_DO"
      BY <1>4, <1>7, <1>10
    <2>3. \A r \in Sprints \ {s} :
             /\ status[r] = "ABSENT" => Cards(r)' = {}
             /\ status[r] = "PLANNING" => \A j \in Cards(r)' : board'[r][j].column = "TO_DO"
      BY <1>4 DEF Drafts
    <2> QED BY <1>1, <2>1, <2>2, <2>3 DEF Drafts
  <1>12. Engaged' /\ OneOpenSprint'
    <2>1. \A r \in Open : Cards(r)' \subseteq Cards(r) /\ r \in Sprints
      BY <1>2, <1>4, <1>10 DEF Open
    <2>2. OneOpenSprint'
      BY <1>1, <1>2, <1>4, <2>1 DEF OneOpenSprint
    <2>3. ASSUME NEW j \in Items \ loosened, NEW r \in Open, j \in Cards(r)'
          PROVE  j # i /\ j \in HeldOpen
      <3>1. j \in Cards(r)
        BY <2>1, <2>3
      <3>2. CASE j = i
        BY <1>1, <1>2, <1>4, <1>10, <2>3, <3>1, <3>2 DEF OneOpenSprint
      <3> QED BY <3>1, <3>2 DEF HeldOpen
    <2>4. Engaged'
      <3> SUFFICES ASSUME NEW j \in Items, j \notin loosened, NEW r \in Open, j \in Cards(r)'
                   PROVE  backlog'[j] \in {"SELECTED_FOR_SPRINT", "ARCHIVED"}
        BY <1>1, <1>4 DEF Engaged, HeldOpen
      <3> QED BY <1>1, <2>3, Releases DEF Engaged
    <2> QED BY <2>2, <2>4
  <1>13. SelectedIsHeld' /\ OneActiveSprint'
    <2>1. \A r \in Sprints \ {s} : Cards(r)' = Cards(r)
      BY <1>4
    <2>2. OneActiveSprint'
      BY <1>1, <1>2, <2>1 DEF OneActiveSprint
    <2>3. SelectedIsHeld'
      <3> SUFFICES ASSUME NEW j \in Items, backlog'[j] = "SELECTED_FOR_SPRINT"
                   PROVE  \E r \in Sprints : status[r] \in {"PLANNING", "ACTIVE", "COMPLETED"} /\ j \in Cards(r)'
        BY <1>1 DEF SelectedIsHeld
      <3>1. j # i /\ backlog[j] = "SELECTED_FOR_SPRINT"
        BY <1>1, Releases
      <3>2. \A r \in Sprints : j \in Cards(r) => j \in Cards(r)'
        BY <1>2, <1>10, <2>1, <3>1
      <3> QED BY <3>1, <3>2 DEF SelectedIsHeld
    <2> QED BY <2>2, <2>3
  <1>14. ColumnPlaces'
    <2>1. {place[j] : j \in rest} = 0 .. Cardinality(rest) - 1
      <3>1. place \in [rest -> 0 .. 0 + Cardinality(rest) - 1] /\ rest \in SUBSET Items
        BY <1>1, <1>2, <1>5
      <3>2. {place[j] : j \in rest} = 0 .. 0 + Cardinality(rest) - 1
        BY <1>5, <3>1, AllPositions
      <3> QED BY <1>5, <3>2
    <2>2. {cards[j].order : j \in rest} = 0 .. Cardinality(rest) - 1
      BY <1>7, <2>1
    <2>3. {board'[s][j].order : j \in Cards(s)'} = 0 .. Cardinality(Column(s, "TO_DO")') - 1
      <3> DEFINE F(f, C) == {f[j].order : j \in C}
      <3>1. F(board'[s], Cards(s)') = F(cards, rest)
        BY <1>2, <1>4, <1>10
      <3>2. F(cards, rest) = 0 .. Cardinality(Column(s, "TO_DO")') - 1
        BY <1>5, <1>10, <2>2
      <3>3. {board'[s][j].order : j \in Cards(s)'} = F(board'[s], Cards(s)')
        OBVIOUS
      <3> HIDE DEF F
      <3> QED BY <3>1, <3>2, <3>3
    <2>4. \A r \in Sprints : status'[r] = "PLANNING" =>
             {board'[r][j].order : j \in Cards(r)'} = 0 .. Cardinality(Column(r, "TO_DO")') - 1
      BY <1>1, <1>2, <1>4, <2>3, BoardAssumption DEF ColumnPlaces
    <2>5. \A j, k \in rest : cards[j].order = cards[k].order => j = k
      BY <1>2, <1>5, <1>7
    <2>6. \A r \in Sprints, c \in Columns : <<r, c>> \notin crossed' =>
             \A j, k \in Column(r, c)' : board'[r][j].order = board'[r][k].order => j = k
      <3> SUFFICES ASSUME NEW r \in Sprints, NEW c \in Columns, <<r, c>> \notin crossed,
                          NEW j \in Column(r, c)', NEW k \in Column(r, c)',
                          board'[r][j].order = board'[r][k].order
                   PROVE  j = k
        BY <1>1, <1>2
      <3>1. CASE r # s
        BY <1>4, <3>1 DEF ColumnPlaces
      <3>2. CASE r = s
        BY <1>2, <1>4, <1>10, <2>5, <3>2
      <3> QED BY <3>1, <3>2
    <2> QED BY <2>4, <2>6 DEF ColumnPlaces
  <1> QED BY <1>4, <1>9, <1>11, <1>12, <1>13, <1>14

----------------------------------------------------------------------------
(* Start and end of a sprint                                               *)

\* Steps that keep the boards and put no sprint into planning.
LEMMA StatusFrame ==
    ASSUME SprintInv, UNCHANGED <<board, crossed>>,
           status' \in [Sprints -> SprintStatus],
           \A s \in Sprints : /\ status'[s] \in {"ABSENT", "PLANNING"} => status'[s] = status[s]
                              /\ status[s] \in Left => status'[s] \in Left,
           txn' \in [Workers -> Txn],
           \A v \in Workers : txn'[v].op = "move" => txn'[v] = txn[v]
    PROVE  /\ Moves' /\ Fitting' /\ ColumnPlaces'
           /\ \A s \in Sprints : Cards(s)' = Cards(s)
  <1>1. \A s \in Sprints : Cards(s)' = Cards(s) /\ \A c \in Columns : Column(s, c)' = Column(s, c)
    BY DEF Cards, Column
  <1>2. Moves' /\ Fitting'
    BY MovesKept DEF SprintInv
  <1>3. ColumnPlaces'
    BY <1>1, BoardAssumption DEF SprintInv, ColumnPlaces
  <1> QED BY <1>1, <1>2, <1>3

LEMMA BeginStartInv ==
    ASSUME SprintInv, NEW w \in Workers, NEW s \in Sprints, BeginStart(w, s)
    PROVE  SprintInv'
  <1> USE DEF SprintInv
  <1> DEFINE t == [op |-> "start", sprint |-> s, stale |-> FALSE]
  <1>1. /\ UNCHANGED <<backlog, status, board, crossed, loosened, used>>
        /\ txn' = [txn EXCEPT ![w] = t] /\ status[s] = "PLANNING" /\ Cards(s) # {}
    BY DEF BeginStart
  <1>2. t \in Txn /\ t.op = "start"
    BY TxnKinds DEF StartTxn
  <1>3. txn' \in [Workers -> Txn] /\ \A v \in Workers : txn'[v] = IF v = w THEN t ELSE txn[v]
    BY <1>1, <1>2 DEF TypeOK
  <1>4. TypeOK'
    BY <1>1, <1>3 DEF TypeOK
  <1>5. Moves' /\ Fitting' /\ ColumnPlaces' /\ \A r \in Sprints : Cards(r)' = Cards(r)
    BY <1>1, <1>2, <1>3, StatusFrame DEF TypeOK
  <1>6. Starts'
    <2> SUFFICES ASSUME NEW v \in Workers, txn'[v].op = "start", ~txn'[v].stale
                 PROVE  (status[txn[v].sprint] = "PLANNING" /\ Cards(txn[v].sprint) # {})'
      BY DEF Starts
    <2>1. CASE v = w
      BY <1>1, <1>3, <1>5, <2>1
    <2>2. CASE v # w
      BY <1>1, <1>3, <1>5, <2>2, TxnKinds DEF Starts, Cards
    <2> QED BY <2>1, <2>2
  <1>7. Drafts' /\ Engaged' /\ OneActiveSprint' /\ SelectedIsHeld' /\ OneOpenSprint'
    BY <1>1, <1>5 DEF Drafts, Engaged, OneActiveSprint, SelectedIsHeld, OneOpenSprint,
                      Open, HeldOpen, Cards
  <1> QED BY <1>4, <1>5, <1>6, <1>7

LEMMA CommitStartInv ==
    ASSUME SprintInv, NEW w \in Workers, CommitStart(w)
    PROVE  SprintInv'
  <1> USE DEF SprintInv
  <1> DEFINE s == txn[w].sprint
  <1>1. /\ UNCHANGED <<backlog, board, crossed, loosened, used>>
        /\ txn[w].op = "start" /\ ~txn[w].stale /\ IndexFree(s)
        /\ status' = [status EXCEPT ![s] = "ACTIVE"]
        /\ txn' = [v \in Workers |->
                 CASE v = w -> Free
                   [] v # w /\ txn[v].op = "start" /\ txn[v].sprint = s
                        -> [txn[v] EXCEPT !.stale = TRUE]
                   [] OTHER -> txn[v]]
    BY DEF CommitStart
  <1>2. s \in Sprints /\ status[s] = "PLANNING" /\ Cards(s) # {}
    BY <1>1, TxnKinds DEF TypeOK, StartTxn, Starts
  <1>3. \A v \in Workers :
            /\ txn'[v] \in Txn
            /\ txn'[v].op = "move" => txn'[v] = txn[v]
            /\ txn'[v].op = "start" /\ ~txn'[v].stale => txn'[v] = txn[v] /\ txn[v].sprint # s
    <2> SUFFICES ASSUME NEW v \in Workers
                 PROVE  /\ txn'[v] \in Txn
                        /\ txn'[v].op = "move" => txn'[v] = txn[v]
                        /\ txn'[v].op = "start" /\ ~txn'[v].stale =>
                              txn'[v] = txn[v] /\ txn[v].sprint # s
      OBVIOUS
    <2>1. CASE v = w
      <3>1. txn'[v] = Free
        BY <1>1, <2>1
      <3> QED BY <3>1 DEF Free, Txn
    <2>2. CASE v # w /\ txn[v].op = "start" /\ txn[v].sprint = s
      <3>1. txn'[v] = [txn[v] EXCEPT !.stale = TRUE]
        BY <1>1, <2>2
      <3>2. txn[v] \in StartTxn
        BY <2>2, TxnKinds DEF TypeOK
      <3>3. txn'[v].op = "start" /\ txn'[v].stale
        BY <3>1, <3>2 DEF StartTxn
      <3> QED BY <2>2, <3>1, <3>3, StampedStart DEF TypeOK
    <2>3. CASE v # w /\ ~(txn[v].op = "start" /\ txn[v].sprint = s)
      <3>1. txn'[v] = txn[v]
        BY <1>1, <2>3
      <3> QED BY <2>3, <3>1 DEF TypeOK
    <2> QED BY <2>1, <2>2, <2>3
  <1>4. txn' \in [Workers -> Txn]
    BY <1>1, <1>3
  <1>5. status' \in [Sprints -> SprintStatus]
        /\ \A r \in Sprints : status'[r] = IF r = s THEN "ACTIVE" ELSE status[r]
    BY <1>1, <1>2 DEF TypeOK, SprintStatus
  <1>6. TypeOK'
    BY <1>1, <1>4, <1>5 DEF TypeOK
  <1>7. Moves' /\ Fitting' /\ ColumnPlaces' /\ \A r \in Sprints : Cards(r)' = Cards(r)
    BY <1>1, <1>2, <1>3, <1>4, <1>5, StatusFrame DEF Left
  <1>8. Starts'
    <2> SUFFICES ASSUME NEW v \in Workers, txn'[v].op = "start", ~txn'[v].stale
                 PROVE  (status[txn[v].sprint] = "PLANNING" /\ Cards(txn[v].sprint) # {})'
      BY DEF Starts
    <2>1. txn'[v] = txn[v] /\ txn[v].sprint \in Sprints \ {s}
      BY <1>3, TxnKinds DEF TypeOK, StartTxn
    <2> QED BY <1>1, <1>5, <1>7, <2>1 DEF Starts, Cards
  <1>9. Open' = Open
    BY <1>2, <1>5 DEF Open
  <1>10. Drafts' /\ Engaged' /\ SelectedIsHeld' /\ OneOpenSprint'
    <2>1. HeldOpen' = HeldOpen
      BY <1>7, <1>9 DEF HeldOpen, Open
    <2>2. Drafts'
      BY <1>1, <1>5, <1>7 DEF Drafts
    <2>3. SelectedIsHeld'
      BY <1>1, <1>2, <1>5, <1>7 DEF SelectedIsHeld
    <2>4. OneOpenSprint'
      BY <1>1, <1>7, <1>9 DEF OneOpenSprint, Open
    <2> QED BY <1>1, <2>1, <2>2, <2>3, <2>4 DEF Engaged
  <1>11. OneActiveSprint'
    BY <1>1, <1>2, <1>5, <1>7 DEF OneActiveSprint, IndexFree
  <1> QED BY <1>6, <1>7, <1>8, <1>10, <1>11

LEMMA CompleteSprintInv ==
    ASSUME SprintInv, NEW s \in Sprints, CompleteSprint(s)
    PROVE  SprintInv'
  <1> USE DEF SprintInv
  <1>1. /\ UNCHANGED <<backlog, board, crossed, loosened, used>> /\ WritesSprint(s)
        /\ status[s] = "ACTIVE" /\ status' = [status EXCEPT ![s] = "COMPLETED"]
    BY DEF CompleteSprint
  <1>2. status' \in [Sprints -> SprintStatus]
        /\ \A r \in Sprints : status'[r] = IF r = s THEN "COMPLETED" ELSE status[r]
    BY <1>1 DEF TypeOK, SprintStatus
  <1>3. TypeOK'
    BY <1>1, <1>2, WriteEffect DEF TypeOK
  <1>4. Moves' /\ Fitting' /\ ColumnPlaces' /\ \A r \in Sprints : Cards(r)' = Cards(r)
    BY <1>1, <1>2, WriteEffect, StatusFrame DEF Left
  <1>5. Starts'
    <2> SUFFICES ASSUME NEW v \in Workers, txn'[v].op = "start", ~txn'[v].stale
                 PROVE  (status[txn[v].sprint] = "PLANNING" /\ Cards(txn[v].sprint) # {})'
      BY DEF Starts
    <2>1. txn'[v] = txn[v] /\ txn[v].sprint \in Sprints \ {s}
      BY <1>1, WriteEffect, TxnKinds DEF TypeOK, StartTxn
    <2> QED BY <1>1, <1>2, <1>4, <2>1 DEF Starts, Cards
  <1>6. Open' = Open \ {s}
    BY <1>2 DEF Open
  <1>7. Drafts' /\ OneActiveSprint'
    BY <1>1, <1>2, <1>4 DEF Drafts, OneActiveSprint
  <1>8. SelectedIsHeld'
    BY <1>1, <1>2, <1>4 DEF SelectedIsHeld
  <1>9. Engaged' /\ OneOpenSprint'
    <2>1. HeldOpen' \subseteq HeldOpen
      BY <1>4, <1>6 DEF HeldOpen, Open
    <2> QED BY <1>1, <1>4, <1>6, <2>1 DEF Engaged, OneOpenSprint, Open
  <1> QED BY <1>3, <1>4, <1>5, <1>7, <1>8, <1>9

LEMMA CancelSprintInv ==
    ASSUME SprintInv, NEW s \in Sprints, CancelSprint(s)
    PROVE  SprintInv'
  <1> USE DEF SprintInv
  <1>1. /\ UNCHANGED <<board, crossed, used>> /\ WritesSprint(s)
        /\ status[s] \in {"PLANNING", "ACTIVE", "CANCELLED"}
        /\ status' = [status EXCEPT ![s] = "CANCELLED"]
        /\ backlog' = Released(Cards(s)) /\ Cards(s) \subseteq Items
        /\ loosened \subseteq loosened' /\ loosened' \subseteq Items
        /\ status[s] = "CANCELLED" => Cards(s) \cap HeldOpen \subseteq loosened'
    BY OnBoard DEF CancelSprint, TypeOK
  <1>2. status' \in [Sprints -> SprintStatus]
        /\ \A r \in Sprints : status'[r] = IF r = s THEN "CANCELLED" ELSE status[r]
    BY <1>1 DEF TypeOK, SprintStatus
  <1>3. TypeOK'
    BY <1>1, <1>2, WriteEffect, Releases DEF TypeOK
  <1>4. Moves' /\ Fitting' /\ ColumnPlaces' /\ \A r \in Sprints : Cards(r)' = Cards(r)
    BY <1>1, <1>2, WriteEffect, StatusFrame DEF Left
  <1>5. Starts'
    <2> SUFFICES ASSUME NEW v \in Workers, txn'[v].op = "start", ~txn'[v].stale
                 PROVE  (status[txn[v].sprint] = "PLANNING" /\ Cards(txn[v].sprint) # {})'
      BY DEF Starts
    <2>1. txn'[v] = txn[v] /\ txn[v].sprint \in Sprints \ {s}
      BY <1>1, WriteEffect, TxnKinds DEF TypeOK, StartTxn
    <2> QED BY <1>1, <1>2, <1>4, <2>1 DEF Starts, Cards
  <1>6. Open' = Open \ {s}
    BY <1>2 DEF Open
  <1>7. Drafts' /\ OneActiveSprint'
    BY <1>1, <1>2, <1>4, Releases, OnBoard DEF Drafts, OneActiveSprint
  <1>8. SelectedIsHeld'
    BY <1>1, <1>2, <1>4, Releases DEF SelectedIsHeld
  <1>9. OneOpenSprint'
    BY <1>1, <1>4, <1>6 DEF OneOpenSprint, Open
  <1>10. Engaged'
    <2> SUFFICES ASSUME NEW j \in Items, j \notin loosened', NEW r \in Open \ {s}, j \in Cards(r)
                 PROVE  backlog'[j] \in {"SELECTED_FOR_SPRINT", "ARCHIVED"}
      BY <1>4, <1>6 DEF Engaged, HeldOpen, Open
    <2>1. j \in HeldOpen \ loosened /\ r \in Open
      BY <1>1 DEF HeldOpen
    <2>2. j \notin Cards(s)
      <3>1. CASE status[s] = "CANCELLED"
        BY <1>1, <2>1, <3>1
      <3>2. CASE status[s] # "CANCELLED"
        BY <1>1, <2>1, <3>2 DEF OneOpenSprint, Open
      <3> QED BY <3>1, <3>2
    <2> QED BY <1>1, <2>1, <2>2, Releases DEF Engaged
  <1> QED BY <1>3, <1>4, <1>5, <1>7, <1>8, <1>9, <1>10

----------------------------------------------------------------------------
(* Board moves                                                             *)

\* A move alone in its column leaves no two of its cards at one place, and no card
\* behind the last place there is.
LEMMA NormalizeFits ==
    ASSUME SprintInv, NEW s \in Sprints, NEW i \in Cards(s), NEW c \in Columns, NEW order \in Nat,
           NEW writes \in NormalizeColumn(s, i, c, order)
    PROVE  /\ \E S \in SUBSET Items : writes \in [S -> 0 .. Cardinality(Items) - 1]
           /\ DOMAIN writes \subseteq Cards(s)
           /\ Fits(s, c, writes)
  <1> DEFINE others == Column(s, c) \ {i}
             m      == Cardinality(others)
             target == IF order < m THEN order ELSE m
             shift(place, j) == IF place[j] < target THEN place[j] ELSE place[j] + 1
             moved(place)    == {j \in others : board[s][j].order # shift(place, j)}
             written(place)  == [j \in moved(place) \cup {i} |->
                                    IF j = i THEN target ELSE shift(place, j)]
  <1>1. PICK place \in Arrangements(s, others) : writes = written(place)
    BY DEF NormalizeColumn
  <1>2. others \subseteq Cards(s) /\ i \notin others /\ Cards(s) \subseteq Items
    BY OnBoard DEF SprintInv
  <1>3. m \in Nat /\ m + 1 <= Cardinality(Items) /\ Cardinality(Items) \in Nat
    <2>1. IsFiniteSet(others) /\ m \in Nat
      BY <1>2, ItemSets
    <2>2. Cardinality(others \cup {i}) = m + 1
      BY <1>2, <2>1, FS_AddElement
    <2>3. Cardinality(others \cup {i}) <= Cardinality(Items)
      BY <1>2, ItemSets
    <2> QED BY <2>1, <2>2, <2>3, ItemSets
  <1>4. /\ place \in [others -> 0 .. m - 1]
        /\ \A j, k \in others : place[j] = place[k] => j = k
    BY DEF Arrangements
  <1> HIDE DEF others, m
  <1>5. target \in 0 .. m
    BY <1>3
  <1> HIDE DEF target
  <1>6. \A j \in others : shift(place, j) \in 0 .. m /\ shift(place, j) # target
    BY <1>3, <1>4, <1>5
  <1>7. \A j, k \in others : shift(place, j) = shift(place, k) => j = k
    <2> SUFFICES ASSUME NEW j \in others, NEW k \in others, shift(place, j) = shift(place, k)
                 PROVE  j = k
      OBVIOUS
    <2>1. place[j] \in Nat /\ place[k] \in Nat
      BY <1>3, <1>4
    <2>2. place[j] = place[k]
      BY <1>5, <1>3, <2>1
    <2> QED BY <1>4, <2>2
  <1> HIDE DEF shift
  <1>8. /\ DOMAIN writes = moved(place) \cup {i} /\ writes[i] = target
        /\ \A j \in moved(place) : writes[j] = shift(place, j)
    BY <1>1, <1>2
  <1>9. writes \in [moved(place) \cup {i} -> 0 .. Cardinality(Items) - 1]
    <2>1. \A j \in moved(place) \cup {i} : writes[j] \in 0 .. Cardinality(Items) - 1
      BY <1>3, <1>5, <1>6, <1>8
    <2> QED BY <1>1, <2>1
  <1>10. \A j \in others : Placed(s, writes, j) = shift(place, j)
    BY <1>2, <1>8 DEF Placed
  <1>11. Placed(s, writes, i) = target
    BY <1>8 DEF Placed
  <1>12. Column(s, c) \cup DOMAIN writes \subseteq others \cup {i}
    BY <1>8 DEF others
  <1>13. Fits(s, c, writes)
    BY <1>6, <1>7, <1>10, <1>11, <1>12 DEF Fits
  <1>14. moved(place) \cup {i} \subseteq Cards(s)
    BY <1>2
  <1> QED BY <1>2, <1>8, <1>9, <1>13, <1>14

LEMMA BeginMoveInv ==
    ASSUME SprintInv, NEW w \in Workers, NEW s \in Sprints, NEW i \in Items, NEW c \in Columns,
           NEW order \in 0 .. MaxOrder, BeginMove(w, s, i, c, order)
    PROVE  SprintInv'
  <1> USE DEF SprintInv
  <1> DEFINE t(writes) == [op |-> "move", sprint |-> s, column |-> c, item |-> i,
                           writes |-> writes, stale |-> FALSE, overlaid |-> FALSE]
  <1>1. PICK writes \in NormalizeColumn(s, i, c, order) : txn' = [txn EXCEPT ![w] = t(writes)]
    BY DEF BeginMove
  <1>2. /\ UNCHANGED <<backlog, status, board, crossed, loosened>>
        /\ status[s] = "ACTIVE" /\ i \in Cards(s)
        /\ used.moves < MaxMoves /\ used' = [used EXCEPT !.moves = @ + 1]
    BY DEF BeginMove, Movable
  <1>3. order \in Nat
    BY BoardAssumption
  <1>4. /\ \E S \in SUBSET Items : writes \in [S -> 0 .. Cardinality(Items) - 1]
        /\ DOMAIN writes \subseteq Cards(s)
        /\ Fits(s, c, writes)
    BY <1>2, <1>3, NormalizeFits
  <1>5. t(writes) \in Txn /\ t(writes).op = "move"
    BY <1>4, TxnKinds DEF MoveTxn
  <1>6. txn' \in [Workers -> Txn] /\ \A v \in Workers : txn'[v] = IF v = w THEN t(writes) ELSE txn[v]
    BY <1>1, <1>5 DEF TypeOK
  <1>7. TypeOK'
    BY <1>2, <1>6, BoardAssumption DEF TypeOK
  <1>8. \A r \in Sprints : Cards(r)' = Cards(r) /\ \A d \in Columns : Column(r, d)' = Column(r, d)
    BY <1>2 DEF Cards, Column
  <1>9. Moves' /\ Fitting'
    <2> SUFFICES ASSUME NEW v \in Workers, txn'[v].op = "move"
                 PROVE  (/\ status[txn[v].sprint] \in Left
                         /\ DOMAIN txn[v].writes \subseteq Cards(txn[v].sprint)
                         /\ ~txn[v].stale /\ ~txn[v].overlaid =>
                              Fits(txn[v].sprint, txn[v].column, txn[v].writes))'
      BY DEF Moves, Fitting
    <2>1. CASE v = w
      BY <1>2, <1>4, <1>6, <2>1 DEF Cards, Column, Fits, Placed, Left
    <2>2. CASE v # w
      <3>1. txn'[v] = txn[v]
        BY <1>6, <2>2
      <3>2. /\ status[txn[v].sprint] \in Left
            /\ DOMAIN txn[v].writes \subseteq Cards(txn[v].sprint)
            /\ ~txn[v].stale /\ ~txn[v].overlaid =>
                  Fits(txn[v].sprint, txn[v].column, txn[v].writes)
        BY <3>1 DEF Moves, Fitting
      <3> QED BY <1>2, <3>1, <3>2 DEF Cards, Column, Fits, Placed
    <2> QED BY <2>1, <2>2
  <1>10. Starts'
    BY <1>2, <1>5, <1>6 DEF Starts, Cards
  <1>11. Drafts' /\ Engaged' /\ OneActiveSprint' /\ SelectedIsHeld' /\ OneOpenSprint' /\ ColumnPlaces'
    <2>1. Open' = Open /\ HeldOpen' = HeldOpen
      BY <1>2, <1>8 DEF Open, HeldOpen
    <2>2. Drafts' /\ OneActiveSprint' /\ SelectedIsHeld'
      BY <1>2, <1>8 DEF Drafts, OneActiveSprint, SelectedIsHeld
    <2>3. Engaged' /\ OneOpenSprint'
      BY <1>2, <1>8, <2>1 DEF Engaged, OneOpenSprint, Open
    <2>4. ColumnPlaces'
      BY <1>2, <1>8, BoardAssumption DEF ColumnPlaces
    <2> QED BY <2>2, <2>3, <2>4
  <1> QED BY <1>7, <1>9, <1>10, <1>11

LEMMA CommitMoveInv ==
    ASSUME SprintInv, NEW w \in Workers, CommitMove(w)
    PROVE  SprintInv'
  <1> USE DEF SprintInv
  <1>0. PICK t \in MoveTxn : txn[w] = t /\ t.op = "move"
    BY TxnKinds DEF CommitMove, TypeOK
  <1> DEFINE s == t.sprint
             c == t.column
             written == DOMAIN t.writes
  <1>1. /\ UNCHANGED <<backlog, status, loosened, used>>
        /\ t.op = "move" /\ ~t.stale
        /\ board' = [board EXCEPT ![s] =
                 [j \in Items |-> IF j \in written THEN [column |-> c, order |-> t.writes[j]]
                                  ELSE board[s][j]]]
        /\ crossed' = IF t.overlaid THEN crossed \cup {<<s, c>>} ELSE crossed \ {<<s, c>>}
        /\ txn' = [v \in Workers |->
                 CASE v = w -> Free
                   [] v # w /\ txn[v].op = "move" /\ txn[v].sprint = s
                        -> [txn[v] EXCEPT
                              !.stale = @ \/ written \cap DOMAIN txn[v].writes # {},
                              !.overlaid = @ \/ txn[v].column = c]
                   [] OTHER -> txn[v]]
    BY <1>0 DEF CommitMove
  <1>2. /\ s \in Sprints /\ c \in Columns
        /\ status[s] \in Left /\ written \subseteq Cards(s) /\ Cards(s) \subseteq Items
        /\ \A j \in written : t.writes[j] \in 0 .. Cardinality(Items) - 1
        /\ ~t.overlaid => Fits(s, c, t.writes)
    <2>2. \E S \in SUBSET Items : t.writes \in [S -> 0 .. Cardinality(Items) - 1]
      BY DEF MoveTxn
    <2>3. \A j \in written : t.writes[j] \in 0 .. Cardinality(Items) - 1
      BY <2>2
    <2>4. s \in Sprints /\ c \in Columns
      BY DEF MoveTxn
    <2> QED BY <1>0, <1>1, <2>3, <2>4, OnBoard DEF Moves, Fitting
  <1> DEFINE cards == [j \in Items |-> IF j \in written THEN [column |-> c, order |-> t.writes[j]]
                                       ELSE board[s][j]]
  <1>3. board'[s] = cards /\ \A r \in Sprints \ {s} : board'[r] = board[r]
    BY <1>1, <1>2 DEF TypeOK
  <1>4. \A j \in written : /\ cards[j].column = c /\ cards[j].order = t.writes[j]
                           /\ cards[j] \in Card
    <2> SUFFICES ASSUME NEW j \in written
                 PROVE  /\ cards[j].column = c /\ cards[j].order = t.writes[j]
                        /\ cards[j] \in Card
      OBVIOUS
    <2>1. cards[j] = [column |-> c, order |-> t.writes[j]]
      BY <1>2
    <2> QED BY <1>2, <2>1 DEF Card
  <1>5. \A j \in Items \ written : cards[j] = board[s][j]
    OBVIOUS
  <1>6. cards \in [Items -> Card \cup {NoCard}]
    <2>1. \A j \in Items : cards[j] \in Card \cup {NoCard}
      BY <1>2, <1>4, <1>5 DEF TypeOK
    <2> QED BY <2>1
  <1>7. board' \in [Sprints -> [Items -> Card \cup {NoCard}]]
    BY <1>1, <1>6 DEF TypeOK
  <1> HIDE DEF cards
  <1>8. \A r \in Sprints : Cards(r)' = Cards(r)
    <2>1. Cards(s)' = Cards(s)
      BY <1>2, <1>3, <1>4, <1>5, CardShape DEF Cards
    <2> QED BY <1>3, <2>1 DEF Cards
  <1>9. /\ \A d \in Columns : Column(s, d)' = IF d = c THEN Column(s, c) \cup written
                                              ELSE Column(s, d) \ written
        /\ \A r \in Sprints \ {s}, d \in Columns : Column(r, d)' = Column(r, d)
    <2>1. \A d \in Columns : Column(s, d)' = {j \in Items : cards[j].column = d}
      BY <1>3 DEF Column
    <2>2. \A j \in Items, d \in Columns :
             cards[j].column = d <=> (j \in written /\ d = c) \/ (j \notin written /\ j \in Column(s, d))
      BY <1>4, <1>5 DEF Column
    <2>3. \A d \in Columns : Column(s, d) \subseteq Items
      BY DEF Column
    <2>4. ASSUME NEW d \in Columns
          PROVE  Column(s, d)' = IF d = c THEN Column(s, c) \cup written ELSE Column(s, d) \ written
      <3>1. CASE d = c
        BY <1>2, <2>1, <2>2, <2>3, <3>1
      <3>2. CASE d # c
        BY <1>2, <2>1, <2>2, <2>3, <3>2
      <3> QED BY <3>1, <3>2
    <2> QED BY <1>3, <2>4 DEF Column
  <1>10. \A v \in Workers :
            /\ txn'[v] \in Txn
            /\ txn'[v].op = "start" => txn'[v] = txn[v]
            /\ txn'[v].op = "move" =>
                  /\ v # w /\ txn[v].op = "move" /\ txn[v] \in MoveTxn
                  /\ txn'[v].sprint = txn[v].sprint /\ txn'[v].column = txn[v].column
                  /\ txn'[v].writes = txn[v].writes
                  /\ ~txn'[v].stale => ~txn[v].stale
                  /\ ~txn'[v].overlaid => ~txn[v].overlaid
                  /\ txn[v].sprint = s /\ ~txn'[v].stale => written \cap DOMAIN txn[v].writes = {}
                  /\ txn[v].sprint = s /\ ~txn'[v].overlaid => txn[v].column # c
    <2> SUFFICES ASSUME NEW v \in Workers
                 PROVE  /\ txn'[v] \in Txn
                        /\ txn'[v].op = "start" => txn'[v] = txn[v]
                        /\ txn'[v].op = "move" =>
                            /\ v # w /\ txn[v].op = "move" /\ txn[v] \in MoveTxn
                            /\ txn'[v].sprint = txn[v].sprint /\ txn'[v].column = txn[v].column
                            /\ txn'[v].writes = txn[v].writes
                            /\ ~txn'[v].stale => ~txn[v].stale
                            /\ ~txn'[v].overlaid => ~txn[v].overlaid
                            /\ txn[v].sprint = s /\ ~txn'[v].stale => written \cap DOMAIN txn[v].writes = {}
                            /\ txn[v].sprint = s /\ ~txn'[v].overlaid => txn[v].column # c
                OBVIOUS
    <2>1. CASE v = w
      <3>1. txn'[v] = Free
        BY <1>1, <2>1
      <3>2. Free \in Txn
        BY DEF Txn
      <3> QED BY <3>1, <3>2 DEF Free
    <2>2. CASE v # w /\ txn[v].op = "move" /\ txn[v].sprint = s
      <3> DEFINE a == txn[v].stale \/ written \cap DOMAIN txn[v].writes # {}
                 b == txn[v].overlaid \/ txn[v].column = c
      <3>1. txn'[v] = [txn[v] EXCEPT !.stale = a, !.overlaid = b]
        BY <1>1, <2>2
      <3>2. txn[v] \in MoveTxn
        BY <2>2, TxnKinds DEF TypeOK
      <3>3. a \in BOOLEAN /\ b \in BOOLEAN
        BY <3>2 DEF MoveTxn
      <3>4. txn'[v] \in Txn
        <4> HIDE DEF a, b
        <4>1. txn[v] \in Txn /\ txn[v].op = "move"
          BY <2>2 DEF TypeOK
        <4> QED BY <3>1, <3>3, <4>1, StampedMove
      <3>5. /\ txn'[v].op = "move" /\ txn'[v].sprint = txn[v].sprint
            /\ txn'[v].column = txn[v].column /\ txn'[v].writes = txn[v].writes
            /\ txn'[v].stale = a /\ txn'[v].overlaid = b
        BY <2>2, <3>1, <3>2 DEF MoveTxn
      <3> QED BY <2>2, <3>2, <3>3, <3>4, <3>5
    <2>3. CASE v # w /\ ~(txn[v].op = "move" /\ txn[v].sprint = s)
      <3>1. txn'[v] = txn[v]
        BY <1>1, <2>3
      <3> QED BY <2>3, <3>1, TxnKinds DEF TypeOK
    <2> QED BY <2>1, <2>2, <2>3
  <1>11. TypeOK'
    <2>1. txn' \in [Workers -> Txn]
      BY <1>1, <1>10
    <2>2. crossed' \subseteq Sprints \X Columns
      <3>1. crossed' \subseteq crossed \cup {<<s, c>>}
        BY <1>1
      <3>2. <<s, c>> \in Sprints \X Columns
        BY <1>2
      <3> QED BY <3>1, <3>2 DEF TypeOK
    <2> QED BY <1>1, <1>7, <2>1, <2>2 DEF TypeOK
  <1>12. Starts'
    <2> SUFFICES ASSUME NEW v \in Workers, txn'[v].op = "start", ~txn'[v].stale
                 PROVE  (status[txn[v].sprint] = "PLANNING" /\ Cards(txn[v].sprint) # {})'
      BY DEF Starts
    <2>1. txn'[v] = txn[v]
      BY <1>10
    <2>2. PICK r \in Sprints : txn[v].sprint = r
      BY <2>1, TxnKinds DEF TypeOK, StartTxn
    <2>3. status[r] = "PLANNING" /\ Cards(r) # {}
      BY <2>1, <2>2 DEF Starts
    <2> QED BY <1>1, <1>8, <2>1, <2>2, <2>3
  <1>13. Drafts' /\ Engaged' /\ OneActiveSprint' /\ SelectedIsHeld' /\ OneOpenSprint'
    <2>1. Open' = Open /\ HeldOpen' = HeldOpen
      BY <1>1, <1>8 DEF Open, HeldOpen
    <2>2. Drafts'
      <3>1. \A r \in Sprints : status[r] = "PLANNING" => board'[r] = board[r]
        BY <1>2, <1>3 DEF Left
      <3>2. \A r \in Sprints : status[r] = "PLANNING" =>
               \A j \in Cards(r)' : board'[r][j].column = "TO_DO"
        BY <1>8, <3>1 DEF Drafts
      <3>3. \A r \in Sprints : (status[r] = "ABSENT" => Cards(r)' = {})
                                /\ \A j \in Cards(r)' : backlog[j] # "ABSENT"
        BY <1>8 DEF Drafts
      <3> QED BY <1>1, <3>2, <3>3 DEF Drafts
    <2>3. Engaged' /\ OneOpenSprint'
      BY <1>1, <1>8, <2>1 DEF Engaged, OneOpenSprint, Open
    <2> QED BY <1>1, <1>8, <2>2, <2>3 DEF OneActiveSprint, SelectedIsHeld
  <1>14. ColumnPlaces'
    <2>1. \A r \in Sprints : status'[r] = "PLANNING" => r # s
      BY <1>1, <1>2 DEF Left
    <2>2. \A r \in Sprints : status'[r] = "PLANNING" =>
             {board'[r][j].order : j \in Cards(r)'} = 0 .. Cardinality(Column(r, "TO_DO")') - 1
      <3> SUFFICES ASSUME NEW r \in Sprints, status[r] = "PLANNING"
                   PROVE  {board'[r][j].order : j \in Cards(r)'}
                             = 0 .. Cardinality(Column(r, "TO_DO")') - 1
        BY <1>1
      <3>1. /\ board'[r] = board[r] /\ Cards(r)' = Cards(r)
            /\ Column(r, "TO_DO")' = Column(r, "TO_DO")
        BY <1>1, <1>3, <1>8, <1>9, <2>1, BoardAssumption
      <3> QED BY <3>1 DEF ColumnPlaces
    <2>3. ASSUME NEW d \in Columns, <<s, d>> \notin crossed',
                 NEW j \in Column(s, d)', NEW k \in Column(s, d)', cards[j].order = cards[k].order
          PROVE  j = k
      <3>1. CASE d = c
        <4>1. Fits(s, c, t.writes)
          BY <1>1, <1>2, <2>3, <3>1
        <4>2. j \in Column(s, c) \cup written /\ k \in Column(s, c) \cup written
          BY <1>9, <2>3, <3>1
        <4>3. \A l \in Column(s, c) \cup written : cards[l].order = Placed(s, t.writes, l)
          BY <1>2, <1>4, <1>5 DEF Placed, Column
        <4> QED BY <2>3, <4>1, <4>2, <4>3 DEF Fits
      <3>2. CASE d # c
        <4>1. <<s, d>> \notin crossed
          BY <1>1, <2>3, <3>2
        <4>2. j \in Column(s, d) \ written /\ k \in Column(s, d) \ written
          BY <1>9, <2>3, <3>2
        <4>3. cards[j] = board[s][j] /\ cards[k] = board[s][k]
          BY <1>5, <4>2 DEF Column
        <4> QED BY <1>2, <2>3, <4>1, <4>2, <4>3 DEF ColumnPlaces
      <3> QED BY <3>1, <3>2
    <2>4. \A r \in Sprints, d \in Columns : <<r, d>> \notin crossed' =>
             \A j, k \in Column(r, d)' : board'[r][j].order = board'[r][k].order => j = k
      <3> SUFFICES ASSUME NEW r \in Sprints, NEW d \in Columns, <<r, d>> \notin crossed',
                          NEW j \in Column(r, d)', NEW k \in Column(r, d)',
                          board'[r][j].order = board'[r][k].order
                   PROVE  j = k
        OBVIOUS
      <3>1. CASE r # s
        <4>1. <<r, d>> \notin crossed
          BY <1>1, <3>1
        <4> QED BY <1>3, <1>9, <3>1, <4>1 DEF ColumnPlaces
      <3>2. CASE r = s
        BY <1>3, <2>3, <3>2
      <3> QED BY <3>1, <3>2
    <2> QED BY <2>2, <2>4 DEF ColumnPlaces
  <1>15. Moves' /\ Fitting'
    <2> SUFFICES ASSUME NEW v \in Workers, txn'[v].op = "move"
                 PROVE  (/\ status[txn[v].sprint] \in Left
                         /\ DOMAIN txn[v].writes \subseteq Cards(txn[v].sprint)
                         /\ ~txn[v].stale /\ ~txn[v].overlaid =>
                              Fits(txn[v].sprint, txn[v].column, txn[v].writes))'
      BY DEF Moves, Fitting
    <2>0. PICK u \in MoveTxn : txn[v] = u
      BY <1>10
    <2> DEFINE r == u.sprint
               d == u.column
               x == u.writes
    <2>1. /\ txn'[v].sprint = r /\ txn'[v].column = d /\ txn'[v].writes = x
          /\ r \in Sprints /\ d \in Columns /\ txn[v].op = "move"
      BY <1>10, <2>0 DEF MoveTxn
    <2>2. /\ status'[r] \in Left /\ DOMAIN x \subseteq Cards(r)
      BY <1>1, <2>0, <2>1 DEF Moves
    <2>3. ASSUME ~txn'[v].stale, ~txn'[v].overlaid,
                 NEW j \in Column(r, d)' \cup DOMAIN x, NEW k \in Column(r, d)' \cup DOMAIN x,
                 (IF j \in DOMAIN x THEN x[j] ELSE board'[r][j].order)
                    = (IF k \in DOMAIN x THEN x[k] ELSE board'[r][k].order)
          PROVE  j = k
      <3>1. Fits(r, d, x)
        BY <1>10, <2>0, <2>1, <2>3 DEF Fitting
      <3>2. CASE r # s
        BY <1>3, <1>9, <2>1, <2>3, <3>1, <3>2 DEF Fits, Placed
      <3>3. CASE r = s
        <4>1. written \cap DOMAIN x = {} /\ d # c
          BY <1>10, <2>0, <2>3, <3>3
        <4>2. Column(r, d)' = Column(r, d) \ written
          BY <1>9, <2>1, <3>3, <4>1
        <4>3. /\ j \in Column(r, d) \cup DOMAIN x /\ j \notin written
              /\ k \in Column(r, d) \cup DOMAIN x /\ k \notin written
          BY <2>3, <4>1, <4>2
        <4>4. /\ j \in Column(r, d) => board'[r][j] = board[r][j]
              /\ k \in Column(r, d) => board'[r][k] = board[r][k]
          BY <1>3, <1>5, <3>3, <4>3 DEF Column
        <4> QED BY <2>3, <3>1, <4>3, <4>4 DEF Fits, Placed
      <3> QED BY <3>2, <3>3
    <2>4. Cards(r)' = Cards(r)
      BY <1>8, <2>1
    <2>5. ~txn'[v].stale /\ ~txn'[v].overlaid => (Fits(txn[v].sprint, txn[v].column, txn[v].writes))'
      BY <2>1, <2>3 DEF Fits, Placed, Column
    <2> QED BY <2>1, <2>2, <2>4, <2>5 DEF Cards
  <1> QED BY <1>11, <1>12, <1>13, <1>14, <1>15

LEMMA AbortInv ==
    ASSUME SprintInv, NEW w \in Workers, Abort(w)
    PROVE  SprintInv'
  <1> USE DEF SprintInv
  <1>1. /\ UNCHANGED <<backlog, status, board, crossed, loosened, used>>
        /\ txn' = [txn EXCEPT ![w] = Free]
    BY DEF Abort
  <1>2. /\ txn' \in [Workers -> Txn]
        /\ \A v \in Workers : txn'[v].op # "free" => txn'[v] = txn[v]
    BY <1>1 DEF TypeOK, Txn, Free
  <1>3. TypeOK'
    BY <1>1, <1>2 DEF TypeOK
  <1>4. Moves' /\ Fitting' /\ ColumnPlaces'
    BY <1>1, <1>2, StatusFrame DEF TypeOK
  <1>5. Starts'
    BY <1>1, <1>2 DEF Starts, Cards
  <1>6. Drafts' /\ Engaged' /\ OneActiveSprint' /\ SelectedIsHeld' /\ OneOpenSprint'
    BY <1>1 DEF Drafts, Engaged, OneActiveSprint, SelectedIsHeld, OneOpenSprint, Open, HeldOpen, Cards
  <1> QED BY <1>3, <1>4, <1>5, <1>6

LEMMA NextInv ==
    ASSUME SprintInv, [Next]_vars
    PROVE  SprintInv'
  <1>1. CASE BacklogStep
    BY <1>1, CreateBacklogItemInv, UpdateBacklogItemInv, ArchiveBacklogItemInv DEF BacklogStep
  <1>2. CASE PlanningStep
    BY <1>2, CreateSprintInv, AddItemsInv, RemoveItemInv DEF PlanningStep
  <1>3. CASE SprintStep
    BY <1>3, CompleteSprintInv, CancelSprintInv, BeginStartInv, BeginMoveInv, CommitStartInv,
       CommitMoveInv, AbortInv DEF SprintStep
  <1>4. CASE UNCHANGED vars
    <2> USE <1>4 DEF vars
    <2>1. TypeOK'
      BY DEF SprintInv, TypeOK
    <2>2. Moves' /\ Fitting'
      BY MovesKept DEF SprintInv, TypeOK
    <2>3. Drafts' /\ Starts' /\ OneActiveSprint' /\ ColumnPlaces'
      BY DEF SprintInv, Drafts, Starts, OneActiveSprint, ColumnPlaces, Cards, Column
    <2>4. SelectedIsHeld' /\ OneOpenSprint' /\ Engaged'
      BY DEF SprintInv, SelectedIsHeld, OneOpenSprint, Engaged, HeldOpen, Open, Cards
    <2> QED BY <2>1, <2>2, <2>3, <2>4 DEF SprintInv
  <1> QED BY <1>1, <1>2, <1>3, <1>4 DEF Next

----------------------------------------------------------------------------
(* What the project's sprints guarantee                                    *)

\* Every state reached by the backlog, planning and sprint operations satisfies the
\* inductive invariant.
THEOREM SprintInvariant == Spec => []SprintInv
  <1>1. Init => SprintInv
    BY InitInv
  <1>2. SprintInv /\ [Next]_vars => SprintInv'
    BY NextInv
  <1> QED BY <1>1, <1>2, PTL DEF Spec

\* Documents and transactions keep their shape; in particular every position is below
\* the number of items, however many moves overlap.
THEOREM TypeCorrect == Spec => []TypeOK
  <1>1. SprintInv => TypeOK
    BY DEF SprintInv
  <1> QED BY <1>1, SprintInvariant, PTL

\* However many starts overlap, with cancellations and removals in between, one sprint
\* at most is active, and it has cards.
THEOREM OneActive == Spec => []OneActiveSprint
  <1>1. SprintInv => OneActiveSprint
    BY DEF SprintInv
  <1> QED BY <1>1, SprintInvariant, PTL

\* A selected item is always on the board of a sprint that was not cancelled.
THEOREM SelectedHeld == Spec => []SelectedIsHeld
  <1>1. SprintInv => SelectedIsHeld
    BY DEF SprintInv
  <1> QED BY <1>1, SprintInvariant, PTL

\* Two open sprints share an item only after it was freed behind the back of one.
THEOREM OneOpen == Spec => []OneOpenSprint
  <1>1. SprintInv => OneOpenSprint
    BY DEF SprintInv
  <1> QED BY <1>1, SprintInvariant, PTL

\* Positions are without gaps in planning, and without duplicates in every column that
\* no two overlapping moves entered since it was last put in order.
THEOREM PlacesKept == Spec => []ColumnPlaces
  <1>1. SprintInv => ColumnPlaces
    BY DEF SprintInv
  <1> QED BY <1>1, SprintInvariant, PTL

\* After a sprint has ended its board changes only by moves that were in progress.
THEOREM BoardsSettle == Spec => BoardSettles
  <1> DEFINE Settled(s) ==
        status[s] \in {"COMPLETED", "CANCELLED"} =>
          /\ OpenMoves(s)' \subseteq OpenMoves(s)
          /\ board'[s] # board[s] => OpenMoves(s)' # OpenMoves(s)
  <1>1. ASSUME SprintInv, [Next]_vars, NEW s \in Sprints, status[s] \in {"COMPLETED", "CANCELLED"}
        PROVE  /\ OpenMoves(s)' \subseteq OpenMoves(s)
               /\ board'[s] # board[s] => OpenMoves(s)' # OpenMoves(s)
    <2> USE DEF SprintInv
    <2>1. CASE UNCHANGED <<board, txn>>
      BY <2>1 DEF OpenMoves
    <2>2. ASSUME NEW r \in Sprints, NEW S \in SUBSET Items, AddItems(r, S)
          PROVE  board'[s] = board[s] /\ OpenMoves(s)' = OpenMoves(s)
      <3>1. r # s /\ WritesSprint(r)
        BY <1>1, <2>2 DEF AddItems
      <3>2. board'[s] = board[s]
        BY <2>2, <3>1 DEF AddItems, TypeOK
      <3>3. \A v \in Workers : (txn'[v].op = "move" \/ txn[v].op = "move") => txn'[v] = txn[v]
        BY <1>1, <3>1, WriteEffect
      <3> QED BY <3>2, <3>3 DEF OpenMoves
    <2>3. ASSUME NEW r \in Sprints, NEW i \in Items, RemoveItem(r, i)
          PROVE  board'[s] = board[s] /\ OpenMoves(s)' = OpenMoves(s)
      <3>1. r # s /\ WritesSprint(r)
        BY <1>1, <2>3 DEF RemoveItem
      <3>2. board'[s] = board[s]
        BY <2>3, <3>1 DEF RemoveItem, TypeOK
      <3>3. \A v \in Workers : (txn'[v].op = "move" \/ txn[v].op = "move") => txn'[v] = txn[v]
        BY <1>1, <3>1, WriteEffect
      <3> QED BY <3>2, <3>3 DEF OpenMoves
    <2>4. ASSUME NEW r \in Sprints, WritesSprint(r), UNCHANGED board
          PROVE  board'[s] = board[s] /\ OpenMoves(s)' = OpenMoves(s)
      <3>1. \A v \in Workers : (txn'[v].op = "move" \/ txn[v].op = "move") => txn'[v] = txn[v]
        BY <1>1, <2>4, WriteEffect
      <3> QED BY <2>4, <3>1 DEF OpenMoves
    <2>5. ASSUME NEW w \in Workers, NEW r \in Sprints, BeginStart(w, r)
          PROVE  board'[s] = board[s] /\ OpenMoves(s)' \subseteq OpenMoves(s)
      BY <1>1, <2>5 DEF BeginStart, OpenMoves, TypeOK
    <2>6. ASSUME NEW w \in Workers, NEW r \in Sprints, NEW i \in Items, NEW c \in Columns,
                 NEW order \in 0 .. MaxOrder, BeginMove(w, r, i, c, order)
          PROVE  board'[s] = board[s] /\ OpenMoves(s)' \subseteq OpenMoves(s)
      <3>1. r # s /\ UNCHANGED board
        BY <1>1, <2>6 DEF BeginMove, Movable
      <3>2. \A v \in Workers : txn'[v] = txn[v] \/ txn'[v].sprint = r
        BY <1>1, <2>6 DEF BeginMove, TypeOK
      <3> QED BY <3>1, <3>2 DEF OpenMoves
    <2>7. ASSUME NEW w \in Workers, CommitStart(w)
          PROVE  board'[s] = board[s] /\ OpenMoves(s)' \subseteq OpenMoves(s)
      <3>1. UNCHANGED board
        BY <2>7 DEF CommitStart
      <3>2. \A v \in Workers : txn'[v].op = "move" => txn'[v] = txn[v]
        <4> SUFFICES ASSUME NEW v \in Workers, txn'[v] # txn[v]
                     PROVE  txn'[v].op # "move"
          OBVIOUS
        <4>1. CASE v = w
          BY <2>7, <4>1 DEF CommitStart, Free
        <4>2. CASE v # w
          <5>1. txn[v].op = "start" /\ txn'[v] = [txn[v] EXCEPT !.stale = TRUE]
            BY <2>7, <4>2 DEF CommitStart
          <5>2. txn[v] \in StartTxn
            BY <1>1, <5>1, TxnKinds DEF TypeOK
          <5> QED BY <5>1, <5>2 DEF StartTxn
        <4> QED BY <4>1, <4>2
      <3> QED BY <3>1, <3>2 DEF OpenMoves
    <2>8. ASSUME NEW w \in Workers, CommitMove(w)
          PROVE  /\ OpenMoves(s)' \subseteq OpenMoves(s)
                 /\ board'[s] # board[s] => OpenMoves(s)' # OpenMoves(s)
      <3>1. PICK t \in MoveTxn : txn[w] = t /\ t.op = "move"
        BY <1>1, <2>8, TxnKinds DEF CommitMove, TypeOK
      <3>2. txn'[w] = Free /\ board'[s] # board[s] => t.sprint = s
        BY <1>1, <2>8, <3>1 DEF CommitMove, TypeOK
      <3>3. txn'[w].op # "move"
        <4>1. txn'[w] = Free
          BY <2>8 DEF CommitMove
        <4> QED BY <4>1 DEF Free
      <3>4. board'[s] # board[s] => w \in OpenMoves(s)
        BY <3>1, <3>2, <2>8 DEF OpenMoves, CommitMove
      <3>5. \A v \in Workers : txn'[v].op = "move" =>
               txn[v].op = "move" /\ txn'[v].sprint = txn[v].sprint
        <4> SUFFICES ASSUME NEW v \in Workers, txn'[v].op = "move", txn'[v] # txn[v]
                     PROVE  txn[v].op = "move" /\ txn'[v].sprint = txn[v].sprint
          OBVIOUS
        <4>1. v # w
          BY <3>3
        <4> DEFINE a == txn[v].stale \/ DOMAIN t.writes \cap DOMAIN txn[v].writes # {}
                   b == txn[v].overlaid \/ txn[v].column = t.column
        <4>2. txn[v].op = "move" /\ txn'[v] = [txn[v] EXCEPT !.stale = a, !.overlaid = b]
          BY <2>8, <3>1, <4>1 DEF CommitMove
        <4>3. txn[v] \in MoveTxn
          BY <1>1, <4>2, TxnKinds DEF TypeOK
        <4> QED BY <4>2, <4>3 DEF MoveTxn
      <3> QED BY <3>3, <3>4, <3>5 DEF OpenMoves
    <2>9. ASSUME NEW w \in Workers, Abort(w)
          PROVE  board'[s] = board[s] /\ OpenMoves(s)' \subseteq OpenMoves(s)
      <3>1. \A v \in Workers : txn'[v] = txn[v] \/ txn'[v].op = "free"
        BY <1>1, <2>9 DEF Abort, TypeOK, Free
      <3> QED BY <2>9, <3>1 DEF OpenMoves, Abort
    <2>10. CASE BacklogStep
      <3>1. UNCHANGED <<board, txn>>
        BY <2>10 DEF BacklogStep, CreateBacklogItem, UpdateBacklogItem, ArchiveBacklogItem
      <3> QED BY <2>1, <3>1
    <2>11. CASE PlanningStep
      <3>1. ASSUME NEW r \in Sprints, CreateSprint(r)
            PROVE  UNCHANGED <<board, txn>>
        BY <3>1 DEF CreateSprint
      <3> QED BY <2>1, <2>2, <2>3, <2>11, <3>1 DEF PlanningStep
    <2>12. CASE SprintStep
      <3>1. ASSUME NEW r \in Sprints, CompleteSprint(r) \/ CancelSprint(r)
            PROVE  WritesSprint(r) /\ UNCHANGED board
        BY <3>1 DEF CompleteSprint, CancelSprint
      <3> QED BY <2>4, <2>5, <2>6, <2>7, <2>8, <2>9, <2>12, <3>1 DEF SprintStep
    <2> QED BY <1>1, <2>1, <2>10, <2>11, <2>12 DEF Next, vars
  <1>2. SprintInv /\ [Next]_vars => [\A s \in Sprints : Settled(s)]_vars
    BY <1>1
  <1> QED BY <1>2, SprintInvariant, PTL DEF Spec, BoardSettles
=============================================================================
