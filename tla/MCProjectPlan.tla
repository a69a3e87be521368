--------------------------- MODULE MCProjectPlan ---------------------------
(* Small instances of ProjectPlan.                                           *)
EXTENDS ProjectPlan

Reference(to, key)  == [to |-> to, key |-> key]
Note                == Reference("elsewhere", "k")
Item(kind, key, to) == [formed |-> TRUE, kind |-> kind, key |-> key, refs |-> to]
Draft(slug, held)  == [formed |-> TRUE, status |-> "DRAFT", slug |-> slug, content |-> "text",
                        place |-> <<>>, refs |-> {Note}, items |-> held]
Answer(held, pages) == [generationStatus |-> "READY", items |-> held, contradictions |-> {},
                         pages |-> pages]

Assumption == Item("assumptions", "k", {Note})
Decision   == Item("decisions", "d", {Reference("assumptions", "k")})
Step(key)  == Item("checklist", "c", {Reference("assumptions", key)})

\* One that resolves; the same pages with a dangling reference of a checklist; two
\* pages of which the second, or the first, states what the other refers to; and
\* answers that are refused.
MCPayloads ==
    { Answer({Assumption}, <<Draft("a", {Step("k")})>>),
      Answer({Assumption}, <<Draft("a", {Step("x")})>>),
      Answer({}, <<Draft("a", {Assumption}), [Draft("b", {Decision}) EXCEPT !.place = <<0>>]>>),
      Answer({}, <<Draft("a", {Decision}), Draft("b", {Assumption})>>),
      Answer({Decision}, <<Draft("a", {Assumption})>>),
      Answer({Item("facts", "f", {})}, <<Draft("b", {})>>),
      [Answer({}, <<Draft("b", {})>>) EXCEPT !.generationStatus = "NEEDS_USER_INPUT"],
      [Answer({}, <<Draft("b", {})>>) EXCEPT !.contradictions = {{Note}}] }

Work(key, to, about) == [key |-> key, epic |-> to, estimate |-> about, described |-> TRUE]
Points    == [unit |-> "POINTS", value |-> 5]
Milestone == [key |-> "m", horizon |-> "h", after |-> {}]
Epic      == [key |-> "e", milestone |-> "m", after |-> {"e"}, estimate |-> Points]
Generated(p, candidates) ==
    [generationStatus |-> "READY", formed |-> TRUE, snapshot |-> Frozen(p),
     horizons |-> {"h"}, milestones |-> <<Milestone>>, epics |-> <<Epic>>,
     candidates |-> candidates]
Whole(p) == Generated(p, <<Work("c", "e", Points), Work("d", "e", Points)>>)

\* Two whole plans; one whose candidate has no key, which is accepted but never becomes
\* a backlog; and plans that are refused.
MCPlans == UNION {
    { Whole(p),
      Generated(p, <<Work("c", "e", Points), Work("c", "e", [unit |-> "T_SHIRT", value |-> "S"])>>),
      Generated(p, <<Work(Missing, "e", Points)>>),
      [Whole(p) EXCEPT !.snapshot = <<>>],
      [Whole(p) EXCEPT !.milestones = <<Milestone, Milestone>>],
      [Whole(p) EXCEPT !.milestones = <<Milestone, [Milestone EXCEPT !.key = Missing]>>],
      [Whole(p) EXCEPT !.epics = <<[Epic EXCEPT !.milestone = "x"]>>],
      [Whole(p) EXCEPT !.candidates = <<Work("c", "e", [unit |-> "POINTS", value |-> 1001])>>] }
    : p \in Pages}

Symmetries == Permutations(Pages) \cup Permutations(Managers)
=============================================================================
