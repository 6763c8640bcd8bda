--------------------------- MODULE ParentSelection ---------------------------
(***************************************************************************)
(* The selection rules of mesh/parents.py, as operators on a selection     *)
(* state and on what the node knows of its neighbours.                     *)
(*                                                                         *)
(* A selection state p holds [rank, lowest, preferred, members, version,   *)
(* behind]; the code lists the members preferred parent first, here they   *)
(* are a set.  A view maps each neighbour of the table to an entry [rank,    *)
(* version: of its last frame; fresh: heard within the silence limit;      *)
(* after: heard since the last poison or solicitation that counts, if any; *)
(* dropped: class 1 gave it up and it was not heard since; cost: link      *)
(* cost; marginOK, reachable: link tests; margin].                         *)
(***************************************************************************)
EXTENDS Integers, FiniteSets

CONSTANTS
  ROOT,              \* address of the root; addresses are naturals
  NoParent,          \* no preferred parent
  INFINITE,          \* rank of a node without route (255)
  MAX_COST,          \* highest usable path cost (254)
  MAX_LINK_COST,     \* link cost of ETX 4 (32)
  MAX_INCREASE,      \* maximum rank increase (56)
  SIZE,              \* parent set members (3)
  SWITCH_THRESHOLD,  \* path cost gain to switch (12)
  RANK_HYSTERESIS    \* change of rank worth advertising (4)

ASSUME SelectionAssumption ==
  /\ ROOT \in Nat /\ NoParent \notin Nat
  /\ INFINITE \in Nat /\ MAX_COST \in 0 .. INFINITE - 1
  /\ MAX_LINK_COST \in Nat \ {0} /\ MAX_INCREASE \in Nat
  /\ SIZE \in Nat \ {0} /\ SWITCH_THRESHOLD \in Nat /\ RANK_HYSTERESIS \in Nat \ {0}

NoCost == INFINITE + 1

Least(a, b) == IF a <= b THEN a ELSE b

Newer(v, w) == (v - w) % 16 \in 1 .. 7

\* A node that has no parent; lowest is INFINITE for none.
Unattached(version) ==
  [rank |-> INFINITE, lowest |-> INFINITE, preferred |-> NoParent, members |-> {},
   version |-> version, behind |-> FALSE]

\* bound: the highest usable path cost.
Bound(p) == Least(MAX_COST, p.lowest + MAX_INCREASE)

\* Version and rank rule: in the node's version below the lowest rank advertised,
\* or the preferred parent at any rank; across versions only the preferred parent
\* that has moved ahead.
Feasible(p, a, e) ==
  IF e.version # p.version
    THEN p.behind /\ a = p.preferred /\ e.rank # INFINITE /\ Newer(e.version, p.version)
    ELSE e.rank < p.lowest \/ a = p.preferred

\* eligible: by ETX, or by reachability for the root or when reach.
Eligible(a, e, reach) ==
  e.marginOK /\ IF reach \/ a = ROOT THEN e.reachable ELSE e.cost <= MAX_LINK_COST

\* The path cost of a feasible neighbour heard lately over an eligible link.
PathCost(p, a, e, reach, drops) ==
  LET cost == e.rank + IF reach \/ a = ROOT THEN Least(e.cost, MAX_LINK_COST) ELSE e.cost
  IN  IF \/ ~Feasible(p, a, e)
         \/ ~e.fresh
         \/ ~e.after
         \/ drops /\ e.dropped
         \/ ~Eligible(a, e, reach)
        THEN NoCost
        ELSE IF e.version # p.version THEN p.rank
        ELSE IF cost <= Bound(p) THEN cost ELSE NoCost

\* last: no neighbour but a is a candidate.
LastCandidate(p, view, a) ==
  \A m \in DOMAIN view \ {a} : PathCost(p, m, view[m], FALSE, TRUE) = NoCost

\* candidate_cost: the last candidate that is the preferred parent is judged by
\* reachability.
CandidateCost(p, view, a, drops) ==
  LET reach == /\ a = p.preferred /\ a # ROOT
               /\ Eligible(a, view[a], TRUE) # Eligible(a, view[a], FALSE)
               /\ LastCandidate(p, view, a)
  IN  PathCost(p, a, view[a], reach, drops)

\* The order of the parent set.
Better(k, l) ==
  \/ k.cost < l.cost
  \/ k.cost = l.cost /\ k.margin > l.margin
  \/ k.cost = l.cost /\ k.margin = l.margin /\ k.address < l.address

Key(p, view, a) ==
  [cost |-> CandidateCost(p, view, a, TRUE), margin |-> view[a].margin, address |-> a,
   rank |-> IF view[a].version = p.version THEN view[a].rank ELSE INFINITE]

\* The best candidates, at most SIZE of them.
Best(p, view) ==
  LET keys == {k \in {Key(p, view, a) : a \in DOMAIN view} : k.cost # NoCost}
  IN  {k \in keys : Cardinality({l \in keys : Better(l, k)}) < SIZE}

\* The preferred parent is kept unless another candidate is better by the threshold.
Chosen(p, best) ==
  LET first == CHOOSE k \in best : \A l \in best : ~Better(l, k)
      kept == {k \in best : /\ k.address = p.preferred
                            /\ k.cost - first.cost < SWITCH_THRESHOLD}
  IN  IF kept # {} THEN CHOOSE k \in kept : TRUE ELSE first

\* The advertised rank once k is chosen.
Advertised(p, k) ==
  IF \/ k.address # p.preferred
     \/ k.cost - p.rank >= RANK_HYSTERESIS \/ p.rank - k.cost >= RANK_HYSTERESIS
    THEN k.cost ELSE p.rank

\* A mutant of Selected: members are not tested against the lowest rank.
SelectedAnyRank(p, best) ==
  LET k == Chosen(p, best)
      rank == Advertised(p, k)
  IN  [p EXCEPT !.rank = rank, !.lowest = Least(p.lowest, rank), !.preferred = k.address,
                !.members = {l.address : l \in best}]

\* _select, when the hold and the window allow it and best is not empty.
Selected(p, best) ==
  LET k == Chosen(p, best)
      rank == Advertised(p, k)
      lowest == Least(p.lowest, rank)
      others == {l \in best : l # k /\ l.rank < lowest}
  IN  [p EXCEPT !.rank = rank, !.lowest = lowest, !.preferred = k.address,
                !.members = {l.address : l \in others \cup {k}}]

\* next_parent keeps the root, and the last candidate, while they are candidates
\* apart from drops.
Kept(p, view, hop) ==
  /\ hop \in DOMAIN view /\ hop \in {ROOT, p.preferred}
  /\ CandidateCost(p, view, hop, FALSE) # NoCost
  /\ hop = ROOT \/ LastCandidate(p, view, hop)
==============================================================================
