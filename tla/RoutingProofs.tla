---------------------------- MODULE RoutingProofs ----------------------------
(***************************************************************************)
(* Proofs about mesh/dodag.py.                                             *)
(*                                                                         *)
(* The selections of the boards (module Dodag), for any network, link      *)
(* cost, rank bound and size of the parent set: an attached board forwards *)
(* downhill, whatever frames are lost.                                     *)
(*                                                                         *)
(* What a board tells of itself (module Advertising), for any redundancy   *)
(* constant, interval range and flags: no flag of a report is lost, no     *)
(* need for information is left unanswered.                                *)
(***************************************************************************)
EXTENDS Dodag, Advertising, WellFoundedInduction, TLAPS

------------------------------------------------------------------------------
(* The selection of a board. *)

Ranks == 0 .. INFINITE
Phases == {"free", "hold", "soliciting", "window"}

Selections ==
  [rank : Ranks, lowest : Ranks, preferred : Nodes \cup {NoParent}, members : SUBSET Nodes,
   version : 0 .. MAX_VERSION, behind : BOOLEAN]

Entries ==
  [rank : Ranks, version : 0 .. MAX_VERSION, fresh : BOOLEAN, after : BOOLEAN, dropped : BOOLEAN]

\* The states of board i.
BoardStates(i) ==
  [p : Selections, phase : Phases, poisoned : BOOLEAN, configured : BOOLEAN,
   view : [Neighbours(i) -> Entries]]

\* A detached board holds nothing of a former route; an attached one selects, in a
\* version it adopted, among neighbours, and its rank lies between the lowest one
\* and the bound.
Sane(i, b) ==
  /\ b.p.rank = INFINITE => b.p = Unattached(b.p.version)
  /\ b.p.rank # INFINITE =>
       /\ b.phase = "free" /\ b.configured
       /\ b.p.lowest <= b.p.rank /\ b.p.rank <= Bound(b.p)
       /\ b.p.members \subseteq Neighbours(i) /\ b.p.preferred \in b.p.members

\* The parents of an attached board lie below it, by their last frames.
Below(b) ==
  b.p.rank # INFINITE =>
    /\ b.view[b.p.preferred].version = b.p.version => b.view[b.p.preferred].rank < b.p.rank
    /\ \A j \in b.p.members \ {b.p.preferred} :
         b.view[j].version = b.p.version /\ b.view[j].rank < b.p.lowest

BoardInv(i, b) ==
  /\ b \in BoardStates(i)
  /\ i # ROOT => Sane(i, b) /\ Below(b)
  /\ i = ROOT => b.p.preferred = NoParent /\ b.p.members = {}

IInv ==
  /\ p \in [Nodes -> Selections] /\ phase \in [Nodes -> Phases]
  /\ configured \in [Nodes -> BOOLEAN] /\ poisoned \in [Nodes -> BOOLEAN]
  /\ up \subseteq Links
  /\ \A i \in Nodes : BoardInv(i, Board(i))

------------------------------------------------------------------------------
\* The constants, as the proofs use them.
LEMMA Constants ==
  /\ Nodes \subseteq Nat /\ ROOT \in Nodes /\ NoParent \notin Nodes
  /\ INFINITE \in Nat \ {0} /\ MAX_COST \in Nat /\ MAX_COST < INFINITE
  /\ MAX_INCREASE \in Nat /\ MAX_LINK_COST \in Nat /\ MAX_VERSION \in Nat
  /\ HOP \in Nat \ {0} /\ RANK_HYSTERESIS \in Nat /\ RANK_HYSTERESIS <= HOP /\ HOP <= MAX_LINK_COST
  /\ SWITCH_THRESHOLD \in Nat
  /\ \A i \in Nodes : Neighbours(i) \subseteq Nodes
<1>1. Nodes \subseteq Nat /\ ROOT \in Nodes /\ NoParent \notin Nat
  BY SelectionAssumption, DodagAssumption
<1>2. /\ INFINITE \in Nat \ {0} /\ MAX_COST \in Nat /\ MAX_COST < INFINITE
      /\ MAX_INCREASE \in Nat /\ MAX_LINK_COST \in Nat /\ SWITCH_THRESHOLD \in Nat
      /\ RANK_HYSTERESIS \in Nat \ {0}
  BY SelectionAssumption
<1>3. /\ MAX_VERSION \in Nat /\ HOP \in Nat \ {0} /\ RANK_HYSTERESIS <= HOP /\ HOP <= MAX_LINK_COST
  BY <1>2, DodagAssumption
<1>4. \A i \in Nodes : Neighbours(i) \subseteq Nodes
  BY DEF Neighbours
<1> QED BY <1>1, <1>2, <1>3, <1>4

\* The rank of a board stays within the bound when the lowest one follows it down.
LEMMA BoundKept ==
  ASSUME NEW lowest \in Ranks, NEW rank \in Ranks,
         rank <= Least(MAX_COST, lowest + MAX_INCREASE)
  PROVE  /\ Least(lowest, rank) \in Ranks /\ Least(lowest, rank) <= rank
         /\ rank <= Least(MAX_COST, Least(lowest, rank) + MAX_INCREASE)
         /\ rank # INFINITE
  BY Constants DEF Least, Ranks

------------------------------------------------------------------------------
\* What the cost of a candidate says of it.
Costs(q, a, e, c) ==
  \/ /\ e.version = q.version /\ c = e.rank + HOP /\ c <= Bound(q)
     /\ e.rank < q.lowest \/ a = q.preferred
  \/ e.version # q.version /\ c = q.rank /\ q.behind /\ a = q.preferred

LEMMA CostIs ==
  ASSUME NEW q \in Selections, NEW a, NEW e, e.rank \in Ranks, e.cost = HOP,
         NEW reach, NEW drops, PathCost(q, a, e, reach, drops) # NoCost
  PROVE  Costs(q, a, e, PathCost(q, a, e, reach, drops))
<1> DEFINE link == IF reach \/ a = ROOT THEN Least(e.cost, MAX_LINK_COST) ELSE e.cost
           cost == e.rank + link
           out == ~Feasible(q, a, e) \/ ~e.fresh \/ ~e.after \/ (drops /\ e.dropped)
                  \/ ~Eligible(a, e, reach)
<1>1. link = HOP
  BY Constants DEF Least
<1>2. PathCost(q, a, e, reach, drops) =
        IF out THEN NoCost
        ELSE IF e.version # q.version THEN q.rank
        ELSE IF cost <= Bound(q) THEN cost ELSE NoCost
  BY DEF PathCost
<1>3. ~out
  BY <1>2
<1>4. Feasible(q, a, e)
  BY <1>3
<1> HIDE DEF out, link
<1>5. CASE e.version # q.version
  BY <1>2, <1>3, <1>4, <1>5 DEF Feasible, Costs
<1>6. CASE e.version = q.version
  <2>1. cost <= Bound(q) /\ PathCost(q, a, e, reach, drops) = cost
    BY <1>2, <1>3, <1>6
  <2> QED BY <1>1, <1>4, <1>6, <2>1 DEF Feasible, Costs
<1> QED BY <1>5, <1>6

\* The entries as the selection reads them.
LEMMA SeenIs ==
  ASSUME NEW i \in Nodes, NEW b \in BoardStates(i), NEW a \in Neighbours(i)
  PROVE  /\ DOMAIN Seen(b) = Neighbours(i)
         /\ Seen(b)[a].rank = b.view[a].rank /\ Seen(b)[a].version = b.view[a].version
         /\ Seen(b)[a].rank \in Ranks /\ Seen(b)[a].cost = HOP /\ Seen(b)[a].margin = 0
  BY DEF Seen, BoardStates, Entries

\* The candidates of a board, and what is known of each.
Candidate(i, b, k) ==
  /\ k.address \in Neighbours(i)
  /\ Costs(b.p, k.address, b.view[k.address], k.cost)
  /\ k.margin = 0
  /\ k.rank = IF b.view[k.address].version = b.p.version THEN b.view[k.address].rank
              ELSE INFINITE

LEMMA BestAre ==
  ASSUME NEW i \in Nodes, NEW b \in BoardStates(i), NEW k \in Best(b.p, Seen(b))
  PROVE  Candidate(i, b, k)
<1>1. PICK a \in DOMAIN Seen(b) : k = Key(b.p, Seen(b), a) /\ k.cost # NoCost
  BY DEF Best
<1>2. a \in Neighbours(i)
  <2>1. DOMAIN Seen(b) = DOMAIN b.view
    BY DEF Seen
  <2>2. DOMAIN b.view = Neighbours(i)
    BY DEF BoardStates
  <2> QED BY <1>1, <2>1, <2>2
<1>3. b.p \in Selections
  BY DEF BoardStates
<1>4. /\ k.address = a /\ k.margin = Seen(b)[a].margin
      /\ k.cost = CandidateCost(b.p, Seen(b), a, TRUE)
      /\ k.rank = IF Seen(b)[a].version = b.p.version THEN Seen(b)[a].rank ELSE INFINITE
  BY <1>1 DEF Key
<1>5. PICK reach : k.cost = PathCost(b.p, a, Seen(b)[a], reach, TRUE)
  BY <1>4 DEF CandidateCost
<1>6. Costs(b.p, a, Seen(b)[a], k.cost)
  <2>1. Seen(b)[a].rank \in Ranks /\ Seen(b)[a].cost = HOP
    BY <1>2, SeenIs
  <2>2. PathCost(b.p, a, Seen(b)[a], reach, TRUE) # NoCost
    BY <1>1, <1>5
  <2>3. Costs(b.p, a, Seen(b)[a], PathCost(b.p, a, Seen(b)[a], reach, TRUE))
    BY <1>3, <2>1, <2>2, CostIs
  <2> QED BY <1>5, <2>3
<1>7. Costs(b.p, a, b.view[a], k.cost)
  BY <1>2, <1>6, SeenIs DEF Costs
<1> QED BY <1>2, <1>4, <1>7, SeenIs DEF Candidate

\* A set of naturals has a least element.
LEMMA LeastNatural ==
  ASSUME NEW S \in SUBSET Nat, S # {}
  PROVE  \E m \in S : \A k \in S : m <= k
<1> DEFINE R == OpToRel(<, Nat)
<1>1. IsWellFoundedOn(R, Nat)
  BY NatLessThanWellFounded
<1>2. \A x, y \in Nat : x < y <=> <<x, y>> \in R
  BY DEF OpToRel
<1> HIDE DEF R
<1>3. PICK x \in S : \A y \in S : <<y, x>> \notin R
  BY <1>1, WFMin
<1>4. \A y \in S : ~(y < x) /\ y \in Nat /\ x \in Nat
  BY <1>2, <1>3
<1> QED BY <1>4

\* The cost of a candidate is a natural.
LEMMA CostTyped ==
  ASSUME NEW i \in Nodes, NEW b \in BoardStates(i), NEW k, Candidate(i, b, k)
  PROVE  /\ k.cost \in Nat /\ k.address \in Nat
         /\ b.p.rank \in Ranks /\ b.p.lowest \in Ranks /\ Bound(b.p) \in Nat
         /\ b.view[k.address].rank \in Ranks /\ k.rank \in Ranks
<1>1. b.p \in Selections /\ b.view \in [Neighbours(i) -> Entries]
  BY DEF BoardStates
<1>2. b.p.rank \in Ranks /\ b.p.lowest \in Ranks /\ Bound(b.p) \in Nat
  <2>1. b.p.rank \in Ranks /\ b.p.lowest \in Ranks
    BY <1>1 DEF Selections
  <2> QED BY <2>1, Constants DEF Ranks, Bound, Least
<1>3. k.address \in Nat /\ b.view[k.address] \in Entries
  BY <1>1, Constants DEF Candidate
<1>4. b.view[k.address].rank \in Ranks
  BY <1>3 DEF Entries
<1>5. k.cost \in Nat
  BY <1>2, <1>4, Constants DEF Candidate, Costs, Ranks
<1>6. k.rank \in Ranks
  BY <1>4, Constants DEF Candidate, Ranks
<1> QED BY <1>2, <1>3, <1>4, <1>5, <1>6

\* The candidates, if any, have a first one.
LEMMA FirstExists ==
  ASSUME NEW i \in Nodes, NEW b \in BoardStates(i), NEW best, best # {},
         \A k \in best : Candidate(i, b, k)
  PROVE  \E k \in best : \A l \in best : ~Better(l, k)
<1>1. \A k \in best : k.cost \in Nat /\ k.address \in Nat /\ k.margin = 0
  BY CostTyped DEF Candidate
<1>2. PICK m \in {k.cost : k \in best} : \A c \in {k.cost : k \in best} : m <= c
  <2>1. {k.cost : k \in best} \in SUBSET Nat /\ {k.cost : k \in best} # {}
    BY <1>1
  <2> QED BY <2>1, LeastNatural
<1> DEFINE cheap == {k \in best : k.cost = m}
<1>3. PICK a \in {k.address : k \in cheap} : \A c \in {k.address : k \in cheap} : a <= c
  <2>1. {k.address : k \in cheap} \in SUBSET Nat /\ {k.address : k \in cheap} # {}
    BY <1>1, <1>2
  <2> QED BY <2>1, LeastNatural
<1>4. PICK k \in cheap : k.address = a
  BY <1>3
<1>5. ASSUME NEW l \in best PROVE ~Better(l, k)
  <2>1. m <= l.cost /\ k.cost = m /\ l.cost \in Nat /\ m \in Nat
    BY <1>1, <1>2, <1>4
  <2>2. l.cost = m => a <= l.address
    BY <1>3
  <2>3. l.margin = 0 /\ k.margin = 0 /\ l.address \in Nat /\ a \in Nat
    BY <1>1, <1>4
  <2>4. l.cost = k.cost => ~(l.address < k.address)
    BY <1>4, <2>1, <2>2, <2>3
  <2>5. ~(l.cost < k.cost)
    BY <2>1
  <2> QED BY <2>3, <2>4, <2>5 DEF Better
<1> QED BY <1>4, <1>5

\* The parent chosen is a candidate.
LEMMA ChosenIs ==
  ASSUME NEW i \in Nodes, NEW b \in BoardStates(i), NEW best, best # {},
         \A k \in best : Candidate(i, b, k)
  PROVE  Chosen(b.p, best) \in best
<1> DEFINE first == CHOOSE k \in best : \A l \in best : ~Better(l, k)
           kept == {k \in best : /\ k.address = b.p.preferred
                                 /\ k.cost - first.cost < SWITCH_THRESHOLD}
<1>1. first \in best
  BY FirstExists
<1>2. Chosen(b.p, best) = IF kept # {} THEN CHOOSE k \in kept : TRUE ELSE first
  BY DEF Chosen
<1> HIDE DEF first
<1>3. kept # {} => (CHOOSE k \in kept : TRUE) \in kept
  OBVIOUS
<1> QED BY <1>1, <1>2, <1>3

------------------------------------------------------------------------------
\* The rank advertised through the parent chosen: within the bound, and above the
\* last rank of that parent in the version.
LEMMA RankIs ==
  ASSUME NEW i \in Nodes, NEW b \in BoardStates(i), Sane(i, b), NEW k, Candidate(i, b, k)
  PROVE  /\ Advertised(b.p, k) \in Ranks /\ Advertised(b.p, k) <= Bound(b.p)
         /\ b.view[k.address].version = b.p.version
              => b.view[k.address].rank < Advertised(b.p, k)
<1> DEFINE rank == Advertised(b.p, k)
           e == b.view[k.address]
           x == e.rank
           r == b.p.rank
           c == k.cost
           bound == Bound(b.p)
           near == ~(c - r >= RANK_HYSTERESIS \/ r - c >= RANK_HYSTERESIS)
<1> SUFFICES rank \in Ranks /\ rank <= bound /\ (e.version = b.p.version => x < rank)
  OBVIOUS
<1>1. c \in Nat /\ r \in Ranks /\ x \in Ranks /\ bound \in Nat /\ bound <= MAX_COST
  <2>1. b.p.lowest \in Ranks
    BY CostTyped
  <2>2. Bound(b.p) <= MAX_COST
    BY <2>1, Constants DEF Bound, Least, Ranks
  <2> QED BY <2>2, CostTyped
<1>2. r # INFINITE => r <= bound
  BY DEF Sane
<1>3. k.address = b.p.preferred => r # INFINITE
  <2>1. k.address # NoParent
    BY Constants DEF Candidate
  <2> QED BY <2>1 DEF Sane, Unattached
<1>4. rank = IF k.address # b.p.preferred \/ ~near THEN c ELSE r
  BY DEF Advertised
<1>5. e.version = b.p.version => c = x + HOP /\ c <= bound
  BY DEF Candidate, Costs
<1>6. e.version # b.p.version => c = r /\ k.address = b.p.preferred
  BY DEF Candidate, Costs
<1> HIDE DEF rank, x, r, c, bound
<1>7. CASE e.version = b.p.version
  <2>1. CASE rank = c
    BY <1>1, <1>5, <1>7, <2>1, Constants DEF Ranks
  <2>2. CASE rank # c
    <3>1. rank = r /\ near /\ r <= bound
      BY <1>2, <1>3, <1>4, <2>2
    <3> QED BY <1>1, <1>5, <1>7, <3>1, Constants DEF Ranks
  <2> QED BY <2>1, <2>2
<1>8. CASE e.version # b.p.version
  <2>1. rank = r /\ r <= bound
    BY <1>2, <1>3, <1>4, <1>6, <1>8
  <2> QED BY <1>1, <1>8, <2>1
<1> QED BY <1>7, <1>8

\* A selection: the board is attached, in the same version, and its parents lie
\* below it.
LEMMA SelectedIs ==
  ASSUME NEW i \in Nodes, NEW b \in BoardStates(i), Sane(i, b), NEW best, best # {},
         \A k \in best : Candidate(i, b, k)
  PROVE  LET q == Selected(b.p, best)
         IN  /\ q \in Selections /\ q.rank # INFINITE /\ q.version = b.p.version
             /\ q.lowest <= q.rank /\ q.rank <= Bound(q)
             /\ q.members \subseteq Neighbours(i) /\ q.preferred \in q.members
             /\ b.view[q.preferred].version = q.version => b.view[q.preferred].rank < q.rank
             /\ \A j \in q.members \ {q.preferred} :
                  b.view[j].version = q.version /\ b.view[j].rank < q.lowest
<1> DEFINE q == Selected(b.p, best)
           k == Chosen(b.p, best)
           rank == Advertised(b.p, k)
           lowest == Least(b.p.lowest, rank)
           others == {l \in best : l # k /\ l.rank < lowest}
           members == {l.address : l \in others \cup {k}}
<1>1. k \in best /\ Candidate(i, b, k)
  BY ChosenIs
<1>2. b.p \in Selections /\ b.p.lowest \in Ranks
  BY DEF BoardStates, Selections
<1>3. /\ rank \in Ranks /\ rank <= Bound(b.p)
      /\ b.view[k.address].version = b.p.version => b.view[k.address].rank < rank
  BY <1>1, RankIs
<1>4. /\ lowest \in Ranks /\ lowest <= rank /\ rank # INFINITE
      /\ rank <= Least(MAX_COST, lowest + MAX_INCREASE)
  BY <1>2, <1>3, BoundKept DEF Bound
<1> HIDE DEF k, rank, lowest
<1>5. q = [b.p EXCEPT !.rank = rank, !.lowest = lowest, !.preferred = k.address,
                     !.members = members]
  BY DEF Selected, k, rank, lowest
<1>6. members \subseteq Neighbours(i) /\ k.address \in members
  BY <1>1 DEF Candidate
<1>7. k.address \in Nodes /\ members \subseteq Nodes
  BY <1>6, Constants
<1>8. ASSUME NEW j \in members \ {k.address}
      PROVE  b.view[j].version = b.p.version /\ b.view[j].rank < lowest
  <2>1. PICK l \in others : j = l.address
    BY <1>8
  <2>2. Candidate(i, b, l) /\ l.rank < lowest
    BY <2>1
  <2>3. ~(INFINITE < lowest)
    BY <1>4, Constants DEF Ranks
  <2> QED BY <2>1, <2>2, <2>3 DEF Candidate
<1> HIDE DEF members
<1>9. /\ q.rank = rank /\ q.lowest = lowest /\ q.preferred = k.address
      /\ q.members = members /\ q.version = b.p.version /\ q \in Selections
  <2> HIDE DEF q
  <2>1. b.p \in [rank : Ranks, lowest : Ranks, preferred : Nodes \cup {NoParent},
                 members : SUBSET Nodes, version : 0 .. MAX_VERSION, behind : BOOLEAN]
    BY <1>2 DEF Selections
  <2> QED BY <1>3, <1>4, <1>5, <1>7, <2>1 DEF Selections
<1>10. q.rank <= Bound(q)
  BY <1>4, <1>9 DEF Bound
<1> HIDE DEF q
<1>11. /\ q \in Selections /\ q.rank # INFINITE /\ q.version = b.p.version
       /\ q.lowest <= q.rank /\ q.rank <= Bound(q)
       /\ q.members \subseteq Neighbours(i) /\ q.preferred \in q.members
  BY <1>4, <1>6, <1>9, <1>10
<1>12. b.view[q.preferred].version = q.version => b.view[q.preferred].rank < q.rank
  BY <1>3, <1>9
<1>13. \A j \in q.members \ {q.preferred} :
         b.view[j].version = q.version /\ b.view[j].rank < q.lowest
  BY <1>8, <1>9
<1> USE DEF q
<1> QED BY <1>11, <1>12, <1>13

------------------------------------------------------------------------------
(* The steps of a board. *)

\* The states of the fields of a board, as they change.
LEMMA StateParts ==
  ASSUME NEW i \in Nodes, NEW b \in BoardStates(i)
  PROVE  /\ b.p \in Selections /\ b.p.rank \in Ranks /\ b.p.version \in 0 .. MAX_VERSION
         /\ b.p.lowest \in Ranks
         /\ b.phase \in Phases /\ b.poisoned \in BOOLEAN /\ b.configured \in BOOLEAN
         /\ b.view \in [Neighbours(i) -> Entries]
  BY DEF BoardStates, Selections

\* A view whose frames are forgotten shows the same ranks and versions.
LEMMA ForgottenIs ==
  ASSUME NEW i \in Nodes, NEW v \in [Neighbours(i) -> Entries]
  PROVE  /\ Forgotten(v) \in [Neighbours(i) -> Entries]
         /\ \A j \in Neighbours(i) :
              Forgotten(v)[j].rank = v[j].rank /\ Forgotten(v)[j].version = v[j].version
<1>1. \A j \in Neighbours(i) : v[j] \in Entries
  OBVIOUS
<1>2. \A e \in Entries : LET f == [e EXCEPT !.after = FALSE]
                         IN  f \in Entries /\ f.rank = e.rank /\ f.version = e.version
  BY DEF Entries
<1>3. DOMAIN v = Neighbours(i)
  OBVIOUS
<1> QED BY <1>1, <1>2, <1>3 DEF Forgotten

\* A board without route.
LEMMA UnattachedIs ==
  ASSUME NEW version \in 0 .. MAX_VERSION
  PROVE  /\ Unattached(version) \in Selections
         /\ Unattached(version).rank = INFINITE /\ Unattached(version).version = version
         /\ Unattached(version).behind = FALSE
  BY Constants DEF Unattached, Selections, Ranks

LEMMA DetachedIs ==
  ASSUME NEW i \in Nodes, NEW b \in BoardStates(i)
  PROVE  /\ Detached(b) \in BoardStates(i)
         /\ Detached(b).p = Unattached(b.p.version) /\ Detached(b).p.rank = INFINITE
         /\ Sane(i, Detached(b)) /\ Below(Detached(b))
<1> DEFINE u == Unattached(b.p.version)
           v == Forgotten(b.view)
<1>1. u \in Selections /\ u.rank = INFINITE /\ u.version = b.p.version
  BY StateParts, UnattachedIs
<1>2. v \in [Neighbours(i) -> Entries]
  BY StateParts, ForgottenIs
<1>3. Detached(b) = [b EXCEPT !.p = u, !.phase = "hold", !.poisoned = TRUE,
                             !.view = v]
  BY DEF Detached
<1> HIDE DEF u, v
<1>4. Detached(b) \in BoardStates(i) /\ Detached(b).p = u
  BY <1>1, <1>2, <1>3 DEF BoardStates, Phases
<1> USE DEF u
<1> QED BY <1>1, <1>4 DEF Sane, Below

LEMMA RecomputedIs ==
  ASSUME NEW i \in Nodes, NEW b \in BoardStates(i), Sane(i, b)
  PROVE  /\ Recomputed(b) \in BoardStates(i)
         /\ Sane(i, Recomputed(b)) /\ Below(Recomputed(b))
<1> DEFINE best == Best(b.p, Seen(b))
           q == Selected(b.p, best)
           v == IF b.p.rank = INFINITE THEN Forgotten(b.view) ELSE b.view
           poisoned1 == b.poisoned /\ b.p.rank # INFINITE
           c == [b EXCEPT !.p = q, !.poisoned = poisoned1, !.view = v]
<1>1. Recomputed(b) = IF b.phase # "free" \/ ~b.configured THEN b
                      ELSE IF best = {} THEN IF b.p.rank = INFINITE THEN b ELSE Detached(b)
                      ELSE c
  BY DEF Recomputed
<1>2. CASE b.phase # "free" \/ ~b.configured
  <2>1. b.p.rank = INFINITE
    BY <1>2 DEF Sane
  <2> QED BY <1>1, <1>2, <2>1 DEF Below
<1>3. CASE b.phase = "free" /\ b.configured /\ best = {}
  <2>1. CASE b.p.rank = INFINITE
    BY <1>1, <1>3, <2>1 DEF Below
  <2>2. CASE b.p.rank # INFINITE
    BY <1>1, <1>3, <2>2, DetachedIs
  <2> QED BY <2>1, <2>2
<1>4. CASE b.phase = "free" /\ b.configured /\ best # {}
  <2>1. \A k \in best : Candidate(i, b, k)
    BY BestAre
  <2> HIDE DEF best
  <2>2. /\ q \in Selections /\ q.rank # INFINITE /\ q.version = b.p.version
        /\ q.lowest <= q.rank /\ q.rank <= Bound(q)
        /\ q.members \subseteq Neighbours(i) /\ q.preferred \in q.members
        /\ b.view[q.preferred].version = q.version => b.view[q.preferred].rank < q.rank
        /\ \A j \in q.members \ {q.preferred} :
             b.view[j].version = q.version /\ b.view[j].rank < q.lowest
    BY <1>4, <2>1, SelectedIs
  <2>3. /\ v \in [Neighbours(i) -> Entries]
        /\ \A j \in Neighbours(i) : v[j].rank = b.view[j].rank /\ v[j].version = b.view[j].version
    BY StateParts, ForgottenIs
  <2>4. poisoned1 \in BOOLEAN
    OBVIOUS
  <2> HIDE DEF q, v, poisoned1
  <2>5. /\ c \in BoardStates(i) /\ c.p = q /\ c.view = v
        /\ c.phase = b.phase /\ c.configured = b.configured
    BY <2>2, <2>3, <2>4 DEF BoardStates
  <2> HIDE DEF c
  <2>6. Sane(i, c)
    BY <1>4, <2>2, <2>5 DEF Sane
  <2>7. Below(c)
    BY <2>2, <2>3, <2>5 DEF Below
  <2> QED BY <1>1, <1>4, <2>5, <2>6, <2>7
<1> QED BY <1>2, <1>3, <1>4

Headers == [rank : Ranks, version : 0 .. MAX_VERSION, kind : {"frame", "info", "solicit"}]

\* A frame heard leaves the selection as it was, but for what is known to be behind.
LEMMA NotedIs ==
  ASSUME NEW i \in Nodes, NEW b \in BoardStates(i), Sane(i, b),
         NEW j \in Neighbours(i), NEW header \in Headers
  PROVE  Noted(b, j, header) \in BoardStates(i) /\ Sane(i, Noted(b, j, header))
<1> DEFINE e == [rank |-> header.rank, version |-> header.version,
                 fresh |-> TRUE, after |-> b.poisoned, dropped |-> FALSE]
           behind == \/ b.p.behind
                     \/ /\ b.p.rank # INFINITE /\ b.configured /\ header.rank # INFINITE
                        /\ Newer(header.version, b.p.version)
           q == [b.p EXCEPT !.behind = behind]
           v == [b.view EXCEPT ![j] = e]
           n == [b EXCEPT !.view = v, !.p = q]
<1>1. Noted(b, j, header) = n
  BY DEF Noted, BoardStates
<1>2. e \in Entries
  BY StateParts DEF Headers, Entries
<1>3. v \in [Neighbours(i) -> Entries]
  <2> HIDE DEF e
  <2> QED BY <1>2, StateParts
<1>4. b.p.behind \in BOOLEAN
  BY DEF BoardStates, Selections
<1>5. behind \in BOOLEAN
  BY <1>4
<1>6. b.p.rank = INFINITE => behind = b.p.behind
  BY <1>4
<1> HIDE DEF v, behind
<1>7. /\ q \in Selections /\ q.rank = b.p.rank /\ q.lowest = b.p.lowest
      /\ q.preferred = b.p.preferred /\ q.members = b.p.members /\ q.version = b.p.version
      /\ b.p.rank = INFINITE => q = b.p
  BY <1>5, <1>6, StateParts DEF Selections
<1> HIDE DEF q
<1>8. /\ n \in BoardStates(i) /\ n.p = q /\ n.phase = b.phase /\ n.configured = b.configured
  BY <1>3, <1>7 DEF BoardStates
<1> HIDE DEF n
<1>9. Sane(i, n)
  BY <1>7, <1>8 DEF Sane, Bound
<1> QED BY <1>1, <1>8, <1>9

LEMMA AdoptedIs ==
  ASSUME NEW i \in Nodes, NEW b \in BoardStates(i), NEW version \in 0 .. MAX_VERSION
  PROVE  /\ Adopted(b, version) \in BoardStates(i)
         /\ Sane(i, Adopted(b, version)) /\ Below(Adopted(b, version))
<1> DEFINE kept == [j \in DOMAIN b.view |-> [b.view[j] EXCEPT !.dropped = FALSE]]
           u == Unattached(version)
           a == [b EXCEPT !.p = u, !.configured = TRUE, !.view = kept]
           c == Recomputed(a)
           r == b.p.rank
           d == [c EXCEPT !.p.rank = r]
<1>1. kept \in [Neighbours(i) -> Entries]
  <2>1. \A e \in Entries : [e EXCEPT !.dropped = FALSE] \in Entries
    BY DEF Entries
  <2> QED BY <2>1, StateParts
<1>2. u \in Selections /\ u.rank = INFINITE /\ u.version = version
  BY UnattachedIs
<1> HIDE DEF kept
<1>3. a \in BoardStates(i) /\ a.p = u
  <2> HIDE DEF u
  <2> QED BY <1>1, <1>2 DEF BoardStates
<1>4. Sane(i, a)
  BY <1>2, <1>3 DEF Sane
<1>5. Adopted(b, version) = IF c.p.rank = INFINITE /\ b.p.rank # INFINITE THEN Detached(d) ELSE c
  BY DEF Adopted, kept
<1> HIDE DEF a
<1>6. c \in BoardStates(i) /\ Sane(i, c) /\ Below(c)
  BY <1>3, <1>4, RecomputedIs
<1> HIDE DEF c
<1>7. d \in BoardStates(i)
  <2>1. r \in Ranks
    BY StateParts
  <2> HIDE DEF r
  <2>2. [c.p EXCEPT !.rank = r] \in Selections
    BY <1>6, <2>1, StateParts DEF Selections
  <2>3. d = [c EXCEPT !.p = [c.p EXCEPT !.rank = r]]
    BY <1>6 DEF BoardStates
  <2> QED BY <1>6, <2>2, <2>3 DEF BoardStates
<1> HIDE DEF d
<1>8. Detached(d) \in BoardStates(i) /\ Sane(i, Detached(d)) /\ Below(Detached(d))
  BY <1>7, DetachedIs
<1> QED BY <1>5, <1>6, <1>8

LEMMA HeardIs ==
  ASSUME NEW i \in Nodes, NEW b \in BoardStates(i), Sane(i, b),
         NEW j \in Neighbours(i), NEW header \in Headers
  PROVE  /\ Heard(b, j, header) \in BoardStates(i)
         /\ Sane(i, Heard(b, j, header)) /\ Below(Heard(b, j, header))
<1> DEFINE n == Noted(b, j, header)
<1>1. n \in BoardStates(i) /\ Sane(i, n)
  BY NotedIs
<1>2. header.version \in 0 .. MAX_VERSION
  BY DEF Headers
<1> HIDE DEF n
<1>3. /\ Adopted(n, header.version) \in BoardStates(i)
      /\ Sane(i, Adopted(n, header.version)) /\ Below(Adopted(n, header.version))
  BY <1>1, <1>2, AdoptedIs
<1>4. Recomputed(n) \in BoardStates(i) /\ Sane(i, Recomputed(n)) /\ Below(Recomputed(n))
  BY <1>1, RecomputedIs
<1>5. Heard(b, j, header) = IF Adopts(n, header) THEN Adopted(n, header.version)
                            ELSE Recomputed(n)
  BY DEF Heard, n
<1> QED BY <1>3, <1>4, <1>5

\* What does not touch the selection of a board, nor the ranks and versions it saw.
LEMMA Harmless ==
  ASSUME NEW i \in Nodes, NEW b \in BoardStates(i), BoardInv(i, b),
         NEW c \in BoardStates(i), c.p = b.p,
         c.p.rank # INFINITE => c.phase = "free" /\ c.configured,
         \A j \in Neighbours(i) : /\ c.view[j].rank = b.view[j].rank
                                  /\ c.view[j].version = b.view[j].version
  PROVE  BoardInv(i, c)
<1>1. CASE i = ROOT
  BY <1>1 DEF BoardInv
<1>2. CASE i # ROOT
  <2>1. Sane(i, c)
    BY <1>2 DEF BoardInv, Sane
  <2>2. b.p.rank # INFINITE => b.p.members \subseteq Neighbours(i) /\ b.p.preferred \in b.p.members
    BY <1>2 DEF BoardInv, Sane
  <2>3. Below(c)
    BY <1>2, <2>2 DEF BoardInv, Below
  <2> QED BY <1>2, <2>1, <2>3 DEF BoardInv
<1> QED BY <1>1, <1>2

LEMMA SolicitedIs ==
  ASSUME NEW i \in Nodes \ {ROOT}, NEW b \in BoardStates(i), BoardInv(i, b)
  PROVE  Solicited(b) \in BoardStates(i) /\ BoardInv(i, Solicited(b))
<1> DEFINE v == Forgotten(b.view)
           c == [b EXCEPT !.phase = "window", !.poisoned = TRUE, !.view = v]
           d == [b EXCEPT !.phase = "window"]
<1>1. Solicited(b) = IF b.p.rank # INFINITE \/ b.phase \in {"hold", "window"} THEN b
                     ELSE IF b.phase = "soliciting" THEN c ELSE d
  BY DEF Solicited, BoardStates
<1>2. /\ v \in [Neighbours(i) -> Entries]
      /\ \A j \in Neighbours(i) : v[j].rank = b.view[j].rank /\ v[j].version = b.view[j].version
  BY StateParts, ForgottenIs
<1> HIDE DEF v
<1>3. c \in BoardStates(i) /\ c.p = b.p /\ c.view = v
  BY <1>2 DEF BoardStates, Phases
<1>4. d \in BoardStates(i) /\ d.p = b.p /\ d.view = b.view
  BY DEF BoardStates, Phases
<1> HIDE DEF c, d
<1>5. b.p.rank = INFINITE => BoardInv(i, c) /\ BoardInv(i, d)
  BY <1>2, <1>3, <1>4, Harmless
<1> QED BY <1>1, <1>3, <1>4, <1>5

------------------------------------------------------------------------------
(* The steps of the network. *)

\* The board of a node, field by field.
LEMMA BoardIs ==
  ASSUME NEW i \in Nodes
  PROVE  /\ Board(i).p = p[i] /\ Board(i).phase = phase[i]
         /\ Board(i).poisoned = poisoned[i] /\ Board(i).configured = configured[i]
         /\ Board(i).view = view[i]
  BY DEF Board

\* Boards that take states that keep the invariant.
LEMMA BecomeKeeps ==
  ASSUME IInv, NEW S \in SUBSET Nodes, NEW c, \A i \in S : BoardInv(i, c[i]),
         Become(S, c), up' \subseteq Links
  PROVE  IInv'
<1>1. ASSUME NEW i \in S
      PROVE  /\ c[i] \in BoardStates(i) /\ Board(i)' = c[i]
             /\ p'[i] \in Selections /\ phase'[i] \in Phases /\ configured'[i] \in BOOLEAN
             /\ poisoned'[i] \in BOOLEAN
  <2>1. /\ p'[i] = c[i].p /\ phase'[i] = c[i].phase /\ configured'[i] = c[i].configured
        /\ poisoned'[i] = c[i].poisoned /\ view'[i] = c[i].view
    BY DEF Become
  <2>2. c[i] \in BoardStates(i)
    BY DEF BoardInv
  <2>3. Board(i)' = [p |-> c[i].p, phase |-> c[i].phase, poisoned |-> c[i].poisoned,
                     configured |-> c[i].configured, view |-> c[i].view]
    BY <2>1 DEF Board
  <2>4. Board(i)' = c[i]
    BY <2>2, <2>3 DEF BoardStates
  <2> QED BY <2>1, <2>2, <2>4, StateParts
<1>2. ASSUME NEW i \in Nodes \ S
      PROVE  /\ Board(i)' = Board(i)
             /\ p'[i] = p[i] /\ phase'[i] = phase[i] /\ configured'[i] = configured[i]
             /\ poisoned'[i] = poisoned[i]
  BY DEF Become, Board
<1>3. /\ p' \in [Nodes -> Selections] /\ phase' \in [Nodes -> Phases]
      /\ configured' \in [Nodes -> BOOLEAN] /\ poisoned' \in [Nodes -> BOOLEAN]
  <2>1. \A i \in Nodes :
          /\ p'[i] \in Selections /\ phase'[i] \in Phases /\ configured'[i] \in BOOLEAN
          /\ poisoned'[i] \in BOOLEAN
    BY <1>1, <1>2 DEF IInv
  <2>2. /\ p' = [i \in Nodes |-> p'[i]] /\ phase' = [i \in Nodes |-> phase'[i]]
        /\ configured' = [i \in Nodes |-> configured'[i]]
        /\ poisoned' = [i \in Nodes |-> poisoned'[i]]
    BY DEF Become
  <2> QED BY <2>1, <2>2
<1>4. ASSUME NEW i \in Nodes PROVE BoardInv(i, Board(i)')
  BY <1>1, <1>2 DEF IInv
<1> QED BY <1>3, <1>4 DEF IInv, BoardInv

LEMMA InitKeeps == Init => IInv
<1> SUFFICES ASSUME Init PROVE IInv
  OBVIOUS
<1>1. 0 \in 0 .. MAX_VERSION /\ Unattached(0) \in Selections
  <2>1. 0 \in 0 .. MAX_VERSION
    BY Constants
  <2> QED BY <2>1, UnattachedIs
<1>2. RootState(0) \in Selections
  <2> DEFINE u == Unattached(0)
  <2>1. u \in Selections /\ 0 \in Ranks
    BY <1>1, Constants DEF Ranks
  <2>2. RootState(0) = [u EXCEPT !.rank = 0, !.lowest = 0]
    BY DEF RootState
  <2> HIDE DEF u
  <2> QED BY <2>1, <2>2 DEF Selections
<1>3. p \in [Nodes -> Selections]
  BY <1>1, <1>2 DEF Init
<1>4. /\ phase \in [Nodes -> Phases]
      /\ configured \in [Nodes -> BOOLEAN] /\ poisoned \in [Nodes -> BOOLEAN]
      /\ up \subseteq Links
  BY DEF Init, Phases
<1>5. NotHeard \in Entries
  BY <1>1, Constants DEF NotHeard, Entries, Ranks
<1>6. ASSUME NEW i \in Nodes PROVE BoardInv(i, Board(i))
  <2>1. view[i] \in [Neighbours(i) -> Entries]
    BY <1>5 DEF Init
  <2>2. Board(i) \in BoardStates(i)
    BY <1>3, <1>4, <2>1 DEF Board, BoardStates
  <2>3. CASE i = ROOT
    <3>1. p[i].preferred = NoParent /\ p[i].members = {}
      BY <2>3 DEF Init, RootState, Unattached
    <3> QED BY <2>2, <2>3, <3>1, BoardIs DEF BoardInv
  <2>4. CASE i # ROOT
    <3>1. Board(i).p = Unattached(0)
      BY <2>4, BoardIs DEF Init
    <3>2. Sane(i, Board(i)) /\ Below(Board(i))
      BY <1>1, <3>1, UnattachedIs DEF Sane, Below
    <3> QED BY <2>2, <2>4, <3>2 DEF BoardInv
  <2> QED BY <2>3, <2>4
<1> QED BY <1>3, <1>4, <1>6 DEF IInv

LEMMA TransmitKeeps ==
  ASSUME IInv, NEW i \in Nodes, NEW kind \in {"frame", "info", "solicit"},
         kind = "solicit" => i # ROOT, NEW gone, Transmit(i, kind, gone)
  PROVE  IInv'
<1> DEFINE near == {j \in Neighbours(i) : {i, j} \in up}
           header == [rank |-> p[i].rank, version |-> p[i].version, kind |-> kind]
           sender == IF kind = "solicit" THEN Solicited(Board(i)) ELSE Board(i)
           hearing == {j \in near \ gone : j # ROOT}
           c == [j \in hearing \cup {i} |-> IF j = i THEN sender ELSE Heard(Board(j), i, header)]
<1>1. Become(hearing \cup {i}, c) /\ up' \subseteq Links
  BY DEF Transmit, IInv
<1>2. header \in Headers
  BY DEF IInv, Selections, Headers
<1>3. BoardInv(i, sender)
  BY SolicitedIs DEF IInv, BoardInv
<1> HIDE DEF sender, header
<1>4. ASSUME NEW j \in hearing, j # i
      PROVE  BoardInv(j, Heard(Board(j), i, header))
  <2>1. j \in Nodes /\ j # ROOT /\ i \in Neighbours(j)
    <3>1. {i, j} = {j, i}
      OBVIOUS
    <3> QED BY <3>1 DEF Neighbours
  <2>2. Board(j) \in BoardStates(j) /\ Sane(j, Board(j))
    BY <2>1 DEF IInv, BoardInv
  <2> QED BY <1>2, <2>1, <2>2, HeardIs DEF BoardInv
<1>5. \A j \in hearing \cup {i} : BoardInv(j, c[j])
  BY <1>3, <1>4
<1>6. hearing \cup {i} \in SUBSET Nodes
  BY DEF Neighbours
<1> HIDE DEF c, hearing
<1> QED BY <1>1, <1>5, <1>6, BecomeKeeps

\* The steps of one board of its own.
LEMMA OneBecomes ==
  ASSUME IInv, NEW i \in Nodes \ {ROOT}, NEW b, BoardInv(i, b),
         Become({i}, [j \in {i} |-> b]), UNCHANGED up
  PROVE  IInv'
<1>1. \A j \in {i} : BoardInv(j, [k \in {i} |-> b][j])
  OBVIOUS
<1>2. up' \subseteq Links
  BY DEF IInv
<1>3. {i} \in SUBSET Nodes
  OBVIOUS
<1> QED BY <1>1, <1>2, <1>3, BecomeKeeps

LEMMA HoldOverKeeps ==
  ASSUME IInv, NEW i \in Boards, HoldOver(i)
  PROVE  IInv'
<1>1. i \in Nodes /\ i # ROOT /\ BoardInv(i, Board(i))
  BY DEF Boards, IInv
<1>2. /\ Board(i) \in BoardStates(i) /\ Sane(i, Board(i)) /\ Board(i).phase = "hold"
  BY <1>1, BoardIs DEF BoardInv, HoldOver
<1>3. Board(i)' = [Board(i) EXCEPT !.phase = "soliciting"]
  BY <1>1 DEF HoldOver, IInv, Board
<1>4. Board(i)' \in BoardStates(i) /\ Board(i)'.p = Board(i).p /\ Board(i)'.view = Board(i).view
  <2> DEFINE b == Board(i)
  <2> HIDE DEF b
  <2>1. [b EXCEPT !.phase = "soliciting"] \in BoardStates(i)
        /\ [b EXCEPT !.phase = "soliciting"].p = b.p
        /\ [b EXCEPT !.phase = "soliciting"].view = b.view
    <3>1. b \in BoardStates(i)
      BY <1>2 DEF b
    <3> QED BY <3>1 DEF BoardStates, Phases
  <2> QED BY <1>3, <2>1 DEF b
<1>5. Board(i).p.rank = INFINITE
  BY <1>2 DEF Sane
<1>6. BoardInv(i, Board(i)')
  BY <1>1, <1>2, <1>4, <1>5, Harmless
<1>7. \A j \in Nodes \ {i} : Board(j)' = Board(j)
  BY DEF HoldOver, Board, IInv
<1>8. ASSUME NEW j \in Nodes PROVE BoardInv(j, Board(j)')
  <2>1. CASE j = i
    BY <1>6, <2>1
  <2>2. CASE j # i
    BY <1>7, <2>2 DEF IInv
  <2> QED BY <2>1, <2>2
<1>9. phase' \in [Nodes -> Phases]
  BY DEF HoldOver, IInv, Phases
<1> QED BY <1>8, <1>9 DEF HoldOver, IInv, BoardInv

LEMMA WindowOverKeeps ==
  ASSUME IInv, NEW i \in Boards, WindowOver(i)
  PROVE  IInv'
<1> DEFINE b == Board(i)
           c == [b EXCEPT !.phase = "free"]
<1>1. i \in Nodes \ {ROOT} /\ BoardInv(i, b)
  BY DEF Boards, IInv
<1>2. /\ b \in BoardStates(i) /\ Sane(i, b) /\ b.phase = "window"
  BY <1>1, BoardIs DEF BoardInv, WindowOver
<1>3. Become({i}, [j \in {i} |-> Recomputed(c)]) /\ UNCHANGED up
  BY DEF WindowOver
<1> HIDE DEF b
<1>4. c \in BoardStates(i) /\ c.p = b.p
  BY <1>2 DEF BoardStates, Phases
<1> HIDE DEF c
<1>5. Sane(i, c)
  BY <1>2, <1>4 DEF Sane
<1>6. BoardInv(i, Recomputed(c))
  BY <1>1, <1>4, <1>5, RecomputedIs DEF BoardInv
<1> QED BY <1>1, <1>3, <1>6, OneBecomes

\* Only the freshness of an entry, or what was dropped, changes.
LEMMA EntryIs ==
  ASSUME NEW i \in Nodes, NEW b \in BoardStates(i), NEW j \in Neighbours(i),
         NEW e \in Entries, e.rank = b.view[j].rank, e.version = b.view[j].version,
         NEW c, c = [b EXCEPT !.view = [b.view EXCEPT ![j] = e]]
  PROVE  /\ c \in BoardStates(i) /\ c.p = b.p /\ c.phase = b.phase
         /\ c.configured = b.configured
         /\ \A k \in Neighbours(i) : /\ c.view[k].rank = b.view[k].rank
                                     /\ c.view[k].version = b.view[k].version
<1> DEFINE v == [b.view EXCEPT ![j] = e]
<1>1. /\ v \in [Neighbours(i) -> Entries]
      /\ \A k \in Neighbours(i) : v[k].rank = b.view[k].rank /\ v[k].version = b.view[k].version
  BY StateParts
<1> HIDE DEF v
<1>2. c \in BoardStates(i) /\ c.view = v
  BY <1>1 DEF BoardStates, v
<1>3. c.p = b.p /\ c.phase = b.phase /\ c.configured = b.configured
  BY DEF BoardStates
<1> QED BY <1>1, <1>2, <1>3

LEMMA SilentKeeps ==
  ASSUME IInv, NEW i \in Boards, NEW j \in Neighbours(i), Silent(i, j)
  PROVE  IInv'
<1> DEFINE b == Board(i)
           e == [b.view[j] EXCEPT !.fresh = FALSE]
           c == [b EXCEPT !.view = [b.view EXCEPT ![j] = e]]
           d == IF j \in p[i].members THEN Recomputed(c) ELSE c
<1>1. i \in Nodes \ {ROOT} /\ BoardInv(i, b) /\ j \in Neighbours(i)
  BY DEF Boards, IInv
<1>2. b \in BoardStates(i) /\ Sane(i, b) /\ Below(b)
  BY <1>1 DEF BoardInv
<1>3. [b EXCEPT !.view[j].fresh = FALSE] = c
  BY <1>1, <1>2 DEF BoardStates
<1>4. Become({i}, [k \in {i} |-> d]) /\ UNCHANGED up
  BY <1>3 DEF Silent
<1> HIDE DEF b
<1>5. e \in Entries /\ e.rank = b.view[j].rank /\ e.version = b.view[j].version
  <2>1. b.view[j] \in Entries
    BY <1>1, <1>2, StateParts
  <2> QED BY <2>1 DEF Entries
<1> HIDE DEF e
<1>6. /\ c \in BoardStates(i) /\ c.p = b.p /\ c.phase = b.phase
      /\ c.configured = b.configured
      /\ \A k \in Neighbours(i) : /\ c.view[k].rank = b.view[k].rank
                                  /\ c.view[k].version = b.view[k].version
  BY <1>1, <1>2, <1>5, EntryIs
<1> HIDE DEF c
<1>7. c.p.rank # INFINITE => c.phase = "free" /\ c.configured
  BY <1>2, <1>6 DEF Sane
<1>8. BoardInv(i, c)
  BY <1>1, <1>2, <1>6, <1>7, Harmless
<1>9. BoardInv(i, Recomputed(c))
  BY <1>1, <1>6, <1>8, RecomputedIs DEF BoardInv
<1>10. BoardInv(i, d)
  BY <1>8, <1>9
<1> HIDE DEF d
<1> QED BY <1>1, <1>4, <1>10, OneBecomes

LEMMA ExhaustedKeeps ==
  ASSUME IInv, NEW i \in Boards, NEW hop \in Neighbours(i), Exhausted(i, hop)
  PROVE  IInv'
<1> DEFINE b == Board(i)
           e == [b.view[hop] EXCEPT !.dropped = TRUE]
           c == [b EXCEPT !.view = [b.view EXCEPT ![hop] = e]]
<1>1. i \in Nodes \ {ROOT} /\ BoardInv(i, b)
  BY DEF Boards, IInv
<1>2. b \in BoardStates(i) /\ Sane(i, b)
  BY <1>1 DEF BoardInv
<1>3. [b EXCEPT !.view[hop].dropped = TRUE] = c
  BY <1>2 DEF BoardStates
<1>4. Become({i}, [k \in {i} |-> Recomputed(c)]) /\ UNCHANGED up
  BY <1>3 DEF Exhausted
<1> HIDE DEF b
<1>5. e \in Entries /\ e.rank = b.view[hop].rank /\ e.version = b.view[hop].version
  <2>1. b.view[hop] \in Entries
    BY <1>1, <1>2, StateParts
  <2> QED BY <2>1 DEF Entries
<1> HIDE DEF e
<1>6. /\ c \in BoardStates(i) /\ c.p = b.p /\ c.phase = b.phase
      /\ c.configured = b.configured
  BY <1>1, <1>2, <1>5, EntryIs
<1> HIDE DEF c
<1>7. Sane(i, c)
  BY <1>2, <1>6 DEF Sane
<1>8. BoardInv(i, Recomputed(c))
  BY <1>1, <1>6, <1>7, RecomputedIs DEF BoardInv
<1> QED BY <1>1, <1>4, <1>8, OneBecomes

LEMMA SetVersionKeeps ==
  ASSUME IInv, SetVersion
  PROVE  IInv'
<1> DEFINE b == Board(ROOT)
           q == [p[ROOT] EXCEPT !.version = @ + 1]
<1>1. ROOT \in Nodes /\ BoardInv(ROOT, b) /\ b \in BoardStates(ROOT)
  BY Constants DEF IInv, BoardInv
<1>2. p[ROOT] \in Selections /\ p[ROOT].version + 1 \in 0 .. MAX_VERSION
  <2>1. p[ROOT] \in Selections /\ p[ROOT].version \in 0 .. MAX_VERSION
    BY <1>1 DEF IInv, Selections
  <2> QED BY <2>1, Constants DEF SetVersion
<1>3. q \in Selections /\ q.preferred = p[ROOT].preferred /\ q.members = p[ROOT].members
  BY <1>2 DEF Selections
<1>4. p' = [p EXCEPT ![ROOT] = q]
  BY DEF SetVersion
<1> HIDE DEF q
<1>5. Board(ROOT)' = [b EXCEPT !.p = q]
  BY <1>1, <1>4 DEF SetVersion, Board, IInv
<1>6. BoardInv(ROOT, Board(ROOT)')
  <2>1. b.p = p[ROOT]
    BY <1>1, BoardIs
  <2> HIDE DEF b
  <2>2. [b EXCEPT !.p = q] \in BoardStates(ROOT) /\ [b EXCEPT !.p = q].p = q
    BY <1>1, <1>3 DEF BoardStates
  <2>3. q.preferred = NoParent /\ q.members = {}
    BY <1>1, <1>3, <2>1 DEF BoardInv
  <2> QED BY <1>5, <2>2, <2>3 DEF BoardInv
<1>7. ASSUME NEW j \in Nodes \ {ROOT} PROVE BoardInv(j, Board(j)')
  <2>1. Board(j)' = Board(j)
    BY <1>4 DEF SetVersion, Board, IInv
  <2> QED BY <2>1 DEF IInv
<1>8. \A j \in Nodes : BoardInv(j, Board(j)')
  BY <1>6, <1>7
<1>9. p' \in [Nodes -> Selections]
  BY <1>1, <1>3, <1>4 DEF IInv
<1> QED BY <1>8, <1>9 DEF SetVersion, IInv, BoardInv

LEMMA UnmovedKeeps ==
  ASSUME IInv, UNCHANGED <<p, phase, configured, poisoned, view>>, up' \subseteq Links
  PROVE  IInv'
<1>1. \A j \in Nodes : Board(j)' = Board(j)
  BY DEF Board
<1>2. \A j \in Nodes : BoardInv(j, Board(j)')
  BY <1>1 DEF IInv
<1> QED BY <1>2 DEF IInv, BoardInv

LEMMA NextKeeps == IInv /\ [Next]_vars => IInv'
<1> SUFFICES ASSUME IInv, [Next]_vars PROVE IInv'
  OBVIOUS
<1>1. ASSUME NEW i \in Nodes, Frame(i) \/ Info(i) PROVE IInv'
  BY <1>1, TransmitKeeps DEF Frame, Info
<1>2. ASSUME NEW i \in Boards, Solicit(i) PROVE IInv'
  BY <1>2, TransmitKeeps DEF Solicit, Boards
<1>3. ASSUME NEW i \in Boards, HoldOver(i) \/ WindowOver(i) PROVE IInv'
  BY <1>3, HoldOverKeeps, WindowOverKeeps
<1>4. ASSUME NEW i \in Boards, NEW j \in Neighbours(i), Silent(i, j) \/ Exhausted(i, j)
      PROVE  IInv'
  BY <1>4, SilentKeeps, ExhaustedKeeps
<1>5. CASE SetVersion
  BY <1>5, SetVersionKeeps
<1>6. ASSUME NEW l \in Links, Cut(l) PROVE IInv'
  BY <1>6, UnmovedKeeps DEF Cut, IInv
<1>7. CASE UNCHANGED vars
  BY <1>7, UnmovedKeeps DEF vars, IInv
<1> QED BY <1>1, <1>2, <1>3, <1>4, <1>5, <1>6, <1>7 DEF Next

LEMMA Always == Spec => []IInv
  BY InitKeeps, NextKeeps, PTL DEF Spec

\* The types of the selections and of the phases, on every board.
THEOREM RoutingTypes == Spec => []TypeOK
<1>1. ASSUME IInv PROVE TypeOK
  <2>1. ASSUME NEW i \in Nodes
        PROVE  /\ p[i].rank \in 0 .. INFINITE /\ p[i].lowest \in 0 .. INFINITE
               /\ p[i].preferred \in Neighbours(i) \cup {NoParent}
               /\ p[i].members \subseteq Neighbours(i)
               /\ p[i].version \in 0 .. MAX_VERSION /\ p[i].behind \in BOOLEAN
    <3>1. Board(i).p = p[i] /\ BoardInv(i, Board(i)) /\ p[i] \in Selections
      BY <1>1, BoardIs DEF IInv
    <3>2. /\ p[i].rank \in 0 .. INFINITE /\ p[i].lowest \in 0 .. INFINITE
          /\ p[i].version \in 0 .. MAX_VERSION /\ p[i].behind \in BOOLEAN
      BY <3>1 DEF Selections, Ranks
    <3>3. CASE i = ROOT
      BY <3>1, <3>2, <3>3 DEF BoardInv
    <3>4. CASE i # ROOT
      <4>1. Sane(i, Board(i))
        BY <3>1, <3>4 DEF BoardInv
      <4> QED BY <3>1, <3>2, <4>1 DEF Sane, Unattached
    <3> QED BY <3>3, <3>4
  <2> QED BY <1>1, <2>1 DEF IInv, TypeOK, Phases
<1> QED BY <1>1, Always, PTL

\* An attached board forwards downhill, for any network, link cost, rank bound and
\* parent set, whatever frames are lost and links cut (parents.py, L).
THEOREM ForwardsDownhill == Spec => []Downhill
<1>1. ASSUME IInv PROVE Downhill
  <2> SUFFICES ASSUME NEW i \in Boards, Attached(i)
               PROVE  LET q == p[i]
                          last == [j \in Neighbours(i) |-> view[i][j]]
                      IN  /\ q.lowest <= q.rank /\ q.rank <= Bound(q)
                          /\ q.preferred \in q.members
                          /\ last[q.preferred].version = q.version => last[q.preferred].rank < q.rank
                          /\ \A j \in q.members \ {q.preferred} :
                               last[j].version = q.version /\ last[j].rank < q.lowest
    BY DEF Downhill
  <2>1. /\ Board(i).p = p[i] /\ Board(i).view = view[i] /\ i # ROOT
        /\ Sane(i, Board(i)) /\ Below(Board(i)) /\ p[i].rank # INFINITE
    BY <1>1, BoardIs DEF IInv, BoardInv, Boards, Attached
  <2> QED BY <2>1 DEF Sane, Below
<1> QED BY <1>1, Always, PTL

------------------------------------------------------------------------------
(* What a board tells of itself. *)

Intervals ==
  [level : 0 .. TOP, first : BOOLEAN, decided : BOOLEAN, count : Nat, infos : Nat,
   sent : BOOLEAN, infoSent : BOOLEAN, need : BOOLEAN]

Flags == SUBSET (FLAGS \cup {FIRST})

Frames == [info : BOOLEAN, fresh : BOOLEAN, report : Flags \cup {None}, same : BOOLEAN]

\* The report queued holds the flags it carries, and so does the frame that waits
\* with it.
CarriedTracked ==
  /\ presence # None => presence = carried
  /\ packed # None /\ packed.same /\ packed.report # None => packed.report = carried

\* What the flags of reports need.
FlagsInv ==
  /\ raised \in Flags /\ sticky \in Flags /\ carried \in Flags
  /\ presence \in Flags \cup {None} /\ packed \in Frames \cup {None}
  /\ CarriedTracked /\ FlagsKept

\* A need not met yet was not answered in the interval, which has still to decide.
Unanswered ==
  asked => /\ trickle \in Intervals
           /\ trickle.need /\ ~trickle.decided /\ ~trickle.infoSent /\ trickle.infos < K

NeedInv == trickle \in Intervals \cup {Off} /\ asked \in BOOLEAN /\ Unanswered

------------------------------------------------------------------------------
LEMMA FlagsInit == AdvertInit => FlagsInv
BY DEF AdvertInit, FlagsInv, CarriedTracked, FlagsKept, Flags

LEMMA FlagsStep == FlagsInv /\ [AdvertNext]_advertVars => FlagsInv'
<1> SUFFICES ASSUME FlagsInv, [AdvertNext]_advertVars PROVE FlagsInv'
  OBVIOUS
<1> USE DEF FlagsInv, CarriedTracked, FlagsKept, reports, adverts
<1>1. CASE UNCHANGED advertVars
  BY <1>1 DEF advertVars
<1>2. CASE Poll
  BY <1>2 DEF Poll
<1>3. CASE HearNeed \/ Beacon \/ Detach \/ SolicitStop
  BY <1>3 DEF HearNeed, Beacon, Detach, SolicitStop
<1>4. CASE Attach \/ Switch \/ ProbeOver
  BY <1>4 DEF Attach, Switch, ProbeOver
<1>5. ASSUME NEW b \in BOOLEAN, HearSame(b) \/ RankError(b) PROVE FlagsInv'
  BY <1>5 DEF HearSame, RankError
<1>6. ASSUME NEW f \in FLAGS, Raise(f) PROVE FlagsInv'
  BY <1>6 DEF Raise, Flags
<1>7. CASE SendPresence
  <2>1. CASE presence' = sticky' /\ carried' = sticky'
             /\ packed' = IF packed = None THEN None ELSE [packed EXCEPT !.same = FALSE]
    <3>1. packed' \in Frames \cup {None}
      BY <2>1 DEF Frames
    <3>2. packed' # None => ~packed'.same
      BY <2>1 DEF Frames
    <3>3. QED
      BY <1>7, <2>1, <3>1, <3>2 DEF SendPresence, Flags
  <2>2. CASE UNCHANGED <<presence, carried, packed>>
    BY <1>7, <2>2 DEF SendPresence, Flags
  <2>3. QED
    BY <1>7, <2>1, <2>2 DEF SendPresence
<1>8. CASE DropPresence
  BY <1>8 DEF DropPresence
<1>9. CASE DropAdvert
  <2>1. /\ packed' \in Frames \cup {None}
        /\ packed' # None => packed # None /\ packed'.same = packed.same /\ packed'.report = packed.report
    BY <1>9 DEF DropAdvert, Frames
  <2>2. QED
    BY <1>9, <2>1 DEF DropAdvert
<1>10. ASSUME NEW timer \in {"presence", "topology"}, StopTimer(timer) PROVE FlagsInv'
  BY <1>10 DEF StopTimer
<1>11. ASSUME NEW info \in BOOLEAN, NEW report \in BOOLEAN, Pack(info, report) PROVE FlagsInv'
  <2>1. packed' = [info |-> info, fresh |-> info,
                   report |-> IF report THEN presence ELSE None, same |-> report]
    BY <1>11 DEF Pack
  <2>2. packed' \in Frames
    BY <2>1 DEF Frames
  <2>3. packed'.same /\ packed'.report # None => packed'.report = carried
    BY <2>1
  <2>4. QED
    BY <1>11, <2>2, <2>3 DEF Pack
<1>12. ASSUME NEW sampled \in BOOLEAN, Send(sampled) PROVE FlagsInv'
  <2>1. CASE IsReport
    <3>1. packed.report = carried /\ packed.report # None
      BY <1>12, <2>1 DEF IsReport, Send
    <3>2. /\ sticky' = sticky \ carried /\ carried' = {} /\ presence' = None
          /\ unreported' = unreported \ carried /\ raised' = raised /\ packed' = None
      BY <1>12, <2>1, <3>1 DEF Send, Cleared
    <3>3. QED
      BY <3>2 DEF Flags
  <2>2. CASE ~IsReport
    BY <1>12, <2>2 DEF Send
  <2>3. QED
    BY <2>1, <2>2
<1>13. QED
  BY <1>1, <1>2, <1>3, <1>4, <1>5, <1>6, <1>7, <1>8, <1>9, <1>10, <1>11, <1>12 DEF AdvertNext

\* A flag raised is never lost: it waits until a presence with it is on air, whatever
\* frame waited for the channel when it was raised (reports.py, flags, _sent).
THEOREM NoFlagLost == AdvertSpec => []FlagsKept
<1>1. FlagsInv => FlagsKept
  BY DEF FlagsInv
<1>2. QED
  BY FlagsInit, FlagsStep, <1>1, PTL DEF AdvertSpec

------------------------------------------------------------------------------
LEMMA NoneIsOff == Off \notin Intervals
BY AdvertisingAssumption DEF Off, Intervals

LEMMA FreshInterval ==
  ASSUME NEW level \in 0 .. TOP, NEW first \in BOOLEAN, NEW need \in BOOLEAN
  PROVE  Interval(level, first, need) \in Intervals
BY DEF Interval, Intervals

\* A reset of t into r keeps a need, and what r knows of information is what t did.
ResetKeeps(r, t, need) ==
  /\ r \in Intervals /\ r.need = (need \/ (t # Off /\ t.need)) /\ ~r.decided
  /\ \/ r.infoSent = FALSE /\ r.infos = 0
     \/ t # Off /\ r.infoSent = t.infoSent /\ r.infos = t.infos

LEMMA ResetTyped ==
  ASSUME NEW t \in Intervals \cup {Off}, NEW need \in BOOLEAN
  PROVE  ResetKeeps(Reset(t, need), t, need)
<1> DEFINE needed == need \/ (t # Off /\ t.need)
<1>1. needed \in BOOLEAN
  BY DEF Intervals
<1>2. CASE t # Off /\ t.level = 0 /\ t.first /\ ~t.decided
  <2>1. Reset(t, need) = [t EXCEPT !.need = needed]
    BY <1>2 DEF Reset
  <2>2. QED
    BY <1>1, <1>2, <2>1 DEF Intervals, ResetKeeps
<1>3. CASE ~(t # Off /\ t.level = 0 /\ t.first /\ ~t.decided)
  <2>1. Reset(t, need) = Interval(0, TRUE, needed)
    BY <1>3 DEF Reset
  <2>2. 0 \in 0 .. TOP
    BY AdvertisingAssumption
  <2>3. Interval(0, TRUE, needed) \in Intervals
    BY <1>1, <2>2, FreshInterval
  <2>4. QED
    BY <2>1, <2>3 DEF Interval, ResetKeeps
<1>4. QED
  BY <1>2, <1>3

LEMMA NeedInit == AdvertInit => NeedInv
BY DEF AdvertInit, NeedInv, Unanswered

LEMMA NeedResets ==
  ASSUME NeedInv, NEW need \in BOOLEAN, Resets(need)
  PROVE  NeedInv'
<1>1. trickle' = Reset(trickle, need)
  BY DEF Resets
<1>2. trickle \in Intervals \cup {Off}
  BY DEF NeedInv
<1> DEFINE r == Reset(trickle, need)
<1>3. ResetKeeps(r, trickle, need)
  BY <1>2, ResetTyped
<1> HIDE DEF r
<1>4. r = trickle'
  BY <1>1 DEF r
<1>5. asked' = IF need THEN asked \/ (~r.infoSent /\ r.infos = 0) ELSE asked
  BY <1>4 DEF Resets
<1>6. r.infoSent \in BOOLEAN /\ r.infos \in Nat /\ r.need \in BOOLEAN
  BY <1>3 DEF Intervals, ResetKeeps
<1>7. K > 0
  BY AdvertisingAssumption
<1>8. asked => trickle # Off /\ trickle.need /\ ~trickle.infoSent /\ trickle.infos < K
  BY NoneIsOff DEF NeedInv, Unanswered
<1>9. asked' \in BOOLEAN
  BY <1>5, <1>6 DEF NeedInv
<1>10. asked' => r.need /\ ~r.infoSent /\ r.infos < K
  BY <1>3, <1>5, <1>6, <1>7, <1>8 DEF ResetKeeps
<1>11. QED
  BY <1>3, <1>4, <1>9, <1>10 DEF ResetKeeps, NeedInv, Unanswered

\* A need recorded and not met yet makes Poll advertise.
LEMMA NeedPoll == NeedInv /\ Poll => NeedInv'
<1> SUFFICES ASSUME NeedInv, Poll PROVE NeedInv'
  OBVIOUS
<1>1. trickle \in Intervals
  BY DEF NeedInv, Poll, Running
<1> DEFINE t == trickle
           now == ~t.decided /\ Decides(t)
           decided == [t EXCEPT !.decided = TRUE, !.need = @ /\ t.decided]
           next == Doubled(decided)
           then == [next EXCEPT !.decided = TRUE, !.need = @ /\ now]
<1>2. PICK late \in BOOLEAN :
        /\ trickle' = IF late THEN then ELSE IF t.decided THEN next ELSE decided
        /\ asked' = (asked /\ ~(now \/ (late /\ Decides(next))))
  BY DEF Poll
<1>3. asked => now
  BY <1>1 DEF NeedInv, Unanswered, Decides, Intervals
<1>4. asked' = FALSE
  BY <1>2, <1>3 DEF NeedInv
<1>5. decided \in Intervals
  BY <1>1 DEF Intervals
<1>6. next \in Intervals
  <2>1. (IF decided.level < TOP THEN decided.level + 1 ELSE TOP) \in 0 .. TOP
    <3>1. decided.level \in 0 .. TOP
      BY <1>5 DEF Intervals
    <3> HIDE DEF decided
    <3>2. QED
      BY <3>1, AdvertisingAssumption
  <2>2. decided.need \in BOOLEAN
    BY <1>5 DEF Intervals
  <2>3. QED
    BY <2>1, <2>2, FreshInterval DEF Doubled
<1>7. then \in Intervals
  BY <1>6 DEF Intervals
<1>8. QED
  BY <1>2, <1>4, <1>5, <1>6, <1>7 DEF NeedInv, Unanswered

LEMMA NeedStep == FlagsInv /\ NeedInv /\ [AdvertNext]_advertVars => NeedInv'
<1> SUFFICES ASSUME FlagsInv, NeedInv, [AdvertNext]_advertVars PROVE NeedInv'
  OBVIOUS
<1>1. CASE UNCHANGED <<trickle, asked>>
  BY <1>1 DEF NeedInv, Unanswered
<1>2. CASE Poll
  BY <1>2, NeedPoll
<1>3. CASE HearNeed \/ Attach \/ \E b \in BOOLEAN : RankError(b)
  <2>1. \E need \in BOOLEAN : Resets(need)
    BY <1>3 DEF HearNeed, Attach, RankError
  <2>2. QED
    BY <2>1, NeedResets
<1>4. CASE Detach
  BY <1>4, ResetTyped DEF Detach, ResetKeeps, NeedInv, Unanswered
<1>5. CASE SolicitStop
  BY <1>5 DEF SolicitStop, NeedInv, Unanswered
<1>6. ASSUME NEW info \in BOOLEAN, HearSame(info) PROVE NeedInv'
  <2>1. trickle \in Intervals
    BY <1>6 DEF HearSame, Running, NeedInv
  <2>2. trickle' = [trickle EXCEPT !.count = Another(@), !.infos = IF info THEN Another(@) ELSE @]
    BY <1>6 DEF HearSame
  <2>3. trickle' \in Intervals
    <3>1. /\ Another(trickle.count) \in Nat
          /\ (IF info THEN Another(trickle.infos) ELSE trickle.infos) \in Nat
      BY <2>1, AdvertisingAssumption DEF Intervals, Another
    <3>2. QED
      BY <2>1, <2>2, <3>1 DEF Intervals
  <2>4. /\ trickle'.need = trickle.need /\ trickle'.decided = trickle.decided
        /\ trickle'.infoSent = trickle.infoSent
    BY <2>1, <2>2 DEF Intervals
  <2>5. asked' = (asked /\ trickle'.infos < K)
    BY <1>6 DEF HearSame
  <2>6. QED
    BY <2>3, <2>4, <2>5 DEF NeedInv, Unanswered
<1>7. ASSUME NEW sampled \in BOOLEAN, Send(sampled) PROVE NeedInv'
  <2>1. packed \in Frames
    BY <1>7 DEF Send, FlagsInv
  <2>2. packed.info \in BOOLEAN
    BY <2>1 DEF Frames
  <2>3. asked' = (asked /\ ~packed.info)
    BY <1>7 DEF Send
  <2>4. CASE Running
    <3>1. trickle \in Intervals
      BY <2>4 DEF Running, NeedInv
    <3>2. trickle' = [trickle EXCEPT !.sent = TRUE, !.infoSent = @ \/ packed.info]
      BY <1>7, <2>4 DEF Send
    <3>3. /\ trickle' \in Intervals
          /\ trickle'.need = trickle.need /\ trickle'.decided = trickle.decided
          /\ trickle'.infos = trickle.infos
          /\ trickle'.infoSent = (trickle.infoSent \/ packed.info)
      BY <2>2, <3>1, <3>2 DEF Intervals
    <3>4. QED
      BY <2>2, <2>3, <3>3 DEF NeedInv, Unanswered
  <2>5. CASE ~Running
    <3>1. trickle' = trickle
      BY <1>7, <2>5 DEF Send
    <3>2. QED
      BY <2>2, <2>3, <3>1 DEF NeedInv, Unanswered
  <2>6. QED
    BY <2>4, <2>5
<1>8. QED
  <2>1. CASE Beacon \/ Switch \/ SendPresence \/ DropPresence \/ DropAdvert \/ ProbeOver
    BY <1>1, <2>1 DEF Beacon, Switch, SendPresence, DropPresence, DropAdvert, ProbeOver, adverts, reports
  <2>2. CASE \/ \E f \in FLAGS : Raise(f)
             \/ \E timer \in {"presence", "topology"} : StopTimer(timer)
             \/ \E info, report \in BOOLEAN : Pack(info, report)
             \/ UNCHANGED advertVars
    BY <1>1, <2>2 DEF Raise, StopTimer, Pack, advertVars, adverts
  <2>3. QED
    BY <1>2, <1>3, <1>4, <1>5, <1>6, <1>7, <2>1, <2>2 DEF AdvertNext

\* A need for information leaves the timer only when an advertisement was asked for,
\* sent, or K of them heard (trickle.py, reset, poll, _decide).
THEOREM NeedMet == AdvertSpec => []NeedKept
<1>1. NeedInv => NeedKept
  BY NoneIsOff DEF NeedInv, Unanswered, NeedKept, Running
<1>2. QED
  BY FlagsInit, FlagsStep, NeedInit, NeedStep, <1>1, PTL DEF AdvertSpec
==============================================================================
