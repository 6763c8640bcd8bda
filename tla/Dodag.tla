-------------------------------- MODULE Dodag --------------------------------
(***************************************************************************)
(* mesh/dodag.py and mesh/parents.py on the boards of a network: boot,     *)
(* parent selection, poisoning, hold, solicitation, answer window and      *)
(* adoption of DODAG versions, over a broadcast channel that loses frames. *)
(*                                                                         *)
(* A frame is heard when it is sent (it carries the header of that         *)
(* moment), by the neighbours that do not lose it; their step, with its    *)
(* selection, is part of the transmission.  Durations are left open: the   *)
(* hold and the window end, and a neighbour behind a cut link falls        *)
(* silent, at any time.                                                    *)
(***************************************************************************)
EXTENDS ParentSelection

CONSTANTS
  Nodes,        \* addresses, the root included
  Links,        \* pairs {a, b} that hear each other
  HOP,          \* link cost, 8 (ETX 1) at least: not below the rank hysteresis
  MAX_LOSSES,   \* frames lost in a row on a link
  MAX_VERSION,  \* bound: last version the root issues
  MAX_FAULTS,   \* bound: links cut and versions issued
  STRAY         \* bound: whether messages may still wait for a former parent

ASSUME DodagAssumption ==
  /\ ROOT \in Nodes /\ Nodes \subseteq Nat
  /\ \A l \in Links : l \subseteq Nodes /\ Cardinality(l) = 2
  /\ HOP \in RANK_HYSTERESIS .. MAX_LINK_COST
  /\ MAX_LOSSES \in Nat /\ MAX_VERSION \in 0 .. 7 /\ MAX_FAULTS \in Nat
  /\ STRAY \in BOOLEAN

VARIABLES
  p,           \* selection state of each node
  phase,       \* "free", "hold", "soliciting" or "window"
  configured,  \* a version was adopted since boot
  poisoned,    \* only neighbours heard since the poison, or the solicitation, count
  view,        \* view[i][j]: what i last heard of j, NotHeard
  lost,        \* lost[i][j]: frames of i lost in a row by j
  up           \* links not cut

vars == <<p, phase, configured, poisoned, view, lost, up>>

Boards == Nodes \ {ROOT}

Neighbours(i) == {j \in Nodes : {i, j} \in Links}

NotHeard == [rank |-> INFINITE, version |-> 0, fresh |-> FALSE, after |-> FALSE, dropped |-> FALSE]

RootState(version) == [Unattached(version) EXCEPT !.rank = 0, !.lowest = 0]

Init ==
  /\ p = [i \in Nodes |-> IF i = ROOT THEN RootState(0) ELSE Unattached(0)]
  /\ phase = [i \in Nodes |-> "free"]
  /\ configured = [i \in Nodes |-> i = ROOT]
  /\ poisoned = [i \in Nodes |-> FALSE]
  /\ view = [i \in Nodes |-> [j \in Neighbours(i) |-> NotHeard]]
  /\ lost = [i \in Nodes |-> [j \in Neighbours(i) |-> 0]]
  /\ up = Links

Attached(i) == p[i].rank # INFINITE

------------------------------------------------------------------------------
(* The state of one board, and the steps of its selection. *)

Board(i) == [p |-> p[i], phase |-> phase[i], poisoned |-> poisoned[i],
             configured |-> configured[i], view |-> view[i]]

\* The entries of a board, as the selection reads them.
Seen(b) ==
  [j \in DOMAIN b.view |->
     [rank |-> b.view[j].rank, version |-> b.view[j].version,
      fresh |-> b.view[j].fresh, after |-> b.poisoned => b.view[j].after,
      dropped |-> b.view[j].dropped, cost |-> HOP, marginOK |-> TRUE,
      reachable |-> TRUE, margin |-> 0]]

\* No neighbour was heard since now.
Forgotten(v) == [j \in DOMAIN v |-> [v[j] EXCEPT !.after = FALSE]]

\* A mutant of Detached: no hold.
DetachedAtOnce(b) == [b EXCEPT !.p = Unattached(b.p.version)]

\* _detach: poison, then hold.
Detached(b) ==
  [b EXCEPT !.p = Unattached(b.p.version), !.phase = "hold", !.poisoned = TRUE,
            !.view = Forgotten(b.view)]

\* recompute: nothing is selected in the hold, before the solicitation and in the
\* window; without candidate an attached node detaches.
Recomputed(b) ==
  LET best == Best(b.p, Seen(b))
      q == Selected(b.p, best)
  IN  IF b.phase # "free" \/ ~b.configured THEN b
      ELSE IF best = {} THEN IF b.p.rank = INFINITE THEN b ELSE Detached(b)
      ELSE [b EXCEPT !.p = q, !.poisoned = b.poisoned /\ b.p.rank # INFINITE,
                     !.view = IF b.p.rank = INFINITE THEN Forgotten(@) ELSE @]

\* on_new_version: select again in the version, or detach.
Adopted(b, version) ==
  LET kept == [j \in DOMAIN b.view |-> [b.view[j] EXCEPT !.dropped = FALSE]]
      c == Recomputed([b EXCEPT !.p = Unattached(version), !.configured = TRUE, !.view = kept])
  IN  IF c.p.rank = INFINITE /\ b.p.rank # INFINITE
        THEN Detached([c EXCEPT !.p.rank = b.p.rank]) ELSE c

\* A frame of a neighbour enters the table, and may tell of a newer version.
Noted(b, j, header) ==
  LET attached == b.p.rank # INFINITE
  IN  [b EXCEPT !.view[j] = [rank |-> header.rank, version |-> header.version,
                             fresh |-> TRUE, after |-> b.poisoned, dropped |-> FALSE],
                !.p.behind = \/ @
                             \/ /\ attached /\ b.configured /\ header.rank # INFINITE
                                /\ Newer(header.version, b.p.version)]

\* A mutant of Adopts: a board without version waits to be attached first.
AdoptsAttached(b, header) ==
  header.kind = "info" /\ header.rank # INFINITE /\ Newer(header.version, b.p.version)

\* _on_info: does the DODAG information in the frame make the board adopt it?
Adopts(b, header) ==
  /\ header.kind = "info" /\ header.rank # INFINITE
  /\ \/ ~b.configured
     \/ b.p.rank # INFINITE /\ Newer(header.version, b.p.version)
     \/ /\ b.p.rank = INFINITE /\ header.version # b.p.version
        /\ b.phase \notin {"hold", "soliciting"}

\* The step of a board that hears the frame of j.
Heard(b, j, header) ==
  LET n == Noted(b, j, header)
  IN  IF Adopts(n, header) THEN Adopted(n, header.version) ELSE Recomputed(n)

\* solicited: the solicitation of a detached board goes on air.
Solicited(b) ==
  IF b.p.rank # INFINITE \/ b.phase \in {"hold", "window"} THEN b
  ELSE IF b.phase = "soliciting"
    THEN [b EXCEPT !.phase = "window", !.poisoned = TRUE, !.view = Forgotten(@)]
    ELSE [b EXCEPT !.phase = "window"]

\* The boards of S take the states of c.
Become(S, c) ==
  /\ p' = [i \in Nodes |-> IF i \in S THEN c[i].p ELSE p[i]]
  /\ phase' = [i \in Nodes |-> IF i \in S THEN c[i].phase ELSE phase[i]]
  /\ configured' = [i \in Nodes |-> IF i \in S THEN c[i].configured ELSE configured[i]]
  /\ poisoned' = [i \in Nodes |-> IF i \in S THEN c[i].poisoned ELSE poisoned[i]]
  /\ view' = [i \in Nodes |-> IF i \in S THEN c[i].view ELSE view[i]]

------------------------------------------------------------------------------
\* A frame of i goes on air; the neighbours in gone lose it.
Transmit(i, kind, gone) ==
  LET near == {j \in Neighbours(i) : {i, j} \in up}
      header == [rank |-> p[i].rank, version |-> p[i].version, kind |-> kind]
      sender == IF kind = "solicit" THEN Solicited(Board(i)) ELSE Board(i)
      hearing == {j \in near \ gone : j # ROOT}
  IN  /\ gone \subseteq near
      /\ \A j \in gone : lost[i][j] < MAX_LOSSES
      /\ lost' = [lost EXCEPT ![i] = [j \in Neighbours(i) |->
                    IF j \in gone THEN lost[i][j] + 1 ELSE IF j \in near THEN 0 ELSE @[j]]]
      /\ UNCHANGED up
      /\ Become(hearing \cup {i},
                [j \in hearing \cup {i} |-> IF j = i THEN sender ELSE Heard(Board(j), i, header)])

\* Any frame: presence, acknowledgement, poison...  The poison is offered to the queue
\* once: a full queue may refuse it, or it may share the frame of the solicitation.
Frame(i) == \E gone \in SUBSET Neighbours(i) : Transmit(i, "frame", gone)

\* A frame with DODAG information, sent with a route.
Info(i) == Attached(i) /\ configured[i] /\ \E gone \in SUBSET Neighbours(i) : Transmit(i, "info", gone)

\* A solicitation: at boot, after the hold, periodic without route, or behind a
\* newer version.
Solicits(i) ==
  i # ROOT /\ IF Attached(i) THEN p[i].behind ELSE phase[i] # "hold"

Solicit(i) ==
  /\ Solicits(i)
  /\ \E gone \in SUBSET Neighbours(i) : Transmit(i, "solicit", gone)

\* The hold's duration is over.
HoldOver(i) ==
  /\ phase[i] = "hold"
  /\ phase' = [phase EXCEPT ![i] = "soliciting"]
  /\ UNCHANGED <<p, configured, poisoned, view, lost, up>>

\* The answer window closes: the best candidate heard is taken.
WindowOver(i) ==
  /\ phase[i] = "window" /\ configured[i]
  /\ UNCHANGED <<lost, up>>
  /\ Become({i}, [j \in {i} |-> Recomputed([Board(i) EXCEPT !.phase = "free"])])

\* A neighbour behind a cut link falls silent; a member that does is noticed.
Silent(i, j) ==
  /\ {i, j} \notin up /\ view[i][j].fresh
  /\ UNCHANGED <<lost, up>>
  /\ LET b == [Board(i) EXCEPT !.view[j].fresh = FALSE]
     IN  Become({i}, [k \in {i} |-> IF j \in p[i].members THEN Recomputed(b) ELSE b])

\* next_parent: the attempts of a message to hop are exhausted.
Exhausted(i, hop) ==
  /\ i # ROOT
  /\ hop \in p[i].members \/ (STRAY /\ view[i][hop] # NotHeard)
  /\ UNCHANGED <<lost, up>>
  /\ LET b == Board(i)
     IN  /\ ~Kept(b.p, Seen(b), hop)
         /\ Become({i}, [k \in {i} |-> Recomputed([b EXCEPT !.view[hop].dropped = TRUE])])

Faults == Cardinality(Links \ up) + p[ROOT].version

\* set_version: the root issues a version.
SetVersion ==
  /\ p[ROOT].version < MAX_VERSION /\ Faults < MAX_FAULTS
  /\ p' = [p EXCEPT ![ROOT].version = @ + 1]
  /\ UNCHANGED <<phase, configured, poisoned, view, lost, up>>

Cut(l) ==
  /\ l \in up /\ Faults < MAX_FAULTS
  /\ up' = up \ {l}
  /\ UNCHANGED <<p, phase, configured, poisoned, view, lost>>

Next ==
  \/ \E i \in Nodes : Frame(i) \/ Info(i)
  \/ \E i \in Boards : Solicit(i) \/ HoldOver(i) \/ WindowOver(i)
  \/ \E i \in Boards : \E j \in Neighbours(i) : Silent(i, j) \/ Exhausted(i, j)
  \/ SetVersion
  \/ \E l \in Links : Cut(l)

Spec == Init /\ [][Next]_vars

\* A frame with DODAG information that j does not lose.
Reaches(i, j) == \E gone \in SUBSET (Neighbours(i) \ {j}) : Transmit(i, "info", gone)

\* Weak fairness, with what enables each action written out (TLC evaluates ENABLED
\* of these steps too slowly).  Boards keep sending: presence reports and Trickle
\* beacons while they have a route, periodic solicitations while they have none; not
\* all the information of a board is lost by a neighbour; the hold, the window and the
\* silence limit end.
Heeded(i) == \E l \in up : i \in l

Fairness ==
  /\ \A i \in Nodes : \A j \in Neighbours(i) :
       []<>~({i, j} \in up /\ Attached(i) /\ configured[i]) \/ []<><<Reaches(i, j)>>_vars
  /\ \A i \in Boards : []<>~(Heeded(i) /\ Solicits(i)) \/ []<><<Solicit(i)>>_vars
  /\ \A i \in Boards : []<>(phase[i] # "hold")
  /\ \A i \in Boards : []<>~(phase[i] = "window" /\ configured[i])
  /\ \A i \in Boards : \A j \in Neighbours(i) : []<>({i, j} \in up \/ ~view[i][j].fresh)

FairSpec == Spec /\ Fairness

------------------------------------------------------------------------------
\* The nodes on the way from i along preferred parents, i included only on a cycle.
Path(i) ==
  LET further(S) == {p[k].preferred : k \in S \cup {i}} \ {NoParent}
      step[n \in 0 .. Cardinality(Nodes)] == IF n = 0 THEN {} ELSE further(step[n - 1]) \cup step[n - 1]
  IN  step[Cardinality(Nodes)]

\* The nodes that links join to the root.
Connected ==
  LET step[n \in 0 .. Cardinality(Nodes)] ==
        IF n = 0 THEN {ROOT}
        ELSE step[n - 1] \cup {j \in Nodes : \E k \in step[n - 1] : {j, k} \in up}
  IN  step[Cardinality(Nodes)]

TypeOK ==
  /\ \A i \in Nodes : /\ p[i].rank \in 0 .. INFINITE /\ p[i].lowest \in 0 .. INFINITE
                      /\ p[i].preferred \in Neighbours(i) \cup {NoParent}
                      /\ p[i].members \subseteq Neighbours(i)
                      /\ p[i].version \in 0 .. MAX_VERSION /\ p[i].behind \in BOOLEAN
  /\ phase \in [Nodes -> {"free", "hold", "soliciting", "window"}]
  /\ configured \in [Nodes -> BOOLEAN] /\ poisoned \in [Nodes -> BOOLEAN]
  /\ up \subseteq Links

\* An attached board forwards downhill: its rank is at least L and within the bound
\* and above what its preferred parent last advertised in its version, and every
\* other member last advertised a rank below L: parents.py, the count to infinity that
\* the lowest rank L and MaxRankIncrease stop.
Downhill ==
  \A i \in Boards : Attached(i) =>
    LET q == p[i]
        last == [j \in Neighbours(i) |-> view[i][j]]
    IN  /\ q.lowest <= q.rank /\ q.rank <= Bound(q)
        /\ q.preferred \in q.members
        /\ last[q.preferred].version = q.version => last[q.preferred].rank < q.rank
        /\ \A j \in q.members \ {q.preferred} :
             last[j].version = q.version /\ last[j].rank < q.lowest

\* Following preferred parents never comes back to the same board, as long as no link
\* loses two frames in a row (MESH_DESIGN 756-757).  It does not hold: when the poison is
\* never sent, a child that loses the solicitation alone is taken as parent (README,
\* Divergences).
NoLoop == \A i \in Boards : i \notin Path(i)

\* The board has missed the last frame of its preferred parent.
Missed(i) ==
  /\ p[i].preferred # NoParent
  /\ {i, p[i].preferred} \notin up \/ lost[p[i].preferred][i] > 0

\* Whatever ranks are out of date, and whatever poison was never sent, preferred
\* parents close a loop only while a board on it has missed the last frame of its
\* own: parents.py and dodag.py, the version and rank rule, the hold, the solicitation
\* and the answer window.
LoopsOnlyByLoss ==
  [][\A i \in Boards : (i \notin Path(i) /\ i \in Path(i)') =>
       \E k \in Path(i)' : k \in Boards /\ Missed(k)']_vars

\* Once links stop failing and messages are no longer given up on links that work,
\* every board joined to the root settles on a path to it in the last version, and
\* every other board without route: parents.py, dodag.py.
Joined ==
  \A i \in Boards :
    IF i \in Connected THEN ROOT \in Path(i) /\ p[i].version = p[ROOT].version
    ELSE p[i].preferred = NoParent

Sound == \A i \in Boards : \A j \in Neighbours(i) : Exhausted(i, j) => {i, j} \notin up

Settles == <>[][Sound]_vars => <>[]Joined
==============================================================================
