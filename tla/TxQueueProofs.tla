----------------------------- MODULE TxQueueProofs -----------------------------
(***************************************************************************)
(* Proofs about module TxQueue, for any messages, next hops and sizes.     *)
(*                                                                         *)
(* The inductive invariant IInv relates the queue and the origin indices:  *)
(* an origin has one index exactly while it holds messages, so that a      *)
(* queue with room has a free index, by counting; no origin exceeds its    *)
(* share; and a message that does not wait has an attempt left.            *)
(*                                                                         *)
(* The service order is total because two origins never share an index.    *)
(* The frame packed is the last of a sequence of frames that only grow:    *)
(* what fits later fits earlier, when it is no longer and no less urgent.  *)
(* Order and shares follow from this alone.                                *)
(*                                                                         *)
(* Custody is a map from the class 1 and 2 messages of the queue to those  *)
(* of the next one, which keeps their order and leaves no gap before them. *)
(***************************************************************************)
EXTENDS TxQueue, FiniteSetTheorems, FunctionTheorems, SequenceTheorems,
        WellFoundedInduction, TLAPS

------------------------------------------------------------------------------
(* Induction on the naturals, stated for a set instead of a predicate, and the *)
(* functions it defines.                                                       *)

\* Every nonempty set of naturals has a least element.
LEMMA LeastNatural ==
  ASSUME NEW S \in SUBSET Nat, S # {}
  PROVE  \E m \in S : \A k \in S : m <= k
<1> DEFINE R == OpToRel(<, Nat)
<1>1. IsWellFoundedOn(R, Nat)
  BY NatLessThanWellFounded
<1>2. \A x, y \in Nat : x < y <=> <<x, y>> \in R
  BY DEF OpToRel
<1> HIDE DEF R
<1>3. \E x \in S : \A y \in S : <<y, x>> \notin R
  BY <1>1, WFMin
<1>4. PICK x \in S : \A y \in S : <<y, x>> \notin R
  BY <1>3
<1>5. \A y \in S : ~(y < x) /\ y \in Nat /\ x \in Nat
  BY <1>2, <1>4
<1>6. QED
  BY <1>5

\* A set that holds 0, and the successor of each of its elements up to N.
LEMMA Induction ==
  ASSUME NEW N \in Nat, NEW S, 0 \in S, \A i \in 0 .. N - 1 : i \in S => i + 1 \in S
  PROVE  0 .. N \subseteq S
<1> DEFINE T == (0 .. N) \ S
<1>1. SUFFICES ASSUME T # {} PROVE FALSE
  OBVIOUS
<1>2. T \in SUBSET Nat
  OBVIOUS
<1>3. PICK m \in T : \A k \in T : m <= k
  <2> HIDE DEF T
  <2> QED BY <1>1, <1>2, LeastNatural
<1>4. m # 0 /\ m - 1 \in 0 .. N - 1 /\ m - 1 \notin T
  BY <1>3
<1>5. QED
  BY <1>4

\* f iterates F, which maps a value of X and a step to a value, N times from x.
Iterates(f, F, N, X, x) ==
  /\ f \in [0 .. N -> X]
  /\ f[0] = x
  /\ \A i \in 1 .. N : f[i] = F[<<f[i - 1], i>>]

\* The sequence of the iterations exists.
LEMMA Recursion ==
  ASSUME NEW N \in Nat, NEW X, NEW x \in X, NEW F \in [X \X (1 .. N) -> X]
  PROVE  \E f : Iterates(f, F, N, X, x)
<1> DEFINE S == {n \in 0 .. N : \E f : Iterates(f, F, n, X, x)}
<1>1. 0 \in S
  <2>1. Iterates([i \in 0 .. 0 |-> x], F, 0, X, x)
    BY DEF Iterates
  <2>2. QED
    BY <2>1
<1>2. ASSUME NEW n \in 0 .. N - 1, n \in S PROVE n + 1 \in S
  <2>1. PICK f : Iterates(f, F, n, X, x)
    BY <1>2
  <2> USE DEF Iterates
  <2> DEFINE g == [i \in 0 .. n + 1 |-> IF i = n + 1 THEN F[<<f[n], n + 1>>] ELSE f[i]]
  <2>2. g \in [0 .. n + 1 -> X]
    <3>1. <<f[n], n + 1>> \in X \X (1 .. N)
      BY <2>1
    <3>2. \A i \in 0 .. n + 1 : i # n + 1 => i \in 0 .. n
      OBVIOUS
    <3> QED BY <2>1, <3>1, <3>2
  <2>3. g[0] = x
    BY <2>1
  <2>4. ASSUME NEW i \in 1 .. n + 1 PROVE g[i] = F[<<g[i - 1], i>>]
    <3>1. CASE i = n + 1
      <4>1. g[i] = F[<<f[n], n + 1>>] /\ g[i - 1] = f[n]
        BY <3>1
      <4> QED BY <4>1, <3>1
    <3>2. CASE i # n + 1
      <4>1. i \in 1 .. n /\ g[i] = f[i] /\ g[i - 1] = f[i - 1]
        BY <3>2
      <4> QED BY <4>1, <2>1
    <3> QED BY <3>1, <3>2
  <2>5. Iterates(g, F, n + 1, X, x)
    <3> HIDE DEF g
    <3> QED BY <2>2, <2>3, <2>4
  <2> HIDE DEF Iterates, g
  <2>6. QED
    BY <2>5
<1>3. N \in S
  <2> HIDE DEF S
  <2> QED BY <1>1, <1>2, Induction
<1>4. QED
  BY <1>3

------------------------------------------------------------------------------
(* The elements of a finite set in an order. *)

\* R orders K, reflexively.
Orders(R, K) ==
  /\ \A a, b \in K : <<a, b>> \in R \/ <<b, a>> \in R
  /\ \A a, b \in K : (<<a, b>> \in R /\ <<b, a>> \in R) => a = b
  /\ \A a, b, c \in K : (<<a, b>> \in R /\ <<b, c>> \in R) => <<a, c>> \in R

\* How many elements of K there are up to i in order R, and the j-th one.
Upto(K, R, i) == {k \in K : <<k, i>> \in R}
Rank(K, R, i) == Cardinality(Upto(K, R, i))
Nth(K, R, j) == CHOOSE i \in K : Rank(K, R, i) = j

\* A rank counts at least the element itself, and at most all.
LEMMA RankType ==
  ASSUME NEW K, IsFiniteSet(K), NEW R, Orders(R, K), NEW i \in K
  PROVE  /\ IsFiniteSet(Upto(K, R, i)) /\ i \in Upto(K, R, i)
         /\ Rank(K, R, i) \in 1 .. Cardinality(K)
<1>1. Cardinality(K) \in Nat
  BY FS_CardinalityType
<1>2. Upto(K, R, i) \in SUBSET K /\ i \in Upto(K, R, i)
  BY DEF Upto, Orders
<1>3. /\ IsFiniteSet(Upto(K, R, i)) /\ Rank(K, R, i) \in Nat
      /\ Rank(K, R, i) <= Cardinality(K)
  BY <1>2, FS_Subset, FS_CardinalityType DEF Rank
<1>4. Rank(K, R, i) # 0
  BY <1>2, <1>3, FS_EmptySet DEF Rank
<1>5. QED
  BY <1>1, <1>2, <1>3, <1>4

\* Ranks follow the order.
LEMMA RankGrows ==
  ASSUME NEW K, IsFiniteSet(K), NEW R, Orders(R, K), NEW i \in K, NEW j \in K,
         <<i, j>> \in R, i # j
  PROVE  Rank(K, R, i) < Rank(K, R, j)
<1>1. Upto(K, R, i) \in SUBSET Upto(K, R, j)
  BY DEF Upto, Orders
<1>2. j \in Upto(K, R, j) /\ j \notin Upto(K, R, i)
  BY DEF Upto, Orders
<1>3. IsFiniteSet(Upto(K, R, j)) /\ Rank(K, R, i) \in Nat /\ Rank(K, R, j) \in Nat
  BY RankType
<1>4. Rank(K, R, i) <= Rank(K, R, j) /\ Rank(K, R, i) # Rank(K, R, j)
  BY <1>1, <1>2, <1>3, FS_Subset DEF Rank
<1>5. QED
  BY <1>3, <1>4

\* Two elements have different ranks.
LEMMA RankInjective ==
  ASSUME NEW K, IsFiniteSet(K), NEW R, Orders(R, K), NEW i \in K, NEW j \in K,
         Rank(K, R, i) = Rank(K, R, j)
  PROVE  i = j
<1>1. SUFFICES ASSUME i # j PROVE FALSE
  OBVIOUS
<1>2. Rank(K, R, i) \in Nat
  BY RankType
<1>3. <<i, j>> \in R \/ <<j, i>> \in R
  BY DEF Orders
<1>4. QED
  BY <1>1, <1>2, <1>3, RankGrows

\* Every rank up to the number of elements is that of one element.
LEMMA NthIs ==
  ASSUME NEW K, IsFiniteSet(K), NEW R, Orders(R, K), NEW j \in 1 .. Cardinality(K)
  PROVE  Nth(K, R, j) \in K /\ Rank(K, R, Nth(K, R, j)) = j
<1> DEFINE c == Cardinality(K)
           f == [i \in K |-> Rank(K, R, i)]
<1>1. c \in Nat /\ IsFiniteSet(1 .. c)
  BY FS_CardinalityType, FS_Interval
<1>2. Cardinality(1 .. c) = c
  <2>1. Cardinality(1 .. c) = IF 1 > c THEN 0 ELSE c - 1 + 1
    <3>1. c \in Int /\ 1 \in Int
      BY <1>1
    <3> HIDE DEF c
    <3> QED BY <3>1, FS_Interval
  <2> QED BY <1>1, <2>1
<1>3. f \in [K -> 1 .. c]
  BY RankType
<1>4. \A a, b \in K : f[a] = f[b] => a = b
  BY RankInjective
<1> HIDE DEF f
<1>5. f \in Injection(K, 1 .. c)
  BY <1>3, <1>4, Fun_IsInj
<1>6. f \in Surjection(K, 1 .. c)
  BY <1>1, <1>2, <1>5, FS_Injection
<1>7. \E i \in K : f[i] = j
  <2>1. \A t \in 1 .. c : \E i \in K : f[i] = t
    BY <1>6, Fun_SurjectionProperties
  <2> QED BY <2>1
<1>8. \E i \in K : Rank(K, R, i) = j
  BY <1>7 DEF f
<1>9. QED
  BY <1>8 DEF Nth

\* The element of the rank of i is i.
LEMMA NthOfRank ==
  ASSUME NEW K, IsFiniteSet(K), NEW R, Orders(R, K), NEW i \in K
  PROVE  Rank(K, R, i) \in 1 .. Cardinality(K) /\ Nth(K, R, Rank(K, R, i)) = i
<1>1. Rank(K, R, i) \in 1 .. Cardinality(K)
  BY RankType
<1>2. Nth(K, R, Rank(K, R, i)) \in K /\ Rank(K, R, Nth(K, R, Rank(K, R, i))) = Rank(K, R, i)
  BY <1>1, NthIs
<1>3. QED
  BY <1>1, <1>2, RankInjective

\* Elements come in order.
LEMMA NthGrows ==
  ASSUME NEW K, IsFiniteSet(K), NEW R, Orders(R, K), NEW j \in 1 .. Cardinality(K),
         NEW l \in 1 .. Cardinality(K), j < l
  PROVE  <<Nth(K, R, j), Nth(K, R, l)>> \in R /\ Nth(K, R, j) # Nth(K, R, l)
<1>1. /\ Nth(K, R, j) \in K /\ Rank(K, R, Nth(K, R, j)) = j
      /\ Nth(K, R, l) \in K /\ Rank(K, R, Nth(K, R, l)) = l
  BY NthIs
<1>2. j \in Int /\ l \in Int
  OBVIOUS
<1>3. Nth(K, R, j) # Nth(K, R, l)
  BY <1>1, <1>2
<1>4. <<Nth(K, R, l), Nth(K, R, j)>> \notin R
  <2>1. SUFFICES ASSUME <<Nth(K, R, l), Nth(K, R, j)>> \in R PROVE FALSE
    OBVIOUS
  <2>2. Rank(K, R, Nth(K, R, l)) < Rank(K, R, Nth(K, R, j))
    BY <1>1, <1>3, <2>1, RankGrows
  <2> QED BY <1>1, <1>2, <2>2
<1>5. QED
  BY <1>1, <1>3, <1>4 DEF Orders

------------------------------------------------------------------------------
(* What is left of a queue. *)

\* Positions by age.
Age == {p \in Nat \X Nat : p[1] <= p[2]}

\* A set of positions is finite and in order.
LEMMA Positions ==
  ASSUME NEW n \in Nat, NEW K \in SUBSET (1 .. n)
  PROVE  /\ IsFiniteSet(K) /\ Cardinality(K) \in Nat /\ Cardinality(K) <= n
         /\ Orders(Age, K)
<1>1. IsFiniteSet(1 .. n) /\ Cardinality(1 .. n) = n
  <2>1. Cardinality(1 .. n) = IF 1 > n THEN 0 ELSE n - 1 + 1
    BY FS_Interval
  <2> QED BY <2>1, FS_Interval
<1>2. IsFiniteSet(K) /\ Cardinality(K) \in Nat /\ Cardinality(K) <= n
  BY <1>1, FS_Subset, FS_CardinalityType
<1>3. \A a, b \in K : a \in Nat /\ b \in Nat /\ (<<a, b>> \in Age <=> a <= b)
  BY DEF Age
<1>4. Orders(Age, K)
  BY <1>3 DEF Orders
<1>5. QED
  BY <1>2, <1>4

\* What is left of a queue: the entries not left out, in order.
LEMMA WithoutIs ==
  ASSUME NEW S, NEW q \in Seq(S), NEW I \in SUBSET DOMAIN q,
         NEW K, K = DOMAIN q \ I
  PROVE  /\ Len(q) \in Nat /\ DOMAIN q = 1 .. Len(q) /\ K \in SUBSET (1 .. Len(q))
         /\ IsFiniteSet(K) /\ Orders(Age, K) /\ Cardinality(K) \in Nat
         /\ Without(q, I) \in Seq(S) /\ DOMAIN Without(q, I) = 1 .. Cardinality(K)
         /\ Len(Without(q, I)) = Cardinality(K)
         /\ Cardinality(K) = Len(q) - Cardinality(I) /\ Cardinality(I) \in Nat
         /\ \A j \in 1 .. Cardinality(K) :
              Nth(K, Age, j) \in K /\ Without(q, I)[j] = q[Nth(K, Age, j)]
<1> DEFINE c == Cardinality(K)
           w == Without(q, I)
<1>1. Len(q) \in Nat /\ DOMAIN q = 1 .. Len(q) /\ K \in SUBSET (1 .. Len(q))
  BY LenProperties
<1>2. IsFiniteSet(K) /\ Orders(Age, K) /\ c \in Nat
  BY <1>1, Positions
<1>3. c = Len(q) - Cardinality(I) /\ Cardinality(I) \in Nat
  <2>1. IsFiniteSet(1 .. Len(q)) /\ Cardinality(1 .. Len(q)) = Len(q)
    <3> DEFINE n == Len(q)
    <3>1. n \in Nat /\ n \in Int /\ 1 \in Int
      BY <1>1
    <3> HIDE DEF n
    <3>2. IsFiniteSet(1 .. n) /\ Cardinality(1 .. n) = IF 1 > n THEN 0 ELSE n - 1 + 1
      BY <3>1, FS_Interval
    <3>3. IsFiniteSet(1 .. n) /\ Cardinality(1 .. n) = n
      BY <3>1, <3>2
    <3> QED BY <3>3 DEF n
  <2>2. (1 .. Len(q)) \cap I = I /\ I \in SUBSET (1 .. Len(q)) /\ K = (1 .. Len(q)) \ I
    BY <1>1
  <2>3. Cardinality(K) = Len(q) - Cardinality(I)
    BY <2>1, <2>2, FS_Difference
  <2> QED BY <1>1, <2>2, <2>3, Positions
<1>4. \A i \in K : {k \in K : k <= i} = Upto(K, Age, i)
  BY <1>1 DEF Upto, Age
<1> DEFINE First(j) == CHOOSE i \in K : Cardinality({k \in K : k <= i}) = j
<1>5. \A j : First(j) = Nth(K, Age, j)
  BY <1>4 DEF Nth, Rank
<1>6. w = [j \in 1 .. c |-> q[Nth(K, Age, j)]]
  <2>1. w = [j \in 1 .. c |-> q[First(j)]]
    BY <1>3 DEF Without
  <2> HIDE DEF First, w, c
  <2> QED BY <1>5, <2>1
<1>7. \A j \in 1 .. c : Nth(K, Age, j) \in K
  BY <1>2, NthIs
<1> HIDE DEF w, c
<1>8. \A j \in 1 .. c : q[Nth(K, Age, j)] \in S
  BY <1>1, <1>7, ElementOfSeq
<1>9. w \in [1 .. c -> S]
  BY <1>6, <1>8
<1>10. w \in Seq(S)
  BY <1>2, <1>9, SeqDef DEF c
<1>11. Len(w) = c /\ DOMAIN w = 1 .. c
  BY <1>2, <1>9, <1>10, LenProperties DEF c
<1>12. \A j \in 1 .. c : w[j] = q[Nth(K, Age, j)]
  BY <1>6
<1>13. QED
  BY <1>1, <1>2, <1>3, <1>7, <1>10, <1>11, <1>12 DEF c, w

------------------------------------------------------------------------------
(* The inductive invariant. *)

\* The entries the queue may hold: one that does not wait has an attempt left.
Es == {e \in Entries : e.wait \/ e.attempts < ATTEMPTS}

\* IndexExact of the queue q with the origin indices k.
Exact(q, k) ==
  /\ \A j \in DOMAIN q : \E i \in Indices : k[i] = q[j].origin
  /\ \A i \in Indices : k[i] # NoOrigin => \E j \in DOMAIN q : q[j].origin = k[i]
  /\ \A i, j \in Indices : k[i] = k[j] /\ k[i] # NoOrigin => i = j

\* The messages of origin o in the queue q, and the most there are of an origin.
Held(q, o) == {i \in DOMAIN q : q[i].origin = o}
Most == Larger(QUOTA, SIZE \div 2 + 1)

QueueOK(q, k) ==
  /\ q \in Seq(Es)
  /\ Len(q) <= SIZE
  /\ k \in [Indices -> Origins \cup {NoOrigin}]
  /\ Exact(q, k)
  /\ \A o \in Origins : Cardinality(Held(q, o)) <= Most

IInv ==
  /\ QueueOK(queue, okey)
  /\ last \in [Priorities -> Indices]
  /\ sel \in [Priorities -> Indices \cup {NoOrigin}]

------------------------------------------------------------------------------
(* What the changes of a queue keep. *)

\* Entries have origins, and NoOrigin is none.
LEMMA EntryFacts ==
  /\ \A e \in Es : e \in Entries /\ e.origin \in Origins
  /\ NoOrigin \notin Origins
  /\ \A m \in Offers : Entry(m) \in Es /\ Entry(m).origin = m.origin /\ m.origin \in Origins
<1>1. ASSUME NEW e \in Es PROVE e \in Entries /\ e.origin \in Origins
  BY DEF Es, Entries
<1>2. NoOrigin \notin Origins
  BY TxQueueAssumption DEF Origins
<1>3. ASSUME NEW m \in Offers
      PROVE  Entry(m) \in Es /\ Entry(m).origin = m.origin /\ m.origin \in Origins
  <2>1. /\ m.origin \in Origins /\ m.port \in {n.port : n \in Offers}
        /\ m.shape \in {n.shape : n \in Offers}
    BY DEF Origins
  <2>2. /\ m.cls \in 0 .. 2 /\ m.prio \in Priorities /\ m.len \in Nat /\ m.hop \in Hops
        /\ m.up \in BOOLEAN /\ 0 < ATTEMPTS /\ 0 \in 0 .. ATTEMPTS
    BY TxQueueAssumption DEF Priorities
  <2>3. Entry(m) \in Entries
    BY <2>1, <2>2 DEF Entry, Entries
  <2> QED BY <2>1, <2>2, <2>3 DEF Entry, Es
<1>4. QED
  BY <1>1, <1>2, <1>3

\* The messages of an origin are finitely many, at most all.
LEMMA HeldFinite ==
  ASSUME NEW S, NEW q \in Seq(S), NEW o
  PROVE  /\ IsFiniteSet(Held(q, o)) /\ Cardinality(Held(q, o)) \in Nat
         /\ Cardinality(Held(q, o)) <= Len(q)
<1>1. Len(q) \in Nat /\ Held(q, o) \in SUBSET (1 .. Len(q))
  BY LenProperties DEF Held
<1>2. QED
  BY <1>1, Positions

\* An entry changed keeps its origin: so do the tables.
LEMMA Recast ==
  ASSUME NEW q, NEW k, QueueOK(q, k), NEW r \in Seq(Es), Len(r) = Len(q),
         \A i \in DOMAIN q : r[i].origin = q[i].origin
  PROVE  QueueOK(r, k)
<1>1. q \in Seq(Es) /\ Len(q) <= SIZE /\ k \in [Indices -> Origins \cup {NoOrigin}]
  BY DEF QueueOK
<1>2. DOMAIN r = DOMAIN q
  BY <1>1, LenProperties
<1>3. \A o : Held(r, o) = Held(q, o)
  BY <1>2 DEF Held
<1>4. Exact(r, k)
  BY <1>2 DEF Exact, QueueOK
<1>5. QED
  BY <1>1, <1>3, <1>4 DEF QueueOK

\* Of what is left of a queue, no origin has more than before.
LEMMA HeldWithout ==
  ASSUME NEW S, NEW q \in Seq(S), NEW I \in SUBSET DOMAIN q, NEW o
  PROVE  Cardinality(Held(Without(q, I), o)) <= Cardinality(Held(q, o))
<1> DEFINE K == DOMAIN q \ I
           w == Without(q, I)
           f == [j \in Held(w, o) |-> Nth(K, Age, j)]
<1>1. /\ DOMAIN w = 1 .. Cardinality(K) /\ IsFiniteSet(K) /\ Orders(Age, K)
      /\ \A j \in 1 .. Cardinality(K) : Nth(K, Age, j) \in K /\ w[j] = q[Nth(K, Age, j)]
  BY WithoutIs
<1> HIDE DEF w
<1>2. f \in [Held(w, o) -> Held(q, o)]
  BY <1>1 DEF Held
<1>3. ASSUME NEW a \in Held(w, o), NEW b \in Held(w, o), f[a] = f[b] PROVE a = b
  <2>1. a \in 1 .. Cardinality(K) /\ b \in 1 .. Cardinality(K)
    BY <1>1 DEF Held
  <2>2. Rank(K, Age, Nth(K, Age, a)) = a /\ Rank(K, Age, Nth(K, Age, b)) = b
    BY <1>1, <2>1, NthIs
  <2> QED BY <1>3, <2>2
<1> HIDE DEF f
<1>4. f \in Injection(Held(w, o), Held(q, o))
  BY <1>2, <1>3, Fun_IsInj
<1>5. QED
  BY <1>4, HeldFinite, FS_Injection DEF w

\* Entries that leave: the origins without messages lose their indices.
LEMMA Leaving ==
  ASSUME NEW q, QueueOK(q, okey), NEW I \in SUBSET DOMAIN q
  PROVE  QueueOK(Without(q, I), KeysOf(Without(q, I)))
<1> DEFINE K == DOMAIN q \ I
           w == Without(q, I)
           k == KeysOf(w)
<1>1. /\ q \in Seq(Es) /\ Len(q) <= SIZE /\ Exact(q, okey)
      /\ okey \in [Indices -> Origins \cup {NoOrigin}]
      /\ \A o \in Origins : Cardinality(Held(q, o)) <= Most
  BY DEF QueueOK
<1>2. /\ w \in Seq(Es) /\ DOMAIN w = 1 .. Cardinality(K) /\ Len(w) = Cardinality(K)
      /\ Len(w) \in Nat /\ Len(q) \in Nat /\ Cardinality(K) <= Len(q)
      /\ \A j \in 1 .. Cardinality(K) : Nth(K, Age, j) \in K /\ w[j] = q[Nth(K, Age, j)]
  <2>1. /\ w \in Seq(Es) /\ DOMAIN w = 1 .. Cardinality(K) /\ Len(w) = Cardinality(K)
        /\ Len(q) \in Nat /\ Cardinality(K) \in Nat /\ Cardinality(I) \in Nat
        /\ Cardinality(K) = Len(q) - Cardinality(I)
        /\ \A j \in 1 .. Cardinality(K) : Nth(K, Age, j) \in K /\ w[j] = q[Nth(K, Age, j)]
    <3>1. q \in Seq(Es)
      BY <1>1
    <3> HIDE DEF K
    <3>2. K = DOMAIN q \ I
      BY DEF K
    <3> QED BY <3>1, <3>2, WithoutIs
  <2> HIDE DEF K, w
  <2> QED BY <2>1
<1> HIDE DEF w
<1>3. Len(w) <= SIZE
  BY <1>1, <1>2, TxQueueAssumption
<1>4. \A j \in DOMAIN w : \E i \in DOMAIN q : w[j] = q[i]
  BY <1>2
<1>5. k = [i \in Indices |->
             IF \E j \in DOMAIN w : w[j].origin = okey[i] THEN okey[i] ELSE NoOrigin]
  BY DEF KeysOf
<1> HIDE DEF k
<1>6. k \in [Indices -> Origins \cup {NoOrigin}]
  BY <1>1, <1>5
<1>7. Exact(w, k)
  <2>1. ASSUME NEW j \in DOMAIN w PROVE \E i \in Indices : k[i] = w[j].origin
    <3>1. PICK i \in Indices : okey[i] = w[j].origin
      BY <1>1, <1>4 DEF Exact
    <3> QED BY <1>5, <3>1
  <2>2. \A i \in Indices : k[i] # NoOrigin =>
          k[i] = okey[i] /\ \E j \in DOMAIN w : w[j].origin = k[i]
    BY <1>5
  <2>3. \A i, j \in Indices : k[i] = k[j] /\ k[i] # NoOrigin => i = j
    BY <1>1, <2>2 DEF Exact
  <2> QED BY <2>1, <2>2, <2>3 DEF Exact
<1>8. ASSUME NEW o \in Origins PROVE Cardinality(Held(w, o)) <= Most
  <2>1. Cardinality(Held(w, o)) <= Cardinality(Held(q, o))
    BY <1>1, HeldWithout DEF w
  <2>2. Cardinality(Held(w, o)) \in Nat /\ Cardinality(Held(q, o)) \in Nat /\ Most \in Nat
    BY <1>1, <1>2, HeldFinite, TxQueueAssumption DEF Most, Larger
  <2> QED BY <1>1, <2>1, <2>2
<1>9. QED
  BY <1>2, <1>3, <1>6, <1>7, <1>8 DEF QueueOK, w, k

\* While the queue has room, an index is free.
LEMMA FreeIndex ==
  ASSUME NEW q, NEW k, QueueOK(q, k), Len(q) < SIZE
  PROVE  \E i \in Indices : k[i] = NoOrigin /\ \A j \in 0 .. i - 1 : k[j] # NoOrigin
<1> DEFINE f == [i \in Indices |-> CHOOSE j \in DOMAIN q : q[j].origin = k[i]]
           F == {i \in Indices : k[i] = NoOrigin}
<1>1. q \in Seq(Es) /\ Exact(q, k) /\ Len(q) \in Nat /\ DOMAIN q = 1 .. Len(q)
  BY LenProperties DEF QueueOK
<1>2. F # {}
  <2>1. SUFFICES ASSUME \A i \in Indices : k[i] # NoOrigin PROVE FALSE
    OBVIOUS
  <2>2. \A i \in Indices : f[i] \in DOMAIN q /\ q[f[i]].origin = k[i]
    BY <1>1, <2>1 DEF Exact
  <2>3. f \in [Indices -> DOMAIN q]
    BY <2>2
  <2>4. IsFiniteSet(Indices) /\ Cardinality(Indices) = SIZE
    <3>1. Cardinality(0 .. SIZE - 1) = IF 0 > SIZE - 1 THEN 0 ELSE SIZE - 1 - 0 + 1
      BY TxQueueAssumption, FS_Interval
    <3> QED BY <3>1, TxQueueAssumption, FS_Interval DEF Indices
  <2>5. IsFiniteSet(DOMAIN q) /\ Cardinality(DOMAIN q) <= Len(q) /\ Cardinality(DOMAIN q) \in Nat
    BY <1>1, Positions
  <2>6. Cardinality(DOMAIN q) < Cardinality(Indices)
    BY <1>1, <2>4, <2>5, TxQueueAssumption
  <2> HIDE DEF f
  <2>7. PICK a, b \in Indices : a # b /\ f[a] = f[b]
    BY <2>3, <2>4, <2>5, <2>6, FS_PigeonHole
  <2>8. k[a] = k[b]
    BY <2>2, <2>7
  <2> QED BY <1>1, <2>1, <2>7, <2>8 DEF Exact
<1>3. F \in SUBSET Nat
  BY TxQueueAssumption DEF Indices
<1>4. PICK i \in F : \A j \in F : i <= j
  <2> HIDE DEF F
  <2> QED BY <1>2, <1>3, LeastNatural
<1>5. \A j \in 0 .. i - 1 : j \in Indices /\ ~(i <= j)
  BY <1>4, TxQueueAssumption DEF Indices
<1>6. QED
  BY <1>4, <1>5

\* A message queued at the end.
LEMMA Inserting ==
  ASSUME NEW q, NEW k, QueueOK(q, k), Len(q) < SIZE, NEW m \in Offers,
         \/ Cardinality(Held(q, m.origin)) < QUOTA
         \/ Cardinality(Held(q, m.origin)) <= SIZE \div 2
  PROVE  QueueOK(Append(q, Entry(m)), WithKey(k, m.origin))
<1> DEFINE e == Entry(m)
           r == Append(q, e)
           l == WithKey(k, m.origin)
<1>1. /\ q \in Seq(Es) /\ Exact(q, k) /\ Len(q) \in Nat /\ DOMAIN q = 1 .. Len(q)
      /\ k \in [Indices -> Origins \cup {NoOrigin}]
      /\ \A o \in Origins : Cardinality(Held(q, o)) <= Most
  BY LenProperties DEF QueueOK
<1>2. e \in Es /\ e.origin = m.origin /\ m.origin \in Origins /\ NoOrigin \notin Origins
  BY EntryFacts
<1> HIDE DEF e
<1>3. /\ r \in Seq(Es) /\ Len(r) = Len(q) + 1 /\ DOMAIN r = DOMAIN q \cup {Len(q) + 1}
      /\ Len(q) + 1 \notin DOMAIN q
      /\ \A j \in DOMAIN q : r[j] = q[j]
      /\ r[Len(q) + 1] = e
  BY <1>1, <1>2
<1> HIDE DEF r
<1>4. Len(r) <= SIZE
  BY <1>1, <1>3, TxQueueAssumption
<1>5. \/ (\E i \in Indices : k[i] = m.origin) /\ l = k
      \/ /\ \A i \in Indices : k[i] # m.origin
         /\ \E i \in Indices : k[i] = NoOrigin /\ l = [k EXCEPT ![i] = m.origin]
  <2>1. CASE \E i \in Indices : k[i] = m.origin
    BY <2>1 DEF WithKey
  <2>2. CASE ~\E i \in Indices : k[i] = m.origin
    <3> DEFINE f == CHOOSE i \in Indices :
                      k[i] = NoOrigin /\ \A j \in 0 .. i - 1 : k[j] # NoOrigin
    <3>1. f \in Indices /\ k[f] = NoOrigin
      BY FreeIndex
    <3>2. l = [k EXCEPT ![f] = m.origin]
      BY <2>2 DEF WithKey
    <3> HIDE DEF f, l
    <3> QED BY <2>2, <3>1, <3>2
  <2> QED BY <2>1, <2>2
<1> HIDE DEF l
<1>6. l \in [Indices -> Origins \cup {NoOrigin}]
  BY <1>1, <1>2, <1>5
<1>7. Exact(r, l)
  <2>1. CASE (\E i \in Indices : k[i] = m.origin) /\ l = k
    BY <1>1, <1>2, <1>3, <2>1 DEF Exact
  <2>2. CASE \A i \in Indices : k[i] # m.origin
    <3>1. PICK f \in Indices : k[f] = NoOrigin /\ l = [k EXCEPT ![f] = m.origin]
      BY <1>5, <2>2
    <3>2. \A i \in Indices : l[i] = IF i = f THEN m.origin ELSE k[i]
      BY <1>1, <3>1
    <3>3. ASSUME NEW j \in DOMAIN r PROVE \E i \in Indices : l[i] = r[j].origin
      <4>1. CASE j = Len(q) + 1
        BY <1>2, <1>3, <3>2, <4>1
      <4>2. CASE j \in DOMAIN q
        <5>1. PICK i \in Indices : k[i] = q[j].origin
          BY <1>1, <4>2 DEF Exact
        <5>2. q[j].origin \in Origins
          BY <1>1, <4>2, ElementOfSeq, EntryFacts
        <5>3. i # f
          BY <1>2, <3>1, <5>1, <5>2
        <5> QED BY <1>3, <3>2, <4>2, <5>1, <5>3
      <4> QED BY <1>3, <4>1, <4>2
    <3>4. ASSUME NEW i \in Indices, l[i] # NoOrigin
          PROVE  \E j \in DOMAIN r : r[j].origin = l[i]
      <4>1. CASE i = f
        BY <1>2, <1>3, <3>2, <4>1
      <4>2. CASE i # f
        BY <1>1, <1>3, <3>2, <3>4, <4>2 DEF Exact
      <4> QED BY <4>1, <4>2
    <3>5. \A i, j \in Indices : l[i] = l[j] /\ l[i] # NoOrigin => i = j
      BY <1>1, <2>2, <3>2 DEF Exact
    <3> QED BY <3>3, <3>4, <3>5 DEF Exact
  <2> QED BY <1>5, <2>1, <2>2
<1>8. ASSUME NEW o \in Origins PROVE Cardinality(Held(r, o)) <= Most
  <2>1. /\ IsFiniteSet(Held(q, o)) /\ Cardinality(Held(q, o)) \in Nat
        /\ Cardinality(Held(q, o)) <= Most
    BY <1>1, HeldFinite
  <2>2. CASE o = m.origin
    <3>1. Held(r, o) = Held(q, o) \cup {Len(q) + 1} /\ Len(q) + 1 \notin Held(q, o)
      BY <1>2, <1>3, <2>2 DEF Held
    <3>2. Cardinality(Held(r, o)) = Cardinality(Held(q, o)) + 1
      BY <2>1, <3>1, FS_AddElement
    <3>3. SIZE \div 2 \in Nat /\ QUOTA \in Nat
      BY TxQueueAssumption
    <3> QED BY <2>1, <2>2, <3>2, <3>3 DEF Most, Larger
  <2>3. CASE o # m.origin
    <3>1. Held(r, o) = Held(q, o)
      BY <1>2, <1>3, <2>3 DEF Held
    <3> QED BY <2>1, <3>1
  <2> QED BY <2>2, <2>3
<1>9. QED
  BY <1>3, <1>4, <1>6, <1>7, <1>8 DEF QueueOK, r, l, e

------------------------------------------------------------------------------
(* The service order. *)

\* The entries of the queue, and the indices of their origins.
LEMMA EntriesOK ==
  ASSUME IInv
  PROVE  /\ queue \in Seq(Es) /\ Len(queue) \in Nat /\ DOMAIN queue = 1 .. Len(queue)
         /\ \A i \in DOMAIN queue : queue[i] \in Entries /\ queue[i] \in Es
         /\ \A i \in DOMAIN queue : /\ queue[i].prio \in Priorities /\ queue[i].len \in Nat
                                    /\ queue[i].origin \in Origins
         /\ \A i \in DOMAIN queue : /\ Index(queue[i].origin) \in Indices
                                    /\ okey[Index(queue[i].origin)] = queue[i].origin
         /\ IsFiniteSet(Ready) /\ Ready \in SUBSET DOMAIN queue
<1>1. /\ queue \in Seq(Es) /\ Len(queue) \in Nat /\ DOMAIN queue = 1 .. Len(queue)
      /\ Exact(queue, okey)
  BY LenProperties DEF IInv, QueueOK
<1>2. \A i \in DOMAIN queue : queue[i] \in Es
  BY <1>1, ElementOfSeq
<1>3. \A e \in Es : /\ e \in Entries /\ e.prio \in Priorities /\ e.len \in Nat
                    /\ e.origin \in Origins
  BY DEF Es, Entries
<1>4. ASSUME NEW i \in DOMAIN queue
      PROVE  /\ Index(queue[i].origin) \in Indices
             /\ okey[Index(queue[i].origin)] = queue[i].origin
  <2>1. \E x \in Indices : okey[x] = queue[i].origin
    BY <1>1 DEF Exact
  <2> QED BY <2>1 DEF Index
<1>5. Ready \in SUBSET DOMAIN queue
  BY DEF Ready
<1>6. IsFiniteSet(Ready)
  BY <1>1, <1>5, Positions
<1>7. QED
  BY <1>1, <1>2, <1>3, <1>4, <1>5, <1>6

\* Origins at the same cyclic distance are the same.
LEMMA TurnInjective ==
  ASSUME NEW a \in Indices, NEW b \in Indices, NEW l \in Indices,
         (a - l - 1) % SIZE = (b - l - 1) % SIZE
  PROVE  a = b
<1>1. SIZE \in Nat /\ SIZE > 0 /\ a \in 0 .. SIZE - 1 /\ b \in 0 .. SIZE - 1 /\ l \in 0 .. SIZE - 1
  BY TxQueueAssumption DEF Indices
<1>2. ASSUME NEW x \in -SIZE .. SIZE - 1
      PROVE  x % SIZE = IF x < 0 THEN x + SIZE ELSE x
  BY <1>1
<1>3. a - l - 1 \in -SIZE .. SIZE - 1 /\ b - l - 1 \in -SIZE .. SIZE - 1
  BY <1>1
<1>4. QED
  BY <1>1, <1>2, <1>3

\* The messages before i in its turn.
Elder(i) ==
  {j \in Ready : queue[j].prio = queue[i].prio /\ queue[j].origin = queue[i].origin /\ j < i}

\* The round of a message is the number of those before it.
LEMMA RoundType ==
  ASSUME IInv, NEW i \in Ready
  PROVE  IsFiniteSet(Elder(i)) /\ Round(i) = Cardinality(Elder(i)) /\ Round(i) \in Nat
<1>1. Elder(i) \in SUBSET Ready
  BY DEF Elder
<1>2. IsFiniteSet(Elder(i))
  BY <1>1, EntriesOK, FS_Subset
<1>3. QED
  BY <1>2, FS_CardinalityType DEF Round, Elder

\* The rounds of an origin follow the age.
LEMMA RoundGrows ==
  ASSUME IInv, NEW i \in Ready, NEW j \in Ready, i < j,
         queue[i].prio = queue[j].prio, queue[i].origin = queue[j].origin
  PROVE  Round(i) < Round(j)
<1>1. i \in Int /\ j \in Int /\ \A k \in Ready : k \in Int
  BY EntriesOK
<1>2. Elder(i) \in SUBSET Elder(j) /\ i \in Elder(j) /\ i \notin Elder(i)
  <2>1. \A k \in Ready : k < i => k < j
    BY <1>1
  <2>2. ~(i < i)
    BY <1>1
  <2>3. Elder(i) \in SUBSET Elder(j)
    BY <2>1 DEF Elder
  <2>4. i \in Elder(j) /\ i \notin Elder(i)
    BY <2>2 DEF Elder
  <2> QED BY <2>3, <2>4
<1>3. IsFiniteSet(Elder(j)) /\ Round(i) = Cardinality(Elder(i)) /\ Round(j) = Cardinality(Elder(j))
      /\ Round(i) \in Nat /\ Round(j) \in Nat
  BY RoundType
<1>4. QED
  BY <1>2, <1>3, FS_Subset

\* The keys of the ready messages are numbers, and tell them apart.
LEMMA Keys ==
  ASSUME IInv
  PROVE  /\ \A i \in Ready : queue[i].prio \in Int /\ Round(i) \in Int /\ Distance(i) \in Int
         /\ \A i, j \in Ready : (queue[i].prio = queue[j].prio /\ Round(i) = Round(j)
                                 /\ Distance(i) = Distance(j)) => i = j
<1>1. ASSUME NEW i \in Ready
      PROVE  queue[i].prio \in Int /\ Round(i) \in Int /\ Distance(i) \in Int
             /\ last[queue[i].prio] \in Indices
  <2>1. queue[i].prio \in Priorities /\ Index(queue[i].origin) \in Indices
    BY EntriesOK
  <2>2. last[queue[i].prio] \in Indices
    BY <2>1 DEF IInv
  <2>3. Distance(i) \in Int
    BY <2>1, <2>2, TxQueueAssumption DEF Distance, Indices
  <2> QED BY <2>1, <2>2, <2>3, RoundType DEF Priorities
<1>2. ASSUME NEW i \in Ready, NEW j \in Ready, queue[i].prio = queue[j].prio,
             Round(i) = Round(j), Distance(i) = Distance(j)
      PROVE  i = j
  <2>1. Index(queue[i].origin) = Index(queue[j].origin)
    BY <1>1, <1>2, EntriesOK, TurnInjective DEF Distance
  <2>2. queue[i].origin = queue[j].origin
    BY <2>1, EntriesOK
  <2>3. i \in Int /\ j \in Int
    BY EntriesOK
  <2>4. ~(i < j) /\ ~(j < i)
    BY <1>1, <1>2, <2>2, RoundGrows
  <2> QED BY <2>3, <2>4
<1>3. QED
  BY <1>1, <1>2

\* The messages that are not after another one.
NotAfter == {p \in Ready \X Ready : ~Before(p[2], p[1])}

\* They order the ready messages: priority, round and turn never tie.
LEMMA ServiceOrders ==
  ASSUME IInv
  PROVE  Orders(NotAfter, Ready)
<1>1. \A i, j \in Ready : <<i, j>> \in NotAfter <=> ~Before(j, i)
  BY DEF NotAfter
<1>2. \A i, j \in Ready : ~Before(j, i) \/ ~Before(i, j)
  BY Keys DEF Before
<1>3. \A i, j \in Ready : ~Before(j, i) /\ ~Before(i, j) => i = j
  <2>1. \A i, j \in Ready : ~Before(j, i) /\ ~Before(i, j) =>
          queue[i].prio = queue[j].prio /\ Round(i) = Round(j) /\ Distance(i) = Distance(j)
    BY Keys DEF Before
  <2> QED BY <2>1, Keys
<1>4. \A i, j, k \in Ready : ~Before(j, i) /\ ~Before(k, j) => ~Before(k, i)
  BY Keys DEF Before
<1>5. QED
  BY <1>1, <1>2, <1>3, <1>4 DEF Orders

\* The service order holds every ready message once.
LEMMA ServiceOrderIs ==
  ASSUME IInv
  PROVE  LET n == Cardinality(Ready) IN
         /\ n \in Nat
         /\ ServiceOrder \in [1 .. n -> Ready]
         /\ \A l, m \in 1 .. n : l < m => Before(ServiceOrder[l], ServiceOrder[m])
         /\ \A l, m \in 1 .. n : ServiceOrder[l] = ServiceOrder[m] => l = m
         /\ \A i \in Ready : \E m \in 1 .. n : ServiceOrder[m] = i
<1> DEFINE n == Cardinality(Ready)
           Good(s) == s \in [1 .. n -> Ready]
                      /\ \A l, m \in DOMAIN s : l < m => Before(s[l], s[m])
           o == [m \in 1 .. n |-> Nth(Ready, NotAfter, m)]
<1>1. IsFiniteSet(Ready) /\ n \in Nat /\ Orders(NotAfter, Ready)
  BY EntriesOK, FS_CardinalityType, ServiceOrders
<1>2. o \in [1 .. n -> Ready]
  BY <1>1, NthIs
<1>3. ASSUME NEW l \in 1 .. n, NEW m \in 1 .. n, l < m PROVE Before(o[l], o[m])
  <2>1. o[l] \in Ready /\ o[m] \in Ready
    BY <1>2
  <2>2. <<o[l], o[m]>> \in NotAfter /\ o[l] # o[m]
    BY <1>1, <1>3, NthGrows
  <2>3. <<o[m], o[l]>> \notin NotAfter
    BY <1>1, <2>1, <2>2 DEF Orders
  <2> QED BY <2>1, <2>3 DEF NotAfter
<1>4. Good(o)
  BY <1>2, <1>3
<1>5. Good(ServiceOrder)
  <2>1. ServiceOrder = CHOOSE s : Good(s)
    <3>1. ServiceOrder = CHOOSE s \in [1 .. n -> Ready] :
                           \A l, m \in DOMAIN s : l < m => Before(s[l], s[m])
      BY DEF ServiceOrder
    <3> QED BY <3>1
  <2> HIDE DEF Good, o
  <2> QED BY <1>4, <2>1
<1>6. ServiceOrder \in [1 .. n -> Ready] /\ DOMAIN ServiceOrder = 1 .. n
  BY <1>5
<1>7. \A l, m \in 1 .. n : l < m => Before(ServiceOrder[l], ServiceOrder[m])
  BY <1>5, <1>6
<1>8. \A l, m \in 1 .. n : ServiceOrder[l] = ServiceOrder[m] => l = m
  <2>1. \A i \in Ready : ~Before(i, i)
    BY Keys DEF Before
  <2>2. \A l, m \in 1 .. n : l \in Int /\ m \in Int
    OBVIOUS
  <2> QED BY <1>6, <1>7, <2>1, <2>2
<1>9. IsFiniteSet(1 .. n) /\ Cardinality(1 .. n) = n
  <2>1. Cardinality(1 .. n) = IF 1 > n THEN 0 ELSE n - 1 + 1
    BY <1>1, FS_Interval
  <2> QED BY <1>1, <2>1, FS_Interval
<1>10. ServiceOrder \in Injection(1 .. n, Ready)
  BY <1>6, <1>8, Fun_IsInj
<1>11. ServiceOrder \in Surjection(1 .. n, Ready)
  BY <1>1, <1>9, <1>10, FS_Injection
<1>12. \A i \in Ready : \E m \in 1 .. n : ServiceOrder[m] = i
  <2> HIDE DEF n
  <2> QED BY <1>11 DEF Surjection
<1>13. QED
  BY <1>1, <1>6, <1>7, <1>8, <1>12

------------------------------------------------------------------------------
(* The frame packed. *)

\* The frames on the way of being packed.
Frames ==
  [taken : SUBSET Ready, len : Nat, prio : Priorities,
   last : [Priorities -> Indices \cup {NoOrigin}]]

\* The entry at i fits the frame f.
Fits(f, i, allowance) ==
  /\ \A j \in f.taken : queue[j].hop = queue[i].hop
  /\ f.len + Growth(f.taken, i) <= FRAME
  /\ f.len + Growth(f.taken, i) <= allowance[Larger(f.prio, queue[i].prio)]

\* The frame f with the entry at i.
With(f, i) ==
  [taken |-> f.taken \cup {i}, len |-> f.len + Growth(f.taken, i),
   prio |-> Larger(f.prio, queue[i].prio),
   last |-> [f.last EXCEPT ![queue[i].prio] = Index(queue[i].origin)]]

\* What the frame grows by is a length.
LEMMA GrowthType ==
  ASSUME IInv, NEW A \in SUBSET Ready, NEW i \in Ready
  PROVE  Header(A, i) \in 0 .. 3 /\ Growth(A, i) \in Nat
<1>1. Header(A, i) \in 0 .. 3
  BY DEF Header
<1>2. queue[i].len \in Nat
  BY EntriesOK
<1>3. QED
  BY <1>1, <1>2 DEF Growth

\* Sharing a header is an equivalence.
LEMMA Groups ==
  /\ \A i : SameGroup(i, i)
  /\ \A i, j : SameGroup(i, j) => SameGroup(j, i)
  /\ \A i, j, k : SameGroup(i, j) /\ SameGroup(j, k) => SameGroup(i, k)
BY DEF SameGroup

\* Messages of one group and one length make a frame grow alike.
LEMMA GrowthAlike ==
  ASSUME NEW A, NEW i, NEW j, SameGroup(i, j)
  PROVE  /\ Mates(A, i) = Mates(A, j) /\ Header(A, i) = Header(A, j)
         /\ queue[i].len = queue[j].len => Growth(A, i) = Growth(A, j)
<1>1. \A k : SameGroup(i, k) <=> SameGroup(j, k)
  BY Groups
<1>2. Mates(A, i) = Mates(A, j)
  BY <1>1 DEF Mates
<1>3. SameGroup(LastOpener(A), i) <=> SameGroup(LastOpener(A), j)
  BY Groups
<1>4. Header(A, i) = Header(A, j)
  BY <1>2, <1>3 DEF Header
<1>5. QED
  BY <1>2, <1>4 DEF Growth

\* A message that joins a group leaves the last one where it is.
LEMMA LastGroupStays ==
  ASSUME IInv, NEW A \in SUBSET Ready, NEW b \in Ready, \A k \in A : Before(k, b),
         Mates(A, b) # {}
  PROVE  LastOpener(A \cup {b}) = LastOpener(A)
<1> DEFINE B == A \cup {b}
<1>1. \A k \in A : ~Before(b, k)
  BY Keys DEF Before
<1>2. PICK j \in A : SameGroup(b, j)
  BY DEF Mates
<1>3. b \notin Openers(B)
  BY <1>2 DEF Openers, Mates
<1>4. \A k \in A : k \in Openers(B) <=> k \in Openers(A)
  BY <1>1 DEF Openers, Mates
<1>5. Openers(A) \subseteq A /\ Openers(B) \subseteq B
  BY DEF Openers
<1>6. Openers(B) = Openers(A)
  BY <1>3, <1>4, <1>5
<1>7. QED
  BY <1>6 DEF LastOpener

\* A message never makes the next one need less than it has taken itself.
LEMMA GrowthLasts ==
  ASSUME IInv, NEW A \in SUBSET Ready, NEW b \in Ready, NEW i \in Ready,
         \A k \in A : Before(k, b)
  PROVE  Growth(A, i) <= Growth(A, b) + Growth(A \cup {b}, i)
<1> DEFINE B == A \cup {b}
           Single == \E k \in A : Mates(A, LastOpener(A)) = {k}
<1>1. B \in SUBSET Ready /\ b \notin A
  BY Keys DEF Before
<1>2. /\ Header(A, i) \in 0 .. 3 /\ Header(A, b) \in 0 .. 3 /\ Header(B, i) \in 0 .. 3
      /\ queue[i].len \in Nat /\ queue[b].len \in Nat
  BY <1>1, GrowthType, EntriesOK
<1>3. \A x : Mates(A, x) = {} => Header(A, x) = 2 + (IF Single THEN 1 ELSE 0)
  BY DEF Header
<1>4. \A x : (\E k \in A : Mates(A, x) = {k}) =>
                Header(A, x) = IF SameGroup(LastOpener(A), x) THEN 2 ELSE 1
  BY DEF Header
<1>5. \A x : Mates(A, x) # {} /\ ~(\E k \in A : Mates(A, x) = {k}) => Header(A, x) = 0
  BY DEF Header
<1>6. Mates(B, i) = {} => Header(B, i) >= 2
  BY DEF Header
<1>7. ASSUME NEW k \in B, Mates(B, i) = {k}
      PROVE  Header(B, i) = IF SameGroup(LastOpener(B), i) THEN 2 ELSE 1
  BY <1>7 DEF Header
<1>8. CASE SameGroup(i, b)
  <2>1. Header(A, i) = Header(A, b)
    BY <1>8, GrowthAlike
  <2> QED BY <1>2, <2>1 DEF Growth
<1>9. CASE ~SameGroup(i, b)
  <2>1. Mates(B, i) = Mates(A, i)
    BY <1>9 DEF Mates
  <2>2. CASE Mates(A, i) = {}
    <3>1. Header(B, i) >= 2
      BY <1>6, <2>1, <2>2
    <3>2. CASE Header(A, b) >= 1
      BY <1>2, <1>3, <2>2, <3>1, <3>2 DEF Growth
    <3>3. CASE ~(Header(A, b) >= 1)
      <4>1. Mates(A, b) # {} /\ ~(\E k \in A : Mates(A, b) = {k})
        BY <1>2, <1>3, <1>4, <3>3
      <4>2. LastOpener(B) = LastOpener(A)
        BY <4>1, LastGroupStays
      <4>3. Single => \E k \in B : Mates(B, LastOpener(B)) = {k}
        <5>1. ASSUME NEW k \in A, Mates(A, LastOpener(A)) = {k}
              PROVE  Mates(B, LastOpener(A)) = {k}
          <6>1. ~SameGroup(LastOpener(A), b)
            <7>1. SameGroup(LastOpener(A), b) => Mates(A, b) = {k}
              BY <5>1, GrowthAlike
            <7> QED BY <4>1, <7>1
          <6> QED BY <5>1, <6>1 DEF Mates
        <5> QED BY <4>2, <5>1
      <4>4. Single => Header(B, i) = 3
        BY <2>1, <2>2, <4>3 DEF Header
      <4> QED BY <1>2, <1>3, <2>2, <3>1, <4>4 DEF Growth
    <3> QED BY <3>2, <3>3
  <2>3. CASE \E k \in A : Mates(A, i) = {k}
    <3>1. Header(B, i) = IF SameGroup(LastOpener(B), i) THEN 2 ELSE 1
      BY <1>7, <2>1, <2>3
    <3>2. CASE Header(A, b) >= 1
      BY <1>2, <1>4, <2>3, <3>1, <3>2 DEF Growth
    <3>3. CASE ~(Header(A, b) >= 1)
      <4>1. Mates(A, b) # {}
        BY <1>2, <1>3, <3>3
      <4>2. LastOpener(B) = LastOpener(A)
        BY <4>1, LastGroupStays
      <4> QED BY <1>2, <1>4, <2>3, <3>1, <4>2 DEF Growth
    <3> QED BY <3>2, <3>3
  <2>4. CASE Mates(A, i) # {} /\ ~(\E k \in A : Mates(A, i) = {k})
    BY <1>2, <1>5, <2>4 DEF Growth
  <2> QED BY <2>2, <2>3, <2>4
<1>10. QED
  BY <1>8, <1>9

\* An entry joins the frame, or does not.
LEMMA JoinIs ==
  ASSUME IInv, NEW f \in Frames, NEW i \in Ready, NEW allowance
  PROVE  /\ Join(f, i, allowance) = IF Fits(f, i, allowance) THEN With(f, i) ELSE f
         /\ With(f, i) \in Frames
         /\ f.len <= f.len + Growth(f.taken, i) /\ f.prio <= Larger(f.prio, queue[i].prio)
<1>1. queue[i].prio \in Priorities /\ Index(queue[i].origin) \in Indices
  BY EntriesOK
<1>2. /\ f.taken \in SUBSET Ready /\ f.len \in Nat /\ f.prio \in Priorities
      /\ f.last \in [Priorities -> Indices \cup {NoOrigin}]
  BY DEF Frames
<1>3. f.len + Growth(f.taken, i) \in Nat /\ f.len <= f.len + Growth(f.taken, i)
  BY <1>2, GrowthType
<1>4. /\ Larger(f.prio, queue[i].prio) \in Priorities
      /\ f.prio <= Larger(f.prio, queue[i].prio)
  BY <1>1, <1>2 DEF Larger, Priorities
<1>5. [f.last EXCEPT ![queue[i].prio] = Index(queue[i].origin)]
        \in [Priorities -> Indices \cup {NoOrigin}]
  BY <1>1, <1>2
<1>6. With(f, i) \in Frames
  BY <1>2, <1>3, <1>4, <1>5 DEF With, Frames
<1>7. Join(f, i, allowance) = IF Fits(f, i, allowance) THEN With(f, i) ELSE f
  BY DEF Join, Fits, With
<1>8. QED
  BY <1>3, <1>4, <1>6, <1>7

\* r is the frame as the messages are considered one after the other.
InTurn(allowance, r) ==
  LET n == Cardinality(Ready) IN
  /\ r \in [0 .. n -> Frames]
  /\ r[0] = EmptyFrame
  /\ \A m \in 1 .. n : r[m] = IF Fits(r[m - 1], ServiceOrder[m], allowance)
                              THEN With(r[m - 1], ServiceOrder[m]) ELSE r[m - 1]
  /\ r[n] = Packed(ServiceOrder, allowance)

\* The frame packed is the last of these.
LEMMA PackedSteps ==
  ASSUME IInv, NEW allowance
  PROVE  \E r : InTurn(allowance, r)
<1> DEFINE n == Cardinality(Ready)
           Step(f, m) == IF Fits(f, ServiceOrder[m], allowance)
                         THEN With(f, ServiceOrder[m]) ELSE f
           F == [z \in Frames \X (1 .. n) |-> Step(z[1], z[2])]
           Good(f) == f = [m \in 0 .. Len(ServiceOrder) |->
                             IF m = 0 THEN EmptyFrame
                             ELSE Join(f[m - 1], ServiceOrder[m], allowance)]
           r == CHOOSE f : Good(f)
<1>1. n \in Nat /\ ServiceOrder \in [1 .. n -> Ready]
  BY ServiceOrderIs
<1>2. Len(ServiceOrder) = n
  <2>1. ServiceOrder \in Seq(Ready)
    BY <1>1, SeqDef
  <2>2. Len(ServiceOrder) \in Nat /\ DOMAIN ServiceOrder = 1 .. Len(ServiceOrder)
    BY <2>1, LenProperties
  <2> QED BY <1>1, <2>2
<1>3. \A f \in Frames, m \in 1 .. n : /\ Step(f, m) \in Frames
                                      /\ Join(f, ServiceOrder[m], allowance) = Step(f, m)
  BY <1>1, JoinIs
<1> HIDE DEF Step
<1>4. F \in [Frames \X (1 .. n) -> Frames]
  BY <1>3
<1>5. EmptyFrame \in Frames
  <2>1. NothingPacked \in [Priorities -> Indices \cup {NoOrigin}] /\ 1 \in Priorities
    BY DEF NothingPacked, Priorities
  <2> QED BY <2>1 DEF EmptyFrame, Frames
<1>6. PICK f : Iterates(f, F, n, Frames, EmptyFrame)
  <2> HIDE DEF F, n
  <2> QED BY <1>1, <1>4, <1>5, Recursion
<1>7. f \in [0 .. n -> Frames] /\ f[0] = EmptyFrame /\ \A m \in 1 .. n : f[m] = F[<<f[m - 1], m>>]
  <2> HIDE DEF F, n
  <2> QED BY <1>6 DEF Iterates
<1>8. \A m \in 1 .. n : m - 1 \in 0 .. n
  BY <1>1
<1>9. \A m \in 1 .. n : f[m] = Step(f[m - 1], m)
  <2>1. \A m \in 1 .. n : <<f[m - 1], m>> \in Frames \X (1 .. n)
    BY <1>7, <1>8
  <2> QED BY <1>7, <2>1
<1>10. Good(f)
  <2>1. \A m \in 1 .. n : f[m] = Join(f[m - 1], ServiceOrder[m], allowance)
    BY <1>3, <1>7, <1>8, <1>9
  <2> HIDE DEF n
  <2> QED BY <1>1, <1>2, <1>7, <2>1
<1>11. Good(r)
  BY <1>10
<1>12. DOMAIN r = 0 .. n
  <2> HIDE DEF r, n
  <2> QED BY <1>2, <1>11
<1>13. r[0] = EmptyFrame /\ \A m \in 1 .. n : r[m] = Join(r[m - 1], ServiceOrder[m], allowance)
  <2> HIDE DEF r, n
  <2> QED BY <1>1, <1>2, <1>11
<1>14. r[n] = Packed(ServiceOrder, allowance)
  BY <1>2 DEF Packed
<1>15. \A m \in 0 .. n : r[m] \in Frames
  <2> DEFINE S == {m \in 0 .. n : r[m] \in Frames}
  <2> HIDE DEF r, n
  <2>1. 0 \in S
    BY <1>1, <1>5, <1>13
  <2>2. ASSUME NEW m \in 0 .. n - 1, m \in S PROVE m + 1 \in S
    <3>1. m + 1 \in 1 .. n /\ m + 1 - 1 = m
      BY <1>1
    <3> QED BY <1>3, <1>13, <2>2, <3>1
  <2>3. 0 .. n \subseteq S
    <3> HIDE DEF S
    <3> QED BY <1>1, <2>1, <2>2, Induction
  <2> QED BY <2>3
<1>16. r \in [0 .. n -> Frames]
  <2> HIDE DEF r, n
  <2> QED BY <1>11, <1>12, <1>15
<1>17. \A m \in 1 .. n : r[m] = Step(r[m - 1], m)
  <2> HIDE DEF r, n
  <2> QED BY <1>3, <1>8, <1>13, <1>15
<1>18. InTurn(allowance, r)
  <2> HIDE DEF r, F, Good
  <2> QED BY <1>13, <1>14, <1>16, <1>17 DEF InTurn, Step
<1>19. QED
  BY <1>18

\* A message is in the frame exactly if it fitted when its turn came; the frame then
\* held the messages it has from before in the service order.
LEMMA TakenIs ==
  ASSUME IInv, NEW allowance, NEW r, InTurn(allowance, r), NEW m \in 1 .. Cardinality(Ready)
  PROVE  /\ ServiceOrder[m] \in r[Cardinality(Ready)].taken
              <=> Fits(r[m - 1], ServiceOrder[m], allowance)
         /\ r[m - 1].taken =
              {x \in r[Cardinality(Ready)].taken : Before(x, ServiceOrder[m])}
<1> DEFINE n == Cardinality(Ready)
           In(x) == {ServiceOrder[k] :
                       k \in {k \in 1 .. x : Fits(r[k - 1], ServiceOrder[k], allowance)}}
           S == {x \in 0 .. n : r[x].taken = In(x)}
<1>1. /\ n \in Nat /\ ServiceOrder \in [1 .. n -> Ready]
      /\ \A k, l \in 1 .. n : ServiceOrder[k] = ServiceOrder[l] => k = l
  BY ServiceOrderIs
<1>2. 0 \in S
  <2>1. r[0].taken = {} /\ 1 .. 0 = {}
    BY DEF InTurn, EmptyFrame
  <2> QED BY <1>1, <2>1
<1>3. ASSUME NEW x \in 0 .. n - 1, x \in S PROVE x + 1 \in S
  <2>1. x + 1 \in 1 .. n /\ x + 1 - 1 = x /\ x + 1 \in 0 .. n
    BY <1>1
  <2> DEFINE o == ServiceOrder[x + 1]
  <2>2. r[x + 1] = IF Fits(r[x], o, allowance) THEN With(r[x], o) ELSE r[x]
    BY <2>1 DEF InTurn
  <2>3. 1 .. x + 1 = (1 .. x) \cup {x + 1}
    BY <2>1
  <2>4. In(x + 1) = In(x) \cup (IF Fits(r[x], o, allowance) THEN {o} ELSE {})
    <3> HIDE DEF Fits
    <3> QED BY <2>1, <2>3
  <2>5. r[x].taken = In(x)
    BY <1>3
  <2>6. With(r[x], o).taken = r[x].taken \cup {o}
    BY DEF With
  <2> HIDE DEF In, o
  <2>7. r[x + 1].taken = In(x + 1)
    BY <2>2, <2>4, <2>5, <2>6
  <2> QED BY <2>1, <2>7
<1>4. 0 .. n \subseteq S
  <2> HIDE DEF S, n
  <2> QED BY <1>1, <1>2, <1>3, Induction
<1>5. r[n].taken = In(n)
  BY <1>1, <1>4
<1>6. ServiceOrder[m] \in In(n) <=> Fits(r[m - 1], ServiceOrder[m], allowance)
  <2> HIDE DEF Fits
  <2> QED BY <1>1
<1>7. r[m - 1].taken = {x \in In(n) : Before(x, ServiceOrder[m])}
  <2>1. m - 1 \in 0 .. n /\ r[m - 1].taken = In(m - 1)
    BY <1>1, <1>4
  <2>2. \A k \in 1 .. n : Before(ServiceOrder[k], ServiceOrder[m]) <=> k < m
    <3>1. \A l, k \in 1 .. n : l < k => Before(ServiceOrder[l], ServiceOrder[k])
      BY ServiceOrderIs
    <3>2. \A x, y \in Ready : Before(x, y) => ~Before(y, x) /\ x # y
      BY Keys DEF Before
    <3>3. ASSUME NEW k \in 1 .. n PROVE Before(ServiceOrder[k], ServiceOrder[m]) <=> k < m
      <4>1. ServiceOrder[k] \in Ready /\ ServiceOrder[m] \in Ready /\ k \in Int /\ m \in Int
        BY <1>1
      <4>2. k < m => Before(ServiceOrder[k], ServiceOrder[m])
        BY <3>1
      <4>3. m < k => ~Before(ServiceOrder[k], ServiceOrder[m])
        BY <3>1, <3>2, <4>1
      <4>4. k = m => ~Before(ServiceOrder[k], ServiceOrder[m])
        BY <3>2, <4>1
      <4> QED BY <4>1, <4>2, <4>3, <4>4
    <3> QED BY <3>3
  <2>3. \A k \in 1 .. n : k \in 1 .. m - 1 <=> k < m
    BY <1>1
  <2>4. \A k \in 1 .. m - 1 : k \in 1 .. n
    BY <1>1
  <2>5. In(m - 1) = {x \in In(n) : Before(x, ServiceOrder[m])}
    <3> HIDE DEF Fits, n
    <3> QED BY <2>2, <2>3, <2>4
  <2> QED BY <2>1, <2>5
<1>8. QED
  BY <1>5, <1>6, <1>7

\* The frame grows: with i in it too, it is never shorter than it would have been before.
LEMMA PackedGrows ==
  ASSUME IInv, NEW allowance, NEW r, InTurn(allowance, r),
         NEW l \in 0 .. Cardinality(Ready), NEW m \in l .. Cardinality(Ready),
         NEW i \in Ready
  PROVE  /\ r[l].taken \subseteq r[m].taken /\ r[l].prio <= r[m].prio
         /\ r[l].len + Growth(r[l].taken, i) <= r[m].len + Growth(r[m].taken, i)
<1> DEFINE n == Cardinality(Ready)
           Long(x) == r[x].len + Growth(r[x].taken, i)
           Below(x) == r[l].taken \subseteq r[x].taken /\ Long(l) <= Long(x)
                       /\ r[l].prio <= r[x].prio
           S == {x \in 0 .. n : l <= x => Below(x)}
<1>1. n \in Nat /\ ServiceOrder \in [1 .. n -> Ready] /\ r \in [0 .. n -> Frames]
  BY ServiceOrderIs DEF InTurn
<1>2. \A x \in 0 .. n : /\ r[x] \in Frames /\ r[x].len \in Nat /\ r[x].prio \in Int
                         /\ r[x].taken \in SUBSET Ready /\ Long(x) \in Nat
  <2>1. \A x \in 0 .. n : /\ r[x] \in Frames /\ r[x].len \in Nat /\ r[x].prio \in Int
                           /\ r[x].taken \in SUBSET Ready
    BY <1>1 DEF Frames, Priorities
  <2>2. \A x \in 0 .. n : Growth(r[x].taken, i) \in Nat
    BY <2>1, GrowthType
  <2> QED BY <2>1, <2>2
<1> HIDE DEF Long
<1>3. l \in 0 .. n /\ l <= m /\ m \in 0 .. n
  BY <1>1
<1>4. Below(l)
  BY <1>2, <1>3
<1>5. 0 \in S
  <2>1. l <= 0 => l = 0
    BY <1>3
  <2> QED BY <1>1, <1>4, <2>1
<1>6. ASSUME NEW x \in 0 .. n - 1, x \in S PROVE x + 1 \in S
  <2>1. x + 1 \in 1 .. n /\ x + 1 - 1 = x /\ x \in 0 .. n /\ x + 1 \in 0 .. n
    BY <1>1
  <2>2. CASE l = x + 1
    BY <1>4, <2>1, <2>2
  <2>3. CASE l < x + 1
    <3>1. Below(x)
      BY <1>3, <1>6, <2>1, <2>3
    <3> DEFINE o == ServiceOrder[x + 1]
    <3>2. r[x + 1] = IF Fits(r[x], o, allowance) THEN With(r[x], o) ELSE r[x]
      BY <2>1 DEF InTurn
    <3>3. o \in Ready /\ r[x] \in Frames
      BY <1>1, <1>2, <2>1
    <3>4. r[x].prio <= Larger(r[x].prio, queue[o].prio)
      BY <3>3, JoinIs
    <3>5. \A k \in r[x].taken : Before(k, o)
      BY <2>1, TakenIs
    <3> HIDE DEF o
    <3>6. Growth(r[x].taken, i) <= Growth(r[x].taken, o) + Growth(r[x].taken \cup {o}, i)
      BY <1>2, <2>1, <3>3, <3>5, GrowthLasts
    <3>7. r[x].taken \subseteq r[x + 1].taken /\ Long(x) <= Long(x + 1) /\ r[x].prio <= r[x + 1].prio
      <4>1. CASE Fits(r[x], o, allowance)
        <5>1. /\ r[x + 1].taken = r[x].taken \cup {o}
              /\ r[x + 1].len = r[x].len + Growth(r[x].taken, o)
              /\ r[x + 1].prio = Larger(r[x].prio, queue[o].prio)
          BY <3>2, <4>1 DEF With
        <5>2. /\ r[x].len \in Nat /\ Growth(r[x].taken, o) \in Nat
              /\ Growth(r[x].taken, i) \in Nat /\ Growth(r[x].taken \cup {o}, i) \in Nat
          <6>1. r[x].taken \cup {o} \in SUBSET Ready
            BY <1>2, <2>1, <3>3
          <6> QED BY <1>2, <2>1, <3>3, <6>1, GrowthType
        <5>3. Long(x) <= Long(x + 1)
          BY <3>6, <5>1, <5>2 DEF Long
        <5> QED BY <3>4, <5>1, <5>3
      <4>2. CASE ~Fits(r[x], o, allowance)
        <5>1. r[x + 1] = r[x]
          BY <3>2, <4>2
        <5>2. Long(x + 1) = Long(x)
          BY <5>1 DEF Long
        <5> QED BY <1>2, <2>1, <5>1, <5>2
      <4> QED BY <4>1, <4>2
    <3>8. Below(x + 1)
      <4>1. /\ Long(l) \in Int /\ Long(x) \in Int /\ Long(x + 1) \in Int
            /\ r[l].prio \in Int /\ r[x].prio \in Int /\ r[x + 1].prio \in Int
        BY <1>2, <1>3, <2>1
      <4> QED BY <3>1, <3>7, <4>1
    <3> HIDE DEF Below
    <3> QED BY <2>1, <3>8
  <2>4. l <= x + 1 => l = x + 1 \/ l < x + 1
    BY <1>3, <2>1
  <2>5. CASE ~(l <= x + 1)
    BY <2>1, <2>5
  <2> QED BY <2>2, <2>3, <2>4, <2>5
<1>7. 0 .. n \subseteq S
  <2> HIDE DEF S, n
  <2> QED BY <1>1, <1>5, <1>6, Induction
<1>8. QED
  BY <1>3, <1>7 DEF Long

\* A frame has one next hop.
LEMMA OneHop ==
  ASSUME IInv, NEW allowance, NEW r, InTurn(allowance, r),
         NEW i \in r[Cardinality(Ready)].taken, NEW j \in r[Cardinality(Ready)].taken
  PROVE  queue[i].hop = queue[j].hop
<1> DEFINE n == Cardinality(Ready)
           Same(f) == \A a, b \in f.taken : queue[a].hop = queue[b].hop
           S == {x \in 0 .. n : Same(r[x])}
<1>1. n \in Nat /\ ServiceOrder \in [1 .. n -> Ready]
  BY ServiceOrderIs
<1>2. 0 \in S
  BY <1>1 DEF InTurn, EmptyFrame
<1>3. ASSUME NEW x \in 0 .. n - 1, x \in S PROVE x + 1 \in S
  <2>1. x + 1 \in 1 .. n /\ x + 1 - 1 = x /\ x + 1 \in 0 .. n
    BY <1>1
  <2> DEFINE o == ServiceOrder[x + 1]
  <2>2. r[x + 1] = IF Fits(r[x], o, allowance) THEN With(r[x], o) ELSE r[x]
    BY <2>1 DEF InTurn
  <2>3. Same(r[x])
    BY <1>3
  <2> HIDE DEF o
  <2>4. Fits(r[x], o, allowance) => Same(With(r[x], o))
    BY <2>3 DEF Fits, With
  <2>5. Same(r[x + 1])
    BY <2>2, <2>3, <2>4
  <2> QED BY <2>1, <2>5
<1>4. 0 .. n \subseteq S
  <2> HIDE DEF S, n
  <2> QED BY <1>1, <1>2, <1>3, Induction
<1>5. Same(r[n])
  BY <1>1, <1>4
<1>6. QED
  BY <1>5

\* The frame takes a message bound where it goes if its turn comes before that of
\* another one it takes, in whose stead it would not make the frame longer.
LEMMA TakenFirst ==
  ASSUME IInv, NEW allowance \in Allowances, NEW f, f = Packed(ServiceOrder, allowance),
         NEW i \in Ready, NEW j \in f.taken, Before(i, j),
         Growth({k \in f.taken : Before(k, j)}, i) <= Growth({k \in f.taken : Before(k, j)}, j),
         \E k \in f.taken : queue[i].hop = queue[k].hop
  PROVE  i \in f.taken
<1> DEFINE n == Cardinality(Ready)
<1>1. /\ n \in Nat /\ ServiceOrder \in [1 .. n -> Ready]
      /\ \A l, m \in 1 .. n : l < m => Before(ServiceOrder[l], ServiceOrder[m])
      /\ \A x \in Ready : \E m \in 1 .. n : ServiceOrder[m] = x
  BY ServiceOrderIs
<1>2. PICK r : InTurn(allowance, r)
  BY PackedSteps
<1>3. r \in [0 .. n -> Frames] /\ r[n] = f
  BY <1>2 DEF InTurn
<1>4. f \in Frames /\ f.taken \subseteq Ready /\ j \in Ready
  BY <1>1, <1>3 DEF Frames
<1>5. PICK a \in 1 .. n, b \in 1 .. n : ServiceOrder[a] = i /\ ServiceOrder[b] = j
  BY <1>1, <1>4
<1>6. a < b
  <2>1. ~Before(j, i) /\ ~Before(i, i)
    BY <1>4, Keys DEF Before
  <2>2. ~(b < a) /\ a # b
    BY <1>1, <1>5, <2>1
  <2> QED BY <1>1, <2>2
<1>7. a - 1 \in 0 .. n /\ b - 1 \in (a - 1) .. n /\ b - 1 \in 0 .. n
  BY <1>1, <1>6
<1> DEFINE g == r[a - 1]
           h == r[b - 1]
<1>8. /\ g \in Frames /\ h \in Frames /\ g.len \in Nat /\ h.len \in Nat
      /\ g.taken \in SUBSET Ready /\ h.taken \in SUBSET Ready
      /\ g.prio \in Priorities /\ h.prio \in Priorities
  BY <1>3, <1>7 DEF Frames
<1>9. g.len + Growth(g.taken, i) <= h.len + Growth(h.taken, i) /\ g.prio <= h.prio
  BY <1>2, <1>7, PackedGrows
<1>10. g.taken \subseteq f.taken
  <2>1. n \in (a - 1) .. n
    BY <1>1, <1>7
  <2> QED BY <1>2, <1>3, <1>7, <2>1, PackedGrows
<1>11. Fits(h, j, allowance) /\ h.taken = {k \in f.taken : Before(k, j)}
  <2>1. /\ ServiceOrder[b] \in r[n].taken <=> Fits(r[b - 1], ServiceOrder[b], allowance)
        /\ r[b - 1].taken = {k \in r[n].taken : Before(k, ServiceOrder[b])}
    <3> HIDE DEF n
    <3> QED BY <1>2, TakenIs DEF n
  <2>2. Fits(h, j, allowance)
    BY <1>3, <1>5, <2>1
  <2>3. h.taken = {k \in f.taken : Before(k, j)}
    BY <1>3, <1>5, <2>1
  <2> QED BY <2>2, <2>3
<1>12. \A k \in g.taken : queue[k].hop = queue[i].hop
  BY <1>2, <1>3, <1>10, OneHop
<1> HIDE DEF g, h
<1>13. /\ Growth(g.taken, i) \in Nat /\ Growth(h.taken, i) \in Nat /\ Growth(h.taken, j) \in Nat
       /\ Growth(h.taken, i) <= Growth(h.taken, j)
       /\ queue[i].prio \in Priorities /\ queue[j].prio \in Priorities
  BY <1>4, <1>8, <1>11, GrowthType, EntriesOK
<1>14. queue[i].prio <= queue[j].prio
  BY <1>13 DEF Before, Priorities
<1>15. g.len + Growth(g.taken, i) <= FRAME
  BY <1>8, <1>9, <1>11, <1>13, TxQueueAssumption DEF Fits
<1>16. g.len + Growth(g.taken, i) <= allowance[Larger(g.prio, queue[i].prio)]
  <2> DEFINE p == Larger(g.prio, queue[i].prio)
             q == Larger(h.prio, queue[j].prio)
  <2>1. p \in Priorities /\ q \in Priorities /\ p <= q
    BY <1>8, <1>9, <1>13, <1>14 DEF Larger, Priorities
  <2>2. allowance[p] >= allowance[q] /\ allowance[p] \in Int /\ allowance[q] \in Int
    <3>1. allowance \in [Priorities -> Ends] /\ allowance[1] >= allowance[2]
          /\ allowance[2] >= allowance[3]
      BY DEF Allowances
    <3> HIDE DEF p, q
    <3>2. \A x \in Priorities : allowance[x] \in Int /\ x \in {1, 2, 3}
      <4>1. \A x \in Priorities : allowance[x] \in Ends
        BY <3>1
      <4>2. Ends \subseteq Int
        BY TxQueueAssumption
      <4>3. \A x \in Priorities : x \in {1, 2, 3}
        BY DEF Priorities
      <4>4. \A x \in Priorities : allowance[x] \in Int
        BY <4>1, <4>2
      <4> QED BY <4>3, <4>4
    <3>3. 1 \in Priorities /\ 2 \in Priorities /\ 3 \in Priorities
      BY DEF Priorities
    <3>4. allowance[1] >= allowance[3]
      BY <3>1, <3>2, <3>3
    <3>5. ASSUME NEW x \in {1, 2, 3}, NEW y \in {1, 2, 3}, x <= y
          PROVE  allowance[x] >= allowance[y]
      <4>1. CASE x = y
        BY <3>2, <3>3, <4>1
      <4>2. CASE x = 1 /\ y = 2
        BY <3>1, <4>2
      <4>3. CASE x = 1 /\ y = 3
        BY <3>4, <4>3
      <4>4. CASE x = 2 /\ y = 3
        BY <3>1, <4>4
      <4> QED BY <3>5, <4>1, <4>2, <4>3, <4>4
    <3> QED BY <2>1, <3>2, <3>5
  <2>3. h.len + Growth(h.taken, j) <= allowance[q]
    BY <1>11 DEF Fits
  <2> HIDE DEF p, q
  <2>4. g.len + Growth(g.taken, i) <= allowance[p]
    BY <1>8, <1>9, <1>13, <2>2, <2>3
  <2> QED BY <2>4 DEF p
<1>17. Fits(g, i, allowance)
  BY <1>12, <1>15, <1>16 DEF Fits
<1>18. QED
  BY <1>2, <1>3, <1>5, <1>17, TakenIs DEF g

------------------------------------------------------------------------------
(* The inductive invariant is kept. *)

\* What the actions make of an entry, which keeps its origin.
LEMMA EntryChanges ==
  ASSUME NEW e \in Es
  PROVE  /\ \A b \in BOOLEAN : /\ [e EXCEPT !.packed = b] \in Es
                               /\ [e EXCEPT !.packed = b].origin = e.origin
         /\ [e EXCEPT !.wait = TRUE] \in Es /\ [e EXCEPT !.wait = TRUE].origin = e.origin
         /\ [e EXCEPT !.prio = 1] \in Es /\ [e EXCEPT !.prio = 1].origin = e.origin
         /\ \A hop \in Hops : /\ [e EXCEPT !.hop = hop, !.attempts = 0] \in Es
                              /\ [e EXCEPT !.hop = hop, !.attempts = 0].origin = e.origin
         /\ ~e.wait => Await(e) \in Es /\ Await(e).origin = e.origin
         /\ \A hop \in Hops, fresh \in BOOLEAN :
              (e.attempts < ATTEMPTS \/ fresh \/ hop # e.hop) =>
                Released(e, hop, fresh) \in Es /\ Released(e, hop, fresh).origin = e.origin
<1>1. e \in Entries /\ (e.wait \/ e.attempts < ATTEMPTS) /\ e.attempts \in 0 .. ATTEMPTS
      /\ ATTEMPTS \in Nat \ {0}
  BY TxQueueAssumption DEF Es, Entries
<1>2. \A b \in BOOLEAN : /\ [e EXCEPT !.packed = b] \in Es
                         /\ [e EXCEPT !.packed = b].origin = e.origin
  BY <1>1 DEF Es, Entries
<1>3. [e EXCEPT !.wait = TRUE] \in Es /\ [e EXCEPT !.wait = TRUE].origin = e.origin
  BY <1>1 DEF Es, Entries
<1>4. [e EXCEPT !.prio = 1] \in Es /\ [e EXCEPT !.prio = 1].origin = e.origin
  <2>1. 1 \in Priorities
    BY DEF Priorities
  <2> QED BY <1>1, <2>1 DEF Es, Entries
<1>5. ASSUME NEW hop \in Hops
      PROVE  /\ [e EXCEPT !.hop = hop, !.attempts = 0] \in Es
             /\ [e EXCEPT !.hop = hop, !.attempts = 0].origin = e.origin
  <2>1. 0 \in 0 .. ATTEMPTS /\ 0 < ATTEMPTS
    BY <1>1
  <2> QED BY <1>1, <2>1 DEF Es, Entries
<1>6. ASSUME ~e.wait PROVE Await(e) \in Es /\ Await(e).origin = e.origin
  <2>1. e.attempts + 1 \in 0 .. ATTEMPTS
    BY <1>1, <1>6
  <2>2. Await(e) = [e EXCEPT !.wait = TRUE, !.attempts = e.attempts + 1]
    BY <1>1 DEF Await, Entries
  <2> QED BY <1>1, <2>1, <2>2 DEF Es, Entries
<1>7. ASSUME NEW hop \in Hops, NEW fresh \in BOOLEAN,
             e.attempts < ATTEMPTS \/ fresh \/ hop # e.hop
      PROVE  Released(e, hop, fresh) \in Es /\ Released(e, hop, fresh).origin = e.origin
  <2> DEFINE n == IF fresh \/ hop # e.hop THEN 0 ELSE e.attempts
  <2>1. n \in 0 .. ATTEMPTS /\ n < ATTEMPTS
    BY <1>1, <1>7
  <2>2. Released(e, hop, fresh) = [e EXCEPT !.wait = FALSE, !.hop = hop, !.attempts = n]
    BY <1>1 DEF Released, Entries
  <2> HIDE DEF n
  <2> QED BY <1>1, <2>1, <2>2 DEF Es, Entries
<1>8. QED
  BY <1>2, <1>3, <1>4, <1>5, <1>6, <1>7

\* The queue with its entries changed, and their origins kept.
LEMMA Changed ==
  ASSUME IInv, NEW r, r = [i \in DOMAIN queue |-> r[i]],
         \A i \in DOMAIN queue : r[i] \in Es /\ r[i].origin = queue[i].origin
  PROVE  /\ r \in Seq(Es) /\ Len(r) = Len(queue) /\ DOMAIN r = DOMAIN queue
         /\ QueueOK(r, okey)
<1>1. queue \in Seq(Es) /\ Len(queue) \in Nat /\ DOMAIN queue = 1 .. Len(queue)
  BY EntriesOK
<1>2. r \in [1 .. Len(queue) -> Es]
  BY <1>1
<1>3. r \in Seq(Es)
  BY <1>1, <1>2, SeqDef
<1>4. Len(r) = Len(queue) /\ DOMAIN r = DOMAIN queue
  BY <1>1, <1>2, <1>3, LenProperties
<1>5. QueueOK(r, okey)
  BY <1>3, <1>4, Recast DEF IInv
<1>6. QED
  BY <1>3, <1>4, <1>5

\* An eviction finds the least urgent of what it may drop, the oldest of them.
LEMMA VictimIs ==
  ASSUME IInv, NEW p \in Priorities, Evictable(p) # {}
  PROVE  /\ Victim(p) \in Evictable(p)
         /\ \A i \in Evictable(p) :
              \/ queue[Victim(p)].prio > queue[i].prio
              \/ queue[Victim(p)].prio = queue[i].prio /\ Victim(p) <= i
<1> DEFINE Best(v) == \A i \in Evictable(p) :
                        \/ queue[v].prio > queue[i].prio
                        \/ queue[v].prio = queue[i].prio /\ v <= i
           Urgency == {3 - queue[i].prio : i \in Evictable(p)}
<1>1. \A i \in Evictable(p) : i \in DOMAIN queue /\ i \in Nat /\ queue[i].prio \in 1 .. 3
  BY EntriesOK DEF Evictable, Priorities
<1>2. Urgency \in SUBSET Nat /\ Urgency # {}
  BY <1>1
<1>3. PICK u \in Urgency : \A x \in Urgency : u <= x
  <2> HIDE DEF Urgency
  <2> QED BY <1>2, LeastNatural
<1> DEFINE LeastUrgent == {i \in Evictable(p) : queue[i].prio = 3 - u}
<1>4. u \in Nat /\ \A i \in Evictable(p) : queue[i].prio <= 3 - u
  BY <1>1, <1>2, <1>3
<1>5. LeastUrgent # {} /\ LeastUrgent \in SUBSET Nat
  BY <1>1, <1>3
<1>6. PICK v \in LeastUrgent : \A i \in LeastUrgent : v <= i
  <2> HIDE DEF LeastUrgent
  <2> QED BY <1>5, LeastNatural
<1>7. v \in Evictable(p) /\ Best(v)
  BY <1>1, <1>4, <1>6
<1>8. Victim(p) = CHOOSE v0 \in Evictable(p) : Best(v0)
  BY DEF Victim
<1>9. Victim(p) \in Evictable(p) /\ Best(Victim(p))
  <2> HIDE DEF Best
  <2> QED BY <1>7, <1>8
<1>10. QED
  BY <1>9

\* The frame packed is one of those on the way, with messages that are ready.
LEMMA PackedType ==
  ASSUME IInv, NEW allowance
  PROVE  Packed(ServiceOrder, allowance) \in Frames
<1>1. PICK r : InTurn(allowance, r)
  BY PackedSteps
<1>2. Cardinality(Ready) \in Nat
  BY ServiceOrderIs
<1>3. QED
  BY <1>1, <1>2 DEF InTurn

\* Whatever is marked, the queue keeps its entries.
LEMMA MarkedIs ==
  ASSUME IInv, NEW I
  PROVE  /\ Marked(I) \in Seq(Es) /\ Len(Marked(I)) = Len(queue)
         /\ DOMAIN Marked(I) = DOMAIN queue /\ QueueOK(Marked(I), okey)
         /\ \A i \in DOMAIN queue : Marked(I)[i] = [queue[i] EXCEPT !.packed = i \in I]
<1> DEFINE r == Marked(I)
<1>1. r = [i \in DOMAIN queue |-> r[i]]
  BY DEF Marked
<1>2. \A i \in DOMAIN queue : r[i] = [queue[i] EXCEPT !.packed = i \in I]
  BY DEF Marked
<1>3. ASSUME NEW i \in DOMAIN queue PROVE r[i] \in Es /\ r[i].origin = queue[i].origin
  <2>1. queue[i] \in Es
    BY EntriesOK
  <2>2. CASE i \in I
    <3>1. r[i] = [queue[i] EXCEPT !.packed = TRUE]
      BY <1>2, <2>2
    <3> HIDE DEF r
    <3> QED BY <2>1, <3>1, EntryChanges
  <2>3. CASE i \notin I
    <3> DEFINE b == i \in I
    <3>1. b = FALSE
      BY <2>3
    <3>2. r[i] = [queue[i] EXCEPT !.packed = b]
      BY <1>2
    <3> HIDE DEF b
    <3>3. r[i] = [queue[i] EXCEPT !.packed = FALSE]
      BY <3>1, <3>2
    <3> HIDE DEF r
    <3> QED BY <2>1, <3>3, EntryChanges
  <2> QED BY <2>2, <2>3
<1> HIDE DEF r
<1>4. r \in Seq(Es) /\ Len(r) = Len(queue) /\ DOMAIN r = DOMAIN queue /\ QueueOK(r, okey)
  BY <1>1, <1>3, Changed
<1>5. QED
  BY <1>2, <1>4 DEF r

\* Packing marks entries and keeps the invariant.
LEMMA PackKeeps ==
  ASSUME IInv, Pack
  PROVE  IInv'
<1>1. PICK allowance \in Allowances :
        LET f == Packed(ServiceOrder, allowance)
        IN  f.taken # {} /\ queue' = Marked(f.taken) /\ sel' = f.last /\ UNCHANGED <<okey, last>>
  BY DEF Pack
<1>2. sel' \in [Priorities -> Indices \cup {NoOrigin}]
  BY <1>1, PackedType DEF Frames
<1>3. QueueOK(queue', okey')
  BY <1>1, MarkedIs
<1>4. QED
  BY <1>1, <1>2, <1>3 DEF IInv

\* The queue once the frame is on air, before the class 0 messages sent leave.
OnAir ==
  LET on == [i \in DOMAIN queue |-> IF i \in Sent THEN Await(queue[i]) ELSE queue[i]]
  IN  [i \in DOMAIN queue |-> [on[i] EXCEPT !.packed = FALSE]]

\* Its entries keep their origins.
LEMMA OnAirIs ==
  ASSUME IInv
  PROVE  /\ OnAir \in Seq(Es) /\ Len(OnAir) = Len(queue) /\ DOMAIN OnAir = DOMAIN queue
         /\ QueueOK(OnAir, okey)
         /\ \A i \in DOMAIN queue :
              OnAir[i] =
                [(IF i \in Sent THEN Await(queue[i]) ELSE queue[i]) EXCEPT !.packed = FALSE]
<1> DEFINE r == OnAir
<1>1. r = [i \in DOMAIN queue |-> r[i]]
  BY DEF OnAir
<1>2. \A i \in DOMAIN queue :
        r[i] = [(IF i \in Sent THEN Await(queue[i]) ELSE queue[i]) EXCEPT !.packed = FALSE]
  BY DEF OnAir
<1>3. ASSUME NEW i \in DOMAIN queue PROVE r[i] \in Es /\ r[i].origin = queue[i].origin
  <2> DEFINE e == IF i \in Sent THEN Await(queue[i]) ELSE queue[i]
  <2>1. i \in Sent => ~queue[i].wait
    BY DEF Sent, Ready
  <2>2. e \in Es /\ e.origin = queue[i].origin
    BY <2>1, EntriesOK, EntryChanges
  <2>3. r[i] = [e EXCEPT !.packed = FALSE]
    BY <1>2
  <2> HIDE DEF e, r
  <2> QED BY <2>2, <2>3, EntryChanges
<1> HIDE DEF r
<1>4. r \in Seq(Es) /\ Len(r) = Len(queue) /\ DOMAIN r = DOMAIN queue /\ QueueOK(r, okey)
  BY <1>1, <1>3, Changed
<1>5. QED
  BY <1>2, <1>4 DEF r

\* A frame on air keeps the invariant.
LEMMA CommitKeeps ==
  ASSUME IInv, Commit
  PROVE  IInv'
<1> DEFINE I == {i \in Sent : queue[i].cls = 0}
           w == Without(OnAir, I)
<1>1. queue' = w /\ okey' = KeysOf(w) /\ last' = Turns /\ sel' = NothingPacked
  BY DEF Commit, OnAir
<1>2. I \in SUBSET DOMAIN OnAir
  BY OnAirIs DEF Sent, Ready
<1>3. QueueOK(w, KeysOf(w))
  <2> HIDE DEF I
  <2> QED BY <1>2, OnAirIs, Leaving
<1>4. last' \in [Priorities -> Indices]
  <2>1. \A p \in Priorities : (IF sel[p] = NoOrigin THEN last[p] ELSE sel[p]) \in Indices
    BY DEF IInv
  <2> QED BY <1>1, <2>1 DEF Turns
<1>5. sel' \in [Priorities -> Indices \cup {NoOrigin}]
  BY <1>1 DEF NothingPacked
<1> HIDE DEF w
<1>6. QED
  BY <1>1, <1>3, <1>4, <1>5 DEF IInv

\* Entries taken out leave the invariant.
LEMMA DropKeeps ==
  ASSUME IInv, NEW I \in SUBSET DOMAIN queue, Drop(I)
  PROVE  IInv'
<1> DEFINE w == Without(queue, I)
<1>1. queue' = w /\ okey' = KeysOf(queue') /\ UNCHANGED <<last, sel>>
  BY DEF Drop
<1>2. okey' = KeysOf(w)
  BY <1>1 DEF KeysOf
<1>3. QueueOK(w, KeysOf(w))
  BY Leaving DEF IInv
<1> HIDE DEF w
<1>4. QED
  BY <1>1, <1>2, <1>3 DEF IInv

\* An offer that is let in by the quota.
LEMMA QuotaLetsIn ==
  ASSUME IInv, NEW m \in Offers, ~OverQuota(m.origin)
  PROVE  \/ Cardinality(Held(queue, m.origin)) < QUOTA
         \/ /\ Cardinality(Held(queue, m.origin)) <= SIZE \div 2
            /\ Len(queue) <= SIZE \div 2
<1>1. queue \in Seq(Es) /\ Len(queue) \in Nat
  BY EntriesOK
<1>2. OfOrigin(m.origin) = Held(queue, m.origin)
  BY DEF OfOrigin, Held
<1>3. /\ Cardinality(Held(queue, m.origin)) \in Nat
      /\ Cardinality(Held(queue, m.origin)) <= Len(queue)
  BY <1>1, HeldFinite
<1>4. SIZE \div 2 \in Nat /\ QUOTA \in Nat
  BY TxQueueAssumption
<1>5. QED
  BY <1>1, <1>2, <1>3, <1>4 DEF OverQuota

\* The queue an eviction leaves.
Spared(p) == Without(queue, {Victim(p)})

\* An eviction makes one place: the entries behind it move up.
LEMMA EvictionIs ==
  ASSUME IInv, NEW p \in Priorities, Evictable(p) # {}, Len(queue) = SIZE
  PROVE  /\ QueueOK(Spared(p), KeysOf(Spared(p)))
         /\ Len(Spared(p)) = SIZE - 1
         /\ \A o : Cardinality(Held(Spared(p), o)) <= Cardinality(Held(queue, o))
         /\ \A i \in 1 .. SIZE - 1 :
              Spared(p)[i] = queue[IF i < Victim(p) THEN i ELSE i + 1]
<1> DEFINE v == Victim(p)
           K == DOMAIN queue \ {v}
           q == Spared(p)
<1>1. queue \in Seq(Es) /\ DOMAIN queue = 1 .. SIZE /\ SIZE \in Nat
  BY EntriesOK, TxQueueAssumption
<1>2. v \in DOMAIN queue /\ v \in 1 .. SIZE
  BY <1>1, VictimIs DEF Evictable
<1> HIDE DEF v
<1>3. q = Without(queue, {v}) /\ {v} \in SUBSET DOMAIN queue
  BY <1>2 DEF Spared, v
<1>4. QueueOK(q, KeysOf(q))
  BY <1>3, Leaving DEF IInv
<1>5. \A o : Cardinality(Held(q, o)) <= Cardinality(Held(queue, o))
  BY <1>1, <1>3, HeldWithout
<1>6. Cardinality({v}) = 1
  BY FS_Singleton
<1>7. /\ Cardinality(K) = SIZE - 1 /\ Len(q) = SIZE - 1
      /\ IsFiniteSet(K) /\ Orders(Age, K)
      /\ \A j \in 1 .. SIZE - 1 : q[j] = queue[Nth(K, Age, j)]
  <2> DEFINE I == {v}
             w == Without(queue, I)
  <2>1. queue \in Seq(Es) /\ I \in SUBSET DOMAIN queue /\ K = DOMAIN queue \ I
    BY <1>1, <1>3
  <2> HIDE DEF K, I
  <2>2. /\ IsFiniteSet(K) /\ Orders(Age, K) /\ Len(w) = Cardinality(K)
        /\ Cardinality(K) = Len(queue) - Cardinality(I)
        /\ \A j \in 1 .. Cardinality(K) : w[j] = queue[Nth(K, Age, j)]
    <3>1. IsFiniteSet(K) /\ Orders(Age, K)
      BY <2>1, WithoutIs
    <3>2. Len(w) = Cardinality(K)
      <4>1. w \in Seq(Es) /\ DOMAIN w = 1 .. Cardinality(K) /\ Cardinality(K) \in Nat
        BY <2>1, WithoutIs
      <4> HIDE DEF w
      <4> QED BY <4>1, LenProperties
    <3>3. Cardinality(K) = Len(queue) - Cardinality(I)
      BY <2>1, WithoutIs
    <3>4. \A j \in 1 .. Cardinality(K) : w[j] = queue[Nth(K, Age, j)]
      BY <2>1, WithoutIs
    <3> QED BY <3>1, <3>2, <3>3, <3>4
  <2> HIDE DEF q, w
  <2>3. Cardinality(K) = SIZE - 1
    BY <1>1, <1>6, <2>2 DEF I
  <2>4. q = w
    BY <1>3 DEF w, I
  <2> QED BY <2>2, <2>3, <2>4
<1>8. ASSUME NEW i \in 1 .. SIZE - 1
      PROVE  Nth(K, Age, i) = IF i < v THEN i ELSE i + 1
  <2> DEFINE x == IF i < v THEN i ELSE i + 1
  <2>1. x \in K /\ x \in Nat
    BY <1>1, <1>2
  <2>2. Upto(K, Age, x) = {k \in K : k <= x}
    BY <1>1, <2>1 DEF Upto, Age
  <2>3. Rank(K, Age, x) = i
    <3>0. Rank(K, Age, x) = Cardinality({k \in K : k <= x})
      BY <2>2 DEF Rank
    <3>1. CASE i < v
      <4>1. {k \in K : k <= x} = 1 .. i
        BY <1>1, <1>2, <3>1
      <4>2. Cardinality(1 .. i) = IF 1 > i THEN 0 ELSE i - 1 + 1
        BY FS_Interval
      <4>3. Rank(K, Age, x) = Cardinality(1 .. i)
        BY <3>0, <4>1
      <4> HIDE DEF K, x
      <4> QED BY <4>2, <4>3
    <3>2. CASE ~(i < v)
      <4>1. {k \in K : k <= x} = (1 .. i + 1) \ {v} /\ v \in 1 .. i + 1
        BY <1>1, <1>2, <3>2
      <4>2. Cardinality(1 .. i + 1) = IF 1 > i + 1 THEN 0 ELSE i + 1 - 1 + 1
        BY FS_Interval
      <4>3. IsFiniteSet(1 .. i + 1)
        BY FS_Interval
      <4>4. Cardinality((1 .. i + 1) \ {v}) = Cardinality(1 .. i + 1) - 1
        BY <4>1, <4>3, FS_RemoveElement
      <4>5. Rank(K, Age, x) = Cardinality((1 .. i + 1) \ {v})
        BY <3>0, <4>1
      <4> HIDE DEF K, x
      <4> QED BY <4>2, <4>4, <4>5
    <3> QED BY <3>1, <3>2
  <2> HIDE DEF K, x
  <2>4. Nth(K, Age, i) = x
    BY <1>7, <2>1, <2>3, NthOfRank
  <2> QED BY <2>4 DEF x
<1>9. \A i \in 1 .. SIZE - 1 : q[i] = queue[IF i < v THEN i ELSE i + 1]
  BY <1>7, <1>8
<1>10. QED
  BY <1>4, <1>5, <1>7, <1>9 DEF v

\* What an offer does.
LEMMA OfferCases ==
  ASSUME IInv, NEW m \in Offers, Offer(m)
  PROVE  \/ m.cls = 0 /\ m.replace /\ Older(m) # {} /\ Replace(m)
         \/ ~OverQuota(m.origin) /\ Len(queue) < SIZE /\ Insert(m, queue, okey)
         \/ /\ ~OverQuota(m.origin) /\ Len(queue) = SIZE
            /\ m.cls = 0 /\ m.origin # Local /\ Evictable(m.prio) # {}
            /\ Insert(m, Spared(m.prio), KeysOf(Spared(m.prio)))
BY DEF Offer, Spared

\* So does a message offered, whatever becomes of it.
LEMMA OfferKeeps ==
  ASSUME IInv, NEW m \in Offers, Offer(m)
  PROVE  IInv'
<1>1. UNCHANGED <<last, sel>>
  BY DEF Offer
<1>2. Len(queue) \in Nat /\ queue \in Seq(Es) /\ DOMAIN queue = 1 .. Len(queue)
      /\ QueueOK(queue, okey)
  BY EntriesOK DEF IInv
<1>3. QueueOK(queue', okey')
  <2>1. CASE Replace(m)
    <3>1. PICK i \in Older(m) : queue' = [queue EXCEPT ![i] = Entry(m)]
      BY <2>1 DEF Replace
    <3>2. i \in DOMAIN queue /\ queue[i].origin = m.origin
      BY DEF Older, OfOrigin
    <3>3. \A j \in DOMAIN queue : queue'[j] = IF j = i THEN Entry(m) ELSE queue[j]
      BY <3>1, <3>2
    <3>4. \A j \in DOMAIN queue : queue'[j] \in Es /\ queue'[j].origin = queue[j].origin
      BY <3>2, <3>3, EntryFacts, EntriesOK
    <3>5. queue' = [j \in DOMAIN queue |-> queue'[j]]
      BY <3>1, <3>3
    <3>6. QueueOK(queue', okey)
      BY <3>4, <3>5, Changed
    <3> QED BY <2>1, <3>6 DEF Replace
  <2>2. CASE ~OverQuota(m.origin) /\ Len(queue) < SIZE /\ Insert(m, queue, okey)
    BY <1>2, <2>2, QuotaLetsIn, Inserting DEF Insert
  <2>3. CASE /\ ~OverQuota(m.origin) /\ Len(queue) = SIZE /\ Evictable(m.prio) # {}
             /\ Insert(m, Spared(m.prio), KeysOf(Spared(m.prio)))
    <3> DEFINE q == Spared(m.prio)
    <3>1. m.prio \in Priorities
      BY TxQueueAssumption DEF Priorities
    <3>2. /\ QueueOK(q, KeysOf(q)) /\ Len(q) = SIZE - 1
          /\ Cardinality(Held(q, m.origin)) <= Cardinality(Held(queue, m.origin))
      BY <2>3, <3>1, EvictionIs
    <3>3. q \in Seq(Es)
      BY <3>2 DEF QueueOK
    <3>4. /\ Cardinality(Held(q, m.origin)) \in Nat
          /\ Cardinality(Held(queue, m.origin)) \in Nat
          /\ SIZE \div 2 \in Nat /\ QUOTA \in Nat /\ SIZE - 1 < SIZE
      BY <1>2, <3>3, HeldFinite, TxQueueAssumption
    <3>5. \/ Cardinality(Held(queue, m.origin)) < QUOTA
          \/ Cardinality(Held(queue, m.origin)) <= SIZE \div 2
      BY <2>3, QuotaLetsIn
    <3>6. \/ Cardinality(Held(q, m.origin)) < QUOTA
          \/ Cardinality(Held(q, m.origin)) <= SIZE \div 2
      BY <3>2, <3>4, <3>5
    <3> HIDE DEF q
    <3>7. QueueOK(Append(q, Entry(m)), WithKey(KeysOf(q), m.origin))
      BY <3>2, <3>4, <3>6, Inserting
    <3> QED BY <2>3, <3>7 DEF Insert, q
  <2> QED BY <2>1, <2>2, <2>3, OfferCases
<1>4. QED
  BY <1>1, <1>3 DEF IInv

\* The changes of one entry, or of several, at the request of a caller.
LEMMA CallerKeeps ==
  ASSUME IInv, ByCaller
  PROVE  IInv'
<1>1. QueueOK(queue, okey)
  BY DEF IInv
<1>2. ASSUME NEW i \in DOMAIN queue, NEW hop \in Hops, NEW fresh \in BOOLEAN,
             Retry(i, hop, fresh)
      PROVE  IInv'
  <2>1. queue' = [queue EXCEPT ![i] = Released(queue[i], hop, fresh)]
        /\ UNCHANGED <<okey, last, sel>>
    BY <1>2 DEF Retry
  <2>2. Released(queue[i], hop, fresh) \in Es
        /\ Released(queue[i], hop, fresh).origin = queue[i].origin
    <3> DEFINE e == queue[i]
    <3>1. e \in Es
      BY EntriesOK
    <3>2. e.attempts < ATTEMPTS \/ fresh \/ hop # e.hop
      BY <1>2 DEF Retry
    <3> HIDE DEF e
    <3>3. Released(e, hop, fresh) \in Es /\ Released(e, hop, fresh).origin = e.origin
      BY <3>1, <3>2, EntryChanges
    <3> QED BY <3>3 DEF e
  <2>3. /\ queue' = [j \in DOMAIN queue |-> queue'[j]]
        /\ \A j \in DOMAIN queue : queue'[j] \in Es /\ queue'[j].origin = queue[j].origin
    BY <2>1, <2>2, EntriesOK
  <2>4. QueueOK(queue', okey)
    BY <2>3, Changed
  <2> QED BY <2>1, <2>4 DEF IInv
<1>3. ASSUME NEW i \in DOMAIN queue, Hold(i) PROVE IInv'
  <2>1. queue' = [queue EXCEPT ![i].wait = TRUE] /\ UNCHANGED <<okey, last, sel>>
    BY <1>3 DEF Hold
  <2>2. [queue[i] EXCEPT !.wait = TRUE] \in Es
        /\ [queue[i] EXCEPT !.wait = TRUE].origin = queue[i].origin
    BY EntriesOK, EntryChanges
  <2>3. queue' = [queue EXCEPT ![i] = [queue[i] EXCEPT !.wait = TRUE]]
    BY <2>1
  <2>4. /\ queue' = [j \in DOMAIN queue |-> queue'[j]]
        /\ \A j \in DOMAIN queue : queue'[j] \in Es /\ queue'[j].origin = queue[j].origin
    BY <2>2, <2>3, EntriesOK
  <2>5. QueueOK(queue', okey)
    BY <2>4, Changed
  <2> QED BY <2>1, <2>5 DEF IInv
<1>4. ASSUME NEW hop \in Parents, Redirect(hop) PROVE IInv'
  <2>1. /\ queue' = [i \in DOMAIN queue |->
                       IF i \in Ready /\ queue[i].up /\ queue[i].hop # hop
                       THEN [queue[i] EXCEPT !.hop = hop, !.attempts = 0] ELSE queue[i]]
        /\ UNCHANGED <<okey, last, sel>>
    BY <1>4 DEF Redirect
  <2>2. hop \in Hops
    BY TxQueueAssumption
  <2>3. \A i \in DOMAIN queue :
          /\ queue[i] \in Es
          /\ [queue[i] EXCEPT !.hop = hop, !.attempts = 0] \in Es
          /\ [queue[i] EXCEPT !.hop = hop, !.attempts = 0].origin = queue[i].origin
    BY <2>2, EntriesOK, EntryChanges
  <2>4. /\ queue' = [j \in DOMAIN queue |-> queue'[j]]
        /\ \A j \in DOMAIN queue : queue'[j] \in Es /\ queue'[j].origin = queue[j].origin
    BY <2>1, <2>3
  <2>5. QueueOK(queue', okey)
    BY <2>4, Changed
  <2> QED BY <2>1, <2>5 DEF IInv
<1>5. ASSUME NEW i \in DOMAIN queue, Promote(i) PROVE IInv'
  <2>1. queue' = [queue EXCEPT ![i].prio = 1] /\ UNCHANGED <<okey, last, sel>>
    BY <1>5 DEF Promote
  <2>2. [queue[i] EXCEPT !.prio = 1] \in Es
        /\ [queue[i] EXCEPT !.prio = 1].origin = queue[i].origin
    BY EntriesOK, EntryChanges
  <2>3. queue' = [queue EXCEPT ![i] = [queue[i] EXCEPT !.prio = 1]]
    BY <2>1
  <2>4. /\ queue' = [j \in DOMAIN queue |-> queue'[j]]
        /\ \A j \in DOMAIN queue : queue'[j] \in Es /\ queue'[j].origin = queue[j].origin
    BY <2>2, <2>3, EntriesOK
  <2>5. QueueOK(queue', okey)
    BY <2>4, Changed
  <2> QED BY <2>1, <2>5 DEF IInv
<1>6. ASSUME NEW I \in TakenOut, Drop(I) PROVE IInv'
  <2>1. I \in SUBSET DOMAIN queue
    BY DEF TakenOut, Reports
  <2> QED BY <1>6, <2>1, DropKeeps
<1>7. QED
  BY <1>2, <1>3, <1>4, <1>5, <1>6 DEF ByCaller

------------------------------------------------------------------------------
(* The theorems. *)

\* The queue starts empty, with every index free.
LEMMA InitKeeps ==
  ASSUME Init
  PROVE  IInv
<1>1. queue = <<>> /\ queue \in Seq(Es) /\ Len(queue) = 0 /\ DOMAIN queue = {}
  <2>1. <<>> \in Seq(Es) /\ Len(<<>>) = 0
    BY EmptySeq
  <2> QED BY <2>1 DEF Init
<1>2. okey \in [Indices -> Origins \cup {NoOrigin}] /\ \A i \in Indices : okey[i] = NoOrigin
  BY DEF Init
<1>3. Exact(queue, okey)
  BY <1>1, <1>2 DEF Exact
<1>4. ASSUME NEW o PROVE Cardinality(Held(queue, o)) <= Most
  <2>1. Held(queue, o) = {}
    BY <1>1 DEF Held
  <2> QED BY <2>1, FS_EmptySet, TxQueueAssumption DEF Most, Larger
<1>5. last \in [Priorities -> Indices] /\ sel \in [Priorities -> Indices \cup {NoOrigin}]
  <2>1. SIZE - 1 \in Indices
    BY TxQueueAssumption DEF Indices
  <2> QED BY <2>1 DEF Init, NothingPacked
<1>6. QED
  BY <1>1, <1>2, <1>3, <1>4, <1>5, TxQueueAssumption DEF IInv, QueueOK

\* Every step keeps the invariant.
LEMMA StepKeeps ==
  ASSUME IInv, [Next]_vars
  PROVE  IInv'
<1>1. CASE UNCHANGED vars
  BY <1>1 DEF vars, IInv, QueueOK, Exact, Held
<1>2. QED
  BY <1>1, PackKeeps, CommitKeeps, OfferKeeps, CallerKeeps DEF Next, Change

\* The inductive invariant holds of every run.
LEMMA AlwaysIInv == Spec => []IInv
<1>1. Init => IInv
  BY InitKeeps
<1>2. IInv /\ [Next]_vars => IInv'
  BY StepKeeps
<1>3. QED
  BY <1>1, <1>2, PTL DEF Spec

\* What the invariant says of the tables, in the words of module TxQueue.
LEMMA InvariantImplies ==
  ASSUME IInv
  PROVE  TypeOK /\ IndexExact /\ QuotaBound
<1>1. /\ queue \in Seq(Es) /\ DOMAIN queue = 1 .. Len(queue)
      /\ Len(queue) <= SIZE /\ okey \in [Indices -> Origins \cup {NoOrigin}]
      /\ Exact(queue, okey)
      /\ \A o \in Origins : Cardinality(Held(queue, o)) <= Most
  BY EntriesOK DEF IInv, QueueOK
<1>2. queue \in Seq(Entries)
  <2>1. Es \subseteq Entries
    BY DEF Es
  <2> QED BY <1>1, <2>1, SeqMonotonic
<1>3. TypeOK
  BY <1>1, <1>2 DEF TypeOK, IInv
<1>4. IndexExact
  <2>1. \A o : OfOrigin(o) = Held(queue, o)
    BY DEF OfOrigin, Held
  <2>2. \A e \in Range(queue) : \E i \in Indices : okey[i] = e.origin
    BY <1>1 DEF Exact, Range
  <2>3. \A i \in Indices : okey[i] # NoOrigin => OfOrigin(okey[i]) # {}
    BY <1>1 DEF Exact, OfOrigin
  <2> QED BY <1>1, <2>2, <2>3 DEF IndexExact, Exact
<1>5. QuotaBound
  BY <1>1 DEF QuotaBound, OfOrigin, Held, Most
<1>6. QED
  BY <1>3, <1>4, <1>5

\* The queue, its tables and the frame packed are well formed; no message makes more
\* transmissions to one next hop than the reliability layer allows.
THEOREM TypeCorrect == Spec => []TypeOK
BY AlwaysIInv, InvariantImplies, PTL

\* Every origin with messages has one index, and no other has: an index is free
\* whenever a message is queued.
THEOREM IndexAlwaysFree == Spec => []IndexExact
BY AlwaysIInv, InvariantImplies, PTL

\* A flood of an origin never takes more than its quota, or what half a queue lets in.
THEOREM FloodContained == Spec => []QuotaBound
BY AlwaysIInv, InvariantImplies, PTL

\* An eviction drops the least urgent forwarded report, the oldest of them, and only for
\* a newcomer that is as urgent; the other messages keep their order.
LEMMA EvictionStep ==
  ASSUME IInv, NEW m \in Offers, Len(queue) = SIZE, ~(m.replace /\ Older(m) # {}), Offer(m)
  PROVE  \E v \in DOMAIN queue :
           /\ \A i \in 1 .. SIZE - 1 : queue'[i] = queue[IF i < v THEN i ELSE i + 1]
           /\ queue[v].cls = 0 /\ queue[v].origin # Local /\ queue[v].prio >= m.prio
           /\ \A i \in DOMAIN queue \ {v} :
                (queue[i].cls = 0 /\ queue[i].origin # Local) =>
                  queue[i].prio < queue[v].prio \/ (queue[i].prio = queue[v].prio /\ v < i)
<1> DEFINE p == m.prio
           v == Victim(p)
           q == Spared(p)
<1>1. p \in Priorities /\ p \in Int
  BY TxQueueAssumption DEF Priorities
<1>2. Evictable(p) # {} /\ queue' = Append(q, Entry(m))
  <2>1. ~(Len(queue) < SIZE)
    BY EntriesOK, TxQueueAssumption
  <2> QED BY <2>1, OfferCases DEF Insert
<1>3. /\ v \in Evictable(p)
      /\ \A i \in Evictable(p) : \/ queue[v].prio > queue[i].prio
                                 \/ queue[v].prio = queue[i].prio /\ v <= i
  BY <1>1, <1>2, VictimIs
<1>4. QueueOK(q, KeysOf(q)) /\ Len(q) = SIZE - 1
      /\ \A i \in 1 .. SIZE - 1 : q[i] = queue[IF i < v THEN i ELSE i + 1]
  BY <1>1, <1>2, EvictionIs
<1>5. q \in Seq(Es)
  BY <1>4 DEF QueueOK
<1> HIDE DEF p, v, q
<1>6. \A i \in 1 .. SIZE - 1 : queue'[i] = q[i]
  BY <1>2, <1>4, <1>5
<1>7. \A i \in DOMAIN queue : queue[i].prio \in Int /\ i \in Int
  BY EntriesOK DEF Priorities
<1>8. v \in DOMAIN queue /\ queue[v].cls = 0 /\ queue[v].origin # Local /\ queue[v].prio >= p
  BY <1>3 DEF Evictable
<1>9. ASSUME NEW i \in DOMAIN queue \ {v}, queue[i].cls = 0, queue[i].origin # Local
      PROVE  queue[i].prio < queue[v].prio \/ (queue[i].prio = queue[v].prio /\ v < i)
  <2>1. CASE queue[i].prio >= p
    <3>1. i \in Evictable(p)
      BY <1>9, <2>1 DEF Evictable
    <3> QED BY <1>3, <1>7, <1>8, <3>1
  <2>2. CASE ~(queue[i].prio >= p)
    BY <1>1, <1>7, <1>8, <2>2
  <2> QED BY <2>1, <2>2
<1>10. QED
  BY <1>4, <1>6, <1>8, <1>9 DEF p

\* What makes room for a newcomer is always the message that may best be spared
\* (txqueue.py 23-26).
THEOREM EvictionIsFair == Spec => EvictionFair
<1>1. IInv =>
        [\A m \in Offers :
           (Len(queue) = SIZE /\ ~(m.replace /\ Older(m) # {}) /\ Offer(m)) =>
           \E v \in DOMAIN queue :
             /\ \A i \in 1 .. SIZE - 1 : queue'[i] = queue[IF i < v THEN i ELSE i + 1]
             /\ queue[v].cls = 0 /\ queue[v].origin # Local /\ queue[v].prio >= m.prio
             /\ \A i \in DOMAIN queue \ {v} :
                  (queue[i].cls = 0 /\ queue[i].origin # Local) =>
                    queue[i].prio < queue[v].prio \/ (queue[i].prio = queue[v].prio /\ v < i)]_vars
  BY EvictionStep
<1>2. QED
  BY <1>1, AlwaysIInv, PTL DEF EvictionFair

\* The frame just packed, whose messages are those marked.
LEMMA PackedFrame ==
  ASSUME IInv, Packs
  PROVE  \E allowance \in Allowances : /\ Taken = Packed(ServiceOrder, allowance).taken
                                       /\ Taken \subseteq Ready
<1>1. PICK allowance \in Allowances : queue' = Marked(Packed(ServiceOrder, allowance).taken)
  BY DEF Packs, Pack
<1> DEFINE I == Packed(ServiceOrder, allowance).taken
<1>2. I \subseteq Ready
  BY PackedType DEF Frames
<1>3. Ready \subseteq DOMAIN queue
  BY DEF Ready
<1> HIDE DEF I
<1>4. queue' = Marked(I)
  BY <1>1 DEF I
<1>5. DOMAIN queue' = DOMAIN queue
  BY <1>4, MarkedIs
<1>6. ASSUME NEW i \in DOMAIN queue PROVE queue'[i].packed <=> i \in I
  <2>1. queue'[i] = [queue[i] EXCEPT !.packed = i \in I]
    BY <1>4, MarkedIs
  <2>2. queue[i] \in Entries
    BY EntriesOK
  <2>3. queue'[i].packed = (i \in I)
    BY <2>1, <2>2 DEF Entries
  <2> QED BY <2>3
<1>7. Taken = I
  BY <1>2, <1>3, <1>5, <1>6 DEF Taken
<1>8. QED
  BY <1>2, <1>7 DEF I

\* A message left behind comes after those in whose stead it would not have made the
\* frame longer.
LEMMA LeftBehindAfter ==
  ASSUME IInv, Packs, NEW i \in LeftBehind, NEW j \in Taken,
         Growth(Earlier(j), i) <= Growth(Earlier(j), j)
  PROVE  i \in Ready /\ j \in Ready /\ i # j /\ ~Before(i, j)
<1>1. PICK allowance \in Allowances : /\ Taken = Packed(ServiceOrder, allowance).taken
                                      /\ Taken \subseteq Ready
  BY PackedFrame
<1>2. /\ i \in Ready /\ j \in Ready /\ i \notin Taken
      /\ \E k \in Taken : queue[i].hop = queue[k].hop
  BY <1>1 DEF LeftBehind
<1>3. ~Before(i, j)
  BY <1>1, <1>2, TakenFirst DEF Earlier
<1>4. QED
  BY <1>2, <1>3

\* It is no more urgent, and no older than one of its origin and priority.
LEMMA OvertakingStep ==
  ASSUME IInv, Packs, NEW i \in LeftBehind, NEW j \in Taken,
         Growth(Earlier(j), i) <= Growth(Earlier(j), j)
  PROVE  /\ queue[i].prio >= queue[j].prio
         /\ (queue[i].prio = queue[j].prio /\ queue[i].origin = queue[j].origin) => j < i
<1>1. i \in Ready /\ j \in Ready /\ i # j /\ ~Before(i, j)
  BY LeftBehindAfter
<1>2. i \in Int /\ j \in Int /\ queue[i].prio \in Int /\ queue[j].prio \in Int
  BY <1>1, EntriesOK DEF Priorities
<1>3. queue[i].prio >= queue[j].prio
  BY <1>1, <1>2 DEF Before
<1>4. ASSUME queue[i].prio = queue[j].prio, queue[i].origin = queue[j].origin, i < j
      PROVE  FALSE
  BY <1>1, <1>4, RoundGrows DEF Before
<1>5. QED
  BY <1>1, <1>2, <1>3, <1>4

\* A frame never takes a message before a more urgent one, or before an older one of its
\* origin, unless that one would have made it longer (txqueue.py 7-10 and 40-44).
THEOREM NeverOvertaken == Spec => NoOvertaking
<1>1. IInv =>
        [Packs => \A i \in LeftBehind, j \in Taken :
           Growth(Earlier(j), i) <= Growth(Earlier(j), j) =>
             /\ queue[i].prio >= queue[j].prio
             /\ (queue[i].prio = queue[j].prio /\ queue[i].origin = queue[j].origin) => j < i]_vars
  BY OvertakingStep
<1>2. QED
  BY <1>1, AlwaysIInv, PTL DEF NoOvertaking

\* Among messages alike, an origin kept waiting has had its share, but for one message.
LEMMA ShareStep ==
  ASSUME IInv, Packs, NEW i \in LeftBehind, NEW o \in Origins, Alike(i)
  PROVE  Share(o, queue[i].prio) <= Share(queue[i].origin, queue[i].prio) + 1
<1> DEFINE p == queue[i].prio
           Served(x) == {b \in Taken : queue[b].origin = x /\ queue[b].prio = p}
           Kept == {x \in Ready \ Taken : queue[x].origin = queue[i].origin /\ queue[x].prio = p}
<1>1. Taken \subseteq Ready /\ IsFiniteSet(Ready) /\ \A x \in Ready : x \in Nat
  BY PackedFrame, EntriesOK
<1>2. i \in Kept /\ \E k \in Taken : queue[i].hop = queue[k].hop
  BY DEF LeftBehind
<1>3. PICK s \in Kept : \A x \in Kept : s <= x
  <2>1. Kept \in SUBSET Nat
    BY <1>1
  <2> HIDE DEF Kept
  <2> QED BY <1>2, <2>1, LeastNatural
<1>4. s \in Ready /\ queue[s].origin = queue[i].origin /\ queue[s].prio = p
  BY <1>3
<1>5. s \in LeftBehind
  BY <1>2, <1>3, <1>4 DEF LeftBehind, Alike
<1>6. \A x : IsFiniteSet(Served(x)) /\ Cardinality(Served(x)) \in Nat
  <2>1. \A x : Served(x) \in SUBSET Ready
    BY <1>1
  <2> HIDE DEF Served
  <2> QED BY <1>1, <2>1, FS_Subset, FS_CardinalityType
<1>7. Round(s) \in Nat /\ Round(s) <= Cardinality(Served(queue[i].origin))
  <2>1. Elder(s) \in SUBSET Served(queue[i].origin)
    <3>1. ASSUME NEW x \in Elder(s) PROVE x \in Served(queue[i].origin)
      <4>1. x \in Ready /\ queue[x].origin = queue[i].origin /\ queue[x].prio = p /\ x < s
        BY <1>4 DEF Elder
      <4>2. ~(s <= x)
        BY <1>1, <1>4, <4>1
      <4>3. x \notin Kept
        BY <1>3, <4>2
      <4> QED BY <4>1, <4>3
    <3> QED BY <3>1
  <2>2. Round(s) = Cardinality(Elder(s)) /\ Round(s) \in Nat
    BY <1>4, RoundType
  <2> HIDE DEF Served
  <2> QED BY <1>6, <2>1, <2>2, FS_Subset
<1> DEFINE f == [b \in Served(o) |-> Round(b)]
<1>8. ASSUME NEW b \in Served(o) PROVE b \in Ready /\ Round(b) \in 0 .. Round(s)
  <2>1. b \in Ready /\ queue[b].prio = queue[s].prio
    BY <1>1, <1>4
  <2>2. Growth(Earlier(b), s) <= Growth(Earlier(b), b)
    <3>1. SameGroup(i, s) /\ SameGroup(i, b) /\ queue[s].len = queue[b].len
      BY <1>4, <2>1 DEF Alike
    <3>2. SameGroup(s, b)
      BY <3>1, Groups
    <3>3. Growth(Earlier(b), s) = Growth(Earlier(b), b)
      BY <3>1, <3>2, GrowthAlike
    <3>4. Growth(Earlier(b), b) \in Nat
      <4>1. Earlier(b) \in SUBSET Ready
        BY <1>1 DEF Earlier
      <4> QED BY <2>1, <4>1, GrowthType
    <3> QED BY <3>3, <3>4
  <2>3. ~Before(s, b)
    BY <1>5, <2>2, LeftBehindAfter
  <2>4. Round(b) \in Nat
    BY <2>1, RoundType
  <2>5. ~(Round(s) < Round(b))
    BY <2>1, <2>3 DEF Before
  <2> QED BY <1>7, <2>1, <2>4, <2>5
<1>9. ASSUME NEW a \in Served(o), NEW b \in Served(o), f[a] = f[b] PROVE a = b
  <2>1. /\ a \in Ready /\ b \in Ready /\ queue[a].prio = queue[b].prio
        /\ queue[a].origin = queue[b].origin /\ Round(a) = Round(b)
        /\ Round(a) \in Nat /\ a \in Nat /\ b \in Nat
    BY <1>1, <1>8, <1>9
  <2>2. ~(a < b) /\ ~(b < a)
    BY <2>1, RoundGrows
  <2> QED BY <2>1, <2>2
<1>10. f \in [Served(o) -> 0 .. Round(s)]
  BY <1>8
<1> HIDE DEF f, Served
<1>11. f \in Injection(Served(o), 0 .. Round(s))
  BY <1>9, <1>10, Fun_IsInj
<1>12. IsFiniteSet(0 .. Round(s)) /\ Cardinality(0 .. Round(s)) = Round(s) + 1
  <2>1. Cardinality(0 .. Round(s)) = IF 0 > Round(s) THEN 0 ELSE Round(s) - 0 + 1
    BY <1>7, FS_Interval
  <2> QED BY <1>7, <2>1, FS_Interval
<1>13. Cardinality(Served(o)) <= Round(s) + 1
  BY <1>11, <1>12, FS_Injection
<1>14. Cardinality(Served(o)) <= Cardinality(Served(queue[i].origin)) + 1
  BY <1>6, <1>7, <1>13
<1>15. QED
  BY <1>14 DEF Share, Served

\* Whatever its volume, no origin gets more of a frame than another one that is kept
\* waiting with messages of the same group, as long and bound to the same next hop, but
\* for one message (txqueue.py 8-13).
THEOREM SharesAreEqual == Spec => EqualShare
<1>1. IInv =>
        [Packs => \A i \in LeftBehind, o \in Origins :
           Alike(i) => Share(o, queue[i].prio) <= Share(queue[i].origin, queue[i].prio) + 1]_vars
  BY ShareStep
<1>2. QED
  BY <1>1, AlwaysIInv, PTL DEF EqualShare

------------------------------------------------------------------------------
(* Custody. *)

\* The messages of class 1 and 2 of the queue q, and what Custodies says of one.
Kept(q) == {i \in DOMAIN q : q[i].cls # 0}
CustodyOf(e) ==
  [origin |-> e.origin, cls |-> e.cls, port |-> e.port, hop |-> e.hop,
   retried |-> e.attempts - (IF e.wait THEN 1 ELSE 0)]

\* They are listed by age.
LEMMA CustodiesAre ==
  ASSUME NEW q \in Seq(Es)
  PROVE  /\ IsFiniteSet(Kept(q)) /\ Orders(Age, Kept(q)) /\ Cardinality(Kept(q)) \in Nat
         /\ \A i \in Kept(q) : i \in Nat
         /\ Custodies(q) = [n \in 1 .. Cardinality(Kept(q)) |-> CustodyOf(q[Nth(Kept(q), Age, n)])]
<1> DEFINE I == {i \in DOMAIN q : q[i].cls = 0}
           K == Kept(q)
           w == Without(q, I)
<1>1. I \in SUBSET DOMAIN q /\ K = DOMAIN q \ I /\ DOMAIN q = 1 .. Len(q) /\ Len(q) \in Nat
  BY LenProperties DEF Kept
<1>2. \A i \in K : i \in Nat
  BY <1>1
<1> HIDE DEF I, K
<1>3. /\ IsFiniteSet(K) /\ Orders(Age, K) /\ Cardinality(K) \in Nat
      /\ DOMAIN w = 1 .. Cardinality(K)
      /\ \A n \in 1 .. Cardinality(K) : w[n] = q[Nth(K, Age, n)]
  <2>1. IsFiniteSet(K) /\ Orders(Age, K) /\ Cardinality(K) \in Nat
    BY <1>1, WithoutIs
  <2>2. DOMAIN w = 1 .. Cardinality(K)
    BY <1>1, WithoutIs
  <2>3. \A n \in 1 .. Cardinality(K) : w[n] = q[Nth(K, Age, n)]
    BY <1>1, WithoutIs
  <2> QED BY <2>1, <2>2, <2>3
<1>4. Custodies(q) = [n \in DOMAIN w |-> CustodyOf(w[n])]
  BY DEF Custodies, CustodyOf, I
<1> HIDE DEF w
<1>5. Custodies(q) = [n \in 1 .. Cardinality(K) |-> CustodyOf(q[Nth(K, Age, n)])]
  BY <1>3, <1>4
<1>6. QED
  BY <1>2, <1>3, <1>5 DEF K

\* g maps the messages of class 1 and 2 of the queue q to the first ones of the queue r,
\* in order, and each keeps its custody.
Carries(g, q, r) ==
  /\ g \in [Kept(q) -> Kept(r)]
  /\ \A i, j \in Kept(q) : i < j => g[i] < g[j]
  /\ \A i \in Kept(q) : CustodyOf(r[g[i]]) = CustodyOf(q[i])
  /\ \A i \in Kept(q), k \in Kept(r) : k <= g[i] => \E j \in Kept(q) : g[j] = k

\* A message carried keeps its rank.
LEMMA CarriedRank ==
  ASSUME NEW q \in Seq(Es), NEW r \in Seq(Es), NEW g, Carries(g, q, r), NEW i \in Kept(q)
  PROVE  Rank(Kept(r), Age, g[i]) = Rank(Kept(q), Age, i)
<1> DEFINE K == Kept(q)
           L == Kept(r)
           U == Upto(K, Age, i)
           V == Upto(L, Age, g[i])
           h == [k \in U |-> g[k]]
<1>1. /\ IsFiniteSet(K) /\ Orders(Age, K) /\ IsFiniteSet(L) /\ Orders(Age, L)
      /\ \A k \in K : k \in Nat /\ g[k] \in L /\ g[k] \in Nat
      /\ \A k \in L : k \in Nat
  BY CustodiesAre DEF Carries
<1>2. U = {k \in K : k <= i} /\ V = {k \in L : k <= g[i]}
  BY <1>1 DEF Upto, Age
<1>3. \A j, k \in K : j < k => g[j] < g[k]
  BY DEF Carries
<1>4. \A k \in K : k <= i => g[k] <= g[i]
  BY <1>1, <1>3
<1>5. \A k \in K : g[k] <= g[i] => k <= i
  <2>1. ASSUME NEW k \in K, g[k] <= g[i], ~(k <= i) PROVE FALSE
    <3>1. i < k /\ i \in K
      BY <1>1, <2>1
    <3>2. g[i] < g[k] /\ g[i] \in Nat /\ g[k] \in Nat
      BY <1>1, <1>3, <3>1
    <3> QED BY <2>1, <3>2
  <2> QED BY <2>1
<1>6. \A j, k \in K : g[j] = g[k] => j = k
  <2>1. ASSUME NEW j \in K, NEW k \in K, g[j] = g[k] PROVE j = k
    <3>1. ~(j < k) /\ ~(k < j) /\ j \in Nat /\ k \in Nat
      BY <1>1, <1>3, <2>1
    <3> QED BY <3>1
  <2> QED BY <2>1
<1>7. \A k \in V : \E j \in U : g[j] = k
  <2>1. ASSUME NEW k \in V PROVE \E j \in U : g[j] = k
    <3>1. k \in L /\ k <= g[i]
      BY <1>2
    <3>2. PICK j \in K : g[j] = k
      BY <3>1 DEF Carries
    <3>3. j <= i
      BY <1>5, <3>1, <3>2
    <3> QED BY <1>2, <3>2, <3>3
  <2> QED BY <2>1
<1> HIDE DEF K, L
<1>8. h \in [U -> V]
  <2>1. \A k \in U : g[k] \in V
    BY <1>1, <1>2, <1>4
  <2> QED BY <2>1
<1>9. IsFiniteSet(U)
  <2>1. U \in SUBSET K
    BY <1>2
  <2> QED BY <1>1, <2>1, FS_Subset
<1>10. (\A j, k \in U : h[j] = h[k] => j = k) /\ (\A k \in V : \E j \in U : h[j] = k)
  BY <1>2, <1>6, <1>7
<1> HIDE DEF h, U, V
<1>11. h \in Bijection(U, V)
  BY <1>8, <1>10, Fun_IsBij
<1>12. Cardinality(V) = Cardinality(U)
  <2>1. ExistsBijection(U, V)
    BY <1>11 DEF ExistsBijection
  <2> QED BY <1>9, <2>1, FS_Bijection
<1>13. QED
  BY <1>12 DEF U, V, K, L, Rank

\* The custody of the messages carried is a prefix of what it becomes.
LEMMA CarriedPrefix ==
  ASSUME NEW q \in Seq(Es), NEW r \in Seq(Es), NEW g, Carries(g, q, r)
  PROVE  IsPrefix(Custodies(q), Custodies(r))
<1> DEFINE K == Kept(q)
           L == Kept(r)
           c == Cardinality(K)
           d == Cardinality(L)
           s == Custodies(q)
           t == Custodies(r)
<1>1. /\ IsFiniteSet(K) /\ Orders(Age, K) /\ c \in Nat
      /\ IsFiniteSet(L) /\ Orders(Age, L) /\ d \in Nat
  BY CustodiesAre
<1>2. s = [n \in 1 .. c |-> CustodyOf(q[Nth(K, Age, n)])]
  BY CustodiesAre
<1>3. t = [n \in 1 .. d |-> CustodyOf(r[Nth(L, Age, n)])]
  BY CustodiesAre
<1>4. ASSUME NEW n \in 1 .. c PROVE n \in 1 .. d /\ t[n] = s[n]
  <2> DEFINE i == Nth(K, Age, n)
  <2>1. i \in K /\ Rank(K, Age, i) = n
    BY <1>1, NthIs
  <2> HIDE DEF i
  <2>2. g[i] \in L /\ CustodyOf(r[g[i]]) = CustodyOf(q[i])
    BY <2>1 DEF Carries
  <2>3. Rank(L, Age, g[i]) = n
    BY <2>1, CarriedRank
  <2> HIDE DEF K, L
  <2>4. n \in 1 .. d /\ Nth(L, Age, n) = g[i]
    BY <1>1, <2>2, <2>3, NthOfRank
  <2> HIDE DEF c, d, s, t
  <2>5. t[n] = CustodyOf(r[g[i]]) /\ s[n] = CustodyOf(q[i])
    BY <1>2, <1>3, <2>4 DEF i
  <2> QED BY <2>2, <2>4, <2>5
<1> HIDE DEF K, L, c, d, s, t
<1>5. c <= d
  <2>1. c = 0 \/ c \in 1 .. c
    BY <1>1
  <2> QED BY <1>1, <1>4, <2>1
<1> DEFINE T == {s[n] : n \in 1 .. c} \cup {t[n] : n \in 1 .. d}
<1>6. s \in Seq(T) /\ t \in Seq(T) /\ Len(s) = c /\ Len(t) = d
  <2>1. s \in [1 .. c -> T] /\ t \in [1 .. d -> T]
    BY <1>2, <1>3
  <2> HIDE DEF T
  <2>2. s \in Seq(T) /\ t \in Seq(T)
    BY <1>1, <2>1, SeqDef
  <2> QED BY <1>1, <2>1, <2>2, LenProperties
<1> HIDE DEF T
<1>7. SubSeq(s, 1, c) = SubSeq(t, 1, c)
  <2>1. \A n \in 1 .. c : s[n] \in T /\ t[n] \in T
    BY <1>2, <1>4, <1>6, ElementOfSeq
  <2>2. /\ SubSeq(s, 1, c) \in Seq(T) /\ Len(SubSeq(s, 1, c)) = IF 1 <= c THEN c - 1 + 1 ELSE 0
        /\ \A n \in 1 .. c - 1 + 1 : SubSeq(s, 1, c)[n] = s[1 + n - 1]
    BY <1>1, <2>1, SubSeqProperties
  <2>3. /\ SubSeq(t, 1, c) \in Seq(T) /\ Len(SubSeq(t, 1, c)) = IF 1 <= c THEN c - 1 + 1 ELSE 0
        /\ \A n \in 1 .. c - 1 + 1 : SubSeq(t, 1, c)[n] = t[1 + n - 1]
    BY <1>1, <2>1, SubSeqProperties
  <2>4. \A n \in 1 .. c : n \in 1 .. c - 1 + 1 /\ 1 + n - 1 = n
    BY <1>1
  <2>5. \A n \in 1 .. c : SubSeq(s, 1, c)[n] = SubSeq(t, 1, c)[n]
    BY <1>4, <2>2, <2>3, <2>4
  <2>6. Len(SubSeq(s, 1, c)) = c /\ Len(SubSeq(t, 1, c)) = c
    BY <1>1, <2>2, <2>3
  <2> QED BY <2>2, <2>3, <2>5, <2>6, SeqEqual
<1>8. QED
  BY <1>5, <1>6, <1>7 DEF IsPrefix, s, t

\* The custody of the queue survives what becomes of it.
LEMMA SameCustody ==
  ASSUME IInv, NEW r \in Seq(Es), DOMAIN r = DOMAIN queue,
         \A i \in DOMAIN queue : r[i].cls = queue[i].cls,
         \A i \in DOMAIN queue : queue[i].cls # 0 => CustodyOf(r[i]) = CustodyOf(queue[i])
  PROVE  IsPrefix(Custodies(queue), Custodies(r))
<1> DEFINE g == [i \in Kept(queue) |-> i]
<1>1. Kept(r) = Kept(queue) /\ \A i \in Kept(queue) : CustodyOf(r[i]) = CustodyOf(queue[i])
  BY DEF Kept
<1>2. Carries(g, queue, r)
  BY <1>1 DEF Carries
<1> HIDE DEF g
<1>3. QED
  BY <1>2, EntriesOK, CarriedPrefix

\* Packing marks entries only.
LEMMA PackCustody ==
  ASSUME IInv, Pack
  PROVE  IsPrefix(Custodies(queue), Custodies(queue'))
<1>1. PICK I : queue' = Marked(I)
  BY DEF Pack
<1>2. /\ Marked(I) \in Seq(Es) /\ DOMAIN Marked(I) = DOMAIN queue
      /\ \A i \in DOMAIN queue : Marked(I)[i] = [queue[i] EXCEPT !.packed = i \in I]
  BY MarkedIs
<1>3. ASSUME NEW i \in DOMAIN queue
      PROVE  /\ Marked(I)[i].cls = queue[i].cls
             /\ CustodyOf(Marked(I)[i]) = CustodyOf(queue[i])
  <2>1. queue[i] \in Entries
    BY EntriesOK
  <2> DEFINE e == [queue[i] EXCEPT !.packed = i \in I]
  <2>2. /\ e.origin = queue[i].origin /\ e.cls = queue[i].cls /\ e.port = queue[i].port
        /\ e.hop = queue[i].hop /\ e.attempts = queue[i].attempts /\ e.wait = queue[i].wait
    BY <2>1 DEF Entries
  <2>3. Marked(I)[i] = e
    BY <1>2
  <2> HIDE DEF e
  <2> QED BY <2>2, <2>3 DEF CustodyOf
<1>4. QED
  BY <1>1, <1>2, <1>3, SameCustody

\* Of a frame on air, the class 0 messages leave; the others wait, one transmission further.
LEMMA CommitCustody ==
  ASSUME IInv, Commit
  PROVE  IsPrefix(Custodies(queue), Custodies(queue'))
<1> DEFINE I == {i \in Sent : queue[i].cls = 0}
           K == DOMAIN OnAir \ I
           c == Cardinality(K)
           w == Without(OnAir, I)
           g == [i \in Kept(queue) |-> Rank(K, Age, i)]
<1>1. queue' = w
  BY DEF Commit, OnAir
<1>2. /\ OnAir \in Seq(Es) /\ DOMAIN OnAir = DOMAIN queue /\ I \in SUBSET DOMAIN OnAir
      /\ DOMAIN queue = 1 .. Len(queue) /\ Len(queue) \in Nat
  BY OnAirIs, EntriesOK DEF Sent, Ready
<1>3. ASSUME NEW i \in DOMAIN queue
      PROVE  OnAir[i].cls = queue[i].cls /\ CustodyOf(OnAir[i]) = CustodyOf(queue[i])
  <2> DEFINE a == Await(queue[i])
             b == IF i \in Sent THEN a ELSE queue[i]
             e == [b EXCEPT !.packed = FALSE]
  <2>1. queue[i] \in Entries /\ queue[i].attempts \in Int
    BY EntriesOK DEF Entries
  <2>2. /\ a.origin = queue[i].origin /\ a.cls = queue[i].cls /\ a.port = queue[i].port
        /\ a.hop = queue[i].hop /\ a.attempts = queue[i].attempts + 1 /\ a.wait = TRUE
        /\ a = [queue[i] EXCEPT !.wait = TRUE, !.attempts = queue[i].attempts + 1]
    BY <2>1 DEF Entries, Await
  <2>3. i \in Sent => queue[i].wait = FALSE
    BY <2>1 DEF Sent, Ready, Entries
  <2>4. b.cls = queue[i].cls /\ CustodyOf(b) = CustodyOf(queue[i])
    <3>1. CASE i \in Sent
      <4>1. b = a
        BY <3>1
      <4>2. a.attempts - (IF a.wait THEN 1 ELSE 0)
              = queue[i].attempts - (IF queue[i].wait THEN 1 ELSE 0)
        BY <2>1, <2>2, <2>3, <3>1
      <4> HIDE DEF a, b
      <4> QED BY <2>2, <4>1, <4>2 DEF CustodyOf
    <3>2. CASE i \notin Sent
      BY <3>2
    <3> QED BY <3>1, <3>2
  <2>5. \A x \in Es : /\ [x EXCEPT !.packed = FALSE].cls = x.cls
                      /\ CustodyOf([x EXCEPT !.packed = FALSE]) = CustodyOf(x)
    BY DEF Es, Entries, CustodyOf
  <2>6. b \in Es
    BY EntriesOK, EntryChanges DEF Sent, Ready
  <2>7. OnAir[i] = e
    BY OnAirIs
  <2> HIDE DEF b
  <2> QED BY <2>4, <2>5, <2>6, <2>7
<1> HIDE DEF I
<1>4. K \in SUBSET DOMAIN queue /\ Kept(queue) \in SUBSET K
  BY <1>2 DEF Kept, I
<1>5. IsFiniteSet(K) /\ Orders(Age, K) /\ c \in Nat /\ \A i \in K : i \in Nat
  BY <1>2, <1>4, Positions
<1>6. w \in Seq(Es)
  BY <1>2, WithoutIs
<1>7. DOMAIN w = 1 .. c
  BY <1>2, WithoutIs
<1>8. \A n \in 1 .. c : Nth(K, Age, n) \in K /\ w[n] = OnAir[Nth(K, Age, n)]
  <2>1. K = DOMAIN OnAir \ I
    OBVIOUS
  <2> HIDE DEF K
  <2>2. \A n \in 1 .. c : w[n] = OnAir[Nth(K, Age, n)]
    BY <1>2, <2>1, WithoutIs
  <2> QED BY <1>5, <2>2, NthIs
<1> HIDE DEF K, w
<1>9. \A i \in K : Rank(K, Age, i) \in 1 .. c /\ Nth(K, Age, Rank(K, Age, i)) = i
  BY <1>5, NthOfRank
<1>10. \A i \in K : w[Rank(K, Age, i)] = OnAir[i]
  BY <1>8, <1>9
<1>11. \A i \in Kept(queue) : i \in K /\ i \in DOMAIN queue /\ queue[i].cls # 0
  BY <1>4 DEF Kept
<1>12. g \in [Kept(queue) -> Kept(w)]
  <2>1. ASSUME NEW i \in Kept(queue) PROVE Rank(K, Age, i) \in Kept(w)
    BY <1>3, <1>7, <1>9, <1>10, <1>11 DEF Kept
  <2> QED BY <2>1
<1>13. ASSUME NEW i \in Kept(queue), NEW j \in Kept(queue), i < j PROVE g[i] < g[j]
  <2>1. i \in K /\ j \in K /\ i \in Nat /\ j \in Nat /\ i # j /\ <<i, j>> \in Age
    BY <1>5, <1>11, <1>13 DEF Age
  <2>2. Rank(K, Age, i) < Rank(K, Age, j)
    BY <1>5, <2>1, RankGrows
  <2> QED BY <2>2
<1>14. ASSUME NEW i \in Kept(queue) PROVE CustodyOf(w[g[i]]) = CustodyOf(queue[i])
  BY <1>3, <1>10, <1>11
<1>15. ASSUME NEW k \in Kept(w) PROVE \E j \in Kept(queue) : g[j] = k
  <2> DEFINE j == Nth(K, Age, k)
  <2>1. k \in 1 .. c /\ w[k].cls # 0
    BY <1>7 DEF Kept
  <2>2. j \in K /\ w[k] = OnAir[j] /\ Rank(K, Age, j) = k
    BY <1>5, <1>8, <2>1, NthIs
  <2>3. j \in Kept(queue)
    BY <1>3, <1>4, <2>1, <2>2 DEF Kept
  <2> HIDE DEF j
  <2> QED BY <2>2, <2>3
<1>16. Carries(g, queue, w)
  <2> HIDE DEF g
  <2> QED BY <1>12, <1>13, <1>14, <1>15 DEF Carries
<1> HIDE DEF g
<1>17. QED
  BY <1>1, <1>6, <1>16, EntriesOK, CarriedPrefix

\* A class 0 message takes the place of another one.
LEMMA ReplaceCustody ==
  ASSUME IInv, NEW m \in Offers, m.cls = 0, Replace(m)
  PROVE  IsPrefix(Custodies(queue), Custodies(queue'))
<1>1. PICK i \in Older(m) : queue' = [queue EXCEPT ![i] = Entry(m)]
  BY DEF Replace
<1>2. i \in DOMAIN queue /\ queue[i].cls = 0 /\ Entry(m).cls = 0 /\ Entry(m) \in Es
  BY EntryFacts DEF Older, OfOrigin, Entry
<1>3. /\ queue' \in Seq(Es) /\ DOMAIN queue' = DOMAIN queue
      /\ \A j \in DOMAIN queue : queue'[j] = IF j = i THEN Entry(m) ELSE queue[j]
  BY <1>1, <1>2, EntriesOK, ExceptSeq, LenProperties
<1>4. QED
  BY <1>2, <1>3, SameCustody

\* A message queued at the end of the queue q, where the custody is already.
LEMMA AppendCustody ==
  ASSUME IInv, NEW q \in Seq(Es), NEW g, Carries(g, queue, q), NEW e \in Es
  PROVE  IsPrefix(Custodies(queue), Custodies(Append(q, e)))
<1> DEFINE r == Append(q, e)
<1>1. /\ r \in Seq(Es) /\ Len(q) \in Nat /\ DOMAIN q = 1 .. Len(q)
      /\ DOMAIN r = DOMAIN q \cup {Len(q) + 1} /\ \A j \in DOMAIN q : r[j] = q[j]
  BY LenProperties
<1> HIDE DEF r
<1>2. Kept(q) \in SUBSET Kept(r) /\ \A k \in Kept(r) : k \in Kept(q) \/ k = Len(q) + 1
  BY <1>1 DEF Kept
<1>3. \A i \in Kept(queue) : g[i] \in Kept(q) /\ g[i] \in DOMAIN q
  BY DEF Carries, Kept
<1>4. \A i \in Kept(queue) : ~(Len(q) + 1 <= g[i])
  BY <1>1, <1>3
<1>5. Carries(g, queue, r)
  BY <1>1, <1>2, <1>3, <1>4 DEF Carries
<1>6. QED
  BY <1>1, <1>5, EntriesOK, CarriedPrefix DEF r

\* A message offered leaves those of class 1 and 2 where they are.
LEMMA OfferCustody ==
  ASSUME IInv, NEW m \in Offers, Offer(m)
  PROVE  IsPrefix(Custodies(queue), Custodies(queue'))
<1>1. /\ queue \in Seq(Es) /\ DOMAIN queue = 1 .. Len(queue) /\ Len(queue) \in Nat
      /\ Entry(m) \in Es
  BY EntriesOK, EntryFacts
<1>2. CASE m.cls = 0 /\ Replace(m)
  BY <1>2, ReplaceCustody
<1>3. CASE Insert(m, queue, okey)
  <2> DEFINE g == [i \in Kept(queue) |-> i]
  <2>1. Carries(g, queue, queue)
    BY DEF Carries
  <2> HIDE DEF g
  <2> QED BY <1>1, <1>3, <2>1, AppendCustody DEF Insert
<1>4. CASE /\ Len(queue) = SIZE /\ Evictable(m.prio) # {}
           /\ Insert(m, Spared(m.prio), KeysOf(Spared(m.prio)))
  <2> DEFINE p == m.prio
             v == Victim(p)
             q == Spared(p)
             g == [i \in Kept(queue) |-> IF i < v THEN i ELSE i - 1]
  <2>1. p \in Priorities
    BY TxQueueAssumption DEF Priorities
  <2>2. v \in DOMAIN queue /\ queue[v].cls = 0
    BY <1>4, <2>1, VictimIs DEF Evictable
  <2>3. /\ QueueOK(q, KeysOf(q)) /\ Len(q) = SIZE - 1
        /\ \A i \in 1 .. SIZE - 1 : q[i] = queue[IF i < v THEN i ELSE i + 1]
    BY <1>4, <2>1, EvictionIs
  <2>4. q \in Seq(Es) /\ DOMAIN q = 1 .. SIZE - 1 /\ DOMAIN queue = 1 .. SIZE
    BY <1>1, <1>4, <2>3, LenProperties DEF QueueOK
  <2> HIDE DEF p, v, q
  <2>5. ASSUME NEW i \in Kept(queue)
        PROVE  /\ i \in 1 .. SIZE /\ i # v /\ g[i] \in 1 .. SIZE - 1
               /\ q[g[i]] = queue[i]
    <3>1. i \in 1 .. SIZE /\ i # v /\ v \in 1 .. SIZE /\ SIZE \in Nat
      BY <2>2, <2>4, TxQueueAssumption DEF Kept
    <3>2. g[i] = IF i < v THEN i ELSE i - 1
      OBVIOUS
    <3> HIDE DEF g
    <3>3. g[i] \in 1 .. SIZE - 1 /\ (IF g[i] < v THEN g[i] ELSE g[i] + 1) = i
      BY <3>1, <3>2
    <3> QED BY <2>3, <3>1, <3>3
  <2>6. \A i \in Kept(queue) : g[i] \in Kept(q)
    BY <2>4, <2>5 DEF Kept
  <2>7. ASSUME NEW i \in Kept(queue), NEW j \in Kept(queue), i < j PROVE g[i] < g[j]
    <3>1. /\ g[i] = IF i < v THEN i ELSE i - 1
          /\ g[j] = IF j < v THEN j ELSE j - 1
      OBVIOUS
    <3>2. i \in Int /\ j \in Int /\ i # v /\ j # v /\ v \in Int
      BY <2>2, <2>4, <2>5
    <3> HIDE DEF g
    <3> QED BY <2>7, <3>1, <3>2
  <2>8. ASSUME NEW k \in Kept(q) PROVE \E j \in Kept(queue) : g[j] = k
    <3> DEFINE j == IF k < v THEN k ELSE k + 1
    <3>1. k \in 1 .. SIZE - 1 /\ v \in 1 .. SIZE /\ SIZE \in Nat /\ q[k].cls # 0
      BY <2>2, <2>4, TxQueueAssumption DEF Kept
    <3>2. j \in 1 .. SIZE /\ (IF j < v THEN j ELSE j - 1) = k
      BY <3>1
    <3>3. q[k] = queue[j]
      BY <2>3, <3>1
    <3> HIDE DEF j
    <3>4. j \in Kept(queue)
      BY <2>4, <3>1, <3>2, <3>3 DEF Kept
    <3> QED BY <3>2, <3>4
  <2>9. g \in [Kept(queue) -> Kept(q)]
    BY <2>6
  <2> HIDE DEF g
  <2>10. Carries(g, queue, q)
    BY <2>5, <2>7, <2>8, <2>9 DEF Carries
  <2>11. queue' = Append(q, Entry(m))
    BY <1>4 DEF Insert, q, p
  <2> QED BY <1>1, <2>4, <2>10, <2>11, AppendCustody
<1>5. QED
  BY <1>2, <1>3, <1>4, OfferCases

\* A class 1 or 2 message leaves the queue, or loses its place, at the request of a caller
\* only, and its transmissions are counted right (txqueue.py 50-53 and 446-451).
THEOREM CustodyKept == Spec => Custody
<1>1. ASSUME IInv, [Next]_vars
      PROVE  [IsPrefix(Custodies(queue), Custodies(queue')) \/ ByCaller]_vars
  <2>1. CASE Pack
    BY <1>1, <2>1, PackCustody
  <2>2. CASE Commit
    BY <1>1, <2>2, CommitCustody
  <2>3. ASSUME NEW m \in Offers, Offer(m)
        PROVE  IsPrefix(Custodies(queue), Custodies(queue'))
    BY <1>1, <2>3, OfferCustody
  <2> QED BY <1>1, <2>1, <2>2, <2>3 DEF Next, Change
<1>2. QED
  BY <1>1, AlwaysIInv, PTL DEF Spec, Custody
==============================================================================
