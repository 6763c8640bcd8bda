---------------------------- MODULE DutyCycleProofs ----------------------------
(***************************************************************************)
(* Proofs about module DutyCycle, for any bins, budgets and frames.        *)
(*                                                                         *)
(* The slots are compared with the history of the charges bin by bin,      *)
(* from the current one back: the slots of the last k + 1 bins count at    *)
(* least what was charged since the start of the k-th bin before the       *)
(* current one.  This holds of the window and of its retained record,      *)
(* whose bin lasts until the next call after a reset (Start): a reset only *)
(* lengthens bins.  Without a reset they count exactly that.               *)
(***************************************************************************)
EXTENDS DutyCycle, WellFoundedInduction, TLAPS

------------------------------------------------------------------------------
(* Induction on the naturals, stated for a set instead of a predicate, and the *)
(* functions it defines.                                                       *)

\* Every nonempty set of naturals has a least element.
LEMMA LeastNatural ==
  ASSUME NEW S \in SUBSET Nat, S # {}
  PROVE  \E m \in S : \A k \in S : m <= k
<1> DEFINE R == OpToRel(<, Nat)
<1>1. IsWellFoundedOn(R, Nat)
  BY NatLessThanWellFounded
<1>2. \A x, y \in Nat : x < y <=> <<x, y>> \in R
  BY DEF OpToRel
<1> HIDE DEF R
<1>3. \E x \in S : \A y \in S : <<y, x>> \notin R
  BY <1>1, WFMin
<1>4. PICK x \in S : \A y \in S : <<y, x>> \notin R
  BY <1>3
<1>5. \A y \in S : ~(y < x) /\ y \in Nat /\ x \in Nat
  BY <1>2, <1>4
<1>6. QED
  BY <1>5

\* A set that holds 0, and the successor of each of its elements up to N.
LEMMA Induction ==
  ASSUME NEW N \in Nat, NEW S, 0 \in S, \A i \in 0 .. N - 1 : i \in S => i + 1 \in S
  PROVE  0 .. N \subseteq S
<1> DEFINE T == (0 .. N) \ S
<1>1. SUFFICES ASSUME T # {} PROVE FALSE
  OBVIOUS
<1>2. T \in SUBSET Nat
  OBVIOUS
<1>3. PICK m \in T : \A k \in T : m <= k
  <2> HIDE DEF T
  <2> QED BY <1>1, <1>2, LeastNatural
<1>4. m # 0 /\ m - 1 \in 0 .. N - 1 /\ m - 1 \notin T
  BY <1>3
<1>5. QED
  BY <1>4

\* f iterates F, which maps a value of X and a step to a value, N times from x.
Iterates(f, F, N, X, x) ==
  /\ f \in [0 .. N -> X]
  /\ f[0] = x
  /\ \A i \in 1 .. N : f[i] = F[<<f[i - 1], i>>]

\* The sequence of the iterations exists.
LEMMA Recursion ==
  ASSUME NEW N \in Nat, NEW X, NEW x \in X, NEW F \in [X \X (1 .. N) -> X]
  PROVE  \E f : Iterates(f, F, N, X, x)
<1> DEFINE S == {n \in 0 .. N : \E f : Iterates(f, F, n, X, x)}
<1>1. 0 \in S
  <2>1. Iterates([i \in 0 .. 0 |-> x], F, 0, X, x)
    BY DEF Iterates
  <2>2. QED
    BY <2>1
<1>2. ASSUME NEW n \in 0 .. N - 1, n \in S PROVE n + 1 \in S
  <2>1. PICK f : Iterates(f, F, n, X, x)
    BY <1>2
  <2> USE DEF Iterates
  <2> DEFINE g == [i \in 0 .. n + 1 |-> IF i = n + 1 THEN F[<<f[n], n + 1>>] ELSE f[i]]
  <2>2. g \in [0 .. n + 1 -> X]
    <3>1. <<f[n], n + 1>> \in X \X (1 .. N)
      BY <2>1
    <3>2. \A i \in 0 .. n + 1 : i # n + 1 => i \in 0 .. n
      OBVIOUS
    <3> QED BY <2>1, <3>1, <3>2
  <2>3. g[0] = x
    BY <2>1
  <2>4. ASSUME NEW i \in 1 .. n + 1 PROVE g[i] = F[<<g[i - 1], i>>]
    <3>1. CASE i = n + 1
      <4>1. g[i] = F[<<f[n], n + 1>>] /\ g[i - 1] = f[n]
        BY <3>1
      <4> QED BY <4>1, <3>1
    <3>2. CASE i # n + 1
      <4>1. i \in 1 .. n /\ g[i] = f[i] /\ g[i - 1] = f[i - 1]
        BY <3>2
      <4> QED BY <4>1, <2>1
    <3> QED BY <3>1, <3>2
  <2>5. Iterates(g, F, n + 1, X, x)
    <3> HIDE DEF g
    <3> QED BY <2>2, <2>3, <2>4
  <2> HIDE DEF Iterates, g
  <2>6. QED
    BY <2>5
<1>3. N \in S
  <2> HIDE DEF S
  <2> QED BY <1>1, <1>2, Induction
<1>4. QED
  BY <1>3

------------------------------------------------------------------------------
(* Sums. *)

\* What element i adds to the sum of f over S.
Term(f, S, i) == IF i \in S THEN f[i] ELSE 0

\* f has natural terms over S below n.
Summable(f, n, S) == \A i \in 0 .. n - 1 : Term(f, S, i) \in Nat

\* s is the sequence of the sums of f over S below 0, 1, ... n.
Sums(s, f, n, S) ==
  /\ s \in [0 .. n -> Nat]
  /\ s[0] = 0
  /\ \A i \in 1 .. n : s[i] = s[i - 1] + Term(f, S, i - 1)
  /\ s[n] = Sum(f, n, S)

\* A sum is the last of them.
LEMMA SumSteps ==
  ASSUME NEW n \in Nat, NEW f, NEW S, Summable(f, n, S)
  PROVE  \E s : Sums(s, f, n, S)
<1> DEFINE F == [z \in Nat \X (1 .. n) |-> z[1] + Term(f, S, z[2] - 1)]
           Good(s) == s = [i \in 0 .. n |->
                             IF i = 0 THEN 0
                             ELSE s[i - 1] + (IF i - 1 \in S THEN f[i - 1] ELSE 0)]
           r == CHOOSE s : Good(s)
<1>1. \A i \in 1 .. n : i - 1 \in 0 .. n /\ i - 1 \in 0 .. n - 1 /\ Term(f, S, i - 1) \in Nat
  BY DEF Summable
<1>2. F \in [Nat \X (1 .. n) -> Nat]
  BY <1>1
<1>3. PICK s : Iterates(s, F, n, Nat, 0)
  <2> HIDE DEF F
  <2> QED BY <1>2, Recursion
<1>4. s \in [0 .. n -> Nat] /\ s[0] = 0 /\ \A i \in 1 .. n : s[i] = F[<<s[i - 1], i>>]
  <2> HIDE DEF F
  <2> QED BY <1>3 DEF Iterates
<1>5. \A i \in 1 .. n : s[i] = s[i - 1] + Term(f, S, i - 1)
  <2>1. \A i \in 1 .. n : <<s[i - 1], i>> \in Nat \X (1 .. n)
    BY <1>1, <1>4
  <2> QED BY <1>4, <2>1
<1> HIDE DEF F
<1>6. Good(s)
  BY <1>4, <1>5 DEF Term
<1>7. Good(r)
  BY <1>6
<1>8. DOMAIN r = 0 .. n
  <2> HIDE DEF r
  <2> QED BY <1>7
<1>9. r[0] = 0 /\ \A i \in 1 .. n : r[i] = r[i - 1] + Term(f, S, i - 1)
  <2> HIDE DEF r
  <2> QED BY <1>7 DEF Term
<1>10. r[n] = Sum(f, n, S)
  BY DEF Sum
<1> HIDE DEF r, Good
<1>11. \A i \in 0 .. n : r[i] \in Nat
  <2> DEFINE T == {i \in 0 .. n : r[i] \in Nat}
  <2>1. 0 \in T
    BY <1>9
  <2>2. ASSUME NEW i \in 0 .. n - 1, i \in T PROVE i + 1 \in T
    <3>1. i + 1 \in 1 .. n /\ i + 1 - 1 = i
      OBVIOUS
    <3>2. r[i + 1] = r[i] + Term(f, S, i)
      BY <1>9, <3>1
    <3> QED BY <1>1, <2>2, <3>1, <3>2
  <2>3. 0 .. n \subseteq T
    <3> HIDE DEF T
    <3> QED BY <2>1, <2>2, Induction
  <2> QED BY <2>3
<1>12. r \in [0 .. n -> Nat]
  <2>1. r = [i \in 0 .. n |-> r[i]]
    BY <1>7 DEF Good
  <2> QED BY <1>11, <2>1
<1>13. QED
  BY <1>9, <1>10, <1>12 DEF Sums

\* Sums of naturals are natural.
LEMMA SumType ==
  ASSUME NEW n \in Nat, NEW f, NEW S, Summable(f, n, S)
  PROVE  Sum(f, n, S) \in Nat
<1>1. PICK s : Sums(s, f, n, S)
  BY SumSteps
<1>2. QED
  BY <1>1 DEF Sums

\* Terms that are at most those of another sum.
LEMMA SumLess ==
  ASSUME NEW n \in Nat, NEW f, NEW S, Summable(f, n, S), NEW g, NEW T, Summable(g, n, T),
         \A i \in 0 .. n - 1 : Term(f, S, i) <= Term(g, T, i)
  PROVE  Sum(f, n, S) <= Sum(g, n, T)
<1>1. PICK s : Sums(s, f, n, S)
  BY SumSteps
<1>2. PICK t : Sums(t, g, n, T)
  BY SumSteps
<1> DEFINE X == {i \in 0 .. n : s[i] <= t[i]}
<1>3. 0 \in X
  BY <1>1, <1>2 DEF Sums
<1>4. ASSUME NEW i \in 0 .. n - 1, i \in X PROVE i + 1 \in X
  <2>1. i + 1 \in 1 .. n /\ i + 1 - 1 = i /\ i \in 0 .. n
    OBVIOUS
  <2>2. s[i + 1] = s[i] + Term(f, S, i) /\ t[i + 1] = t[i] + Term(g, T, i)
    BY <1>1, <1>2, <2>1 DEF Sums
  <2>3. s[i] \in Nat /\ t[i] \in Nat /\ Term(f, S, i) \in Nat /\ Term(g, T, i) \in Nat
    BY <1>1, <1>2, <2>1 DEF Sums, Summable
  <2> QED BY <1>4, <2>1, <2>2, <2>3
<1>5. 0 .. n \subseteq X
  <2> HIDE DEF X
  <2> QED BY <1>3, <1>4, Induction
<1>6. QED
  BY <1>1, <1>2, <1>5 DEF Sums

\* Terms that are the sums of those of two others.
LEMMA SumApart ==
  ASSUME NEW n \in Nat, NEW f, NEW S, Summable(f, n, S), NEW g, NEW T, Summable(g, n, T),
         NEW h, NEW U,
         \A i \in 0 .. n - 1 : Term(h, U, i) = Term(f, S, i) + Term(g, T, i)
  PROVE  Sum(h, n, U) = Sum(f, n, S) + Sum(g, n, T)
<1>0. Summable(h, n, U)
  BY DEF Summable
<1>1. PICK s : Sums(s, f, n, S)
  BY SumSteps
<1>2. PICK t : Sums(t, g, n, T)
  BY SumSteps
<1>3. PICK u : Sums(u, h, n, U)
  BY <1>0, SumSteps
<1> DEFINE X == {i \in 0 .. n : u[i] = s[i] + t[i]}
<1>4. 0 \in X
  BY <1>1, <1>2, <1>3 DEF Sums
<1>5. ASSUME NEW i \in 0 .. n - 1, i \in X PROVE i + 1 \in X
  <2>1. i + 1 \in 1 .. n /\ i + 1 - 1 = i /\ i \in 0 .. n
    OBVIOUS
  <2>2. /\ s[i + 1] = s[i] + Term(f, S, i) /\ t[i + 1] = t[i] + Term(g, T, i)
        /\ u[i + 1] = u[i] + Term(h, U, i)
    BY <1>1, <1>2, <1>3, <2>1 DEF Sums
  <2>3. s[i] \in Nat /\ t[i] \in Nat /\ Term(f, S, i) \in Nat /\ Term(g, T, i) \in Nat
    BY <1>1, <1>2, <2>1 DEF Sums, Summable
  <2> QED BY <1>5, <2>1, <2>2, <2>3
<1>6. 0 .. n \subseteq X
  <2> HIDE DEF X
  <2> QED BY <1>4, <1>5, Induction
<1>7. QED
  BY <1>1, <1>2, <1>3, <1>6 DEF Sums

\* A sum without terms.
LEMMA SumZero ==
  ASSUME NEW n \in Nat, NEW f, NEW S, \A i \in 0 .. n - 1 : Term(f, S, i) = 0
  PROVE  Sum(f, n, S) = 0
<1>1. Summable(f, n, S)
  BY DEF Summable
<1>2. Sum(f, n, S) = Sum(f, n, S) + Sum(f, n, S)
  BY <1>1, SumApart
<1>3. Sum(f, n, S) \in Nat
  BY <1>1, SumType
<1> DEFINE x == Sum(f, n, S)
<1>4. x = x + x /\ x \in Nat
  BY <1>2, <1>3
<1> HIDE DEF x
<1>5. x = 0
  BY <1>4
<1>6. QED
  BY <1>5 DEF x

\* The same terms.
LEMMA SumSame ==
  ASSUME NEW n \in Nat, NEW f, NEW S, Summable(f, n, S), NEW g, NEW T,
         \A i \in 0 .. n - 1 : Term(f, S, i) = Term(g, T, i)
  PROVE  Sum(f, n, S) = Sum(g, n, T)
<1>1. Summable(g, n, T)
  BY DEF Summable
<1>2. \A i \in 0 .. n - 1 : /\ Term(f, S, i) <= Term(g, T, i)
                            /\ Term(g, T, i) <= Term(f, S, i)
  BY DEF Summable
<1>3. Sum(f, n, S) <= Sum(g, n, T) /\ Sum(g, n, T) <= Sum(f, n, S)
  BY <1>1, <1>2, SumLess
<1>4. Sum(f, n, S) \in Nat /\ Sum(g, n, T) \in Nat
  BY <1>1, SumType
<1>5. QED
  BY <1>3, <1>4

\* x at k and 0 elsewhere, at i and as a function.
At(i, k, x) == IF i = k THEN x ELSE 0
Single(n, k, x) == [i \in 0 .. n - 1 |-> IF i = k THEN x ELSE 0]

\* The sum of one term.
LEMMA SumOne ==
  ASSUME NEW n \in Nat, NEW k \in 0 .. n - 1, NEW x \in Nat
  PROVE  /\ Summable(Single(n, k, x), n, 0 .. n - 1)
         /\ Sum(Single(n, k, x), n, 0 .. n - 1) = x
<1> DEFINE S == 0 .. n - 1
           f == Single(n, k, x)
<1>1. \A i \in 0 .. n - 1 : Term(f, S, i) = IF i = k THEN x ELSE 0
  BY DEF Term, Single
<1> HIDE DEF S, f
<1>2. Summable(f, n, S)
  BY <1>1 DEF Summable
<1>3. PICK s : Sums(s, f, n, S)
  BY <1>2, SumSteps
<1> DEFINE X == {i \in 0 .. n : s[i] = IF i > k THEN x ELSE 0}
<1>4. 0 \in X
  BY <1>3 DEF Sums
<1>5. ASSUME NEW i \in 0 .. n - 1, i \in X PROVE i + 1 \in X
  <2>1. i + 1 \in 1 .. n /\ i + 1 - 1 = i /\ i \in 0 .. n
    OBVIOUS
  <2>2. s[i + 1] = s[i + 1 - 1] + Term(f, S, i + 1 - 1)
    BY <1>3, <2>1 DEF Sums
  <2>3. s[i + 1] = s[i] + Term(f, S, i)
    BY <2>1, <2>2
  <2> QED BY <1>1, <1>5, <2>1, <2>3
<1>6. 0 .. n \subseteq X
  <2> HIDE DEF X
  <2> QED BY <1>4, <1>5, Induction
<1>7. s[n] = x
  BY <1>6
<1>8. QED
  BY <1>2, <1>3, <1>7 DEF Sums, S, f

\* One term grows by x.
LEMMA SumGrows ==
  ASSUME NEW n \in Nat, NEW f, NEW S, Summable(f, n, S), NEW g, NEW T,
         NEW k \in 0 .. n - 1, NEW x \in Nat,
         \A i \in 0 .. n - 1 : Term(g, T, i) = Term(f, S, i) + At(i, k, x)
  PROVE  Sum(g, n, T) = Sum(f, n, S) + x
<1> DEFINE d == Single(n, k, x)
           D == 0 .. n - 1
<1>1. \A i \in 0 .. n - 1 : Term(d, D, i) = At(i, k, x)
  BY DEF Term, Single, At
<1>3. Summable(d, n, D) /\ Sum(d, n, D) = x
  BY SumOne
<1> HIDE DEF d, D
<1>4. \A i \in 0 .. n - 1 : Term(g, T, i) = Term(f, S, i) + Term(d, D, i)
  BY <1>1
<1>5. Sum(g, n, T) = Sum(f, n, S) + Sum(d, n, D)
  BY <1>3, <1>4, SumApart
<1>6. QED
  BY <1>3, <1>5

------------------------------------------------------------------------------
(* What a window accounts for. *)

\* How many bins ago slot i was the current one, head being the current one.
Behind(head, i) == IF i <= head THEN head - i ELSE head - i + Count

\* The slots of the current bin and of the k before.
Recent(head, k) == {i \in Slots : Behind(head, i) <= k}

\* The start of the current bin of w at time t: a window that is not bound to the clock
\* will be as if its bin had lasted until now.
Start(w, t) == IF w.start = NotStarted THEN t - w.phase ELSE w.start

\* The charges a and b at time x and later.
Since(f, x) == Sum(f, MAX_TIME + 1, {u \in Times : u >= x})
Charged(a, b, x) == Since(a, x) + Since(b, x)

\* The charges of the current bin of w and of the k before.
Counted(w, k) == Sum(w.slots, Count, Recent(w.head, k))

\* Window w accounts for the charges a and b at time t.
Books(w, t, a, b) ==
  /\ w \in Windows
  /\ w.total = Sum(w.slots, Count, Slots)
  /\ w.start # NotStarted => w.start \in NotStarted + 1 .. t
  /\ \A u \in Times : u >= Start(w, t) + BIN => a[u] = 0 /\ b[u] = 0
  /\ \A k \in 0 .. BINS : Counted(w, k) >= Charged(a, b, Start(w, t) - k * BIN)

\* It counts nothing else.
Exact(w, t, a, b) ==
  /\ w.start = NotStarted => \A u \in Times : a[u] = 0 /\ b[u] = 0
  /\ \A k \in 0 .. BINS : Counted(w, k) = Charged(a, b, Start(w, t) - k * BIN)

------------------------------------------------------------------------------
(* Bins. *)

\* The window is at least one bin long.
LEMMA Sizes ==
  /\ BINS \in Nat \ {0} /\ BIN \in Nat \ {0} /\ Count = BINS + 1 /\ Slots = 0 .. BINS
  /\ Window = BINS * BIN /\ Window \in Nat /\ Window >= BIN /\ NotStarted = -1 - Window
  /\ MAX_TIME \in Nat /\ Times = 0 .. MAX_TIME
<1>1. BINS \in Nat \ {0} /\ BIN \in Nat \ {0} /\ MAX_TIME \in Nat
  BY DutyCycleAssumption
<1>2. Count = BINS + 1 /\ Slots = 0 .. BINS /\ Times = 0 .. MAX_TIME
  BY <1>1 DEF Count, Slots, Times
<1>3. BINS * BIN \in Nat /\ BINS * BIN >= BIN
  <2> DEFINE b == BINS - 1
  <2>1. b \in Nat /\ BINS = b + 1
    BY <1>1
  <2>2. b * BIN \in Nat
    BY <1>1, <2>1
  <2>3. BINS * BIN = b * BIN + BIN
    BY <1>1, <2>1
  <2> HIDE DEF b
  <2> QED BY <1>1, <2>2, <2>3
<1>4. QED
  BY <1>1, <1>2, <1>3 DEF Window, NotStarted

\* How many bins lie between two times.
LEMMA Bins ==
  ASSUME NEW t \in Int, NEW s \in Int, s <= t
  PROVE  /\ (t - s) \div BIN \in Nat
         /\ s + ((t - s) \div BIN) * BIN <= t
         /\ t < s + ((t - s) \div BIN) * BIN + BIN
<1> DEFINE d == t - s
           e == d \div BIN
<1>1. d \in Nat /\ BIN \in Nat \ {0}
  BY Sizes
<1>2. e \in Nat /\ d = e * BIN + (d % BIN) /\ d % BIN \in 0 .. BIN - 1
  <2> HIDE DEF d
  <2> QED BY <1>1
<1>3. e * BIN \in Nat /\ s + d = t
  BY <1>1, <1>2
<1> HIDE DEF e
<1>4. QED
  BY <1>1, <1>2, <1>3 DEF e

\* Slots follow each other in a circle.
LEMMA Circle ==
  ASSUME NEW x \in 0 .. 2 * Count - 1
  PROVE  x % Count = IF x < Count THEN x ELSE x - Count
<1>1. Count \in Nat \ {0}
  BY Sizes
<1> DEFINE n == Count
<1>2. n \in Nat \ {0} /\ x \in 0 .. 2 * n - 1
  BY <1>1
<1> HIDE DEF n
<1>3. x % n = IF x < n THEN x ELSE x - n
  BY <1>2
<1>4. QED
  BY <1>3 DEF n

\* Turning by e slots.
LEMMA Turned ==
  ASSUME NEW head \in Slots, NEW e \in Nat, e < Count, NEW i \in Slots, NEW h,
         h = (head + e) % Count
  PROVE  /\ h \in Slots
         /\ i \in Left(head, e) <=> Behind(h, i) < e
         /\ i \in Left(head, e) => Behind(head, i) = Behind(h, i) + Count - e
         /\ i \notin Left(head, e) => Behind(head, i) = Behind(h, i) - e
         /\ Behind(h, i) \in Slots /\ Behind(head, i) \in Slots
<1>1. /\ Count \in Nat \ {0} /\ head \in 0 .. Count - 1 /\ i \in 0 .. Count - 1
      /\ Slots = 0 .. Count - 1
  BY Sizes
<1>2. ASSUME NEW k \in 0 .. e
      PROVE  (head + k) % Count = IF head + k < Count THEN head + k ELSE head + k - Count
  <2> DEFINE x == head + k
  <2>1. x \in 0 .. 2 * Count - 1
    BY <1>1
  <2> HIDE DEF x
  <2>2. x % Count = IF x < Count THEN x ELSE x - Count
    BY <2>1, Circle
  <2>3. x = head + k
    BY DEF x
  <2> QED BY <1>1, <2>1, <2>2, <2>3
<1>3. h = IF head + e < Count THEN head + e ELSE head + e - Count
  <2>1. e \in 0 .. e
    OBVIOUS
  <2> QED BY <1>2, <2>1
<1>4. ASSUME NEW k \in 1 .. e
      PROVE  (head + k) % Count = IF head + k < Count THEN head + k ELSE head + k - Count
  BY <1>2
<1> DEFINE a == IF i >= head THEN i - head ELSE i - head + Count
<1>5. a \in 0 .. Count - 1
  BY <1>1
<1>6. i \in Left(head, e) <=> a \in 1 .. e
  <2>1. ~(e >= Count)
    BY <1>1
  <2>2. Left(head, e) = {(head + k) % Count : k \in 1 .. e}
    BY <2>1 DEF Left
  <2>3. ASSUME a \in 1 .. e PROVE i \in Left(head, e)
    <3>1. (head + a) % Count = i
      BY <1>1, <1>4, <2>3
    <3> HIDE DEF a
    <3> QED BY <2>2, <2>3, <3>1
  <2>4. ASSUME i \in Left(head, e) PROVE a \in 1 .. e
    <3>1. PICK k \in 1 .. e : i = (head + k) % Count
      BY <2>2, <2>4
    <3>2. i = IF head + k < Count THEN head + k ELSE head + k - Count
      BY <1>4, <3>1
    <3> QED BY <1>1, <3>2
  <2> QED BY <2>3, <2>4
<1>7. QED
  BY <1>1, <1>3, <1>5, <1>6 DEF Behind

------------------------------------------------------------------------------
(* Charges. *)

\* Histories of charges.
Histories == [Times -> Nat]

\* The sum of a history over times is natural, and grows with what is summed.
LEMMA SinceType ==
  ASSUME NEW f \in Histories, NEW X
  PROVE  Summable(f, MAX_TIME + 1, X) /\ Sum(f, MAX_TIME + 1, X) \in Nat
<1> DEFINE N == MAX_TIME + 1
<1>1. N \in Nat /\ 0 .. N - 1 = Times
  BY Sizes
<1> HIDE DEF N
<1>2. Summable(f, N, X)
  BY <1>1 DEF Summable, Term, Histories
<1>3. QED
  BY <1>1, <1>2, SumType DEF N

\* The times of the charges of f in X are in Y.
LEMMA SinceLess ==
  ASSUME NEW f \in Histories, NEW X, NEW Y,
         \A u \in Times : u \in X /\ f[u] # 0 => u \in Y
  PROVE  Sum(f, MAX_TIME + 1, X) <= Sum(f, MAX_TIME + 1, Y)
<1> DEFINE N == MAX_TIME + 1
<1>1. N \in Nat /\ 0 .. N - 1 = Times
  BY Sizes
<1> HIDE DEF N
<1>2. \A u \in Times : f[u] \in Nat
  BY DEF Histories
<1>3. \A u \in 0 .. N - 1 : Term(f, X, u) <= Term(f, Y, u)
  BY <1>1, <1>2 DEF Term
<1>4. QED
  BY <1>1, <1>3, SinceType, SumLess DEF N

\* What was charged since x is natural, and at most what was charged since an earlier time.
LEMMA ChargedLess ==
  ASSUME NEW a \in Histories, NEW b \in Histories, NEW x \in Int, NEW y \in Int, y <= x
  PROVE  /\ Charged(a, b, x) \in Nat /\ Charged(a, b, y) \in Nat
         /\ Charged(a, b, x) <= Charged(a, b, y)
<1> DEFINE X == {u \in Times : u >= x}
           Y == {u \in Times : u >= y}
<1>1. \A u \in Times : u \in X => u \in Y
  BY Sizes
<1> HIDE DEF X, Y
<1>2. /\ Sum(a, MAX_TIME + 1, X) <= Sum(a, MAX_TIME + 1, Y)
      /\ Sum(b, MAX_TIME + 1, X) <= Sum(b, MAX_TIME + 1, Y)
  BY <1>1, SinceLess
<1>3. /\ Sum(a, MAX_TIME + 1, X) \in Nat /\ Sum(a, MAX_TIME + 1, Y) \in Nat
      /\ Sum(b, MAX_TIME + 1, X) \in Nat /\ Sum(b, MAX_TIME + 1, Y) \in Nat
  BY SinceType
<1>4. /\ Since(a, x) = Sum(a, MAX_TIME + 1, X) /\ Since(a, y) = Sum(a, MAX_TIME + 1, Y)
      /\ Since(b, x) = Sum(b, MAX_TIME + 1, X) /\ Since(b, y) = Sum(b, MAX_TIME + 1, Y)
  BY DEF Since, X, Y
<1>5. QED
  BY <1>2, <1>3, <1>4 DEF Charged

\* Nothing was charged since x.
LEMMA ChargedZero ==
  ASSUME NEW a \in Histories, NEW b \in Histories, NEW x \in Int,
         \A u \in Times : u >= x => a[u] = 0 /\ b[u] = 0
  PROVE  Charged(a, b, x) = 0
<1> DEFINE N == MAX_TIME + 1
<1>1. N \in Nat /\ 0 .. N - 1 = Times
  BY Sizes
<1> HIDE DEF N
<1> DEFINE X == {u \in Times : u >= x}
<1>2. \A u \in 0 .. N - 1 : Term(a, X, u) = 0 /\ Term(b, X, u) = 0
  BY <1>1 DEF Term
<1> HIDE DEF X
<1>3. Sum(a, N, X) = 0 /\ Sum(b, N, X) = 0
  BY <1>1, <1>2, SumZero
<1>4. QED
  BY <1>3 DEF Charged, Since, X, N

\* A charge of ms at time t.
LEMMA ChargedGrows ==
  ASSUME NEW a \in Histories, NEW b \in Histories, NEW x \in Int, NEW t \in Times, x <= t,
         NEW ms \in Nat, NEW c, \A u \in Times : c[u] = a[u] + At(u, t, ms)
  PROVE  /\ Charged(c, b, x) = Charged(a, b, x) + ms
         /\ Charged(b, c, x) = Charged(b, a, x) + ms
<1> DEFINE N == MAX_TIME + 1
<1>1. N \in Nat /\ 0 .. N - 1 = Times
  BY Sizes
<1> DEFINE X == {u \in Times : u >= x}
<1>2. t \in X
  BY Sizes
<1>3. /\ Summable(a, N, X) /\ Sum(a, N, X) \in Nat /\ Sum(b, N, X) \in Nat
      /\ Since(a, x) = Sum(a, N, X) /\ Since(b, x) = Sum(b, N, X) /\ Since(c, x) = Sum(c, N, X)
  BY SinceType DEF Since
<1> HIDE DEF N, X
<1>4. \A u \in Times : a[u] \in Nat
  BY DEF Histories
<1>5. \A u \in 0 .. N - 1 : Term(c, X, u) = Term(a, X, u) + At(u, t, ms)
  BY <1>1, <1>2, <1>4 DEF Term, At
<1>6. Sum(c, N, X) = Sum(a, N, X) + ms
  BY <1>1, <1>3, <1>5, SumGrows
<1>7. QED
  BY <1>3, <1>6 DEF Charged

\* The charges within d before t.
LEMMA WithinIs ==
  ASSUME NEW f \in Histories, NEW d
  PROVE  Within(f, d) \in Nat
BY SinceType DEF Within

------------------------------------------------------------------------------
(* The window. *)

\* The slots of a window are natural, and sum up.
LEMMA SlotsSummable ==
  ASSUME NEW w \in Windows, NEW X
  PROVE  /\ Count \in Nat /\ 0 .. Count - 1 = Slots
         /\ Summable(w.slots, Count, X) /\ Sum(w.slots, Count, X) \in Nat
<1>1. Count \in Nat /\ 0 .. Count - 1 = Slots
  BY Sizes
<1>2. \A i \in Slots : w.slots[i] \in Nat
  BY DEF Windows
<1>3. Summable(w.slots, Count, X)
  BY <1>1, <1>2 DEF Summable, Term
<1>4. QED
  BY <1>1, <1>3, SumType

\* All the bins are the slots.
LEMMA CountedAll ==
  ASSUME NEW w \in Windows
  PROVE  Counted(w, BINS) = Sum(w.slots, Count, Slots)
<1>1. w.head \in Slots
  BY DEF Windows
<1>2. \A i \in Slots : Behind(w.head, i) <= BINS
  BY <1>1, Sizes DEF Behind
<1>3. Recent(w.head, BINS) = Slots
  BY <1>2 DEF Recent
<1>4. QED
  BY <1>3 DEF Counted

\* The slots that leave, once the window is e bins further, are those of before.
LEMMA LeftIs ==
  ASSUME NEW head \in Slots, NEW e \in Nat
  PROVE  Left(head, e) \subseteq Slots
<1>1. Count \in Nat \ {0} /\ 0 .. Count - 1 = Slots
  BY Sizes
<1>2. CASE e >= Count
  BY <1>2 DEF Left
<1>3. CASE ~(e >= Count)
  <2>1. ASSUME NEW k \in 1 .. e PROVE (head + k) % Count \in Slots
    <3> DEFINE x == head + k
    <3>1. x \in Nat
      BY <1>1
    <3> HIDE DEF x
    <3>2. x % Count \in 0 .. Count - 1
      BY <1>1, <3>1
    <3>3. x = head + k
      BY DEF x
    <3> QED BY <1>1, <3>1, <3>2, <3>3
  <2> QED BY <1>3, <2>1 DEF Left
<1>4. QED
  BY <1>2, <1>3

------------------------------------------------------------------------------
(* Advancing the window. *)

\* The sum of the last k + 1 bins once the window is e bins further.
LEMMA Rest ==
  ASSUME NEW w \in Windows, NEW x \in Windows, NEW e \in Nat, e < Count, NEW k \in 0 .. BINS,
         x.head = (w.head + e) % Count,
         \A i \in Slots : x.slots[i] = IF i \in Left(w.head, e) THEN 0 ELSE w.slots[i]
  PROVE  /\ k < e => Counted(x, k) = 0
         /\ k >= e => Counted(x, k) = Counted(w, k - e)
<1> DEFINE f == w.slots
           g == x.slots
           h == x.head
           head == w.head
<1>1. head \in Slots /\ h = (head + e) % Count
  BY DEF Windows
<1>2. /\ Count \in Nat /\ 0 .. Count - 1 = Slots /\ BINS \in Nat /\ Count = BINS + 1
      /\ Slots = 0 .. BINS
  BY Sizes
<1>3. \A i \in Slots : g[i] = IF i \in Left(head, e) THEN 0 ELSE f[i]
  OBVIOUS
<1>4. \A i \in Slots :
        /\ i \in Left(head, e) <=> Behind(h, i) < e
        /\ i \in Left(head, e) => Behind(head, i) = Behind(h, i) + Count - e
        /\ i \notin Left(head, e) => Behind(head, i) = Behind(h, i) - e
        /\ Behind(h, i) \in Slots /\ Behind(head, i) \in Slots
  <2> HIDE DEF head, h
  <2> QED BY <1>1, Turned
<1>5. /\ Counted(x, k) = Sum(g, Count, Recent(h, k))
      /\ Counted(w, k - e) = Sum(f, Count, Recent(head, k - e))
  BY DEF Counted
<1>6. Summable(g, Count, Recent(h, k))
  BY SlotsSummable
<1> HIDE DEF f, g, h, head
<1>7. \A i \in Slots : /\ i \in Recent(h, k) <=> Behind(h, i) <= k
                       /\ i \in Recent(head, k - e) <=> Behind(head, i) <= k - e
  BY DEF Recent
<1>8. CASE k < e
  <2>1. \A i \in Slots : i \in Recent(h, k) => i \in Left(head, e)
    BY <1>2, <1>4, <1>7, <1>8
  <2>2. \A i \in 0 .. Count - 1 : Term(g, Recent(h, k), i) = 0
    BY <1>2, <1>3, <2>1 DEF Term
  <2>3. Sum(g, Count, Recent(h, k)) = 0
    BY <1>2, <2>2, SumZero
  <2> QED BY <1>5, <1>8, <2>3
<1>9. CASE k >= e
  <2>1. ASSUME NEW i \in Slots
        PROVE  Term(g, Recent(h, k), i) = Term(f, Recent(head, k - e), i)
    <3>1. CASE i \in Left(head, e)
      <4>1. Behind(head, i) = Behind(h, i) + Count - e /\ Behind(h, i) \in Nat
        BY <1>2, <1>4, <3>1
      <4>2. ~(Behind(head, i) <= k - e)
        BY <1>2, <4>1
      <4> QED BY <1>3, <1>7, <3>1, <4>2 DEF Term
    <3>2. CASE i \notin Left(head, e)
      <4>1. Behind(head, i) = Behind(h, i) - e /\ Behind(h, i) \in Nat
        BY <1>2, <1>4, <3>2
      <4>2. Behind(head, i) <= k - e <=> Behind(h, i) <= k
        BY <1>2, <4>1
      <4> QED BY <1>3, <1>7, <3>2, <4>2 DEF Term
    <3> QED BY <3>1, <3>2
  <2>2. Sum(g, Count, Recent(h, k)) = Sum(f, Count, Recent(head, k - e))
    BY <1>2, <1>6, <2>1, SumSame
  <2> QED BY <1>2, <1>5, <1>9, <2>2
<1>10. QED
  BY <1>2, <1>8, <1>9

\* Each group of bins that ends with the current one either held no bin of the window or
\* is a group of the window, and began when that one did.
Follows(x, w) ==
  \A k \in 0 .. BINS :
    \/ Counted(x, k) = 0 /\ x.start - k * BIN >= w.start + BIN
    \/ \E j \in 0 .. BINS : /\ Counted(x, k) = Counted(w, j)
                            /\ x.start - k * BIN = w.start - j * BIN

\* A window bound to the clock at time t.
LEMMA AdvanceIs ==
  ASSUME NEW w \in Windows, w.total = Sum(w.slots, Count, Slots),
         NEW t \in Times, w.start # NotStarted, w.start \in NotStarted + 1 .. t,
         NEW x, x = Advance(w, t)
  PROVE  /\ x \in Windows /\ x.total = Sum(x.slots, Count, Slots) /\ x.total <= w.total
         /\ x.start \in NotStarted + 1 .. t /\ t < x.start + BIN /\ w.start <= x.start
         /\ Follows(x, w)
<1> DEFINE e == (t - w.start) \div BIN
           gone == Left(w.head, e)
           slots == [i \in Slots |-> IF i \in gone THEN 0 ELSE w.slots[i]]
           total == w.total - Sum(w.slots, Count, gone)
           head == IF e >= Count THEN w.head ELSE (w.head + e) % Count
           s == w.start + e * BIN
<1>1. x = [w EXCEPT !.slots = slots, !.total = total,
                    !.head = IF e >= Count THEN @ ELSE (@ + e) % Count, !.start = @ + e * BIN]
  BY DEF Advance, TotalWithout
<1>2. /\ w = [slots |-> w.slots, head |-> w.head, total |-> w.total, start |-> w.start,
              phase |-> w.phase]
      /\ w.slots \in [Slots -> Nat] /\ w.head \in Slots /\ w.total \in Nat
      /\ w.start \in Int /\ w.phase \in 0 .. BIN - 1
  BY DEF Windows
<1>3. x = [slots |-> slots, head |-> head, total |-> total, start |-> s, phase |-> w.phase]
  <2> HIDE DEF slots, total, e
  <2> QED BY <1>1, <1>2
<1>4. /\ BINS \in Nat /\ BIN \in Nat \ {0} /\ Count = BINS + 1 /\ Slots = 0 .. BINS
      /\ NotStarted \in Int /\ t \in Int /\ Count \in Nat /\ 0 .. Count - 1 = Slots
  BY Sizes
<1>5. e \in Nat /\ s <= t /\ t < s + BIN
  BY <1>2, <1>4, Bins
<1>6. e * BIN \in Nat /\ s \in Int /\ w.start <= s
  <2> HIDE DEF e
  <2>1. e * BIN \in Nat
    BY <1>4, <1>5
  <2> DEFINE eb == e * BIN
             ws == w.start
  <2>2. eb \in Nat /\ ws \in Int /\ s = ws + eb
    BY <1>2, <2>1
  <2> HIDE DEF eb, ws, s
  <2>3. s \in Int /\ ws <= s
    BY <2>2
  <2> QED BY <2>1, <2>3 DEF ws
<1> HIDE DEF e
<1>7. head \in Slots
  <2>1. CASE e >= Count
    BY <1>2, <2>1
  <2>2. CASE ~(e >= Count)
    <3>1. 0 \in Slots
      BY <1>4
    <3> DEFINE h == (w.head + e) % Count
    <3>2. h = (w.head + e) % Count /\ e < Count
      BY <1>4, <1>5, <2>2
    <3>3. head = h
      BY <2>2
    <3> HIDE DEF h, head
    <3>4. h \in Slots
      BY <1>2, <1>5, <3>1, <3>2, Turned
    <3> QED BY <3>3, <3>4
  <2> QED BY <2>1, <2>2
<1> HIDE DEF gone, s
<1>8. \A i \in Slots : w.slots[i] \in Nat /\ slots[i] = IF i \in gone THEN 0 ELSE w.slots[i]
  BY <1>2
<1>9. slots \in [Slots -> Nat]
  BY <1>8
<1> HIDE DEF slots, head
<1>10. Sum(w.slots, Count, Slots) = Sum(w.slots, Count, gone) + Sum(slots, Count, Slots)
  <2>1. gone \subseteq Slots
    BY <1>2, <1>5, LeftIs DEF gone
  <2>2. \A i \in 0 .. Count - 1 :
          Term(w.slots, Slots, i) = Term(w.slots, gone, i) + Term(slots, Slots, i)
    BY <1>4, <1>8, <2>1 DEF Term
  <2>3. Summable(w.slots, Count, gone)
    BY SlotsSummable
  <2>4. Summable(slots, Count, Slots)
    BY <1>4, <1>8 DEF Summable, Term
  <2> QED BY <1>4, <2>2, <2>3, <2>4, SumApart
<1>11. total = Sum(slots, Count, Slots) /\ total \in Nat /\ total <= w.total
  <2>1. Sum(w.slots, Count, gone) \in Nat
    BY SlotsSummable
  <2>2. Sum(slots, Count, Slots) \in Nat
    <3>1. Summable(slots, Count, Slots)
      BY <1>4, <1>8 DEF Summable, Term
    <3> QED BY <1>4, <3>1, SumType
  <2> QED BY <1>2, <1>10, <2>1, <2>2
<1> HIDE DEF total
<1>12. x \in Windows
  BY <1>2, <1>3, <1>6, <1>7, <1>9, <1>11 DEF Windows
<1>13. /\ x.slots = slots /\ x.head = head /\ x.total = total /\ x.start = s
  BY <1>3
<1>14. x.start \in NotStarted + 1 .. t /\ t < x.start + BIN
  <2> DEFINE ws == w.start
             xs == x.start
  <2>1. /\ ws \in NotStarted + 1 .. t /\ ws \in Int /\ s \in Int /\ ws <= s /\ s <= t
        /\ t < s + BIN /\ xs = s
    BY <1>2, <1>5, <1>6, <1>13 DEF s
  <2> HIDE DEF ws, xs
  <2>2. xs \in NotStarted + 1 .. t /\ t < xs + BIN
    BY <1>4, <2>1
  <2> QED BY <2>2 DEF xs
<1>15. ASSUME NEW k \in 0 .. BINS, k < e
       PROVE  Counted(x, k) = 0 /\ x.start - k * BIN >= w.start + BIN
  <2>1. Counted(x, k) = 0
    <3>1. CASE e >= Count
      <4>1. gone = Slots
        BY <3>1 DEF gone, Left
      <4>2. \A i \in 0 .. Count - 1 : Term(x.slots, Recent(x.head, k), i) = 0
        BY <1>4, <1>8, <1>13, <4>1 DEF Term
      <4>3. Sum(x.slots, Count, Recent(x.head, k)) = 0
        BY <1>4, <4>2, SumZero
      <4> QED BY <4>3 DEF Counted
    <3>2. CASE ~(e >= Count)
      <4>1. x.head = (w.head + e) % Count /\ e < Count
        BY <1>4, <1>5, <1>13, <3>2 DEF head
      <4>2. \A i \in Slots : x.slots[i] = IF i \in Left(w.head, e) THEN 0 ELSE w.slots[i]
        BY <1>8, <1>13 DEF gone
      <4> QED BY <1>5, <1>12, <1>15, <4>1, <4>2, Rest
    <3> QED BY <3>1, <3>2
  <2>2. x.start - k * BIN >= w.start + BIN
    <3> DEFINE j == e - k - 1
    <3>1. j \in Nat /\ e = j + k + 1
      BY <1>5, <1>15
    <3>2. j * BIN \in Nat /\ k * BIN \in Nat
      BY <1>4, <3>1
    <3>3. e * BIN = j * BIN + k * BIN + BIN
      <4> HIDE DEF j
      <4> QED BY <1>4, <3>1
    <3> HIDE DEF j
    <3> DEFINE kb == k * BIN
               jb == j * BIN
               eb == e * BIN
               ws == w.start
               xs == x.start
    <3>4. kb \in Nat /\ jb \in Nat /\ eb = jb + kb + BIN /\ xs = ws + eb /\ ws \in Int
      BY <1>2, <1>13, <3>2, <3>3 DEF s
    <3> HIDE DEF kb, jb, eb, ws, xs
    <3>5. xs - kb >= ws + BIN
      BY <1>4, <3>4
    <3> QED BY <3>5 DEF kb, xs, ws
  <2> QED BY <2>1, <2>2
<1>16. ASSUME NEW k \in 0 .. BINS, ~(k < e)
       PROVE  \E j \in 0 .. BINS : /\ Counted(x, k) = Counted(w, j)
                                   /\ x.start - k * BIN = w.start - j * BIN
  <2>1. k >= e /\ e < Count /\ ~(e >= Count)
    BY <1>4, <1>5, <1>16
  <2>2. x.head = (w.head + e) % Count
    BY <1>13, <2>1 DEF head
  <2>3. \A i \in Slots : x.slots[i] = IF i \in Left(w.head, e) THEN 0 ELSE w.slots[i]
    BY <1>8, <1>13 DEF gone
  <2>4. Counted(x, k) = Counted(w, k - e)
    BY <1>5, <1>12, <2>1, <2>2, <2>3, Rest
  <2>5. x.start - k * BIN = w.start - (k - e) * BIN
    <3> DEFINE j == k - e
    <3>1. j \in Nat /\ k = j + e
      BY <1>5, <2>1
    <3>2. k * BIN = j * BIN + e * BIN
      <4> HIDE DEF j
      <4> QED BY <1>4, <1>5, <3>1
    <3>3. k * BIN \in Nat /\ j * BIN \in Nat
      BY <1>4, <3>1
    <3> HIDE DEF j
    <3> DEFINE kb == k * BIN
               jb == j * BIN
               eb == e * BIN
               ws == w.start
               xs == x.start
    <3>4. /\ kb \in Nat /\ jb \in Nat /\ eb \in Nat /\ kb = jb + eb /\ xs = ws + eb
          /\ ws \in Int
      BY <1>2, <1>6, <1>13, <3>2, <3>3 DEF s
    <3> HIDE DEF kb, jb, eb, ws, xs
    <3>5. xs - kb = ws - jb
      BY <3>4
    <3> QED BY <3>5 DEF kb, jb, j, ws, xs
  <2>6. k - e \in 0 .. BINS
    BY <1>4, <1>5, <2>1
  <2> QED BY <2>4, <2>5, <2>6
<1>17. Follows(x, w)
  BY <1>15, <1>16 DEF Follows
<1>18. w.start <= x.start
  <2>1. w.start <= s
    BY <1>6 DEF s
  <2> QED BY <1>13, <2>1
<1>19. QED
  BY <1>11, <1>12, <1>13, <1>14, <1>17, <1>18

------------------------------------------------------------------------------
(* What keeps the books. *)

\* Bins are as far apart as they are long.
LEMMA Apart ==
  ASSUME NEW s \in Int, NEW k \in 0 .. BINS
  PROVE  /\ k * BIN \in Nat /\ s - k * BIN \in Int /\ s - k * BIN <= s
         /\ s - Window <= s - k * BIN
<1>1. BIN \in Nat \ {0} /\ BINS \in Nat /\ Window = BINS * BIN /\ k \in Nat
  BY Sizes
<1>2. k * BIN \in Nat
  BY <1>1
<1> DEFINE j == BINS - k
<1>3. j \in Nat /\ BINS = k + j
  BY <1>1
<1>4. j * BIN \in Nat /\ BINS * BIN = k * BIN + j * BIN
  <2> HIDE DEF j
  <2> QED BY <1>1, <1>3
<1> DEFINE kb == k * BIN
           jb == j * BIN
<1>5. kb \in Nat /\ jb \in Nat /\ Window = kb + jb
  BY <1>1, <1>2, <1>4
<1> HIDE DEF kb, jb
<1>6. s - kb \in Int /\ s - kb <= s /\ s - Window <= s - kb
  BY <1>5
<1>7. QED
  BY <1>2, <1>6 DEF kb

\* A window bound to the clock starts its bin then.
LEMMA StartBound ==
  ASSUME NEW w \in Windows, NEW t \in Times
  PROVE  /\ Start(w, t) \in Int
         /\ w.start = NotStarted => Start(w, t) \in NotStarted + 1 .. t
         /\ w.start # NotStarted => Start(w, t) = w.start
<1>1. w.phase \in 0 .. BIN - 1 /\ w.start \in Int
  BY DEF Windows
<1> DEFINE p == w.phase
           ws == w.start
<1>2. p \in 0 .. BIN - 1 /\ ws \in Int /\ Start(w, t) = IF ws = NotStarted THEN t - p ELSE ws
  BY <1>1 DEF Start
<1> HIDE DEF p, ws
<1>3. QED
  BY <1>2, Sizes DEF ws

\* The first call binds the window to the clock.
LEMMA FirstCall ==
  ASSUME NEW w \in Windows, NEW t \in Times, w.start = NotStarted, NEW x, x = Advance(w, t)
  PROVE  /\ x \in Windows /\ x.slots = w.slots /\ x.head = w.head /\ x.total = w.total
         /\ x.start = Start(w, t) /\ t < x.start + BIN
<1>1. x = [w EXCEPT !.start = t - w.phase]
  BY DEF Advance
<1>2. /\ w = [slots |-> w.slots, head |-> w.head, total |-> w.total, start |-> w.start,
              phase |-> w.phase]
      /\ w.slots \in [Slots -> Nat] /\ w.head \in Slots /\ w.total \in Nat
      /\ w.phase \in 0 .. BIN - 1
  BY DEF Windows
<1>3. x = [slots |-> w.slots, head |-> w.head, total |-> w.total, start |-> t - w.phase,
           phase |-> w.phase]
  BY <1>1, <1>2
<1>4. t - w.phase \in Int /\ t < t - w.phase + BIN
  <2> DEFINE p == w.phase
  <2>1. p \in 0 .. BIN - 1
    BY <1>2
  <2> HIDE DEF p
  <2>2. t - p \in Int /\ t < t - p + BIN
    BY <2>1, Sizes
  <2> QED BY <2>2 DEF p
<1>5. x \in Windows
  BY <1>2, <1>3, <1>4 DEF Windows
<1>6. QED
  BY <1>3, <1>4, <1>5 DEF Start

\* The window advanced at time t.
Advanced(x, t) == x.start \in NotStarted + 1 .. t /\ t < x.start + BIN

\* An advanced window is bound to the clock.
LEMMA AdvancedStart ==
  ASSUME NEW x, NEW t \in Times, Advanced(x, t)
  PROVE  /\ x.start # NotStarted /\ Start(x, t) = x.start
         /\ x.start \in Int /\ x.start <= t /\ t < x.start + BIN
<1> DEFINE s == x.start
<1>1. s \in NotStarted + 1 .. t /\ t < s + BIN
  BY DEF Advanced
<1> HIDE DEF s
<1>2. s \in Int /\ s # NotStarted /\ s <= t /\ t < s + BIN
  BY <1>1, Sizes
<1>3. QED
  BY <1>2 DEF Start, s

\* Advancing keeps the books, and never counts more.
LEMMA AdvanceKeeps ==
  ASSUME NEW a \in Histories, NEW b \in Histories, NEW t \in Times, NEW w, Books(w, t, a, b),
         NEW x, x = Advance(w, t)
  PROVE  /\ Books(x, t, a, b) /\ Advanced(x, t) /\ x.total <= w.total
         /\ Exact(w, t, a, b) => Exact(x, t, a, b)
<1>1. /\ w \in Windows /\ w.total = Sum(w.slots, Count, Slots)
      /\ w.start # NotStarted => w.start \in NotStarted + 1 .. t
      /\ \A u \in Times : u >= Start(w, t) + BIN => a[u] = 0 /\ b[u] = 0
      /\ \A k \in 0 .. BINS : Counted(w, k) >= Charged(a, b, Start(w, t) - k * BIN)
  BY DEF Books
<1>2. CASE w.start = NotStarted
  <2>1. /\ x \in Windows /\ x.slots = w.slots /\ x.head = w.head /\ x.total = w.total
        /\ x.start = Start(w, t) /\ t < x.start + BIN
    BY <1>1, <1>2, FirstCall
  <2>2. Advanced(x, t)
    BY <1>1, <1>2, <2>1, StartBound DEF Advanced
  <2>3. x.start # NotStarted /\ Start(x, t) = Start(w, t)
    BY <2>1, <2>2, AdvancedStart
  <2>4. \A k : Counted(x, k) = Counted(w, k)
    BY <2>1 DEF Counted
  <2>5. w.total \in Nat
    BY <1>1 DEF Windows
  <2>6. Books(x, t, a, b)
    <3>1. x.start \in NotStarted + 1 .. t
      BY <2>2 DEF Advanced
    <3>2. x.total = Sum(x.slots, Count, Slots)
      BY <1>1, <2>1
    <3>3. \A k \in 0 .. BINS : Counted(x, k) >= Charged(a, b, Start(x, t) - k * BIN)
      BY <1>1, <2>3, <2>4
    <3>4. \A u \in Times : u >= Start(x, t) + BIN => a[u] = 0 /\ b[u] = 0
      BY <1>1, <2>3
    <3> QED BY <2>1, <3>1, <3>2, <3>3, <3>4 DEF Books
  <2>7. ASSUME Exact(w, t, a, b) PROVE Exact(x, t, a, b)
    <3>1. \A k \in 0 .. BINS : Counted(w, k) = Charged(a, b, Start(w, t) - k * BIN)
      BY <2>7 DEF Exact
    <3>2. \A k \in 0 .. BINS : Counted(x, k) = Charged(a, b, Start(x, t) - k * BIN)
      BY <2>3, <2>4, <3>1
    <3> QED BY <2>3, <3>2 DEF Exact
  <2> QED BY <2>1, <2>2, <2>5, <2>6, <2>7
<1>3. CASE w.start # NotStarted
  <2>1. /\ x \in Windows /\ x.total = Sum(x.slots, Count, Slots) /\ x.total <= w.total
        /\ x.start \in NotStarted + 1 .. t /\ t < x.start + BIN /\ w.start <= x.start
        /\ Follows(x, w)
    BY <1>1, <1>3, AdvanceIs
  <2>2. Advanced(x, t)
    BY <2>1 DEF Advanced
  <2>3. /\ x.start # NotStarted /\ Start(x, t) = x.start /\ Start(w, t) = w.start
        /\ x.start \in Int /\ w.start \in Int
    BY <1>1, <1>3, <2>2, AdvancedStart, StartBound
  <2>4. ASSUME NEW k \in 0 .. BINS
        PROVE  \/ Counted(x, k) = 0 /\ Charged(a, b, Start(x, t) - k * BIN) = 0
               \/ \E j \in 0 .. BINS :
                    /\ Counted(x, k) = Counted(w, j)
                    /\ Charged(a, b, Start(x, t) - k * BIN) = Charged(a, b, Start(w, t) - j * BIN)
    <3>1. CASE Counted(x, k) = 0 /\ x.start - k * BIN >= w.start + BIN
      <4> DEFINE y == x.start - k * BIN
                 z == w.start + BIN
      <4>1. y \in Int /\ z \in Int /\ y >= z
        BY <2>3, <3>1, Apart, Sizes
      <4>2. \A u \in Times : u >= z => a[u] = 0 /\ b[u] = 0
        BY <1>1, <2>3
      <4> HIDE DEF y, z
      <4>3. \A u \in Times : u >= y => a[u] = 0 /\ b[u] = 0
        BY <4>1, <4>2, Sizes
      <4>4. Charged(a, b, y) = 0
        BY <4>1, <4>3, ChargedZero
      <4> QED BY <2>3, <3>1, <4>4 DEF y
    <3>2. CASE \E j \in 0 .. BINS : /\ Counted(x, k) = Counted(w, j)
                                    /\ x.start - k * BIN = w.start - j * BIN
      BY <2>3, <3>2
    <3> QED BY <2>1, <3>1, <3>2 DEF Follows
  <2>5. ASSUME NEW u \in Times, u >= Start(x, t) + BIN PROVE a[u] = 0 /\ b[u] = 0
    <3> DEFINE xs == x.start
               ws == w.start
    <3>1. u >= xs + BIN /\ xs \in Int /\ ws \in Int /\ ws <= xs
      BY <2>1, <2>3, <2>5
    <3> HIDE DEF xs, ws
    <3>2. u >= ws + BIN
      BY <3>1, Sizes
    <3> QED BY <1>1, <2>3, <3>2 DEF ws
  <2>6. \A k \in 0 .. BINS : Counted(x, k) >= Charged(a, b, Start(x, t) - k * BIN)
    BY <1>1, <2>4
  <2>7. Books(x, t, a, b)
    BY <2>1, <2>3, <2>5, <2>6 DEF Books
  <2>8. ASSUME Exact(w, t, a, b) PROVE Exact(x, t, a, b)
    <3>1. \A k \in 0 .. BINS : Counted(w, k) = Charged(a, b, Start(w, t) - k * BIN)
      BY <2>8 DEF Exact
    <3>2. \A k \in 0 .. BINS : Counted(x, k) = Charged(a, b, Start(x, t) - k * BIN)
      BY <2>4, <3>1
    <3> QED BY <2>3, <3>2 DEF Exact
  <2> QED BY <2>1, <2>2, <2>7, <2>8
<1>4. QED
  BY <1>2, <1>3

\* The window w charged with ms, and its record at time t.
WithCharge(w, ms) == [w EXCEPT !.slots[w.head] = @ + ms, !.total = @ + ms]
Record(c, t) == [c EXCEPT !.start = NotStarted, !.phase = t - c.start]

\* What a charge changes of an advanced window.
LEMMA ChargedIs ==
  ASSUME NEW w \in Windows, NEW t \in Times, Advanced(w, t), NEW ms \in Nat,
         w.total = Sum(w.slots, Count, Slots),
         NEW c, c = WithCharge(w, ms), NEW r, r = Record(c, t)
  PROVE  /\ c \in Windows /\ c.start = w.start /\ c.total = Sum(c.slots, Count, Slots)
         /\ r \in Windows /\ r.start = NotStarted /\ r.total = Sum(r.slots, Count, Slots)
         /\ Start(c, t) = w.start /\ Start(r, t) = w.start
         /\ \A k \in 0 .. BINS : /\ Counted(c, k) = Counted(w, k) + ms
                                 /\ Counted(r, k) = Counted(w, k) + ms
<1>1. /\ w = [slots |-> w.slots, head |-> w.head, total |-> w.total, start |-> w.start,
              phase |-> w.phase]
      /\ w.slots \in [Slots -> Nat] /\ w.head \in Slots /\ w.total \in Nat
      /\ w.phase \in 0 .. BIN - 1 /\ w.start \in Int
  BY DEF Windows
<1> DEFINE f == w.slots
           g == [f EXCEPT ![w.head] = @ + ms]
           p == t - w.start
<1>2. c = [slots |-> g, head |-> w.head, total |-> w.total + ms, start |-> w.start,
           phase |-> w.phase]
  BY <1>1 DEF WithCharge
<1>3. r = [slots |-> g, head |-> w.head, total |-> w.total + ms, start |-> NotStarted,
           phase |-> p]
  <2> HIDE DEF g
  <2>1. r = [c EXCEPT !.start = NotStarted, !.phase = t - c.start]
    BY DEF Record
  <2>2. /\ c.slots = g /\ c.head = w.head /\ c.total = w.total + ms /\ c.start = w.start
        /\ t - c.start = p
    BY <1>2
  <2> HIDE DEF p
  <2> QED BY <1>2, <2>1, <2>2
<1>4. \A i \in Slots : f[i] \in Nat /\ g[i] = f[i] + At(i, w.head, ms)
  BY <1>1 DEF At
<1>5. g \in [Slots -> Nat] /\ w.total + ms \in Nat
  BY <1>1
<1>6. /\ w.start # NotStarted /\ w.start <= t /\ t < w.start + BIN
  BY AdvancedStart
<1>7. p \in 0 .. BIN - 1 /\ t - p = w.start
  <2> DEFINE ws == w.start
  <2>1. ws \in Int /\ ws <= t /\ t < ws + BIN /\ p = t - ws
    BY <1>1, <1>6
  <2> HIDE DEF ws, p
  <2>2. p \in 0 .. BIN - 1 /\ t - p = ws
    BY <2>1, Sizes
  <2> QED BY <2>2 DEF ws
<1> HIDE DEF g, p
<1>8. NotStarted \in Int
  BY Sizes
<1>9. c \in Windows /\ r \in Windows
  BY <1>1, <1>2, <1>3, <1>5, <1>7, <1>8 DEF Windows
<1>10. Start(c, t) = w.start /\ Start(r, t) = w.start
  BY <1>2, <1>3, <1>6, <1>7 DEF Start
<1>11. ASSUME NEW X, w.head \in X PROVE Sum(g, Count, X) = Sum(f, Count, X) + ms
  <2>1. Count \in Nat /\ 0 .. Count - 1 = Slots /\ Summable(f, Count, X)
    BY SlotsSummable
  <2> DEFINE h == w.head
  <2>2. h \in 0 .. Count - 1 /\ h \in X
    BY <1>1, <1>11, <2>1
  <2>3. \A i \in 0 .. Count - 1 : f[i] \in Nat /\ g[i] = f[i] + At(i, h, ms)
    BY <1>4, <2>1
  <2> HIDE DEF f, h
  <2>4. \A i \in 0 .. Count - 1 : Term(g, X, i) = Term(f, X, i) + At(i, h, ms)
    BY <2>2, <2>3 DEF Term, At
  <2> QED BY <2>1, <2>2, <2>4, SumGrows
<1>12. w.total + ms = Sum(g, Count, Slots)
  BY <1>1, <1>11
<1>13. ASSUME NEW k \in 0 .. BINS PROVE Sum(g, Count, Recent(w.head, k)) = Counted(w, k) + ms
  <2>1. w.head \in Recent(w.head, k)
    <3> DEFINE h == w.head
    <3>1. h \in Slots /\ h \in Int
      BY <1>1, Sizes
    <3> HIDE DEF h
    <3>2. Behind(h, h) = 0
      BY <3>1 DEF Behind
    <3>3. h \in Recent(h, k)
      BY <3>1, <3>2, Sizes DEF Recent
    <3> QED BY <3>3 DEF h
  <2> QED BY <1>11, <2>1 DEF Counted
<1>14. QED
  BY <1>2, <1>3, <1>9, <1>10, <1>12, <1>13 DEF Counted

\* A charge of an advanced window is booked once, in it and in its record.
LEMMA ChargeKeeps ==
  ASSUME NEW a \in Histories, NEW b \in Histories, NEW t \in Times, NEW ms \in Nat,
         NEW w, Books(w, t, a, b), Advanced(w, t),
         NEW a1 \in Histories, NEW b1 \in Histories,
         \A x \in Int : x <= t => Charged(a1, b1, x) = Charged(a, b, x) + ms,
         \A u \in Times : u # t => a1[u] = a[u] /\ b1[u] = b[u],
         NEW c, c = WithCharge(w, ms), NEW r, r = Record(c, t)
  PROVE  /\ Books(c, t, a1, b1) /\ Books(r, t, a1, b1)
         /\ Exact(w, t, a, b) => Exact(c, t, a1, b1)
<1>1. /\ w \in Windows /\ w.total = Sum(w.slots, Count, Slots)
      /\ \A u \in Times : u >= Start(w, t) + BIN => a[u] = 0 /\ b[u] = 0
      /\ \A k \in 0 .. BINS : Counted(w, k) >= Charged(a, b, Start(w, t) - k * BIN)
  BY DEF Books
<1>2. /\ w.start # NotStarted /\ Start(w, t) = w.start
      /\ w.start \in Int /\ w.start <= t /\ t < w.start + BIN
      /\ w.start \in NotStarted + 1 .. t
  BY AdvancedStart DEF Advanced
<1>3. /\ c \in Windows /\ c.start = w.start /\ c.total = Sum(c.slots, Count, Slots)
      /\ r \in Windows /\ r.start = NotStarted /\ r.total = Sum(r.slots, Count, Slots)
      /\ Start(c, t) = w.start /\ Start(r, t) = w.start
      /\ \A k \in 0 .. BINS : /\ Counted(c, k) = Counted(w, k) + ms
                              /\ Counted(r, k) = Counted(w, k) + ms
  BY <1>1, ChargedIs
<1>4. ASSUME NEW u \in Times, u >= w.start + BIN PROVE a1[u] = 0 /\ b1[u] = 0
  <2>1. u # t /\ u >= Start(w, t) + BIN
    BY <1>2, <1>4, Sizes
  <2> QED BY <1>1, <2>1
<1>5. ASSUME NEW k \in 0 .. BINS
      PROVE  /\ Charged(a1, b1, w.start - k * BIN) = Charged(a, b, w.start - k * BIN) + ms
             /\ Charged(a, b, w.start - k * BIN) \in Nat /\ Counted(w, k) \in Nat
             /\ Counted(w, k) >= Charged(a, b, w.start - k * BIN)
  <2> DEFINE y == w.start - k * BIN
  <2>1. w.start - k * BIN \in Int /\ w.start - k * BIN <= w.start
    BY <1>2, Apart
  <2>2. y \in Int /\ y <= t
    <3> DEFINE ws == w.start
    <3>1. y \in Int /\ y <= ws /\ ws \in Int /\ ws <= t /\ t \in Int
      BY <1>2, <2>1, Sizes
    <3> HIDE DEF y, ws
    <3> QED BY <3>1
  <2>3. Counted(w, k) >= Charged(a, b, y)
    BY <1>1, <1>2
  <2> HIDE DEF y
  <2>4. Charged(a1, b1, y) = Charged(a, b, y) + ms
    BY <2>2
  <2>5. Charged(a, b, y) \in Nat
    BY <2>2, ChargedLess
  <2>6. Counted(w, k) \in Nat
    BY <1>1, SlotsSummable DEF Counted
  <2> QED BY <2>3, <2>4, <2>5, <2>6 DEF y
<1>6. \A k \in 0 .. BINS :
        /\ Counted(c, k) >= Charged(a1, b1, w.start - k * BIN)
        /\ Counted(r, k) >= Charged(a1, b1, w.start - k * BIN)
  BY <1>3, <1>5
<1>7. Books(c, t, a1, b1)
  <2>1. c.start \in NotStarted + 1 .. t
    BY <1>2, <1>3
  <2> QED BY <1>3, <1>4, <1>6, <2>1 DEF Books
<1>8. Books(r, t, a1, b1)
  BY <1>3, <1>4, <1>6 DEF Books
<1>9. ASSUME Exact(w, t, a, b) PROVE Exact(c, t, a1, b1)
  <2>1. \A k \in 0 .. BINS : Counted(w, k) = Charged(a, b, w.start - k * BIN)
    BY <1>2, <1>9 DEF Exact
  <2>2. \A k \in 0 .. BINS : Counted(c, k) = Charged(a1, b1, w.start - k * BIN)
    BY <1>3, <1>5, <2>1
  <2> QED BY <1>2, <1>3, <2>2 DEF Exact
<1>10. QED
  BY <1>7, <1>8, <1>9

\* Time passes.
LEMMA Later ==
  ASSUME NEW a \in Histories, NEW b \in Histories, NEW t \in Times, t + 1 \in Times,
         NEW w, Books(w, t, a, b)
  PROVE  /\ Books(w, t + 1, a, b)
         /\ Exact(w, t, a, b) => Exact(w, t + 1, a, b)
<1>1. /\ w \in Windows /\ w.total = Sum(w.slots, Count, Slots)
      /\ w.start # NotStarted => w.start \in NotStarted + 1 .. t
      /\ \A u \in Times : u >= Start(w, t) + BIN => a[u] = 0 /\ b[u] = 0
      /\ \A k \in 0 .. BINS : Counted(w, k) >= Charged(a, b, Start(w, t) - k * BIN)
  BY DEF Books
<1> DEFINE s == Start(w, t)
           s1 == Start(w, t + 1)
<1>2. s \in Int /\ s1 \in Int /\ s <= s1 /\ (w.start # NotStarted => s1 = s)
  <2>1. s \in Int /\ s1 \in Int
    BY <1>1, StartBound
  <2>2. w.phase \in Int
    BY <1>1, Sizes DEF Windows
  <2>3. s = IF w.start = NotStarted THEN t - w.phase ELSE w.start
    BY DEF Start
  <2> DEFINE y == t + 1
  <2>4. y \in Int /\ t <= y
    BY Sizes
  <2>5. s1 = Start(w, y)
    OBVIOUS
  <2> HIDE DEF y, s, s1
  <2>6. s1 = IF w.start = NotStarted THEN y - w.phase ELSE w.start
    BY <2>5 DEF Start
  <2>7. w.start = NotStarted => s <= s1
    <3> DEFINE p == w.phase
    <3> HAVE w.start = NotStarted
    <3>1. s = t - p /\ s1 = y - p /\ p \in Int /\ t \in Int
      BY <2>2, <2>3, <2>6, Sizes
    <3> HIDE DEF p
    <3> QED BY <2>4, <3>1
  <2> QED BY <2>1, <2>3, <2>6, <2>7
<1>3. ASSUME NEW k \in 0 .. BINS
      PROVE  /\ s - k * BIN \in Int /\ s1 - k * BIN \in Int /\ s - k * BIN <= s1 - k * BIN
             /\ Charged(a, b, s1 - k * BIN) <= Charged(a, b, s - k * BIN)
             /\ Charged(a, b, s1 - k * BIN) \in Nat /\ Charged(a, b, s - k * BIN) \in Nat
             /\ Counted(w, k) \in Nat
  <2> HIDE DEF s, s1
  <2>1. s - k * BIN \in Int /\ s1 - k * BIN \in Int /\ s - k * BIN <= s1 - k * BIN
    <3> DEFINE kb == k * BIN
    <3>1. kb \in Nat
      BY <1>2, Apart
    <3> HIDE DEF kb
    <3>2. s - kb \in Int /\ s1 - kb \in Int /\ s - kb <= s1 - kb
      BY <1>2, <3>1
    <3> QED BY <3>2 DEF kb
  <2>2. Counted(w, k) \in Nat
    BY <1>1, SlotsSummable DEF Counted
  <2> QED BY <2>1, <2>2, ChargedLess
<1>4. \A k \in 0 .. BINS : Counted(w, k) >= Charged(a, b, s1 - k * BIN)
  <2> TAKE k \in 0 .. BINS
  <2>1. Counted(w, k) >= Charged(a, b, s - k * BIN)
    BY <1>1
  <2> HIDE DEF s, s1
  <2> QED BY <1>3, <2>1
<1>5. \A u \in Times : u >= s1 + BIN => a[u] = 0 /\ b[u] = 0
  <2> TAKE u \in Times
  <2> HAVE u >= s1 + BIN
  <2>1. u >= s + BIN
    <3> HIDE DEF s, s1
    <3> QED BY <1>2, Sizes
  <2> QED BY <1>1, <2>1
<1>6. w.start # NotStarted => w.start \in NotStarted + 1 .. t + 1
  <2> HAVE w.start # NotStarted
  <2> DEFINE ws == w.start
  <2>1. ws \in NotStarted + 1 .. t
    BY <1>1
  <2> HIDE DEF ws
  <2>2. ws \in NotStarted + 1 .. t + 1
    BY <2>1, Sizes
  <2> QED BY <2>2 DEF ws
<1>7. Books(w, t + 1, a, b)
  BY <1>1, <1>4, <1>5, <1>6 DEF Books
<1>8. ASSUME Exact(w, t, a, b) PROVE Exact(w, t + 1, a, b)
  <2>1. /\ w.start = NotStarted => \A u \in Times : a[u] = 0 /\ b[u] = 0
        /\ \A k \in 0 .. BINS : Counted(w, k) = Charged(a, b, s - k * BIN)
    BY <1>8 DEF Exact
  <2>2. \A k \in 0 .. BINS : Counted(w, k) = Charged(a, b, s1 - k * BIN)
    <3> TAKE k \in 0 .. BINS
    <3> HIDE DEF s, s1
    <3>1. CASE w.start # NotStarted
      BY <1>2, <2>1, <3>1
    <3>2. CASE w.start = NotStarted
      <4> DEFINE y == s - k * BIN
                 z == s1 - k * BIN
      <4>1. y \in Int /\ z \in Int /\ Counted(w, k) = Charged(a, b, y)
        BY <1>3, <2>1
      <4>2. \A u \in Times : a[u] = 0 /\ b[u] = 0
        BY <2>1, <3>2
      <4> HIDE DEF y, z
      <4>3. Charged(a, b, y) = 0 /\ Charged(a, b, z) = 0
        BY <4>1, <4>2, ChargedZero
      <4> QED BY <4>1, <4>3 DEF z
    <3> QED BY <3>1, <3>2
  <2> QED BY <2>1, <2>2 DEF Exact
<1>9. QED
  BY <1>7, <1>8

\* The window of a boot without a record, once what was charged is forgotten.
LEMMA EmptyKeeps ==
  ASSUME NEW t \in Times, NEW z, z = [u \in Times |-> 0]
  PROVE  /\ z \in Histories /\ Books(Empty, t, z, z) /\ Exact(Empty, t, z, z)
<1>1. /\ Count \in Nat /\ 0 .. Count - 1 = Slots /\ NotStarted \in Int /\ BIN \in Nat \ {0}
      /\ 0 \in Slots
  BY Sizes
<1>2. z \in Histories /\ \A u \in Times : z[u] = 0
  BY DEF Histories
<1>3. Empty \in Windows /\ Empty.start = NotStarted /\ Empty.total = 0
  BY <1>1 DEF Empty, Windows
<1>4. \A i \in Slots : Empty.slots[i] = 0
  BY DEF Empty
<1>5. ASSUME NEW X PROVE Sum(Empty.slots, Count, X) = 0
  <2>1. \A i \in 0 .. Count - 1 : Term(Empty.slots, X, i) = 0
    BY <1>1, <1>4 DEF Term
  <2> QED BY <1>1, <2>1, SumZero
<1>6. Start(Empty, t) \in Int
  BY <1>3, StartBound
<1> DEFINE s == Start(Empty, t)
<1>7. ASSUME NEW k \in 0 .. BINS
      PROVE  Counted(Empty, k) = 0 /\ Charged(z, z, s - k * BIN) = 0
  <2> DEFINE y == s - k * BIN
  <2>1. y \in Int
    BY <1>6, Apart
  <2> HIDE DEF y
  <2>2. Charged(z, z, y) = 0
    BY <1>2, <2>1, ChargedZero
  <2>3. Counted(Empty, k) = 0
    BY <1>5 DEF Counted
  <2> QED BY <2>2, <2>3 DEF y
<1> HIDE DEF s
<1>8. \A k \in 0 .. BINS : /\ Counted(Empty, k) >= Charged(z, z, s - k * BIN)
                           /\ Counted(Empty, k) = Charged(z, z, s - k * BIN)
  BY <1>7
<1>9. Empty.total = Sum(Empty.slots, Count, Slots)
  BY <1>3, <1>5
<1>10. Books(Empty, t, z, z)
  BY <1>2, <1>3, <1>8, <1>9 DEF Books, s
<1>11. Exact(Empty, t, z, z)
  BY <1>2, <1>8 DEF Exact, s
<1>12. QED
  BY <1>2, <1>10, <1>11

\* A window in the books is a record that a restoration accepts.
LEMMA BooksValid ==
  ASSUME NEW t, NEW a, NEW b, NEW w, Books(w, t, a, b)
  PROVE  w \in Windows /\ Valid(w)
<1>1. w \in Windows /\ w.total = Sum(w.slots, Count, Slots)
  BY DEF Books
<1>2. w.head \in Slots /\ w.phase \in 0 .. BIN - 1
  BY <1>1 DEF Windows
<1>3. w.phase < BIN
  <2> DEFINE p == w.phase
  <2>1. p \in 0 .. BIN - 1
    BY <1>2
  <2> HIDE DEF p
  <2>2. p < BIN
    BY <2>1, Sizes
  <2> QED BY <2>2 DEF p
<1>4. QED
  BY <1>1, <1>2, <1>3 DEF Valid, Total

------------------------------------------------------------------------------
(* The inductive invariant. *)

\* Nothing is charged ahead of time.
NotAhead == \A u \in Times : u > time => air[u] = 0 /\ extra[u] = 0

\* The frame that waits for the channel still fits.
Admitted == access = "SENSING" => window.total + frame.toa <= Allowance(frame.prio)

\* The window and its record keep the books; without a reset the window counts nothing else.
IInv ==
  /\ TypeOK
  /\ Books(window, time, air, extra) /\ Books(saved, time, air, extra)
  /\ NotAhead
  /\ resets = 0 => Exact(window, time, air, extra)
  /\ Admitted

\* Allowances are integers.
LEMMA AllowanceType ==
  ASSUME NEW p \in Priorities
  PROVE  Allowance(p) \in Int
<1>1. BUDGET \in Nat /\ Percent[p] \in Nat
  BY DutyCycleAssumption DEF Priorities
<1> DEFINE n == BUDGET * Percent[p]
<1>2. n \in Int
  BY <1>1
<1> HIDE DEF n
<1>3. n \div 100 \in Int
  BY <1>2
<1>4. QED
  BY <1>3 DEF Allowance, n

\* Initially nothing is charged.
LEMMA InitHolds == Init => IInv
<1> SUFFICES ASSUME Init PROVE IInv
  OBVIOUS
<1>1. 0 \in Times /\ NotStarted \in Int /\ MAX_RESETS \in Nat
  BY Sizes, DutyCycleAssumption
<1>2. /\ time = 0 /\ window = Empty /\ saved = Empty /\ access = "IDLE" /\ frame = NoFrame
      /\ air = [u \in Times |-> 0] /\ extra = air /\ resets = 0
  BY DEF Init
<1>3. /\ air \in Histories /\ Books(Empty, time, air, air) /\ Exact(Empty, time, air, air)
  BY <1>1, <1>2, EmptyKeeps
<1>4. TypeOK
  BY <1>1, <1>2, <1>3, BooksValid DEF TypeOK, NoFrame, Priorities, Histories
<1>5. NotAhead
  BY <1>2 DEF NotAhead
<1>6. QED
  BY <1>2, <1>3, <1>4, <1>5 DEF IInv, Admitted

\* A charge, as far as the books go.
LEMMA ChargeStep ==
  ASSUME IInv, NEW ms \in Nat, Charge(ms),
         NEW a1 \in Histories, NEW b1 \in Histories,
         \A x \in Int : x <= time => Charged(a1, b1, x) = Charged(air, extra, x) + ms,
         \A u \in Times : u # time => a1[u] = air[u] /\ b1[u] = extra[u],
         ms = 0 => a1 = air /\ b1 = extra
  PROVE  /\ Books(window', time, a1, b1) /\ Books(saved', time, a1, b1)
         /\ resets = 0 => Exact(window', time, a1, b1)
<1>1. /\ time \in Times /\ air \in Histories /\ extra \in Histories
      /\ Books(window, time, air, extra) /\ Books(saved, time, air, extra)
      /\ resets = 0 => Exact(window, time, air, extra)
  BY DEF IInv, TypeOK, Histories
<1> DEFINE w == Advance(window, time)
           c == WithCharge(w, ms)
           r == Record(c, time)
<1>2. /\ Books(w, time, air, extra) /\ Advanced(w, time)
      /\ resets = 0 => Exact(w, time, air, extra)
  BY <1>1, AdvanceKeeps
<1>3. IF ms = 0 THEN window' = w /\ UNCHANGED saved ELSE window' = c /\ saved' = r
  BY DEF Charge, WithCharge, Record
<1> HIDE DEF w
<1>4. /\ Books(c, time, a1, b1) /\ Books(r, time, a1, b1)
      /\ Exact(w, time, air, extra) => Exact(c, time, a1, b1)
  <2> HIDE DEF c, r
  <2>1. c = WithCharge(w, ms) /\ r = Record(c, time)
    BY DEF c, r
  <2> QED BY <1>1, <1>2, <2>1, ChargeKeeps
<1> HIDE DEF c, r
<1>5. QED
  BY <1>1, <1>2, <1>3, <1>4

\* A frame is packed: the window advances, and the frame fits what it leaves.
LEMMA PackHolds ==
  ASSUME IInv, NEW p \in Priorities, NEW toa \in TOAS, Pack(p, toa)
  PROVE  IInv'
<1>1. /\ TypeOK /\ Books(window, time, air, extra) /\ Books(saved, time, air, extra)
      /\ resets = 0 => Exact(window, time, air, extra)
      /\ NotAhead /\ time \in Times /\ air \in Histories /\ extra \in Histories
  BY DEF IInv, TypeOK, Histories
<1>2. /\ window' = Advance(window, time) /\ Allows(window', p, toa)
      /\ access' = "SENSING" /\ frame' = [prio |-> p, toa |-> toa]
      /\ UNCHANGED <<time, saved, air, extra, resets>>
  BY DEF Pack
<1>3. /\ Books(window', time, air, extra)
      /\ resets = 0 => Exact(window', time, air, extra)
  BY <1>1, <1>2, AdvanceKeeps
<1>4. TypeOK'
  BY <1>1, <1>2, <1>3, BooksValid DEF TypeOK
<1>5. Admitted'
  BY <1>2 DEF Admitted, Allows
<1>6. NotAhead'
  BY <1>1, <1>2 DEF NotAhead
<1>7. QED
  BY <1>1, <1>2, <1>3, <1>4, <1>5, <1>6 DEF IInv

\* A report or a refusal: the window advances, and leaves no less.
LEMMA LookHolds ==
  ASSUME IInv, Look
  PROVE  IInv'
<1>1. /\ TypeOK /\ Books(window, time, air, extra) /\ Books(saved, time, air, extra)
      /\ resets = 0 => Exact(window, time, air, extra)
      /\ NotAhead /\ Admitted /\ time \in Times /\ air \in Histories /\ extra \in Histories
  BY DEF IInv, TypeOK, Histories
<1>2. /\ window' = Advance(window, time)
      /\ UNCHANGED <<time, saved, access, frame, air, extra, resets>>
  BY DEF Look
<1>3. /\ Books(window', time, air, extra) /\ window'.total <= window.total
      /\ resets = 0 => Exact(window', time, air, extra)
  BY <1>1, <1>2, AdvanceKeeps
<1>4. TypeOK'
  BY <1>1, <1>2, <1>3, BooksValid DEF TypeOK
<1>5. Admitted'
  <2> SUFFICES ASSUME access = "SENSING"
               PROVE  window'.total + frame.toa <= Allowance(frame.prio)
    BY <1>2 DEF Admitted
  <2>1. window.total + frame.toa <= Allowance(frame.prio)
    BY <1>1 DEF Admitted
  <2>2. /\ window.total \in Nat /\ window'.total \in Nat /\ frame.toa \in Nat
        /\ frame.prio \in Priorities
    <3>1. /\ window.total \in Nat /\ window'.total \in Nat /\ frame.toa \in TOAS \cup {0}
          /\ frame.prio \in Priorities
      BY <1>1, <1>4 DEF TypeOK, Windows
    <3>2. TOAS \cup {0} \subseteq Nat
      BY DutyCycleAssumption
    <3> QED BY <3>1, <3>2
  <2> DEFINE u == window.total
             v == window'.total
             f == frame.toa
             m == Allowance(frame.prio)
  <2>3. u \in Nat /\ v \in Nat /\ f \in Nat /\ m \in Int /\ u + f <= m /\ v <= u
    BY <1>3, <2>1, <2>2, AllowanceType
  <2> HIDE DEF u, v, f, m
  <2>4. v + f <= m
    BY <2>3
  <2> QED BY <2>4 DEF v, f, m
<1>6. NotAhead'
  BY <1>1, <1>2 DEF NotAhead
<1>7. QED
  BY <1>1, <1>2, <1>3, <1>4, <1>5, <1>6 DEF IInv

\* A frame starts: its computed time is charged.
LEMMA TransmitHolds ==
  ASSUME IInv, Transmit
  PROVE  IInv'
<1>1. /\ TypeOK /\ NotAhead
      /\ time \in Times /\ air \in Histories /\ extra \in Histories /\ frame.toa \in Nat
  <2>1. /\ TypeOK /\ NotAhead /\ time \in Times /\ air \in Histories /\ extra \in Histories
        /\ frame.toa \in TOAS \cup {0}
    BY DEF IInv, TypeOK, Histories
  <2>2. TOAS \cup {0} \subseteq Nat
    BY DutyCycleAssumption
  <2> HIDE DEF Histories
  <2> QED BY <2>1, <2>2
<1> DEFINE ms == frame.toa
<1>2. /\ Charge(ms) /\ access' = "TRANSMITTING" /\ air' = [air EXCEPT ![time] = @ + ms]
      /\ UNCHANGED <<time, frame, extra, resets>>
  BY DEF Transmit
<1> HIDE DEF ms
<1>3. ms \in Nat
  BY <1>1 DEF ms
<1>4. air' \in Histories /\ \A u \in Times : air'[u] = air[u] + At(u, time, ms)
  BY <1>1, <1>2, <1>3 DEF Histories, At
<1>5. \A x \in Int : x <= time => Charged(air', extra, x) = Charged(air, extra, x) + ms
  BY <1>1, <1>3, <1>4, ChargedGrows
<1>6. \A u \in Times : u # time => air'[u] = air[u] /\ extra[u] = extra[u]
  BY <1>1, <1>2 DEF Histories
<1>7. ms = 0 => air' = air /\ extra = extra
  BY <1>1, <1>4 DEF Histories, At
<1>8. /\ Books(window', time, air', extra) /\ Books(saved', time, air', extra)
      /\ resets = 0 => Exact(window', time, air', extra)
  BY <1>1, <1>2, <1>3, <1>4, <1>5, <1>6, <1>7, ChargeStep
<1>9. TypeOK'
  BY <1>1, <1>2, <1>4, <1>8, BooksValid DEF TypeOK, Histories
<1>10. NotAhead'
  BY <1>1, <1>2, <1>6, Sizes DEF NotAhead
<1>11. QED
  BY <1>2, <1>8, <1>9, <1>10 DEF IInv, Admitted

\* A frame ends: what it lasted more is charged.
LEMMA TxDoneHolds ==
  ASSUME IInv, NEW excess \in 0 .. EXCESS, TxDone(excess)
  PROVE  IInv'
<1>1. /\ TypeOK /\ NotAhead
      /\ time \in Times /\ air \in Histories /\ extra \in Histories /\ excess \in Nat
  BY DutyCycleAssumption DEF IInv, TypeOK, Histories
<1>2. /\ Charge(excess) /\ access' = "IDLE" /\ extra' = [extra EXCEPT ![time] = @ + excess]
      /\ frame' = NoFrame /\ UNCHANGED <<time, air, resets>>
  BY DEF TxDone
<1>3. extra' \in Histories /\ \A u \in Times : extra'[u] = extra[u] + At(u, time, excess)
  BY <1>1, <1>2 DEF Histories, At
<1>4. \A x \in Int : x <= time => Charged(air, extra', x) = Charged(air, extra, x) + excess
  BY <1>1, <1>3, ChargedGrows
<1>5. \A u \in Times : u # time => air[u] = air[u] /\ extra'[u] = extra[u]
  BY <1>1, <1>2 DEF Histories
<1>6. excess = 0 => air = air /\ extra' = extra
  BY <1>1, <1>3 DEF Histories, At
<1>7. /\ Books(window', time, air, extra') /\ Books(saved', time, air, extra')
      /\ resets = 0 => Exact(window', time, air, extra')
  BY <1>1, <1>2, <1>3, <1>4, <1>5, <1>6, ChargeStep
<1>8. TypeOK'
  BY <1>1, <1>2, <1>3, <1>7, BooksValid DEF TypeOK, Histories, NoFrame, Priorities
<1>9. NotAhead'
  BY <1>1, <1>2, <1>5, Sizes DEF NotAhead
<1>10. QED
  BY <1>2, <1>7, <1>8, <1>9 DEF IInv, Admitted

\* Time passes.
LEMMA TickHolds ==
  ASSUME IInv, Tick
  PROVE  IInv'
<1>1. /\ TypeOK /\ Books(window, time, air, extra) /\ Books(saved, time, air, extra)
      /\ resets = 0 => Exact(window, time, air, extra)
      /\ NotAhead /\ Admitted /\ time \in Times /\ air \in Histories /\ extra \in Histories
  BY DEF IInv, TypeOK, Histories
<1>2. /\ time < MAX_TIME /\ time' = time + 1
      /\ UNCHANGED <<window, saved, access, frame, air, extra, resets>>
  BY DEF Tick
<1>3. time + 1 \in Times
  BY <1>1, <1>2, Sizes
<1>4. /\ Books(window, time + 1, air, extra) /\ Books(saved, time + 1, air, extra)
      /\ resets = 0 => Exact(window, time + 1, air, extra)
  BY <1>1, <1>3, Later
<1>5. TypeOK'
  BY <1>1, <1>2, <1>3 DEF TypeOK
<1>6. NotAhead'
  BY <1>1, <1>2, Sizes DEF NotAhead
<1>7. QED
  BY <1>1, <1>2, <1>4, <1>5, <1>6 DEF IInv, Admitted

\* A soft reset: the record is the window.
LEMMA SoftResetHolds ==
  ASSUME IInv, SoftReset
  PROVE  IInv'
<1>1. /\ TypeOK /\ Books(saved, time, air, extra) /\ NotAhead /\ resets \in Nat
  BY DutyCycleAssumption DEF IInv, TypeOK
<1>2. /\ resets < MAX_RESETS /\ resets' = resets + 1
      /\ window' = IF Valid(saved) THEN saved ELSE Empty
      /\ access' = "IDLE" /\ frame' = NoFrame
      /\ UNCHANGED <<time, saved, air, extra>>
  BY DEF SoftReset
<1>3. window' = saved
  BY <1>1, <1>2, BooksValid
<1>4. resets' \in 0 .. MAX_RESETS /\ resets' # 0
  BY <1>1, <1>2, DutyCycleAssumption
<1>5. TypeOK'
  BY <1>1, <1>2, <1>3, <1>4 DEF TypeOK, NoFrame, Priorities
<1>6. NotAhead'
  BY <1>1, <1>2 DEF NotAhead
<1>7. QED
  BY <1>1, <1>2, <1>3, <1>4, <1>5, <1>6 DEF IInv, Admitted

\* Power loss: everything is forgotten.
LEMMA PowerLossHolds ==
  ASSUME IInv, PowerLoss
  PROVE  IInv'
<1>1. TypeOK /\ time \in Times
  BY DEF IInv, TypeOK
<1>2. /\ window' = Empty /\ saved' = Empty /\ access' = "IDLE" /\ frame' = NoFrame
      /\ air' = [t \in Times |-> 0] /\ extra' = air' /\ UNCHANGED <<time, resets>>
  BY DEF PowerLoss
<1>3. /\ air' \in Histories /\ Books(Empty, time, air', air') /\ Exact(Empty, time, air', air')
  BY <1>1, <1>2, EmptyKeeps
<1>4. TypeOK'
  BY <1>1, <1>2, <1>3, BooksValid DEF TypeOK, NoFrame, Priorities, Histories
<1>5. NotAhead'
  BY <1>2 DEF NotAhead
<1>6. QED
  BY <1>2, <1>3, <1>4, <1>5 DEF IInv, Admitted

\* Every step keeps the inductive invariant.
LEMMA StepHolds == IInv /\ [Next]_vars => IInv'
<1> SUFFICES ASSUME IInv, [Next]_vars PROVE IInv'
  OBVIOUS
<1>1. ASSUME NEW p \in Priorities, NEW toa \in TOAS, Pack(p, toa) PROVE IInv'
  BY <1>1, PackHolds
<1>2. CASE Look
  BY <1>2, LookHolds
<1>3. CASE ChannelBusy
  <2>1. /\ access' = "IDLE" /\ frame' = NoFrame
        /\ UNCHANGED <<time, window, saved, air, extra, resets>>
    BY <1>3 DEF ChannelBusy
  <2>2. TypeOK'
    BY <2>1 DEF IInv, TypeOK, NoFrame, Priorities
  <2> QED BY <2>1, <2>2 DEF IInv, NotAhead, Admitted
<1>4. CASE Transmit
  BY <1>4, TransmitHolds
<1>5. ASSUME NEW excess \in 0 .. EXCESS, TxDone(excess) PROVE IInv'
  BY <1>5, TxDoneHolds
<1>6. CASE Tick
  BY <1>6, TickHolds
<1>7. CASE SoftReset
  BY <1>7, SoftResetHolds
<1>8. CASE PowerLoss
  BY <1>8, PowerLossHolds
<1>9. CASE UNCHANGED vars
  BY <1>9 DEF vars, IInv, TypeOK, NotAhead, Admitted
<1>10. QED
  BY <1>1, <1>2, <1>3, <1>4, <1>5, <1>6, <1>7, <1>8, <1>9 DEF Next

\* The invariant holds in every behaviour.
LEMMA Inductive == Spec => []IInv
BY InitHolds, StepHolds, PTL DEF Spec

------------------------------------------------------------------------------
(* What the window promises. *)

\* TypeOK holds in every behaviour: the window and its record, the clock, the transmit
\* path and the histories keep their types (dutycycle.py, the fields of DutyCycle).
THEOREM TypeCorrect == Spec => []TypeOK
<1>1. IInv => TypeOK
  BY DEF IInv
<1>2. QED
  BY <1>1, Inductive, PTL

\* The record is always accepted by a restoration: the total saved with the bins is their
\* sum and the position is in range (dutycycle.py, _restore and _charge).
THEOREM RecordAccepted == Spec => []RecordValid
<1>1. IInv => RecordValid
  BY BooksValid DEF IInv, RecordValid
<1>2. QED
  BY <1>1, Inductive, PTL

\* What the window counts, as of now.
LEMMA UsedIs ==
  ASSUME IInv, NEW x, x = Advance(window, time)
  PROVE  /\ Books(x, time, air, extra) /\ Advanced(x, time) /\ Used = x.total
         /\ x.total <= window.total
         /\ resets = 0 => Exact(x, time, air, extra)
         /\ x.total = Counted(x, BINS) /\ x.total \in Nat
         /\ x.start - Window \in Int
         /\ x.total >= Charged(air, extra, x.start - Window)
         /\ resets = 0 => x.total = Charged(air, extra, x.start - Window)
<1>1. /\ time \in Times /\ air \in Histories /\ extra \in Histories
      /\ Books(window, time, air, extra)
      /\ resets = 0 => Exact(window, time, air, extra)
  BY DEF IInv, TypeOK, Histories
<1>2. /\ Books(x, time, air, extra) /\ Advanced(x, time) /\ x.total <= window.total
      /\ resets = 0 => Exact(x, time, air, extra)
  BY <1>1, AdvanceKeeps
<1>3. x \in Windows /\ x.total = Sum(x.slots, Count, Slots)
  BY <1>2 DEF Books
<1>4. x.total = Counted(x, BINS) /\ x.total \in Nat
  BY <1>3, CountedAll, SlotsSummable
<1>5. Start(x, time) = x.start /\ x.start \in Int
  BY <1>1, <1>2, AdvancedStart
<1>6. BINS \in 0 .. BINS /\ Window = BINS * BIN /\ Window \in Nat
  BY Sizes
<1>7. Counted(x, BINS) >= Charged(air, extra, x.start - Window)
  BY <1>2, <1>5, <1>6 DEF Books
<1>8. resets = 0 => Counted(x, BINS) = Charged(air, extra, x.start - Window)
  BY <1>2, <1>5, <1>6 DEF Exact
<1>9. x.start - Window \in Int
  BY <1>5, <1>6
<1>10. Used = x.total
  BY DEF Used
<1>11. QED
  BY <1>2, <1>4, <1>7, <1>8, <1>9, <1>10

\* The charges within a window of now are among those of the bins.
LEMMA Covered ==
  ASSUME IInv
  PROVE  Used >= Within(air, Window) + Within(extra, Window)
<1> DEFINE x == Advance(window, time)
           y == x.start - Window
           X == {u \in Times : u >= y}
           Y == {t \in Times : t <= time /\ t >= time - Window}
           N == MAX_TIME + 1
<1>1. time \in Times /\ air \in Histories /\ extra \in Histories
  BY DEF IInv, TypeOK, Histories
<1>2. /\ Advanced(x, time) /\ Used = x.total /\ x.total \in Nat /\ y \in Int
      /\ x.total >= Charged(air, extra, y)
  <2> HIDE DEF x
  <2>1. x = Advance(window, time)
    BY DEF x
  <2> QED BY <2>1, UsedIs
<1> HIDE DEF x
<1>3. x.start \in Int /\ x.start <= time
  BY <1>1, <1>2, AdvancedStart
<1>4. \A u \in Times : u \in Y => u \in X
  <2> DEFINE s == x.start
  <2>1. s \in Int /\ s <= time /\ y = s - Window
    BY <1>3
  <2> HIDE DEF s, y
  <2> QED BY <1>1, <2>1, Sizes
<1>5. Charged(air, extra, y) = Sum(air, N, X) + Sum(extra, N, X)
  BY DEF Charged, Since
<1>6. Within(air, Window) = Sum(air, N, Y) /\ Within(extra, Window) = Sum(extra, N, Y)
  BY DEF Within
<1> HIDE DEF X, Y
<1>7. Sum(air, N, Y) <= Sum(air, N, X) /\ Sum(extra, N, Y) <= Sum(extra, N, X)
  BY <1>1, <1>4, SinceLess
<1>8. /\ Sum(air, N, X) \in Nat /\ Sum(air, N, Y) \in Nat
      /\ Sum(extra, N, X) \in Nat /\ Sum(extra, N, Y) \in Nat
  BY <1>1, SinceType
<1> HIDE DEF N, y
<1>9. QED
  BY <1>2, <1>5, <1>6, <1>7, <1>8

\* NeverUndercounted holds in every behaviour: what the window counts is at least what
\* was charged within a window of now, whatever the soft resets (dutycycle.py, _advance,
\* _charge and _restore).
THEOREM NothingUndercounted == Spec => []NeverUndercounted
<1>1. IInv => NeverUndercounted
  BY Covered DEF NeverUndercounted
<1>2. QED
  BY <1>1, Inductive, PTL

\* ForgottenInTime holds in every behaviour: without a soft reset, what the window counts
\* was charged within a window and a bin (dutycycle.py, _advance).
THEOREM AllForgotten == Spec => []ForgottenInTime
<1>1. IInv => ForgottenInTime
  <2> SUFFICES ASSUME IInv, resets = 0
               PROVE  Used <= Within(air, Window + BIN) + Within(extra, Window + BIN)
    BY DEF ForgottenInTime
  <2> DEFINE x == Advance(window, time)
             y == x.start - Window
             d == Window + BIN
             X == {u \in Times : u >= y}
             Y == {t \in Times : t <= time /\ t >= time - d}
             N == MAX_TIME + 1
  <2>1. time \in Times /\ air \in Histories /\ extra \in Histories /\ NotAhead
    BY DEF IInv, TypeOK, Histories
  <2>2. /\ Advanced(x, time) /\ Used = x.total /\ y \in Int
        /\ x.total = Charged(air, extra, y)
    <3> HIDE DEF x
    <3>1. x = Advance(window, time)
      BY DEF x
    <3> QED BY <3>1, UsedIs
  <2> HIDE DEF x
  <2>3. x.start \in Int /\ time < x.start + BIN
    BY <2>1, <2>2, AdvancedStart
  <2>4. /\ \A u \in Times : u \in X /\ air[u] # 0 => u \in Y
        /\ \A u \in Times : u \in X /\ extra[u] # 0 => u \in Y
    <3> DEFINE s == x.start
    <3>1. s \in Int /\ time < s + BIN /\ y = s - Window
      BY <2>3
    <3> HIDE DEF s, y
    <3>2. \A u \in Times : u >= y => u >= time - d
      BY <2>1, <3>1, Sizes
    <3>3. \A u \in Times : air[u] # 0 \/ extra[u] # 0 => u <= time
      BY <2>1, Sizes DEF NotAhead
    <3> QED BY <3>2, <3>3
  <2>5. Charged(air, extra, y) = Sum(air, N, X) + Sum(extra, N, X)
    BY DEF Charged, Since
  <2>6. Within(air, d) = Sum(air, N, Y) /\ Within(extra, d) = Sum(extra, N, Y)
    BY DEF Within
  <2> HIDE DEF X, Y
  <2>7. Sum(air, N, X) <= Sum(air, N, Y) /\ Sum(extra, N, X) <= Sum(extra, N, Y)
    BY <2>1, <2>4, SinceLess
  <2>8. /\ Sum(air, N, X) \in Nat /\ Sum(air, N, Y) \in Nat
        /\ Sum(extra, N, X) \in Nat /\ Sum(extra, N, Y) \in Nat
    BY <2>1, SinceType
  <2> HIDE DEF N, y
  <2>9. QED
    BY <2>2, <2>5, <2>6, <2>7, <2>8
<1>2. QED
  BY <1>1, Inductive, PTL

\* Only a frame that starts adds to what was charged when a frame started.
LEMMA AirChanges ==
  ASSUME IInv, [Next]_vars, air' # air, air'[time] # 0
  PROVE  Transmit
<1>1. time \in Times
  BY DEF IInv, TypeOK
<1>2. ~PowerLoss
  BY <1>1 DEF PowerLoss
<1>3. QED
  BY <1>2 DEF Next, Pack, Look, ChannelBusy, TxDone, Tick, SoftReset, vars

\* WithinAllowance holds in every behaviour: when a frame starts, what was charged for
\* the frames started within a window is within the allowance of its priority, however
\* long it waited for the channel (link.py, pack and start; dutycycle.py, allows).
THEOREM AllowanceKept == Spec => WithinAllowance
<1> DEFINE Kept == air' # air /\ air'[time] # 0 =>
                     Within(air', Window) <= Allowance(frame.prio)
<1>1. IInv /\ [Next]_vars => [Kept]_vars
  <2> SUFFICES ASSUME IInv, [Next]_vars, air' # air, air'[time] # 0
               PROVE  Within(air', Window) <= Allowance(frame.prio)
    OBVIOUS
  <2>1. Transmit
    BY AirChanges
  <2>2. /\ TypeOK /\ access = "SENSING" /\ window.total + frame.toa <= Allowance(frame.prio)
        /\ air' = [air EXCEPT ![time] = @ + frame.toa]
    BY <2>1 DEF IInv, Admitted, Transmit
  <2>3. /\ time \in Times /\ air \in Histories /\ extra \in Histories
        /\ frame.prio \in Priorities /\ window.total \in Nat /\ frame.toa \in TOAS \cup {0}
    BY <2>2 DEF TypeOK, Histories, Windows
  <2>4. frame.toa \in Nat
    <3>1. TOAS \cup {0} \subseteq Nat
      BY DutyCycleAssumption
    <3> QED BY <2>3, <3>1
  <2> DEFINE x == Advance(window, time)
             ms == frame.toa
             N == MAX_TIME + 1
             Y == {t \in Times : t <= time /\ t >= time - Window}
  <2>5. Used = x.total /\ x.total <= window.total /\ x.total \in Nat
    <3> HIDE DEF x
    <3>1. x = Advance(window, time)
      BY DEF x
    <3> QED BY <3>1, UsedIs
  <2> HIDE DEF x
  <2>6. Used >= Within(air, Window) + Within(extra, Window)
    BY Covered
  <2>7. /\ Within(air, Window) = Sum(air, N, Y) /\ Within(extra, Window) = Sum(extra, N, Y)
        /\ Within(air', Window) = Sum(air', N, Y)
    BY DEF Within
  <2>8. N \in Nat /\ 0 .. N - 1 = Times /\ time \in Y
    BY <2>3, Sizes
  <2> HIDE DEF N, Y
  <2>9. \A u \in Times : air[u] \in Nat /\ air'[u] = air[u] + At(u, time, ms)
    BY <2>2, <2>3, <2>4 DEF Histories, At
  <2> HIDE DEF ms
  <2>10. \A u \in 0 .. N - 1 : Term(air', Y, u) = Term(air, Y, u) + At(u, time, ms)
    BY <2>8, <2>9 DEF Term, At
  <2>11. /\ Summable(air, N, Y) /\ Sum(air, N, Y) \in Nat /\ Sum(extra, N, Y) \in Nat
    BY <2>3, SinceType DEF N
  <2>12. Sum(air', N, Y) = Sum(air, N, Y) + ms
    BY <2>3, <2>4, <2>8, <2>10, <2>11, SumGrows DEF ms
  <2>13. /\ window.total + ms <= Allowance(frame.prio) /\ Allowance(frame.prio) \in Int
         /\ ms \in Nat
    BY <2>2, <2>3, <2>4, AllowanceType DEF ms
  <2> DEFINE m == Allowance(frame.prio)
             v == window.total
             p == x.total
             q == Sum(air, N, Y)
             r == Sum(extra, N, Y)
  <2>14. /\ m \in Int /\ v \in Nat /\ p \in Nat /\ q \in Nat /\ r \in Nat /\ ms \in Nat
         /\ v + ms <= m /\ p <= v /\ p >= q + r /\ Within(air', Window) = q + ms
    BY <2>3, <2>5, <2>6, <2>7, <2>11, <2>12, <2>13
  <2> HIDE DEF m, v, p, q, r
  <2>15. Within(air', Window) <= m
    BY <2>14
  <2>16. QED
    BY <2>15 DEF m
<1>2. QED
  BY <1>1, Inductive, PTL DEF Spec, WithinAllowance

==============================================================================
