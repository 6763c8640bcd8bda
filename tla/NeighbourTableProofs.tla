------------------------- MODULE NeighbourTableProofs -------------------------
(***************************************************************************)
(* Proofs about module NeighbourTable, for any neighbours, capacity,       *)
(* periods and windows: the cached time of the next scan is sound, the run *)
(* of failed samples stays within the samples still known, parents are not *)
(* evicted, and the table never exceeds its capacity.                      *)
(*                                                                         *)
(* The cached time is sound because it is the least of all ends when a     *)
(* scan computes it, no end comes closer than time passes, and the two     *)
(* events that make a nearer one, a failure and a new period, bring the    *)
(* scan forward.                                                           *)
(***************************************************************************)
EXTENDS NeighbourTable, FiniteSetTheorems, SequenceTheorems, WellFoundedInduction, TLAPS

Entries ==
  [heard : Ages, answered : Ages, fail : Ages \cup {None}, run : 0 .. UNREACH_RUN,
   latched : BOOLEAN, parent : BOOLEAN, rx : Seq(BOOLEAN), acks : Seq(BOOLEAN),
   margin : {"none", "good", "bad"}]

\* The windows of an entry: the last frame was received, and the run counts samples of
\* the window, whose failures age.
WindowsOK(e) ==
  /\ Len(e.rx) \in 1 .. WINDOW /\ e.rx[Len(e.rx)]
  /\ Len(e.acks) <= WINDOW /\ e.run <= Len(e.acks)
  /\ \A i \in Len(e.acks) - e.run + 1 .. Len(e.acks) : ~e.acks[i]
  /\ e.fail = None => \A i \in 1 .. Len(e.acks) : e.acks[i]

TableOK(t) ==
  /\ DOMAIN t \subseteq Addresses /\ IsFiniteSet(DOMAIN t) /\ Cardinality(DOMAIN t) <= CAPACITY
  /\ t \in [DOMAIN t -> Entries]
  /\ \A a \in DOMAIN t : WindowsOK(t[a])

\* The time left before the next scan is within the limit and the ends of the table t.
InTime(t, time) ==
  /\ time \in 0 .. Limit(period)
  /\ time > 0 => \A a \in DOMAIN t : \A end \in Ends(t[a], period) : time <= end

IInv == period \in Periods /\ TableOK(table) /\ InTime(table, soon)

------------------------------------------------------------------------------
(* Least elements, periods and windows. *)

\* Every nonempty set of naturals has a least element.
LEMMA LeastNatural ==
  ASSUME NEW S \in SUBSET Nat, S # {}
  PROVE  \E m \in S : \A k \in S : m <= k
<1> DEFINE R == OpToRel(<, Nat)
<1>1. IsWellFoundedOn(R, Nat)
  BY NatLessThanWellFounded
<1>2. \A x, y \in Nat : x < y <=> <<x, y>> \in R
  BY DEF OpToRel
<1> HIDE DEF R
<1>3. \E x \in S : \A y \in S : <<y, x>> \notin R
  BY <1>1, WFMin
<1>4. PICK x \in S : \A y \in S : <<y, x>> \notin R
  BY <1>3
<1>5. \A y \in S : ~(y < x) /\ y \in Nat /\ x \in Nat
  BY <1>2, <1>4
<1>6. QED
  BY <1>5

\* The least element of a set of naturals.
LEMMA LeastIs ==
  ASSUME NEW S \in SUBSET Nat, S # {}
  PROVE  Least(S) \in S /\ \A x \in S : Least(S) <= x
<1>1. \E m \in S : \A k \in S : m <= k
  BY LeastNatural
<1>2. QED
  BY <1>1 DEF Least

LEMMA LeastOfTwo ==
  ASSUME NEW a \in Nat, NEW b \in Nat
  PROVE  /\ Least({a, b}) \in {a, b} /\ Least({a, b}) \in Nat
         /\ Least({a, b}) <= a /\ Least({a, b}) <= b
BY LeastIs

\* The limits of a period, and of the longest one.
LEMMA Limits ==
  /\ LongestPeriod \in Periods
  /\ \A p \in Periods :
       /\ Limit(p) \in Nat \ {0} /\ Limit(p) <= Limit(LongestPeriod)
       /\ Silence(p) \in Nat /\ Silence(p) <= Limit(p)
<1>1. LongestPeriod \in Periods /\ \A q \in Periods : q <= LongestPeriod
  BY TableAssumption DEF LongestPeriod
<1>2. ASSUME NEW p \in Periods PROVE Limit(p) \in Nat \ {0} /\ Limit(p) <= Limit(LongestPeriod)
  <2>1. /\ p \in Nat \ {0} /\ LongestPeriod \in Nat /\ p <= LongestPeriod
        /\ EXPIRY_PERIODS \in Nat \ {0}
    BY <1>1, TableAssumption
  <2>2. EXPIRY_PERIODS * p \in Nat \ {0}
    BY <2>1
  <2>3. EXPIRY_PERIODS * LongestPeriod = EXPIRY_PERIODS * p + EXPIRY_PERIODS * (LongestPeriod - p)
    BY <2>1
  <2>4. LongestPeriod - p \in Nat /\ EXPIRY_PERIODS * (LongestPeriod - p) \in Nat
    BY <2>1
  <2> HIDE DEF LongestPeriod
  <2> QED BY <2>2, <2>3, <2>4 DEF Limit
<1>3. ASSUME NEW p \in Periods PROVE Silence(p) \in Nat /\ Silence(p) <= Limit(p)
  <2>1. /\ p \in Nat /\ EXPIRY_PERIODS \in Nat /\ SILENCE_HALVES \in Nat
        /\ SILENCE_HALVES <= 2 * EXPIRY_PERIODS
    BY TableAssumption
  <2> DEFINE k == 2 * EXPIRY_PERIODS - SILENCE_HALVES
             x == SILENCE_HALVES * p
             y == EXPIRY_PERIODS * p
  <2>2. k \in Nat /\ k * p \in Nat /\ x \in Nat /\ y \in Nat
    BY <2>1
  <2>3. 2 * y = x + k * p
    BY <2>1
  <2> HIDE DEF k, x, y
  <2>4. x <= 2 * y
    BY <2>2, <2>3
  <2>5. x \div 2 \in Nat /\ x \div 2 <= y
    BY <2>2, <2>4
  <2> QED BY <2>5 DEF Silence, Limit, x, y
<1>4. QED
  BY <1>1, <1>2, <1>3

\* The newest elements of a window.
LEMMA NewestOf ==
  ASSUME NEW s \in Seq(BOOLEAN)
  PROVE  LET n == Least({Len(s), WINDOW})
         IN  /\ Newest(s) \in Seq(BOOLEAN) /\ Len(Newest(s)) = n
             /\ n \in Nat /\ n <= Len(s) /\ n <= WINDOW /\ n \in {Len(s), WINDOW}
             /\ \A i \in 1 .. n : Newest(s)[i] = s[i + Len(s) - n]
<1> DEFINE n == Least({Len(s), WINDOW})
<1>1. Len(s) \in Nat /\ WINDOW \in Nat
  BY TableAssumption
<1>2. n \in Nat /\ n <= Len(s) /\ n <= WINDOW /\ n \in {Len(s), WINDOW}
  BY <1>1, LeastOfTwo
<1> HIDE DEF n
<1> DEFINE m == 1 + Len(s) - n
<1>3. m \in 1 .. Len(s) + 1 /\ Len(s) \in m - 1 .. Len(s)
  BY <1>1, <1>2
<1>4. /\ SubSeq(s, m, Len(s)) \in Seq(BOOLEAN)
      /\ Len(SubSeq(s, m, Len(s))) = n
      /\ \A i \in 1 .. n : SubSeq(s, m, Len(s))[i] = s[m + i - 1]
  BY <1>1, <1>2, <1>3, SubSeqProperties
<1>5. \A i \in 1 .. n : m + i - 1 = i + Len(s) - n
  BY <1>1, <1>2
<1>6. Newest(s) = SubSeq(s, m, Len(s))
  BY DEF Newest, n
<1>7. QED
  BY <1>2, <1>4, <1>5, <1>6 DEF n

\* The reception window after a frame: the frame is the newest in it.
LEMMA ReceivedType ==
  ASSUME NEW rx \in Seq(BOOLEAN), NEW gap \in 1 .. WINDOW + 1
  PROVE  /\ Received(rx, gap) \in Seq(BOOLEAN) /\ Len(Received(rx, gap)) \in 1 .. WINDOW
         /\ Received(rx, gap)[Len(Received(rx, gap))]
<1>0. WINDOW \in Nat \ {0}
  BY TableAssumption
<1>1. CASE gap > WINDOW
  <2>1. <<TRUE>> \in Seq(BOOLEAN) /\ Len(<<TRUE>>) = 1 /\ <<TRUE>>[1] = TRUE
    OBVIOUS
  <2> QED BY <1>0, <1>1, <2>1 DEF Received
<1>2. CASE ~(gap > WINDOW)
  <2> DEFINE new == [i \in 1 .. gap |-> i = gap]
             s == rx \o new
  <2>1. gap \in Nat \ {0}
    BY <1>0
  <2>2. new \in Seq(BOOLEAN) /\ Len(new) = gap /\ new[gap] = TRUE
    <3>1. new \in [1 .. gap -> BOOLEAN]
      OBVIOUS
    <3>2. new \in Seq(BOOLEAN)
      BY <2>1, <3>1, SeqDef
    <3>3. DOMAIN new = 1 .. gap /\ gap \in 1 .. gap
      BY <2>1
    <3>4. Len(new) = gap
      <4> HIDE DEF new
      <4> QED BY <2>1, <3>2, <3>3, LenProperties
    <3>5. new[gap] = TRUE
      BY <3>3
    <3> QED BY <3>2, <3>4, <3>5
  <2> HIDE DEF new
  <2>3. s \in Seq(BOOLEAN) /\ Len(s) = Len(rx) + gap /\ s[Len(rx) + gap] = TRUE /\ Len(rx) \in Nat
    <3>1. Len(rx) \in Nat /\ s \in Seq(BOOLEAN) /\ Len(s) = Len(rx) + Len(new)
      BY <2>2
    <3>2. PICK j \in 1 .. Len(rx) + Len(new) : j = Len(rx) + gap
      BY <2>1, <2>2, <3>1
    <3>3. ~(j <= Len(rx)) /\ j - Len(rx) = gap
      BY <2>1, <3>1, <3>2
    <3>4. s[j] = IF j <= Len(rx) THEN rx[j] ELSE new[j - Len(rx)]
      BY <2>2, ConcatProperties
    <3>5. s[j] = TRUE
      BY <2>2, <3>3, <3>4, Zenon
    <3> QED BY <2>2, <3>1, <3>2, <3>5
  <2> HIDE DEF s
  <2>4. PICK n \in Nat : /\ n = Least({Len(s), WINDOW}) /\ Newest(s) \in Seq(BOOLEAN)
                         /\ Len(Newest(s)) = n /\ n <= WINDOW /\ n \in {Len(s), WINDOW}
                         /\ \A i \in 1 .. n : Newest(s)[i] = s[i + Len(s) - n]
    BY <2>3, NewestOf
  <2>5. n \in 1 .. n /\ n + Len(s) - n = Len(rx) + gap
    BY <1>0, <2>1, <2>3, <2>4
  <2>6. Newest(s)[n] = TRUE
    BY <2>3, <2>4, <2>5
  <2>7. Received(rx, gap) = Newest(s)
    BY <1>2 DEF Received, s, new
  <2> QED BY <2>4, <2>5, <2>6, <2>7
<1>3. QED
  BY <1>1, <1>2

------------------------------------------------------------------------------
(* Entries. *)

\* A sample: a failure lengthens the run by one at most, and it is in the window.
LEMMA AckKeeps ==
  ASSUME NEW e \in Entries, WindowsOK(e), NEW ok \in BOOLEAN
  PROVE  /\ Ack(e, ok) \in Entries /\ WindowsOK(Ack(e, ok))
         /\ Ack(e, ok).heard = e.heard /\ Ack(e, ok).parent = e.parent
         /\ Ack(e, ok).fail = IF ok THEN e.fail ELSE 0
<1> DEFINE s == Append(e.acks, ok)
           w == Newest(s)
           r == IF ok THEN 0 ELSE Least({e.run + 1, UNREACH_RUN})
           x == Ack(e, ok)
<1>1. /\ WINDOW \in Nat \ {0} /\ UNREACH_RUN \in 1 .. WINDOW /\ None \notin Nat
      /\ e.acks \in Seq(BOOLEAN) /\ Len(e.acks) \in Nat /\ e.run \in 0 .. UNREACH_RUN
      /\ 0 \in Ages
  <2>1. Limit(LongestPeriod) \in Nat
    BY Limits
  <2> QED BY <2>1, TableAssumption DEF Entries, Ages
<1>2. /\ s \in Seq(BOOLEAN) /\ Len(s) = Len(e.acks) + 1
      /\ \A i \in 1 .. Len(e.acks) : s[i] = e.acks[i]
      /\ s[Len(e.acks) + 1] = ok
  BY <1>1
<1>3. /\ r \in 0 .. UNREACH_RUN /\ r <= e.run + 1 /\ (ok => r = 0)
  <2>1. e.run + 1 \in Nat /\ UNREACH_RUN \in Nat
    BY <1>1
  <2> QED BY <1>1, <2>1, LeastOfTwo
<1> HIDE DEF s, r
<1>4. PICK n \in Nat : /\ w \in Seq(BOOLEAN) /\ Len(w) = n /\ n <= WINDOW
                       /\ n \in {Len(s), WINDOW} /\ n <= Len(s)
                       /\ \A i \in 1 .. n : w[i] = s[i + Len(s) - n]
  BY <1>2, NewestOf
<1> HIDE DEF w
<1>5. /\ x = [e EXCEPT !.acks = w, !.latched = @ \/ Len(w) >= ACK_MIN, !.run = r,
                       !.answered = IF ok THEN 0 ELSE @, !.fail = IF ok THEN @ ELSE 0]
  BY DEF Ack, w, s, r
<1>6. /\ x \in Entries /\ x.acks = w /\ x.run = r /\ x.rx = e.rx /\ x.heard = e.heard
      /\ x.parent = e.parent /\ x.fail = IF ok THEN e.fail ELSE 0
  <2> DEFINE latched == e.latched \/ Len(w) >= ACK_MIN
             answered == IF ok THEN 0 ELSE e.answered
             fail == IF ok THEN e.fail ELSE 0
  <2>1. latched \in BOOLEAN /\ answered \in Ages /\ fail \in Ages \cup {None}
    BY <1>1 DEF Entries
  <2>2. x = [heard |-> e.heard, answered |-> answered, fail |-> fail, run |-> r,
             latched |-> latched, parent |-> e.parent, rx |-> e.rx, acks |-> w,
             margin |-> e.margin]
    <3>1. x = [e EXCEPT !.acks = w, !.latched = latched, !.run = r, !.answered = answered,
                        !.fail = fail]
      BY <1>1, <1>5 DEF Entries
    <3> HIDE DEF latched, answered, fail
    <3> QED BY <3>1 DEF Entries
  <2>3. x.fail = fail
    <3> HIDE DEF latched, answered, fail
    <3> QED BY <2>2
  <2>4. /\ x \in Entries /\ x.acks = w /\ x.run = r /\ x.rx = e.rx /\ x.heard = e.heard
        /\ x.parent = e.parent
    <3> HIDE DEF latched, answered, fail
    <3> QED BY <1>1, <1>3, <1>4, <2>1, <2>2 DEF Entries
  <2> QED BY <2>3, <2>4
<1> HIDE DEF x
<1>7. r <= n
  BY <1>1, <1>2, <1>3, <1>4 DEF WindowsOK
<1>8. ASSUME NEW i \in n - r + 1 .. n PROVE ~w[i]
  <2>1. i \in 1 .. n /\ ~ok
    BY <1>3, <1>4, <1>7, <1>8
  <2>2. PICK j \in 1 .. Len(s) : j = i + Len(s) - n /\ w[i] = s[j]
    <3>1. i + Len(s) - n \in 1 .. Len(s)
      BY <1>1, <1>2, <1>4, <2>1
    <3> QED BY <1>4, <2>1, <3>1
  <2>3. CASE j = Len(e.acks) + 1
    BY <1>2, <2>1, <2>2, <2>3
  <2>4. CASE j # Len(e.acks) + 1
    <3>0. e.run \in Nat /\ r \in Nat /\ r <= e.run + 1 /\ Len(e.acks) \in Nat /\ n \in Nat
      BY <1>1, <1>3, <1>4
    <3>4. Len(s) = Len(e.acks) + 1
      BY <1>2
    <3>1. j \in 1 .. Len(e.acks)
      BY <2>4, <3>0, <3>4
    <3>2. i >= n - r + 1 /\ j = i + Len(e.acks) + 1 - n /\ i \in Int
      BY <1>1, <1>2, <1>3, <1>4, <1>8, <2>1, <2>2
    <3>3. j \in Len(e.acks) - e.run + 1 .. Len(e.acks)
      BY <3>0, <3>1, <3>2
    <3> QED BY <1>2, <2>2, <3>1, <3>3 DEF WindowsOK
  <2> QED BY <2>3, <2>4
<1>9. ASSUME x.fail = None, NEW i \in 1 .. n PROVE w[i]
  <2>1. ok /\ e.fail = None
    BY <1>1, <1>6, <1>9
  <2>2. PICK j \in 1 .. Len(s) : j = i + Len(s) - n /\ w[i] = s[j]
    <3>1. i + Len(s) - n \in 1 .. Len(s)
      BY <1>1, <1>2, <1>4
    <3> QED BY <1>4, <3>1
  <2>3. CASE j = Len(e.acks) + 1
    BY <1>2, <2>1, <2>2, <2>3
  <2>4. CASE j # Len(e.acks) + 1
    <3>1. j \in 1 .. Len(e.acks)
      BY <1>1, <1>2, <2>2, <2>4
    <3> QED BY <1>2, <2>1, <2>2, <3>1 DEF WindowsOK
  <2> QED BY <2>3, <2>4
<1>10. WindowsOK(x)
  BY <1>4, <1>6, <1>7, <1>8, <1>9 DEF WindowsOK
<1>11. QED
  BY <1>6, <1>10 DEF x

\* The number of successes in a window.
LEMMA TruesWithin ==
  ASSUME NEW s \in Seq(BOOLEAN)
  PROVE  Trues(s) \in Nat /\ Trues(s) <= Len(s)
<1>1. Len(s) \in Nat /\ DOMAIN s = 1 .. Len(s)
  OBVIOUS
<1>2. IsFiniteSet(1 .. Len(s)) /\ Cardinality(1 .. Len(s)) = Len(s)
  <2>1. 1 \in Int /\ Len(s) \in Int
    BY <1>1
  <2> QED BY <1>1, <2>1, FS_Interval
<1>3. {i \in DOMAIN s : s[i]} \in SUBSET (1 .. Len(s))
  BY <1>1
<1>4. QED
  BY <1>2, <1>3, FS_Subset, FS_CardinalityType DEF Trues

\* Ageing: only successes are left.
LEMMA AgeKeeps ==
  ASSUME NEW e \in Entries, WindowsOK(e)
  PROVE  /\ Age(e) \in Entries /\ WindowsOK(Age(e))
         /\ Age(e).heard = e.heard /\ Age(e).parent = e.parent /\ Age(e).fail = None
<1> DEFINE n == Trues(e.acks)
           w == [i \in 1 .. n |-> TRUE]
           x == Age(e)
<1>1. n \in Nat /\ n <= Len(e.acks) /\ Len(e.acks) \in Nat /\ 0 \in 0 .. UNREACH_RUN
  <2>1. e.acks \in Seq(BOOLEAN)
    BY DEF Entries
  <2> QED BY <2>1, TruesWithin, TableAssumption
<1> HIDE DEF n
<1>2. w \in Seq(BOOLEAN) /\ Len(w) = n /\ \A i \in 1 .. n : w[i] = TRUE
  <2>1. w \in [1 .. n -> BOOLEAN] /\ DOMAIN w = 1 .. n
    OBVIOUS
  <2>2. w \in Seq(BOOLEAN)
    BY <1>1, <2>1, SeqDef
  <2>3. Len(w) = n
    <3> HIDE DEF w
    <3> QED BY <1>1, <2>1, <2>2, LenProperties
  <2> QED BY <2>2, <2>3
<1>3. x = [e EXCEPT !.acks = w, !.fail = None, !.run = 0]
  BY DEF Age, n
<1> HIDE DEF w
<1>4. /\ x \in Entries /\ x.acks = w /\ x.run = 0 /\ x.rx = e.rx /\ x.heard = e.heard
      /\ x.parent = e.parent /\ x.fail = None
  BY <1>1, <1>2, <1>3 DEF Entries
<1> HIDE DEF x
<1>5. WINDOW \in Nat /\ n <= WINDOW /\ n - 0 + 1 .. n = {}
  BY <1>1, TableAssumption DEF WindowsOK
<1>6. WindowsOK(x)
  BY <1>1, <1>2, <1>4, <1>5 DEF WindowsOK
<1>7. QED
  BY <1>4, <1>6 DEF x

\* A change of an entry that leaves its windows alone, and its run or the end of it.
LEMMA SameWindows ==
  ASSUME NEW e \in Entries, WindowsOK(e), NEW x \in Entries,
         x.rx = e.rx, x.acks = e.acks, x.run \in {0, e.run}, (x.fail = None) <=> (e.fail = None)
  PROVE  WindowsOK(x)
<1>1. Len(e.acks) \in Nat /\ e.acks \in Seq(BOOLEAN)
  BY DEF Entries
<1>2. x.run <= Len(e.acks) /\ \A i \in Len(e.acks) - x.run + 1 .. Len(e.acks) : ~e.acks[i]
  BY <1>1 DEF WindowsOK
<1>3. QED
  BY <1>2 DEF WindowsOK

------------------------------------------------------------------------------
(* The scan for entries that end. *)

\* What a scan leaves of the table: the entries heard within the limit, with the same
\* parents, each ending later.
KeptOf(t) ==
  /\ TableOK(t) /\ DOMAIN t \subseteq DOMAIN table
  /\ \A a \in DOMAIN t : t[a].parent = table[a].parent
  /\ \A a \in DOMAIN table : a \notin DOMAIN t => table[a].heard >= Limit(period)

\* The entries kept by a scan, and what is left until each ends.
LEMMA KeptSound ==
  ASSUME TableOK(table), period \in Periods
  PROVE  /\ KeptOf(Kept(table))
         /\ \A a \in DOMAIN Kept(table) : Ends(Kept(table)[a], period) \subseteq Nat
<1> DEFINE t == Kept(table)
           S == {a \in DOMAIN table : table[a].heard < Limit(period)}
<1>1. /\ DOMAIN t = S
      /\ \A a \in S : t[a] = IF table[a].fail # None /\ table[a].fail >= Silence(period)
                             THEN Age(table[a]) ELSE table[a]
  BY DEF Kept
<1>2. Limit(period) \in Nat /\ Silence(period) \in Nat /\ None \notin Nat /\ Ages \subseteq Nat
  BY Limits, TableAssumption DEF Ages
<1> HIDE DEF t
<1>3. ASSUME NEW a \in S
      PROVE  /\ t[a] \in Entries /\ WindowsOK(t[a]) /\ t[a].parent = table[a].parent
             /\ Ends(t[a], period) \subseteq Nat
  <2>1. table[a] \in Entries /\ WindowsOK(table[a])
    BY DEF TableOK
  <2>2. table[a].heard \in Nat /\ table[a].fail \in Nat \cup {None} /\ table[a].heard < Limit(period)
    BY <1>2, <2>1 DEF Entries
  <2>3. CASE table[a].fail # None /\ table[a].fail >= Silence(period)
    <3>1. t[a] = Age(table[a])
      BY <1>1, <2>3
    <3>2. /\ t[a] \in Entries /\ WindowsOK(t[a]) /\ t[a].heard = table[a].heard
          /\ t[a].parent = table[a].parent /\ t[a].fail = None
      BY <2>1, <3>1, AgeKeeps
    <3>3. Ends(t[a], period) = {Limit(period) - table[a].heard}
      BY <3>2 DEF Ends
    <3> QED BY <1>2, <2>2, <3>2, <3>3
  <2>4. CASE ~(table[a].fail # None /\ table[a].fail >= Silence(period))
    <3>1. t[a] = table[a]
      BY <1>1, <2>4
    <3>2. Ends(t[a], period) \subseteq Nat
      BY <1>2, <2>2, <2>4, <3>1 DEF Ends
    <3> QED BY <2>1, <3>1, <3>2
  <2> QED BY <2>3, <2>4
<1>4. /\ IsFiniteSet(S) /\ Cardinality(S) <= CAPACITY /\ S \subseteq Addresses
  <2>1. S \in SUBSET DOMAIN table /\ IsFiniteSet(DOMAIN table)
    BY DEF TableOK
  <2>2. /\ IsFiniteSet(S) /\ Cardinality(S) <= Cardinality(DOMAIN table)
        /\ Cardinality(S) \in Nat /\ Cardinality(DOMAIN table) \in Nat
    BY <2>1, FS_Subset, FS_CardinalityType
  <2> QED BY <2>1, <2>2, TableAssumption DEF TableOK
<1>5. t \in [S -> Entries]
  <2>1. t = [a \in S |-> t[a]]
    BY <1>1 DEF t, Kept
  <2> QED BY <1>3, <2>1
<1>6. TableOK(t)
  BY <1>1, <1>3, <1>4, <1>5 DEF TableOK
<1>7. \A a \in DOMAIN table : a \notin S => table[a].heard >= Limit(period)
  <2>1. \A a \in DOMAIN table : table[a].heard \in Nat
    BY <1>2 DEF TableOK, Entries
  <2> QED BY <1>2, <2>1
<1>8. QED
  BY <1>1, <1>3, <1>6, <1>7 DEF KeptOf, t

\* A scan, or the cached time of the next one: no entry ends before it.
LEMMA ScanSound ==
  ASSUME IInv
  PROVE  KeptOf(Scanned(table)) /\ InTime(Scanned(table), NextScan(table))
<1>1. TableOK(table) /\ period \in Periods /\ InTime(table, soon)
  BY DEF IInv
<1>2. CASE soon > 0
  <2>1. Scanned(table) = table /\ NextScan(table) = soon
    BY <1>2 DEF Scanned, NextScan
  <2> QED BY <1>1, <2>1 DEF KeptOf
<1>3. CASE ~(soon > 0)
  <2> DEFINE t == Kept(table)
             S == {Limit(period)} \cup UNION {Ends(t[a], period) : a \in DOMAIN t}
  <2>1. Scanned(table) = t /\ NextScan(table) = Least(S)
    BY <1>3 DEF Scanned, NextScan
  <2>2. KeptOf(t) /\ \A a \in DOMAIN t : Ends(t[a], period) \subseteq Nat
    BY <1>1, KeptSound
  <2>3. Limit(period) \in Nat
    BY <1>1, Limits
  <2> HIDE DEF t
  <2>4. S \in SUBSET Nat /\ S # {} /\ Limit(period) \in S
    BY <2>2, <2>3
  <2>5. ASSUME NEW a \in DOMAIN t, NEW end \in Ends(t[a], period) PROVE end \in S
    OBVIOUS
  <2> HIDE DEF S
  <2>6. Least(S) \in S /\ \A x \in S : Least(S) <= x
    BY <2>4, LeastIs
  <2>7. InTime(t, Least(S))
    <3>1. PICK m \in Nat : m = Least(S) /\ \A x \in S : m <= x
      BY <2>4, <2>6
    <3>2. m \in 0 .. Limit(period)
      BY <2>3, <2>4, <3>1
    <3>3. \A a \in DOMAIN t : \A end \in Ends(t[a], period) : m <= end
      BY <2>5, <3>1
    <3> QED BY <3>1, <3>2, <3>3 DEF InTime
  <2> QED BY <2>1, <2>2, <2>7
<1>4. QED
  BY <1>2, <1>3

------------------------------------------------------------------------------
(* Changes of the table. *)

\* A function whose values are sound entries is a sound table.
LEMMA TableFrom ==
  ASSUME NEW g, NEW S, g = [b \in S |-> g[b]], S \subseteq Addresses, IsFiniteSet(S),
         Cardinality(S) <= CAPACITY, \A b \in S : g[b] \in Entries /\ WindowsOK(g[b])
  PROVE  TableOK(g)
<1>1. g \in [S -> Entries] /\ DOMAIN g = S
  OBVIOUS
<1>2. QED
  BY <1>1 DEF TableOK

\* An entry put in a table: the others do not change.
LEMMA PutSound ==
  ASSUME NEW t, TableOK(t), NEW time, InTime(t, time), NEW a \in Addresses, NEW x \in Entries,
         WindowsOK(x), NEW g, g = [b \in DOMAIN t \cup {a} |-> IF b = a THEN x ELSE t[b]],
         a \in DOMAIN t \/ Cardinality(DOMAIN t) < CAPACITY,
         time > 0 => \A end \in Ends(x, period) : time <= end
  PROVE  TableOK(g) /\ InTime(g, time)
<1> DEFINE S == DOMAIN t \cup {a}
<1>1. IsFiniteSet(S) /\ Cardinality(S) <= CAPACITY /\ S \subseteq Addresses
  <2>1. /\ IsFiniteSet(DOMAIN t) /\ Cardinality(DOMAIN t) \in Nat /\ CAPACITY \in Nat
        /\ Cardinality(DOMAIN t) <= CAPACITY /\ DOMAIN t \subseteq Addresses
    BY FS_CardinalityType, TableAssumption DEF TableOK
  <2>2. CASE a \in DOMAIN t
    <3>1. S = DOMAIN t
      BY <2>2
    <3> QED BY <2>1, <3>1
  <2>3. CASE a \notin DOMAIN t
    <3>1. IsFiniteSet(S) /\ Cardinality(S) = Cardinality(DOMAIN t) + 1
      BY <2>1, <2>3, FS_AddElement
    <3> QED BY <2>1, <2>3, <3>1
  <2> QED BY <2>2, <2>3
<1>2. /\ g = [b \in S |-> g[b]] /\ DOMAIN g = S
      /\ \A b \in S : g[b] = IF b = a THEN x ELSE t[b]
  OBVIOUS
<1>3. \A b \in DOMAIN t : t[b] \in Entries /\ WindowsOK(t[b])
  BY DEF TableOK
<1> HIDE DEF S
<1>4. \A b \in S : b = a \/ b \in DOMAIN t
  BY DEF S
<1>5. TableOK(g)
  <2>1. \A b \in S : g[b] \in Entries /\ WindowsOK(g[b])
    BY <1>2, <1>3, <1>4
  <2> QED BY <1>1, <1>2, <2>1, TableFrom
<1>6. InTime(g, time)
  BY <1>2, <1>4 DEF InTime
<1>7. QED
  BY <1>5, <1>6

\* Room for an entry is made by one that is no parent.
LEMMA PlacesSound ==
  ASSUME NEW t, TableOK(t), NEW time, InTime(t, time), NEW u \in Places(t)
  PROVE  /\ TableOK(u) /\ InTime(u, time) /\ Cardinality(DOMAIN u) < CAPACITY
         /\ DOMAIN u \subseteq DOMAIN t
         /\ \A b \in DOMAIN t : b \notin DOMAIN u => ~t[b].parent
<1>1. /\ IsFiniteSet(DOMAIN t) /\ Cardinality(DOMAIN t) \in Nat /\ CAPACITY \in Nat
      /\ Cardinality(DOMAIN t) <= CAPACITY /\ DOMAIN t \subseteq Addresses
      /\ \A b \in DOMAIN t : t[b] \in Entries /\ WindowsOK(t[b])
  BY FS_CardinalityType, TableAssumption DEF TableOK
<1>2. CASE Cardinality(DOMAIN t) < CAPACITY
  BY <1>2 DEF Places
<1>3. CASE ~(Cardinality(DOMAIN t) < CAPACITY)
  <2>1. PICK v \in Victims(t) : u = Only(t, DOMAIN t \ {v})
    BY <1>3 DEF Places
  <2>2. v \in DOMAIN t /\ ~t[v].parent
    BY <2>1 DEF Victims
  <2> DEFINE S == DOMAIN t \ {v}
  <2>3. IsFiniteSet(S) /\ Cardinality(S) = Cardinality(DOMAIN t) - 1
    BY <1>1, <2>2, FS_RemoveElement
  <2>4. u = [b \in S |-> u[b]] /\ DOMAIN u = S /\ \A b \in S : u[b] = t[b]
    BY <2>1 DEF Only
  <2>5. S \subseteq DOMAIN t
    OBVIOUS
  <2>6. \A b \in DOMAIN t : b \notin S => ~t[b].parent
    BY <2>2
  <2> HIDE DEF S
  <2>7. TableOK(u)
    <3>1. \A b \in S : u[b] \in Entries /\ WindowsOK(u[b])
      BY <1>1, <2>4, <2>5
    <3>2. S \subseteq Addresses /\ Cardinality(S) <= CAPACITY
      BY <1>1, <2>3, <2>5
    <3> QED BY <2>3, <2>4, <3>1, <3>2, TableFrom
  <2>8. InTime(u, time)
    BY <2>4, <2>5 DEF InTime
  <2>9. Cardinality(S) < CAPACITY
    BY <1>1, <2>3
  <2> QED BY <2>4, <2>5, <2>6, <2>7, <2>8, <2>9
<1>4. QED
  BY <1>2, <1>3

------------------------------------------------------------------------------
(* The steps. *)

\* No parent leaves the table unless it is silent for the whole limit.
ParentsStep ==
  \A a \in DOMAIN table : table[a].parent /\ a \notin DOMAIN table' =>
    table[a].heard >= Limit(period)

Sound == IInv' /\ ParentsStep

\* A step within the period.
LEMMA WithinPeriod ==
  ASSUME IInv, UNCHANGED period, TableOK(table'), InTime(table', soon')
  PROVE  IInv'
<1>1. InTime(table, soon)'
  BY DEF InTime, Ends, Limit, Silence
<1>2. TableOK(table)'
  BY DEF TableOK, WindowsOK, Entries, Ages, Limit, LongestPeriod
<1>3. QED
  BY <1>1, <1>2 DEF IInv

\* The scan on its own.
LEMMA ExpireKeeps ==
  ASSUME IInv, Expire
  PROVE  Sound
<1>1. table' = Scanned(table) /\ soon' = NextScan(table) /\ UNCHANGED period
  BY DEF Expire
<1>2. KeptOf(Scanned(table)) /\ InTime(Scanned(table), NextScan(table))
  BY ScanSound
<1>3. TableOK(table') /\ InTime(table', soon')
  BY <1>1, <1>2 DEF KeptOf
<1>4. IInv'
  BY <1>1, <1>3, WithinPeriod
<1>5. ParentsStep
  BY <1>1, <1>2 DEF ParentsStep, KeptOf
<1>6. QED
  BY <1>4, <1>5 DEF Sound

\* The margin of an entry after a frame.
Measure(e, average) == [e EXCEPT !.margin = IF average = "none" THEN @ ELSE Margin(@, average)]

\* The margin changes nothing else.
LEMMA Measuring ==
  ASSUME NEW e \in Entries, NEW average, WindowsOK(e)
  PROVE  LET x == Measure(e, average)
         IN  x \in Entries /\ WindowsOK(x) /\ x.heard = e.heard /\ x.fail = e.fail
<1> DEFINE m == IF average = "none" THEN e.margin ELSE Margin(e.margin, average)
           x == Measure(e, average)
<1>1. m \in {"none", "good", "bad"}
  BY DEF Entries, Margin
<1> HIDE DEF m
<1>2. x = [e EXCEPT !.margin = m]
  BY DEF Measure, m
<1>3. /\ x \in Entries /\ x.heard = e.heard /\ x.fail = e.fail /\ x.rx = e.rx
      /\ x.acks = e.acks /\ x.run = e.run
  BY <1>1, <1>2 DEF Entries
<1> HIDE DEF x
<1>4. WindowsOK(x)
  BY <1>3, SameWindows
<1>5. QED
  BY <1>3, <1>4 DEF x

\* A new entry.
LEMMA NewKeeps == New \in Entries /\ WindowsOK(New) /\ New.heard = 0 /\ New.fail = None
<1>1. 0 \in Ages /\ 0 \in 0 .. UNREACH_RUN /\ 1 \in 1 .. WINDOW
  BY Limits, TableAssumption DEF Ages
<1>2. /\ <<TRUE>> \in Seq(BOOLEAN) /\ Len(<<TRUE>>) = 1 /\ <<TRUE>>[1] = TRUE
      /\ <<>> \in Seq(BOOLEAN) /\ Len(<<>>) = 0 /\ 0 <= WINDOW /\ 1 .. 0 = {} /\ 0 - 0 + 1 .. 0 = {}
  BY <1>1, TableAssumption
<1>3. New \in Entries
  BY <1>1, <1>2 DEF New, Entries
<1>4. New.rx = <<TRUE>> /\ New.acks = <<>> /\ New.run = 0 /\ New.heard = 0 /\ New.fail = None
  BY DEF New
<1>5. WindowsOK(New)
  BY <1>1, <1>2, <1>4 DEF WindowsOK
<1>6. QED
  BY <1>3, <1>4, <1>5

\* An entry heard again.
LEMMA HeardAgain ==
  ASSUME NEW e \in Entries, WindowsOK(e), NEW gap \in 1 .. WINDOW + 1
  PROVE  LET x == Again(e, gap)
         IN  x \in Entries /\ WindowsOK(x) /\ x.heard = 0 /\ x.fail = e.fail
<1> DEFINE r == Received(e.rx, gap)
           x == Again(e, gap)
<1>1. e.rx \in Seq(BOOLEAN) /\ 0 \in Ages
  BY Limits DEF Entries, Ages
<1>2. r \in Seq(BOOLEAN) /\ Len(r) \in 1 .. WINDOW /\ r[Len(r)]
  BY <1>1, ReceivedType
<1> HIDE DEF r
<1>6. x = [e EXCEPT !.heard = 0, !.rx = r]
  BY DEF Again, r
<1>3. /\ x \in Entries /\ x.heard = 0 /\ x.fail = e.fail /\ x.rx = r
      /\ x.acks = e.acks /\ x.run = e.run
  BY <1>1, <1>2, <1>6 DEF Entries
<1> HIDE DEF x
<1>4. WindowsOK(x)
  BY <1>2, <1>3 DEF WindowsOK
<1>5. QED
  BY <1>3, <1>4 DEF x

\* A frame of a neighbour: its entry ends later, or a new one takes a place.
LEMMA HeardKeeps ==
  ASSUME IInv, NEW a \in Addresses, NEW gap \in 0 .. WINDOW + 1, NEW average,
         Heard(a, gap, average)
  PROVE  Sound
<1> DEFINE t == Scanned(table)
           time == NextScan(table)
<1>1. /\ KeptOf(t) /\ InTime(t, time) /\ TableOK(t)
      /\ soon' = time /\ UNCHANGED period /\ Limit(period) \in Nat
  BY ScanSound, Limits DEF Heard, KeptOf, IInv
<1>2. \/ a \in DOMAIN t /\ gap = 0 /\ table' = t
      \/ /\ a \in DOMAIN t /\ gap # 0
         /\ table' = [t EXCEPT ![a] = Measure(Again(t[a], gap), average)]
      \/ a \notin DOMAIN t /\ table' = t
      \/ /\ a \notin DOMAIN t
         /\ \E u \in Places(t) :
              table' = [b \in DOMAIN u \cup {a} |-> IF b = a THEN Measure(New, average) ELSE u[b]]
  BY DEF Heard, Measure
<1> HIDE DEF t, time
<1>3. time \in 0 .. Limit(period)
  BY <1>1 DEF InTime
<1>4. CASE table' = t
  <2>1. IInv'
    BY <1>1, <1>4, WithinPeriod
  <2> QED BY <1>1, <1>4, <2>1 DEF Sound, ParentsStep, KeptOf
<1>5. CASE /\ a \in DOMAIN t /\ gap # 0
           /\ table' = [t EXCEPT ![a] = Measure(Again(t[a], gap), average)]
  <2> DEFINE y == Again(t[a], gap)
             x == Measure(y, average)
  <2>1. t[a] \in Entries /\ WindowsOK(t[a]) /\ gap \in 1 .. WINDOW + 1
    BY <1>1, <1>5, TableAssumption DEF TableOK
  <2>2. y \in Entries /\ WindowsOK(y) /\ y.heard = 0 /\ y.fail = t[a].fail
    BY <2>1, HeardAgain
  <2>3. table' = [t EXCEPT ![a] = x]
    BY <1>5
  <2> HIDE DEF y
  <2>4. x \in Entries /\ WindowsOK(x) /\ x.heard = 0 /\ x.fail = t[a].fail
    BY <2>2, Measuring
  <2> HIDE DEF x
  <2>5. time > 0 => \A end \in Ends(x, period) : time <= end
    <3>1. \A end \in Ends(x, period) : end = Limit(period) \/ end \in Ends(t[a], period)
      BY <1>1, <2>4 DEF Ends
    <3> QED BY <1>1, <1>3, <1>5, <3>1 DEF InTime
  <2>6. table' = [b \in DOMAIN t \cup {a} |-> IF b = a THEN x ELSE t[b]]
    <3>1. DOMAIN t \cup {a} = DOMAIN t /\ t = [b \in DOMAIN t |-> t[b]]
      BY <1>1, <1>5 DEF TableOK
    <3> QED BY <2>3, <3>1
  <2>7. TableOK(table') /\ InTime(table', time)
    <3>1. a \in DOMAIN t
      BY <1>5
    <3> QED BY <1>1, <2>4, <2>5, <2>6, <3>1, PutSound
  <2>8. IInv'
    BY <1>1, <2>7, WithinPeriod
  <2>9. DOMAIN table' = DOMAIN t
    BY <2>3
  <2> QED BY <1>1, <2>8, <2>9 DEF Sound, ParentsStep, KeptOf
<1>6. CASE /\ a \notin DOMAIN t
           /\ \E u \in Places(t) :
                table' = [b \in DOMAIN u \cup {a} |-> IF b = a THEN Measure(New, average) ELSE u[b]]
  <2> DEFINE x == Measure(New, average)
  <2>1. PICK u \in Places(t) : table' = [b \in DOMAIN u \cup {a} |-> IF b = a THEN x ELSE u[b]]
    BY <1>6
  <2>2. x \in Entries /\ WindowsOK(x) /\ x.heard = 0 /\ x.fail = None
    BY NewKeeps, Measuring
  <2> HIDE DEF x
  <2>3. /\ TableOK(u) /\ InTime(u, time) /\ Cardinality(DOMAIN u) < CAPACITY
        /\ DOMAIN u \subseteq DOMAIN t
        /\ \A b \in DOMAIN t : b \notin DOMAIN u => ~t[b].parent
    BY <1>1, PlacesSound
  <2>4. time > 0 => \A end \in Ends(x, period) : time <= end
    <3>1. Ends(x, period) = {Limit(period)}
      BY <1>1, <2>2 DEF Ends
    <3> QED BY <1>1, <1>3, <3>1
  <2>5. TableOK(table') /\ InTime(table', time)
    BY <2>1, <2>2, <2>3, <2>4, PutSound
  <2>6. IInv'
    BY <1>1, <2>5, WithinPeriod
  <2>7. DOMAIN table' = DOMAIN u \cup {a}
    BY <2>1
  <2> QED BY <1>1, <2>3, <2>6, <2>7 DEF Sound, ParentsStep, KeptOf
<1>7. QED
  BY <1>2, <1>4, <1>5, <1>6

\* A sample: a failure's ageing may come before the time of the scan, which follows it.
LEMMA AckedKeeps ==
  ASSUME IInv, NEW a \in Addresses, NEW ok \in BOOLEAN, Acked(a, ok)
  PROVE  Sound
<1> DEFINE x == Ack(table[a], ok)
<1>1. /\ a \in DOMAIN table /\ table' = [table EXCEPT ![a] = x] /\ UNCHANGED period
      /\ soon' = IF ok THEN soon ELSE Least({soon, Silence(period)})
  BY DEF Acked
<1>2. TableOK(table) /\ InTime(table, soon) /\ table[a] \in Entries /\ WindowsOK(table[a])
  BY <1>1 DEF IInv, TableOK
<1>3. /\ Limit(period) \in Nat /\ Silence(period) \in Nat /\ None \notin Nat
      /\ soon \in 0 .. Limit(period)
  BY <1>2, Limits, TableAssumption DEF IInv, InTime
<1>4. /\ x \in Entries /\ WindowsOK(x) /\ x.heard = table[a].heard
      /\ x.fail = IF ok THEN table[a].fail ELSE 0
  BY <1>2, AckKeeps
<1> HIDE DEF x
<1>5. /\ soon' \in 0 .. Limit(period) /\ soon' <= soon /\ (~ok => soon' <= Silence(period))
  <2>1. soon \in Nat
    BY <1>3
  <2> QED BY <1>1, <1>3, <2>1, LeastOfTwo
<1>6. InTime(table, soon')
  <2>1. ASSUME soon' > 0, NEW b \in DOMAIN table, NEW end \in Ends(table[b], period)
        PROVE  soon' <= end
    <3>1. soon > 0 /\ end \in Int
      <4>1. table[b].heard \in Nat /\ table[b].fail \in Nat \cup {None}
        BY <1>2, Limits DEF TableOK, Entries, Ages
      <4> QED BY <1>3, <1>5, <2>1, <4>1 DEF Ends
    <3>2. soon <= end
      BY <1>2, <2>1, <3>1 DEF InTime
    <3> QED BY <1>3, <1>5, <3>1, <3>2
  <2> QED BY <1>5, <2>1 DEF InTime
<1>7. soon' > 0 => \A end \in Ends(x, period) : soon' <= end
  <2>1. \A end \in Ends(x, period) : end \in Ends(table[a], period) \/ (~ok /\ end = Silence(period))
    BY <1>3, <1>4 DEF Ends
  <2> QED BY <1>1, <1>5, <1>6, <2>1 DEF InTime
<1>8. table' = [b \in DOMAIN table \cup {a} |-> IF b = a THEN x ELSE table[b]]
  <2>1. DOMAIN table \cup {a} = DOMAIN table /\ table = [b \in DOMAIN table |-> table[b]]
    BY <1>1, <1>2 DEF TableOK
  <2> QED BY <1>1, <2>1
<1>9. TableOK(table') /\ InTime(table', soon')
  <2>1. ASSUME NEW time, time = soon' PROVE TableOK(table') /\ InTime(table', time)
    <3>1. a \in DOMAIN table /\ TableOK(table) /\ InTime(table, time)
      BY <1>1, <1>2, <1>6, <2>1
    <3>2. time > 0 => \A end \in Ends(x, period) : time <= end
      BY <1>7, <2>1
    <3> QED BY <1>4, <1>8, <3>1, <3>2, PutSound
  <2> QED BY <2>1
<1>10. IInv'
  BY <1>1, <1>9, WithinPeriod
<1>11. QED
  BY <1>1, <1>10 DEF Sound, ParentsStep

\* A change of every entry that leaves its ends alone, and its windows or ends its run.
LEMMA EveryEntry ==
  ASSUME NEW t, TableOK(t), NEW time, InTime(t, time), NEW g, g = [a \in DOMAIN t |-> g[a]],
         \A a \in DOMAIN t :
           /\ g[a] \in Entries /\ g[a].heard = t[a].heard /\ g[a].fail = t[a].fail
           /\ g[a].rx = t[a].rx /\ g[a].acks = t[a].acks /\ g[a].run \in {0, t[a].run}
  PROVE  TableOK(g) /\ InTime(g, time)
<1>1. /\ DOMAIN t \subseteq Addresses /\ IsFiniteSet(DOMAIN t) /\ Cardinality(DOMAIN t) <= CAPACITY
      /\ \A a \in DOMAIN t : t[a] \in Entries /\ WindowsOK(t[a])
  BY DEF TableOK
<1>2. \A a \in DOMAIN t : WindowsOK(g[a])
  BY <1>1, SameWindows
<1>3. TableOK(g)
  BY <1>1, <1>2, TableFrom
<1>4. DOMAIN g = DOMAIN t /\ \A a \in DOMAIN t : Ends(g[a], period) = Ends(t[a], period)
  BY DEF Ends
<1>5. InTime(g, time)
  BY <1>4 DEF InTime
<1>6. QED
  BY <1>3, <1>5

\* An acknowledgement without a sample.
LEMMA AnsweredKeeps ==
  ASSUME IInv, NEW a \in Addresses, Answered(a)
  PROVE  Sound
<1>1. /\ a \in DOMAIN table /\ UNCHANGED <<period, soon>>
      /\ table' = [table EXCEPT ![a].run = 0, ![a].answered = 0]
  BY DEF Answered
<1>2. /\ TableOK(table) /\ InTime(table, soon) /\ 0 \in Ages /\ 0 \in 0 .. UNREACH_RUN
      /\ \A b \in DOMAIN table : table[b] \in Entries
      /\ table = [b \in DOMAIN table |-> table[b]]
  BY Limits, TableAssumption DEF IInv, TableOK, Ages
<1> DEFINE x == [table[a] EXCEPT !.run = 0, !.answered = 0]
<1>3. /\ x \in Entries /\ x.heard = table[a].heard /\ x.fail = table[a].fail
      /\ x.rx = table[a].rx /\ x.acks = table[a].acks /\ x.run = 0
  BY <1>1, <1>2 DEF Entries
<1>4. table' = [b \in DOMAIN table |-> IF b = a THEN x ELSE table[b]]
  BY <1>1, <1>2
<1> HIDE DEF x
<1>5. \A b \in DOMAIN table :
        /\ table'[b] \in Entries /\ table'[b].heard = table[b].heard
        /\ table'[b].fail = table[b].fail /\ table'[b].rx = table[b].rx
        /\ table'[b].acks = table[b].acks /\ table'[b].run \in {0, table[b].run}
  BY <1>2, <1>3, <1>4
<1>6. DOMAIN table' = DOMAIN table /\ table' = [b \in DOMAIN table |-> table'[b]]
  BY <1>4
<1>7. TableOK(table') /\ InTime(table', soon)
  BY <1>2, <1>5, <1>6, EveryEntry
<1>8. IInv'
  BY <1>1, <1>7, WithinPeriod
<1>9. QED
  BY <1>6, <1>8 DEF Sound, ParentsStep

\* Another presence period: the table is scanned at once.
LEMMA SetPeriodKeeps ==
  ASSUME IInv, NEW p \in Periods, SetPeriod(p)
  PROVE  Sound
<1>1. period' = p /\ soon' = 0 /\ table' = table
  BY DEF SetPeriod
<1>2. TableOK(table)'
  BY <1>1 DEF IInv, TableOK, WindowsOK, Entries, Ages, Limit, LongestPeriod
<1>3. InTime(table, soon)'
  <2>1. Limit(p) \in Nat
    BY Limits
  <2> QED BY <1>1, <2>1 DEF InTime, Limit
<1>4. QED
  BY <1>1, <1>2, <1>3 DEF IInv, Sound, ParentsStep

\* The selection: a scan, then flags, and the end of the run of a new parent.
LEMMA SelectKeeps ==
  ASSUME IInv, NEW members, NEW preferred, NEW changed, Select(members, preferred, changed)
  PROVE  Sound
<1> DEFINE t == Scanned(table)
           time == NextScan(table)
           restarts == preferred # ROOT /\ (changed \/ ~t[preferred].parent)
           x(a) == [t[a] EXCEPT !.parent = a \in members,
                                !.run = IF a = preferred /\ restarts THEN 0 ELSE @,
                                !.answered = IF a = preferred /\ restarts THEN 0 ELSE @]
<1>1. table' = [a \in DOMAIN t |-> x(a)] /\ soon' = time /\ UNCHANGED period
  BY DEF Select
<1>2. KeptOf(t) /\ InTime(t, time) /\ TableOK(t)
  BY ScanSound DEF KeptOf
<1>3. 0 \in Ages /\ 0 \in 0 .. UNREACH_RUN /\ \A b \in DOMAIN t : t[b] \in Entries
  BY <1>2, Limits, TableAssumption DEF TableOK, Ages
<1> HIDE DEF t, time
<1>4. ASSUME NEW a \in DOMAIN t
      PROVE  /\ x(a) \in Entries /\ x(a).heard = t[a].heard /\ x(a).fail = t[a].fail
             /\ x(a).rx = t[a].rx /\ x(a).acks = t[a].acks /\ x(a).run \in {0, t[a].run}
  <2>1. t[a] \in Entries
    BY <1>3
  <2> DEFINE r == IF a = preferred /\ restarts THEN 0 ELSE t[a].run
             w == IF a = preferred /\ restarts THEN 0 ELSE t[a].answered
             f == a \in members
  <2>2. r \in 0 .. UNREACH_RUN /\ w \in Ages /\ f \in BOOLEAN /\ r \in {0, t[a].run}
    BY <1>3, <2>1 DEF Entries
  <2>3. x(a) = [t[a] EXCEPT !.parent = f, !.run = r, !.answered = w]
    OBVIOUS
  <2> HIDE DEF r, w, f, x
  <2> QED BY <2>1, <2>2, <2>3 DEF Entries
<1> HIDE DEF x
<1>5. /\ DOMAIN table' = DOMAIN t /\ table' = [a \in DOMAIN t |-> table'[a]]
      /\ \A a \in DOMAIN t : table'[a] = x(a)
  BY <1>1
<1>6. TableOK(table') /\ InTime(table', time)
  BY <1>2, <1>4, <1>5, EveryEntry
<1>7. IInv'
  BY <1>1, <1>6, WithinPeriod
<1>8. QED
  BY <1>2, <1>5, <1>7 DEF Sound, ParentsStep, KeptOf

\* Parents no more.
LEMMA DetachKeeps ==
  ASSUME IInv, Detach
  PROVE  Sound
<1> DEFINE x(a) == [table[a] EXCEPT !.parent = FALSE]
<1>1. table' = [a \in DOMAIN table |-> x(a)] /\ UNCHANGED <<period, soon>>
  BY DEF Detach
<1>2. /\ TableOK(table) /\ InTime(table, soon)
      /\ \A b \in DOMAIN table : table[b] \in Entries
  BY DEF IInv, TableOK
<1>3. ASSUME NEW a \in DOMAIN table
      PROVE  /\ x(a) \in Entries /\ x(a).heard = table[a].heard /\ x(a).fail = table[a].fail
             /\ x(a).rx = table[a].rx /\ x(a).acks = table[a].acks /\ x(a).run \in {0, table[a].run}
  BY <1>2 DEF Entries
<1> HIDE DEF x
<1>4. /\ DOMAIN table' = DOMAIN table /\ table' = [a \in DOMAIN table |-> table'[a]]
      /\ \A a \in DOMAIN table : table'[a] = x(a)
  BY <1>1
<1>5. TableOK(table') /\ InTime(table', soon)
  BY <1>2, <1>3, <1>4, EveryEntry
<1>6. IInv'
  BY <1>1, <1>5, WithinPeriod
<1>7. QED
  BY <1>4, <1>6 DEF Sound, ParentsStep

\* Time passes for the entries and for the scan alike.
LEMMA TickKeeps ==
  ASSUME IInv, Tick
  PROVE  Sound
<1> DEFINE x(a) == [table[a] EXCEPT
                       !.heard = Older(@, Limit(LongestPeriod)),
                       !.answered = Older(@, Silence(LongestPeriod)),
                       !.fail = IF @ = None THEN None ELSE Older(@, Silence(LongestPeriod))]
<1>1. /\ table' = [a \in DOMAIN table |-> x(a)] /\ UNCHANGED period
      /\ soon' = IF soon = 0 THEN 0 ELSE soon - 1
  BY DEF Tick
<1>2. /\ TableOK(table) /\ InTime(table, soon) /\ period \in Periods
      /\ \A b \in DOMAIN table : table[b] \in Entries /\ WindowsOK(table[b])
  BY DEF IInv, TableOK
<1>3. /\ Limit(LongestPeriod) \in Nat /\ Silence(LongestPeriod) \in Nat /\ None \notin Nat
      /\ Silence(LongestPeriod) <= Limit(LongestPeriod)
      /\ Limit(period) \in Nat /\ Silence(period) \in Nat
  BY <1>2, Limits, TableAssumption
<1>4. ASSUME NEW k \in Nat, NEW limit \in Nat
      PROVE  Older(k, limit) \in 0 .. limit /\ Older(k, limit) <= k + 1
  <2>1. k + 1 \in Nat
    OBVIOUS
  <2> QED BY <2>1, LeastOfTwo DEF Older
<1>5. ASSUME NEW a \in DOMAIN table
      PROVE  /\ x(a) \in Entries /\ WindowsOK(x(a))
             /\ \A end \in Ends(x(a), period) :
                  \E e \in Ends(table[a], period) : e \in Int /\ end \in Int /\ e - 1 <= end
  <2> DEFINE h == Older(table[a].heard, Limit(LongestPeriod))
             w == Older(table[a].answered, Silence(LongestPeriod))
             f == IF table[a].fail = None THEN None
                  ELSE Older(table[a].fail, Silence(LongestPeriod))
  <2>7. x(a) = [table[a] EXCEPT !.heard = h, !.answered = w, !.fail = f]
    OBVIOUS
  <2>1. /\ table[a] \in Entries /\ WindowsOK(table[a])
        /\ table[a].heard \in Nat /\ table[a].answered \in Nat
        /\ table[a].fail = None \/ table[a].fail \in Nat
    BY <1>2, <1>3 DEF Entries, Ages
  <2>2. h \in Ages /\ h \in Nat /\ h <= table[a].heard + 1 /\ w \in Ages
    <3>1. h \in 0 .. Limit(LongestPeriod) /\ h <= table[a].heard + 1
      BY <1>3, <1>4, <2>1
    <3>2. w \in 0 .. Silence(LongestPeriod)
      BY <1>3, <1>4, <2>1
    <3> HIDE DEF h, w
    <3> QED BY <1>3, <3>1, <3>2 DEF Ages
  <2>3. /\ f \in Ages \cup {None} /\ ((f = None) <=> (table[a].fail = None))
        /\ f # None => f \in Nat /\ f <= table[a].fail + 1
    <3>1. CASE table[a].fail = None
      BY <3>1
    <3>2. CASE table[a].fail # None
      <4>1. f = Older(table[a].fail, Silence(LongestPeriod))
        BY <3>2
      <4>2. f \in 0 .. Silence(LongestPeriod) /\ f <= table[a].fail + 1
        BY <1>3, <1>4, <2>1, <3>2, <4>1
      <4> HIDE DEF f
      <4> QED BY <1>3, <3>2, <4>2 DEF Ages
    <3> QED BY <3>1, <3>2
  <2> HIDE DEF h, w, f, x
  <2>4. /\ x(a) \in Entries /\ x(a).heard = h /\ x(a).fail = f
        /\ x(a).rx = table[a].rx /\ x(a).acks = table[a].acks /\ x(a).run = table[a].run
    <3>1. table[a] \in Entries /\ h \in Ages /\ w \in Ages /\ f \in Ages \cup {None}
      BY <2>1, <2>2, <2>3
    <3> QED BY <2>7, <3>1 DEF Entries
  <2>5. WindowsOK(x(a))
    BY <2>1, <2>3, <2>4, SameWindows
  <2>6. ASSUME NEW end \in Ends(x(a), period)
        PROVE  \E e \in Ends(table[a], period) : e \in Int /\ end \in Int /\ e - 1 <= end
    <3>1. CASE end = Limit(period) - h
      <4>1. Limit(period) - table[a].heard \in Ends(table[a], period)
        BY DEF Ends
      <4> QED BY <1>3, <2>1, <2>2, <3>1, <4>1
    <3>2. CASE f # None /\ end = Silence(period) - f
      <4>1. Silence(period) - table[a].fail \in Ends(table[a], period)
        BY <2>3, <3>2 DEF Ends
      <4> QED BY <1>3, <2>1, <2>3, <3>2, <4>1
    <3> QED BY <2>4, <3>1, <3>2 DEF Ends
  <2> QED BY <2>4, <2>5, <2>6
<1> HIDE DEF x
<1>6. /\ DOMAIN table' = DOMAIN table /\ table' = [a \in DOMAIN table |-> table'[a]]
      /\ \A a \in DOMAIN table : table'[a] = x(a)
  BY <1>1
<1>7. TableOK(table')
  <2>1. /\ DOMAIN table \subseteq Addresses /\ IsFiniteSet(DOMAIN table)
        /\ Cardinality(DOMAIN table) <= CAPACITY
    BY <1>2 DEF TableOK
  <2> QED BY <1>5, <1>6, <2>1, TableFrom
<1>8. InTime(table', soon')
  <2>1. soon \in 0 .. Limit(period) /\ soon' \in 0 .. Limit(period)
    BY <1>1, <1>2, <1>3 DEF InTime
  <2>2. ASSUME soon' > 0, NEW a \in DOMAIN table', NEW end \in Ends(table'[a], period)
        PROVE  soon' <= end
    <3>1. soon > 0 /\ soon' = soon - 1 /\ soon \in Int
      BY <1>1, <1>3, <2>1, <2>2
    <3>2. PICK e \in Ends(table[a], period) : e \in Int /\ end \in Int /\ e - 1 <= end
      BY <1>5, <1>6, <2>2
    <3>3. soon <= e
      BY <1>2, <1>6, <3>1 DEF InTime
    <3> QED BY <3>1, <3>2, <3>3
  <2> QED BY <2>1, <2>2 DEF InTime
<1>9. IInv'
  BY <1>1, <1>7, <1>8, WithinPeriod
<1>10. QED
  BY <1>6, <1>9 DEF Sound, ParentsStep

------------------------------------------------------------------------------
(* The theorems. *)

LEMMA InitOK ==
  ASSUME Init
  PROVE  IInv
<1>1. DOMAIN table = {} /\ table = [a \in {} |-> table[a]] /\ soon = 0 /\ period \in Periods
  BY DEF Init
<1>2. IsFiniteSet({}) /\ Cardinality({}) = 0 /\ 0 <= CAPACITY /\ Limit(period) \in Nat
  BY <1>1, FS_EmptySet, Limits, TableAssumption
<1>3. TableOK(table)
  BY <1>1, <1>2, TableFrom
<1>4. QED
  BY <1>1, <1>2, <1>3 DEF IInv, InTime

LEMMA NextKeeps ==
  ASSUME IInv, [Next]_vars
  PROVE  Sound \/ UNCHANGED vars
<1>1. ASSUME NEW a \in Measured, NEW gap \in 0 .. WINDOW + 1,
             NEW average \in {"none", "low", "mid", "high"}, Heard(a, gap, average)
      PROVE  Sound
  BY <1>1, HeardKeeps, TableAssumption
<1>2. ASSUME NEW a \in Addresses \ Measured, Heard(a, 1, "high") PROVE Sound
  <2>1. 1 \in 0 .. WINDOW + 1
    BY TableAssumption
  <2> QED BY <1>2, <2>1, HeardKeeps
<1>3. ASSUME NEW a \in Measured, Answered(a) \/ \E ok \in BOOLEAN : Acked(a, ok) PROVE Sound
  BY <1>3, AnsweredKeeps, AckedKeeps, TableAssumption
<1>4. ASSUME NEW p \in Periods, SetPeriod(p) PROVE Sound
  BY <1>4, SetPeriodKeeps
<1>5. ASSUME NEW members \in SUBSET Addresses, NEW changed \in BOOLEAN,
             NEW preferred \in members, Select(members, preferred, changed)
      PROVE  Sound
  BY <1>5, SelectKeeps
<1>6. CASE Expire \/ Detach \/ Tick
  BY <1>6, ExpireKeeps, DetachKeeps, TickKeeps
<1>7. QED
  BY <1>1, <1>2, <1>3, <1>4, <1>5, <1>6 DEF Next

LEMMA Inductive == Spec => []IInv
<1>1. Init => IInv
  BY InitOK
<1>2. IInv /\ [Next]_vars => IInv'
  <2>1. ASSUME IInv, UNCHANGED vars PROVE IInv'
    BY <2>1 DEF vars, IInv, TableOK, InTime, WindowsOK, Entries, Ages, Ends, Limit, Silence,
                LongestPeriod
  <2> QED BY <2>1, NextKeeps DEF Sound
<1>3. QED
  BY <1>1, <1>2, PTL DEF Spec

\* The types of the table, its capacity included, and that the last frame counted in the
\* reception window was received (neighbours.py, _insert, _counter).
THEOREM TypeCorrect == Spec => []TypeOK
<1>1. IInv => TypeOK
  <2>1. SUFFICES ASSUME IInv PROVE TypeOK
    OBVIOUS
  <2>2. /\ period \in Periods /\ TableOK(table) /\ soon \in 0 .. Limit(period)
        /\ Limit(period) \in Nat /\ Limit(period) <= Limit(LongestPeriod)
        /\ Limit(LongestPeriod) \in Nat /\ WINDOW \in Nat
    BY <2>1, Limits, TableAssumption DEF IInv, InTime
  <2>3. soon \in Ages
    BY <2>2 DEF Ages
  <2>4. ASSUME NEW a \in DOMAIN table
        PROVE  LET e == table[a]
               IN  /\ e.heard \in Ages /\ e.answered \in Ages /\ e.fail \in Ages \cup {None}
                   /\ e.run \in 0 .. UNREACH_RUN /\ e.margin \in {"none", "good", "bad"}
                   /\ Len(e.rx) \in 1 .. WINDOW /\ Len(e.acks) \in 0 .. WINDOW
                   /\ e.rx[Len(e.rx)]
    <3>1. table[a] \in Entries /\ WindowsOK(table[a])
      BY <2>2 DEF TableOK
    <3>2. Len(table[a].acks) \in Nat
      BY <3>1 DEF Entries
    <3> QED BY <2>2, <3>1, <3>2 DEF Entries, WindowsOK
  <2> QED BY <2>2, <2>3, <2>4 DEF TypeOK, TableOK
<1>2. QED
  BY <1>1, Inductive, PTL

\* Skipping the scan until the cached time keeps no entry, and no failure, longer than
\* its limit (neighbours.py, expire and _next_expiry).
THEOREM ExpiryInTime == Spec => []CacheSound
<1>1. IInv => CacheSound
  BY DEF IInv, InTime, CacheSound
<1>2. QED
  BY <1>1, Inductive, PTL

\* A link is unreachable only on failures its window still holds, and failures in the
\* window age out (neighbours.py, _ack, _age, restart_reach).
THEOREM RunOfSamples == Spec => []RunInWindow
<1>1. IInv => RunInWindow
  BY DEF IInv, TableOK, WindowsOK, RunInWindow
<1>2. QED
  BY <1>1, Inductive, PTL

\* A parent leaves the table only by its silence, never to make room (neighbours.py,
\* _evict; MP13).
THEOREM ParentStays == Spec => ParentsKept
<1>1. IInv /\ [Next]_vars =>
        [\A a \in DOMAIN table : table[a].parent /\ a \notin DOMAIN table' =>
           table[a].heard >= Limit(period)]_vars
  BY NextKeeps DEF Sound, ParentsStep
<1>2. QED
  BY <1>1, Inductive, PTL DEF Spec, ParentsKept
==============================================================================
