----------------------------- MODULE TimersProofs -----------------------------
(***************************************************************************)
(* Proofs about Timers, for any number of timers and any range of the      *)
(* clock, the 32 bits of the code among them.                              *)
(***************************************************************************)
EXTENDS Timers, SequenceTheorems, FiniteSetTheorems, WellFoundedInduction, TLAPS

-----------------------------------------------------------------------------
\* The inductive invariant

\* The number expires stands for the time that is left away from now.
Stands(timer, time) ==
    timer.expires \in {time + timer.left, time + timer.left + Word, time + timer.left - Word}

Sorted(list) == \A i, j \in DOMAIN list : i < j => list[i].left <= list[j].left
Distinct(list) == \A i, j \in DOMAIN list : list[i].id = list[j].id => i = j

ListOK(list, time) ==
    /\ list \in Seq(Timer)
    /\ \A i \in DOMAIN list : Stands(list[i], time)
    /\ Sorted(list) /\ Distinct(list)

\* The round of timers was started at a time not long ago.
RoundInv == pc = "timers" => \E d \in 0 .. MaxLate : now \in {at + d, at + d - Word}

SleepInv == pc = "sleep" => \A i \in DOMAIN timers : timeout = 0 \/ timeout \in 1 .. timers[i].left

IInv == TypeOK /\ ListOK(timers, now) /\ RoundInv /\ SleepInv /\ ~early

-----------------------------------------------------------------------------
\* Arithmetic of the clock

LEMMA HalfIs == Word \in Nat /\ Half \in Nat /\ 2 * Half <= Word /\ MaxMillis + MaxLate < Half
BY RangeAssumption DEF Half

\* Word is positive, since there is room for a time.
LEMMA WordPositive == Word > 0 /\ MaxMillis \in Nat \ {0} /\ MaxLate \in Nat
BY RangeAssumption, HalfIs

LEMMA ModIs ==
    ASSUME NEW n \in Nat, n > 0, NEW a \in - n .. 2 * n - 1
    PROVE  a % n = IF a < 0 THEN a + n ELSE IF a < n THEN a ELSE a - n
BY SMT

\* Numbers that stand for times near each other have the difference of these times.
LEMMA SignedIs ==
    ASSUME NEW d \in Int, NEW x \in 1 - Word .. Word - 1, - Half < d, d < Half,
           x \in {d, d + Word, d - Word}
    PROVE  Signed(x) = d
<1>1. Word \in Nat /\ Half \in Nat /\ 2 * Half <= Word /\ Word > 0
  BY HalfIs, WordPositive
<1>2. x % Word = IF x < 0 THEN x + Word ELSE x
  BY <1>1, ModIs
<1>3. QED
  BY <1>1, <1>2 DEF Signed

\* The difference of two times that stand for times near each other, the code's way
LEMMA DifferenceIs ==
    ASSUME NEW time \in Int, NEW d \in Int, NEW e \in Int,
           NEW x \in 0 .. Word - 1, NEW y \in 0 .. Word - 1,
           x \in {time + d, time + d + Word, time + d - Word},
           y \in {time + e, time + e + Word, time + e - Word},
           - Half < d - e, d - e < Half
    PROVE  Signed(x - y) = d - e
<1>1. Word \in Nat /\ Half \in Nat /\ 2 * Half <= Word /\ Word > 0
  BY HalfIs, WordPositive
<1>2. x - y \in 1 - Word .. Word - 1 /\ d - e \in Int
  BY <1>1
<1>3. x - y \in {d - e, d - e + Word, d - e - Word}
  BY <1>1
<1>4. QED
  BY <1>2, <1>3, SignedIs

\* What is left of a timer, and what stands for it
LEMMA TimerIs ==
    ASSUME NEW timer \in Timer
    PROVE  /\ timer.left \in Int /\ - MaxLate <= timer.left /\ timer.left <= MaxMillis
           /\ timer.expires \in 0 .. Word - 1 /\ timer.id \in Clocks
BY WordPositive, HalfIs DEF Timer

-----------------------------------------------------------------------------
\* Lists

LEMMA RemoveIs ==
    ASSUME NEW S, NEW list \in Seq(S), NEW p \in 1 .. Len(list)
    PROVE  /\ RemoveAt(list, p) \in Seq(S)
           /\ Len(RemoveAt(list, p)) = Len(list) - 1
           /\ \A k \in 1 .. Len(list) - 1 :
                RemoveAt(list, p)[k] = IF k < p THEN list[k] ELSE list[k + 1]
<1> DEFINE left == SubSeq(list, 1, p - 1)
           right == SubSeq(list, p + 1, Len(list))
<1>0. Len(list) \in Nat /\ p \in Int /\ \A i \in 1 .. Len(list) : list[i] \in S
  OBVIOUS
<1>1. left \in Seq(S) /\ Len(left) = p - 1 /\ \A i \in 1 .. p - 1 : left[i] = list[i]
  <2>1. \A i \in 1 .. p - 1 : list[i] \in S /\ 1 + i - 1 = i
    BY <1>0
  <2>2. QED
    BY <1>0, <2>1, SubSeqProperties
<1>2. right \in Seq(S) /\ Len(right) = Len(list) - p
      /\ \A i \in 1 .. Len(list) - p : right[i] = list[i + p]
  <2>1. \A i \in p + 1 .. Len(list) : list[i] \in S
    BY <1>0
  <2>2. /\ right \in Seq(S)
        /\ Len(right) = IF p + 1 <= Len(list) THEN Len(list) - (p + 1) + 1 ELSE 0
        /\ \A i \in 1 .. Len(list) - (p + 1) + 1 : right[i] = list[p + 1 + i - 1]
    BY <1>0, <2>1, SubSeqProperties
  <2> HIDE DEF right
  <2>3. QED
    BY <1>0, <2>2
<1>3. RemoveAt(list, p) = left \o right
  BY DEF RemoveAt
<1> HIDE DEF left, right
<1>4. /\ left \o right \in Seq(S) /\ Len(left \o right) = Len(left) + Len(right)
      /\ \A i \in 1 .. Len(left) + Len(right) :
            (left \o right)[i] = IF i <= Len(left) THEN left[i] ELSE right[i - Len(left)]
  BY <1>1, <1>2, ConcatProperties
<1> DEFINE new == left \o right
<1> HIDE DEF new
<1>5. \A k \in 1 .. Len(list) - 1 : new[k] = IF k < p THEN list[k] ELSE list[k + 1]
  <2>1. TAKE k \in 1 .. Len(list) - 1
  <2>2. CASE k < p
    <3>1. k \in 1 .. Len(left) + Len(right) /\ k <= Len(left) /\ k \in 1 .. p - 1
      BY <1>0, <1>1, <1>2, <2>1, <2>2
    <3>2. QED
      BY <1>1, <1>4, <2>2, <3>1 DEF new
  <2>3. CASE ~(k < p)
    <3> DEFINE i == k - (p - 1)
    <3>1. k \in 1 .. Len(left) + Len(right) /\ ~(k <= Len(left)) /\ i \in 1 .. Len(list) - p
          /\ i + p = k + 1 /\ k - Len(left) = i
      BY <1>0, <1>1, <1>2, <2>1, <2>3
    <3> HIDE DEF i
    <3>2. new[k] = right[i] /\ right[i] = list[i + p]
      BY <1>2, <1>4, <3>1 DEF new
    <3>3. QED
      BY <2>3, <3>1, <3>2
  <2>4. QED
    BY <2>2, <2>3
<1>6. QED
  BY <1>0, <1>1, <1>2, <1>3, <1>4, <1>5 DEF new

LEMMA InsertIs ==
    ASSUME NEW S, NEW list \in Seq(S), NEW e \in S, NEW p \in 1 .. Len(list) + 1
    PROVE  /\ InsertAt(list, p, e) \in Seq(S)
           /\ Len(InsertAt(list, p, e)) = Len(list) + 1
           /\ \A k \in 1 .. Len(list) + 1 :
                InsertAt(list, p, e)[k] =
                    IF k < p THEN list[k] ELSE IF k = p THEN e ELSE list[k - 1]
<1> DEFINE left == SubSeq(list, 1, p - 1)
           right == SubSeq(list, p, Len(list))
           front == left \o <<e>>
           new == front \o right
<1>0. Len(list) \in Nat /\ p \in Int /\ \A i \in 1 .. Len(list) : list[i] \in S
  OBVIOUS
<1>1. left \in Seq(S) /\ Len(left) = p - 1 /\ \A i \in 1 .. p - 1 : left[i] = list[i]
  <2>1. \A i \in 1 .. p - 1 : list[i] \in S /\ 1 + i - 1 = i
    BY <1>0
  <2>2. QED
    BY <1>0, <2>1, SubSeqProperties
<1>2. right \in Seq(S) /\ Len(right) = Len(list) - p + 1
      /\ \A i \in 1 .. Len(list) - p + 1 : right[i] = list[i + p - 1]
  <2>1. \A i \in p .. Len(list) : list[i] \in S
    BY <1>0
  <2>2. /\ right \in Seq(S)
        /\ Len(right) = IF p <= Len(list) THEN Len(list) - p + 1 ELSE 0
        /\ \A i \in 1 .. Len(list) - p + 1 : right[i] = list[p + i - 1]
    BY <1>0, <2>1, SubSeqProperties
  <2> HIDE DEF right
  <2>3. QED
    BY <1>0, <2>2
<1>3. InsertAt(list, p, e) = new
  BY DEF InsertAt
<1> HIDE DEF left, right, new
<1>4. front \in Seq(S) /\ Len(front) = p
      /\ \A i \in 1 .. p : front[i] = IF i < p THEN list[i] ELSE e
  <2>1. <<e>> \in Seq(S) /\ Len(<<e>>) = 1 /\ <<e>>[1] = e
    OBVIOUS
  <2>2. /\ front \in Seq(S) /\ Len(front) = Len(left) + 1
        /\ \A i \in 1 .. Len(left) + 1 :
              front[i] = IF i <= Len(left) THEN left[i] ELSE <<e>>[i - Len(left)]
    BY <1>1, <2>1, ConcatProperties
  <2> HIDE DEF front
  <2>3. QED
    BY <1>0, <1>1, <2>1, <2>2
<1> HIDE DEF front
<1>5. /\ new \in Seq(S) /\ Len(new) = Len(front) + Len(right)
      /\ \A i \in 1 .. Len(front) + Len(right) :
            new[i] = IF i <= Len(front) THEN front[i] ELSE right[i - Len(front)]
  BY <1>2, <1>4, ConcatProperties DEF new
<1>6. \A k \in 1 .. Len(list) + 1 :
        new[k] = IF k < p THEN list[k] ELSE IF k = p THEN e ELSE list[k - 1]
  <2>1. TAKE k \in 1 .. Len(list) + 1
  <2>2. CASE k <= p
    <3>1. k \in 1 .. Len(front) + Len(right) /\ k <= Len(front) /\ k \in 1 .. p
          /\ (~(k < p) => k = p)
      BY <1>0, <1>2, <1>4, <2>1, <2>2
    <3>2. QED
      BY <1>4, <1>5, <3>1
  <2>3. CASE ~(k <= p)
    <3> DEFINE i == k - p
    <3>1. k \in 1 .. Len(front) + Len(right) /\ ~(k <= Len(front))
          /\ i \in 1 .. Len(list) - p + 1 /\ i + p - 1 = k - 1 /\ k - Len(front) = i
          /\ ~(k < p) /\ k # p
      BY <1>0, <1>2, <1>4, <2>1, <2>3
    <3> HIDE DEF i
    <3>2. new[k] = right[i] /\ right[i] = list[i + p - 1]
      BY <1>2, <1>5, <3>1
    <3>3. QED
      BY <3>1, <3>2
  <2>4. QED
    BY <2>2, <2>3
<1>7. QED
  BY <1>0, <1>2, <1>3, <1>4, <1>5, <1>6

LEMMA WithoutKeeps ==
    ASSUME NEW time \in Int, NEW list, ListOK(list, time), NEW id \in Clocks
    PROVE  /\ ListOK(Without(list, id), time)
           /\ \A i \in DOMAIN Without(list, id) : Without(list, id)[i].id # id
<1> DEFINE places == {i \in DOMAIN list : list[i].id = id}
           p == CHOOSE i \in places : TRUE
           rest == Without(list, id)
<1>0. list \in Seq(Timer) /\ (\A i \in DOMAIN list : Stands(list[i], time))
      /\ Sorted(list) /\ Distinct(list)
  BY DEF ListOK
<1>1. CASE places = {}
  <2>1. rest = list
    BY <1>1 DEF Without
  <2>2. QED
    BY <1>1, <2>1
<1>2. CASE places # {}
  <2>1. p \in 1 .. Len(list) /\ list[p].id = id
    BY <1>0, <1>2
  <2>2. rest = RemoveAt(list, p)
    BY <1>2 DEF Without
  <2> HIDE DEF p, places
  <2>3. rest \in Seq(Timer) /\ Len(rest) = Len(list) - 1
        /\ \A k \in 1 .. Len(list) - 1 : rest[k] = IF k < p THEN list[k] ELSE list[k + 1]
    BY <1>0, <2>1, <2>2, RemoveIs
  <2> HIDE DEF rest
  <2>4. DOMAIN rest = 1 .. Len(list) - 1 /\ DOMAIN list = 1 .. Len(list) /\ Len(list) \in Nat
    BY <1>0, <2>3
  <2> DEFINE old(k) == IF k < p THEN k ELSE k + 1
  <2>5. \A k \in DOMAIN rest : old(k) \in DOMAIN list /\ old(k) # p /\ rest[k] = list[old(k)]
    BY <2>1, <2>3, <2>4
  <2>6. \A k, l \in DOMAIN rest : (k < l => old(k) < old(l)) /\ (old(k) = old(l) => k = l)
    BY <2>1, <2>4
  <2> HIDE DEF old
  <2>7. \A i \in DOMAIN rest : Stands(rest[i], time)
    BY <1>0, <2>5
  <2>8. Sorted(rest)
    BY <1>0, <2>5, <2>6 DEF Sorted
  <2>9. Distinct(rest)
    BY <1>0, <2>5, <2>6 DEF Distinct
  <2>10. \A i \in DOMAIN rest : rest[i].id # id
    BY <1>0, <2>1, <2>4, <2>5 DEF Distinct
  <2>11. QED
    BY <2>3, <2>7, <2>8, <2>9, <2>10 DEF ListOK, rest
<1>3. QED
  BY <1>1, <1>2

\* A finite set of numbers has a smallest one: take a smallest set that has none, and an
\* element away from it.
HasMin(S) == \E m \in S : \A n \in S : m <= n

LEMMA MinIs ==
    ASSUME NEW S \in SUBSET Nat, IsFiniteSet(S), S # {}
    PROVE  Min(S) \in S /\ \A n \in S : Min(S) <= n
<1> DEFINE Bad == {T \in SUBSET S : T # {} /\ ~HasMin(T)}
<1>1. ASSUME Bad # {} PROVE FALSE
  <2>1. PICK T \in Bad : \A U \in Bad : <<U, T>> \notin StrictSubsetOrdering(S)
    <3>1. IsWellFoundedOn(StrictSubsetOrdering(S), SUBSET S)
      BY FS_StrictSubsetOrderingWellFounded, FS_FiniteSubsetsOfFinite
    <3>2. QED
      BY <1>1, <3>1, WFMin
  <2>2. PICK x : x \in T
    BY <2>1
  <2> DEFINE U == T \ {x}
  <2>3. x \in Nat /\ T \subseteq Nat /\ T = U \cup {x} /\ U \in SUBSET S
    BY <2>1, <2>2
  <2>4. U \notin Bad
    BY <2>1, <2>2, <2>3 DEF StrictSubsetOrdering
  <2>5. U = {} \/ HasMin(U)
    BY <2>3, <2>4
  <2> HIDE DEF U
  <2>6. CASE U = {}
    <3>1. T = {x} /\ x <= x
      BY <2>3, <2>6
    <3>2. QED
      BY <2>1, <3>1 DEF HasMin
  <2>7. CASE HasMin(U)
    <3>1. PICK m \in U : \A n \in U : m <= n
      BY <2>7 DEF HasMin
    <3>2. m \in T /\ m \in Nat
      BY <2>3, <3>1
    <3>3. CASE m <= x
      BY <2>1, <2>3, <3>1, <3>2, <3>3 DEF HasMin
    <3>4. CASE ~(m <= x)
      <4>1. \A n \in T : x <= n
        BY <2>3, <3>1, <3>2, <3>4
      <4>2. QED
        BY <2>1, <2>2, <4>1 DEF HasMin
    <3>5. QED
      BY <3>3, <3>4
  <2>8. QED
    BY <2>5, <2>6, <2>7
<1>2. HasMin(S)
  BY <1>1
<1>3. QED
  BY <1>2 DEF HasMin, Min

\* A timer goes behind those that expire no later, and before those that expire later.
LEMMA PlaceIs ==
    ASSUME NEW time \in Int, NEW list, ListOK(list, time), NEW timer \in Timer,
           Stands(timer, time)
    PROVE  LET p == PlaceFor(list, timer.expires)
           IN /\ p \in 1 .. Len(list) + 1
              /\ \A i \in DOMAIN list : i < p => list[i].left <= timer.left
              /\ \A i \in DOMAIN list : p <= i => timer.left <= list[i].left
<1> DEFINE later == {i \in 1 .. Len(list) : Signed(list[i].expires - timer.expires) > 0}
           p == PlaceFor(list, timer.expires)
<1>0. list \in Seq(Timer) /\ (\A i \in DOMAIN list : Stands(list[i], time)) /\ Sorted(list)
      /\ DOMAIN list = 1 .. Len(list) /\ Len(list) \in Nat
  BY DEF ListOK
<1>1. p \in later \cup {Len(list) + 1} /\ \A n \in later \cup {Len(list) + 1} : p <= n
  <2>1. later \cup {Len(list) + 1} \in SUBSET Nat /\ later \cup {Len(list) + 1} # {}
    BY <1>0
  <2>2. p = Min(later \cup {Len(list) + 1})
    BY DEF PlaceFor
  <2>3. IsFiniteSet(later \cup {Len(list) + 1})
    <3>1. IsFiniteSet(1 .. Len(list)) /\ later \subseteq 1 .. Len(list)
      BY <1>0, FS_Interval
    <3> HIDE DEF later
    <3>2. QED
      BY <3>1, FS_Subset, FS_AddElement
  <2> HIDE DEF p, later
  <2>4. QED
    BY <2>1, <2>2, <2>3, MinIs
<1>2. \A i \in DOMAIN list :
        Signed(list[i].expires - timer.expires) = list[i].left - timer.left
  <2>1. TAKE i \in DOMAIN list
  <2>2. list[i] \in Timer /\ Stands(list[i], time)
    BY <1>0
  <2>3. /\ list[i].left \in - MaxLate .. MaxMillis /\ timer.left \in - MaxLate .. MaxMillis
        /\ list[i].expires \in 0 .. Word - 1 /\ timer.expires \in 0 .. Word - 1
    BY <2>2 DEF Timer
  <2>4. - Half < list[i].left - timer.left /\ list[i].left - timer.left < Half
        /\ list[i].left \in Int /\ timer.left \in Int
    BY <2>3, HalfIs, WordPositive
  <2>5. QED
    BY <2>2, <2>3, <2>4, DifferenceIs, Zenon DEF Stands
<1>3. \A i \in DOMAIN list : list[i].left \in Int
  BY <1>0, TimerIs
<1>4. timer.left \in Int
  BY TimerIs
<1>5. p \in 1 .. Len(list) + 1
  BY <1>0, <1>1
<1>6. \A i \in DOMAIN list : i < p => list[i].left <= timer.left
  <2>1. SUFFICES ASSUME NEW i \in DOMAIN list, i < p PROVE list[i].left <= timer.left
    OBVIOUS
  <2>2. i \notin later /\ i \in 1 .. Len(list)
    BY <1>0, <1>1, <1>5, <2>1
  <2>3. ~(list[i].left - timer.left > 0)
    BY <1>2, <2>2
  <2>4. QED
    BY <1>3, <1>4, <2>3
<1>7. \A i \in DOMAIN list : p <= i => timer.left <= list[i].left
  <2>1. SUFFICES ASSUME NEW i \in DOMAIN list, p <= i PROVE timer.left <= list[i].left
    OBVIOUS
  <2>2. p \in later /\ p \in DOMAIN list
    BY <1>0, <1>1, <1>5, <2>1
  <2>3. list[p].left - timer.left > 0
    BY <1>2, <2>2
  <2>4. p = i \/ p < i
    BY <1>0, <1>5, <2>1
  <2>5. list[p].left <= list[i].left
    BY <1>0, <1>3, <2>2, <2>4 DEF Sorted
  <2>6. QED
    BY <1>3, <1>4, <2>2, <2>3, <2>5
<1>8. QED
  BY <1>5, <1>6, <1>7

LEMMA InsertKeeps ==
    ASSUME NEW time \in Int, NEW list, ListOK(list, time), NEW timer \in Timer,
           Stands(timer, time), \A i \in DOMAIN list : list[i].id # timer.id
    PROVE  ListOK(InsertAt(list, PlaceFor(list, timer.expires), timer), time)
<1> DEFINE p == PlaceFor(list, timer.expires)
           new == InsertAt(list, p, timer)
<1>0. list \in Seq(Timer) /\ (\A i \in DOMAIN list : Stands(list[i], time)) /\ Sorted(list)
      /\ Distinct(list) /\ DOMAIN list = 1 .. Len(list) /\ Len(list) \in Nat
  BY DEF ListOK
<1>1. /\ p \in 1 .. Len(list) + 1
      /\ \A i \in DOMAIN list : i < p => list[i].left <= timer.left
      /\ \A i \in DOMAIN list : p <= i => timer.left <= list[i].left
  BY PlaceIs
<1> HIDE DEF p
<1>2. new \in Seq(Timer) /\ Len(new) = Len(list) + 1
      /\ \A k \in 1 .. Len(list) + 1 :
            new[k] = IF k < p THEN list[k] ELSE IF k = p THEN timer ELSE list[k - 1]
  BY <1>0, <1>1, InsertIs
<1> HIDE DEF new
<1>3. DOMAIN new = 1 .. Len(list) + 1
  BY <1>2
<1> DEFINE old(k) == IF k < p THEN k ELSE k - 1
<1>4. \A k \in DOMAIN new : k # p => old(k) \in DOMAIN list /\ new[k] = list[old(k)]
  BY <1>0, <1>1, <1>2, <1>3
<1>5. new[p] = timer /\ p \in DOMAIN new
  BY <1>1, <1>2, <1>3
<1>6. \A k \in DOMAIN new : (k < p => old(k) < p) /\ (k > p => p <= old(k))
  BY <1>1, <1>3
<1>7. \A k, l \in DOMAIN new : k # p /\ l # p =>
        (k < l => old(k) < old(l)) /\ (old(k) = old(l) => k = l)
  BY <1>1, <1>3
<1> HIDE DEF old
<1>8. \A i \in DOMAIN new : Stands(new[i], time)
  BY <1>0, <1>4, <1>5
<1>9. Sorted(new)
  <2>1. SUFFICES ASSUME NEW i \in DOMAIN new, NEW j \in DOMAIN new, i < j
                 PROVE  new[i].left <= new[j].left
    BY DEF Sorted
  <2>2. CASE i = p
    <3>1. j # p /\ j > p
      BY <1>1, <1>3, <2>1, <2>2
    <3>2. QED
      BY <1>1, <1>4, <1>5, <1>6, <2>2, <3>1
  <2>3. CASE j = p
    <3>1. i # p /\ i < p
      BY <1>1, <1>3, <2>1, <2>3
    <3>2. QED
      BY <1>1, <1>4, <1>5, <1>6, <2>3, <3>1
  <2>4. CASE i # p /\ j # p
    BY <1>0, <1>4, <1>7, <2>1, <2>4 DEF Sorted
  <2>5. QED
    BY <2>2, <2>3, <2>4
<1>10. Distinct(new)
  BY <1>0, <1>4, <1>5, <1>7 DEF Distinct
<1>11. QED
  BY <1>2, <1>8, <1>9, <1>10 DEF ListOK, new, p

LEMMA SetKeeps ==
    ASSUME now \in 0 .. Word - 1, NEW list, ListOK(list, now), NEW id \in Clocks,
           NEW millis \in 0 .. MaxMillis
    PROVE  ListOK(TimerSet(list, id, millis), now)
<1> DEFINE others == Without(list, id)
           timer == [id |-> id, expires |-> (now + millis) % Word, left |-> millis]
<1>1. Word \in Nat /\ Word > 0 /\ MaxMillis \in Nat /\ MaxMillis < Word /\ now \in Int
  BY HalfIs, WordPositive
<1>2. ListOK(others, now) /\ \A i \in DOMAIN others : others[i].id # id
  BY <1>1, WithoutKeeps
<1>3. CASE millis = 0
  BY <1>2, <1>3 DEF TimerSet
<1>4. CASE millis # 0
  <2>1. (now + millis) % Word =
            IF now + millis < Word THEN now + millis ELSE now + millis - Word
    BY <1>1, ModIs
  <2>2. timer \in Timer /\ timer.id = id /\ timer.expires = (now + millis) % Word
        /\ timer.left = millis
    BY <1>1, <2>1, WordPositive DEF Timer
  <2>3. Stands(timer, now)
    BY <1>1, <2>1, <2>2 DEF Stands
  <2>4. TimerSet(list, id, millis) = InsertAt(others, PlaceFor(others, timer.expires), timer)
    BY <1>4 DEF TimerSet
  <2> HIDE DEF others, timer
  <2>5. QED
    BY <1>1, <1>2, <2>2, <2>3, <2>4, InsertKeeps
<1>5. QED
  BY <1>3, <1>4

LEMMA DoKeeps ==
    ASSUME now \in 0 .. Word - 1, ListOK(timers, now), NEW id \in Clocks, DoTimer(id)
    PROVE  ListOK(timers', now)
<1>1. PICK other \in Clocks, millis \in 0 .. MaxMillis :
        timers' = TimerSet(Without(timers, id), other, millis)
  BY DEF DoTimer
<1>2. ListOK(Without(timers, id), now)
  BY WithoutKeeps, HalfIs
<1>3. QED
  BY <1>1, <1>2, SetKeeps

-----------------------------------------------------------------------------
\* The steps

LEMMA InitInv == Init => IInv
<1> SUFFICES ASSUME Init PROVE IInv
  OBVIOUS
<1>1. timers = <<>> /\ timers \in Seq(Timer) /\ DOMAIN timers = {}
  BY DEF Init
<1>2. TypeOK
  <2>1. 0 \in 0 .. Word - 1
    BY HalfIs, WordPositive
  <2>2. QED
    BY <1>1, <2>1 DEF Init, TypeOK, Forever
<1>3. QED
  BY <1>1, <1>2 DEF Init, IInv, ListOK, Sorted, Distinct, RoundInv, SleepInv

\* What the timer at the head of the list says of the others
LEMMA HeadIs ==
    ASSUME ListOK(timers, now), timers # <<>>
    PROVE  /\ Head(timers) = timers[1] /\ 1 \in DOMAIN timers
           /\ Head(timers) \in Timer /\ Stands(Head(timers), now)
           /\ \A i \in DOMAIN timers : Head(timers).left <= timers[i].left
<1>1. timers \in Seq(Timer) /\ Sorted(timers) /\ \A i \in DOMAIN timers : Stands(timers[i], now)
  BY DEF ListOK
<1>2. Head(timers) = timers[1] /\ 1 \in DOMAIN timers /\ Head(timers) \in Timer
  BY <1>1
<1>3. \A i \in DOMAIN timers : i \in Nat /\ (i = 1 \/ 1 < i) /\ timers[i].left \in Int
  BY <1>1, TimerIs
<1>4. \A i \in DOMAIN timers : Head(timers).left <= timers[i].left
  BY <1>1, <1>2, <1>3 DEF Sorted
<1>5. QED
  BY <1>1, <1>2, <1>4

\* Due is who has no time left, at the time the round goes by and before.
LEMMA DueIs ==
    ASSUME NEW timer \in Timer, Stands(timer, now), now \in 0 .. Word - 1,
           NEW time \in 0 .. Word - 1, NEW d \in 0 .. MaxLate,
           now \in {time + d, time + d - Word}
    PROVE  Signed(timer.expires - time) = timer.left + d
<1>1. Word \in Nat /\ Half \in Nat /\ 2 * Half <= Word /\ Word > 0 /\ MaxMillis + MaxLate < Half
      /\ MaxMillis \in Nat \ {0} /\ MaxLate \in Nat
  BY HalfIs, WordPositive
<1>2. timer.left \in - MaxLate .. MaxMillis /\ timer.expires \in 0 .. Word - 1
  BY DEF Timer
<1> DEFINE x == timer.expires - time
           e == timer.left + d
<1>3. e \in Int /\ - Half < e /\ e < Half /\ x \in 1 - Word .. Word - 1
  BY <1>1, <1>2
<1>4. x \in {e, e + Word, e - Word}
  BY <1>1, <1>2, <1>3 DEF Stands
<1>5. QED
  BY <1>3, <1>4, SignedIs

LEMMA StepInv == IInv /\ [Next]_vars => IInv'
<1> SUFFICES ASSUME IInv, [Next]_vars PROVE IInv'
  OBVIOUS
<1>0. /\ TypeOK /\ ListOK(timers, now) /\ RoundInv /\ SleepInv /\ ~early
      /\ now \in 0 .. Word - 1 /\ at \in 0 .. Word - 1 /\ now \in Int
      /\ Word \in Nat /\ Word > 0 /\ MaxMillis \in Nat \ {0} /\ MaxLate \in Nat
      /\ MaxMillis + MaxLate < Half /\ 2 * Half <= Word /\ Half \in Nat
  BY HalfIs, WordPositive DEF IInv, TypeOK
\* The list after a step is what TypeOK says of it.
<1>a. ASSUME ListOK(timers', now')
      PROVE  timers' \in Seq(Timer)
             /\ \A i, j \in DOMAIN timers' : timers'[i].id = timers'[j].id => i = j
  BY <1>a DEF ListOK, Distinct
<1>1. CASE SetTimer
  <2>1. ListOK(timers', now)
    BY <1>0, <1>1, SetKeeps DEF SetTimer
  <2>2. now' = now /\ pc' = "work" /\ at' = at /\ timeout' = timeout /\ early' = early
    BY <1>1 DEF SetTimer
  <2>3. QED
    BY <1>0, <1>a, <2>1, <2>2 DEF IInv, TypeOK, RoundInv, SleepInv
<1>2. CASE TimerForce
  <2>1. ListOK(timers', now)
    BY <1>0, <1>2, DoKeeps DEF TimerForce
  <2>2. now' = now /\ pc' = "work" /\ at' = at /\ timeout' = timeout /\ early' = early
    BY <1>2 DEF TimerForce
  <2>3. QED
    BY <1>0, <1>a, <2>1, <2>2 DEF IInv, TypeOK, RoundInv, SleepInv
<1>3. CASE check_timers
  <2>0. timers' = timers /\ now' = now /\ early' = early
    BY <1>3 DEF check_timers
  <2>1. CASE timers = <<>>
    <3>1. pc' = "sleep" /\ timeout' = Forever /\ at' = at /\ DOMAIN timers = {}
      BY <1>3, <2>1 DEF check_timers
    <3>2. QED
      BY <1>0, <1>a, <2>0, <3>1 DEF IInv, TypeOK, RoundInv, SleepInv
  <2>2. CASE timers # <<>> /\ IsDue(Head(timers).expires, now)
    <3>1. pc' = "timers" /\ timeout' = timeout /\ at' = now
      BY <1>3, <2>2 DEF check_timers
    <3>2. RoundInv'
      <4>1. 0 \in 0 .. MaxLate /\ now' \in {at' + 0, at' + 0 - Word}
        BY <1>0, <2>0, <3>1
      <4>2. QED
        BY <4>1 DEF RoundInv
    <3>3. QED
      BY <1>0, <1>a, <2>0, <3>1, <3>2 DEF IInv, TypeOK, SleepInv
  <2>3. CASE timers # <<>> /\ ~IsDue(Head(timers).expires, now)
    <3>1. pc' = "sleep" /\ timeout' = Signed(Head(timers).expires - now) /\ at' = at
      BY <1>3, <2>3 DEF check_timers
    <3>2. Head(timers) \in Timer /\ Stands(Head(timers), now)
          /\ \A i \in DOMAIN timers : Head(timers).left <= timers[i].left
      BY <1>0, <2>3, HeadIs
    <3>3. Signed(Head(timers).expires - now) = Head(timers).left + 0
      BY <1>0, <3>2, DueIs
    <3>4. Head(timers).left \in - MaxLate .. MaxMillis
      BY <3>2 DEF Timer
    <3>5. Head(timers).left > 0 /\ timeout' = Head(timers).left
      BY <1>0, <2>3, <3>1, <3>3, <3>4 DEF IsDue
    <3>6. \A i \in DOMAIN timers : timers[i].left \in Int
      BY <1>0, TimerIs DEF ListOK
    <3>7. SleepInv'
      BY <1>0, <2>0, <3>2, <3>4, <3>5, <3>6 DEF SleepInv
    <3>8. timeout' \in 0 .. MaxMillis
      BY <1>0, <3>4, <3>5
    <3>9. QED
      BY <1>0, <1>a, <2>0, <3>1, <3>7, <3>8 DEF IInv, TypeOK, RoundInv
  <2>4. QED
    BY <2>1, <2>2, <2>3
<1>4. CASE DoTimers
  <2>1. CASE timers # <<>> /\ IsDue(Head(timers).expires, at)
    <3>1. DoTimer(Head(timers).id) /\ early' = (early \/ Head(timers).left > 0)
          /\ now' = now /\ pc' = pc /\ at' = at /\ timeout' = timeout /\ pc = "timers"
      BY <1>4, <2>1 DEF DoTimers
    <3>2. Head(timers) \in Timer /\ Stands(Head(timers), now)
      BY <1>0, <2>1, HeadIs
    <3>3. PICK d \in 0 .. MaxLate : now \in {at + d, at + d - Word}
      BY <1>0, <3>1 DEF RoundInv
    <3>4. Signed(Head(timers).expires - at) = Head(timers).left + d
      BY <1>0, <3>2, <3>3, DueIs
    <3>5. Head(timers).left \in Int /\ Head(timers).id \in Clocks
      BY <1>0, <3>2 DEF Timer
    <3>6. ~(Head(timers).left > 0)
      BY <1>0, <2>1, <3>3, <3>4, <3>5 DEF IsDue
    <3>7. early' = FALSE
      BY <1>0, <3>1, <3>6
    <3>8. ListOK(timers', now)
      BY <1>0, <3>1, <3>5, DoKeeps
    <3>9. QED
      BY <1>0, <1>a, <3>1, <3>7, <3>8 DEF IInv, TypeOK, RoundInv, SleepInv
  <2>2. CASE ~(timers # <<>> /\ IsDue(Head(timers).expires, at))
    <3>1. pc' = "work" /\ at' = 0 /\ UNCHANGED <<now, timers, timeout, early>>
      BY <1>4, <2>2 DEF DoTimers
    <3>2. at' \in 0 .. Word - 1
      BY <1>0, <3>1
    <3>3. QED
      BY <1>0, <1>a, <3>1, <3>2 DEF IInv, TypeOK, RoundInv, SleepInv
  <2>3. QED
    BY <2>1, <2>2
<1>5. CASE Wake
  <2>1. pc' = "work" /\ timeout' = Forever /\ UNCHANGED <<now, timers, at, early>>
    BY <1>5 DEF Wake
  <2>2. QED
    BY <1>0, <1>a, <2>1 DEF IInv, TypeOK, RoundInv, SleepInv
<1>6. CASE Tick
  <2>0. /\ \A timer \in ToSet(timers) : timer.left > - MaxLate
        /\ pc = "timers" => Signed(now - at) < MaxLate
        /\ now' = (now + 1) % Word
        /\ timers' = [i \in DOMAIN timers |-> [timers[i] EXCEPT !.left = @ - 1]]
        /\ timeout' = IF timeout > 0 THEN timeout - 1 ELSE timeout
        /\ pc' = pc /\ at' = at /\ early' = early
    BY <1>6 DEF Tick
  <2>1. now' = (IF now + 1 < Word THEN now + 1 ELSE now + 1 - Word) /\ now' \in 0 .. Word - 1
    BY <1>0, <2>0, ModIs
  <2>2. timers \in Seq(Timer) /\ Sorted(timers) /\ Distinct(timers)
        /\ (\A i \in DOMAIN timers : Stands(timers[i], now)) /\ DOMAIN timers = 1 .. Len(timers)
        /\ Len(timers) \in Nat
    BY <1>0 DEF ListOK
  <2>3. \A i \in DOMAIN timers :
          /\ timers[i] \in Timer
          /\ timers[i].left \in 1 - MaxLate .. MaxMillis
          /\ timers[i].expires \in 0 .. Word - 1 /\ timers[i].id \in Clocks
    <3>1. SUFFICES ASSUME NEW i \in DOMAIN timers
                   PROVE  /\ timers[i] \in Timer
                          /\ timers[i].left \in 1 - MaxLate .. MaxMillis
                          /\ timers[i].expires \in 0 .. Word - 1 /\ timers[i].id \in Clocks
      OBVIOUS
    <3>2. timers[i] \in Timer /\ timers[i] \in ToSet(timers)
      BY <2>2 DEF ToSet
    <3>3. timers[i].left > - MaxLate /\ timers[i].left \in - MaxLate .. MaxMillis
      BY <2>0, <3>2 DEF Timer
    <3>4. QED
      BY <1>0, <3>2, <3>3 DEF Timer
  <2>4. DOMAIN timers' = DOMAIN timers
        /\ \A i \in DOMAIN timers :
             /\ timers'[i].id = timers[i].id /\ timers'[i].expires = timers[i].expires
             /\ timers'[i].left = timers[i].left - 1
             /\ timers'[i] = [id |-> timers[i].id, expires |-> timers[i].expires,
                              left |-> timers[i].left - 1]
    BY <2>0, <2>3 DEF Timer
  <2>5. \A i \in DOMAIN timers : timers'[i] \in Timer
    BY <1>0, <2>3, <2>4 DEF Timer
  <2>6. timers' \in Seq(Timer)
    <3>1. timers' = [i \in 1 .. Len(timers) |-> timers'[i]]
      BY <2>0, <2>2
    <3>2. QED
      BY <2>2, <2>5, <3>1
  <2>7. \A i \in DOMAIN timers' : Stands(timers'[i], now')
    <3>1. TAKE i \in DOMAIN timers'
    <3>2. Stands(timers[i], now) /\ timers[i].left \in Int /\ timers[i].expires \in 0 .. Word - 1
          /\ timers'[i].expires = timers[i].expires /\ timers'[i].left = timers[i].left - 1
      BY <1>0, <2>2, <2>3, <2>4, <3>1, TimerIs
    <3>4. timers[i].expires # now + timers[i].left + Word \/ now + timers[i].left < 0
      BY <1>0, <3>2
    <3>5. now + 1 >= Word => now + timers[i].left >= 0
      <4>1. - MaxLate <= timers[i].left
        BY <2>2, <3>1, <2>4, TimerIs
      <4>2. QED
        BY <1>0, <3>2, <4>1
    <3>6. CASE now + 1 < Word
      BY <1>0, <2>1, <3>2, <3>6 DEF Stands
    <3>7. CASE now + 1 >= Word
      <4>1. timers[i].expires \in {now + timers[i].left, now + timers[i].left - Word}
        BY <3>2, <3>4, <3>5, <3>7, <1>0 DEF Stands
      <4>2. QED
        BY <1>0, <2>1, <3>2, <3>7, <4>1 DEF Stands
    <3>8. QED
      BY <1>0, <3>6, <3>7
  <2>8. Sorted(timers')
    BY <2>2, <2>3, <2>4 DEF Sorted
  <2>9. Distinct(timers')
    BY <2>2, <2>4 DEF Distinct
  <2>10. ListOK(timers', now')
    BY <2>6, <2>7, <2>8, <2>9 DEF ListOK
  <2>11. timeout \in {Forever} \cup 0 .. MaxMillis /\ timeout' \in {Forever} \cup 0 .. MaxMillis
    BY <1>0, <2>0 DEF TypeOK, Forever
  <2>12. RoundInv'
    <3>1. SUFFICES ASSUME pc = "timers"
                   PROVE  \E d \in 0 .. MaxLate : now' \in {at + d, at + d - Word}
      BY <2>0 DEF RoundInv
    <3>2. PICK d \in 0 .. MaxLate : now \in {at + d, at + d - Word}
      BY <1>0, <3>1 DEF RoundInv
    <3>3. Signed(now - at) = d
      <4>1. - Half < d /\ d < Half /\ d \in Int /\ now - at \in 1 - Word .. Word - 1
            /\ now - at \in {d, d + Word, d - Word}
        BY <1>0, <3>2
      <4>2. QED
        BY <4>1, SignedIs
    <3>4. d + 1 \in 0 .. MaxLate
      BY <1>0, <2>0, <3>1, <3>2, <3>3
    <3>5. now' \in {at + (d + 1), at + (d + 1) - Word}
      BY <1>0, <2>1, <3>2, <3>4
    <3>6. QED
      BY <3>4, <3>5
  <2>13. SleepInv'
    <3>1. SUFFICES ASSUME pc = "sleep", NEW i \in DOMAIN timers
                   PROVE  timeout' = 0 \/ timeout' \in 1 .. timers'[i].left
      BY <2>0, <2>4 DEF SleepInv
    <3>2. timeout = 0 \/ timeout \in 1 .. timers[i].left
      BY <1>0, <3>1 DEF SleepInv
    <3>3. timers'[i].left = timers[i].left - 1 /\ timers[i].left \in Int
      BY <2>3, <2>4, TimerIs
    <3>4. QED
      BY <2>0, <3>2, <3>3
  <2>14. QED
    BY <1>0, <1>a, <2>0, <2>1, <2>10, <2>11, <2>12, <2>13 DEF IInv, TypeOK
<1>7. CASE UNCHANGED vars
  BY <1>7, <1>0 DEF vars, IInv, TypeOK, ListOK, RoundInv, SleepInv
<1>8. QED
  BY <1>1, <1>2, <1>3, <1>4, <1>5, <1>6, <1>7 DEF Next

LEMMA AlwaysInv == Spec => []IInv
BY InitInv, StepInv, PTL DEF Spec

-----------------------------------------------------------------------------
\* Theorems

\* Timers, the clock and the timeout of the poll keep their types, and a timer is in the
\* list once at most, whatever callbacks do: the invariant says so itself.
THEOREM TypeCorrect == Spec => []TypeOK
<1>1. IInv => TypeOK
  BY DEF IInv
<1>2. QED
  BY <1>1, AlwaysInv, PTL

\* For any range of the clock, 2^32 among them, and any number of timers: as long as no
\* timer is set for, or late by, so much that the sum reaches half of the range, no
\* callback is early, the list is sorted by the true times, and the timeout of the
\* poll lies beyond no timer.  The numbers in the list stand for the true times (ListOK), and
\* the round of timers started at most MaxLate ago (RoundInv).
THEOREM NoTimerIsMissed == Spec => []TimersAreOnTime
<1>1. IInv => TimersAreOnTime
  <2>1. SUFFICES ASSUME IInv PROVE TimersAreOnTime
    OBVIOUS
  <2>2. timers \in Seq(Timer) /\ Sorted(timers)
    BY <2>1 DEF IInv, ListOK
  <2>3. pc = "sleep" =>
          \A timer \in ToSet(timers) : timeout = 0 \/ timeout \in 1 .. timer.left
    BY <2>1, <2>2 DEF IInv, SleepInv, ToSet
  <2>4. QED
    BY <2>1, <2>2, <2>3 DEF IInv, Sorted, TimersAreOnTime
<1>2. QED
  BY <1>1, AlwaysInv, PTL
=============================================================================
