----------------------------- MODULE TimersProofs ----------------------------
(***************************************************************************)
(* What Timers promises, for every number of cyclic timers, every interval *)
(* and every period of the cycle counter: the list holds each timer once,  *)
(* and until the counter wraps no timer runs early, lwIP's clock is not    *)
(* ahead of the time and a wait of Firmware_Update lasts what it should.   *)
(***************************************************************************)
EXTENDS Timers, SequenceTheorems, WellFoundedInduction, TLAPS

\* The lists of timeouts.
Lists == Seq([who : Timers, time : 0..(Word - 1)])

-----------------------------------------------------------------------------
(* Numbers                                                                 *)

\* The constants are numbers, and an interval is short beside the word.
LEMMA Constants ==
    /\ Second \in Nat /\ Second > 0 /\ Period \in Nat /\ Period > 0 /\ Patience \in Nat
    /\ MaxAway \in Nat /\ MaxInside \in Nat /\ Word \in Nat /\ Word > Period
    /\ \A t \in Timers : /\ Interval[t] \in Nat /\ Interval[t] > 0
                         /\ Interval[t] + Period < Word /\ Interval[t] + Interval[t] < Word
<1>1. Tcp \in Timers  BY DEF Timers
<1>2. \A t \in Timers : Interval[t] \in Nat \ {0}  BY TimersAssumption
<1> QED  BY TimersAssumption, <1>1, <1>2

\* The remainder by the word is a word.
LEMMA WordRange == ASSUME NEW x \in Int PROVE x % Word \in 0..(Word - 1)
BY Constants

\* The remainder of a word is the word itself.
LEMMA WordItself == ASSUME NEW x \in 0..(Word - 1) PROVE x % Word = x
<1>1. x \in Int /\ Word \in Int /\ Word > 0 /\ 0 <= x /\ x < Word  BY Constants
<1> QED  BY <1>1, SMT

\* A set of naturals has a least element.
LEMMA LeastNatural ==
    ASSUME NEW T, T \subseteq Nat, T # {}
    PROVE  \E x \in T : \A y \in T : x <= y
<1>1. \E x \in T : \A y \in T : ~(<<y, x>> \in OpToRel(<, Nat))
  BY NatLessThanWellFounded, WFMin, Zenon
<1>2. ASSUME NEW x \in T, NEW y \in T, ~(<<y, x>> \in OpToRel(<, Nat))
      PROVE  x <= y
  <2>1. ~(y < x)
    BY <1>2 DEF OpToRel
  <2> QED BY <2>1
<1> QED BY <1>1, <1>2, Zenon

\* So a set that holds 0, and with every number below n the next one, holds the
\* numbers to n.
LEMMA UpTo ==
    ASSUME NEW n \in Nat, NEW T, 0 \in T, \A k \in 0..(n - 1) : k \in T => k + 1 \in T
    PROVE  \A k \in 0..n : k \in T
<1> DEFINE U == {k \in 0..n : k \notin T}
<1>1. SUFFICES ASSUME U # {} PROVE FALSE
  OBVIOUS
<1>2. U \subseteq Nat
  OBVIOUS
<1>3. PICK x \in U : \A y \in U : x <= y
  BY <1>1, <1>2, LeastNatural
<1>4. x \in 0..n /\ x \notin T /\ x # 0
  OBVIOUS
<1>5. x - 1 \in 0..(n - 1) /\ x - 1 \in 0..n /\ x = (x - 1) + 1 /\ ~(x <= x - 1)
  BY <1>4
<1>6. x - 1 \in T
  BY <1>3, <1>5
<1> QED  BY <1>4, <1>5, <1>6

\* f solves the recursion that starts with d and takes the steps of step.
Solves(f, n, D, d, step) ==
    f \in [0..n -> D] /\ f[0] = d /\ \A i \in 1..n : f[i] = step[i][f[i - 1]]

\* A recursion over the numbers to n has a solution.
LEMMA Recursion ==
    ASSUME NEW n \in Nat, NEW D, NEW d \in D, NEW step \in [1..n -> [D -> D]]
    PROVE  \E f : Solves(f, n, D, d, step)
<1> DEFINE Solved(k) ==
             \E f \in [0..k -> D] : f[0] = d /\ \A i \in 1..k : f[i] = step[i][f[i - 1]]
           T == {k \in 0..n : Solved(k)}
<1>1. 0 \in T
  <2> DEFINE f == [i \in 0..0 |-> d]
  <2>1. f \in [0..0 -> D] /\ f[0] = d /\ 1..0 = {}
    OBVIOUS
  <2> HIDE DEF f
  <2>2. Solved(0)
    BY <2>1
  <2> QED  BY <2>2
<1>2. ASSUME NEW k \in 0..(n - 1), k \in T
      PROVE  k + 1 \in T
  <2>1. PICK f \in [0..k -> D] : f[0] = d /\ \A i \in 1..k : f[i] = step[i][f[i - 1]]
    BY <1>2
  <2> DEFINE g == [i \in 0..(k + 1) |-> IF i = k + 1 THEN step[k + 1][f[k]] ELSE f[i]]
  <2>2. k + 1 \in 1..n /\ k \in 0..k /\ k + 1 \in 0..n
    OBVIOUS
  <2>3. f[k] \in D /\ step[k + 1] \in [D -> D] /\ step[k + 1][f[k]] \in D
    BY <2>2
  <2>4. ASSUME NEW i \in 0..(k + 1) PROVE g[i] \in D
    <3>1. CASE i = k + 1  BY <3>1, <2>3
    <3>2. CASE i # k + 1  BY <3>2
    <3> QED  BY <3>1, <3>2
  <2>5. g \in [0..(k + 1) -> D]
    BY <2>4
  <2>6. g[0] = d
    BY <2>1
  <2>7. ASSUME NEW i \in 1..(k + 1) PROVE g[i] = step[i][g[i - 1]]
    <3>1. i - 1 \in 0..(k + 1) /\ i - 1 # k + 1 /\ g[i - 1] = f[i - 1]
      OBVIOUS
    <3>2. CASE i = k + 1
      <4>1. i - 1 = k /\ g[i] = step[k + 1][f[k]]  BY <3>2
      <4> QED  BY <4>1, <3>1, <3>2
    <3>3. CASE i # k + 1
      <4>1. i \in 1..k /\ g[i] = f[i]  BY <3>3
      <4> QED  BY <4>1, <3>1, <2>1
    <3> QED  BY <3>2, <3>3
  <2> HIDE DEF g
  <2>8. Solved(k + 1)
    BY <2>5, <2>6, <2>7
  <2> QED  BY <2>2, <2>8
<1>3. n \in 0..n
  OBVIOUS
<1> HIDE DEF T
<1>4. n \in T
  BY <1>1, <1>2, <1>3, UpTo
<1> QED  BY <1>4 DEF T, Solves

-----------------------------------------------------------------------------
(* The list                                                                *)

\* The entries of a list are timers and words.
LEMMA ListEntries ==
    ASSUME NEW l \in Lists
    PROVE  /\ Len(l) \in Nat
           /\ \A i \in 1..Len(l) : /\ l[i] \in [who : Timers, time : 0..(Word - 1)]
                                   /\ l[i].who \in Timers /\ l[i].time \in 0..(Word - 1)
                                   /\ l[i].time \in Nat
<1>1. Len(l) \in Nat /\ \A i \in 1..Len(l) : l[i] \in [who : Timers, time : 0..(Word - 1)]
  BY ElementOfSeq, LenProperties DEF Lists
<1>2. \A x \in 0..(Word - 1) : x \in Nat
  BY Constants
<1> QED  BY <1>1, <1>2

\* The distances that the walk of sys_timeout subtracts add up along the list.
LEMMA TotalsSum ==
    ASSUME NEW l \in Lists
    PROVE  /\ Totals(l) \in [0..Len(l) -> Nat] /\ Totals(l)[0] = 0
           /\ \A i \in 1..Len(l) : Totals(l)[i] = Totals(l)[i - 1] + l[i].time
<1> DEFINE n == Len(l)
           Sum(f) == f = [i \in 0..n |-> IF i = 0 THEN 0 ELSE f[i - 1] + l[i].time]
           step == [i \in 1..n |-> [x \in Nat |-> x + l[i].time]]
<1>1. n \in Nat /\ \A i \in 1..n : l[i].time \in Nat
  BY ListEntries
<1> HIDE DEF n
<1>2. step \in [1..n -> [Nat -> Nat]]
  BY <1>1
<1>3. \A i \in 1..n : \A x \in Nat : step[i][x] = x + l[i].time
  BY <1>1
<1> HIDE DEF step
<1>4. PICK f \in [0..n -> Nat] : f[0] = 0 /\ \A i \in 1..n : f[i] = step[i][f[i - 1]]
  <2>1. 0 \in Nat /\ n \in Nat
    BY <1>1
  <2>2. \E f : Solves(f, n, Nat, 0, step)
    BY <1>2, <2>1, Recursion, Zenon
  <2> QED  BY <2>2 DEF Solves
<1>5. \A i \in 1..n : i - 1 \in 0..n /\ f[i - 1] \in Nat
  BY <1>1
<1>6. \A i \in 0..n : f[i] = IF i = 0 THEN 0 ELSE f[i - 1] + l[i].time
  <2>1. SUFFICES ASSUME NEW i \in 0..n, i # 0 PROVE f[i] = f[i - 1] + l[i].time
    BY <1>4
  <2>2. i \in 1..n
    BY <1>1, <2>1
  <2> QED  BY <1>3, <1>4, <1>5, <2>2
<1>7. Sum(f)
  BY <1>6
<1>8. Totals(l) = CHOOSE g : Sum(g)
  BY DEF Totals, n
<1> DEFINE g == Totals(l)
<1>9. Sum(g)
  BY <1>7, <1>8, Zenon
<1> HIDE DEF g
<1>10. DOMAIN g = 0..n /\ g[0] = 0
  BY <1>1, <1>9
<1>11. \A i \in 1..n : g[i] = g[i - 1] + l[i].time
  BY <1>1, <1>9
<1> DEFINE T == {i \in 0..n : g[i] \in Nat}
<1>12. 0 \in T
  BY <1>1, <1>10
<1>13. ASSUME NEW k \in 0..(n - 1), k \in T PROVE k + 1 \in T
  <2>1. k + 1 \in 1..n /\ (k + 1) - 1 = k /\ k + 1 \in 0..n
    BY <1>1
  <2>2. g[k + 1] = g[k] + l[k + 1].time
    BY <1>11, <2>1
  <2> QED  BY <1>1, <1>13, <2>1, <2>2
<1>14. \A i \in 0..n : i \in T
  <2> HIDE DEF T
  <2> QED  BY <1>1, <1>12, <1>13, UpTo
<1>15. g = [i \in 0..n |-> g[i]]
  BY <1>9
<1>16. g \in [0..n -> Nat]
  BY <1>14, <1>15
<1> QED  BY <1>10, <1>11, <1>16 DEF g, n

\* The distances behind the first entry, when it is taken off the list.
LEMMA TailTotals ==
    ASSUME NEW l \in Lists, Len(l) > 0
    PROVE  /\ Tail(l) \in Lists /\ Len(Tail(l)) = Len(l) - 1 /\ Head(l) = l[1]
           /\ \A i \in 1..Len(Tail(l)) :
                 Tail(l)[i] = l[i + 1] /\ Totals(Tail(l))[i] = Totals(l)[i + 1] - l[1].time
<1> DEFINE r == Tail(l)
           n == Len(l) - 1
<1>1. l # << >> /\ Len(l) \in Nat
  BY ListEntries
<1>2. r \in Lists /\ Len(r) = n /\ Head(l) = l[1] /\ \A i \in 1..n : r[i] = l[i + 1]
  BY <1>1, HeadTailProperties DEF Lists
<1>3. n \in Nat /\ Len(l) = n + 1
  BY <1>1
<1> HIDE DEF r, n
<1>4. /\ \A i \in 0..(n + 1) : Totals(l)[i] \in Nat
      /\ Totals(l)[0] = 0
      /\ \A i \in 1..(n + 1) : Totals(l)[i] = Totals(l)[i - 1] + l[i].time
  BY <1>3, TotalsSum
<1>5. /\ \A i \in 0..n : Totals(r)[i] \in Nat
      /\ Totals(r)[0] = 0
      /\ \A i \in 1..n : Totals(r)[i] = Totals(r)[i - 1] + r[i].time
  BY <1>2, TotalsSum
<1>6. \A i \in 1..(n + 1) : l[i].time \in Nat
  BY <1>3, ListEntries
<1> DEFINE T == {i \in 0..n : Totals(r)[i] = Totals(l)[i + 1] - l[1].time}
<1>7. 0 \in T
  <2>1. 1 \in 1..(n + 1)
    BY <1>3
  <2>2. Totals(l)[1] = l[1].time
    BY <2>1, <1>4, <1>6
  <2> QED  BY <1>3, <1>5, <1>6, <2>1, <2>2
<1>8. ASSUME NEW k \in 0..(n - 1), k \in T PROVE k + 1 \in T
  <2>1. /\ k + 1 \in 1..n /\ k + 1 \in 0..n /\ (k + 1) - 1 = k /\ (k + 1) + 1 \in 1..(n + 1)
        /\ ((k + 1) + 1) - 1 = k + 1 /\ k + 1 \in 0..(n + 1) /\ 1 \in 1..(n + 1)
    BY <1>3
  <2>2. Totals(r)[k + 1] = Totals(r)[k] + r[k + 1].time
    BY <1>5, <2>1
  <2>3. r[k + 1] = l[(k + 1) + 1]
    BY <1>2, <2>1
  <2>4. Totals(l)[(k + 1) + 1] = Totals(l)[k + 1] + l[(k + 1) + 1].time
    BY <1>4, <2>1
  <2>5. Totals(l)[k + 1] \in Nat /\ l[1].time \in Nat /\ l[(k + 1) + 1].time \in Nat
    BY <1>4, <1>6, <2>1
  <2>6. Totals(r)[k] = Totals(l)[k + 1] - l[1].time
    BY <1>8
  <2>7. Totals(r)[k + 1] = Totals(l)[(k + 1) + 1] - l[1].time
    BY <2>2, <2>3, <2>4, <2>5, <2>6
  <2> QED  BY <2>1, <2>7
<1>9. \A i \in 0..n : i \in T
  <2> HIDE DEF T
  <2> QED  BY <1>3, <1>7, <1>8, UpTo
<1>10. \A i \in 1..n : Totals(r)[i] = Totals(l)[i + 1] - l[1].time
  BY <1>3, <1>9
<1> QED  BY <1>2, <1>10 DEF r, n

\* What sys_timeout links in: the entries before the k-th stay, those after it
\* follow it.
LEMMA LinkedEntries ==
    ASSUME NEW l \in Lists, NEW k \in 1..(Len(l) + 1), NEW time \in Int,
           NEW e \in [who : Timers, time : 0..(Word - 1)]
    PROVE  LET r == Linked(l, k, e, time)
           IN  /\ r \in Lists /\ Len(r) = Len(l) + 1
               /\ \A j \in 1..(k - 1) : r[j] = l[j]
               /\ r[k] = e
               /\ k <= Len(l) => r[k + 1] = Sooner(l[k], time)
               /\ \A j \in (k + 2)..(Len(l) + 1) : r[j] = l[j - 1]
<1> DEFINE r == Linked(l, k, e, time)
           n == Len(l)
           E == [who : Timers, time : 0..(Word - 1)]
<1>1. n \in Nat /\ \A i \in 1..n : l[i] \in E /\ l[i].who \in Timers /\ l[i].time \in Nat
  BY ListEntries
<1>2. e \in E
  OBVIOUS
<1>3. k \in 1..(n + 1)
  OBVIOUS
<1>4. ASSUME k <= n PROVE Sooner(l[k], time) \in E
  <2>1. l[k].who \in Timers /\ l[k].time - time \in Int
    BY <1>1, <1>3, <1>4
  <2> QED  BY <2>1, WordRange DEF Sooner, Entry
<1> HIDE DEF E
<1>5. r = [j \in 1..(n + 1) |->
             IF j < k THEN l[j]
             ELSE IF j = k THEN e
             ELSE IF j = k + 1 THEN Sooner(l[k], time)
             ELSE l[j - 1]]
  BY DEF Linked
<1> HIDE DEF r, n
<1>6. ASSUME NEW j \in 1..(n + 1) PROVE r[j] \in E
  <2>1. CASE j < k
    <3>1. j \in 1..n  BY <1>1, <1>3, <2>1
    <3> QED  BY <1>1, <1>5, <2>1, <3>1
  <2>2. CASE j = k  BY <1>2, <1>3, <1>5, <2>2
  <2>3. CASE j = k + 1
    <3>1. k <= n /\ r[j] = Sooner(l[k], time)  BY <1>1, <1>3, <1>5, <2>3
    <3> QED  BY <3>1, <1>4
  <2>4. CASE j > k + 1
    <3>1. j - 1 \in 1..n /\ r[j] = l[j - 1]  BY <1>1, <1>3, <1>5, <2>4
    <3> QED  BY <1>1, <3>1
  <2> QED  BY <1>1, <1>3, <2>1, <2>2, <2>3, <2>4
<1>7. r \in [1..(n + 1) -> E]
  BY <1>5, <1>6
<1>8. r \in Seq(E) /\ Len(r) = n + 1
  BY <1>1, <1>7
<1>9. \A j \in 1..(k - 1) : r[j] = l[j]
  BY <1>1, <1>3, <1>5
<1>10. r[k] = e /\ (k <= n => r[k + 1] = Sooner(l[k], time))
  BY <1>1, <1>3, <1>5
<1>11. \A j \in (k + 2)..(n + 1) : r[j] = l[j - 1]
  BY <1>1, <1>3, <1>5
<1> QED  BY <1>8, <1>9, <1>10, <1>11 DEF r, n, E, Lists

\* The distances to the entries before the one that is linked in stay; those
\* after it grow by its time, less what is taken off.
LEMMA LinkedTotals ==
    ASSUME NEW l \in Lists, NEW k \in 1..(Len(l) + 1), NEW time \in Nat,
           NEW e \in [who : Timers, time : 0..(Word - 1)],
           k <= Len(l) => time <= l[k].time
    PROVE  LET r == Linked(l, k, e, time)
           IN  /\ \A j \in 0..(k - 1) : Totals(r)[j] = Totals(l)[j]
               /\ Totals(r)[k] = Totals(l)[k - 1] + e.time
               /\ \A j \in (k + 1)..(Len(l) + 1) :
                     Totals(r)[j] = (Totals(l)[j - 1] + e.time) - time
<1> DEFINE r == Linked(l, k, e, time)
           n == Len(l)
<1>1. /\ r \in Lists /\ Len(r) = n + 1 /\ k \in 1..(n + 1) /\ time \in Nat
      /\ \A j \in 1..(k - 1) : r[j] = l[j]
      /\ r[k] = e
      /\ k <= n => r[k + 1] = Sooner(l[k], time)
      /\ \A j \in (k + 2)..(n + 1) : r[j] = l[j - 1]
  BY LinkedEntries
<1>2. n \in Nat /\ \A i \in 1..n : l[i].time \in 0..(Word - 1) /\ l[i].time \in Nat
  BY ListEntries
<1>3. e.time \in Nat /\ time \in Nat
  BY Constants
<1>4. ASSUME k <= n PROVE r[k + 1].time = l[k].time - time
  <2>1. k \in 1..n  BY <1>1, <1>2, <1>4
  <2>2. l[k].time - time \in 0..(Word - 1)  BY <1>1, <1>2, <1>4, <2>1, Constants
  <2>3. r[k + 1].time = (l[k].time - time) % Word  BY <1>1, <1>4 DEF Sooner, Entry
  <2> QED  BY <2>2, <2>3, WordItself
<1> HIDE DEF r, n
<1>5. /\ \A i \in 0..n : Totals(l)[i] \in Nat
      /\ Totals(l)[0] = 0
      /\ \A i \in 1..n : Totals(l)[i] = Totals(l)[i - 1] + l[i].time
  BY TotalsSum DEF n
<1>6. /\ \A i \in 0..(n + 1) : Totals(r)[i] \in Nat
      /\ Totals(r)[0] = 0
      /\ \A i \in 1..(n + 1) : Totals(r)[i] = Totals(r)[i - 1] + r[i].time
  BY <1>1, TotalsSum
<1> DEFINE Is(j) == Totals(r)[j] = IF j < k THEN Totals(l)[j]
                                   ELSE IF j = k THEN Totals(l)[k - 1] + e.time
                                   ELSE (Totals(l)[j - 1] + e.time) - time
           T == {j \in 0..(n + 1) : Is(j)}
<1>7. 0 \in T
  BY <1>1, <1>2, <1>5, <1>6
<1>8. ASSUME NEW j \in 0..n, j \in T PROVE j + 1 \in T
  <2>1. /\ j + 1 \in 1..(n + 1) /\ j + 1 \in 0..(n + 1) /\ (j + 1) - 1 = j
    BY <1>2
  <2>2. Totals(r)[j + 1] = Totals(r)[j] + r[j + 1].time
    BY <1>6, <2>1
  <2>3. CASE j + 1 < k
    <3>1. j + 1 \in 1..n /\ j + 1 \in 1..(k - 1) /\ j < k  BY <1>1, <1>2, <2>1, <2>3
    <3>2. r[j + 1] = l[j + 1] /\ Totals(r)[j] = Totals(l)[j]  BY <1>1, <1>8, <3>1
    <3>3. Totals(l)[j + 1] = Totals(l)[j] + l[j + 1].time  BY <1>5, <2>1, <3>1
    <3> QED  BY <2>1, <2>2, <2>3, <3>2, <3>3
  <2>4. CASE j + 1 = k
    <3>1. j < k /\ k - 1 = j  BY <1>1, <1>2, <2>4
    <3>2. r[j + 1] = e /\ Totals(r)[j] = Totals(l)[j]  BY <1>1, <1>8, <2>4, <3>1
    <3>3. Totals(r)[j + 1] = Totals(l)[k - 1] + e.time  BY <2>2, <3>1, <3>2
    <3> QED  BY <2>1, <2>4, <3>3
  <2>5. CASE j = k
    <3>1. k \in 1..n /\ k <= n  BY <1>1, <1>2, <2>5
    <3>2. r[j + 1].time = l[k].time - time  BY <1>4, <2>5, <3>1
    <3>3. Totals(r)[j] = Totals(l)[k - 1] + e.time  BY <1>8, <2>5
    <3>4. Totals(l)[k] = Totals(l)[k - 1] + l[k].time  BY <1>5, <3>1
    <3>5. k - 1 \in 0..n /\ Totals(l)[k - 1] \in Nat /\ l[k].time \in Nat
      BY <1>2, <1>5, <3>1
    <3>6. Totals(r)[j + 1] = (Totals(l)[k] + e.time) - time
      BY <1>3, <2>2, <2>5, <3>2, <3>3, <3>4, <3>5, SMTT(30)
    <3> QED  BY <1>1, <1>2, <2>1, <2>5, <3>6
  <2>6. CASE j > k
    <3>1. /\ j \in 1..n /\ j - 1 \in 0..n /\ j + 1 \in (k + 2)..(n + 1)
      BY <1>1, <1>2, <2>6
    <3>2. r[j + 1] = l[j]  BY <1>1, <2>1, <3>1
    <3>3. Totals(r)[j] = (Totals(l)[j - 1] + e.time) - time  BY <1>1, <1>2, <1>8, <2>6
    <3>4. Totals(l)[j] = Totals(l)[j - 1] + l[j].time  BY <1>5, <3>1
    <3>5. Totals(l)[j - 1] \in Nat /\ l[j].time \in Nat  BY <1>2, <1>5, <3>1
    <3>6. Totals(r)[j + 1] = (Totals(l)[j] + e.time) - time
      BY <1>3, <2>2, <3>2, <3>3, <3>4, <3>5
    <3>7. ~(j + 1 < k) /\ j + 1 # k  BY <1>1, <1>2, <2>6
    <3> QED  BY <2>1, <3>6, <3>7
  <2> QED  BY <1>1, <1>2, <2>3, <2>4, <2>5, <2>6
<1>9. \A j \in 0..(n + 1) : Is(j)
  <2>1. n + 1 \in Nat /\ (n + 1) - 1 = n
    BY <1>2
  <2>2. \A j \in 0..(n + 1) : j \in T
    <3> HIDE DEF T
    <3> QED  BY <1>7, <1>8, <2>1, UpTo
  <2> QED  BY <2>2
<1>10. \A j \in 0..(k - 1) : Totals(r)[j] = Totals(l)[j]
  BY <1>1, <1>2, <1>9
<1>11. Totals(r)[k] = Totals(l)[k - 1] + e.time
  BY <1>1, <1>2, <1>9
<1>12. \A j \in (k + 1)..(n + 1) : Totals(r)[j] = (Totals(l)[j - 1] + e.time) - time
  BY <1>1, <1>2, <1>9
<1> QED  BY <1>10, <1>11, <1>12 DEF r, n

\* The walk of sys_timeout stops.
LEMMA WalkStops ==
    ASSUME NEW l \in Lists, Len(l) > 0, NEW due \in Int
    PROVE  /\ Place(l, due) \in 1..Len(l) /\ Stops(l, due, Place(l, due))
           /\ \A j \in 1..(Place(l, due) - 1) : ~Stops(l, due, j)
<1> DEFINE T == {i \in 1..Len(l) : Stops(l, due, i)}
           First(i) == Stops(l, due, i) /\ \A j \in 1..(i - 1) : ~Stops(l, due, j)
<1>1. Len(l) \in 1..Len(l) /\ Len(l) \in Nat
  BY ListEntries
<1>2. T \subseteq Nat /\ Len(l) \in T
  BY <1>1 DEF Stops
<1>3. PICK i \in T : \A j \in T : i <= j
  BY <1>2, LeastNatural
<1>4. i \in 1..Len(l) /\ Stops(l, due, i)
  OBVIOUS
<1>5. ASSUME NEW j \in 1..(i - 1) PROVE ~Stops(l, due, j)
  <2>1. j \in 1..Len(l) /\ ~(i <= j)  BY <1>1, <1>4
  <2> QED  BY <1>3, <2>1
<1>6. \E x \in 1..Len(l) : First(x)
  BY <1>4, <1>5
<1>7. Place(l, due) = CHOOSE x \in 1..Len(l) : First(x)
  BY DEF Place
<1>8. Place(l, due) \in 1..Len(l) /\ First(Place(l, due))
  <2> HIDE DEF First
  <2> QED  BY <1>6, <1>7, Zenon
<1> QED  BY <1>8

\* Nothing wraps on the way: where the walk stops, what is left is the time due
\* less the distance so far.
LEMMA WalkLeft ==
    ASSUME NEW l \in Lists, Len(l) > 0, NEW due \in 0..(Word - 1), l[1].time <= due
    PROVE  LET i == Place(l, due)
           IN  /\ i \in 1..Len(l) /\ Totals(l)[i] \in 0..due
               /\ Left(l, due, i) = due - Totals(l)[i]
               /\ i < Len(l) => Left(l, due, i) < l[i + 1].time
<1> DEFINE p == Place(l, due)
           n == Len(l)
<1>1. n \in Nat /\ due \in Nat /\ \A i \in 1..n : l[i].time \in Nat
  BY ListEntries, Constants
<1>2. p \in 1..n /\ Stops(l, due, p) /\ \A j \in 1..(p - 1) : ~Stops(l, due, j)
  BY WalkStops
<1>3. /\ \A i \in 0..n : Totals(l)[i] \in Nat
      /\ Totals(l)[0] = 0
      /\ \A i \in 1..n : Totals(l)[i] = Totals(l)[i - 1] + l[i].time
  BY TotalsSum
<1>4. ASSUME NEW j \in 1..n, Totals(l)[j] <= due
      PROVE  Left(l, due, j) = due - Totals(l)[j]
  <2>1. j \in 0..n /\ Totals(l)[j] \in Nat  BY <1>1, <1>3
  <2>2. due - Totals(l)[j] \in 0..(Word - 1)  BY <1>1, <1>4, <2>1, Constants
  <2> QED  BY <2>2, WordItself DEF Left
<1> HIDE DEF p, n
<1> DEFINE T == {j \in 0..n : j < p => Totals(l)[j + 1] <= due}
<1>5. 0 \in T
  <2>1. 1 \in 1..n /\ 1 - 1 = 0  BY <1>1, <1>2
  <2>2. Totals(l)[1] = l[1].time  BY <1>1, <1>3, <2>1
  <2> QED  BY <1>1, <2>2
<1>6. ASSUME NEW j \in 0..(p - 1), j \in T PROVE j + 1 \in T
  <2>1. j + 1 \in 0..n  BY <1>1, <1>2
  <2>2. SUFFICES ASSUME j + 1 < p PROVE Totals(l)[(j + 1) + 1] <= due
    BY <2>1
  <2>3. /\ j < p /\ j + 1 \in 1..(p - 1) /\ j + 1 \in 1..n /\ j + 1 \in 0..n
        /\ (j + 1) + 1 \in 1..n /\ ((j + 1) + 1) - 1 = j + 1 /\ j + 1 # n
    BY <1>1, <1>2, <2>2
  <2>4. Totals(l)[j + 1] <= due /\ Totals(l)[j + 1] \in Nat
    BY <1>3, <1>6, <2>3
  <2>5. Left(l, due, j + 1) = due - Totals(l)[j + 1]
    BY <1>4, <2>3, <2>4
  <2>6. ~(l[(j + 1) + 1].time > Left(l, due, j + 1))
    BY <1>2, <2>3 DEF Stops, n
  <2>7. Totals(l)[(j + 1) + 1] = Totals(l)[j + 1] + l[(j + 1) + 1].time
    BY <1>3, <2>3
  <2>8. l[(j + 1) + 1].time \in Nat
    BY <1>1, <2>3
  <2> QED  BY <1>1, <2>4, <2>5, <2>6, <2>7, <2>8
<1>7. \A j \in 0..p : j \in T
  <2>1. p \in Nat  BY <1>1, <1>2
  <2> HIDE DEF T
  <2> QED  BY <1>5, <1>6, <2>1, UpTo
<1>8. Totals(l)[p] <= due /\ Totals(l)[p] \in Nat
  <2>1. p - 1 \in 0..p /\ p - 1 < p /\ (p - 1) + 1 = p /\ p \in 0..n  BY <1>1, <1>2
  <2>2. p - 1 \in T  BY <1>7, <2>1
  <2> QED  BY <1>3, <2>1, <2>2
<1>9. Left(l, due, p) = due - Totals(l)[p]
  BY <1>2, <1>4, <1>8
<1>10. p < n => Left(l, due, p) < l[p + 1].time
  <2>1. SUFFICES ASSUME p < n PROVE l[p + 1].time > Left(l, due, p)
    <3>1. p < n => p + 1 \in 1..n  BY <1>1, <1>2
    <3> QED  BY <1>1, <1>8, <1>9, <3>1
  <2> QED  BY <1>1, <1>2, <2>1 DEF Stops, n
<1> QED  BY <1>1, <1>2, <1>8, <1>9, <1>10 DEF p, n

\* r is the list l with t as its k-th entry.
Inserts(l, r, t, k) ==
    /\ k \in 1..(Len(l) + 1) /\ r \in Lists /\ Len(r) = Len(l) + 1
    /\ r[k].who = t
    /\ \A j \in 1..(k - 1) : r[j].who = l[j].who
    /\ \A j \in (k + 1)..(Len(l) + 1) : r[j].who = l[j - 1].who

\* t waits for its interval in r, and no other waits for less than in l.
NoneSooner(l, r, t, k) ==
    /\ Totals(r)[k] >= Interval[t]
    /\ \A j \in 1..(k - 1) : Totals(r)[j] >= Totals(l)[j]
    /\ \A j \in (k + 1)..(Len(l) + 1) : Totals(r)[j] >= Totals(l)[j - 1]

\* What is linked in is inserted.
LEMMA LinkedInserts ==
    ASSUME NEW l \in Lists, NEW k \in 1..(Len(l) + 1), NEW time \in Int,
           NEW e \in [who : Timers, time : 0..(Word - 1)]
    PROVE  Inserts(l, Linked(l, k, e, time), e.who, k)
<1> DEFINE r == Linked(l, k, e, time)
           n == Len(l)
<1>1. /\ r \in Lists /\ Len(r) = n + 1
      /\ \A j \in 1..(k - 1) : r[j] = l[j]
      /\ r[k] = e
      /\ k <= n => r[k + 1] = Sooner(l[k], time)
      /\ \A j \in (k + 2)..(n + 1) : r[j] = l[j - 1]
  BY LinkedEntries
<1>2. n \in Nat /\ k \in 1..(n + 1)
  BY ListEntries
<1> HIDE DEF r
<1>3. ASSUME NEW j \in (k + 1)..(n + 1) PROVE r[j].who = l[j - 1].who
  <2>1. CASE j = k + 1
    <3>1. k <= n /\ j - 1 = k  BY <1>2, <2>1
    <3> QED  BY <1>1, <2>1, <3>1 DEF Sooner, Entry
  <2>2. CASE j # k + 1
    <3>1. j \in (k + 2)..(n + 1)  BY <1>2, <2>2
    <3> QED  BY <1>1, <3>1
  <2> QED  BY <2>1, <2>2
<1> QED  BY <1>1, <1>3 DEF Inserts, r

\* A new entry is a timer and a word.
LEMMA EntryType ==
    ASSUME NEW t \in Timers, NEW x \in Int
    PROVE  /\ Entry(t, x) \in [who : Timers, time : 0..(Word - 1)] /\ Entry(t, x).who = t
           /\ Entry(t, x).time = x % Word
BY WordRange DEF Entry

\* sys_timeout inserts the timer somewhere, however late the loop is.
LEMMA InsertedInserts ==
    ASSUME NEW l \in Lists, Len(l) > 0, NEW t \in Timers, NEW ago \in Int
    PROVE  \E k : Inserts(l, Inserted(l, t, ago), t, k)
<1> DEFINE m == Interval[t]
           due == (m + ago) % Word
           i == Place(l, due)
           left == Left(l, due, i)
           time == IF i = Len(l) THEN AtEnd(m, l[1].time, left) ELSE left
<1>1. m \in Nat /\ due \in Int
  <2>1. m \in Nat /\ m + ago \in Int /\ Word \in Nat  BY Constants
  <2>2. due \in 0..(Word - 1)  BY <2>1, WordRange
  <2> QED  BY <2>1, <2>2
<1>2. Inserted(l, t, ago) = IF l[1].time > m THEN Linked(l, 1, Entry(t, due), m)
                            ELSE Linked(l, i + 1, Entry(t, time), left)
  BY DEF Inserted
<1>3. Len(l) \in Nat /\ 1 \in 1..Len(l) /\ l[1].time \in Nat
  BY ListEntries
<1> HIDE DEF m, due
<1>4. i \in 1..Len(l)
  BY <1>1, WalkStops
<1> HIDE DEF i
<1>5. left \in Int
  <2>1. i \in 0..Len(l)  BY <1>3, <1>4
  <2>2. Totals(l)[i] \in Nat  BY <2>1, TotalsSum
  <2> QED  BY <1>1, <2>2, WordRange DEF Left
<1> HIDE DEF left
<1>6. time \in Int
  BY <1>1, <1>3, <1>5 DEF AtEnd
<1> HIDE DEF time
<1>7. CASE l[1].time > m
  <2>1. 1 \in 1..(Len(l) + 1) /\ m \in Int  BY <1>1, <1>3
  <2>2. Inserts(l, Linked(l, 1, Entry(t, due), m), t, 1)
    BY <1>1, <2>1, EntryType, LinkedInserts
  <2> QED  BY <1>2, <1>7, <2>2
<1>8. CASE ~(l[1].time > m)
  <2>1. i + 1 \in 1..(Len(l) + 1)  BY <1>3, <1>4
  <2>2. Inserts(l, Linked(l, i + 1, Entry(t, time), left), t, i + 1)
    BY <1>5, <1>6, <2>1, EntryType, LinkedInserts
  <2> QED  BY <1>2, <1>8, <2>2
<1> QED  BY <1>7, <1>8

\* And while the distance to lwIP's clock fits, it waits for its interval there
\* and none of the others sooner, wherever it is put: in front (compared without
\* the distance), within the list or at its end.
LEMMA InsertedNoneSooner ==
    ASSUME NEW l \in Lists, Len(l) > 0, NEW t \in Timers, NEW ago \in 0..(Period - 1)
    PROVE  \E k : /\ Inserts(l, Inserted(l, t, ago), t, k)
                  /\ NoneSooner(l, Inserted(l, t, ago), t, k)
<1> DEFINE m == Interval[t]
           due == (m + ago) % Word
           i == Place(l, due)
           left == Left(l, due, i)
           time == IF i = Len(l) THEN AtEnd(m, l[1].time, left) ELSE left
           n == Len(l)
<1>1. /\ m \in Nat /\ m + ago \in 0..(Word - 1) /\ m + m < Word /\ m + ago >= m
      /\ Word \in Nat /\ ago \in Nat
  BY Constants
<1>2. due = m + ago
  BY <1>1, WordItself
<1>3. Inserted(l, t, ago) = IF l[1].time > m THEN Linked(l, 1, Entry(t, due), m)
                            ELSE Linked(l, i + 1, Entry(t, time), left)
  BY DEF Inserted
<1>4. n \in Nat /\ n > 0 /\ 1 \in 1..n /\ l[1].time \in Nat
  BY ListEntries
<1>5. /\ \A j \in 0..n : Totals(l)[j] \in Nat
      /\ Totals(l)[0] = 0
  BY TotalsSum
<1> HIDE DEF due
<1>6. CASE l[1].time > m
  <2> DEFINE e == Entry(t, due)
             r == Linked(l, 1, e, m)
  <2>1. e \in [who : Timers, time : 0..(Word - 1)] /\ e.who = t /\ e.time = due
    <3>1. due \in Int /\ due % Word = due  BY <1>1, <1>2, WordItself, SMTT(30)
    <3> QED  BY <3>1, EntryType
  <2>2. 1 \in 1..(n + 1) /\ m \in Int  BY <1>1, <1>4
  <2> HIDE DEF e
  <2>3. Inserts(l, r, t, 1)
    BY <2>1, <2>2, LinkedInserts
  <2>4. /\ Totals(r)[1] = Totals(l)[1 - 1] + e.time
        /\ \A j \in (1 + 1)..(n + 1) : Totals(r)[j] = (Totals(l)[j - 1] + e.time) - m
    <3>1. m <= l[1].time  BY <1>1, <1>4, <1>6
    <3> QED  BY <1>1, <2>1, <2>2, <3>1, LinkedTotals, SMTT(30)
  <2> HIDE DEF r
  <2>5. Totals(r)[1] >= m
    BY <1>1, <1>2, <1>5, <2>1, <2>4
  <2>6. ASSUME NEW j \in (1 + 1)..(n + 1) PROVE Totals(r)[j] >= Totals(l)[j - 1]
    <3>1. j - 1 \in 0..n /\ Totals(l)[j - 1] \in Nat  BY <1>4, <1>5
    <3> QED  BY <1>1, <1>2, <2>1, <2>4, <3>1
  <2>7. NoneSooner(l, r, t, 1)
    BY <2>5, <2>6 DEF NoneSooner
  <2> QED  BY <1>3, <1>6, <2>3, <2>7 DEF e, r
<1>7. CASE ~(l[1].time > m)
  <2>1. l[1].time <= m /\ due \in 0..(Word - 1) /\ l[1].time <= due
    BY <1>1, <1>2, <1>4, <1>7
  <2>2. /\ i \in 1..n /\ Totals(l)[i] \in 0..due /\ left = due - Totals(l)[i]
        /\ i < n => left < l[i + 1].time
    BY <2>1, WalkLeft
  <2> HIDE DEF i, left
  <2>3. left \in Nat /\ left < Word
    BY <1>1, <2>1, <2>2
  <2>4. /\ time \in 0..(Word - 1) /\ time \in Nat /\ Totals(l)[i] + time >= m
        /\ i < n => time = left
    <3>1. CASE i = n /\ left > m
      <4>1. time = m + l[1].time  BY <1>1, <2>3, <3>1 DEF AtEnd
      <4> HIDE DEF time
      <4>2. time \in 0..(Word - 1) /\ time \in Nat /\ time >= m
        BY <1>1, <1>4, <2>1, <4>1, SMTT(30)
      <4>3. Totals(l)[i] \in Nat  BY <2>2
      <4> QED  BY <1>1, <1>4, <3>1, <4>2, <4>3
    <3>2. CASE ~(i = n /\ left > m)
      <4>1. time = left  BY <3>2 DEF AtEnd
      <4> HIDE DEF time
      <4>2. Totals(l)[i] \in Nat /\ Totals(l)[i] + left = due  BY <1>1, <1>2, <2>2
      <4> QED  BY <1>1, <1>2, <2>3, <4>1, <4>2
    <3> QED  BY <3>1, <3>2
  <2> DEFINE e == Entry(t, time)
             r == Linked(l, i + 1, e, left)
  <2> HIDE DEF time
  <2>5. e \in [who : Timers, time : 0..(Word - 1)] /\ e.who = t /\ e.time = time
    <3>1. time \in Int /\ time % Word = time  BY <2>4, WordItself
    <3> QED  BY <3>1, EntryType
  <2>6. i + 1 \in 1..(n + 1) /\ left \in Int /\ (i + 1) - 1 = i  BY <1>4, <2>2, <2>3
  <2> HIDE DEF e
  <2>7. Inserts(l, r, t, i + 1)
    BY <2>5, <2>6, LinkedInserts
  <2>8. /\ \A j \in 0..((i + 1) - 1) : Totals(r)[j] = Totals(l)[j]
        /\ Totals(r)[i + 1] = Totals(l)[(i + 1) - 1] + e.time
        /\ \A j \in ((i + 1) + 1)..(n + 1) : Totals(r)[j] = (Totals(l)[j - 1] + e.time) - left
    <3>1. i + 1 <= n => left <= l[i + 1].time
      <4>1. i + 1 <= n => l[i + 1].time \in Nat  BY <1>4, <2>2, ListEntries
      <4> QED  BY <1>4, <2>2, <2>3, <4>1
    <3> QED  BY <2>3, <2>5, <2>6, <3>1, LinkedTotals
  <2> HIDE DEF r
  <2>9. Totals(r)[i + 1] >= m
    BY <2>4, <2>5, <2>6, <2>8
  <2>10. ASSUME NEW j \in 1..((i + 1) - 1) PROVE Totals(r)[j] >= Totals(l)[j]
    <3>1. j \in 0..((i + 1) - 1) /\ Totals(l)[j] \in Nat  BY <1>4, <1>5, <2>2
    <3> QED  BY <2>8, <3>1
  <2>11. ASSUME NEW j \in ((i + 1) + 1)..(n + 1) PROVE Totals(r)[j] >= Totals(l)[j - 1]
    <3>1. j - 1 \in 0..n /\ Totals(l)[j - 1] \in Nat /\ i < n  BY <1>4, <1>5, <2>2
    <3>2. Totals(r)[j] = (Totals(l)[j - 1] + left) - left  BY <2>4, <2>5, <2>8, <3>1
    <3> QED  BY <2>3, <3>1, <3>2
  <2>12. NoneSooner(l, r, t, i + 1)
    BY <2>9, <2>10, <2>11 DEF NoneSooner
  <2> QED  BY <1>3, <1>7, <2>7, <2>12 DEF e, r
<1> QED  BY <1>6, <1>7

\* Whose entries are in the list, and that none has two.
Whos(l) == {l[i].who : i \in 1..Len(l)}
Once(l) == \A i, j \in 1..Len(l) : l[i].who = l[j].who => i = j

\* Every entry of l is at least as far away as its interval, from when it was
\* armed.
Waiting(l, s) == \A i \in 1..Len(l) : s[l[i].who] + Totals(l)[i] >= Interval[l[i].who]

\* An insertion adds the timer, once if it was not there.
LEMMA InsertsOnce ==
    ASSUME NEW l \in Lists, Once(l), NEW t, t \notin Whos(l), NEW r, NEW k, Inserts(l, r, t, k)
    PROVE  Once(r) /\ Whos(r) = Whos(l) \cup {t}
<1> DEFINE n == Len(l)
           Old(j) == IF j < k THEN j ELSE j - 1
<1>1. /\ n \in Nat /\ k \in 1..(n + 1) /\ Len(r) = n + 1 /\ r[k].who = t
      /\ \A j \in 1..(k - 1) : r[j].who = l[j].who
      /\ \A j \in (k + 1)..(n + 1) : r[j].who = l[j - 1].who
  BY ListEntries DEF Inserts
<1>2. \A i \in 1..n : l[i].who # t
  BY DEF Whos
<1> HIDE DEF n
<1>3. ASSUME NEW j \in 1..(n + 1), j # k
      PROVE  Old(j) \in 1..n /\ r[j].who = l[Old(j)].who
  <2>1. CASE j < k
    <3>1. j \in 1..(k - 1) /\ j \in 1..n  BY <1>1, <2>1
    <3> QED  BY <1>1, <2>1, <3>1
  <2>2. CASE ~(j < k)
    <3>1. j \in (k + 1)..(n + 1) /\ j - 1 \in 1..n  BY <1>1, <1>3, <2>2
    <3> QED  BY <1>1, <2>2, <3>1
  <2> QED  BY <2>1, <2>2
<1>4. ASSUME NEW i \in 1..(n + 1), NEW j \in 1..(n + 1), i # k, j # k, Old(i) = Old(j)
      PROVE  i = j
  BY <1>1, <1>4
<1>5. ASSUME NEW i \in 1..n PROVE \E j \in 1..(n + 1) : j # k /\ Old(j) = i
  <2>1. CASE i < k
    <3>1. i \in 1..(n + 1) /\ i # k /\ Old(i) = i  BY <1>1, <2>1
    <3> QED  BY <3>1
  <2>2. CASE ~(i < k)
    <3>1. i + 1 \in 1..(n + 1) /\ i + 1 # k /\ Old(i + 1) = i  BY <1>1, <2>2
    <3> QED  BY <3>1
  <2> QED  BY <2>1, <2>2
<1> HIDE DEF Old
<1>6. Once(r)
  <2>1. SUFFICES ASSUME NEW i \in 1..(n + 1), NEW j \in 1..(n + 1), r[i].who = r[j].who
                 PROVE  i = j
    BY <1>1 DEF Once
  <2>2. CASE i = k \/ j = k  BY <1>1, <1>2, <1>3, <2>1, <2>2
  <2>3. CASE i # k /\ j # k
    <3>1. Old(i) \in 1..n /\ Old(j) \in 1..n /\ l[Old(i)].who = l[Old(j)].who
      BY <1>3, <2>1, <2>3
    <3>2. Old(i) = Old(j)  BY <3>1 DEF Once, n
    <3> QED  BY <1>4, <2>3, <3>2
  <2> QED  BY <2>2, <2>3
<1>7. Whos(r) \subseteq Whos(l) \cup {t}
  <2>1. SUFFICES ASSUME NEW j \in 1..(n + 1), j # k PROVE r[j].who \in Whos(l)
    BY <1>1 DEF Whos
  <2> QED  BY <1>3, <2>1 DEF Whos, n
<1>8. t \in Whos(r)
  BY <1>1 DEF Whos
<1>9. Whos(l) \subseteq Whos(r)
  <2>1. SUFFICES ASSUME NEW i \in 1..n PROVE l[i].who \in Whos(r)
    BY DEF Whos, n
  <2>2. PICK j \in 1..(n + 1) : j # k /\ Old(j) = i  BY <1>5
  <2>3. r[j].who = l[i].who  BY <1>3, <2>2
  <2> QED  BY <1>1, <2>3 DEF Whos
<1> QED  BY <1>6, <1>7, <1>8, <1>9

\* And it lets none run early.
LEMMA InsertsWaiting ==
    ASSUME NEW l \in Lists, NEW t \in Timers, NEW r, NEW k, NEW s \in [Timers -> Nat],
           Inserts(l, r, t, k), NoneSooner(l, r, t, k), Waiting(l, s)
    PROVE  Waiting(r, s)
<1> DEFINE n == Len(l)
<1>1. /\ n \in Nat /\ k \in 1..(n + 1) /\ r \in Lists /\ Len(r) = n + 1 /\ r[k].who = t
      /\ \A j \in 1..(k - 1) : r[j].who = l[j].who
      /\ \A j \in (k + 1)..(n + 1) : r[j].who = l[j - 1].who
  BY ListEntries DEF Inserts
<1>2. /\ Totals(r)[k] >= Interval[t]
      /\ \A j \in 1..(k - 1) : Totals(r)[j] >= Totals(l)[j]
      /\ \A j \in (k + 1)..(n + 1) : Totals(r)[j] >= Totals(l)[j - 1]
  BY DEF NoneSooner
<1>3. \A j \in 1..n : /\ l[j].who \in Timers /\ Totals(l)[j] \in Nat
                      /\ s[l[j].who] + Totals(l)[j] >= Interval[l[j].who]
  <2>1. \A j \in 1..n : j \in 0..n  BY <1>1
  <2> QED  BY <2>1, ListEntries, TotalsSum DEF Waiting
<1>4. \A j \in 1..(n + 1) : Totals(r)[j] \in Nat
  <2>1. \A j \in 1..(n + 1) : j \in 0..(n + 1)  BY <1>1
  <2> QED  BY <1>1, <2>1, TotalsSum
<1>5. \A w \in Timers : s[w] \in Nat /\ Interval[w] \in Nat
  BY Constants
<1> HIDE DEF n
<1>6. ASSUME NEW j \in 1..(n + 1) PROVE s[r[j].who] + Totals(r)[j] >= Interval[r[j].who]
  <2>1. CASE j = k  BY <1>1, <1>2, <1>4, <1>5, <2>1
  <2>2. CASE j < k
    <3>1. j \in 1..(k - 1) /\ j \in 1..n  BY <1>1, <2>2
    <3>2. r[j].who = l[j].who /\ Totals(r)[j] >= Totals(l)[j]  BY <1>1, <1>2, <3>1
    <3> QED  BY <1>3, <1>4, <1>5, <3>1, <3>2
  <2>3. CASE j > k
    <3>1. j \in (k + 1)..(n + 1) /\ j - 1 \in 1..n  BY <1>1, <2>3
    <3>2. r[j].who = l[j - 1].who /\ Totals(r)[j] >= Totals(l)[j - 1]  BY <1>1, <1>2, <3>1
    <3> QED  BY <1>3, <1>4, <1>5, <3>1, <3>2
  <2> QED  BY <1>1, <2>1, <2>2, <2>3
<1> QED  BY <1>1, <1>6 DEF Waiting

\* Without its first entry the list holds the others, once each.
LEMMA TailOnce ==
    ASSUME NEW l \in Lists, Len(l) > 0, Once(l)
    PROVE  Once(Tail(l)) /\ Whos(Tail(l)) = Whos(l) \ {l[1].who}
<1> DEFINE r == Tail(l)
           n == Len(l) - 1
<1>1. n \in Nat /\ Len(l) = n + 1 /\ Len(r) = n /\ \A i \in 1..n : r[i] = l[i + 1]
  BY ListEntries, TailTotals
<1>2. \A i, j \in 1..(n + 1) : l[i].who = l[j].who => i = j
  BY <1>1 DEF Once
<1> HIDE DEF r, n
<1>3. \A i \in 1..n : i + 1 \in 1..(n + 1) /\ i + 1 # 1 /\ 1 \in 1..(n + 1)
  BY <1>1
<1>4. Once(r)
  <2>1. SUFFICES ASSUME NEW i \in 1..n, NEW j \in 1..n, r[i].who = r[j].who PROVE i = j
    BY <1>1 DEF Once
  <2>2. i + 1 = j + 1  BY <1>1, <1>2, <1>3, <2>1
  <2> QED  BY <1>1, <2>2
<1>5. Whos(r) = {l[i + 1].who : i \in 1..n}
  BY <1>1 DEF Whos
<1>6. \A i \in 1..n : l[i + 1].who # l[1].who
  BY <1>2, <1>3
<1>7. \A j \in 1..(n + 1) : j = 1 \/ (j - 1 \in 1..n /\ (j - 1) + 1 = j)
  BY <1>1
<1>8. Whos(l) = {l[j].who : j \in 1..(n + 1)}
  BY <1>1 DEF Whos
<1>9. Whos(r) \subseteq Whos(l) \ {l[1].who}
  BY <1>3, <1>5, <1>6, <1>8
<1>10. Whos(l) \ {l[1].who} \subseteq Whos(r)
  BY <1>5, <1>7, <1>8
<1> QED  BY <1>4, <1>9, <1>10 DEF r

\* And when lwIP's clock has moved to the first entry the others still wait for
\* what is left of their intervals.
LEMMA TailWaiting ==
    ASSUME NEW l \in Lists, Len(l) > 0, Once(l), NEW s \in [Timers -> Nat], Waiting(l, s)
    PROVE  LET e == l[1]
               z == [t \in Timers |-> IF t = e.who THEN 0 ELSE Least(s[t] + e.time, Interval[t])]
           IN  z \in [Timers -> Nat] /\ Waiting(Tail(l), z)
<1> DEFINE e == l[1]
           z == [t \in Timers |-> IF t = e.who THEN 0 ELSE Least(s[t] + e.time, Interval[t])]
           r == Tail(l)
           n == Len(l) - 1
<1>1. /\ n \in Nat /\ Len(l) = n + 1 /\ Len(r) = n
      /\ \A i \in 1..n : r[i] = l[i + 1] /\ Totals(r)[i] = Totals(l)[i + 1] - e.time
  BY ListEntries, TailTotals
<1>2. \A i \in 1..(n + 1) : l[i].who \in Timers /\ l[i].time \in Nat
  BY <1>1, ListEntries
<1>3. \A i \in 1..n : Totals(r)[i] \in Nat
  <2>1. r \in Lists  BY TailTotals
  <2>2. \A i \in 1..n : i \in 0..n  BY <1>1
  <2> QED  BY <1>1, <2>1, <2>2, TotalsSum
<1>4. \A i \in 1..(n + 1) : s[l[i].who] + Totals(l)[i] >= Interval[l[i].who]
  BY <1>1 DEF Waiting
<1>5. \A t \in Timers : s[t] \in Nat /\ Interval[t] \in Nat
  BY Constants
<1>6. e.time \in Nat
  BY <1>1, <1>2
<1>7. \A i, j \in 1..(n + 1) : l[i].who = l[j].who => i = j
  BY <1>1 DEF Once
<1>8. z \in [Timers -> Nat]
  BY <1>5, <1>6 DEF Least
<1>9. \A t \in Timers : t # e.who => z[t] = Least(s[t] + e.time, Interval[t])
  OBVIOUS
<1> HIDE DEF r, n, z
<1>10. ASSUME NEW i \in 1..n PROVE z[r[i].who] + Totals(r)[i] >= Interval[r[i].who]
  <2>1. i + 1 \in 1..(n + 1) /\ 1 \in 1..(n + 1) /\ i + 1 # 1  BY <1>1
  <2> DEFINE w == l[i + 1].who
  <2>2. w \in Timers /\ w # e.who /\ r[i].who = w  BY <1>1, <1>2, <1>7, <2>1
  <2>3. z[w] = Least(s[w] + e.time, Interval[w])  BY <1>9, <2>2
  <2>4. s[w] + Totals(l)[i + 1] >= Interval[w]  BY <1>4, <2>1
  <2>5. s[w] \in Nat /\ Interval[w] \in Nat /\ Totals(r)[i] \in Nat  BY <1>3, <1>5, <2>2
  <2>6. Totals(l) \in [0..Len(l) -> Nat] /\ i + 1 \in 0..Len(l)  BY <1>1, <2>1, TotalsSum
  <2>7. Totals(r)[i] = Totals(l)[i + 1] - e.time /\ Totals(l)[i + 1] \in Nat  BY <1>1, <2>6
  <2> HIDE DEF w, e
  <2>8. z[w] + Totals(r)[i] >= Interval[w]
    BY <1>6, <2>3, <2>4, <2>5, <2>7 DEF Least
  <2> QED  BY <2>2, <2>8
<1>11. Waiting(r, z)
  BY <1>1, <1>10 DEF Waiting
<1> QED  BY <1>8, <1>11 DEF z, r

\* The list with the first n cyclic timers armed at once.
Armed(l, n) ==
    /\ l \in Lists /\ Len(l) > 0 /\ Once(l)
    /\ Whos(l) = {lwip_cyclic_timers[j] : j \in 1..n}
    /\ Waiting(l, [t \in Timers |-> 0])

\* sys_timeouts_init arms the first one in an empty list.
LEMMA FirstArmed ==
    LET t == lwip_cyclic_timers[1] IN Armed(<<Entry(t, Interval[t])>>, 1)
<1> DEFINE t == lwip_cyclic_timers[1]
           e == Entry(t, Interval[t])
           l == <<e>>
<1>1. t \in Timers
  BY TimersAssumption DEF Cyclic, Timers
<1>2. Interval[t] \in Nat /\ Interval[t] \in 0..(Word - 1)
  BY <1>1, Constants
<1>3. e \in [who : Timers, time : 0..(Word - 1)] /\ e.who = t /\ e.time = Interval[t]
  <2>1. Interval[t] \in Int /\ Interval[t] % Word = Interval[t]  BY <1>2, WordItself
  <2> QED  BY <1>1, <2>1, EntryType
<1> HIDE DEF e
<1>4. l \in Lists /\ Len(l) = 1 /\ l[1] = e
  BY <1>3 DEF Lists
<1> HIDE DEF l
<1>5. 1..1 = {1} /\ 1 \in 1..1 /\ 1 - 1 = 0
  OBVIOUS
<1>6. Once(l)
  BY <1>4, <1>5 DEF Once
<1>7. Whos(l) = {lwip_cyclic_timers[j] : j \in 1..1}
  BY <1>3, <1>4, <1>5 DEF Whos
<1>8. Totals(l)[1] = Interval[t]
  <2>1. Totals(l)[0] = 0 /\ Totals(l)[1] = Totals(l)[0] + l[1].time
    BY <1>4, <1>5, TotalsSum
  <2> QED  BY <1>2, <1>3, <1>4, <2>1
<1>9. Waiting(l, [w \in Timers |-> 0])
  <2>1. [w \in Timers |-> 0][t] + Totals(l)[1] >= Interval[t]  BY <1>1, <1>2, <1>8
  <2> QED  BY <1>3, <1>4, <1>5, <2>1 DEF Waiting
<1> QED  BY <1>4, <1>6, <1>7, <1>9 DEF Armed, l, e

\* And each of the others in a list that does not hold it yet.
LEMMA NextArmed ==
    ASSUME NEW n \in 1..(Len(lwip_cyclic_timers) - 1), NEW l, Armed(l, n)
    PROVE  Armed(Inserted(l, lwip_cyclic_timers[n + 1], 0), n + 1)
<1> DEFINE c == lwip_cyclic_timers
           t == c[n + 1]
           r == Inserted(l, t, 0)
           z == [w \in Timers |-> 0]
<1>1. n + 1 \in 1..Len(c) /\ n \in Nat /\ Len(c) \in Nat
  BY TimersAssumption
<1>2. t \in Timers
  BY <1>1 DEF Cyclic, Timers
<1>3. l \in Lists /\ Len(l) > 0 /\ Once(l) /\ Whos(l) = {c[j] : j \in 1..n} /\ Waiting(l, z)
  BY DEF Armed
<1>4. 0 \in 0..(Period - 1)
  BY Constants
<1>5. z \in [Timers -> Nat]
  OBVIOUS
<1> HIDE DEF r, z
<1>6. PICK k : Inserts(l, r, t, k) /\ NoneSooner(l, r, t, k)
  BY <1>2, <1>3, <1>4, InsertedNoneSooner DEF r
<1>7. t \notin Whos(l)
  <2>1. \A j \in 1..n : j \in 1..Len(c) /\ j # n + 1  BY <1>1
  <2>2. \A j \in 1..n : c[j] # c[n + 1]  BY <1>1, <2>1, TimersAssumption
  <2> QED  BY <1>3, <2>2
<1>8. Once(r) /\ Whos(r) = Whos(l) \cup {t}
  BY <1>3, <1>6, <1>7, InsertsOnce
<1>9. Waiting(r, z)
  BY <1>2, <1>3, <1>5, <1>6, InsertsWaiting
<1>10. Whos(r) = {c[j] : j \in 1..(n + 1)}
  <2>1. \A j \in 1..(n + 1) : j \in 1..n \/ j = n + 1  BY <1>1
  <2>2. \A j \in 1..n : j \in 1..(n + 1)  BY <1>1
  <2>3. n + 1 \in 1..(n + 1)  BY <1>1
  <2> HIDE DEF c
  <2> QED  BY <1>3, <1>8, <2>1, <2>2, <2>3
<1>11. r \in Lists /\ Len(r) > 0
  <2>1. r \in Lists /\ Len(r) = Len(l) + 1  BY <1>6 DEF Inserts
  <2> QED  BY <1>3, <2>1, ListEntries
<1> QED  BY <1>8, <1>9, <1>10, <1>11 DEF Armed, r, z

\* sys_timeouts_init arms them all.
LEMMA InitArmed == Armed(sys_timeouts_init, Len(lwip_cyclic_timers))
<1> DEFINE c == lwip_cyclic_timers
           n == Len(c) - 1
           D == {l \in Lists : Len(l) > 0}
           d == <<Entry(c[1], Interval[c[1]])>>
           step == [i \in 1..n |-> [x \in D |-> Inserted(x, c[i + 1], 0)]]
           Builds(f) == f = [i \in 1..(n + 1) |-> IF i = 1 THEN d
                                                  ELSE Inserted(f[i - 1], c[i], 0)]
<1>1. n \in Nat /\ n > 0 /\ Len(c) = n + 1
  BY TimersAssumption
<1>2. Armed(d, 1)
  BY FirstArmed
<1>3. \A k \in 1..n : \A l : Armed(l, k) => Armed(Inserted(l, c[k + 1], 0), k + 1)
  BY NextArmed
<1>4. d \in D
  BY <1>2 DEF Armed
<1>5. ASSUME NEW i \in 1..n, NEW x \in D PROVE Inserted(x, c[i + 1], 0) \in D
  <2>1. i + 1 \in 1..Len(c)  BY <1>1
  <2>2. c[i + 1] \in Timers  BY <2>1 DEF Cyclic, Timers
  <2>3. PICK k : Inserts(x, Inserted(x, c[i + 1], 0), c[i + 1], k)
    BY <2>2, InsertedInserts
  <2>4. Inserted(x, c[i + 1], 0) \in Lists /\ Len(Inserted(x, c[i + 1], 0)) = Len(x) + 1
    BY <2>3 DEF Inserts
  <2> QED  BY <2>4, ListEntries
<1>6. sys_timeouts_init = (CHOOSE f : Builds(f))[n + 1]
  BY <1>1 DEF sys_timeouts_init
<1> HIDE DEF n, d, D, c
<1>7. step \in [1..n -> [D -> D]]
  BY <1>5
<1>8. \A i \in 1..n : \A x \in D : step[i][x] = Inserted(x, c[i + 1], 0)
  OBVIOUS
<1> HIDE DEF step
<1>9. \E f : Solves(f, n, D, d, step)
  BY <1>1, <1>4, <1>7, Recursion, Zenon
<1>10. PICK f \in [0..n -> D] : f[0] = d /\ \A i \in 1..n : f[i] = step[i][f[i - 1]]
  BY <1>9 DEF Solves
<1> DEFINE g == [i \in 1..(n + 1) |-> f[i - 1]]
<1>11. ASSUME NEW i \in 1..(n + 1)
       PROVE  g[i] = IF i = 1 THEN d ELSE Inserted(g[i - 1], c[i], 0)
  <2>1. CASE i = 1  BY <1>10, <2>1
  <2>2. CASE i # 1
    <3>1. /\ i - 1 \in 1..n /\ (i - 1) - 1 \in 0..n /\ i - 1 \in 1..(n + 1)
          /\ (i - 1) + 1 = i
      BY <1>1, <2>2
    <3>2. g[i] = f[i - 1] /\ g[i - 1] = f[(i - 1) - 1] /\ f[(i - 1) - 1] \in D
      BY <3>1
    <3>3. f[i - 1] = Inserted(f[(i - 1) - 1], c[i], 0)
      BY <1>8, <1>10, <3>1, <3>2
    <3> QED  BY <2>2, <3>2, <3>3
  <2> QED  BY <2>1, <2>2
<1>12. Builds(g)
  BY <1>11
<1> HIDE DEF g
<1> DEFINE h == CHOOSE x : Builds(x)
<1>13. Builds(h)
  BY <1>12, Zenon
<1> HIDE DEF h
<1>14. /\ h[1] = d
       /\ \A i \in 1..n : h[i + 1] = Inserted(h[i], c[i + 1], 0)
  <2>1. 1 \in 1..(n + 1)  BY <1>1
  <2>2. \A i \in 1..n : i + 1 \in 1..(n + 1) /\ i + 1 # 1 /\ (i + 1) - 1 = i  BY <1>1
  <2> QED  BY <1>13, <2>1, <2>2
<1> DEFINE T == {i \in 0..n : Armed(h[i + 1], i + 1)}
<1>15. 0 \in T
  BY <1>1, <1>2, <1>14
<1>16. ASSUME NEW k \in 0..(n - 1), k \in T PROVE k + 1 \in T
  <2>1. k + 1 \in 1..n /\ k + 1 \in 0..n  BY <1>1
  <2>2. Armed(h[k + 1], k + 1)  BY <1>16
  <2>3. Armed(h[(k + 1) + 1], (k + 1) + 1)
    BY <1>3, <1>14, <2>1, <2>2
  <2> QED  BY <2>1, <2>3
<1>17. n \in T
  <2>1. n \in 0..n  BY <1>1
  <2> HIDE DEF T
  <2> QED  BY <1>1, <1>15, <1>16, <2>1, UpTo
<1> QED  BY <1>1, <1>6, <1>17 DEF c, h

-----------------------------------------------------------------------------
(* The invariants                                                          *)

\* The time that has passed since lwIP's clock is what lag says, and the clock
\* with what sys_check_timeouts still has to work off is not ahead of the tick.
ClockInv ==
    IF wrapped THEN lag = 0
    ELSE /\ lag = cyccnt - timeouts_last_time
         /\ timeouts_last_time <= HAL_GetTick
         /\ diff >= 0 => timeouts_last_time + diff <= HAL_GetTick

\* The wait began in the step of the tick that t0 says.
WaitInv ==
    waited # -1 =>
        /\ t0 \in 0..HAL_GetTick
        /\ IF waited = TooLong THEN cyccnt - t0 >= TooLong
           ELSE cyccnt - waited \in t0..(t0 + Second - 1)

\* The inductive invariant.
TimersInv == TypeOK /\ ArmedOnce /\ ClockInv /\ NotEarly /\ WaitInv

\* The tick is at most a step behind the cycle counter (HAL_GetTick).
LEMMA TickBounds ==
    ASSUME NEW c \in Nat
    PROVE  LET tick == (c \div Second) * Second
           IN  tick \in Nat /\ tick <= c /\ c < tick + Second
<1>1. c \div Second \in Int /\ c % Second \in 0..(Second - 1)  BY Constants
<1>2. c = Second * (c \div Second) + (c % Second)  BY Constants
<1> DEFINE q == c \div Second
           m == c % Second
<1> HIDE DEF q, m
<1>3. q \in Int /\ m \in 0..(Second - 1) /\ c = Second * q + m /\ Second \in Nat /\ Second > 0
  BY <1>1, <1>2, Constants DEF q, m
<1>4. q * Second \in Int /\ q * Second = c - m  BY <1>3
<1>5. q >= 0
  <2>1. SUFFICES ASSUME q <= -1 PROVE FALSE  BY <1>3
  <2>2. Second * (-1 - q) >= 0  BY <1>3, <2>1
  <2> QED  BY <1>3, <2>2
<1>6. q * Second >= 0  BY <1>3, <1>5
<1> QED  BY <1>3, <1>4, <1>6 DEF q

\* And it does not fall while the counter rises.
LEMMA TickMonotone ==
    ASSUME NEW a \in Nat, NEW b \in Nat, a <= b
    PROVE  (a \div Second) * Second <= (b \div Second) * Second
<1> DEFINE p == a \div Second
           q == b \div Second
<1>1. p \in Int /\ q \in Int /\ Second \in Nat /\ Second > 0  BY Constants
<1>2. p * Second <= a /\ a < p * Second + Second  BY TickBounds
<1>3. q * Second <= b /\ b < q * Second + Second  BY TickBounds
<1> HIDE DEF p, q
<1>4. CASE p <= q
  <2>1. (q - p) * Second >= 0  BY <1>1, <1>4
  <2> QED  BY <1>1, <2>1 DEF p, q
<1>5. CASE q <= p - 1
  <2>1. ((p - 1) - q) * Second >= 0  BY <1>1, <1>5
  <2>2. p * Second - Second - q * Second >= 0  BY <1>1, <2>1
  <2> QED  BY <1>1, <1>2, <1>3, <2>2
<1> QED  BY <1>1, <1>4, <1>5

\* The tick in a state.
LEMMA TickType ==
    ASSUME TypeOK
    PROVE  /\ HAL_GetTick \in Nat /\ HAL_GetTick <= cyccnt /\ cyccnt < HAL_GetTick + Second
           /\ cyccnt \in Nat /\ cyccnt < Period /\ HAL_GetTick < Period
           /\ HAL_GetTick \in 0..(Word - 1)
<1>1. cyccnt \in Nat /\ cyccnt < Period
  BY Constants DEF TypeOK
<1>2. HAL_GetTick \in Nat /\ HAL_GetTick <= cyccnt /\ cyccnt < HAL_GetTick + Second
  BY <1>1, TickBounds DEF HAL_GetTick
<1> QED  BY <1>1, <1>2, Constants

\* A difference of ticks is a word, and exact when it is not negative (sys_now in
\* sys_check_timeouts, sys_timeout and Firmware_Update).
LEMMA SinceType ==
    ASSUME TypeOK, NEW t \in 0..(Word - 1)
    PROVE  /\ Since(t) \in 0..(Word - 1)
           /\ t <= HAL_GetTick => Since(t) = HAL_GetTick - t /\ Since(t) \in 0..(Period - 1)
<1>1. HAL_GetTick \in Nat /\ HAL_GetTick < Period /\ HAL_GetTick \in 0..(Word - 1) /\ t \in Nat
  BY TickType, Constants
<1>2. Since(t) \in 0..(Word - 1)
  BY <1>1, WordRange DEF Since
<1>3. ASSUME t <= HAL_GetTick
      PROVE  Since(t) = HAL_GetTick - t /\ Since(t) \in 0..(Period - 1)
  <2>1. HAL_GetTick - t \in 0..(Word - 1) /\ HAL_GetTick - t \in 0..(Period - 1)
    BY <1>1, <1>3, Constants
  <2>2. Since(t) = HAL_GetTick - t  BY <2>1, WordItself DEF Since
  <2> QED  BY <2>1, <2>2
<1> QED  BY <1>2, <1>3

\* The list always has two entries: the cyclic timers are armed.
LEMMA TheList ==
    ASSUME TypeOK, ArmedOnce
    PROVE  /\ next_timeout \in Lists /\ Len(next_timeout) > 1 /\ Once(next_timeout)
           /\ Whos(next_timeout) = Cyclic \cup (IF active THEN {Tcp} ELSE {})
<1>1. next_timeout \in Lists /\ Once(next_timeout)
  BY DEF TypeOK, ArmedOnce, Lists, Once
<1>2. Whos(next_timeout) = Cyclic \cup (IF active THEN {Tcp} ELSE {})
  BY DEF ArmedOnce, Whos
<1>3. 1 \in 1..Len(lwip_cyclic_timers) /\ 2 \in 1..Len(lwip_cyclic_timers)
  BY TimersAssumption
<1>4. lwip_cyclic_timers[1] # lwip_cyclic_timers[2]
  BY <1>3, TimersAssumption
<1>5. lwip_cyclic_timers[1] \in Cyclic /\ lwip_cyclic_timers[2] \in Cyclic
  BY <1>3 DEF Cyclic
<1>6. PICK i \in 1..Len(next_timeout) : next_timeout[i].who = lwip_cyclic_timers[1]
  BY <1>2, <1>5 DEF Whos
<1>7. PICK j \in 1..Len(next_timeout) : next_timeout[j].who = lwip_cyclic_timers[2]
  BY <1>2, <1>5 DEF Whos
<1>8. i # j /\ Len(next_timeout) \in Nat
  BY <1>1, <1>4, <1>6, <1>7, ListEntries
<1>9. Len(next_timeout) > 1
  BY <1>8
<1> QED  BY <1>1, <1>2, <1>9

\* sys_timeouts_init leaves the cyclic timers armed and the clock at the tick.
LEMMA TimersInit ==
    ASSUME Init
    PROVE  TimersInv
<1>1. Armed(next_timeout, Len(lwip_cyclic_timers)) /\ active = FALSE /\ wrapped = FALSE
  BY InitArmed DEF Init
<1>2. cyccnt \in Nat /\ cyccnt < Period /\ cyccnt \in 0..(Period - 1)
  BY Constants DEF Init
<1>3. HAL_GetTick \in Nat /\ HAL_GetTick <= cyccnt
  BY <1>2, TickBounds DEF HAL_GetTick
<1>4. TypeOK
  <2>1. next_timeout \in Seq([who : Timers, time : 0..(Word - 1)])
    BY <1>1 DEF Armed, Lists
  <2>2. timeouts_last_time \in 0..(Word - 1) /\ lag \in Int
    BY <1>2, <1>3, Constants DEF Init
  <2>3. diff \in -1..(Word - 1) /\ t0 \in -1..(Word - 1) /\ waited \in -1..TooLong
    BY Constants DEF Init, TooLong
  <2>4. since \in [Timers -> Nat] /\ away \in Nat
    BY DEF Init
  <2>5. active \in BOOLEAN /\ pcbs \in BOOLEAN /\ wrapped \in BOOLEAN
    BY Zenon DEF Init
  <2> QED  BY <1>2, <2>1, <2>2, <2>3, <2>4, <2>5 DEF TypeOK
<1>5. ArmedOnce
  BY <1>1 DEF Armed, ArmedOnce, Once, Whos, Cyclic
<1>6. ClockInv
  BY <1>1, <1>3 DEF Init, ClockInv
<1>7. NotEarly
  <2>1. since = [t \in Timers |-> 0]
    BY DEF Init
  <2>2. Waiting(next_timeout, since)
    BY <1>1, <2>1 DEF Armed
  <2> QED  BY <2>2 DEF NotEarly, Waiting
<1>8. WaitInv
  BY DEF Init, WaitInv
<1> QED  BY <1>4, <1>5, <1>6, <1>7, <1>8 DEF TimersInv

\* While the list stays, so does what holds of it.
LEMMA ListStays ==
    ASSUME TimersInv, next_timeout' = next_timeout, active' = active, since' = since,
           wrapped => wrapped'
    PROVE  ArmedOnce' /\ NotEarly'
<1>1. ArmedOnce'
  BY DEF TimersInv, ArmedOnce
<1>2. NotEarly'
  <2>1. wrapped \/ Waiting(next_timeout, since)
    BY DEF TimersInv, NotEarly, Waiting
  <2>2. wrapped' \/ Waiting(next_timeout', since')
    BY <2>1, Zenon
  <2> QED  BY <2>2 DEF NotEarly, Waiting
<1> QED  BY <1>1, <1>2

\* Time passes: the tick does not fall unless the counter wraps.
LEMMA TimersAdvance ==
    ASSUME TimersInv, Advance
    PROVE  TimersInv'
<1>1. TypeOK /\ ClockInv /\ WaitInv
  BY DEF TimersInv
<1>2. /\ cyccnt \in Nat /\ cyccnt < Period /\ Period \in Nat /\ Second \in Nat /\ Second > 0
      /\ Patience \in Nat
  BY <1>1, TickType, Constants
<1>3. cyccnt' = (cyccnt + 1) % Period /\ (wrapped' <=> wrapped \/ cyccnt' = 0)
  BY DEF Advance
<1>4. IF cyccnt + 1 = Period THEN cyccnt' = 0 ELSE cyccnt' = cyccnt + 1
  <2>1. CASE cyccnt + 1 = Period  BY <1>2, <1>3, <2>1
  <2>2. CASE cyccnt + 1 # Period
    <3>1. cyccnt + 1 \in Nat /\ cyccnt + 1 < Period  BY <1>2, <2>2
    <3> QED  BY <1>2, <1>3, <2>2, <3>1, SMT
  <2> QED  BY <2>1, <2>2
<1>5. cyccnt' \in 0..(Period - 1) /\ cyccnt' \in Nat
  BY <1>2, <1>4
<1>6. cyccnt' # 0 => cyccnt' = cyccnt + 1 /\ HAL_GetTick <= HAL_GetTick'
  <2>1. SUFFICES ASSUME cyccnt' # 0 PROVE cyccnt' = cyccnt + 1 /\ HAL_GetTick <= HAL_GetTick'
    OBVIOUS
  <2>2. cyccnt' = cyccnt + 1 /\ cyccnt <= cyccnt'  BY <1>2, <1>4, <2>1
  <2> QED  BY <1>2, <1>5, <2>2, TickMonotone DEF HAL_GetTick
<1>7. TooLong \in Nat /\ waited \in -1..TooLong /\ waited' \in -1..TooLong
  <2>1. TooLong \in Nat /\ waited \in -1..TooLong  BY <1>1, <1>2 DEF TypeOK, TooLong
  <2> QED  BY <2>1 DEF Advance, Least
<1>8. TypeOK'
  <2>1. UNCHANGED <<next_timeout, timeouts_last_time, diff, active, pcbs, t0, since>>
    BY DEF Advance
  <2>2. lag' \in Int /\ away' \in Nat
    BY <1>1 DEF Advance, TypeOK
  <2>3. wrapped' \in BOOLEAN
    BY DEF Advance
  <2> QED  BY <1>1, <1>5, <1>7, <2>1, <2>2, <2>3 DEF TypeOK
<1>9. /\ HAL_GetTick \in Nat /\ HAL_GetTick' \in Nat
  BY <1>1, <1>8, <1>5, TickType, TickBounds DEF HAL_GetTick
<1>10. ClockInv'
  <2>1. CASE wrapped'
    BY <2>1 DEF Advance, ClockInv
  <2>2. CASE ~wrapped'
    <3>1. ~wrapped /\ cyccnt' # 0  BY <1>3, <2>2
    <3>2. lag' = lag + 1 /\ timeouts_last_time' = timeouts_last_time /\ diff' = diff
      BY <2>2 DEF Advance
    <3>3. /\ lag = cyccnt - timeouts_last_time /\ timeouts_last_time <= HAL_GetTick
          /\ diff >= 0 => timeouts_last_time + diff <= HAL_GetTick
      BY <1>1, <3>1 DEF ClockInv
    <3>4. timeouts_last_time \in Int /\ diff \in Int
      BY <1>1, Constants DEF TypeOK
    <3>5. /\ lag' = cyccnt' - timeouts_last_time' /\ timeouts_last_time' <= HAL_GetTick'
          /\ diff' >= 0 => timeouts_last_time' + diff' <= HAL_GetTick'
      BY <1>2, <1>6, <1>9, <3>1, <3>2, <3>3, <3>4
    <3> QED  BY <2>2, <3>5 DEF ClockInv
  <2> QED  BY <2>1, <2>2
<1>11. WaitInv'
  <2>1. SUFFICES ASSUME waited' # -1
                 PROVE  /\ t0' \in 0..HAL_GetTick'
                        /\ IF waited' = TooLong THEN cyccnt' - t0' >= TooLong
                           ELSE cyccnt' - waited' \in t0'..(t0' + Second - 1)
    BY DEF WaitInv, TooLong
  <2>2. waited # -1 /\ cyccnt' # 0 /\ waited' = Least(waited + 1, TooLong) /\ t0' = t0
    BY <2>1 DEF Advance
  <2>3. /\ t0 \in 0..HAL_GetTick
        /\ IF waited = TooLong THEN cyccnt - t0 >= TooLong
           ELSE cyccnt - waited \in t0..(t0 + Second - 1)
    BY <1>1, <2>2 DEF WaitInv
  <2>4. t0' \in 0..HAL_GetTick'  BY <1>6, <1>9, <2>2, <2>3
  <2>5. CASE waited = TooLong
    <3>1. waited' = TooLong  BY <1>7, <2>2, <2>5 DEF Least
    <3> QED  BY <1>2, <1>6, <1>7, <1>9, <2>2, <2>3, <2>4, <2>5, <3>1
  <2>6. CASE waited # TooLong
    <3>1. waited' = waited + 1  BY <1>7, <2>2, <2>6 DEF Least
    <3>2. cyccnt' - waited' = cyccnt - waited  BY <1>2, <1>6, <1>7, <2>2, <3>1
    <3>3. cyccnt - waited >= t0 /\ t0 \in Int  BY <1>9, <2>3, <2>6
    <3>4. waited' = TooLong => cyccnt' - t0' >= TooLong
      BY <1>2, <1>6, <1>7, <2>2, <3>1, <3>3
    <3> QED  BY <2>2, <2>3, <2>4, <2>6, <3>2, <3>4
  <2> QED  BY <2>5, <2>6
<1>12. ArmedOnce' /\ NotEarly'
  <2>1. next_timeout' = next_timeout /\ active' = active /\ since' = since  BY DEF Advance
  <2>2. wrapped => wrapped'  BY <1>3
  <2> QED  BY <2>1, <2>2, ListStays
<1> QED  BY <1>8, <1>10, <1>11, <1>12 DEF TimersInv

\* The wait of Firmware_Update begins at the tick and ends.
LEMMA TimersWait ==
    ASSUME TimersInv, WaitBegins \/ WaitEnds
    PROVE  TimersInv'
<1>1. TypeOK /\ ClockInv
  BY DEF TimersInv
<1>2. UNCHANGED <<cyccnt, next_timeout, timeouts_last_time, diff, active, pcbs, away, since, lag,
                  wrapped>>
  BY DEF WaitBegins, WaitEnds
<1>3. \/ t0' = HAL_GetTick /\ waited' = 0
      \/ t0' = -1 /\ waited' = -1
  BY DEF WaitBegins, WaitEnds
<1>4. /\ HAL_GetTick' = HAL_GetTick /\ HAL_GetTick \in Nat /\ HAL_GetTick \in 0..(Word - 1)
      /\ HAL_GetTick <= cyccnt /\ cyccnt < HAL_GetTick + Second /\ cyccnt \in Nat
  BY <1>1, <1>2, TickType DEF HAL_GetTick
<1>5. TooLong \in Nat /\ TooLong > 0 /\ Second \in Nat /\ Word \in Nat
  BY Constants DEF TooLong
<1>6. TypeOK'
  <2>1. t0' \in -1..(Word - 1) /\ waited' \in -1..TooLong
    BY <1>3, <1>4, <1>5
  <2> QED  BY <1>1, <1>2, <2>1 DEF TypeOK
<1>7. ClockInv'
  BY <1>1, <1>2, <1>4 DEF ClockInv
<1>8. WaitInv'
  <2>1. CASE t0' = HAL_GetTick /\ waited' = 0
    <3>1. waited' # TooLong /\ cyccnt' - waited' = cyccnt  BY <1>2, <1>4, <1>5, <2>1
    <3>2. cyccnt \in t0'..(t0' + Second - 1) /\ t0' \in 0..HAL_GetTick'
      BY <1>4, <1>5, <2>1
    <3> QED  BY <3>1, <3>2 DEF WaitInv, TooLong
  <2>2. CASE waited' = -1  BY <2>2 DEF WaitInv
  <2> QED  BY <1>3, <2>1, <2>2
<1>9. ArmedOnce' /\ NotEarly'
  BY <1>2, ListStays
<1> QED  BY <1>6, <1>7, <1>8, <1>9 DEF TimersInv

\* The wait goes on while neither the counter nor the wait changes.
LEMMA WaitStays ==
    ASSUME WaitInv, cyccnt' = cyccnt, t0' = t0, waited' = waited
    PROVE  WaitInv'
<1>1. HAL_GetTick' = HAL_GetTick
  BY DEF HAL_GetTick
<1> QED  BY <1>1 DEF WaitInv, TooLong

\* The last connection goes; sys_check_timeouts reads the tick, and returns.
LEMMA TimersCheck ==
    ASSUME TimersInv, Close \/ Check \/ Checked
    PROVE  TimersInv'
<1>1. TypeOK /\ ClockInv /\ WaitInv
  BY DEF TimersInv
<1>2. UNCHANGED <<cyccnt, next_timeout, timeouts_last_time, active, t0, since, lag, waited,
                  wrapped>>
  BY DEF Close, Check, Checked
<1>3. diff' \in {diff, -1} \/ diff' = Since(timeouts_last_time)
  BY DEF Close, Check, Checked
<1>4. away' \in Nat /\ pcbs' \in BOOLEAN
  <2>1. away' = away \/ away' = 0  BY Zenon DEF Close, Check, Checked
  <2>2. pcbs' = pcbs \/ pcbs' = FALSE  BY Zenon DEF Close, Check, Checked
  <2>3. away' \in Nat  BY <1>1, <2>1 DEF TypeOK
  <2>4. pcbs' \in BOOLEAN  BY <1>1, <2>2, Zenon DEF TypeOK
  <2> QED  BY <2>3, <2>4
<1>5. /\ Since(timeouts_last_time) \in 0..(Word - 1)
      /\ timeouts_last_time <= HAL_GetTick
             => Since(timeouts_last_time) = HAL_GetTick - timeouts_last_time
  BY <1>1, SinceType DEF TypeOK
<1>6. HAL_GetTick' = HAL_GetTick /\ HAL_GetTick \in Nat
  BY <1>1, <1>2, TickType DEF HAL_GetTick
<1>7. timeouts_last_time \in Int /\ diff \in -1..(Word - 1) /\ Word \in Nat
  BY <1>1, Constants DEF TypeOK
<1>8. TypeOK'
  <2>1. diff' \in -1..(Word - 1)  BY <1>3, <1>5, <1>7, Constants
  <2> QED  BY <1>1, <1>2, <1>4, <2>1 DEF TypeOK
<1>9. ClockInv'
  <2>1. CASE wrapped  BY <1>1, <1>2, <2>1 DEF ClockInv
  <2>2. CASE ~wrapped
    <3>1. /\ lag = cyccnt - timeouts_last_time /\ timeouts_last_time <= HAL_GetTick
          /\ diff >= 0 => timeouts_last_time + diff <= HAL_GetTick
      BY <1>1, <2>2 DEF ClockInv
    <3>2. diff' >= 0 => timeouts_last_time + diff' <= HAL_GetTick
      BY <1>3, <1>5, <1>6, <1>7, <3>1
    <3> QED  BY <1>2, <1>6, <2>2, <3>1, <3>2 DEF ClockInv
  <2> QED  BY <2>1, <2>2
<1>10. WaitInv'
  BY <1>1, <1>2, WaitStays
<1>11. ArmedOnce' /\ NotEarly'
  BY <1>2, ListStays
<1> QED  BY <1>8, <1>9, <1>10, <1>11 DEF TimersInv

\* Inserting a timer that is not in the list keeps it good (sys_timeout).
LEMMA ScheduledGood ==
    ASSUME TypeOK, NEW l \in Lists, Len(l) > 0, Once(l), NEW t \in Timers, t \notin Whos(l),
           NEW last \in 0..(Word - 1), NEW s \in [Timers -> Nat]
    PROVE  LET r == sys_timeout(l, t, last)
           IN  /\ r \in Lists /\ Once(r) /\ Whos(r) = Whos(l) \cup {t}
               /\ last <= HAL_GetTick /\ Waiting(l, s) => Waiting(r, s)
<1> DEFINE r == sys_timeout(l, t, last)
<1>1. r = Inserted(l, t, Since(last))
  BY DEF sys_timeout, Since
<1>2. /\ Since(last) \in Int
      /\ last <= HAL_GetTick => Since(last) \in 0..(Period - 1)
  BY SinceType, Constants
<1> HIDE DEF r
<1>3. PICK k : Inserts(l, r, t, k)
  BY <1>1, <1>2, InsertedInserts
<1>4. Once(r) /\ Whos(r) = Whos(l) \cup {t}
  BY <1>3, InsertsOnce
<1>5. r \in Lists
  BY <1>3 DEF Inserts
<1>6. ASSUME last <= HAL_GetTick, Waiting(l, s) PROVE Waiting(r, s)
  <2>1. PICK j : Inserts(l, r, t, j) /\ NoneSooner(l, r, t, j)
    BY <1>1, <1>2, <1>6, InsertedNoneSooner
  <2> QED  BY <1>6, <2>1, InsertsWaiting
<1> QED  BY <1>4, <1>5, <1>6 DEF r

\* A connection starts TCP's timer unless it runs (tcp_timer_needed).
LEMMA TimersOpen ==
    ASSUME TimersInv, Open
    PROVE  TimersInv'
<1>1. TypeOK /\ ArmedOnce /\ ClockInv /\ WaitInv /\ NotEarly
  BY DEF TimersInv
<1>2. UNCHANGED <<cyccnt, timeouts_last_time, diff, t0, away, lag, waited, wrapped>>
  BY DEF Open
<1>3. HAL_GetTick' = HAL_GetTick
  BY <1>2 DEF HAL_GetTick
<1>4. ClockInv'
  BY <1>1, <1>2, <1>3 DEF ClockInv
<1>5. WaitInv'
  BY <1>1, <1>2, WaitStays
<1>6. pcbs' = TRUE /\ active' = TRUE
  BY Zenon DEF Open
<1>7. Tcp \in Timers
  BY DEF Timers
<1>8. CASE active
  <2>1. next_timeout' = next_timeout /\ since' = since
    BY <1>8 DEF Open, Needed
  <2>2. active' = active
    BY <1>1, <1>6, <1>8, Zenon DEF TypeOK
  <2>3. TypeOK'
    <3>1. pcbs' \in BOOLEAN /\ active' \in BOOLEAN  BY <1>6, Zenon
    <3> QED  BY <1>1, <1>2, <2>1, <3>1 DEF TypeOK
  <2>4. ArmedOnce' /\ NotEarly'
    BY <1>2, <2>1, <2>2, ListStays
  <2> QED  BY <1>4, <1>5, <2>3, <2>4 DEF TimersInv
<1>9. CASE ~active
  <2> DEFINE l == next_timeout
             r == sys_timeout(l, Tcp, timeouts_last_time)
             s == [since EXCEPT ![Tcp] = 0]
  <2>1. next_timeout' = r /\ since' = s
    BY <1>9 DEF Open, Needed
  <2>2. l \in Lists /\ Len(l) > 0 /\ Once(l) /\ Whos(l) = Cyclic
    <3>1. l \in Lists /\ Len(l) > 1 /\ Once(l)  BY <1>1, TheList
    <3>2. Whos(l) = Cyclic  BY <1>1, <1>9, TheList
    <3> QED  BY <3>1, <3>2, ListEntries
  <2>3. Tcp \notin Whos(l)
    BY <2>2, TimersAssumption
  <2>4. since \in [Timers -> Nat] /\ s \in [Timers -> Nat] /\ timeouts_last_time \in 0..(Word - 1)
    BY <1>1 DEF TypeOK
  <2>5. \A t \in Timers : t # Tcp => s[t] = since[t]
    BY <2>4
  <2> HIDE DEF l, r, s
  <2>6. /\ r \in Lists /\ Once(r) /\ Whos(r) = Whos(l) \cup {Tcp}
        /\ timeouts_last_time <= HAL_GetTick /\ Waiting(l, s) => Waiting(r, s)
    BY <1>1, <1>7, <2>2, <2>3, <2>4, ScheduledGood DEF r
  <2>7. TypeOK'
    <3>1. pcbs' \in BOOLEAN /\ active' \in BOOLEAN  BY <1>6, Zenon
    <3>2. next_timeout' \in Seq([who : Timers, time : 0..(Word - 1)]) /\ since' \in [Timers -> Nat]
      BY <2>1, <2>4, <2>6 DEF Lists
    <3> QED  BY <1>1, <1>2, <3>1, <3>2 DEF TypeOK
  <2>8. ArmedOnce'
    <3>1. Once(next_timeout') /\ Whos(next_timeout') = Cyclic \cup {Tcp}  BY <2>1, <2>2, <2>6
    <3> QED  BY <1>6, <3>1 DEF ArmedOnce, Once, Whos
  <2>9. NotEarly'
    <3>1. CASE wrapped  BY <1>2, <3>1 DEF NotEarly
    <3>2. CASE ~wrapped
      <4>1. timeouts_last_time <= HAL_GetTick  BY <1>1, <3>2 DEF ClockInv
      <4>2. Waiting(l, since)  BY <1>1, <3>2 DEF NotEarly, Waiting, l
      <4>3. \A i \in 1..Len(l) : l[i].who \in Timers /\ l[i].who # Tcp
        BY <2>2, <2>3, ListEntries DEF Whos
      <4>4. Waiting(l, s)  BY <2>5, <4>2, <4>3 DEF Waiting
      <4>5. Waiting(next_timeout', since')  BY <2>1, <2>6, <4>1, <4>4
      <4> QED  BY <4>5 DEF NotEarly, Waiting
    <3> QED  BY <3>1, <3>2
  <2> QED  BY <1>4, <1>5, <2>7, <2>8, <2>9 DEF TimersInv
<1> QED  BY <1>8, <1>9

\* An entry expires: lwIP's clock moves to it, and its timer is armed again
\* unless it is TCP's and no connection is left.
LEMMA TimersExpire ==
    ASSUME TimersInv, Expire
    PROVE  TimersInv'
<1> DEFINE l == next_timeout
           e == l[1]
           last == (timeouts_last_time + e.time) % Word
           r == Tail(l)
           z == [t \in Timers |-> IF t = e.who THEN 0 ELSE Least(since[t] + e.time, Interval[t])]
           again == e.who # Tcp \/ pcbs'
<1>1. TypeOK /\ ArmedOnce /\ ClockInv /\ WaitInv /\ NotEarly
  BY DEF TimersInv
<1>2. l \in Lists /\ Len(l) > 1 /\ Once(l) /\ Whos(l) = Cyclic \cup (IF active THEN {Tcp} ELSE {})
  BY <1>1, TheList
<1>3. Len(l) \in Nat /\ Len(l) > 0 /\ 1 \in 1..Len(l)
  BY <1>2, ListEntries
<1>4. e.who \in Timers /\ e.time \in 0..(Word - 1) /\ e.time \in Nat /\ e.who \in Whos(l)
  BY <1>2, <1>3, ListEntries DEF Whos
<1>5. r \in Lists /\ Len(r) > 0 /\ Head(l) = e
  BY <1>2, <1>3, TailTotals
<1>6. Once(r) /\ Whos(r) = Whos(l) \ {e.who}
  BY <1>2, <1>3, TailOnce
<1>7. /\ diff >= 0 /\ e.time <= diff /\ timeouts_last_time' = last /\ diff' = diff - e.time
      /\ since' = z /\ lag' = (IF wrapped THEN 0 ELSE lag - e.time)
      /\ UNCHANGED <<cyccnt, t0, away, waited, wrapped>>
  BY <1>5 DEF Expire, Due
<1>8. next_timeout' = IF again THEN sys_timeout(r, e.who, last) ELSE r
  BY <1>5 DEF Expire, Again
<1>9. pcbs' = pcbs \/ pcbs' = FALSE
  BY <1>5, Zenon DEF Expire
<1>10. pcbs' \in BOOLEAN
  BY <1>1, <1>9, Zenon DEF TypeOK
<1>11. active' = IF e.who = Tcp THEN pcbs' ELSE active
  <2>1. active' = IF e.who = Tcp THEN (Tcp # Tcp \/ pcbs') ELSE active
    BY <1>5 DEF Expire, Again
  <2>2. (Tcp # Tcp \/ pcbs') = pcbs'
    BY <1>10, Zenon
  <2> QED  BY <2>1, <2>2, Zenon
<1>12. /\ timeouts_last_time \in Nat /\ diff \in Int /\ last \in 0..(Word - 1)
       /\ since \in [Timers -> Nat] /\ lag \in Int /\ diff < Word /\ Word \in Nat
  <2>1. /\ timeouts_last_time \in Nat /\ diff \in Int /\ diff < Word /\ Word \in Nat
        /\ since \in [Timers -> Nat] /\ lag \in Int
    BY <1>1, Constants DEF TypeOK
  <2>2. timeouts_last_time + e.time \in Int  BY <1>4, <2>1
  <2> QED  BY <2>1, <2>2, WordRange
<1>13. z \in [Timers -> Nat]
  <2>1. \A t \in Timers : since[t] \in Nat /\ Interval[t] \in Nat  BY <1>12, Constants
  <2> QED  BY <1>4, <2>1 DEF Least
<1>14. HAL_GetTick' = HAL_GetTick /\ HAL_GetTick \in 0..(Word - 1)
  BY <1>1, <1>7, TickType DEF HAL_GetTick
<1>15. ASSUME ~wrapped
       PROVE  /\ last = timeouts_last_time + e.time /\ last <= HAL_GetTick
              /\ last + (diff - e.time) <= HAL_GetTick /\ lag = cyccnt - timeouts_last_time
  <2>1. timeouts_last_time + diff <= HAL_GetTick /\ lag = cyccnt - timeouts_last_time
    BY <1>1, <1>7, <1>15 DEF ClockInv
  <2>2. timeouts_last_time + e.time <= HAL_GetTick /\ timeouts_last_time + e.time \in 0..(Word - 1)
    BY <1>4, <1>7, <1>12, <1>14, <2>1
  <2>3. last = timeouts_last_time + e.time  BY <2>2, WordItself
  <2> QED  BY <1>4, <1>12, <1>14, <2>1, <2>2, <2>3
<1>16. ASSUME ~wrapped PROVE Waiting(r, z)
  <2>1. Waiting(l, since)  BY <1>1, <1>16 DEF NotEarly, Waiting
  <2> QED  BY <1>2, <1>3, <1>12, <2>1, TailWaiting
<1> HIDE DEF last, z, r
<1>17. ASSUME again
       PROVE  /\ next_timeout' \in Lists /\ Once(next_timeout')
              /\ Whos(next_timeout') = Whos(l)
              /\ ~wrapped => Waiting(next_timeout', z)
  <2> DEFINE q == sys_timeout(r, e.who, last)
  <2>1. next_timeout' = q  BY <1>8, <1>17
  <2>2. e.who \notin Whos(r)  BY <1>6
  <2> HIDE DEF e, l
  <2>3. /\ q \in Lists /\ Once(q) /\ Whos(q) = Whos(r) \cup {e.who}
        /\ last <= HAL_GetTick /\ Waiting(r, z) => Waiting(q, z)
    BY <1>1, <1>4, <1>5, <1>6, <1>12, <1>13, <2>2, ScheduledGood
  <2>4. Whos(q) = Whos(l)  BY <1>4, <1>6, <2>3
  <2> HIDE DEF q
  <2> QED  BY <1>15, <1>16, <2>1, <2>3, <2>4
<1>18. ASSUME ~again
       PROVE  /\ next_timeout' \in Lists /\ Once(next_timeout')
              /\ Whos(next_timeout') = Whos(l) \ {Tcp} /\ e.who = Tcp /\ ~pcbs'
              /\ ~wrapped => Waiting(next_timeout', z)
  <2>1. next_timeout' = r /\ e.who = Tcp /\ ~pcbs'  BY <1>8, <1>18
  <2> QED  BY <1>5, <1>6, <1>16, <2>1
<1>19. TypeOK'
  <2>1. next_timeout' \in Seq([who : Timers, time : 0..(Word - 1)])
    BY <1>17, <1>18 DEF Lists
  <2>2. timeouts_last_time' \in 0..(Word - 1) /\ diff' \in -1..(Word - 1) /\ lag' \in Int
    BY <1>4, <1>7, <1>12
  <2>3. active' \in BOOLEAN
    BY <1>1, <1>10, <1>11, Zenon DEF TypeOK
  <2>4. since' \in [Timers -> Nat]
    BY <1>7, <1>13
  <2> QED  BY <1>1, <1>7, <1>10, <2>1, <2>2, <2>3, <2>4 DEF TypeOK
<1>20. ClockInv'
  <2>1. CASE wrapped  BY <1>7, <2>1 DEF ClockInv
  <2>2. CASE ~wrapped
    <3>1. lag' = lag - e.time /\ ~wrapped'  BY <1>7, <2>2
    <3>2. cyccnt' = cyccnt /\ cyccnt \in Int  BY <1>1, <1>7, TickType
    <3>3. lag' = cyccnt' - timeouts_last_time'
      BY <1>4, <1>7, <1>12, <1>15, <2>2, <3>1, <3>2
    <3>4. timeouts_last_time' <= HAL_GetTick' /\ timeouts_last_time' + diff' <= HAL_GetTick'
      BY <1>7, <1>14, <1>15, <2>2
    <3> QED  BY <3>1, <3>3, <3>4 DEF ClockInv
  <2> QED  BY <2>1, <2>2
<1>21. WaitInv'
  BY <1>1, <1>7, WaitStays
<1>22. NotEarly'
  <2>1. wrapped' \/ Waiting(next_timeout', since')  BY <1>7, <1>17, <1>18
  <2> QED  BY <2>1 DEF NotEarly, Waiting
<1>23. Whos(next_timeout') = Cyclic \cup (IF active' THEN {Tcp} ELSE {})
  <2>1. CASE again
    <3>1. Whos(next_timeout') = Cyclic \cup (IF active THEN {Tcp} ELSE {})  BY <1>2, <1>17, <2>1
    <3>2. CASE e.who = Tcp
      <4>1. active  BY <1>2, <1>4, <3>2, TimersAssumption
      <4>2. active'  BY <1>11, <2>1, <3>2
      <4> QED  BY <3>1, <4>1, <4>2
    <3>3. CASE e.who # Tcp
      <4>1. active' = active  BY <1>11, <3>3, Zenon
      <4> QED  BY <3>1, <4>1
    <3> QED  BY <3>2, <3>3
  <2>2. CASE ~again
    <3>1. Whos(next_timeout') = Whos(l) \ {Tcp} /\ ~active'  BY <1>11, <1>18, <2>2
    <3> QED  BY <1>2, <3>1, TimersAssumption
  <2> QED  BY <2>1, <2>2
<1>24. ArmedOnce'
  BY <1>17, <1>18, <1>23 DEF ArmedOnce, Once, Whos
<1> QED  BY <1>19, <1>20, <1>21, <1>22, <1>24 DEF TimersInv

-----------------------------------------------------------------------------
(* The theorems                                                            *)

\* Every step keeps the invariant.
LEMMA TimersInvariant == Spec => []TimersInv
<1>1. Init => TimersInv
  BY TimersInit
<1>2. TimersInv /\ [Next]_vars => TimersInv'
  <2> SUFFICES ASSUME TimersInv, [Next]_vars PROVE TimersInv'
    OBVIOUS
  <2>1. CASE Advance  BY <2>1, TimersAdvance
  <2>2. CASE WaitBegins \/ WaitEnds  BY <2>2, TimersWait
  <2>3. CASE Close \/ Check \/ Checked  BY <2>3, TimersCheck
  <2>4. CASE Open  BY <2>4, TimersOpen
  <2>5. CASE Expire  BY <2>5, TimersExpire
  <2>6. CASE UNCHANGED vars
    <3>1. UNCHANGED <<next_timeout, active, since, wrapped, cyccnt, t0, waited, lag, diff,
                      timeouts_last_time, pcbs, away>>
      BY <2>6 DEF vars
    <3>2. ArmedOnce' /\ NotEarly'  BY <3>1, ListStays
    <3>3. WaitInv'  BY <3>1, WaitStays DEF TimersInv
    <3>4. TypeOK'  BY <3>1 DEF TimersInv, TypeOK
    <3>5. ClockInv'
      <4>1. HAL_GetTick' = HAL_GetTick  BY <3>1 DEF HAL_GetTick
      <4> QED  BY <3>1, <4>1 DEF TimersInv, ClockInv
    <3> QED  BY <3>2, <3>3, <3>4, <3>5 DEF TimersInv
  <2> QED  BY <2>1, <2>2, <2>3, <2>4, <2>5, <2>6 DEF Next, Polling, Loop
<1> QED  BY <1>1, <1>2, PTL DEF Spec

\* The times of the entries stay words, also those that sys_timeout takes the
\* rest of the walk off.
THEOREM TimerTypes == Spec => []TypeOK
<1>1. TimersInv => TypeOK  BY DEF TimersInv
<1> QED  BY <1>1, TimersInvariant, PTL

\* tcp_timer_needed and the handlers keep every timer in the list once, however
\* many there are and however connections come and go.
THEOREM EachArmedOnce == Spec => []ArmedOnce
<1>1. TimersInv => ArmedOnce  BY DEF TimersInv
<1> QED  BY <1>1, TimersInvariant, PTL

\* Until the tick falls back sys_timeout puts no timer where it would run before
\* its interval has passed, nor brings another one forward, however late
\* sys_check_timeouts is called and however long its handlers take.
THEOREM NoneRunsEarly == Spec => []NotEarly
<1>1. TimersInv => NotEarly  BY DEF TimersInv
<1> QED  BY <1>1, TimersInvariant, PTL

\* Until the tick falls back sys_check_timeouts never moves timeouts_last_time
\* past the time.
THEOREM ClockNeverAhead == Spec => []NeverAhead
<1>1. TimersInv => NeverAhead
  <2> SUFFICES ASSUME TimersInv PROVE lag >= 0
    BY DEF NeverAhead
  <2>1. TypeOK /\ ClockInv  BY DEF TimersInv
  <2>2. HAL_GetTick \in Nat /\ HAL_GetTick <= cyccnt /\ cyccnt \in Nat  BY <2>1, TickType
  <2>3. timeouts_last_time \in Int  BY <2>1, Constants DEF TypeOK
  <2>4. CASE wrapped  BY <2>1, <2>4 DEF ClockInv
  <2>5. CASE ~wrapped
    <3>1. lag = cyccnt - timeouts_last_time /\ timeouts_last_time <= HAL_GetTick
      BY <2>1, <2>5 DEF ClockInv
    <3> QED  BY <2>2, <2>3, <3>1
  <2> QED  BY <2>4, <2>5
<1> QED  BY <1>1, TimersInvariant, PTL

\* A wait of Firmware_Update ends less than a step of the tick too early and
\* polls less than a step too long, for every patience and every step, unless the
\* tick falls back meanwhile.
THEOREM WaitsFit == Spec => WaitFits
<1>1. ASSUME TimersInv, waited # -1
      PROVE  /\ WaitEnds => waited > Patience - Second
             /\ Check => waited < TooLong
  <2>1. TypeOK /\ WaitInv  BY <1>1 DEF TimersInv
  <2>2. /\ HAL_GetTick \in Nat /\ HAL_GetTick <= cyccnt /\ cyccnt < HAL_GetTick + Second
        /\ cyccnt \in Nat /\ HAL_GetTick \in 0..(Word - 1)
    BY <2>1, TickType
  <2>3. /\ t0 \in 0..HAL_GetTick
        /\ IF waited = TooLong THEN cyccnt - t0 >= TooLong
           ELSE cyccnt - waited \in t0..(t0 + Second - 1)
    BY <1>1, <2>1 DEF WaitInv
  <2>4. /\ Patience \in Nat /\ Second \in Nat /\ Second > 0 /\ Word \in Nat
        /\ TooLong = Patience + Second
    BY Constants DEF TooLong
  <2>5. waited \in -1..TooLong /\ t0 \in 0..(Word - 1) /\ t0 # -1
    BY <2>1, <2>2, <2>3, <2>4 DEF TypeOK
  <2>6. Since(t0) = HAL_GetTick - t0
    BY <2>1, <2>2, <2>3, <2>5, SinceType
  <2>7. ASSUME WaitEnds PROVE waited > Patience - Second
    <3>1. HAL_GetTick - t0 >= Patience  BY <2>6, <2>7 DEF WaitEnds, Over
    <3>2. CASE waited = TooLong  BY <2>4, <3>2
    <3>3. CASE waited # TooLong  BY <2>2, <2>3, <2>4, <2>5, <3>1, <3>3
    <3> QED  BY <3>2, <3>3
  <2>8. ASSUME Check PROVE waited < TooLong
    <3>1. ~(HAL_GetTick - t0 >= Patience)  BY <2>5, <2>6, <2>8 DEF Check, Over
    <3>2. cyccnt - t0 < TooLong  BY <2>2, <2>3, <2>4, <3>1
    <3>3. waited # TooLong  BY <2>2, <2>3, <2>4, <3>2
    <3> QED  BY <2>4, <2>5, <3>3
  <2> QED  BY <2>7, <2>8
<1> DEFINE Fits == waited # -1 => /\ WaitEnds => waited > Patience - Second
                                  /\ Check => waited < TooLong
<1>2. TimersInv /\ [Next]_vars => [Fits]_vars
  BY <1>1
<1> QED  BY <1>2, TimersInvariant, PTL DEF Spec, WaitFits

=============================================================================
