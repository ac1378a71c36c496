---------------------------- MODULE TimersProofs ----------------------------
(***************************************************************************)
(* For any timers, delays, periods and arity: siftupTimer and              *)
(* siftdownTimer keep the heap of timers in order and lose none, timerproc *)
(* never sleeps past a timer, and notewakeup never throws in addtimer.     *)
(***************************************************************************)
EXTENDS MCTimers, SequenceTheorems, NaturalsInduction, WellFoundedInduction,
        TLAPS

----------------------------------------------------------------------------
(* Ways through the heap *)

LEMMA LeastOf ==
  ASSUME NEW S \in SUBSET Nat, S # {}
  PROVE  \E x \in S : \A y \in S : x <= y
<1>1. PICK x \in S : \A y \in S : <<y, x>> \notin OpToRel(<, Nat)
  BY NatLessThanWellFounded, WFMin, Zenon
<1>2. \A y \in S : ~(y < x)
  BY <1>1, Zenon DEF OpToRel
<1> QED  BY <1>2

\* A step from each place of 1..n that is not an end; r falls on the way.
Steps(n, next, End, r) ==
  /\ n \in Nat /\ next \in [1..n -> Nat] /\ r \in [1..n -> 0..n]
  /\ \A j \in 1..n : j \notin End => next[j] \in 1..n /\ r[next[j]] < r[j]

\* W is the way from k to e, each place but k reached from one other.
IsWay(n, next, End, r, k, W, e) ==
  /\ k \in W /\ e \in W /\ e \in End /\ W \subseteq 1..n
  /\ \A j \in W : j = e \/ (j \notin End /\ next[j] \in W)
  /\ \A j \in W : j # k => \E i \in W : i # e /\ next[i] = j
  /\ \A j \in W : r[e] <= r[j] /\ r[j] <= r[k]
  /\ \A i, j \in W : i # e /\ j # e /\ next[i] = next[j] => i = j

\* The set of places on the way from j, for each j of D.
IsWays(f, D, next, End) ==
  f = [j \in D |-> IF j \in End THEN {j} ELSE {j} \cup f[next[j]]]

\* The recursive definition of such a set defines it.
LEMMA WaysExist ==
  ASSUME NEW n, NEW next, NEW End, NEW r, Steps(n, next, End, r)
  PROVE  \E f : IsWays(f, 1..n, next, End)
<1> DEFINE D(m) == {j \in 1..n : r[j] < m}
           Bad == {m \in Nat : ~\E f : IsWays(f, D(m), next, End)}
<1>1. Bad = {}
  <2> SUFFICES ASSUME Bad # {} PROVE FALSE
    OBVIOUS
  <2>1. PICK m \in Bad : \A y \in Bad : m <= y
    <3>1. Bad \in SUBSET Nat
      OBVIOUS
    <3> HIDE DEF Bad
    <3> QED  BY <3>1, LeastOf
  <2>2. m # 0
    <3>1. D(0) = {}
      BY DEF Steps
    <3>2. IsWays([j \in {} |-> {}], {}, next, End)
      BY DEF IsWays
    <3> QED  BY <3>1, <3>2
  <2>3. PICK l \in Nat : m = l + 1 /\ l \notin Bad
    <3>1. m - 1 \in Nat /\ m = (m - 1) + 1 /\ ~(m <= m - 1)
      BY <2>2
    <3> QED  BY <2>1, <3>1
  <2>4. PICK f : IsWays(f, D(l), next, End)
    BY <2>3
  <2> DEFINE g == [j \in D(m) |-> IF j \in End THEN {j} ELSE {j} \cup f[next[j]]]
  <2>5. D(l) \subseteq D(m)
    BY <2>3 DEF Steps
  <2>6. ASSUME NEW j \in D(m), j \notin End PROVE next[j] \in D(l)
    BY <2>3, <2>6 DEF Steps
  <2>7. \A j \in D(l) : g[j] = f[j]
    BY <2>4, <2>5 DEF IsWays
  <2>8. g = [j \in D(m) |-> IF j \in End THEN {j} ELSE {j} \cup g[next[j]]]
    <3> DEFINE x == [j \in D(m) |-> IF j \in End THEN {j} ELSE {j} \cup g[next[j]]]
    <3>1. ASSUME NEW j \in D(m) PROVE g[j] = x[j]
      BY <2>6, <2>7
    <3> HIDE DEF D
    <3>2. DOMAIN g = D(m) /\ DOMAIN x = D(m)
      OBVIOUS
    <3> QED  BY <3>1
  <2> HIDE DEF g, D
  <2>9. IsWays(g, D(m), next, End)
    BY <2>8, Zenon DEF IsWays
  <2> QED  BY <2>1, <2>9
<1>2. n + 1 \in Nat /\ D(n + 1) = 1..n
  BY DEF Steps
<1> HIDE DEF D
<1> QED  BY <1>1, <1>2

LEMMA WaysAre ==
  ASSUME NEW n, NEW next, NEW End, NEW r, Steps(n, next, End, r),
         NEW f, IsWays(f, 1..n, next, End), NEW k \in 1..n
  PROVE  \E e : IsWay(n, next, End, r, k, f[k], e)
<1> DEFINE Good(j) == \E e : IsWay(n, next, End, r, j, f[j], e)
           Bad == {x \in Nat : \E j \in 1..n : r[j] = x /\ ~Good(j)}
<1>1. SUFFICES ASSUME ~Good(k) PROVE FALSE
  OBVIOUS
<1> HIDE DEF Good
<1>2. r[k] \in Bad
  BY <1>1 DEF Steps
<1>3. PICK x \in Bad : \A y \in Bad : x <= y
  <2>1. Bad \in SUBSET Nat /\ Bad # {}
    BY <1>2
  <2> HIDE DEF Bad
  <2> QED  BY <2>1, LeastOf
<1>4. PICK j \in 1..n : r[j] = x /\ ~Good(j)
  BY <1>3
<1>5. f[j] = IF j \in End THEN {j} ELSE {j} \cup f[next[j]]
  BY DEF IsWays
<1>6. r[j] \in Nat
  BY DEF Steps
<1>7. CASE j \in End
  <2>1. f[j] = {j}
    BY <1>5, <1>7
  <2>2. IsWay(n, next, End, r, j, {j}, j)
    BY <1>6, <1>7 DEF IsWay
  <2> QED  BY <1>4, <2>1, <2>2 DEF Good
<1>8. CASE j \notin End
  <2>1. PICK i \in 1..n : i = next[j] /\ r[i] < r[j] /\ r[i] \in Nat
    BY <1>8 DEF Steps
  <2>2. Good(i)
    <3>1. ~(x <= r[i])
      BY <1>4, <1>6, <2>1
    <3>2. r[i] \notin Bad
      BY <1>3, <3>1
    <3> QED  BY <2>1, <3>2
  <2>3. PICK e : IsWay(n, next, End, r, i, f[i], e)
    BY <2>2 DEF Good
  <2>4. PICK V : V = f[i]
    OBVIOUS
  <2>5. f[j] = {j} \cup V
    BY <1>5, <1>8, <2>1, <2>4
  <2>6. IsWay(n, next, End, r, i, V, e)
    BY <2>3, <2>4
  <2>7. /\ i \in V /\ e \in V /\ e \in End /\ V \subseteq 1..n
        /\ \A a \in V : a = e \/ (a \notin End /\ next[a] \in V)
        /\ \A a \in V : a # i => \E b \in V : b # e /\ next[b] = a
        /\ \A a \in V : r[e] <= r[a] /\ r[a] <= r[i]
        /\ \A a, b \in V : a # e /\ b # e /\ next[a] = next[b] => a = b
    BY <2>6 DEF IsWay
  <2>8. \A a \in 1..n : r[a] \in Nat
    BY DEF Steps
  <2>9. j \notin V /\ j # e
    BY <1>8, <2>1, <2>7, <2>8
  <2>10. \A a \in V : a # e => next[a] # next[j]
    <3> SUFFICES ASSUME NEW a \in V, a # e, next[a] = i PROVE FALSE
      BY <2>1
    <3>1. r[next[a]] < r[a] /\ r[a] <= r[i]
      BY <2>7 DEF Steps
    <3> QED  BY <2>1, <2>7, <2>8, <3>1
  <2>11. IsWay(n, next, End, r, j, {j} \cup V, e)
    <3> DEFINE W == {j} \cup V
    <3>1. j \in W /\ e \in W /\ e \in End /\ W \subseteq 1..n
      BY <2>7
    <3>2. \A a \in W : a = e \/ (a \notin End /\ next[a] \in W)
      BY <1>8, <2>1, <2>7
    <3>3. \A a \in W : a # j => \E b \in W : b # e /\ next[b] = a
      <4> SUFFICES ASSUME NEW a \in V PROVE \E b \in W : b # e /\ next[b] = a
        OBVIOUS
      <4>1. CASE a = i
        BY <2>1, <2>9, <4>1
      <4>2. CASE a # i
        BY <2>7, <4>2
      <4> QED  BY <4>1, <4>2
    <3>4. \A a \in W : r[e] <= r[a] /\ r[a] <= r[j]
      BY <2>1, <2>7, <2>8
    <3>5. \A a, b \in W : a # e /\ b # e /\ next[a] = next[b] => a = b
      BY <2>7, <2>10
    <3> HIDE DEF W
    <3>6. IsWay(n, next, End, r, j, W, e)
      BY <3>1, <3>2, <3>3, <3>4, <3>5 DEF IsWay
    <3> QED  BY <3>6 DEF W
  <2> QED  BY <1>4, <2>5, <2>11 DEF Good
<1> QED  BY <1>7, <1>8

Distinct(h) == \A i, j \in DOMAIN h : h[i] = h[j] => i = j

\* x has the timers of h, in other places.
Rearranges(x, h) ==
  /\ DOMAIN x = DOMAIN h
  /\ Distinct(h) => Distinct(x)
  /\ \A j \in DOMAIN h : \E i \in DOMAIN h : x[j] = h[i]
  /\ \A i \in DOMAIN h : \E j \in DOMAIN h : x[j] = h[i]

\* Moving the first timer of a way to its end and all others one step back
\* loses none.
LEMMA Rotates ==
  ASSUME NEW n, NEW next, NEW End, NEW r, Steps(n, next, End, r), NEW k, NEW W, NEW e,
         IsWay(n, next, End, r, k, W, e), NEW h, DOMAIN h = 1..n, NEW x,
         x = [j \in 1..n |-> IF j = e THEN h[k] ELSE IF j \in W THEN h[next[j]] ELSE h[j]]
  PROVE  Rearranges(x, h)
<1> DEFINE s == [j \in 1..n |-> IF j = e THEN k ELSE IF j \in W THEN next[j] ELSE j]
<1>1. /\ k \in W /\ e \in W /\ e \in End /\ W \subseteq 1..n
      /\ \A j \in W : j = e \/ (j \notin End /\ next[j] \in W)
      /\ \A j \in W : j # k => \E i \in W : i # e /\ next[i] = j
      /\ \A j \in W : r[e] <= r[j] /\ r[j] <= r[k]
      /\ \A i, j \in W : i # e /\ j # e /\ next[i] = next[j] => i = j
  BY DEF IsWay
<1>2. \A j \in W : j # e => next[j] # k
  <2> SUFFICES ASSUME NEW j \in W, j # e, next[j] = k PROVE FALSE
    OBVIOUS
  <2>1. r[k] < r[j] /\ r[j] <= r[k] /\ r[j] \in Nat /\ r[k] \in Nat
    BY <1>1 DEF Steps
  <2> QED  BY <2>1
<1>3. \A j \in 1..n : s[j] \in 1..n /\ (s[j] \in W <=> j \in W)
  BY <1>1
<1>4. \A i, j \in 1..n : s[i] = s[j] => i = j
  BY <1>1, <1>2, <1>3
<1>5. \A i \in 1..n : \E j \in 1..n : s[j] = i
  <2> SUFFICES ASSUME NEW i \in 1..n PROVE \E j \in 1..n : s[j] = i
    OBVIOUS
  <2>1. CASE i \notin W
    BY <1>1, <2>1
  <2>2. CASE i = k
    BY <1>1, <2>2
  <2>3. CASE i \in W /\ i # k
    BY <1>1, <2>3
  <2> QED  BY <2>1, <2>2, <2>3
<1>6. \A j \in 1..n : x[j] = h[s[j]]
  OBVIOUS
<1>7. DOMAIN x = 1..n
  OBVIOUS
<1> HIDE DEF s
<1>8. Distinct(h) => Distinct(x)
  BY <1>3, <1>4, <1>6, <1>7 DEF Distinct
<1>9. \A i \in 1..n : \E j \in 1..n : x[j] = h[i]
  <2> TAKE i \in 1..n
  <2>1. PICK j \in 1..n : s[j] = i
    BY <1>5
  <2>2. x[j] = h[i]
    BY <1>6, <2>1
  <2> QED  BY <2>2
<1> QED  BY <1>3, <1>6, <1>7, <1>8, <1>9 DEF Rearranges

----------------------------------------------------------------------------
(* The order of the heap *)

LEMMA ParentIs ==
  ASSUME NEW k \in Nat, k > 1
  PROVE  Parent(k) \in 1..k-1
BY TimersAssumption DEF Parent

LEMMA Division ==
  ASSUME NEW x \in Nat, NEW a \in Nat \ {0}, NEW q \in Nat
  PROVE  x \div a = q <=> a * q <= x /\ x < a * q + a
<1>1. a * q <= x /\ x < a * q + a => x \div a = q
  OBVIOUS
<1>2. a * (x \div a) <= x /\ x < a * (x \div a) + a
  OBVIOUS
<1> QED  BY <1>1, <1>2

LEMMA ChildrenAre ==
  ASSUME NEW n \in Nat, NEW h, DOMAIN h = 1..n, NEW k \in 1..n
  PROVE  Children(h, k) = {j \in 2..n : Parent(j) = k}
<1>1. ASSUME NEW j \in 2..n
      PROVE  Parent(j) = k <=> Arity * (k - 1) + 2 <= j /\ j <= Arity * k + 1
  <2>1. PICK x, q \in Nat : x = j - 2 /\ q = k - 1
    OBVIOUS
  <2>2. x \div Arity = q <=> Arity * q <= x /\ x < Arity * q + Arity
    BY TimersAssumption, Division
  <2>3. Arity * k = Arity * q + Arity /\ Arity * (k - 1) = Arity * q
    BY <2>1, TimersAssumption
  <2>4. x \div Arity \in Nat
    BY TimersAssumption
  <2>5. Parent(j) = k <=> x \div Arity = q
    BY <2>1, <2>4 DEF Parent
  <2>6. Arity * q \in Nat /\ Arity \in Nat
    BY TimersAssumption
  <2> QED  BY <2>1, <2>2, <2>3, <2>5, <2>6
<1>2. Arity * (k - 1) + 2 \in Nat /\ Arity * (k - 1) + 2 >= 2 /\ Arity * k + 1 \in Nat
  BY TimersAssumption
<1> QED  BY <1>1, <1>2 DEF Children

\* Among finitely many places one has the least timer.
LEMMA LeastPlace ==
  ASSUME NEW n \in Nat, NEW z \in [1..n -> Int], NEW S \in SUBSET (1..n), S # {}
  PROVE  \E c \in S : \A d \in S : z[c] <= z[d]
<1> DEFINE Found(T) == \E c \in T : \A d \in T : z[c] <= z[d]
           Bad == {x \in Nat : x <= n /\ \E T \in SUBSET (1..x) : T # {} /\ ~Found(T)}
<1>1. SUFFICES ASSUME ~Found(S) PROVE FALSE
  OBVIOUS
<1>2. n \in Bad
  BY <1>1
<1>3. PICK x \in Bad : \A y \in Bad : x <= y
  <2>1. Bad \in SUBSET Nat /\ Bad # {}
    BY <1>2
  <2> HIDE DEF Bad
  <2> QED  BY <2>1, LeastOf
<1>4. PICK T \in SUBSET (1..x) : T # {} /\ ~Found(T)
  BY <1>3
<1>5. x \in Nat /\ x <= n /\ x # 0
  <2>1. x \in Nat /\ x <= n
    BY <1>3
  <2>2. PICK t \in T : t \in 1..x
    BY <1>4
  <2> QED  BY <2>1, <2>2
<1>6. x - 1 \in Nat /\ x - 1 <= n /\ x - 1 \notin Bad
  <2>1. x - 1 \in Nat /\ x - 1 <= n /\ ~(x <= x - 1)
    BY <1>5
  <2> HIDE DEF Bad
  <2> QED  BY <1>3, <2>1
<1>7. \A V \in SUBSET (1..x-1) : V # {} => Found(V)
  BY <1>6
<1>8. x \in T
  <2>1. x \notin T => T \in SUBSET (1..x-1)
    BY <1>5
  <2> QED  BY <1>4, <1>7, <2>1
<1>9. T \ {x} \in SUBSET (1..x-1)
  BY <1>5
<1>10. \A d \in T : z[d] \in Int
  BY <1>5
<1>11. CASE T \ {x} = {}
  <2>1. T = {x}
    BY <1>8, <1>11
  <2> QED  BY <1>4, <1>10, <2>1
<1>12. CASE T \ {x} # {}
  <2>1. Found(T \ {x})
    BY <1>7, <1>9, <1>12
  <2>2. PICK c \in T \ {x} : \A d \in T \ {x} : z[c] <= z[d]
    BY <2>1
  <2>3. CASE z[c] <= z[x]
    <3>1. \A d \in T : z[c] <= z[d]
      BY <2>2, <2>3
    <3> QED  BY <1>4, <2>2, <3>1
  <2>4. CASE ~(z[c] <= z[x])
    <3>1. \A d \in T : z[x] <= z[d]
      BY <1>8, <1>10, <2>2, <2>4
    <3> QED  BY <1>4, <1>8, <3>1
  <2> QED  BY <2>3, <2>4
<1> QED  BY <1>11, <1>12

\* Heaps of n timers of T, and the times those are due.
Heaps(n, T) == [1..n -> T]
Times(T) == [T -> Int]

LEMMA HeapSeq ==
  ASSUME NEW T, NEW n \in Nat, NEW h \in Heaps(n, T)
  PROVE  h \in Seq(T) /\ Len(h) = n /\ DOMAIN h = 1..n
BY DEF Heaps

LEMMA LeastIs ==
  ASSUME NEW T, NEW n \in Nat, NEW h \in Heaps(n, T), NEW w \in Times(T), NEW k \in 1..n,
         Children(h, k) # {}
  PROVE  /\ Least(h, w, k) \in Children(h, k)
         /\ \A d \in Children(h, k) : w[h[Least(h, w, k)]] <= w[h[d]]
<1> DEFINE S == {c \in Children(h, k) : \A d \in Children(h, k) : w[h[c]] <= w[h[d]]}
           z == [j \in 1..n |-> w[h[j]]]
<1>1. Children(h, k) \in SUBSET (1..n)
  BY ChildrenAre DEF Heaps
<1>2. z \in [1..n -> Int]
  BY DEF Heaps, Times
<1>3. PICK c \in Children(h, k) : \A d \in Children(h, k) : z[c] <= z[d]
  <2> HIDE DEF z
  <2> QED  BY <1>1, <1>2, LeastPlace
<1>4. c \in S
  BY <1>1, <1>3
<1>5. S \in SUBSET Nat
  BY <1>1
<1>6. Min(S) \in S
  <2> HIDE DEF S
  <2>1. PICK y \in S : \A u \in S : y <= u
    BY <1>4, <1>5, LeastOf
  <2> QED  BY <2>1 DEF Min
<1>7. Least(h, w, k) = Min(S)
  BY DEF Least
<1> HIDE DEF S
<1>8. Least(h, w, k) \in S
  BY <1>6, <1>7
<1> QED  BY <1>8 DEF S

LEMMA OrderedIs ==
  ASSUME NEW T, NEW n \in Nat, NEW h \in Heaps(n, T), NEW w
  PROVE  Ordered(h, w) <=> \A j \in 2..n : w[h[Parent(j)]] <= w[h[j]]
BY HeapSeq DEF Ordered

\* The first timer of a heap is the earliest.
LEMMA RootFirst ==
  ASSUME NEW T, NEW n \in Nat, NEW h \in Heaps(n, T), NEW w \in Times(T), Ordered(h, w), NEW k \in 1..n
  PROVE  w[h[1]] <= w[h[k]]
<1> DEFINE Bad == {j \in 1..n : ~(w[h[1]] <= w[h[j]])}
<1>1. SUFFICES ASSUME k \in Bad PROVE FALSE
  OBVIOUS
<1>2. PICK x \in Bad : \A y \in Bad : x <= y
  <2>1. Bad \in SUBSET Nat /\ Bad # {}
    BY <1>1
  <2> HIDE DEF Bad
  <2> QED  BY <2>1, LeastOf
<1>3. \A j \in 1..n : w[h[j]] \in Int
  BY DEF Heaps, Times
<1>4. 1 \in 1..n
  BY <1>1
<1>5. x # 1
  BY <1>2, <1>3, <1>4
<1>6. Parent(x) \in 1..x-1
  BY <1>2, <1>5, ParentIs
<1>7. Parent(x) \in 1..n /\ Parent(x) \notin Bad
  BY <1>2, <1>6
<1>8. w[h[Parent(x)]] <= w[h[x]]
  <2>1. x \in 2..n
    BY <1>2, <1>5
  <2> QED  BY <2>1, OrderedIs
<1> QED  BY <1>2, <1>3, <1>4, <1>7, <1>8

\* The heap is in order except at k, and would be without the k-th timer.
Around(h, w, k) ==
  \A j \in DOMAIN h \ {1} :
    /\ j # k /\ Parent(j) # k => w[h[Parent(j)]] <= w[h[j]]
    /\ Parent(j) = k /\ k # 1 => w[h[Parent(k)]] <= w[h[j]]

\* The k-th timer is no earlier than its parent.
Rests(h, w, k) == k = 1 \/ w[h[Parent(k)]] <= w[h[k]]

LEMMA OrderedAround ==
  ASSUME NEW T, NEW n \in Nat, NEW h \in Heaps(n, T), NEW w \in Times(T), NEW k \in 1..n
  PROVE  /\ Ordered(h, w) => Around(h, w, k) /\ Rests(h, w, k)
         /\ Around(h, w, k) /\ Rests(h, w, k) /\ (\A j \in 2..n : Parent(j) # k) => Ordered(h, w)
<1>1. \A j \in 1..n : w[h[j]] \in Int
  BY DEF Heaps, Times
<1>2. DOMAIN h = 1..n /\ \A j \in 1..n : j # 1 => j \in 2..n
  BY DEF Heaps
<1>3. \A j \in 2..n : Parent(j) \in 1..n
  BY ParentIs
<1>4. ASSUME \A j \in 2..n : w[h[Parent(j)]] <= w[h[j]]
      PROVE  Around(h, w, k) /\ Rests(h, w, k)
  BY <1>1, <1>2, <1>3, <1>4 DEF Around, Rests
<1>5. ASSUME Around(h, w, k), Rests(h, w, k), \A j \in 2..n : Parent(j) # k
      PROVE  \A j \in 2..n : w[h[Parent(j)]] <= w[h[j]]
  BY <1>2, <1>5 DEF Around, Rests
<1> QED  BY <1>4, <1>5, OrderedIs

----------------------------------------------------------------------------
(* siftupTimer *)

UpEnd(n, h, w, k) == {j \in 1..n : j = 1 \/ w[h[Parent(j)]] <= w[h[k]]}
UpNext(n) == [j \in 1..n |-> Parent(j)]
UpRank(n) == [j \in 1..n |-> j]

LEMMA UpSteps ==
  ASSUME NEW n \in Nat, NEW h, NEW w, NEW k
  PROVE  Steps(n, UpNext(n), UpEnd(n, h, w, k), UpRank(n))
<1>1. \A j \in 2..n : Parent(j) \in 1..j-1
  BY ParentIs
<1>2. Parent(1) \in Nat
  BY TimersAssumption DEF Parent
<1>3. \A j \in 1..n : j = 1 \/ j \in 2..n
  OBVIOUS
<1>4. UpNext(n) \in [1..n -> Nat]
  BY <1>1, <1>2, <1>3 DEF UpNext
<1>5. UpRank(n) \in [1..n -> 0..n]
  BY DEF UpRank
<1>6. ASSUME NEW j \in 1..n, j \notin UpEnd(n, h, w, k)
      PROVE  UpNext(n)[j] \in 1..n /\ UpRank(n)[UpNext(n)[j]] < UpRank(n)[j]
  <2>1. j \in 2..n
    BY <1>3, <1>6 DEF UpEnd
  <2> QED  BY <1>1, <2>1 DEF UpNext, UpRank
<1> QED  BY <1>4, <1>5, <1>6 DEF Steps

LEMMA UpWay ==
  ASSUME NEW T, NEW n \in Nat, NEW h \in Heaps(n, T), NEW w, NEW k \in 1..n
  PROVE  \E e : /\ IsWay(n, UpNext(n), UpEnd(n, h, w, k), UpRank(n), k, Above(h, w, k), e)
                /\ e = Min(Above(h, w, k))
<1> DEFINE next == UpNext(n)
           End == UpEnd(n, h, w, k)
           up == CHOOSE f : f = [j \in DOMAIN h |-> IF j = 1 \/ w[h[Parent(j)]] <= w[h[k]] THEN {j}
                                                  ELSE {j} \cup f[Parent(j)]]
<1>1. Above(h, w, k) = up[k]
  BY DEF Above
<1>2. PICK g : IsWays(g, 1..n, next, End)
  BY UpSteps, WaysExist
<1>3. \A f : f = [j \in DOMAIN h |-> IF j = 1 \/ w[h[Parent(j)]] <= w[h[k]] THEN {j}
                                      ELSE {j} \cup f[Parent(j)]]
              <=> IsWays(f, 1..n, next, End)
  <2> TAKE f
  <2>1. \A j \in 1..n : /\ j \in End <=> j = 1 \/ w[h[Parent(j)]] <= w[h[k]]
                        /\ next[j] = Parent(j)
    BY DEF UpNext, UpEnd
  <2>2. DOMAIN h = 1..n
    BY DEF Heaps
  <2> HIDE DEF next, End
  <2>3. [j \in DOMAIN h |-> IF j = 1 \/ w[h[Parent(j)]] <= w[h[k]] THEN {j}
                            ELSE {j} \cup f[Parent(j)]]
        = [j \in 1..n |-> IF j \in End THEN {j} ELSE {j} \cup f[next[j]]]
    BY <2>1, <2>2
  <2> QED  BY <2>3, Zenon DEF IsWays
<1>4. IsWays(up, 1..n, next, End)
  BY <1>2, <1>3
<1> HIDE DEF up
<1>5. PICK e : IsWay(n, next, End, UpRank(n), k, up[k], e)
  BY <1>4, UpSteps, WaysAre
<1>6. PICK W : W = up[k]
  OBVIOUS
<1>7. e \in W /\ W \subseteq 1..n /\ \A j \in W : UpRank(n)[e] <= UpRank(n)[j]
  BY <1>5, <1>6 DEF IsWay
<1>8. \A j \in W : e <= j
  BY <1>7 DEF UpRank
<1>9. Min(W) = e
  <2>1. \A x \in W : x \in Int
    BY <1>7
  <2>2. \A x \in W : (\A y \in W : x <= y) => x = e
    BY <1>7, <1>8, <2>1
  <2> QED  BY <1>7, <1>8, <2>2 DEF Min
<1> QED  BY <1>1, <1>5, <1>6, <1>9

\* What siftupTimer puts where.
LEMMA UpIs ==
  ASSUME NEW T, NEW n \in Nat, NEW h \in Heaps(n, T), NEW w, NEW k \in 1..n
  PROVE  \E W, e :
           /\ IsWay(n, UpNext(n), UpEnd(n, h, w, k), UpRank(n), k, W, e)
           /\ siftupTimer(h, w, k)
              = [j \in 1..n |-> IF j = e THEN h[k] ELSE IF j \in W THEN h[UpNext(n)[j]] ELSE h[j]]
<1>1. PICK W : W = Above(h, w, k)
  OBVIOUS
<1>2. PICK e : /\ IsWay(n, UpNext(n), UpEnd(n, h, w, k), UpRank(n), k, W, e)
               /\ e = Min(W)
  BY <1>1, UpWay
<1>3. DOMAIN h = 1..n
  BY DEF Heaps
<1>4. siftupTimer(h, w, k)
      = [j \in 1..n |-> IF j = e THEN h[k] ELSE IF j \in W THEN h[Parent(j)] ELSE h[j]]
  BY <1>1, <1>2, <1>3 DEF siftupTimer
<1>5. \A j \in 1..n : UpNext(n)[j] = Parent(j)
  BY DEF UpNext
<1> QED  BY <1>2, <1>4, <1>5

LEMMA UpRearranges ==
  ASSUME NEW T, NEW n \in Nat, NEW h \in Heaps(n, T), NEW w, NEW k \in 1..n
  PROVE  siftupTimer(h, w, k) \in Heaps(n, T) /\ Rearranges(siftupTimer(h, w, k), h)
<1>1. PICK W, e :
        /\ IsWay(n, UpNext(n), UpEnd(n, h, w, k), UpRank(n), k, W, e)
        /\ siftupTimer(h, w, k)
           = [j \in 1..n |-> IF j = e THEN h[k] ELSE IF j \in W THEN h[UpNext(n)[j]] ELSE h[j]]
  BY UpIs, SMTT(30)
<1>2. PICK x :
        x = [j \in 1..n |-> IF j = e THEN h[k] ELSE IF j \in W THEN h[UpNext(n)[j]] ELSE h[j]]
  OBVIOUS
<1>3. DOMAIN h = 1..n /\ DOMAIN x = 1..n
  BY <1>2 DEF Heaps
<1>4. Rearranges(x, h)
  BY <1>1, <1>2, <1>3, UpSteps, Rotates
<1>5. x \in Heaps(n, T)
  <2>1. \A j \in 1..n : x[j] \in T
    BY <1>3, <1>4 DEF Rearranges, Heaps
  <2> QED  BY <1>2, <1>3, <2>1 DEF Heaps
<1> QED  BY <1>1, <1>2, <1>4, <1>5

\* siftupTimer brings the k-th timer to rest, and moves it only to bring the
\* heap in order.
LEMMA UpOrders ==
  ASSUME NEW T, NEW n \in Nat, NEW h \in Heaps(n, T), NEW w \in Times(T), NEW k \in 1..n, Around(h, w, k)
  PROVE  \/ siftupTimer(h, w, k) = h /\ Rests(h, w, k)
         \/ Ordered(siftupTimer(h, w, k), w)
<1>1. PICK W, e :
        /\ IsWay(n, UpNext(n), UpEnd(n, h, w, k), UpRank(n), k, W, e)
        /\ siftupTimer(h, w, k)
           = [j \in 1..n |-> IF j = e THEN h[k] ELSE IF j \in W THEN h[UpNext(n)[j]] ELSE h[j]]
  BY UpIs, SMTT(30)
<1>2. PICK x :
        x = [j \in 1..n |-> IF j = e THEN h[k] ELSE IF j \in W THEN h[UpNext(n)[j]] ELSE h[j]]
  OBVIOUS
<1>3. /\ k \in W /\ e \in W /\ e \in UpEnd(n, h, w, k) /\ W \subseteq 1..n
      /\ \A j \in W : j = e \/ (j \notin UpEnd(n, h, w, k) /\ UpNext(n)[j] \in W)
      /\ \A j \in W : j # k => \E i \in W : i # e /\ UpNext(n)[i] = j
      /\ \A j \in W : UpRank(n)[e] <= UpRank(n)[j] /\ UpRank(n)[j] <= UpRank(n)[k]
  BY <1>1 DEF IsWay
<1>4. PICK z \in [1..n -> Int] : \A j \in 1..n : z[j] = w[h[j]]
  <2>1. [j \in 1..n |-> w[h[j]]] \in [1..n -> Int]
    BY DEF Heaps, Times
  <2> QED  BY <2>1
<1>5. \A j \in 2..n : Parent(j) \in 1..n /\ Parent(j) < j
  BY ParentIs
<1>6. /\ \A j \in W : j # e => j \in 2..n /\ Parent(j) \in W /\ z[Parent(j)] > z[k]
      /\ \A j \in W : e <= j /\ j <= k
      /\ e # 1 => z[Parent(e)] <= z[k]
      /\ \A j \in W : j # k => z[j] > z[k]
  <2>1. \A j \in 1..n : UpNext(n)[j] = Parent(j) /\ UpRank(n)[j] = j
    BY DEF UpNext, UpRank
  <2>2. \A j \in 1..n : j \in UpEnd(n, h, w, k) <=> j = 1 \/ w[h[Parent(j)]] <= w[h[k]]
    BY DEF UpEnd
  <2>3. \A j \in W : j # e => j \in 2..n /\ Parent(j) \in W /\ ~(w[h[Parent(j)]] <= w[h[k]])
    <3> SUFFICES ASSUME NEW j \in W, j # e
                 PROVE  j \in 2..n /\ Parent(j) \in W /\ ~(w[h[Parent(j)]] <= w[h[k]])
      OBVIOUS
    <3>1. j \in 1..n /\ j \notin UpEnd(n, h, w, k) /\ UpNext(n)[j] \in W
      BY <1>3
    <3>2. j # 1 /\ ~(w[h[Parent(j)]] <= w[h[k]]) /\ Parent(j) \in W
      BY <2>1, <2>2, <3>1
    <3> QED  BY <3>1, <3>2
  <2>4. \A j \in W : j # e => z[Parent(j)] > z[k]
    <3> SUFFICES ASSUME NEW j \in W, j # e PROVE z[Parent(j)] > z[k]
      OBVIOUS
    <3>1. j \in 2..n /\ Parent(j) \in 1..n /\ k \in 1..n /\ ~(w[h[Parent(j)]] <= w[h[k]])
      BY <1>5, <2>3
    <3>2. ~(z[Parent(j)] <= z[k]) /\ z[Parent(j)] \in Int /\ z[k] \in Int
      BY <1>4, <3>1
    <3> QED  BY <3>2
  <2>5. \A j \in W : e <= j /\ j <= k
    BY <1>3, <2>1
  <2>6. e # 1 => z[Parent(e)] <= z[k]
    <3> SUFFICES ASSUME e # 1 PROVE z[Parent(e)] <= z[k]
      OBVIOUS
    <3>1. e \in 2..n /\ w[h[Parent(e)]] <= w[h[k]]
      BY <1>3, <2>2
    <3> QED  BY <1>4, <1>5, <3>1
  <2>7. \A j \in W : j # k => \E i \in W : i # e /\ Parent(i) = j
    BY <1>3, <2>1
  <2> QED  BY <2>3, <2>4, <2>5, <2>6, <2>7
<1>7. \A j \in 2..n :
        /\ j # k /\ Parent(j) # k => z[Parent(j)] <= z[j]
        /\ Parent(j) = k /\ k # 1 => z[Parent(k)] <= z[j]
  <2>1. DOMAIN h = 1..n
    BY DEF Heaps
  <2> SUFFICES ASSUME NEW j \in 2..n
               PROVE  /\ j # k /\ Parent(j) # k => z[Parent(j)] <= z[j]
                      /\ Parent(j) = k /\ k # 1 => z[Parent(k)] <= z[j]
    OBVIOUS
  <2>2. /\ j # k /\ Parent(j) # k => w[h[Parent(j)]] <= w[h[j]]
        /\ Parent(j) = k /\ k # 1 => w[h[Parent(k)]] <= w[h[j]]
    <3>1. j \in DOMAIN h \ {1}
      BY <2>1
    <3> QED  BY <3>1 DEF Around
  <2>3. j \in 1..n /\ Parent(j) \in 1..n /\ (k # 1 => Parent(k) \in 1..n)
    BY <1>5
  <2> QED  BY <1>4, <2>2, <2>3
<1>8. CASE e = k
  <2>1. W = {k}
    <3>1. \A j \in W : j \in Int /\ k <= j /\ j <= k
      BY <1>3, <1>6, <1>8
    <3>2. \A j \in W : j = k
      BY <3>1
    <3> QED  BY <1>3, <3>2, Zenon
  <2>2. x = h
    <3>1. \A j \in 1..n : x[j] = h[j]
      BY <1>2, <1>8, <2>1
    <3>2. x = [j \in 1..n |-> x[j]]
      BY <1>2
    <3>3. h = [j \in 1..n |-> h[j]]
      BY DEF Heaps
    <3>4. [j \in 1..n |-> x[j]] = [j \in 1..n |-> h[j]]
      BY <3>1
    <3> QED  BY <3>2, <3>3, <3>4, Zenon
  <2>3. Rests(h, w, k)
    BY <1>4, <1>5, <1>6, <1>8 DEF Rests
  <2> QED  BY <1>1, <1>2, <2>2, <2>3
<1>9. CASE e # k
  <2>1. \A j \in 1..n : w[x[j]] = IF j = e THEN z[k] ELSE IF j \in W THEN z[Parent(j)] ELSE z[j]
    BY <1>2, <1>3, <1>4, <1>5, <1>6 DEF UpNext
  <2>2. ASSUME NEW j \in 2..n PROVE w[x[Parent(j)]] <= w[x[j]]
    <3>1. PICK p \in 1..n : p = Parent(j) /\ p < j
      BY <1>5
    <3>2. z[j] \in Int /\ z[p] \in Int /\ z[k] \in Int /\ \A i \in 1..n : z[i] \in Int
      OBVIOUS
    <3>3. CASE j \in W /\ j # e
      <4>1. p \in W /\ z[p] > z[k] /\ w[x[j]] = z[p] /\ p # k
        BY <1>3, <1>6, <2>1, <3>1, <3>3
      <4>2. CASE p = e
        BY <2>1, <3>1, <3>2, <4>1, <4>2
      <4>3. CASE p # e
        <5>1. p \in 2..n /\ Parent(p) \in W /\ w[x[p]] = z[Parent(p)]
          BY <1>6, <2>1, <4>1, <4>3
        <5>2. Parent(p) # k
          BY <1>3, <1>5, <1>6, <4>1, <5>1
        <5>3. z[Parent(p)] <= z[p]
          BY <1>7, <4>1, <5>1, <5>2
        <5> QED  BY <3>1, <4>1, <5>1, <5>3
      <4> QED  BY <4>2, <4>3
    <3>4. CASE j = e
      <4>1. p \notin W
        BY <1>3, <1>6, <3>1, <3>4
      <4>2. w[x[j]] = z[k] /\ w[x[p]] = z[p]
        BY <1>3, <2>1, <3>4, <4>1
      <4>3. z[p] <= z[k]
        BY <1>6, <3>1, <3>4
      <4> QED  BY <3>1, <4>2, <4>3
    <3>5. CASE j \notin W /\ p \in W
      <4>1. w[x[j]] = z[j] /\ j # k
        BY <1>3, <2>1, <3>5
      <4>2. CASE p = e
        <5>1. z[e] > z[k] /\ z[e] <= z[j] /\ w[x[p]] = z[k]
          BY <1>3, <1>6, <1>7, <1>9, <2>1, <3>1, <4>1, <4>2
        <5> QED  BY <1>3, <3>1, <3>2, <4>1, <5>1
      <4>3. CASE p # e /\ p = k
        <5>1. k \in 2..n /\ k # 1
          BY <1>3, <1>6, <4>3
        <5>2. z[Parent(k)] <= z[j]
          BY <1>7, <3>1, <4>3, <5>1
        <5>3. w[x[p]] = z[Parent(k)]
          BY <1>3, <2>1, <4>3
        <5> QED  BY <3>1, <4>1, <5>2, <5>3
      <4>4. CASE p # e /\ p # k
        <5>1. p \in 2..n /\ Parent(p) \in W /\ w[x[p]] = z[Parent(p)] /\ z[p] <= z[j]
          BY <1>6, <1>7, <2>1, <3>1, <3>5, <4>1, <4>4
        <5>2. Parent(p) # k
          BY <1>3, <1>5, <1>6, <3>5, <5>1
        <5>3. z[Parent(p)] <= z[p] /\ z[Parent(p)] \in Int
          BY <1>3, <1>7, <4>4, <5>1, <5>2
        <5> QED  BY <3>1, <3>2, <4>1, <5>1, <5>3
      <4> QED  BY <4>2, <4>3, <4>4
    <3>6. CASE j \notin W /\ p \notin W
      <4>1. w[x[j]] = z[j] /\ w[x[p]] = z[p]
        BY <1>3, <2>1, <3>1, <3>6
      <4>2. j # k /\ p # k
        BY <1>3, <3>6
      <4>3. z[p] <= z[j]
        BY <1>7, <3>1, <4>2
      <4> QED  BY <3>1, <4>1, <4>3
    <3> QED  BY <3>3, <3>4, <3>5, <3>6
  <2>3. x \in Heaps(n, T)
    <3>1. siftupTimer(h, w, k) \in Heaps(n, T)
      BY UpRearranges
    <3> QED  BY <1>1, <1>2, <3>1
  <2>4. Ordered(x, w)
    BY <2>2, <2>3, OrderedIs
  <2> QED  BY <1>1, <1>2, <2>4
<1> QED  BY <1>8, <1>9

----------------------------------------------------------------------------
(* siftdownTimer *)

DownEnd(n, h, w, k) ==
  {j \in 1..n : Children(h, j) = {} \/ w[h[Least(h, w, j)]] >= w[h[k]]}
DownNext(n, h, w) == [j \in 1..n |-> IF Children(h, j) = {} THEN 0 ELSE Least(h, w, j)]
DownRank(n) == [j \in 1..n |-> n - j]

\* The least child of a place that has children.
LEMMA DownChild ==
  ASSUME NEW T, NEW n \in Nat, NEW h \in Heaps(n, T), NEW w \in Times(T), NEW j \in 1..n,
         Children(h, j) # {}
  PROVE  /\ DownNext(n, h, w)[j] = Least(h, w, j)
         /\ Least(h, w, j) \in 2..n /\ Least(h, w, j) > j /\ Parent(Least(h, w, j)) = j
         /\ \A d \in 2..n : Parent(d) = j => w[h[Least(h, w, j)]] <= w[h[d]]
<1>1. Children(h, j) = {d \in 2..n : Parent(d) = j}
  BY ChildrenAre DEF Heaps
<1>2. PICK c : c = Least(h, w, j)
  OBVIOUS
<1>3. c \in Children(h, j) /\ \A d \in Children(h, j) : w[h[c]] <= w[h[d]]
  BY <1>2, LeastIs
<1>4. c \in 2..n /\ Parent(c) = j
  BY <1>1, <1>3
<1>5. c > j
  BY <1>4, ParentIs
<1>6. DownNext(n, h, w)[j] = c
  BY <1>2 DEF DownNext
<1> QED  BY <1>1, <1>2, <1>3, <1>4, <1>5, <1>6

LEMMA DownSteps ==
  ASSUME NEW T, NEW n \in Nat, NEW h \in Heaps(n, T), NEW w \in Times(T), NEW k
  PROVE  Steps(n, DownNext(n, h, w), DownEnd(n, h, w, k), DownRank(n))
<1>1. DownNext(n, h, w) \in [1..n -> Nat]
  <2>1. \A j \in 1..n : DownNext(n, h, w)[j] \in Nat
    <3> TAKE j \in 1..n
    <3>1. CASE Children(h, j) = {}
      BY <3>1 DEF DownNext
    <3>2. CASE Children(h, j) # {}
      BY <3>2, DownChild
    <3> QED  BY <3>1, <3>2
  <2> QED  BY <2>1 DEF DownNext
<1>2. DownRank(n) \in [1..n -> 0..n]
  BY DEF DownRank
<1>3. ASSUME NEW j \in 1..n, j \notin DownEnd(n, h, w, k)
      PROVE  /\ DownNext(n, h, w)[j] \in 1..n
             /\ DownRank(n)[DownNext(n, h, w)[j]] < DownRank(n)[j]
  <2>1. Children(h, j) # {}
    BY <1>3 DEF DownEnd
  <2>2. PICK c \in 1..n : c = DownNext(n, h, w)[j] /\ c > j
    BY <2>1, DownChild
  <2> QED  BY <2>2 DEF DownRank
<1> QED  BY <1>1, <1>2, <1>3 DEF Steps

LEMMA DownWay ==
  ASSUME NEW T, NEW n \in Nat, NEW h \in Heaps(n, T), NEW w \in Times(T), NEW k \in 1..n
  PROVE  \E e : /\ IsWay(n, DownNext(n, h, w), DownEnd(n, h, w, k), DownRank(n), k,
                         Below(h, w, k), e)
                /\ e = Max(Below(h, w, k))
<1> DEFINE next == DownNext(n, h, w)
           End == DownEnd(n, h, w, k)
           down == CHOOSE f : f = [j \in DOMAIN h |->
                     IF Children(h, j) = {} \/ w[h[Least(h, w, j)]] >= w[h[k]] THEN {j}
                     ELSE {j} \cup f[Least(h, w, j)]]
<1>1. Below(h, w, k) = down[k]
  BY DEF Below
<1>2. PICK g : IsWays(g, 1..n, next, End)
  BY DownSteps, WaysExist
<1>3. \A f : f = [j \in DOMAIN h |->
                 IF Children(h, j) = {} \/ w[h[Least(h, w, j)]] >= w[h[k]] THEN {j}
                 ELSE {j} \cup f[Least(h, w, j)]]
              <=> IsWays(f, 1..n, next, End)
  <2> TAKE f
  <2>1. \A j \in 1..n : /\ j \in End <=> Children(h, j) = {} \/ w[h[Least(h, w, j)]] >= w[h[k]]
                        /\ Children(h, j) # {} => next[j] = Least(h, w, j)
    BY DEF DownNext, DownEnd
  <2>2. DOMAIN h = 1..n
    BY DEF Heaps
  <2> HIDE DEF next, End
  <2>3. [j \in DOMAIN h |-> IF Children(h, j) = {} \/ w[h[Least(h, w, j)]] >= w[h[k]] THEN {j}
                            ELSE {j} \cup f[Least(h, w, j)]]
        = [j \in 1..n |-> IF j \in End THEN {j} ELSE {j} \cup f[next[j]]]
    BY <2>1, <2>2
  <2> QED  BY <2>3, Zenon DEF IsWays
<1>4. IsWays(down, 1..n, next, End)
  BY <1>2, <1>3
<1> HIDE DEF down
<1>5. PICK e : IsWay(n, next, End, DownRank(n), k, down[k], e)
  BY <1>4, DownSteps, WaysAre
<1>6. PICK W : W = down[k]
  OBVIOUS
<1>7. e \in W /\ W \subseteq 1..n /\ \A j \in W : DownRank(n)[e] <= DownRank(n)[j]
  BY <1>5, <1>6 DEF IsWay
<1>8. \A j \in W : j <= e
  <2>1. \A j \in 1..n : DownRank(n)[j] = n - j
    BY DEF DownRank
  <2> QED  BY <1>7, <2>1
<1>9. Max(W) = e
  <2>1. \A x \in W : x \in Int
    BY <1>7
  <2>2. \A x \in W : (\A y \in W : x >= y) => x = e
    BY <1>7, <1>8, <2>1
  <2>3. \A y \in W : e >= y
    BY <1>7, <1>8, <2>1
  <2> QED  BY <1>7, <2>2, <2>3 DEF Max
<1> QED  BY <1>1, <1>5, <1>6, <1>9

\* What siftdownTimer puts where.
LEMMA DownIs ==
  ASSUME NEW T, NEW n \in Nat, NEW h \in Heaps(n, T), NEW w \in Times(T), NEW k \in 1..n
  PROVE  \E W, e :
           /\ IsWay(n, DownNext(n, h, w), DownEnd(n, h, w, k), DownRank(n), k, W, e)
           /\ siftdownTimer(h, w, k)
              = [j \in 1..n |-> IF j = e THEN h[k] ELSE IF j \in W THEN h[DownNext(n, h, w)[j]]
                                ELSE h[j]]
<1>1. PICK W : W = Below(h, w, k)
  OBVIOUS
<1>2. PICK e : /\ IsWay(n, DownNext(n, h, w), DownEnd(n, h, w, k), DownRank(n), k, W, e)
               /\ e = Max(W)
  BY <1>1, DownWay
<1>3. DOMAIN h = 1..n
  BY DEF Heaps
<1>4. siftdownTimer(h, w, k)
      = [j \in 1..n |-> IF j = e THEN h[k] ELSE IF j \in W THEN h[Least(h, w, j)] ELSE h[j]]
  BY <1>1, <1>2, <1>3 DEF siftdownTimer
<1>5. \A j \in W : j # e => DownNext(n, h, w)[j] = Least(h, w, j)
  <2> SUFFICES ASSUME NEW j \in W, j # e PROVE DownNext(n, h, w)[j] = Least(h, w, j)
    OBVIOUS
  <2>1. j \in 1..n /\ j \notin DownEnd(n, h, w, k)
    BY <1>2 DEF IsWay
  <2>2. Children(h, j) # {}
    BY <2>1 DEF DownEnd
  <2> QED  BY <2>1, <2>2, DownChild
<1>6. [j \in 1..n |-> IF j = e THEN h[k] ELSE IF j \in W THEN h[Least(h, w, j)] ELSE h[j]]
      = [j \in 1..n |-> IF j = e THEN h[k] ELSE IF j \in W THEN h[DownNext(n, h, w)[j]]
                        ELSE h[j]]
  BY <1>5
<1> QED  BY <1>2, <1>4, <1>6

LEMMA DownRearranges ==
  ASSUME NEW T, NEW n \in Nat, NEW h \in Heaps(n, T), NEW w \in Times(T), NEW k \in 1..n
  PROVE  siftdownTimer(h, w, k) \in Heaps(n, T) /\ Rearranges(siftdownTimer(h, w, k), h)
<1>1. PICK next : next = DownNext(n, h, w)
  OBVIOUS
<1>2. PICK W, e :
        /\ IsWay(n, next, DownEnd(n, h, w, k), DownRank(n), k, W, e)
        /\ siftdownTimer(h, w, k)
           = [j \in 1..n |-> IF j = e THEN h[k] ELSE IF j \in W THEN h[next[j]] ELSE h[j]]
  BY <1>1, DownIs
<1>3. PICK x :
        x = [j \in 1..n |-> IF j = e THEN h[k] ELSE IF j \in W THEN h[next[j]] ELSE h[j]]
  OBVIOUS
<1>4. DOMAIN h = 1..n /\ DOMAIN x = 1..n
  BY <1>3 DEF Heaps
<1>5. Steps(n, next, DownEnd(n, h, w, k), DownRank(n))
  BY <1>1, DownSteps
<1>6. Rearranges(x, h)
  BY <1>2, <1>3, <1>4, <1>5, Rotates
<1>7. x \in Heaps(n, T)
  <2>1. \A j \in 1..n : x[j] \in T
    BY <1>4, <1>6 DEF Rearranges, Heaps
  <2> QED  BY <1>3, <1>4, <2>1 DEF Heaps
<1> QED  BY <1>2, <1>3, <1>6, <1>7

\* siftdownTimer brings a heap in order whose k-th timer may be too late.
LEMMA DownOrders ==
  ASSUME NEW T, NEW n \in Nat, NEW h \in Heaps(n, T), NEW w \in Times(T), NEW k \in 1..n,
         Around(h, w, k), Rests(h, w, k)
  PROVE  Ordered(siftdownTimer(h, w, k), w)
<1>1. PICK next : next = DownNext(n, h, w)
  OBVIOUS
<1>2. PICK W, e :
        /\ IsWay(n, next, DownEnd(n, h, w, k), DownRank(n), k, W, e)
        /\ siftdownTimer(h, w, k)
           = [j \in 1..n |-> IF j = e THEN h[k] ELSE IF j \in W THEN h[next[j]] ELSE h[j]]
  BY <1>1, DownIs
<1>3. PICK x :
        x = [j \in 1..n |-> IF j = e THEN h[k] ELSE IF j \in W THEN h[next[j]] ELSE h[j]]
  OBVIOUS
<1>4. /\ k \in W /\ e \in W /\ e \in DownEnd(n, h, w, k) /\ W \subseteq 1..n
      /\ \A j \in W : j = e \/ (j \notin DownEnd(n, h, w, k) /\ next[j] \in W)
      /\ \A j \in W : j # k => \E i \in W : i # e /\ next[i] = j
      /\ \A j \in W : DownRank(n)[e] <= DownRank(n)[j] /\ DownRank(n)[j] <= DownRank(n)[k]
  BY <1>2 DEF IsWay
<1>5. PICK z \in [1..n -> Int] : \A j \in 1..n : z[j] = w[h[j]]
  <2>1. [j \in 1..n |-> w[h[j]]] \in [1..n -> Int]
    BY DEF Heaps, Times
  <2> QED  BY <2>1
<1>6. \A j \in 2..n : Parent(j) \in 1..n /\ Parent(j) < j
  BY ParentIs
<1>7. \A j \in W : k <= j /\ j <= e
  <2>1. \A j \in 1..n : DownRank(n)[j] = n - j
    BY DEF DownRank
  <2> QED  BY <1>4, <2>1
<1>8. ASSUME NEW j \in W, j # e
      PROVE  /\ next[j] \in W /\ next[j] \in 2..n /\ Parent(next[j]) = j /\ z[next[j]] < z[k]
             /\ \A d \in 2..n : Parent(d) = j => z[next[j]] <= z[d]
  <2>1. j \in 1..n /\ j \notin DownEnd(n, h, w, k) /\ next[j] \in W
    BY <1>4, <1>8
  <2>2. Children(h, j) # {} /\ ~(w[h[Least(h, w, j)]] >= w[h[k]])
    BY <2>1 DEF DownEnd
  <2>3. PICK c \in 2..n : /\ c = Least(h, w, j) /\ c = next[j] /\ Parent(c) = j
                          /\ \A d \in 2..n : Parent(d) = j => w[h[c]] <= w[h[d]]
    BY <1>1, <2>1, <2>2, DownChild
  <2>4. c \in 1..n /\ \A d \in 2..n : d \in 1..n
    OBVIOUS
  <2>5. z[c] < z[k]
    <3>1. ~(z[c] >= z[k]) /\ z[c] \in Int /\ z[k] \in Int
      BY <1>5, <2>2, <2>3, <2>4
    <3> QED  BY <3>1
  <2>6. \A d \in 2..n : Parent(d) = j => z[c] <= z[d]
    BY <1>5, <2>3, <2>4
  <2> QED  BY <2>1, <2>3, <2>5, <2>6
<1>9. \A d \in 2..n : Parent(d) = e => z[k] <= z[d]
  <2> SUFFICES ASSUME NEW d \in 2..n, Parent(d) = e PROVE z[k] <= z[d]
    OBVIOUS
  <2>1. e \in 1..n /\ d \in Children(h, e)
    BY <1>4, ChildrenAre DEF Heaps
  <2>2. w[h[Least(h, w, e)]] >= w[h[k]]
    BY <1>4, <2>1 DEF DownEnd
  <2>3. PICK c \in 2..n : c = Least(h, w, e) /\ w[h[c]] <= w[h[d]]
    BY <2>1, DownChild
  <2>4. z[c] >= z[k] /\ z[c] <= z[d] /\ z[c] \in Int /\ z[k] \in Int /\ z[d] \in Int
    BY <1>5, <2>2, <2>3
  <2> QED  BY <2>4
<1>10. \A j \in 2..n :
         /\ j # k /\ Parent(j) # k => z[Parent(j)] <= z[j]
         /\ Parent(j) = k /\ k # 1 => z[Parent(k)] <= z[j]
  <2>1. DOMAIN h = 1..n
    BY DEF Heaps
  <2> SUFFICES ASSUME NEW j \in 2..n
               PROVE  /\ j # k /\ Parent(j) # k => z[Parent(j)] <= z[j]
                      /\ Parent(j) = k /\ k # 1 => z[Parent(k)] <= z[j]
    OBVIOUS
  <2>2. /\ j # k /\ Parent(j) # k => w[h[Parent(j)]] <= w[h[j]]
        /\ Parent(j) = k /\ k # 1 => w[h[Parent(k)]] <= w[h[j]]
    <3>1. j \in DOMAIN h \ {1}
      BY <2>1
    <3> QED  BY <3>1 DEF Around
  <2>3. j \in 1..n /\ Parent(j) \in 1..n /\ (k # 1 => Parent(k) \in 1..n)
    BY <1>6
  <2> QED  BY <1>5, <2>2, <2>3
<1>11. k # 1 => z[Parent(k)] <= z[k]
  <2>1. k # 1 => k \in 2..n
    OBVIOUS
  <2> QED  BY <1>5, <1>6, <2>1 DEF Rests
<1>12. \A j \in W : j # k => \E i \in W : i # e /\ next[i] = j /\ Parent(j) = i /\ z[j] < z[k]
  BY <1>4, <1>8
<1>13. \A j \in 1..n : w[x[j]] = IF j = e THEN z[k] ELSE IF j \in W THEN z[next[j]] ELSE z[j]
  <2> TAKE j \in 1..n
  <2>1. CASE j \in W /\ j # e
    <3>1. next[j] \in 1..n
      BY <1>4, <1>8, <2>1
    <3> QED  BY <1>3, <1>5, <2>1, <3>1
  <2>2. CASE ~(j \in W /\ j # e)
    BY <1>3, <1>4, <1>5, <2>2
  <2> QED  BY <2>1, <2>2
<1>14. ASSUME NEW j \in 2..n PROVE w[x[Parent(j)]] <= w[x[j]]
  <2>1. PICK p \in 1..n : p = Parent(j) /\ p < j
    BY <1>6
  <2>2. j \in 1..n /\ \A i \in 1..n : z[i] \in Int
    OBVIOUS
  <2>3. CASE p \notin W /\ j \notin W
    BY <1>4, <1>10, <1>13, <2>1, <2>2, <2>3
  <2>4. CASE p \notin W /\ j \in W
    <3>1. j = k /\ w[x[p]] = z[p] /\ k # 1
      BY <1>4, <1>12, <1>13, <2>1, <2>4
    <3>2. CASE e = k
      BY <1>11, <1>13, <2>1, <2>2, <3>1, <3>2
    <3>3. CASE e # k
      <4>1. next[k] \in 2..n /\ Parent(next[k]) = k /\ w[x[j]] = z[next[k]]
        BY <1>4, <1>8, <1>13, <2>2, <3>1, <3>3
      <4>2. z[Parent(k)] <= z[next[k]]
        BY <1>10, <3>1, <4>1
      <4> QED  BY <2>1, <3>1, <4>1, <4>2
    <3> QED  BY <3>2, <3>3
  <2>5. CASE p \in W /\ p # e
    <3>1. /\ w[x[p]] = z[next[p]] /\ z[next[p]] < z[k] /\ next[p] \in 2..n
          /\ z[next[p]] <= z[j] /\ Parent(next[p]) = p
      BY <1>8, <1>13, <2>1, <2>5
    <3>2. CASE j \notin W
      BY <1>4, <1>13, <2>1, <2>2, <3>1, <3>2
    <3>3. CASE j = e
      <4>1. w[x[j]] = z[k] /\ z[next[p]] \in Int /\ z[k] \in Int
        BY <1>13, <2>2, <3>1, <3>3
      <4> QED  BY <2>1, <3>1, <4>1
    <3>4. CASE j \in W /\ j # e
      <4>1. next[j] \in 2..n /\ Parent(next[j]) = j /\ w[x[j]] = z[next[j]]
        BY <1>8, <1>13, <2>2, <3>4
      <4>2. j # k
        BY <1>4, <1>7, <2>1, <2>5
      <4>3. z[j] <= z[next[j]]
        <5>1. j < next[j] /\ k <= j
          BY <1>6, <1>7, <3>4, <4>1
        <5> QED  BY <1>10, <4>1, <4>2, <5>1
      <4>4. z[next[j]] \in Int /\ z[j] \in Int /\ z[next[p]] \in Int
        BY <2>2, <3>1, <4>1
      <4> QED  BY <2>1, <3>1, <4>1, <4>3, <4>4
    <3> QED  BY <3>2, <3>3, <3>4
  <2>6. CASE p = e
    <3>1. j \notin W
      BY <1>4, <1>7, <2>1, <2>6
    <3>2. w[x[p]] = z[k] /\ w[x[j]] = z[j]
      BY <1>4, <1>13, <2>2, <2>6, <3>1
    <3> QED  BY <1>9, <2>1, <2>6, <3>2
  <2> QED  BY <2>3, <2>4, <2>5, <2>6
<1>15. x \in Heaps(n, T)
  <2>1. siftdownTimer(h, w, k) \in Heaps(n, T)
    BY DownRearranges
  <2> QED  BY <1>2, <1>3, <2>1
<1>16. Ordered(x, w)
  BY <1>14, <1>15, OrderedIs
<1> QED  BY <1>2, <1>3, <1>16

----------------------------------------------------------------------------
(* What addtimer, deltimer and timerproc do to the heap *)

\* The last timer in the free place k is the only one that may be out of order.
LEMMA MovedAround ==
  ASSUME NEW T, NEW n \in Nat, NEW h \in Heaps(n, T), NEW w \in Times(T), Ordered(h, w), NEW k \in 1..n-1,
         NEW g, g = [j \in 1..n-1 |-> IF j = k THEN h[n] ELSE h[j]]
  PROVE  g \in Heaps(n - 1, T) /\ Around(g, w, k)
<1>1. n - 1 \in Nat /\ n \in 1..n /\ \A j \in 1..n-1 : j \in 1..n
  OBVIOUS
<1>2. g \in Heaps(n - 1, T)
  BY <1>1 DEF Heaps
<1>3. \A j \in 2..n : Parent(j) \in 1..n /\ Parent(j) < j
  BY ParentIs
<1>4. \A j \in 2..n : w[h[Parent(j)]] <= w[h[j]]
  BY OrderedIs
<1>5. \A j \in 1..n : w[h[j]] \in Int
  BY DEF Heaps, Times
<1>6. \A j \in 1..n-1 : j # k => g[j] = h[j]
  OBVIOUS
<1>7. ASSUME NEW j \in DOMAIN g \ {1}
      PROVE  /\ j # k /\ Parent(j) # k => w[g[Parent(j)]] <= w[g[j]]
             /\ Parent(j) = k /\ k # 1 => w[g[Parent(k)]] <= w[g[j]]
  <2>1. j \in 2..n /\ j \in 1..n-1
    OBVIOUS
  <2>2. PICK p \in 1..n-1 : p = Parent(j) /\ p < j /\ w[h[p]] <= w[h[j]]
    BY <1>3, <1>4, <2>1
  <2>3. ASSUME j # k, p # k PROVE w[g[p]] <= w[g[j]]
    BY <1>6, <2>1, <2>2, <2>3
  <2>4. ASSUME p = k, k # 1 PROVE w[g[Parent(k)]] <= w[g[j]]
    <3>1. k \in 2..n /\ j # k
      BY <2>2, <2>4
    <3>2. PICK q \in 1..n-1 : q = Parent(k) /\ q < k /\ w[h[q]] <= w[h[k]]
      BY <1>3, <1>4, <3>1
    <3>3. w[g[q]] = w[h[q]] /\ w[g[j]] = w[h[j]]
      BY <1>6, <2>1, <3>1, <3>2
    <3>4. w[h[q]] \in Int /\ w[h[k]] \in Int /\ w[h[j]] \in Int
      BY <1>1, <1>5, <2>1, <3>2
    <3>5. w[h[q]] <= w[h[k]] /\ w[h[k]] <= w[h[j]]
      BY <2>2, <2>4, <3>2
    <3>6. w[g[q]] <= w[g[j]]
      BY <3>3, <3>4, <3>5
    <3> QED  BY <3>2, <3>6
  <2> QED  BY <2>2, <2>3, <2>4
<1> QED  BY <1>2, <1>7 DEF Around

\* r has the timers of a heap h of n but the k-th.
Without(r, h, n, k) ==
  /\ \A j \in 1..n-1 : \E i \in 1..n : i # k /\ r[j] = h[i]
  /\ \A i \in 1..n : i # k => \E j \in 1..n-1 : r[j] = h[i]

\* Removed takes the k-th timer, and no other, out of a heap and keeps its
\* order: the timer that takes its place goes up or down as far as it has to
\* (deltimer), whatever its subtree.
THEOREM RemovedKeeps ==
  ASSUME NEW T, NEW n \in Nat, NEW h \in Heaps(n, T), Distinct(h), NEW w \in Times(T), Ordered(h, w),
         NEW k \in 1..n, NEW r, r = Removed(h, w, k)
  PROVE  r \in Heaps(n - 1, T) /\ Distinct(r) /\ Ordered(r, w) /\ Without(r, h, n, k)
<1>1. PICK m \in Nat : m = n - 1
  OBVIOUS
<1>2. Len(h) = n /\ DOMAIN h = 1..n /\ h \in Seq(T) /\ h \in [1..n -> T]
  BY HeapSeq DEF Heaps
<1>3. CASE k = n
  <2>1. r = Front(h)
    BY <1>2, <1>3 DEF Removed
  <2>2. r = [j \in 1..m |-> h[j]]
    BY <1>1, <1>2, <2>1 DEF Front
  <2>3. r \in Heaps(m, T)
    BY <1>1, <1>2, <2>2 DEF Heaps
  <2>4. Distinct(r)
    BY <1>1, <1>2, <2>2 DEF Distinct
  <2>5. \A j \in 1..m : j \in 1..n /\ j # k /\ r[j] = h[j]
    BY <1>1, <1>3, <2>2
  <2>6. \A i \in 1..n : i # k => i \in 1..m
    BY <1>1, <1>3
  <2>7. \A j \in 2..m : w[r[Parent(j)]] <= w[r[j]]
    <3> SUFFICES ASSUME NEW j \in 2..m PROVE w[r[Parent(j)]] <= w[r[j]]
      OBVIOUS
    <3>1. Parent(j) \in 1..m /\ j \in 1..m /\ j \in 2..n
      BY <1>1, ParentIs
    <3>2. w[h[Parent(j)]] <= w[h[j]]
      BY <3>1, OrderedIs
    <3> QED  BY <2>5, <3>1, <3>2
  <2>8. Ordered(r, w)
    BY <2>3, <2>7, OrderedIs
  <2>9. Without(r, h, n, k)
    BY <1>1, <2>5, <2>6 DEF Without
  <2> QED  BY <1>1, <2>3, <2>4, <2>8, <2>9
<1>4. CASE k # n
  <2>1. k \in 1..m
    BY <1>1, <1>4
  <2>2. PICK g : g = [j \in 1..n-1 |-> IF j = k THEN h[n] ELSE h[j]]
    OBVIOUS
  <2>3. g \in Heaps(m, T) /\ Around(g, w, k)
    BY <1>1, <2>1, <2>2, MovedAround
  <2>4. DOMAIN g = 1..m
    BY <1>1, <2>2
  <2>5. PICK u : u = siftupTimer(g, w, k)
    OBVIOUS
  <2>6. r = siftdownTimer(u, w, k)
    BY <1>2, <1>4, <2>2, <2>5 DEF Removed
  <2>7. u \in Heaps(m, T) /\ Rearranges(u, g)
    BY <2>1, <2>3, <2>5, UpRearranges
  <2>8. r \in Heaps(m, T) /\ Rearranges(r, u)
    BY <2>1, <2>6, <2>7, DownRearranges
  <2>9. Around(u, w, k) /\ Rests(u, w, k)
    <3>1. (u = g /\ Rests(g, w, k)) \/ Ordered(u, w)
      BY <2>1, <2>3, <2>5, UpOrders
    <3>2. Ordered(u, w) => Around(u, w, k) /\ Rests(u, w, k)
      BY <2>1, <2>7, OrderedAround
    <3> QED  BY <2>3, <3>1, <3>2
  <2>10. Ordered(r, w)
    BY <2>1, <2>6, <2>7, <2>9, DownOrders
  <2>11. DOMAIN u = 1..m /\ DOMAIN r = 1..m
    BY <2>4, <2>7, <2>8 DEF Rearranges
  <2>12. Distinct(g)
    BY <1>1, <1>2, <2>1, <2>2, <2>4 DEF Distinct
  <2>13. Distinct(r)
    BY <2>7, <2>8, <2>12 DEF Rearranges
  <2>14. ASSUME NEW j \in 1..m PROVE \E i \in 1..n : i # k /\ r[j] = h[i]
    <3>1. PICK a \in 1..m : r[j] = u[a]
      BY <2>8, <2>11 DEF Rearranges
    <3>2. PICK b \in 1..m : u[a] = g[b]
      BY <2>4, <2>7, <2>11 DEF Rearranges
    <3>3. PICK i \in 1..n : i # k /\ g[b] = h[i]
      BY <1>1, <1>4, <2>2
    <3> QED  BY <3>1, <3>2, <3>3
  <2>15. ASSUME NEW i \in 1..n, i # k PROVE \E j \in 1..m : r[j] = h[i]
    <3>1. PICK b \in 1..m : g[b] = h[i]
      <4>1. CASE i = n
        BY <1>1, <2>1, <2>2, <4>1
      <4>2. CASE i # n
        BY <1>1, <2>2, <2>15, <4>2
      <4> QED  BY <4>1, <4>2
    <3>2. PICK a \in 1..m : u[a] = g[b]
      BY <2>4, <2>7, <2>11 DEF Rearranges
    <3>3. PICK j \in 1..m : r[j] = u[a]
      BY <2>8, <2>11 DEF Rearranges
    <3> QED  BY <3>1, <3>2, <3>3
  <2>16. Without(r, h, n, k)
    BY <1>1, <2>14, <2>15 DEF Without
  <2> QED  BY <1>1, <2>8, <2>10, <2>13, <2>16
<1> QED  BY <1>3, <1>4

\* addtimer puts one timer into the heap and keeps its order.
LEMMA AddedKeeps ==
  ASSUME NEW T, NEW n \in Nat, NEW h \in Heaps(n, T), Distinct(h), NEW w \in Times(T), Ordered(h, w),
         NEW t \in T, \A i \in 1..n : h[i] # t,
         NEW v \in Times(T), \A u \in T : u # t => v[u] = w[u],
         NEW s, s = siftupTimer(Append(h, t), v, n + 1)
  PROVE  /\ s \in Heaps(n + 1, T) /\ Distinct(s) /\ Ordered(s, v)
         /\ \A j \in 1..n+1 : s[j] = t \/ \E i \in 1..n : s[j] = h[i]
<1>1. PICK m \in Nat : m = n + 1 /\ m \in 1..m /\ \A j \in 1..m : j = m \/ j \in 1..n
  OBVIOUS
<1>2. PICK g : g = Append(h, t)
  OBVIOUS
<1>3. /\ g \in Heaps(m, T) /\ DOMAIN g = 1..m /\ g[m] = t
      /\ \A j \in 1..n : g[j] = h[j] /\ h[j] \in T
  <2>1. h \in Seq(T) /\ Len(h) = n /\ \A j \in 1..n : h[j] \in T
    BY HeapSeq DEF Heaps
  <2>2. /\ g \in Seq(T) /\ Len(g) = m /\ g[m] = t
        /\ \A j \in 1..n : g[j] = h[j]
    BY <1>1, <1>2, <2>1
  <2>3. g \in [1..m -> T]
    BY <2>2
  <2> QED  BY <2>1, <2>2, <2>3 DEF Heaps
<1>4. Distinct(g)
  <2>1. DOMAIN h = 1..n
    BY HeapSeq
  <2> QED  BY <1>1, <1>3, <2>1 DEF Distinct
<1>5. \A j \in 2..m : Parent(j) \in 1..n /\ Parent(j) < j
  BY <1>1, ParentIs
<1>6. \A j \in 1..n : v[g[j]] = w[h[j]]
  BY <1>3
<1>7. Around(g, v, m)
  <2> SUFFICES ASSUME NEW j \in DOMAIN g \ {1}
               PROVE  /\ j # m /\ Parent(j) # m => v[g[Parent(j)]] <= v[g[j]]
                      /\ Parent(j) = m /\ m # 1 => v[g[Parent(m)]] <= v[g[j]]
    BY DEF Around
  <2>1. j \in 2..m
    BY <1>3
  <2>2. Parent(j) # m
    BY <1>1, <1>5, <2>1
  <2>3. ASSUME j # m PROVE v[g[Parent(j)]] <= v[g[j]]
    <3>1. j \in 2..n /\ j \in 1..n /\ Parent(j) \in 1..n
      BY <1>1, <1>5, <2>1, <2>3
    <3>2. w[h[Parent(j)]] <= w[h[j]]
      BY <3>1, OrderedIs
    <3> QED  BY <1>6, <3>1, <3>2
  <2> QED  BY <2>2, <2>3
<1>8. s = siftupTimer(g, v, m)
  BY <1>1, <1>2
<1>9. s \in Heaps(m, T) /\ Rearranges(s, g)
  BY <1>1, <1>3, <1>8, UpRearranges
<1>10. Ordered(s, v)
  <2>1. (s = g /\ Rests(g, v, m)) \/ Ordered(s, v)
    BY <1>1, <1>3, <1>7, <1>8, UpOrders
  <2>2. \A j \in 2..m : Parent(j) # m
    BY <1>1, <1>5
  <2>3. Rests(g, v, m) => Ordered(g, v)
    BY <1>1, <1>3, <1>7, <2>2, OrderedAround
  <2> QED  BY <2>1, <2>3
<1>11. Distinct(s)
  BY <1>4, <1>9 DEF Rearranges
<1>12. ASSUME NEW j \in 1..m PROVE s[j] = t \/ \E i \in 1..n : s[j] = h[i]
  <2>1. PICK i \in 1..m : s[j] = g[i]
    <3>1. \A a \in DOMAIN g : \E b \in DOMAIN g : s[a] = g[b]
      BY <1>9, Zenon DEF Rearranges
    <3> QED  BY <1>3, <3>1, Zenon
  <2>2. CASE i = m
    BY <1>3, <2>1, <2>2
  <2>3. CASE i \in 1..n
    <3>1. s[j] = h[i]
      BY <1>3, <2>1, <2>3
    <3> QED  BY <2>3, <3>1, Zenon
  <2> QED  BY <1>1, <2>2, <2>3
<1> QED  BY <1>1, <1>9, <1>10, <1>11, <1>12

\* Putting the first timer off keeps the heap in order.
LEMMA PutOffKeeps ==
  ASSUME NEW T, NEW n \in Nat, NEW h \in Heaps(n, T), Distinct(h), NEW w \in Times(T), Ordered(h, w), 1 \in 1..n,
         NEW v \in Times(T), \A u \in T : u # h[1] => v[u] = w[u],
         NEW s, s = siftdownTimer(h, v, 1)
  PROVE  s \in Heaps(n, T) /\ Distinct(s) /\ Ordered(s, v) /\ Rearranges(s, h)
<1>1. DOMAIN h = 1..n
  BY HeapSeq
<1>2. \A j \in 1..n : j # 1 => v[h[j]] = w[h[j]]
  BY <1>1 DEF Distinct, Heaps
<1>3. Around(h, v, 1)
  <2> SUFFICES ASSUME NEW j \in DOMAIN h \ {1}, Parent(j) # 1
               PROVE  v[h[Parent(j)]] <= v[h[j]]
    BY DEF Around
  <2>1. j \in 2..n /\ j \in 1..n
    BY <1>1
  <2>2. Parent(j) \in 1..n
    BY <2>1, ParentIs
  <2>3. w[h[Parent(j)]] <= w[h[j]]
    BY <2>1, OrderedIs
  <2> QED  BY <1>2, <2>1, <2>2, <2>3
<1>4. Rests(h, v, 1)
  BY DEF Rests
<1>5. Ordered(s, v)
  BY <1>3, <1>4, DownOrders
<1>6. s \in Heaps(n, T) /\ Rearranges(s, h)
  BY DownRearranges
<1> QED  BY <1>5, <1>6 DEF Rearranges

\* What the timers run checks of every heap up to MaxHeap holds of all: the
\* order is kept and no timer lost, removing any or putting off the first.
THEOREM HeapOpsKeep == HeapOps
<1> SUFFICES ASSUME NEW n \in 1..MaxHeap, NEW w \in [1..n -> Whens],
                    Ordered([j \in 1..n |-> j], w)
             PROVE  /\ \A k \in 1..n :
                         LET r == Removed([j \in 1..n |-> j], w, k)
                         IN  Ordered(r, w) /\ ToSet(r) = (1..n) \ {k}
                    /\ \A d \in Whens :
                         LET v == [w EXCEPT ![1] = @ + d]
                             r == siftdownTimer([j \in 1..n |-> j], v, 1)
                         IN  Ordered(r, v) /\ ToSet(r) = 1..n
  BY Zenon DEF HeapOps
<1>1. PICK T, h : T = 1..n /\ h = [j \in 1..n |-> j]
  OBVIOUS
<1>2. n \in Nat /\ 1 \in 1..n /\ Whens \subseteq Int
  BY MCTimersAssumption
<1>3. h \in Heaps(n, T) /\ Distinct(h) /\ DOMAIN h = 1..n /\ \A j \in 1..n : h[j] = j
  BY <1>1 DEF Heaps, Distinct
<1>4. w \in Times(T) /\ Ordered(h, w)
  BY <1>1, <1>2 DEF Times
<1>5. ASSUME NEW k \in 1..n, NEW r, r = Removed(h, w, k)
      PROVE  Ordered(r, w) /\ ToSet(r) = (1..n) \ {k}
  <2>1. r \in Heaps(n - 1, T) /\ Ordered(r, w) /\ Without(r, h, n, k)
    BY <1>2, <1>3, <1>4, <1>5, RemovedKeeps
  <2>2. DOMAIN r = 1..n-1
    BY <2>1 DEF Heaps
  <2>3. ToSet(r) = {r[j] : j \in 1..n-1}
    BY <2>2 DEF ToSet
  <2>4. \A j \in 1..n-1 : r[j] \in (1..n) \ {k}
    BY <1>3, <2>1 DEF Without
  <2>5. \A i \in (1..n) \ {k} : \E j \in 1..n-1 : r[j] = i
    BY <1>3, <2>1 DEF Without
  <2>6. {r[j] : j \in 1..n-1} = (1..n) \ {k}
    BY <2>4, <2>5, ZenonT(30)
  <2> QED  BY <2>1, <2>3, <2>6
<1>6. ASSUME NEW d \in Whens, NEW v, v = [w EXCEPT ![1] = w[1] + d],
             NEW r, r = siftdownTimer(h, v, 1)
      PROVE  Ordered(r, v) /\ ToSet(r) = 1..n
  <2>1. v \in Times(T) /\ \A u \in T : u # h[1] => v[u] = w[u]
    BY <1>1, <1>2, <1>3, <1>4, <1>6 DEF Times
  <2>2. Ordered(r, v) /\ Rearranges(r, h)
    <3>1. h \in Heaps(n, T) /\ Distinct(h)
      BY <1>3
    <3>2. r = siftdownTimer(h, v, 1)
      BY <1>6
    <3>3. n \in Nat /\ 1 \in 1..n
      BY <1>2
    <3> QED  BY <1>4, <2>1, <3>1, <3>2, <3>3, PutOffKeeps, SMTT(30)
  <2>3. /\ DOMAIN r = 1..n
        /\ \A j \in 1..n : \E i \in 1..n : r[j] = h[i]
        /\ \A i \in 1..n : \E j \in 1..n : r[j] = h[i]
    BY <1>3, <2>2, ZenonT(30) DEF Rearranges
  <2>4. ToSet(r) = {r[j] : j \in 1..n}
    BY <2>3 DEF ToSet
  <2>5. \A j \in 1..n : r[j] \in 1..n
    <3> TAKE j \in 1..n
    <3>1. PICK i \in 1..n : r[j] = h[i]
      BY <2>3
    <3> QED  BY <1>3, <3>1
  <2>6. \A i \in 1..n : \E j \in 1..n : r[j] = i
    BY <1>3, <2>3
  <2>7. {r[j] : j \in 1..n} = 1..n
    BY <2>5, <2>6, ZenonT(30)
  <2> QED  BY <2>2, <2>4, <2>7
<1>7. \A d \in Whens : [w EXCEPT ![1] = @ + d] = [w EXCEPT ![1] = w[1] + d]
  OBVIOUS
<1> QED  BY <1>1, <1>5, <1>6, <1>7, ZenonT(30)

----------------------------------------------------------------------------
(* timerproc and its note *)

\* addtimer wakes the note only while sleeping is set, and timerproc clears the
\* note when it sets it: a note that is to be woken has not been woken.
NoteInv ==
  /\ ~thrown
  /\ sleeping \in BOOLEAN
  /\ sleeping => key = 0

\* No timer has been added and timerproc is not created.
LEMMA InitNote == Init => NoteInv
  BY DEF Init, NoteInv

\* The only step that wakes the note is addtimer's, which clears sleeping with
\* it, whether timerproc is before, in or past its sleep.
LEMMA StepNote == NoteInv /\ [Next]_vars => NoteInv'
<1> SUFFICES ASSUME NoteInv, [Next]_vars
             PROVE  NoteInv'
  OBVIOUS
<1> USE DEF NoteInv
<1>1. ASSUME NEW t \in Timer, addtimer(t)
      PROVE  NoteInv'
  BY <1>1 DEF addtimer, Kick
<1>2. ASSUME NEW t \in Timer, deltimer(t)
      PROVE  NoteInv'
  BY <1>2 DEF deltimer
<1>3. ASSUME NEW stale, Scan(stale)
      PROVE  NoteInv'
  <2>1. CASE Idle
    BY <2>1 DEF Idle
  <2>2. CASE Sleep(stale)
    BY <2>2 DEF Sleep
  <2>3. CASE Due(stale)
    BY <2>3 DEF Due
  <2> QED
    BY <1>3, <2>1, <2>2, <2>3 DEF Scan
<1>4. CASE Top
  BY <1>3, <1>4 DEF Top
<1>5. CASE Fire
  BY <1>3, <1>5 DEF Fire
<1>6. CASE Noteload \/ Futexsleep \/ Timeout \/ Interrupt \/ Awake
  BY <1>6 DEF Noteload, Futexsleep, Timeout, Interrupt, Awake
<1>7. CASE Tick
  BY <1>7 DEF Tick
<1>8. CASE UNCHANGED vars
  BY <1>8 DEF vars
<1> QED
  BY <1>1, <1>2, <1>4, <1>5, <1>6, <1>7, <1>8 DEF Next

\* addtimer's wakeup of timerproc's note is never the second one since
\* noteclear: notewakeup does not throw.
THEOREM WakesOnce == Spec => []WakeOnce
<1>1. NoteInv => WakeOnce
  BY DEF NoteInv, WakeOnce
<1> QED
  BY InitNote, StepNote, <1>1, PTL DEF Spec

----------------------------------------------------------------------------
(* The heap in every state *)

HeapInv ==
  /\ Len(heap) \in Nat /\ heap \in Heaps(Len(heap), Timer) /\ Distinct(heap)
  /\ left \in Times(Timer)
  /\ period \in [Timer -> Nat]
  /\ age \in Int
  /\ Ordered(heap, left)

\* The heap is empty.
LEMMA InitHeap == Init => HeapInv
<1> SUFFICES ASSUME Init PROVE HeapInv
  OBVIOUS
<1>1. heap = <<>> /\ Len(heap) = 0 /\ heap \in [1..0 -> Timer] /\ DOMAIN heap = {}
  BY DEF Init
<1>2. left \in Times(Timer) /\ period \in [Timer -> Nat] /\ age \in Int
  BY DEF Init, Times
<1>3. heap \in Heaps(Len(heap), Timer) /\ Distinct(heap)
  BY <1>1 DEF Heaps, Distinct
<1>4. Ordered(heap, left)
  BY <1>1 DEF Ordered
<1> QED  BY <1>1, <1>2, <1>3, <1>4 DEF HeapInv

\* What addtimer's part of the heap does, to the timers that were there.
LEMMA StepEnqueue ==
  ASSUME HeapInv, NEW t \in Timer, Enqueue(t)
  PROVE  /\ Len(heap') = Len(heap) + 1 /\ heap' \in Heaps(Len(heap'), Timer) /\ Distinct(heap')
         /\ left' \in Times(Timer) /\ period' \in [Timer -> Nat] /\ Ordered(heap', left')
         /\ \A j \in 1..Len(heap') :
              \/ heap'[j] = t
              \/ \E i \in 1..Len(heap) : heap'[j] = heap[i] /\ left'[heap'[j]] = left[heap[i]]
<1>1. PICK n \in Nat : n = Len(heap)
  BY DEF HeapInv
<1>2. heap \in Heaps(n, Timer) /\ Distinct(heap) /\ left \in Times(Timer) /\ Ordered(heap, left)
  BY <1>1 DEF HeapInv
<1>3. DOMAIN heap = 1..n /\ \A i \in 1..n : heap[i] \in Timer
  BY <1>2, HeapSeq DEF Heaps
<1>4. \A i \in 1..n : heap[i] # t
  BY <1>3 DEF Enqueue, InHeap
<1>5. PICK d \in Delays : left' = [left EXCEPT ![t] = d]
  BY DEF Enqueue
<1>6. PICK v : v = left'
  OBVIOUS
<1>7. v \in Times(Timer) /\ \A u \in Timer : u # t => v[u] = left[u]
  BY <1>2, <1>5, <1>6, TimersAssumption DEF Times
<1>8. period' \in [Timer -> Nat]
  BY TimersAssumption DEF Enqueue, HeapInv
<1>9. PICK s : s = heap'
  OBVIOUS
<1>10. s = siftupTimer(Append(heap, t), v, n + 1)
  BY <1>1, <1>6, <1>9 DEF Enqueue
<1>11. /\ s \in Heaps(n + 1, Timer) /\ Distinct(s) /\ Ordered(s, v)
       /\ \A j \in 1..n+1 : s[j] = t \/ \E i \in 1..n : s[j] = heap[i]
  BY <1>2, <1>4, <1>7, <1>10, AddedKeeps
<1>12. Len(s) = n + 1
  BY <1>11, HeapSeq
<1>13. ASSUME NEW j \in 1..n+1
       PROVE  \/ s[j] = t
              \/ \E i \in 1..n : s[j] = heap[i] /\ v[s[j]] = left[heap[i]]
  <2>1. CASE s[j] = t
    BY <2>1
  <2>2. CASE s[j] # t
    <3>1. PICK i \in 1..n : s[j] = heap[i]
      BY <1>11, <2>2
    <3>2. v[s[j]] = left[heap[i]]
      BY <1>3, <1>4, <1>7, <3>1
    <3> QED  BY <3>1, <3>2
  <2> QED  BY <2>1, <2>2
<1> QED  BY <1>1, <1>6, <1>7, <1>8, <1>9, <1>11, <1>12, <1>13

\* What deltimer and timerproc leave of the heap.
LEMMA StepRemove ==
  ASSUME HeapInv, NEW k \in DOMAIN heap, heap' = Removed(heap, left, k), Forget(heap[k])
  PROVE  /\ Len(heap') \in Nat /\ heap' \in Heaps(Len(heap'), Timer) /\ Distinct(heap')
         /\ left' \in Times(Timer) /\ period' \in [Timer -> Nat] /\ Ordered(heap', left')
         /\ \A j \in 1..Len(heap') :
              \E i \in 1..Len(heap) : heap'[j] = heap[i] /\ left'[heap'[j]] = left[heap[i]]
<1>1. PICK n \in Nat : n = Len(heap)
  BY DEF HeapInv
<1>2. heap \in Heaps(n, Timer) /\ Distinct(heap) /\ left \in Times(Timer) /\ Ordered(heap, left)
  BY <1>1 DEF HeapInv
<1>3. DOMAIN heap = 1..n /\ \A i \in 1..n : heap[i] \in Timer
  BY <1>2, HeapSeq DEF Heaps
<1>4. PICK m \in Nat : m = n - 1
  BY <1>3
<1>5. PICK r : r = heap'
  OBVIOUS
<1>6. PICK v : v = left'
  OBVIOUS
<1>7. /\ r \in Heaps(m, Timer) /\ Distinct(r) /\ Ordered(r, left)
      /\ \A j \in 1..m : \E i \in 1..n : i # k /\ r[j] = heap[i]
  <2>1. k \in 1..n
    BY <1>3
  <2>2. PICK h, w : h = heap /\ w = left
    OBVIOUS
  <2>3. h \in Heaps(n, Timer) /\ Distinct(h) /\ w \in Times(Timer) /\ Ordered(h, w)
    BY <1>2, <2>2
  <2>4. r = Removed(h, w, k)
    BY <1>5, <2>2
  <2>5. /\ r \in Heaps(n - 1, Timer) /\ Distinct(r) /\ Ordered(r, w)
        /\ \A j \in 1..n-1 : \E i \in 1..n : i # k /\ r[j] = h[i]
    <3>1. r \in Heaps(n - 1, Timer) /\ Distinct(r) /\ Ordered(r, w) /\ Without(r, h, n, k)
      BY <2>1, <2>3, <2>4, RemovedKeeps
    <3> QED  BY <3>1 DEF Without
  <2> QED  BY <1>4, <2>2, <2>5
<1>8. Len(r) = m
  BY <1>7, HeapSeq
<1>9. v \in Times(Timer) /\ \A u \in Timer : u # heap[k] => v[u] = left[u]
  BY <1>2, <1>3, <1>6 DEF Forget, Times
<1>10. period' \in [Timer -> Nat]
  BY DEF Forget, HeapInv
<1>11. ASSUME NEW j \in 1..m
       PROVE  \E i \in 1..n : r[j] = heap[i] /\ v[r[j]] = left[heap[i]]
  <2>1. PICK i \in 1..n : i # k /\ r[j] = heap[i]
    BY <1>7
  <2>2. heap[i] # heap[k]
    BY <1>2, <1>3, <2>1 DEF Distinct
  <2>3. v[r[j]] = left[heap[i]]
    BY <1>3, <1>9, <2>1, <2>2
  <2> QED  BY <2>1, <2>3
<1>12. \A j \in 1..m : v[r[j]] = left[r[j]]
  <2> SUFFICES ASSUME NEW j \in 1..m PROVE v[r[j]] = left[r[j]]
    OBVIOUS
  <2>1. PICK i \in 1..n : r[j] = heap[i] /\ v[r[j]] = left[heap[i]]
    BY <1>11
  <2> QED  BY <2>1
<1>13. Ordered(r, v)
  <2>1. \A j \in 2..m : left[r[Parent(j)]] <= left[r[j]]
    BY <1>7, OrderedIs
  <2>2. \A j \in 2..m : j \in 1..m /\ Parent(j) \in 1..m
    BY ParentIs
  <2>3. \A j \in 2..m : v[r[Parent(j)]] <= v[r[j]]
    BY <1>12, <2>1, <2>2
  <2> QED  BY <1>7, <2>3, OrderedIs
<1> QED  BY <1>1, <1>5, <1>6, <1>7, <1>8, <1>9, <1>10, <1>11, <1>13

\* timerproc's critical section keeps the heap in order.
LEMMA StepScan ==
  ASSUME HeapInv, NEW stale \in Int, Scan(stale)
  PROVE  HeapInv'
<1>1. CASE Idle
  <2>1. UNCHANGED <<heap, left, period>> /\ age' \in Int
    BY <1>1 DEF Idle
  <2> QED  BY <2>1 DEF HeapInv
<1>2. CASE Sleep(stale)
  <2>1. UNCHANGED <<heap, left, period>> /\ age' \in Int
    BY <1>2 DEF Sleep
  <2> QED  BY <2>1 DEF HeapInv
<1>3. CASE Due(stale)
  <2>1. PICK n \in Nat : n = Len(heap)
    BY DEF HeapInv
  <2>2. heap \in Heaps(n, Timer) /\ Distinct(heap) /\ left \in Times(Timer) /\ Ordered(heap, left)
    BY <2>1 DEF HeapInv
  <2>3. heap \in Seq(Timer) /\ DOMAIN heap = 1..n /\ \A i \in 1..n : heap[i] \in Timer
    BY <2>2, HeapSeq DEF Heaps
  <2>4. 1 \in 1..n
    <3>1. heap # <<>>
      BY <1>3 DEF Due
    <3> QED  BY <2>1, <2>3, <3>1
  <2>5. age' \in Int
    BY <1>3 DEF Due
  <2>6. PICK t \in Timer : t = heap[1]
    BY <2>3, <2>4
  <2>7. PICK late \in Nat : late = -(left[t] + stale)
    <3>1. left[t] \in Int
      BY <2>2 DEF Times
    <3>2. -(left[t] + stale) >= 0
      BY <1>3, <2>6, Zenon DEF Due
    <3> QED  BY <3>1, <3>2
  <2>8. CASE period[t] = 0
    <3>1. Forget(heap[1]) /\ heap' = Removed(heap, left, 1)
      BY <1>3, <2>6, <2>8, Zenon DEF Due
    <3>2. 1 \in DOMAIN heap
      BY <2>3, <2>4
    <3>3. /\ Len(heap') \in Nat /\ heap' \in Heaps(Len(heap'), Timer) /\ Distinct(heap')
          /\ left' \in Times(Timer) /\ period' \in [Timer -> Nat] /\ Ordered(heap', left')
      BY <3>1, <3>2, StepRemove
    <3> QED  BY <2>5, <3>3 DEF HeapInv
  <2>9. CASE period[t] # 0
    <3>1. /\ left' = [left EXCEPT ![t] = left[t] + period[t] * (1 + late \div period[t])]
          /\ heap' = siftdownTimer(heap, left', 1)
          /\ UNCHANGED period
      BY <1>3, <2>6, <2>7, <2>9, Zenon DEF Due
    <3>2. PICK p \in Nat \ {0} : p = period[t]
      BY <2>9 DEF HeapInv
    <3>3. PICK c \in Int : c = left[t] + period[t] * (1 + late \div period[t])
      <4>1. late \div p \in Int
        BY <3>2
      <4>2. p * (1 + late \div p) \in Int
        BY <4>1
      <4>3. left[t] \in Int
        BY <2>2 DEF Times
      <4> QED  BY <3>2, <4>2, <4>3
    <3>4. PICK v : v = left'
      OBVIOUS
    <3>5. v \in Times(Timer) /\ \A u \in Timer : u # heap[1] => v[u] = left[u]
      BY <2>2, <2>6, <3>1, <3>3, <3>4 DEF Times
    <3>6. PICK s : s = heap'
      OBVIOUS
    <3>7. s = siftdownTimer(heap, v, 1)
      BY <3>1, <3>4, <3>6
    <3>8. s \in Heaps(n, Timer) /\ Distinct(s) /\ Ordered(s, v)
      BY <2>2, <2>4, <3>5, <3>7, PutOffKeeps
    <3>9. Len(s) = n
      BY <3>8, HeapSeq
    <3> QED  BY <2>5, <3>1, <3>4, <3>5, <3>6, <3>8, <3>9 DEF HeapInv
  <2> QED  BY <2>8, <2>9
<1> QED  BY <1>1, <1>2, <1>3 DEF Scan

\* The clock takes the same from every timer of the heap.
LEMMA StepTick ==
  ASSUME HeapInv, Tick
  PROVE  /\ HeapInv'
         /\ \A k \in 1..Len(heap) : left'[heap[k]] = left[heap[k]] - 1
<1>1. PICK n \in Nat : n = Len(heap)
  BY DEF HeapInv
<1>2. heap \in Heaps(n, Timer) /\ Distinct(heap) /\ left \in Times(Timer) /\ Ordered(heap, left)
  BY <1>1 DEF HeapInv
<1>3. DOMAIN heap = 1..n /\ \A i \in 1..n : heap[i] \in Timer /\ left[heap[i]] \in Int
  BY <1>2, HeapSeq DEF Heaps, Times
<1>4. PICK v : v = left'
  OBVIOUS
<1>5. v = [t \in Timer |-> IF InHeap(t) THEN left[t] - 1 ELSE left[t]]
  BY <1>4 DEF Tick
<1>6. v \in Times(Timer)
  BY <1>2, <1>5 DEF Times
<1>7. \A k \in 1..n : v[heap[k]] = left[heap[k]] - 1
  BY <1>3, <1>5 DEF InHeap
<1>8. Ordered(heap, v)
  <2>1. \A j \in 2..n : left[heap[Parent(j)]] <= left[heap[j]]
    BY <1>2, OrderedIs
  <2>2. \A j \in 2..n : j \in 1..n /\ Parent(j) \in 1..n
    BY ParentIs
  <2>3. \A j \in 2..n : v[heap[Parent(j)]] <= v[heap[j]]
    BY <1>3, <1>7, <2>1, <2>2
  <2> QED  BY <1>2, <2>3, OrderedIs
<1>9. UNCHANGED <<heap, period>> /\ age' \in Int
  BY DEF Tick, HeapInv
<1>10. HeapInv'
  BY <1>4, <1>6, <1>8, <1>9 DEF HeapInv
<1> QED  BY <1>1, <1>4, <1>7, <1>10

\* No operation, callback or tick of the clock brings the heap out of order.
LEMMA StepHeap == HeapInv /\ [Next]_vars => HeapInv'
<1> SUFFICES ASSUME HeapInv, [Next]_vars PROVE HeapInv'
  OBVIOUS
<1>1. ASSUME NEW t \in Timer, addtimer(t) PROVE HeapInv'
  <2>1. Enqueue(t) /\ age' = age
    BY <1>1 DEF addtimer, Kick
  <2>2. Len(heap) \in Nat /\ age \in Int
    BY DEF HeapInv
  <2>3. /\ Len(heap') = Len(heap) + 1 /\ heap' \in Heaps(Len(heap'), Timer) /\ Distinct(heap')
        /\ left' \in Times(Timer) /\ period' \in [Timer -> Nat] /\ Ordered(heap', left')
    BY <2>1, StepEnqueue
  <2> QED  BY <2>1, <2>2, <2>3 DEF HeapInv
<1>2. ASSUME NEW t \in Timer, deltimer(t) PROVE HeapInv'
  <2>1. PICK k \in DOMAIN heap : heap[k] = t /\ heap' = Removed(heap, left, k)
    BY <1>2 DEF deltimer
  <2>2. Forget(heap[k]) /\ age' \in Int
    BY <1>2, <2>1 DEF deltimer, HeapInv
  <2>3. /\ Len(heap') \in Nat /\ heap' \in Heaps(Len(heap'), Timer) /\ Distinct(heap')
        /\ left' \in Times(Timer) /\ period' \in [Timer -> Nat] /\ Ordered(heap', left')
    BY <2>1, <2>2, StepRemove
  <2> QED  BY <2>2, <2>3 DEF HeapInv
<1>3. CASE Top
  BY <1>3, StepScan DEF Top
<1>4. CASE Fire
  <2>1. age \in Int
    BY DEF HeapInv
  <2> QED  BY <1>4, <2>1, StepScan DEF Fire
<1>5. CASE Noteload \/ Futexsleep \/ Timeout \/ Interrupt \/ Awake
  <2>1. UNCHANGED <<heap, left, period>> /\ age' \in Int
    BY <1>5 DEF Noteload, Futexsleep, Timeout, Interrupt, Awake, HeapInv
  <2> QED  BY <2>1 DEF HeapInv
<1>6. CASE Tick
  BY <1>6, StepTick
<1>7. CASE UNCHANGED vars
  BY <1>7 DEF vars, HeapInv
<1> QED
  BY <1>1, <1>2, <1>3, <1>4, <1>5, <1>6, <1>7 DEF Next

\* timers.t is a heap in every state: siftupTimer and siftdownTimer restore its
\* order after every addtimer, deltimer and firing, with any number of timers,
\* and they would in every other heap.
THEOREM TimersInOrder == Spec => []HeapOrdered
<1>1. HeapInv => HeapOrdered
  BY HeapOpsKeep, Zenon DEF HeapInv, HeapOrdered
<1> QED
  BY InitHeap, StepHeap, <1>1, PTL DEF Spec

----------------------------------------------------------------------------
(* timerproc's sleep *)

\* The instant timerproc aims at, and that no timer of the heap is due before x.
Aim == (IF pc = "note" THEN delta ELSE deadline) - age
Later(x) == \A k \in DOMAIN heap : left[heap[k]] >= x

\* A note timerproc sleeps on, or is about to, is either woken or will be by the
\* next timer that becomes the first one: sleeping is still set.
SleepInv ==
  /\ delta \in Int /\ deadline \in Int
  /\ pc = "futex" => key = 0
  /\ pc = "idle" => rescheduling /\ heap = <<>>
  /\ pc \in {"note", "call", "futex", "awake"} /\ key = 0 => sleeping /\ Later(Aim)

\* timerproc is not created.
LEMMA InitSleep == Init => SleepInv
  BY DEF Init, SleepInv

\* addtimer wakes the note if the new timer is the first one; if it is not, it
\* is due no earlier than one timerproc knows of.
LEMMA AddSleep ==
  ASSUME HeapInv, NoteInv, SleepInv, NEW t \in Timer, addtimer(t)
  PROVE  SleepInv'
<1>1. PICK n \in Nat : n = Len(heap)
  BY DEF HeapInv
<1>2. Enqueue(t) /\ DOMAIN heap = 1..n
  BY <1>1, HeapSeq DEF addtimer, HeapInv
<1>3. PICK h, v : h = heap' /\ v = left'
  OBVIOUS
<1>4. /\ Len(h) = n + 1 /\ h \in Heaps(n + 1, Timer) /\ v \in Times(Timer) /\ Ordered(h, v)
      /\ \A j \in 1..n+1 :
           \/ h[j] = t
           \/ \E i \in 1..n : h[j] = heap[i] /\ v[h[j]] = left[heap[i]]
  BY <1>1, <1>2, <1>3, StepEnqueue
<1>5. n + 1 \in Nat /\ 1 \in 1..n+1
  OBVIOUS
<1>6. DOMAIN h = 1..n+1
  BY <1>4, <1>5, HeapSeq
<1>7. delta' = delta /\ deadline' = deadline /\ age' = age
  BY DEF addtimer, Kick
<1>8. CASE h[1] = t
  <2>1. /\ key' = IF sleeping THEN 1 ELSE key
        /\ pc' = IF pc = "none" \/ rescheduling THEN "top"
                 ELSE IF pc = "futex" /\ sleeping THEN "awake" ELSE pc
    BY <1>3, <1>8 DEF addtimer, Kick, NoteInv
  <2>2. pc \in {"note", "call", "futex", "awake"} => key' # 0
    BY <2>1 DEF SleepInv, NoteInv
  <2>3. pc' # "idle" /\ pc' # "futex"
    BY <2>1 DEF SleepInv
  <2>4. pc' \in {"note", "call", "futex", "awake"} => pc \in {"note", "call", "futex", "awake"}
    BY <2>1
  <2> QED  BY <1>7, <2>2, <2>3, <2>4 DEF SleepInv
<1>9. CASE h[1] # t
  <2>1. /\ key' = key /\ pc' = IF pc = "none" THEN "top" ELSE pc
        /\ sleeping' = sleeping
    BY <1>3, <1>9 DEF addtimer, Kick, NoteInv
  <2>2. PICK i \in 1..n : v[h[1]] = left[heap[i]]
    BY <1>4, <1>5, <1>9
  <2>3. pc' # "idle"
    <3>1. heap # <<>>
      BY <1>1, <2>2
    <3> QED  BY <2>1, <3>1 DEF SleepInv
  <2>4. ASSUME pc' \in {"note", "call", "futex", "awake"}, key' = 0
        PROVE  sleeping' /\ Later(Aim)'
    <3>1. pc' = pc /\ sleeping /\ Later(Aim)
      BY <2>1, <2>4 DEF SleepInv
    <3>2. PICK a \in Int : a = Aim
      BY DEF Aim, SleepInv, HeapInv
    <3>3. a = Aim'
      BY <1>7, <3>1, <3>2 DEF Aim
    <3>4. v[h[1]] >= a
      BY <1>2, <2>2, <3>1, <3>2 DEF Later
    <3>5. ASSUME NEW k \in 1..n+1 PROVE v[h[k]] >= a
      <4>1. v[h[1]] <= v[h[k]]
        BY <1>4, <1>5, RootFirst
      <4>2. v[h[1]] \in Int /\ v[h[k]] \in Int
        BY <1>4, <1>5 DEF Heaps, Times
      <4> QED  BY <3>4, <4>1, <4>2
    <3>6. \A k \in DOMAIN heap' : left'[heap'[k]] >= Aim'
      BY <1>3, <1>6, <3>3, <3>5
    <3> QED  BY <2>1, <3>1, <3>6 DEF Later
  <2>5. pc' = "futex" => key' = 0
    BY <2>1 DEF SleepInv
  <2> QED  BY <1>7, <2>3, <2>4, <2>5 DEF SleepInv
<1> QED  BY <1>8, <1>9

\* A timer less is none that could be missed.
LEMMA DelSleep ==
  ASSUME HeapInv, SleepInv, NEW t \in Timer, deltimer(t)
  PROVE  SleepInv'
<1>1. PICK k \in DOMAIN heap : heap[k] = t /\ heap' = Removed(heap, left, k)
  BY DEF deltimer
<1>2. Forget(heap[k]) /\ UNCHANGED <<sleeping, rescheduling, key, pc, delta, age, deadline>>
  BY <1>1 DEF deltimer
<1>3. /\ Len(heap') \in Nat /\ heap' \in Heaps(Len(heap'), Timer)
      /\ \A j \in 1..Len(heap') :
           \E i \in 1..Len(heap) : heap'[j] = heap[i] /\ left'[heap'[j]] = left[heap[i]]
  BY <1>1, <1>2, StepRemove
<1>4. DOMAIN heap' = 1..Len(heap') /\ DOMAIN heap = 1..Len(heap)
  BY <1>3, HeapSeq DEF HeapInv
<1>5. pc # "idle"
  <2>1. heap # <<>>
    BY <1>1
  <2> QED  BY <2>1 DEF SleepInv
<1>6. Aim' = Aim
  BY <1>2 DEF Aim
<1>7. Later(Aim) => Later(Aim)'
  <2> SUFFICES ASSUME Later(Aim), NEW j \in DOMAIN heap' PROVE left'[heap'[j]] >= Aim'
    BY DEF Later
  <2>1. PICK i \in DOMAIN heap : left'[heap'[j]] = left[heap[i]]
    BY <1>3, <1>4
  <2>2. left[heap[i]] >= Aim
    BY DEF Later
  <2> QED  BY <1>6, <2>1, <2>2
<1> QED  BY <1>2, <1>5, <1>7 DEF SleepInv

\* timerproc aims at the first timer, and no other is earlier.
LEMMA ScanSleep ==
  ASSUME HeapInv, SleepInv, NEW stale \in Int, Scan(stale)
  PROVE  SleepInv'
<1>1. CASE Idle
  BY <1>1 DEF Idle, SleepInv
<1>2. CASE Sleep(stale)
  <2>1. PICK n \in Nat : n = Len(heap)
    BY DEF HeapInv
  <2>2. heap \in Heaps(n, Timer) /\ left \in Times(Timer) /\ Ordered(heap, left)
    BY <2>1 DEF HeapInv
  <2>3. DOMAIN heap = 1..n /\ heap \in Seq(Timer) /\ \A i \in 1..n : left[heap[i]] \in Int
    BY <2>2, HeapSeq DEF Heaps, Times
  <2>4. 1 \in 1..n
    <3>1. heap # <<>>
      BY <1>2 DEF Sleep
    <3> QED  BY <2>1, <2>3, <3>1
  <2>5. PICK x \in Int : x = left[heap[1]]
    BY <2>3, <2>4
  <2>6. /\ delta' = x + stale /\ sleeping' = TRUE /\ pc' = "note" /\ age' = stale
        /\ heap' = heap /\ left' = left /\ deadline' = deadline
    BY <1>2, <2>5 DEF Sleep
  <2>7. Aim' = x
    BY <2>6 DEF Aim
  <2>8. \A k \in 1..n : left[heap[k]] >= x
    <3> SUFFICES ASSUME NEW k \in 1..n PROVE left[heap[k]] >= x
      OBVIOUS
    <3>1. left[heap[1]] <= left[heap[k]]
      BY <2>2, RootFirst
    <3> QED  BY <2>3, <2>5, <3>1
  <2>9. Later(Aim)'
    BY <2>3, <2>6, <2>7, <2>8 DEF Later
  <2>10. delta' \in Int /\ deadline' \in Int
    BY <2>6 DEF SleepInv
  <2> QED  BY <2>6, <2>9, <2>10 DEF SleepInv
<1>3. CASE Due(stale)
  BY <1>3 DEF Due, SleepInv
<1> QED  BY <1>1, <1>2, <1>3 DEF Scan

\* Time that passes takes as much from every timer as from the sleep, or adds
\* it to the age of timerproc's now.
LEMMA TickSleep ==
  ASSUME HeapInv, SleepInv, Tick
  PROVE  SleepInv'
<1>1. \A k \in DOMAIN heap : left'[heap[k]] = left[heap[k]] - 1 /\ left[heap[k]] \in Int
  <2>1. DOMAIN heap = 1..Len(heap) /\ \A k \in DOMAIN heap : heap[k] \in Timer
    BY HeapSeq DEF HeapInv, Heaps
  <2>2. \A k \in 1..Len(heap) : left'[heap[k]] = left[heap[k]] - 1
    BY StepTick
  <2> QED  BY <2>1, <2>2 DEF HeapInv, Times
<1>2. UNCHANGED <<heap, sleeping, rescheduling, key, pc, delta>>
  BY DEF Tick
<1>3. delta' \in Int /\ deadline' \in Int
  BY DEF Tick, SleepInv
<1>4. ASSUME pc \in {"note", "call", "futex", "awake"} PROVE Aim' = Aim - 1 /\ Aim \in Int
  <2>1. age \in Int /\ delta \in Int /\ deadline \in Int
    BY DEF HeapInv, SleepInv
  <2>2. CASE pc = "note"
    BY <2>1, <2>2 DEF Tick, Aim
  <2>3. CASE pc # "note"
    BY <1>4, <2>1, <2>3 DEF Tick, Aim
  <2> QED  BY <2>2, <2>3
<1>5. ASSUME pc \in {"note", "call", "futex", "awake"}, Later(Aim) PROVE Later(Aim)'
  <2>1. \A k \in DOMAIN heap : left'[heap[k]] >= Aim'
    BY <1>1, <1>4, <1>5 DEF Later
  <2> QED  BY <1>2, <2>1 DEF Later
<1> QED  BY <1>2, <1>3, <1>5 DEF SleepInv

\* The steps of notetsleep_internal: the kernel keeps nobody asleep on a note
\* that was woken, and a sleep that ended early goes on to the same deadline.
LEMMA NoteSleep ==
  ASSUME HeapInv, SleepInv, Noteload \/ Futexsleep \/ Timeout \/ Interrupt \/ Awake
  PROVE  SleepInv'
<1>1. UNCHANGED <<heap, left, sleeping, rescheduling, key>>
  BY DEF Noteload, Futexsleep, Timeout, Interrupt, Awake
<1>2. delta' \in Int /\ deadline' \in Int
  BY DEF Noteload, Futexsleep, Timeout, Interrupt, Awake, SleepInv
<1>3. pc' # "idle" /\ (pc' = "futex" => key' = 0)
  BY <1>1 DEF Noteload, Futexsleep, Timeout, Interrupt, Awake
<1>4. ASSUME pc' \in {"note", "call", "futex", "awake"}, key' = 0
      PROVE  pc \in {"note", "call", "futex", "awake"} /\ Aim' = Aim
  BY <1>1, <1>4 DEF Noteload, Futexsleep, Timeout, Interrupt, Awake, Aim
<1>5. ASSUME pc' \in {"note", "call", "futex", "awake"}, key' = 0
      PROVE  sleeping' /\ Later(Aim)'
  <2>1. sleeping /\ Later(Aim) /\ Aim' = Aim
    BY <1>1, <1>4, <1>5 DEF SleepInv
  <2> QED  BY <1>1, <2>1 DEF Later
<1> QED  BY <1>2, <1>3, <1>5 DEF SleepInv

LEMMA StepSleep == HeapInv /\ NoteInv /\ SleepInv /\ [Next]_vars => SleepInv'
<1> SUFFICES ASSUME HeapInv, NoteInv, SleepInv, [Next]_vars PROVE SleepInv'
  OBVIOUS
<1>1. ASSUME NEW t \in Timer, addtimer(t) PROVE SleepInv'
  BY <1>1, AddSleep
<1>2. ASSUME NEW t \in Timer, deltimer(t) PROVE SleepInv'
  BY <1>2, DelSleep
<1>3. CASE Top
  BY <1>3, ScanSleep DEF Top
<1>4. CASE Fire
  <2>1. age \in Int
    BY DEF HeapInv
  <2> QED  BY <1>4, <2>1, ScanSleep DEF Fire
<1>5. CASE Noteload \/ Futexsleep \/ Timeout \/ Interrupt \/ Awake
  BY <1>5, NoteSleep
<1>6. CASE Tick
  BY <1>6, TickSleep
<1>7. CASE UNCHANGED vars
  <2>1. UNCHANGED <<heap, left, sleeping, rescheduling, key, pc, delta, age, deadline>>
    BY <1>7 DEF vars
  <2> QED  BY <2>1 DEF SleepInv, Later, Aim
<1> QED
  BY <1>1, <1>2, <1>3, <1>4, <1>5, <1>6, <1>7 DEF Next

\* timerproc never sleeps past a timer of the heap: none is due before the
\* instant it aims at, unless its note was woken, whatever addtimer and
\* deltimer do between its look at the heap and the kernel's at the note.
THEOREM TimersNeverOversleep == Spec => []NoOversleep
<1>1. SleepInv => NoOversleep
  <2> SUFFICES ASSUME SleepInv, NEW k \in DOMAIN heap
               PROVE  /\ pc = "note" /\ key = 0 => left[heap[k]] >= delta - age
                      /\ pc \in {"call", "awake"} /\ key = 0 => left[heap[k]] >= deadline - age
                      /\ pc = "futex" => left[heap[k]] >= deadline - age
                      /\ pc # "idle"
    BY DEF NoOversleep
  <2>1. pc # "idle"
    <3>1. heap # <<>>
      OBVIOUS
    <3> QED  BY <3>1 DEF SleepInv
  <2> QED  BY <2>1 DEF SleepInv, Later, Aim
<1> QED
  BY InitHeap, StepHeap, InitNote, StepNote, InitSleep, StepSleep, <1>1, PTL DEF Spec
=============================================================================
