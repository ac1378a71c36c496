---------------------------- MODULE SelectProofs ----------------------------
(***************************************************************************)
(* Proofs about channels and select: nobody is woken twice, nobody is      *)
(* forgotten by a close or a peer, the locks never form a circle, buffers  *)
(* are first in, first out, the unlocked fast path is honest and no value  *)
(* is lost or doubled.                                                     *)
(***************************************************************************)
EXTENDS Select, FiniteSetTheorems, SequenceTheorems, NaturalsInduction, TLAPS

Sudog == [g: Gs, i: Nat \ {0}]
Queues == [Dirs -> Seq(Sudog)]

\* Indices into the buffer of channel c, which is empty if c is synchronous.
Index(c) == IF Cap[c] = 0 THEN {0} ELSE 0..Cap[c]-1

Hchan(c) ==
  [lock: Gs \cup {NoG}, closed: BOOLEAN, qcount: 0..Cap[c], sendx: Index(c),
   recvx: Index(c), buf: [0..Cap[c]-1 -> Nat], q: Queues]

HchanOK(h) == h = [c \in Chans |-> h[c]] /\ \A c \in Chans : h[c] \in Hchan(c)

CaseSeqs == Seq([dir: Dirs \cup {"close"}, c: Chans, val: Nat])
CallType == [sel: BOOLEAN, block: BOOLEAN, cases: CaseSeqs]
Places ==
  {"idle", "fast", "fastq", "fastc", "lock", "deliver", "ready", "closing",
   "parked", "woken", "sellock", "pass1", "pass3"}

TypeOK ==
  /\ HchanOK(hchan)
  /\ pc \in [Gs -> Places]
  /\ call \in [Gs -> CallType]
  /\ done \in [Gs -> {0, 1}]
  /\ param \in [Gs -> Nat]
  /\ wake \in [Gs -> [sg: Sudog \cup {NoSg}, i: Nat]]
  /\ nv \in Nat

\* What kind of call is where.
Plain(l) == l \in {"fast", "fastq", "fastc", "lock", "closing"}
Selecting(l) == l \in {"sellock", "pass1", "pass3"}

CallOK(g) ==
  /\ pc[g] # "idle" => Cases(g) # <<>>
  /\ ~call[g].sel => Len(Cases(g)) <= 1
  /\ call[g].sel => \A i \in DOMAIN Cases(g) : Cases(g)[i].dir \in Dirs
  /\ Plain(pc[g]) => ~call[g].sel
  /\ Selecting(pc[g]) => call[g].sel
  /\ pc[g] \notin {"idle", "lock", "closing"} =>
       \A i \in DOMAIN Cases(g) : Cases(g)[i].dir \in Dirs
  /\ pc[g] = "closing" => /\ hchan[Cases(g)[1].c].lock = g
                          /\ hchan[Cases(g)[1].c].closed

CallsInv == \A g \in Gs : CallOK(g)

\* Who holds locks; while a select takes them, it holds the lowest ones.
LocksOK(g) ==
  /\ Held(g) # {} => \/ pc[g] \in {"sellock", "pass1", "pass3", "closing"}
                     \/ pc[g] = "woken" /\ call[g].sel
  /\ Held(g) \subseteq Wanted(g)
  /\ pc[g] \in {"sellock", "woken"} =>
       /\ ToLock(g) # {}
       /\ \A c \in Held(g), d \in ToLock(g) : c < d

LocksInv == \A g \in Gs : LocksOK(g)

\* A sudog on a queue belongs to a case of a goroutine that is parked, or is
\* on its way out of a select that has been signalled.
QueuedOK(c, dir, sg) ==
  /\ sg.i \in DOMAIN Cases(sg.g)
  /\ Cases(sg.g)[sg.i].c = c /\ Cases(sg.g)[sg.i].dir = dir
  /\ pc[sg.g] \in {"parked", "woken", "pass3"}
  /\ pc[sg.g] # "parked" => call[sg.g].sel /\ done[sg.g] = 1

OnQueue(c, dir, sg) == \E j \in DOMAIN hchan[c].q[dir] : hchan[c].q[dir][j] = sg
InQueue(c, dir, g) == \E sg \in Sudog : sg.g = g /\ OnQueue(c, dir, sg)

QueuedInv ==
  \A c \in Chans, dir \in Dirs, sg \in Sudog : OnQueue(c, dir, sg) => QueuedOK(c, dir, sg)

\* Only a select may have several sudogs on a queue.
OnceInv ==
  \A c \in Chans, dir \in Dirs : \A j, k \in DOMAIN hchan[c].q[dir] :
    hchan[c].q[dir][j].g = hchan[c].q[dir][k].g
      => call[hchan[c].q[dir][j].g].sel \/ j = k

\* The sudog to be signalled after the unlock is parked, nobody else is going
\* to signal it and no channel can.
Waking(l) == l \in {"deliver", "ready"}

WakeOK(g, sg) ==
  /\ sg \in Sudog
  /\ sg.i \in DOMAIN Cases(sg.g)
  /\ pc[sg.g] = "parked"
  /\ call[sg.g].sel => done[sg.g] = 1
  /\ ~call[sg.g].sel => \A c \in Chans, dir \in Dirs : ~InQueue(c, dir, sg.g)
  /\ pc[g] = "deliver" <=> Cap[Cases(sg.g)[sg.i].c] = 0

WakeInv ==
  /\ \A g \in Gs : Waking(pc[g]) =>
       WakeOK(g, wake[g].sg) /\ wake[g].i \in DOMAIN Cases(g)
  /\ \A g, h \in Gs :
       Waking(pc[g]) /\ Waking(pc[h]) /\ wake[g].sg.g = wake[h].sg.g => g = h

\* What param says to a goroutine that was woken.
ParamOK(g) ==
  /\ pc[g] = "parked" /\ call[g].sel => param[g] = 0
  /\ pc[g] = "woken" /\ ~call[g].sel /\ Cap[Cases(g)[1].c] = 0 =>
       param[g] # 0 \/ hchan[Cases(g)[1].c].closed
  /\ pc[g] \in {"woken", "pass3"} /\ call[g].sel /\ param[g] # 0 =>
       param[g] \in DOMAIN Cases(g) /\ Cap[Cases(g)[param[g]].c] = 0

ParamInv == \A g \in Gs : ParamOK(g)

\* NobodyForgotten, whoever holds the lock but a goroutine that is closing.
Closer(c) == \E g \in Gs : pc[g] = "closing" /\ Cases(g)[1].c = c

WaitersInv ==
  \A c \in Chans :
    /\ hchan[c].closed /\ ~Closer(c) =>
         Waiters(c, "recv") = {} /\ Waiters(c, "send") = {}
    /\ Cap[c] = 0 => \A s \in Waiters(c, "send"), r \in Waiters(c, "recv") : s = r

IndInv ==
  /\ TypeOK /\ CallsInv /\ LocksInv /\ QueuedInv /\ OnceInv /\ WakeInv
  /\ ParamInv /\ WaitersInv

----------------------------------------------------------------------------
(* Lemmas about the operators: Min, dequeue, Pick and parts of queues *)

\* The least element of a set of numbers is in it.
LEMMA MinIn ==
  ASSUME NEW S \in SUBSET Nat, S # {}
  PROVE  Min(S) \in S /\ \A y \in S : Min(S) <= y
<1>1. PICK x \in S : \A y \in S : <<y, x>> \notin OpToRel(<, Nat)
  BY NatLessThanWellFounded, WFMin, Zenon
<1>2. \A y \in S : ~(y < x)
  BY <1>1, Zenon DEF OpToRel
<1>3. \A y \in S : x <= y
  BY <1>2
<1> QED
  BY <1>3 DEF Min

LEMMA SeqElements ==
  ASSUME NEW T, NEW s \in Seq(T)
  PROVE  Len(s) \in Nat /\ DOMAIN s = 1..Len(s) /\ \A j \in DOMAIN s : s[j] \in T
OBVIOUS

LEMMA SudogFields ==
  /\ \A sg \in Sudog : sg.g \in Gs /\ sg.i \in Nat \ {0}
  /\ NoSg \notin Sudog
BY ChanAssumption DEF Sudog, NoSg

\* p is a part of q, in any order.
Embeds(p, q) ==
  \E f \in [DOMAIN p -> DOMAIN q] :
    /\ \A j, k \in DOMAIN p : f[j] = f[k] => j = k
    /\ \A j \in DOMAIN p : p[j] = q[f[j]]

LEMMA EmbedsSame ==
  ASSUME NEW q
  PROVE  Embeds(q, q)
<1> DEFINE f == [j \in DOMAIN q |-> j]
<1>1. f \in [DOMAIN q -> DOMAIN q]
  OBVIOUS
<1> QED
  BY <1>1 DEF Embeds

LEMMA EmbedsEmpty ==
  ASSUME NEW q
  PROVE  Embeds(<<>>, q)
<1> DEFINE f == [j \in {} |-> j]
<1>1. f \in [DOMAIN <<>> -> DOMAIN q] /\ DOMAIN <<>> = {}
  OBVIOUS
<1> QED
  BY <1>1 DEF Embeds

LEMMA EmbedsRest ==
  ASSUME NEW T, NEW q \in Seq(T), NEW n \in DOMAIN q
  PROVE  /\ SubSeq(q, n + 1, Len(q)) \in Seq(T)
         /\ Embeds(SubSeq(q, n + 1, Len(q)), q)
         /\ \A j \in DOMAIN SubSeq(q, n + 1, Len(q)) :
              \E k \in DOMAIN q : k > n /\ SubSeq(q, n + 1, Len(q))[j] = q[k]
<1> DEFINE p == SubSeq(q, n + 1, Len(q))
<1>1. /\ p \in Seq(T) /\ DOMAIN p = 1..Len(q) - n
      /\ n \in 1..Len(q) /\ DOMAIN q = 1..Len(q) /\ Len(q) \in Nat
      /\ \A j \in 1..Len(q) - n : p[j] = q[n + j]
  OBVIOUS
<1> HIDE DEF p
<1> DEFINE f == [j \in DOMAIN p |-> n + j]
<1>2. f \in [DOMAIN p -> DOMAIN q]
  BY <1>1
<1>3. Embeds(p, q)
  <2>1. \A j, k \in DOMAIN p : f[j] = f[k] => j = k
    BY <1>1
  <2>2. \A j \in DOMAIN p : p[j] = q[f[j]]
    BY <1>1
  <2> QED
    BY <1>2, <2>1, <2>2 DEF Embeds
<1>4. \A j \in DOMAIN p : n + j \in DOMAIN q /\ n + j > n /\ p[j] = q[n + j]
  BY <1>1
<1> QED
  BY <1>1, <1>3, <1>4 DEF p

\* Pick has each of the chosen elements at one place.
LEMMA PickElements ==
  ASSUME NEW T, NEW s \in Seq(T), NEW K \in SUBSET DOMAIN s
  PROVE  /\ Pick(s, K) \in Seq(T)
         /\ Embeds(Pick(s, K), s)
         /\ \A n \in DOMAIN Pick(s, K) : \E j \in K : Pick(s, K)[n] = s[j]
<1> DEFINE C(j) == Cardinality({i \in K : i <= j})
           at(n) == CHOOSE j \in K : C(j) = n
<1>1. /\ DOMAIN s = 1..Len(s) /\ Len(s) \in Nat
      /\ \A j \in 1..Len(s) : s[j] \in T
  OBVIOUS
<1>2. IsFiniteSet(K) /\ Cardinality(K) \in Nat
  <2>1. IsFiniteSet(1..Len(s))
    BY <1>1, FS_Interval
  <2>2. IsFiniteSet(K)
    BY <1>1, <2>1, FS_Subset
  <2> QED
    BY <2>2, FS_CardinalityType
<1>3. /\ \A j \in Int : C(j) \in Nat
      /\ C(0) = 0 /\ C(Len(s)) = Cardinality(K)
      /\ \A j \in Nat \ {0} : C(j) = C(j - 1) + (IF j \in K THEN 1 ELSE 0)
  <2> DEFINE Upto(j) == {i \in K : i <= j}
  <2>1. \A j \in Int : IsFiniteSet(Upto(j)) /\ Cardinality(Upto(j)) \in Nat
    <3> TAKE j \in Int
    <3>1. IsFiniteSet(Upto(j))
      BY <1>2, FS_Subset
    <3> QED
      BY <3>1, FS_CardinalityType
  <2>2. Upto(0) = {} /\ Upto(Len(s)) = K
    BY <1>1
  <2>3. ASSUME NEW j \in Nat \ {0}
        PROVE  C(j) = C(j - 1) + (IF j \in K THEN 1 ELSE 0)
    <3>1. CASE j \in K
      <4>1. Upto(j) = Upto(j - 1) \cup {j} /\ j \notin Upto(j - 1)
        BY <1>1, <3>1
      <4>2. IsFiniteSet(Upto(j - 1))
        BY <2>1
      <4> HIDE DEF Upto
      <4>3. Cardinality(Upto(j - 1) \cup {j}) = Cardinality(Upto(j - 1)) + 1
        BY <4>1, <4>2, FS_AddElement
      <4>4. Cardinality(Upto(j)) = Cardinality(Upto(j - 1)) + 1
        BY <4>1, <4>3
      <4> QED
        BY <4>4, <3>1 DEF Upto
    <3>2. CASE j \notin K
      <4>1. Upto(j) = Upto(j - 1)
        BY <1>1, <3>2
      <4>2. Cardinality(Upto(j)) = Cardinality(Upto(j - 1)) /\ Cardinality(Upto(j)) \in Nat
        <5> HIDE DEF Upto
        <5>1. Cardinality(Upto(j)) \in Nat
          BY <2>1
        <5> QED
          BY <4>1, <5>1
      <4> QED
        BY <4>2, <3>2
    <3> QED
      BY <3>1, <3>2
  <2>4. C(0) = 0 /\ C(Len(s)) = Cardinality(K)
    BY <2>2, FS_EmptySet
  <2> QED
    BY <2>1, <2>3, <2>4
<1>4. Pick(s, K) = [n \in 1..Cardinality(K) |-> s[at(n)]]
  BY DEF Pick
<1> HIDE DEF C
<1>5. \A n \in 1..Cardinality(K) : \E j \in K : C(j) = n
  <2> TAKE n \in 1..Cardinality(K)
  <2> DEFINE J == {j \in Nat : C(j) >= n}
  <2>1. Len(s) \in J
    BY <1>1, <1>2, <1>3
  <2>2. Min(J) \in J /\ \A y \in J : Min(J) <= y
    BY <2>1, MinIn
  <2>3. PICK j \in Nat : j = Min(J)
    BY <2>2
  <2>4. C(j) >= n /\ C(j) \in Nat
    BY <2>2, <2>3, <1>3
  <2>5. j # 0
    BY <2>4, <1>3
  <2>6. C(j - 1) < n /\ C(j - 1) \in Nat
    <3>1. PICK i \in Nat : i = j - 1
      BY <2>5
    <3>2. C(i) \in Nat
      BY <1>3
    <3>3. i \notin J
      BY <3>1, <2>2, <2>3
    <3> QED
      BY <3>1, <3>2, <3>3
  <2>7. C(j) = C(j - 1) + (IF j \in K THEN 1 ELSE 0)
    BY <1>3, <2>5
  <2>8. j \in K /\ C(j) = n
    BY <2>7, <2>4, <2>6
  <2> QED
    BY <2>8
<1>6. \A n \in 1..Cardinality(K) : at(n) \in K /\ C(at(n)) = n
  BY <1>5
<1> HIDE DEF at
<1> DEFINE p == Pick(s, K)
           f == [n \in 1..Cardinality(K) |-> at(n)]
<1>7. \A n \in 1..Cardinality(K) : at(n) \in 1..Len(s) /\ s[at(n)] \in T
  BY <1>1, <1>6
<1>8. p \in Seq(T) /\ DOMAIN p = 1..Cardinality(K)
  BY <1>2, <1>4, <1>7
<1>9. f \in [DOMAIN p -> DOMAIN s]
  BY <1>1, <1>7, <1>8
<1>10. \A j, k \in DOMAIN p : f[j] = f[k] => j = k
  <2> TAKE j, k \in DOMAIN p
  <2> HAVE f[j] = f[k]
  <2>1. at(j) = at(k) /\ C(at(j)) = j /\ C(at(k)) = k
    BY <1>6, <1>8
  <2> QED
    BY <2>1
<1>11. \A j \in DOMAIN p : p[j] = s[f[j]] /\ f[j] \in K
  BY <1>4, <1>6, <1>8
<1> HIDE DEF p, f
<1>12. Embeds(p, s)
  BY <1>9, <1>10, <1>11 DEF Embeds
<1> QED
  BY <1>8, <1>11, <1>12 DEF p

\* What dequeue returns: the first sudog that was not signalled, with the rest.
LEMMA DequeueNone ==
  ASSUME NEW q \in Seq(Sudog), dequeue(q).sg = NoSg
  PROVE  dequeue(q).rest = <<>> /\ \A j \in DOMAIN q : ~Unsignalled(q[j])
<1> DEFINE I == {i \in 1..Len(q) : Unsignalled(q[i])}
           k == IF I # {} THEN Min(I) ELSE 0
<1>1. dequeue(q) = IF k = 0 THEN [sg |-> NoSg, rest |-> <<>>]
                   ELSE [sg |-> q[k], rest |-> SubSeq(q, k + 1, Len(q))]
  BY DEF dequeue, SelectInSeq
<1>2. I # {} => Min(I) \in I
  <2>1. I \in SUBSET Nat
    OBVIOUS
  <2> HIDE DEF I
  <2> QED
    BY <2>1, MinIn
<1>3. DOMAIN q = 1..Len(q) /\ \A j \in 1..Len(q) : q[j] \in Sudog
  OBVIOUS
<1>4. NoSg \notin Sudog
  BY SudogFields
<1>5. I = {}
  <2> SUFFICES ASSUME I # {} PROVE FALSE
    OBVIOUS
  <2>1. Min(I) \in 1..Len(q) /\ k = Min(I)
    BY <1>2
  <2> HIDE DEF I, k
  <2>2. dequeue(q) = [sg |-> q[k], rest |-> SubSeq(q, k + 1, Len(q))] /\ q[k] \in Sudog
    BY <1>1, <1>3, <2>1
  <2> QED
    BY <2>2, <1>4
<1>6. k = 0 /\ \A j \in 1..Len(q) : ~Unsignalled(q[j])
  BY <1>5
<1> HIDE DEF k
<1> QED
  BY <1>1, <1>3, <1>6

LEMMA DequeueSome ==
  ASSUME NEW q \in Seq(Sudog), dequeue(q).sg # NoSg
  PROVE  \E k \in DOMAIN q :
           /\ dequeue(q).sg = q[k] /\ Unsignalled(q[k])
           /\ dequeue(q).rest = SubSeq(q, k + 1, Len(q))
<1> DEFINE I == {i \in 1..Len(q) : Unsignalled(q[i])}
           k == IF I # {} THEN Min(I) ELSE 0
<1>1. dequeue(q) = IF k = 0 THEN [sg |-> NoSg, rest |-> <<>>]
                   ELSE [sg |-> q[k], rest |-> SubSeq(q, k + 1, Len(q))]
  BY DEF dequeue, SelectInSeq
<1>2. I # {} => Min(I) \in I
  <2>1. I \in SUBSET Nat
    OBVIOUS
  <2> HIDE DEF I
  <2> QED
    BY <2>1, MinIn
<1>3. DOMAIN q = 1..Len(q)
  OBVIOUS
<1>4. k = 0 => dequeue(q).sg = NoSg
  <2> HIDE DEF k
  <2> QED
    BY <1>1
<1>5. k \in 1..Len(q) /\ Unsignalled(q[k]) /\ k # 0
  <2>1. I # {}
    BY <1>4
  <2>2. Min(I) \in 1..Len(q) /\ Unsignalled(q[Min(I)]) /\ k = Min(I)
    BY <1>2, <2>1
  <2> HIDE DEF k, I
  <2> QED
    BY <2>2
<1> HIDE DEF k
<1>6. dequeue(q) = [sg |-> q[k], rest |-> SubSeq(q, k + 1, Len(q))]
  BY <1>1, <1>5
<1> DEFINE tail == SubSeq(q, k + 1, Len(q))
<1>7. dequeue(q).sg = q[k] /\ dequeue(q).rest = tail
  <2> HIDE DEF tail
  <2>1. dequeue(q) = [sg |-> q[k], rest |-> tail]
    BY <1>6 DEF tail
  <2> QED
    BY <2>1
<1> QED
  BY <1>3, <1>5, <1>7, Zenon

----------------------------------------------------------------------------
(* What a step may do to the goroutines and the queues *)

Shrinks ==
  \A c \in Chans, dir \in Dirs : Embeds(hchan'[c].q[dir], hchan[c].q[dir])

SameClosed == \A c \in Chans : hchan'[c].closed = hchan[c].closed

Others(g) ==
  \A x \in Gs \ {g} :
    /\ pc'[x] = pc[x] /\ call'[x] = call[x] /\ done'[x] = done[x]
    /\ param'[x] = param[x] /\ wake'[x] = wake[x]

\* g goes on without signalling anybody; while it is in pass 3, it is still on
\* queues.
OwnStep(g) ==
  /\ Others(g) /\ Shrinks
  /\ pc[g] # "parked" /\ pc'[g] # "parked"
  /\ ~Waking(pc[g]) /\ ~Waking(pc'[g])
  /\ \/ /\ \/ pc[g] \notin {"woken", "pass3"} \/ ~call[g].sel
           \/ \A c \in Chans, dir \in Dirs : ~InQueue(c, dir, g)'
        /\ pc'[g] \notin {"woken", "pass3"}
     \/ /\ pc[g] = "woken" /\ call[g].sel /\ pc'[g] \in {"woken", "pass3"}
        /\ call'[g] = call[g] /\ done'[g] = done[g] /\ param'[g] = param[g]
  /\ \A c \in Chans :
       /\ hchan[c].closed => hchan'[c].closed
       /\ hchan'[c].closed /\ ~Closer(c)' =>
            \/ hchan[c].closed /\ ~Closer(c)
            \/ Waiters(c, "recv") = {} /\ Waiters(c, "send") = {}

\* sg leaves its queue, and nobody else can signal it.
Takes(c, dir, sg) ==
  /\ c \in Chans /\ dir \in Dirs /\ sg \in Sudog
  /\ OnQueue(c, dir, sg) /\ Unsignalled(sg)
  /\ Shrinks /\ SameClosed
  /\ ~call[sg.g].sel => ~InQueue(c, dir, sg.g)'
  /\ Claim(sg)
  /\ call' = call

\* Case i of g takes sg off its queue, to signal it later.
ClaimStep(g, c, dir, sg, i) ==
  /\ Takes(c, dir, sg)
  /\ pc[g] \in {"lock", "pass1"}
  /\ pc' = [pc EXCEPT ![g] = IF Cap[c] = 0 THEN "deliver" ELSE "ready"]
  /\ i \in DOMAIN Cases(g)
  /\ wake' = [wake EXCEPT ![g] = [sg |-> sg, i |-> i]]
  /\ param' = param

\* g closes c and releases sg.
ReleaseStep(g, c, dir, sg) ==
  /\ Takes(c, dir, sg)
  /\ pc[g] = "closing" /\ Cases(g)[1].c = c
  /\ pc' = [pc EXCEPT ![sg.g] = "woken"]
  /\ param' = [param EXCEPT ![sg.g] = 0]
  /\ wake' = wake

\* g signals the sudog it has claimed and returns.
WakeStep(g) ==
  /\ Waking(pc[g])
  /\ pc' = [pc EXCEPT ![wake[g].sg.g] = "woken", ![g] = "idle"]
  /\ call' = [call EXCEPT ![g] = NoCall]
  /\ wake' = [wake EXCEPT ![g] = NoWake]
  /\ param' = IF pc[g] = "deliver" THEN [param EXCEPT ![wake[g].sg.g] = wake[g].sg.i]
              ELSE param
  /\ hchan' = hchan /\ done' = done

\* p is q, or a part of it, with sudogs of g added.
Joins(p, q, g, c, dir) ==
  \E f \in [DOMAIN p -> Nat] :
    /\ \A j \in DOMAIN p :
         \/ /\ p[j].g = g /\ p[j].i \in DOMAIN Cases(g)
            /\ Cases(g)[p[j].i].c = c /\ Cases(g)[p[j].i].dir = dir
         \/ f[j] \in DOMAIN q /\ p[j] = q[f[j]]
    /\ \A j, k \in DOMAIN p :
         p[j].g # g /\ p[k].g # g /\ f[j] = f[k] => j = k
    /\ ~call[g].sel => \A j, k \in DOMAIN p : p[j].g = g /\ p[k].g = g => j = k

\* g parks on open channels where nobody can serve it.
ParkStep(g) ==
  /\ pc[g] \in {"lock", "pass1"}
  /\ pc' = [pc EXCEPT ![g] = "parked"]
  /\ call' = call /\ wake' = wake /\ SameClosed
  /\ done' = IF call[g].sel THEN [done EXCEPT ![g] = 0] ELSE done
  /\ \A x \in Gs \ {g} : param'[x] = param[x]
  /\ call[g].sel => param'[g] = 0
  /\ \A c \in Chans, dir \in Dirs :
       Joins(hchan'[c].q[dir], hchan[c].q[dir], g, c, dir)
  /\ \A i \in DOMAIN Cases(g) :
       /\ ~hchan[Cases(g)[i].c].closed
       /\ Cap[Cases(g)[i].c] = 0 => Waiters(Cases(g)[i].c, Other(Cases(g)[i].dir)) = {}

----------------------------------------------------------------------------
(* What the steps preserve *)

LEMMA CaseTypes ==
  ASSUME TypeOK, NEW g \in Gs
  PROVE  /\ Cases(g) \in CaseSeqs /\ Len(Cases(g)) \in Nat
         /\ DOMAIN Cases(g) = 1..Len(Cases(g))
         /\ Cases(g) # <<>> => 1 \in DOMAIN Cases(g)
         /\ \A i \in DOMAIN Cases(g) :
              /\ Cases(g)[i].c \in Chans /\ Cases(g)[i].val \in Nat
              /\ Cases(g)[i].dir \in Dirs \cup {"close"}
<1>1. Cases(g) \in CaseSeqs
  BY DEF TypeOK, CallType, Cases
<1>2. /\ Len(Cases(g)) \in Nat /\ DOMAIN Cases(g) = 1..Len(Cases(g))
      /\ \A i \in DOMAIN Cases(g) :
           Cases(g)[i] \in [dir: Dirs \cup {"close"}, c: Chans, val: Nat]
  BY <1>1, SeqElements DEF CaseSeqs
<1>3. Cases(g) # <<>> => Len(Cases(g)) # 0
  BY <1>1 DEF CaseSeqs
<1> QED
  BY <1>1, <1>2, <1>3

LEMMA NotQueued ==
  ASSUME QueuedInv, NEW g \in Gs,
         \/ pc[g] \notin {"parked", "woken", "pass3"}
         \/ pc[g] # "parked" /\ ~call[g].sel
  PROVE  \A c \in Chans, dir \in Dirs : ~InQueue(c, dir, g)
BY DEF QueuedInv, InQueue, QueuedOK

LEMMA ShrinksOn ==
  ASSUME Shrinks, NEW c \in Chans, NEW dir \in Dirs, NEW sg \in Sudog, OnQueue(c, dir, sg)'
  PROVE  OnQueue(c, dir, sg)
<1>1. PICK f \in [DOMAIN hchan'[c].q[dir] -> DOMAIN hchan[c].q[dir]] :
        \A j \in DOMAIN hchan'[c].q[dir] : hchan'[c].q[dir][j] = hchan[c].q[dir][f[j]]
  BY DEF Shrinks, Embeds
<1>2. PICK j \in DOMAIN hchan'[c].q[dir] : hchan'[c].q[dir][j] = sg
  BY DEF OnQueue
<1> QED
  BY <1>1, <1>2 DEF OnQueue

\* The waiters are goroutines with a sudog on the queue.
LEMMA WaitersOn ==
  ASSUME TypeOK, NEW c \in Chans, NEW dir \in Dirs
  PROVE  Waiters(c, dir) =
           {x \in Gs : \E sg \in Sudog : sg.g = x /\ OnQueue(c, dir, sg) /\ Unsignalled(sg)}
<1>1. hchan[c].q[dir] \in Seq(Sudog)
  BY DEF TypeOK, HchanOK, Hchan, Queues
<1> DEFINE q == hchan[c].q[dir]
<1>2. \A j \in DOMAIN q : q[j] \in Sudog /\ q[j].g \in Gs
  BY <1>1, SeqElements, SudogFields, Zenon
<1> DEFINE R == {x \in Gs : \E sg \in Sudog : sg.g = x /\ OnQueue(c, dir, sg) /\ Unsignalled(sg)}
<1>3. ASSUME NEW x \in Waiters(c, dir) PROVE x \in R
  <2>1. PICK j \in DOMAIN q : Unsignalled(q[j]) /\ x = q[j].g
    BY <1>3 DEF Waiters
  <2>2. q[j] \in Sudog /\ x \in Gs /\ OnQueue(c, dir, q[j])
    BY <1>2, <2>1 DEF OnQueue
  <2> QED
    BY <2>1, <2>2
<1>4. ASSUME NEW x \in R PROVE x \in Waiters(c, dir)
  <2>1. PICK sg \in Sudog : sg.g = x /\ OnQueue(c, dir, sg) /\ Unsignalled(sg)
    BY <1>4
  <2>2. PICK j \in DOMAIN q : q[j] = sg
    BY <2>1 DEF OnQueue
  <2> QED
    BY <2>1, <2>2 DEF Waiters
<1> QED
  BY <1>3, <1>4

LEMMA WaitersNext ==
  ASSUME TypeOK', NEW c \in Chans, NEW dir \in Dirs, NEW x \in Waiters(c, dir)'
  PROVE  \E sg \in Sudog : sg.g = x /\ OnQueue(c, dir, sg)' /\ Unsignalled(sg)'
<1>1. hchan'[c].q[dir] \in Seq(Sudog)
  BY DEF TypeOK, HchanOK, Hchan, Queues
<1>2. PICK j \in DOMAIN hchan'[c].q[dir] :
        /\ x = hchan'[c].q[dir][j].g
        /\ ~call'[hchan'[c].q[dir][j].g].sel \/ done'[hchan'[c].q[dir][j].g] = 0
  BY DEF Waiters, Unsignalled
<1>3. PICK sg \in Sudog : sg = hchan'[c].q[dir][j]
  BY <1>1, <1>2, SeqElements
<1> QED
  BY <1>2, <1>3 DEF OnQueue, Unsignalled

LEMMA OwnQueued ==
  ASSUME TypeOK, QueuedInv, OnceInv, NEW g \in Gs, OwnStep(g)
  PROVE  QueuedInv' /\ OnceInv'
<1>1. ASSUME NEW c \in Chans, NEW dir \in Dirs, NEW sg \in Sudog, OnQueue(c, dir, sg)'
      PROVE  /\ OnQueue(c, dir, sg) /\ sg.g \in Gs
             /\ call'[sg.g] = call[sg.g] /\ done'[sg.g] = done[sg.g]
             /\ pc'[sg.g] = pc[sg.g] \/ (sg.g = g /\ pc[g] = "woken" /\ pc'[g] \in {"woken", "pass3"})
  <2>1. OnQueue(c, dir, sg) /\ sg.g \in Gs
    BY <1>1, ShrinksOn, SudogFields DEF OwnStep
  <2>2. CASE sg.g # g
    BY <2>1, <2>2 DEF OwnStep, Others
  <2>3. CASE sg.g = g
    <3>1. InQueue(c, dir, g)'
      BY <1>1, <2>3 DEF InQueue
    <3>2. InQueue(c, dir, g)
      BY <2>1, <2>3 DEF InQueue
    <3>3. pc[g] \in {"woken", "pass3"} /\ call[g].sel
      BY <3>2, NotQueued DEF OwnStep
    <3> QED
      BY <2>1, <2>3, <3>1, <3>3 DEF OwnStep
  <2> QED
    BY <2>2, <2>3
<1>2. QueuedInv'
  <2> SUFFICES ASSUME NEW c \in Chans, NEW dir \in Dirs, NEW sg \in Sudog, OnQueue(c, dir, sg)'
               PROVE  QueuedOK(c, dir, sg)'
    BY DEF QueuedInv
  <2>1. QueuedOK(c, dir, sg)
    BY <1>1 DEF QueuedInv
  <2> QED
    BY <1>1, <2>1 DEF QueuedOK, Cases
<1>3. OnceInv'
  <2> SUFFICES ASSUME NEW c \in Chans, NEW dir \in Dirs, NEW j \in DOMAIN hchan'[c].q[dir],
                      NEW k \in DOMAIN hchan'[c].q[dir],
                      hchan'[c].q[dir][j].g = hchan'[c].q[dir][k].g,
                      ~call'[hchan'[c].q[dir][j].g].sel
               PROVE  j = k
    BY DEF OnceInv
  <2>1. PICK f \in [DOMAIN hchan'[c].q[dir] -> DOMAIN hchan[c].q[dir]] :
          /\ \A m, n \in DOMAIN hchan'[c].q[dir] : f[m] = f[n] => m = n
          /\ \A m \in DOMAIN hchan'[c].q[dir] : hchan'[c].q[dir][m] = hchan[c].q[dir][f[m]]
    BY DEF OwnStep, Shrinks, Embeds
  <2>2. PICK x \in Gs : x = hchan'[c].q[dir][j].g /\ call'[x] = call[x]
    <3>1. hchan[c].q[dir] \in Seq(Sudog)
      BY DEF TypeOK, HchanOK, Hchan, Queues
    <3>2. hchan[c].q[dir][f[j]] \in Sudog
      BY <2>1, <3>1, SeqElements
    <3>3. PICK sg \in Sudog : sg = hchan'[c].q[dir][j]
      BY <2>1, <3>2
    <3>4. OnQueue(c, dir, sg)'
      BY <3>3 DEF OnQueue
    <3> QED
      BY <1>1, <3>3, <3>4
  <2>3. f[j] = f[k]
    BY <2>1, <2>2 DEF OnceInv
  <2> QED
    BY <2>1, <2>3
<1> QED
  BY <1>2, <1>3

LEMMA OwnWake ==
  ASSUME TypeOK, WakeInv, NEW g \in Gs, OwnStep(g)
  PROVE  WakeInv'
<1>1. ASSUME NEW x \in Gs, Waking(pc'[x])
      PROVE  /\ x # g /\ pc'[x] = pc[x] /\ wake'[x] = wake[x] /\ call'[x] = call[x]
             /\ WakeOK(x, wake[x].sg) /\ wake[x].i \in DOMAIN Cases(x)
             /\ wake[x].sg \in Sudog /\ wake[x].sg.g \in Gs \ {g}
  <2>1. x # g /\ pc'[x] = pc[x] /\ wake'[x] = wake[x] /\ call'[x] = call[x]
    BY <1>1 DEF OwnStep, Others
  <2>2. WakeOK(x, wake[x].sg) /\ wake[x].i \in DOMAIN Cases(x)
    BY <1>1, <2>1 DEF WakeInv
  <2>3. wake[x].sg \in Sudog /\ wake[x].sg.g \in Gs
    BY <2>2, SudogFields DEF WakeOK
  <2>4. wake[x].sg.g # g
    BY <2>2 DEF WakeOK, OwnStep
  <2> QED
    BY <2>1, <2>2, <2>3, <2>4
<1>2. ASSUME NEW x \in Gs, Waking(pc'[x])
      PROVE  WakeOK(x, wake[x].sg)'
  <2>1. PICK sg \in Sudog : sg = wake[x].sg
    BY <1>1, <1>2
  <2>2. WakeOK(x, sg) /\ sg.g \in Gs \ {g}
    BY <1>1, <1>2, <2>1
  <2>3. /\ pc'[sg.g] = pc[sg.g] /\ call'[sg.g] = call[sg.g] /\ done'[sg.g] = done[sg.g]
        /\ pc'[x] = pc[x]
    BY <1>1, <1>2, <2>2 DEF OwnStep, Others
  <2>4. \A c \in Chans, dir \in Dirs : InQueue(c, dir, sg.g)' => InQueue(c, dir, sg.g)
    BY ShrinksOn DEF OwnStep, InQueue
  <2>5. WakeOK(x, sg)'
    BY <2>2, <2>3, <2>4 DEF WakeOK, Cases
  <2>6. wake'[x].sg = sg
    BY <1>1, <1>2, <2>1
  <2> QED
    BY <2>5, <2>6
<1> QED
  BY <1>1, <1>2 DEF WakeInv, Cases

LEMMA OwnParam ==
  ASSUME TypeOK, CallsInv, ParamInv, NEW g \in Gs, OwnStep(g)
  PROVE  ParamInv'
<1> SUFFICES ASSUME NEW x \in Gs PROVE ParamOK(x)'
  BY DEF ParamInv
<1>1. ParamOK(x)
  BY DEF ParamInv
<1>2. CASE x = g
  <2>1. CASE pc'[g] \notin {"woken", "pass3"}
    BY <1>2, <2>1 DEF OwnStep, ParamOK
  <2>2. CASE pc'[g] \in {"woken", "pass3"}
    BY <1>1, <1>2, <2>2 DEF OwnStep, ParamOK, Cases
  <2> QED
    BY <2>1, <2>2
<1>3. CASE x # g
  <2>1. pc'[x] = pc[x] /\ call'[x] = call[x] /\ param'[x] = param[x]
    BY <1>3 DEF OwnStep, Others
  <2>2. CASE pc[x] = "woken" /\ ~call[x].sel
    <3>1. Cases(x)[1].c \in Chans
      <4>1. Cases(x) # <<>>
        BY <2>2 DEF CallsInv, CallOK
      <4> QED
        BY <4>1, CaseTypes
    <3> QED
      BY <1>1, <2>1, <2>2, <3>1 DEF OwnStep, ParamOK, Cases
  <2>3. CASE ~(pc[x] = "woken" /\ ~call[x].sel)
    BY <1>1, <2>1, <2>3 DEF ParamOK, Cases
  <2> QED
    BY <2>2, <2>3
<1> QED
  BY <1>2, <1>3

\* Fewer waiters, and no channel closed with some left.
LEMMA FewerWaiters ==
  ASSUME WaitersInv,
         \A c \in Chans, dir \in Dirs : Waiters(c, dir)' \subseteq Waiters(c, dir),
         \A c \in Chans : hchan'[c].closed /\ ~Closer(c)' =>
            \/ hchan[c].closed /\ ~Closer(c)
            \/ Waiters(c, "recv") = {} /\ Waiters(c, "send") = {}
  PROVE  WaitersInv'
<1> SUFFICES ASSUME NEW c \in Chans
             PROVE  /\ hchan'[c].closed /\ ~Closer(c)' =>
                         Waiters(c, "recv")' = {} /\ Waiters(c, "send")' = {}
                    /\ Cap[c] = 0 =>
                         \A s \in Waiters(c, "send")', r \in Waiters(c, "recv")' : s = r
  BY DEF WaitersInv
<1>1. /\ Waiters(c, "recv")' \subseteq Waiters(c, "recv")
      /\ Waiters(c, "send")' \subseteq Waiters(c, "send")
  BY DEF Dirs
<1> QED
  BY <1>1 DEF WaitersInv

LEMMA OwnWaiters ==
  ASSUME TypeOK, TypeOK', QueuedInv, WaitersInv, NEW g \in Gs, OwnStep(g)
  PROVE  WaitersInv'
<1>1. ASSUME NEW c \in Chans, NEW dir \in Dirs
      PROVE  Waiters(c, dir)' \subseteq Waiters(c, dir)
  <2> SUFFICES ASSUME NEW x \in Waiters(c, dir)' PROVE x \in Waiters(c, dir)
    OBVIOUS
  <2>2. PICK sg \in Sudog : sg.g = x /\ OnQueue(c, dir, sg)' /\ Unsignalled(sg)'
    BY WaitersNext
  <2>3. OnQueue(c, dir, sg) /\ x \in Gs
    BY <2>2, ShrinksOn, SudogFields DEF OwnStep
  <2>4. call'[x] = call[x] /\ done'[x] = done[x]
    <3>1. CASE x # g
      BY <2>3, <3>1 DEF OwnStep, Others
    <3>2. CASE x = g
      <4>1. InQueue(c, dir, g) /\ InQueue(c, dir, g)'
        BY <2>2, <2>3, <3>2 DEF InQueue
      <4>2. pc[g] \in {"woken", "pass3"} /\ call[g].sel
        BY <4>1, NotQueued DEF OwnStep
      <4> QED
        BY <3>2, <4>1, <4>2 DEF OwnStep
    <3> QED
      BY <3>1, <3>2
  <2>5. Unsignalled(sg)
    BY <2>2, <2>4 DEF Unsignalled
  <2> QED
    BY <2>2, <2>3, <2>5, WaitersOn
<1> QED
  BY <1>1, FewerWaiters DEF OwnStep

\* A plain goroutine is on the queue of its only case.
LEMMA OneQueue ==
  ASSUME TypeOK, CallsInv, QueuedInv, NEW g \in Gs, ~call[g].sel,
         NEW c \in Chans, NEW dir \in Dirs, InQueue(c, dir, g)
  PROVE  Cases(g)[1].c = c /\ Cases(g)[1].dir = dir
<1>1. PICK sg \in Sudog : sg.g = g /\ OnQueue(c, dir, sg)
  BY DEF InQueue
<1>2. sg.i \in DOMAIN Cases(g) /\ Cases(g)[sg.i].c = c /\ Cases(g)[sg.i].dir = dir
  BY <1>1 DEF QueuedInv, QueuedOK
<1>3. sg.i = 1
  BY <1>2, CaseTypes DEF CallsInv, CallOK
<1> QED
  BY <1>2, <1>3

\* A sudog that can be signalled is parked, and nobody has it already.
LEMMA Signallable ==
  ASSUME QueuedInv, WakeInv, NEW c \in Chans, NEW dir \in Dirs, NEW sg \in Sudog,
         OnQueue(c, dir, sg), Unsignalled(sg)
  PROVE  /\ sg.g \in Gs /\ pc[sg.g] = "parked"
         /\ \A x \in Gs : Waking(pc[x]) => wake[x].sg.g # sg.g
<1>1. QueuedOK(c, dir, sg) /\ sg.g \in Gs
  BY SudogFields DEF QueuedInv
<1>2. pc[sg.g] = "parked"
  BY <1>1 DEF QueuedOK, Unsignalled
<1>3. ASSUME NEW x \in Gs, Waking(pc[x]), wake[x].sg.g = sg.g PROVE FALSE
  <2>1. WakeOK(x, wake[x].sg)
    BY <1>3 DEF WakeInv
  <2>2. ~call[sg.g].sel
    BY <1>3, <2>1 DEF WakeOK, Unsignalled
  <2>3. ~InQueue(c, dir, sg.g)
    BY <1>3, <2>1, <2>2 DEF WakeOK
  <2> QED
    BY <2>3 DEF InQueue
<1> QED
  BY <1>1, <1>2, <1>3

LEMMA TakesGone ==
  ASSUME TypeOK, CallsInv, QueuedInv, NEW c, NEW dir, NEW sg,
         Takes(c, dir, sg), ~call[sg.g].sel
  PROVE  \A c2 \in Chans, dir2 \in Dirs : ~InQueue(c2, dir2, sg.g)'
<1> SUFFICES ASSUME NEW c2 \in Chans, NEW dir2 \in Dirs, InQueue(c2, dir2, sg.g)'
             PROVE  FALSE
  OBVIOUS
<1>1. c \in Chans /\ dir \in Dirs /\ sg \in Sudog /\ sg.g \in Gs /\ Shrinks
  BY SudogFields DEF Takes
<1>2. InQueue(c2, dir2, sg.g)
  BY <1>1, ShrinksOn DEF InQueue
<1>3. InQueue(c, dir, sg.g)
  BY <1>1 DEF Takes, InQueue
<1>4. c = c2 /\ dir = dir2
  BY <1>1, <1>2, <1>3, OneQueue
<1> QED
  BY <1>4 DEF Takes

Signalled(sg) ==
  \A x \in Gs :
    /\ done[x] = 1 => done'[x] = 1
    /\ x # sg.g => done'[x] = done[x]
    /\ x = sg.g /\ call[x].sel => done'[x] = 1
    /\ done'[x] = 0 => done[x] = 0

LEMMA TakesDone ==
  ASSUME TypeOK, NEW c, NEW dir, NEW sg, Takes(c, dir, sg)
  PROVE  Signalled(sg)
BY DEF Takes, Claim, TypeOK, Signalled

LEMMA TakesQueued ==
  ASSUME TypeOK, CallsInv, QueuedInv, OnceInv, NEW c, NEW dir, NEW sg, Takes(c, dir, sg),
         \A x \in Gs :
           \/ pc'[x] = pc[x]
           \/ x = sg.g /\ pc'[x] = "woken"
           \/ pc[x] \in {"lock", "pass1"}
  PROVE  QueuedInv' /\ OnceInv'
<1>0. Signalled(sg)
  BY TakesDone
<1>1. QueuedInv'
  <2> SUFFICES ASSUME NEW c2 \in Chans, NEW dir2 \in Dirs, NEW sg2 \in Sudog,
                      OnQueue(c2, dir2, sg2)'
               PROVE  QueuedOK(c2, dir2, sg2)'
    BY DEF QueuedInv
  <2>1. QueuedOK(c2, dir2, sg2) /\ sg2.g \in Gs
    BY ShrinksOn, SudogFields DEF Takes, QueuedInv
  <2>2. call' = call
    BY DEF Takes
  <2>3. CASE pc'[sg2.g] = pc[sg2.g]
    BY <1>0, <2>1, <2>2, <2>3 DEF QueuedOK, Cases, Signalled
  <2>4. CASE sg2.g = sg.g /\ pc'[sg.g] = "woken"
    <3>1. InQueue(c2, dir2, sg.g)'
      BY <2>4 DEF InQueue
    <3>2. call[sg.g].sel
      BY <3>1, TakesGone
    <3>3. done'[sg.g] = 1
      BY <1>0, <3>2, <2>1, <2>4 DEF Signalled
    <3> QED
      BY <2>1, <2>2, <2>4, <3>2, <3>3 DEF QueuedOK, Cases
  <2>5. pc[sg2.g] \notin {"lock", "pass1"}
    BY <2>1 DEF QueuedOK
  <2> QED
    BY <2>1, <2>3, <2>4, <2>5
<1>2. OnceInv'
  <2> SUFFICES ASSUME NEW c2 \in Chans, NEW dir2 \in Dirs,
                      NEW j \in DOMAIN hchan'[c2].q[dir2], NEW k \in DOMAIN hchan'[c2].q[dir2],
                      hchan'[c2].q[dir2][j].g = hchan'[c2].q[dir2][k].g,
                      ~call'[hchan'[c2].q[dir2][j].g].sel
               PROVE  j = k
    BY DEF OnceInv
  <2>1. PICK f \in [DOMAIN hchan'[c2].q[dir2] -> DOMAIN hchan[c2].q[dir2]] :
          /\ \A m, n \in DOMAIN hchan'[c2].q[dir2] : f[m] = f[n] => m = n
          /\ \A m \in DOMAIN hchan'[c2].q[dir2] : hchan'[c2].q[dir2][m] = hchan[c2].q[dir2][f[m]]
    BY DEF Takes, Shrinks, Embeds
  <2>2. f[j] = f[k]
    BY <2>1 DEF OnceInv, Takes
  <2> QED
    BY <2>1, <2>2
<1> QED
  BY <1>1, <1>2

\* Whoever was going to signal somebody still is.
LEMMA TakesWake ==
  ASSUME TypeOK, CallsInv, QueuedInv, WakeInv, NEW c, NEW dir, NEW sg, Takes(c, dir, sg),
         \A y \in Gs : pc[y] = "parked" /\ y # sg.g => pc'[y] = pc[y],
         NEW x \in Gs, Waking(pc[x]), pc'[x] = pc[x], wake'[x] = wake[x]
  PROVE  WakeOK(x, wake[x].sg)' /\ wake'[x].i \in DOMAIN Cases(x)'
<1>0. Signalled(sg)
  BY TakesDone
<1>1. PICK s2 \in Sudog : s2 = wake[x].sg /\ WakeOK(x, s2) /\ s2.g \in Gs
  BY SudogFields DEF WakeInv, WakeOK
<1>2. s2.g # sg.g
  BY <1>1, Signallable DEF Takes
<1>3. pc'[s2.g] = pc[s2.g] /\ call' = call /\ (done[s2.g] = 1 => done'[s2.g] = 1)
  BY <1>0, <1>1, <1>2 DEF Takes, WakeOK, Signalled
<1>4. \A c2 \in Chans, dir2 \in Dirs : InQueue(c2, dir2, s2.g)' => InQueue(c2, dir2, s2.g)
  BY ShrinksOn DEF Takes, InQueue
<1>5. WakeOK(x, s2)'
  BY <1>1, <1>3, <1>4 DEF WakeOK, Cases
<1>6. wake'[x].i \in DOMAIN Cases(x)'
  BY <1>3 DEF WakeInv, Cases
<1> QED
  BY <1>1, <1>5, <1>6

LEMMA TakesWaiters ==
  ASSUME TypeOK, TypeOK', WaitersInv, NEW c, NEW dir, NEW sg, Takes(c, dir, sg),
         \A x \in Gs : pc[x] = "closing" => pc'[x] = "closing"
  PROVE  WaitersInv'
<1>0. Signalled(sg)
  BY TakesDone
<1>1. ASSUME NEW c2 \in Chans, NEW dir2 \in Dirs
      PROVE  Waiters(c2, dir2)' \subseteq Waiters(c2, dir2)
  <2> SUFFICES ASSUME NEW x \in Waiters(c2, dir2)' PROVE x \in Waiters(c2, dir2)
    OBVIOUS
  <2>1. PICK s2 \in Sudog : s2.g = x /\ OnQueue(c2, dir2, s2)' /\ Unsignalled(s2)'
    BY WaitersNext
  <2>2. OnQueue(c2, dir2, s2) /\ x \in Gs
    BY <2>1, ShrinksOn, SudogFields DEF Takes
  <2>3. Unsignalled(s2)
    BY <1>0, <2>1, <2>2 DEF Unsignalled, Signalled, Takes
  <2> QED
    BY <2>1, <2>2, <2>3, WaitersOn
<1>2. \A c2 \in Chans : hchan'[c2].closed /\ ~Closer(c2)' => hchan[c2].closed /\ ~Closer(c2)
  BY DEF Takes, SameClosed, Closer, Cases
<1> QED
  BY <1>1, <1>2, FewerWaiters

LEMMA ClaimPreserves ==
  ASSUME IndInv, TypeOK', NEW g \in Gs, NEW c, NEW dir, NEW sg, NEW i, ClaimStep(g, c, dir, sg, i)
  PROVE  QueuedInv' /\ OnceInv' /\ WakeInv' /\ ParamInv' /\ WaitersInv'
<1> USE DEF IndInv
<1>1. /\ Takes(c, dir, sg) /\ pc[g] \in {"lock", "pass1"} /\ call' = call
      /\ \A x \in Gs \ {g} : pc'[x] = pc[x] /\ wake'[x] = wake[x]
      /\ pc'[g] = (IF Cap[c] = 0 THEN "deliver" ELSE "ready")
      /\ wake'[g] = [sg |-> sg, i |-> i]
  BY DEF ClaimStep, Takes, TypeOK
<1>2. QueuedInv' /\ OnceInv'
  BY <1>1, TakesQueued
<1>3. WaitersInv'
  BY <1>1, TakesWaiters
<1>4. ParamInv'
  <2> SUFFICES ASSUME NEW x \in Gs PROVE ParamOK(x)'
    BY DEF ParamInv
  <2>1. CASE x = g
    BY <1>1, <2>1 DEF ParamOK
  <2>2. CASE x # g
    <3>1. /\ ParamOK(x) /\ pc'[x] = pc[x] /\ call'[x] = call[x] /\ param'[x] = param[x]
          /\ pc[x] = "woken" => Cases(x)[1].c \in Chans
      BY <1>1, <2>2, CaseTypes DEF ParamInv, ClaimStep, CallsInv, CallOK
    <3>2. \A c2 \in Chans : hchan'[c2].closed = hchan[c2].closed
      BY <1>1 DEF Takes, SameClosed
    <3> QED
      BY <3>1, <3>2 DEF ParamOK, Cases
  <2> QED
    BY <2>1, <2>2
<1>5. /\ sg \in Sudog /\ sg.g \in Gs /\ pc[sg.g] = "parked" /\ sg.g # g
      /\ \A x \in Gs : Waking(pc[x]) => wake[x].sg.g # sg.g
  BY <1>1, Signallable DEF Takes
<1>6. ASSUME NEW x \in Gs \ {g}, Waking(pc'[x])
      PROVE  WakeOK(x, wake[x].sg)' /\ wake'[x].i \in DOMAIN Cases(x)' /\ wake'[x].sg.g # sg.g
  <2>1. Waking(pc[x]) /\ pc'[x] = pc[x] /\ wake'[x] = wake[x]
    BY <1>1, <1>6
  <2>2. \A y \in Gs : pc[y] = "parked" /\ y # sg.g => pc'[y] = pc[y]
    BY <1>1
  <2> QED
    BY <1>1, <1>5, <2>1, <2>2, TakesWake
<1>7. WakeOK(g, sg)'
  <2>1. QueuedOK(c, dir, sg)
    BY <1>1 DEF Takes, QueuedInv
  <2>2. call[sg.g].sel => done'[sg.g] = 1
    BY <1>1, <1>5, TakesDone DEF Signalled
  <2>3. ~call[sg.g].sel => \A c2 \in Chans, dir2 \in Dirs : ~InQueue(c2, dir2, sg.g)'
    BY <1>1, TakesGone
  <2>4. pc'[sg.g] = "parked"
    BY <1>1, <1>5
  <2> QED
    BY <1>1, <1>5, <2>1, <2>2, <2>3, <2>4 DEF WakeOK, QueuedOK, Cases
<1>8. wake'[g].sg = sg /\ wake'[g].i = i /\ i \in DOMAIN Cases(g)'
  BY <1>1 DEF ClaimStep, Cases
<1>9. WakeInv'
  <2>1. ASSUME NEW x \in Gs, Waking(pc'[x])
        PROVE  WakeOK(x, wake[x].sg)' /\ wake'[x].i \in DOMAIN Cases(x)'
    <3>1. CASE x = g
      BY <1>7, <1>8, <3>1
    <3> QED
      BY <1>6, <2>1, <3>1
  <2>2. ASSUME NEW x \in Gs, NEW y \in Gs, Waking(pc'[x]), Waking(pc'[y]),
               wake'[x].sg.g = wake'[y].sg.g
        PROVE  x = y
    <3>1. CASE x # g /\ y # g
      BY <1>1, <2>2, <3>1 DEF WakeInv
    <3>2. CASE x = g /\ y # g
      BY <1>6, <1>8, <2>2, <3>2
    <3>3. CASE y = g /\ x # g
      BY <1>6, <1>8, <2>2, <3>3
    <3> QED
      BY <3>1, <3>2, <3>3
  <2> QED
    BY <2>1, <2>2 DEF WakeInv
<1> QED
  BY <1>2, <1>3, <1>4, <1>9

LEMMA ReleasePreserves ==
  ASSUME IndInv, TypeOK', NEW g \in Gs, NEW c, NEW dir, NEW sg, ReleaseStep(g, c, dir, sg)
  PROVE  QueuedInv' /\ OnceInv' /\ WakeInv' /\ ParamInv' /\ WaitersInv'
<1> USE DEF IndInv
<1>1. /\ sg \in Sudog /\ sg.g \in Gs /\ pc[sg.g] = "parked"
      /\ \A x \in Gs : Waking(pc[x]) => wake[x].sg.g # sg.g
      /\ Takes(c, dir, sg) /\ c \in Chans
  BY Signallable DEF ReleaseStep, Takes
<1>2. /\ pc[g] = "closing" /\ Cases(g)[1].c = c /\ call' = call
      /\ \A x \in Gs \ {sg.g} : pc'[x] = pc[x] /\ param'[x] = param[x]
      /\ pc'[sg.g] = "woken" /\ param'[sg.g] = 0 /\ wake' = wake
  BY <1>1 DEF ReleaseStep, Takes, TypeOK
<1>3. QueuedInv' /\ OnceInv'
  BY <1>1, <1>2, TakesQueued
<1>4. WaitersInv'
  BY <1>1, <1>2, TakesWaiters
<1>5. ParamInv'
  <2> SUFFICES ASSUME NEW x \in Gs PROVE ParamOK(x)'
    BY DEF ParamInv
  <2>1. \A c2 \in Chans : hchan'[c2].closed = hchan[c2].closed
    BY <1>1 DEF Takes, SameClosed
  <2>2. CASE x = sg.g
    <3>1. ~call[x].sel => Cases(x)[1].c = c
      <4>1. InQueue(c, dir, x) /\ dir \in Dirs
        BY <1>1, <2>2 DEF Takes, InQueue
      <4> QED
        BY <1>1, <4>1, OneQueue
    <3>2. hchan[c].closed
      BY <1>2 DEF CallsInv, CallOK
    <3> QED
      BY <1>1, <1>2, <2>1, <2>2, <3>1, <3>2 DEF ParamOK, Cases
  <2>3. CASE x # sg.g
    <3>1. /\ ParamOK(x) /\ pc'[x] = pc[x] /\ call'[x] = call[x] /\ param'[x] = param[x]
          /\ pc[x] = "woken" => Cases(x)[1].c \in Chans
      BY <1>2, <2>3, CaseTypes DEF ParamInv, CallsInv, CallOK
    <3> QED
      BY <3>1, <2>1 DEF ParamOK, Cases
  <2> QED
    BY <2>2, <2>3
<1>6. WakeInv'
  <2>1. ASSUME NEW x \in Gs, Waking(pc'[x])
        PROVE  WakeOK(x, wake[x].sg)' /\ wake'[x].i \in DOMAIN Cases(x)' /\ pc'[x] = pc[x]
    <3>1. Waking(pc[x]) /\ pc'[x] = pc[x] /\ wake'[x] = wake[x]
      BY <1>2, <2>1 DEF Waking
    <3>2. \A y \in Gs : pc[y] = "parked" /\ y # sg.g => pc'[y] = pc[y]
      BY <1>2
    <3> QED
      BY <1>1, <3>1, <3>2, TakesWake
  <2> QED
    BY <1>2, <2>1 DEF WakeInv
<1> QED
  BY <1>3, <1>4, <1>5, <1>6

LEMMA WakePreserves ==
  ASSUME IndInv, TypeOK', NEW g \in Gs, WakeStep(g)
  PROVE  QueuedInv' /\ OnceInv' /\ WakeInv' /\ ParamInv' /\ WaitersInv'
<1> USE DEF IndInv
<1>1. PICK sg \in Sudog :
        /\ sg = wake[g].sg /\ WakeOK(g, sg)
        /\ sg.g \in Gs /\ sg.i # 0 /\ pc[sg.g] = "parked" /\ sg.g # g
  BY SudogFields DEF WakeStep, WakeInv, WakeOK, Waking
<1>2. /\ \A x \in Gs \ {g} : call'[x] = call[x] /\ wake'[x] = wake[x]
      /\ \A x \in Gs \ {g, sg.g} : pc'[x] = pc[x] /\ param'[x] = param[x]
      /\ pc'[g] = "idle" /\ pc'[sg.g] = "woken" /\ hchan' = hchan /\ done' = done
      /\ Waking(pc[g])
      /\ param'[sg.g] = IF pc[g] = "deliver" THEN sg.i ELSE param[sg.g]
  BY <1>1 DEF WakeStep, TypeOK
<1>3. \A c \in Chans, dir \in Dirs : ~InQueue(c, dir, g)
  BY <1>2, NotQueued DEF Waking
<1>4. QueuedInv'
  <2> SUFFICES ASSUME NEW c \in Chans, NEW dir \in Dirs, NEW s2 \in Sudog, OnQueue(c, dir, s2)'
               PROVE  QueuedOK(c, dir, s2)'
    BY DEF QueuedInv
  <2>1. OnQueue(c, dir, s2) /\ s2.g \in Gs
    BY <1>2, SudogFields DEF OnQueue
  <2>2. QueuedOK(c, dir, s2) /\ s2.g # g
    BY <1>3, <2>1 DEF QueuedInv, InQueue
  <2>3. CASE s2.g = sg.g
    <3>1. call[sg.g].sel
      BY <1>1, <2>1, <2>3 DEF WakeOK, InQueue
    <3>2. done[sg.g] = 1
      BY <1>1, <3>1 DEF WakeOK
    <3> QED
      BY <1>2, <2>1, <2>2, <2>3, <3>1, <3>2 DEF QueuedOK, Cases
  <2>4. CASE s2.g # sg.g
    BY <1>2, <2>1, <2>2, <2>4 DEF QueuedOK, Cases
  <2> QED
    BY <2>3, <2>4
<1>5. OnceInv'
  <2> SUFFICES ASSUME NEW c \in Chans, NEW dir \in Dirs, NEW j \in DOMAIN hchan[c].q[dir],
                      NEW k \in DOMAIN hchan[c].q[dir],
                      hchan[c].q[dir][j].g = hchan[c].q[dir][k].g,
                      ~call'[hchan[c].q[dir][j].g].sel
               PROVE  j = k
    BY <1>2 DEF OnceInv
  <2>1. hchan[c].q[dir][j] \in Sudog /\ OnQueue(c, dir, hchan[c].q[dir][j])
    <3>1. hchan[c].q[dir] \in Seq(Sudog)
      BY DEF TypeOK, HchanOK, Hchan, Queues
    <3> QED
      BY <3>1, SeqElements DEF OnQueue
  <2>2. hchan[c].q[dir][j].g \in Gs \ {g}
    BY <1>3, <2>1, SudogFields DEF InQueue
  <2> QED
    BY <1>2, <2>2 DEF OnceInv
<1>6. WakeInv'
  <2>1. ASSUME NEW x \in Gs, Waking(pc'[x])
        PROVE  /\ WakeOK(x, wake[x].sg)' /\ wake'[x].i \in DOMAIN Cases(x)'
               /\ pc'[x] = pc[x] /\ wake'[x] = wake[x]
    <3>1. x # g /\ x # sg.g /\ pc'[x] = pc[x] /\ wake'[x] = wake[x] /\ Waking(pc[x])
      BY <1>2, <2>1 DEF Waking
    <3>2. PICK s2 \in Sudog : s2 = wake[x].sg /\ WakeOK(x, s2) /\ s2.g \in Gs
      BY <3>1, SudogFields DEF WakeInv, WakeOK
    <3>3. s2.g # sg.g /\ s2.g # g
      BY <1>1, <1>2, <3>1, <3>2 DEF WakeInv, WakeOK, Waking
    <3>4. WakeOK(x, s2)'
      BY <1>2, <3>1, <3>2, <3>3 DEF WakeOK, Cases, InQueue, OnQueue
    <3>5. wake'[x].i \in DOMAIN Cases(x)'
      BY <1>2, <3>1 DEF WakeInv, Cases
    <3> QED
      BY <3>1, <3>2, <3>4, <3>5
  <2> QED
    BY <2>1 DEF WakeInv
<1>7. ParamInv'
  <2> SUFFICES ASSUME NEW x \in Gs PROVE ParamOK(x)'
    BY DEF ParamInv
  <2>1. CASE x = g
    BY <1>2, <2>1 DEF ParamOK
  <2>2. CASE x = sg.g
    <3>1. ParamOK(x) /\ call'[x] = call[x]
      BY <1>1, <1>2, <2>2 DEF ParamInv
    <3>2. sg.i \in DOMAIN Cases(x) /\ (~call[x].sel => sg.i = 1)
      BY <1>1, <2>2, CaseTypes DEF WakeOK, CallsInv, CallOK
    <3>3. pc[g] = "deliver" <=> Cap[Cases(x)[sg.i].c] = 0
      BY <1>1, <2>2 DEF WakeOK
    <3> QED
      BY <1>1, <1>2, <2>2, <3>1, <3>2, <3>3 DEF ParamOK, Cases
  <2>3. CASE x # g /\ x # sg.g
    <3>1. ParamOK(x)
      BY DEF ParamInv
    <3> QED
      BY <1>2, <2>3, <3>1 DEF ParamOK, Cases
  <2> QED
    BY <2>1, <2>2, <2>3
<1>8. WaitersInv'
  <2>1. ASSUME NEW c \in Chans, NEW dir \in Dirs
        PROVE  Waiters(c, dir)' \subseteq Waiters(c, dir)
    <3> SUFFICES ASSUME NEW x \in Waiters(c, dir)' PROVE x \in Waiters(c, dir)
      OBVIOUS
    <3>1. PICK s2 \in Sudog : s2.g = x /\ OnQueue(c, dir, s2)' /\ Unsignalled(s2)'
      BY WaitersNext
    <3>2. OnQueue(c, dir, s2) /\ x \in Gs
      BY <1>2, <3>1, SudogFields DEF OnQueue
    <3>3. x # g
      BY <1>3, <3>1, <3>2 DEF InQueue
    <3>4. Unsignalled(s2)
      BY <1>2, <3>1, <3>2, <3>3 DEF Unsignalled
    <3> QED
      BY <3>1, <3>2, <3>4, WaitersOn
  <2>2. \A c \in Chans : hchan'[c].closed /\ ~Closer(c)' => hchan[c].closed /\ ~Closer(c)
    <3>1. \A x \in Gs : pc[x] = "closing" => pc'[x] = pc[x] /\ call'[x] = call[x]
      BY <1>1, <1>2 DEF Waking
    <3> QED
      BY <1>2, <3>1 DEF Closer, Cases
  <2> QED
    BY <2>1, <2>2, FewerWaiters
<1> QED
  BY <1>4, <1>5, <1>6, <1>7, <1>8

LEMMA ParkPreserves ==
  ASSUME IndInv, TypeOK', NEW g \in Gs, ParkStep(g)
  PROVE  QueuedInv' /\ OnceInv' /\ WakeInv' /\ ParamInv' /\ WaitersInv'
<1> USE DEF IndInv
<1>1. /\ pc[g] \in {"lock", "pass1"} /\ pc'[g] = "parked" /\ call' = call /\ wake' = wake
      /\ \A x \in Gs \ {g} : pc'[x] = pc[x] /\ done'[x] = done[x] /\ param'[x] = param[x]
      /\ call[g].sel => param'[g] = 0 /\ done'[g] = 0
      /\ SameClosed
  BY DEF ParkStep, TypeOK
<1>2. \A c \in Chans, dir \in Dirs : ~InQueue(c, dir, g)
  BY <1>1, NotQueued
\* A sudog on a queue is an old one, or one of g.
<1>3. ASSUME NEW c \in Chans, NEW dir \in Dirs, NEW sg \in Sudog, OnQueue(c, dir, sg)'
      PROVE  \/ /\ sg.g = g /\ sg.i \in DOMAIN Cases(g)
                /\ Cases(g)[sg.i].c = c /\ Cases(g)[sg.i].dir = dir
             \/ OnQueue(c, dir, sg) /\ sg.g \in Gs \ {g}
  <2>1. PICK j \in DOMAIN hchan'[c].q[dir] : hchan'[c].q[dir][j] = sg
    BY <1>3 DEF OnQueue
  <2>2. Joins(hchan'[c].q[dir], hchan[c].q[dir], g, c, dir)
    BY DEF ParkStep
  <2>3. \/ /\ sg.g = g /\ sg.i \in DOMAIN Cases(g)
           /\ Cases(g)[sg.i].c = c /\ Cases(g)[sg.i].dir = dir
        \/ OnQueue(c, dir, sg)
    BY <2>1, <2>2 DEF Joins, OnQueue
  <2> QED
    BY <1>2, <2>3, SudogFields DEF InQueue
<1>4. QueuedInv'
  <2> SUFFICES ASSUME NEW c \in Chans, NEW dir \in Dirs, NEW sg \in Sudog, OnQueue(c, dir, sg)'
               PROVE  QueuedOK(c, dir, sg)'
    BY DEF QueuedInv
  <2>1. CASE /\ sg.g = g /\ sg.i \in DOMAIN Cases(g)
             /\ Cases(g)[sg.i].c = c /\ Cases(g)[sg.i].dir = dir
    BY <1>1, <2>1 DEF QueuedOK, Cases
  <2>2. CASE OnQueue(c, dir, sg) /\ sg.g \in Gs \ {g}
    <3>1. QueuedOK(c, dir, sg)
      BY <2>2 DEF QueuedInv
    <3> QED
      BY <1>1, <2>2, <3>1 DEF QueuedOK, Cases
  <2> QED
    BY <1>3, <2>1, <2>2
<1>5. OnceInv'
  <2> SUFFICES ASSUME NEW c \in Chans, NEW dir \in Dirs, NEW j \in DOMAIN hchan'[c].q[dir],
                      NEW k \in DOMAIN hchan'[c].q[dir],
                      hchan'[c].q[dir][j].g = hchan'[c].q[dir][k].g,
                      ~call[hchan'[c].q[dir][j].g].sel
               PROVE  j = k
    BY <1>1 DEF OnceInv
  <2> DEFINE p == hchan'[c].q[dir]
             q == hchan[c].q[dir]
  <2>1. PICK f \in [DOMAIN p -> Nat] :
          /\ \A m \in DOMAIN p : p[m].g = g \/ (f[m] \in DOMAIN q /\ p[m] = q[f[m]])
          /\ \A m, n \in DOMAIN p : p[m].g # g /\ p[n].g # g /\ f[m] = f[n] => m = n
          /\ ~call[g].sel => \A m, n \in DOMAIN p : p[m].g = g /\ p[n].g = g => m = n
    <3>1. Joins(p, q, g, c, dir)
      BY DEF ParkStep
    <3> HIDE DEF p, q
    <3> QED
      BY <3>1 DEF Joins
  <2>2. CASE p[j].g = g
    BY <2>1, <2>2
  <2>3. CASE p[j].g # g
    <3>1. f[j] \in DOMAIN q /\ f[k] \in DOMAIN q /\ q[f[j]].g = q[f[k]].g /\ ~call[q[f[j]].g].sel
      BY <2>1, <2>3
    <3>2. f[j] = f[k]
      BY <3>1 DEF OnceInv
    <3> QED
      BY <2>1, <2>3, <3>2
  <2> QED
    BY <2>2, <2>3
<1>6. WakeInv'
  <2>1. ASSUME NEW x \in Gs, Waking(pc'[x])
        PROVE  /\ WakeOK(x, wake[x].sg)' /\ wake'[x].i \in DOMAIN Cases(x)'
               /\ pc'[x] = pc[x]
    <3>1. x # g /\ pc'[x] = pc[x] /\ Waking(pc[x])
      BY <1>1, <2>1 DEF Waking
    <3>2. PICK s2 \in Sudog : s2 = wake[x].sg /\ WakeOK(x, s2) /\ s2.g \in Gs
      BY <3>1, SudogFields DEF WakeInv, WakeOK
    <3>3. s2.g # g
      BY <1>1, <3>2 DEF WakeOK
    <3>4. \A c \in Chans, dir \in Dirs : InQueue(c, dir, s2.g)' => InQueue(c, dir, s2.g)
      BY <1>3, <3>3 DEF InQueue
    <3>5. WakeOK(x, s2)'
      BY <1>1, <3>1, <3>2, <3>3, <3>4 DEF WakeOK, Cases
    <3>6. wake'[x].i \in DOMAIN Cases(x)'
      BY <1>1, <3>1 DEF WakeInv, Cases
    <3> QED
      BY <1>1, <3>1, <3>2, <3>5, <3>6
  <2> QED
    BY <1>1, <2>1 DEF WakeInv
<1>7. ParamInv'
  <2> SUFFICES ASSUME NEW x \in Gs PROVE ParamOK(x)'
    BY DEF ParamInv
  <2>1. CASE x = g
    BY <1>1, <2>1 DEF ParamOK
  <2>2. CASE x # g
    <3>1. /\ ParamOK(x) /\ pc'[x] = pc[x] /\ call'[x] = call[x] /\ param'[x] = param[x]
          /\ pc[x] = "woken" => Cases(x)[1].c \in Chans
      BY <1>1, <2>2, CaseTypes DEF ParamInv, CallsInv, CallOK
    <3>2. \A c2 \in Chans : hchan'[c2].closed = hchan[c2].closed
      BY <1>1 DEF SameClosed
    <3> QED
      BY <3>1, <3>2 DEF ParamOK, Cases
  <2> QED
    BY <2>1, <2>2
<1>8. WaitersInv'
  <2>1. ASSUME NEW c \in Chans, NEW dir \in Dirs, NEW x \in Waiters(c, dir)'
        PROVE  \/ x \in Waiters(c, dir)
               \/ x = g /\ \E i \in DOMAIN Cases(g) : Cases(g)[i].c = c /\ Cases(g)[i].dir = dir
    <3>1. PICK s2 \in Sudog : s2.g = x /\ OnQueue(c, dir, s2)' /\ Unsignalled(s2)'
      BY <2>1, WaitersNext
    <3>2. CASE /\ s2.g = g /\ s2.i \in DOMAIN Cases(g)
               /\ Cases(g)[s2.i].c = c /\ Cases(g)[s2.i].dir = dir
      BY <3>1, <3>2
    <3>3. CASE OnQueue(c, dir, s2) /\ s2.g \in Gs \ {g}
      <4>1. Unsignalled(s2)
        BY <1>1, <3>1, <3>3 DEF Unsignalled
      <4> QED
        BY <3>1, <3>3, <4>1, WaitersOn
    <3> QED
      BY <1>3, <3>1, <3>2, <3>3
  <2>2. \A c \in Chans : Closer(c) => Closer(c)'
    BY <1>1 DEF Closer, Cases
  <2> SUFFICES ASSUME NEW c \in Chans
               PROVE  /\ hchan'[c].closed /\ ~Closer(c)' =>
                           Waiters(c, "recv")' = {} /\ Waiters(c, "send")' = {}
                      /\ Cap[c] = 0 =>
                           \A s \in Waiters(c, "send")', r \in Waiters(c, "recv")' : s = r
    BY DEF WaitersInv
  <2>3. ASSUME hchan'[c].closed, ~Closer(c)'
        PROVE  Waiters(c, "recv")' = {} /\ Waiters(c, "send")' = {}
    <3>1. hchan[c].closed /\ ~Closer(c)
      BY <1>1, <2>2, <2>3 DEF SameClosed
    <3>2. \A dir \in Dirs : Waiters(c, dir) = {}
      BY <3>1 DEF WaitersInv, Dirs
    <3>3. ~\E i \in DOMAIN Cases(g) : Cases(g)[i].c = c
      BY <3>1 DEF ParkStep
    <3>4. \A dir \in Dirs : Waiters(c, dir)' = {}
      BY <2>1, <3>2, <3>3
    <3> QED
      BY <3>4 DEF Dirs
  <2>4. ASSUME Cap[c] = 0, NEW s \in Waiters(c, "send")', NEW r \in Waiters(c, "recv")'
        PROVE  s = r
    <3>1. \/ s \in Waiters(c, "send")
          \/ s = g /\ Waiters(c, "recv") = {}
      BY <2>1, <2>4 DEF Dirs, ParkStep, Other
    <3>2. \/ r \in Waiters(c, "recv")
          \/ r = g /\ Waiters(c, "send") = {}
      BY <2>1, <2>4 DEF Dirs, ParkStep, Other
    <3> QED
      BY <2>4, <3>1, <3>2 DEF WaitersInv
  <2> QED
    BY <2>3, <2>4
<1> QED
  BY <1>4, <1>5, <1>6, <1>7, <1>8

----------------------------------------------------------------------------
(* What the updates of a channel do to it *)

\* h2 differs from h in queues and buffers only.
SameLocks(h2, h) ==
  \A c \in Chans : h2[c].lock = h[c].lock /\ h2[c].closed = h[c].closed

\* What a step may do to the buffer of c, and what it may not do to closed.
SameBuf(r2, r) ==
  r2.buf = r.buf /\ r2.qcount = r.qcount /\ r2.sendx = r.sendx /\ r2.recvx = r.recvx

PutsOne(r2, r, c) ==
  /\ r.qcount < Cap[c] /\ r2.qcount = r.qcount + 1
  /\ r2.recvx = r.recvx /\ r2.sendx = Next1(c, r.sendx)
  /\ \E v \in Nat : r2.buf = [r.buf EXCEPT ![r.sendx] = v]

GetsOne(r2, r, c) ==
  /\ r.qcount > 0 /\ r2.qcount = r.qcount - 1
  /\ r2.sendx = r.sendx /\ r2.recvx = Next1(c, r.recvx)
  /\ r2.buf = [r.buf EXCEPT ![r.recvx] = 0]

Kept(h2, h) == \A c \in Chans : SameBuf(h2[c], h[c]) /\ (h[c].closed => h2[c].closed)

Moved(h2, h) ==
  \A c \in Chans :
    /\ h[c].closed => h2[c].closed
    /\ \/ SameBuf(h2[c], h[c])
       \/ Cap[c] # 0 /\ (PutsOne(h2[c], h[c], c) \/ GetsOne(h2[c], h[c], c))

\* Slot x of channel c now holds u.
BufSet(h2, h, c, x, u) ==
  \A d \in Chans : h2[d].buf = IF d = c THEN [h[c].buf EXCEPT ![x] = u] ELSE h[d].buf

\* h2 is h with s as one of the queues of c.
SetQueue(h, c, d, s) == [h EXCEPT ![c].q[d] = s]

Requeued(h2, h, c, d, s) ==
  /\ HchanOK(h2) /\ SameLocks(h2, h)
  /\ \A c2 \in Chans, d2 \in Dirs :
       h2[c2].q[d2] = IF c2 = c /\ d2 = d THEN s ELSE h[c2].q[d2]

LEMMA QueueUpdate ==
  ASSUME NEW h, HchanOK(h), NEW c \in Chans, NEW d \in Dirs, NEW s \in Seq(Sudog)
  PROVE  Requeued(SetQueue(h, c, d, s), h, c, d, s)
<1>1. h[c] \in Hchan(c) /\ h[c].q \in Queues
  BY DEF HchanOK, Hchan
<1>2. PICK h2 : h2 = SetQueue(h, c, d, s)
  OBVIOUS
<1> DEFINE q2 == [h[c].q EXCEPT ![d] = s]
           r2 == [h[c] EXCEPT !.q = q2]
<1>3. q2 \in Queues /\ \A d2 \in Dirs : q2[d2] = IF d2 = d THEN s ELSE h[c].q[d2]
  BY <1>1 DEF Queues
<1> HIDE DEF q2
<1>4. r2 \in Hchan(c) /\ r2.q = q2 /\ r2.lock = h[c].lock /\ r2.closed = h[c].closed
  BY <1>1, <1>3 DEF Hchan
<1>5. h2 = [h EXCEPT ![c] = r2]
  BY <1>2 DEF q2, SetQueue
<1> HIDE DEF r2
<1>6. /\ h2 = [c2 \in Chans |-> h2[c2]]
      /\ \A c2 \in Chans : h2[c2] = IF c2 = c THEN r2 ELSE h[c2]
  BY <1>5 DEF HchanOK
<1>7. HchanOK(h2)
  BY <1>4, <1>6 DEF HchanOK
<1> QED
  BY <1>2, <1>3, <1>4, <1>6, <1>7 DEF SameLocks, Requeued

LEMMA BufUpdate ==
  ASSUME NEW h, HchanOK(h), NEW k, k.c \in Chans, k.val \in Nat, Cap[k.c] > 0, Room(h, k),
         NEW h2, h2 = IF k.dir = "send" THEN SendBuf(h, k) ELSE RecvBuf(h, k)
  PROVE  /\ HchanOK(h2) /\ SameLocks(h2, h)
         /\ \A c2 \in Chans : h2[c2].q = h[c2].q
         /\ Moved(h2, h)
         /\ k.dir = "send" => BufSet(h2, h, k.c, h[k.c].sendx, k.val)
         /\ k.dir # "send" => BufSet(h2, h, k.c, h[k.c].recvx, 0)
<1> DEFINE c == k.c
           r == h[c]
           x == IF k.dir = "send" THEN r.sendx ELSE r.recvx
           b2 == [r.buf EXCEPT ![x] = IF k.dir = "send" THEN k.val ELSE 0]
           s2 == IF k.dir = "send" THEN Next1(c, r.sendx) ELSE r.sendx
           v2 == IF k.dir = "send" THEN r.recvx ELSE Next1(c, r.recvx)
           n2 == IF k.dir = "send" THEN r.qcount + 1 ELSE r.qcount - 1
           r2 == [r EXCEPT !.buf = b2, !.sendx = s2, !.recvx = v2, !.qcount = n2]
<1>1. h[c] \in Hchan(c) /\ c \in Chans
  BY DEF HchanOK
<1>2. /\ r.buf \in [0..Cap[c]-1 -> Nat] /\ r.sendx \in Index(c) /\ r.recvx \in Index(c)
      /\ r.qcount \in 0..Cap[c] /\ Cap[c] \in Nat /\ Cap[c] # 0
  <2>1. Cap[c] \in Nat /\ Cap[c] # 0
    <3>1. Cap[c] \in Nat /\ Cap[c] > 0
      BY <1>1, ChanAssumption
    <3> HIDE DEF c
    <3> QED
      BY <3>1
  <2> QED
    BY <1>1, <2>1 DEF Hchan
<1>3. s2 \in Index(c) /\ v2 \in Index(c)
  <2>1. ASSUME NEW y \in Index(c) PROVE Next1(c, y) \in Index(c)
    <3>1. y \in 0..Cap[c]-1 /\ Index(c) = 0..Cap[c]-1
      BY <1>2 DEF Index
    <3> QED
      BY <1>2, <3>1 DEF Next1
  <2> QED
    BY <1>2, <2>1
<1>4. n2 \in 0..Cap[c]
  <2>1. r.qcount + 1 \in 0..Cap[c] \/ k.dir # "send"
    BY <1>2 DEF Room
  <2>2. r.qcount - 1 \in 0..Cap[c] \/ k.dir = "send"
    BY <1>2 DEF Room
  <2> QED
    BY <2>1, <2>2
<1>5. b2 \in [0..Cap[c]-1 -> Nat]
  <2> DEFINE v == IF k.dir = "send" THEN k.val ELSE 0
  <2>1. v \in Nat
    OBVIOUS
  <2> HIDE DEF v, x
  <2>2. [r.buf EXCEPT ![x] = v] \in [0..Cap[c]-1 -> Nat]
    BY <1>2, <2>1
  <2> QED
    BY <2>2 DEF v
<1>6. h2 = [h EXCEPT ![c] = r2]
  <2>1. CASE k.dir = "send"
    <3>1. SendBuf(h, k) = [h EXCEPT ![c] = r2]
      BY <1>1, <2>1 DEF SendBuf, HchanOK, Hchan
    <3> QED
      BY <2>1, <3>1
  <2>2. CASE k.dir # "send"
    <3>1. RecvBuf(h, k) = [h EXCEPT ![c] = r2]
      BY <1>1, <2>2 DEF RecvBuf, HchanOK, Hchan
    <3> QED
      BY <2>2, <3>1
  <2> QED
    BY <2>1, <2>2
<1> HIDE DEF b2, s2, v2, n2
<1>7. /\ r2 \in Hchan(c) /\ r2.q = h[c].q
      /\ r2.lock = h[c].lock /\ r2.closed = h[c].closed
      /\ r2.buf = b2 /\ r2.sendx = s2 /\ r2.recvx = v2 /\ r2.qcount = n2
  BY <1>1, <1>3, <1>4, <1>5 DEF Hchan
<1> HIDE DEF r2
<1>8. /\ h2 = [c2 \in Chans |-> h2[c2]]
      /\ \A c2 \in Chans : h2[c2] = IF c2 = c THEN r2 ELSE h[c2]
  BY <1>1, <1>6 DEF HchanOK
<1>9. HchanOK(h2)
  BY <1>7, <1>8 DEF HchanOK
<1>10. PutsOne(r2, h[c], c) \/ GetsOne(r2, h[c], c)
  <2>1. CASE k.dir = "send"
    BY <1>7, <2>1 DEF b2, s2, v2, n2, PutsOne, Room
  <2>2. CASE k.dir # "send"
    BY <1>7, <2>2 DEF b2, s2, v2, n2, GetsOne, Room
  <2> QED
    BY <2>1, <2>2
<1>11. Moved(h2, h)
  BY <1>2, <1>7, <1>8, <1>10 DEF Moved, SameBuf
<1>12. /\ k.dir = "send" => BufSet(h2, h, k.c, h[k.c].sendx, k.val)
       /\ k.dir # "send" => BufSet(h2, h, k.c, h[k.c].recvx, 0)
  BY <1>7, <1>8 DEF BufSet, b2
<1> QED
  BY <1>7, <1>8, <1>9, <1>11, <1>12 DEF SameLocks

\* Releasing g's locks, and taking one.
LEMMA UnlockUpdate ==
  ASSUME NEW h, HchanOK(h), NEW g, NEW h2, h2 = selunlock(g, h)
  PROVE  /\ HchanOK(h2)
         /\ \A c \in Chans :
              /\ h2[c].lock = IF h[c].lock = g THEN NoG ELSE h[c].lock
              /\ h2[c].closed = h[c].closed /\ h2[c].q = h[c].q
              /\ h2[c].qcount = h[c].qcount
<1>1. ASSUME NEW c \in Chans
      PROVE  /\ h2[c] \in Hchan(c)
             /\ h2[c].lock = IF h[c].lock = g THEN NoG ELSE h[c].lock
             /\ h2[c].closed = h[c].closed /\ h2[c].q = h[c].q /\ h2[c].qcount = h[c].qcount
  <2>1. h[c] \in Hchan(c) /\ h2[c] = IF h[c].lock = g THEN [h[c] EXCEPT !.lock = NoG] ELSE h[c]
    BY DEF HchanOK, selunlock
  <2> QED
    BY <2>1 DEF Hchan
<1>2. h2 = [c \in Chans |-> h2[c]]
  BY DEF selunlock
<1> QED
  BY <1>1, <1>2 DEF HchanOK

\* h2 is h with c closed or not, and locked by l.
SetLock(h, c, b, l) == [h EXCEPT ![c].closed = b, ![c].lock = l]

Relocked(h2, h, c, b, l) ==
  /\ HchanOK(h2)
  /\ h2[c].lock = l /\ h2[c].closed = b
  /\ \A c2 \in Chans : h2[c2].q = h[c2].q
  /\ \A c2 \in Chans \ {c} : h2[c2] = h[c2]

LEMMA LockUpdate ==
  ASSUME NEW h, HchanOK(h), NEW c \in Chans, NEW b \in BOOLEAN, NEW l \in Gs \cup {NoG}
  PROVE  /\ Relocked(SetLock(h, c, b, l), h, c, b, l)
         /\ b = h[c].closed => [h EXCEPT ![c].lock = l] = SetLock(h, c, b, l)
<1> DEFINE r2 == [h[c] EXCEPT !.closed = b, !.lock = l]
<1>1. h[c] \in Hchan(c)
  BY DEF HchanOK
<1>2. PICK h2 : h2 = SetLock(h, c, b, l)
  OBVIOUS
<1>3. h2 = [h EXCEPT ![c] = r2]
  BY <1>1, <1>2 DEF HchanOK, Hchan, SetLock
<1>4. b = h[c].closed => [h EXCEPT ![c].lock = l] = h2
  BY <1>1, <1>3 DEF HchanOK, Hchan
<1>5. r2 \in Hchan(c) /\ r2.q = h[c].q /\ r2.lock = l /\ r2.closed = b
  BY <1>1 DEF Hchan
<1> HIDE DEF r2
<1>6. /\ h2 = [c2 \in Chans |-> h2[c2]]
      /\ \A c2 \in Chans : h2[c2] = IF c2 = c THEN r2 ELSE h[c2]
  BY <1>3 DEF HchanOK
<1>7. HchanOK(h2)
  BY <1>5, <1>6 DEF HchanOK
<1>8. Relocked(h2, h, c, b, l)
  BY <1>5, <1>6, <1>7 DEF Relocked
<1> QED
  BY <1>2, <1>4, <1>8

----------------------------------------------------------------------------
(* The steps of others leave a goroutine's locks and call alone *)

\* g changes no lock but its own and no call but its own; it may wake others.
Frame(g) ==
  /\ \A x \in Gs \ {g} :
       /\ call'[x] = call[x]
       /\ pc'[x] = pc[x] \/ (pc[x] = "parked" /\ pc'[x] = "woken")
  /\ \A c \in Chans :
       /\ \/ hchan'[c].lock = hchan[c].lock
          \/ hchan[c].lock \in {g, NoG} /\ hchan'[c].lock \in {g, NoG}
       /\ hchan[c].closed => hchan'[c].closed

LEMMA FrameOthers ==
  ASSUME TypeOK, CallsInv, LocksInv, NEW g \in Gs, Frame(g), NEW x \in Gs \ {g}
  PROVE  CallOK(x)' /\ LocksOK(x)'
<1>1. /\ CallOK(x) /\ LocksOK(x) /\ call'[x] = call[x]
      /\ pc'[x] = pc[x] \/ (pc[x] = "parked" /\ pc'[x] = "woken")
  BY DEF CallsInv, LocksInv, Frame
<1>2. Held(x)' = Held(x) /\ Wanted(x)' = Wanted(x) /\ Cases(x)' = Cases(x)
  BY <1>1, ChanAssumption DEF Frame, Held, Wanted, Cases
<1>3. ToLock(x)' = ToLock(x)
  BY <1>2 DEF ToLock
<1>4. CallOK(x)'
  <2>1. pc[x] = "closing" => /\ hchan'[Cases(x)[1].c].lock = x
                            /\ hchan'[Cases(x)[1].c].closed
    <3> SUFFICES ASSUME pc[x] = "closing"
                 PROVE  hchan'[Cases(x)[1].c].lock = x /\ hchan'[Cases(x)[1].c].closed
      OBVIOUS
    <3>1. Cases(x)[1].c \in Chans
      BY <1>1, CaseTypes DEF CallOK
    <3> QED
      BY <1>1, <3>1, ChanAssumption DEF Frame, CallOK
  <2> QED
    BY <1>1, <1>2, <2>1 DEF CallOK, Plain, Selecting
<1>5. LocksOK(x)'
  <2>1. CASE pc'[x] = pc[x]
    BY <1>1, <1>2, <1>3, <2>1 DEF LocksOK
  <2>2. CASE pc[x] = "parked" /\ pc'[x] = "woken"
    <3>1. Held(x) = {}
      BY <1>1, <2>2 DEF LocksOK
    <3>2. Wanted(x) # {}
      <4>1. 1 \in DOMAIN Cases(x)
        BY <1>1, <2>2, CaseTypes DEF CallOK
      <4> QED
        BY <4>1 DEF Wanted
    <3>3. ToLock(x) # {}
      BY <3>1, <3>2 DEF ToLock
    <3> QED
      BY <1>2, <1>3, <2>2, <3>1, <3>3 DEF LocksOK
  <2> QED
    BY <1>1, <2>1, <2>2
<1> QED
  BY <1>4, <1>5

LEMMA FramePreserves ==
  ASSUME TypeOK, CallsInv, LocksInv, NEW g \in Gs, Frame(g), CallOK(g)', LocksOK(g)'
  PROVE  CallsInv' /\ LocksInv'
BY FrameOthers DEF CallsInv, LocksInv

\* g holds no lock after the step: it returned, or goes on with its call.
LEMMA FreeOwn ==
  ASSUME TypeOK, CallsInv, NEW g \in Gs, Frame(g), \A c \in Chans : hchan'[c].lock # g,
         \/ call'[g] = NoCall /\ pc'[g] = "idle"
         \/ /\ call'[g] = call[g] /\ pc[g] # "idle"
            /\ pc'[g] \notin {"closing", "sellock", "pass1", "pass3", "idle"}
            /\ Plain(pc'[g]) => ~call[g].sel
            /\ pc'[g] # "lock" => \A i \in DOMAIN Cases(g) : Cases(g)[i].dir \in Dirs
  PROVE  CallOK(g)' /\ LocksOK(g)'
<1>1. Held(g)' = {}
  BY DEF Held
<1>2. CASE call'[g] = NoCall /\ pc'[g] = "idle"
  <2>1. Cases(g)' = <<>> /\ ~call'[g].sel
    BY <1>2 DEF Cases, NoCall
  <2> QED
    BY <1>1, <1>2, <2>1 DEF CallOK, LocksOK, Plain, Selecting
<1>3. CASE /\ call'[g] = call[g] /\ pc[g] # "idle"
           /\ pc'[g] \notin {"closing", "sellock", "pass1", "pass3", "idle"}
           /\ Plain(pc'[g]) => ~call[g].sel
           /\ pc'[g] # "lock" => \A i \in DOMAIN Cases(g) : Cases(g)[i].dir \in Dirs
  <2>1. CallOK(g) /\ Cases(g)' = Cases(g)
    BY <1>3 DEF CallsInv, Cases
  <2>2. CallOK(g)'
    BY <1>3, <2>1 DEF CallOK, Selecting
  <2>3. Wanted(g)' # {}
    BY <1>3, <2>1, CaseTypes DEF CallOK, Wanted
  <2>4. ToLock(g)' # {}
    BY <1>1, <2>3 DEF ToLock
  <2> QED
    BY <1>1, <2>2, <2>4 DEF LocksOK
<1> QED
  BY <1>2, <1>3

\* The queues after dequeue took its sudog off one of them.
LEMMA PeerTaken ==
  ASSUME TypeOK, OnceInv, NEW h, HchanOK(h),
         \A c \in Chans, d \in Dirs : h[c].q[d] = hchan[c].q[d] \/ h[c].q[d] = <<>>,
         NEW c \in Chans, NEW d \in Dirs,
         \A c2 \in Chans, d2 \in Dirs :
           hchan'[c2].q[d2] = IF c2 = c /\ d2 = d THEN dequeue(h[c].q[d]).rest ELSE h[c2].q[d2]
  PROVE  /\ Shrinks
         /\ dequeue(h[c].q[d]).sg # NoSg =>
              \E sg \in Sudog :
                /\ sg = dequeue(h[c].q[d]).sg /\ OnQueue(c, d, sg) /\ Unsignalled(sg)
                /\ ~call[sg.g].sel => ~InQueue(c, d, sg.g)'
<1> DEFINE q == h[c].q[d]
<1>1. q \in Seq(Sudog) /\ hchan[c].q[d] \in Seq(Sudog)
  BY DEF TypeOK, HchanOK, Hchan, Queues
<1> DEFINE D == dequeue(q)
<1>2. \A c2 \in Chans, d2 \in Dirs : Embeds(h[c2].q[d2], hchan[c2].q[d2])
  BY EmbedsSame, EmbedsEmpty
<1>3. CASE D.sg = NoSg
  <2>1. D.rest = <<>>
    BY <1>1, <1>3, DequeueNone
  <2>2. Shrinks
    BY <1>2, <2>1, EmbedsEmpty DEF Shrinks
  <2> QED
    BY <1>3, <2>2
<1>4. CASE D.sg # NoSg
  <2>1. PICK k \in DOMAIN q : D.sg = q[k] /\ Unsignalled(q[k]) /\ D.rest = SubSeq(q, k + 1, Len(q))
    BY <1>1, <1>4, DequeueSome
  <2> HIDE DEF D, q
  <2>2. q = hchan[c].q[d]
    <3>1. DOMAIN q # {}
      BY <2>1
    <3>2. q # <<>>
      BY <3>1
    <3> QED
      BY <3>2 DEF q
  <2>3. /\ Embeds(D.rest, q)
        /\ \A j \in DOMAIN D.rest : \E m \in DOMAIN q : m > k /\ D.rest[j] = q[m]
    BY <1>1, <2>1, EmbedsRest
  <2>4. Shrinks
    BY <1>2, <2>2, <2>3 DEF Shrinks, D, q
  <2>5. PICK sg \in Sudog : sg = D.sg /\ OnQueue(c, d, sg) /\ Unsignalled(sg) /\ sg = q[k]
    BY <1>1, <2>1, <2>2, SeqElements DEF OnQueue
  <2>6. ASSUME ~call[sg.g].sel, InQueue(c, d, sg.g)' PROVE FALSE
    <3>1. hchan'[c].q[d] = D.rest
      BY DEF D, q
    <3>2. PICK s2 \in Sudog : s2.g = sg.g /\ OnQueue(c, d, s2)'
      BY <2>6 DEF InQueue
    <3>3. PICK j \in DOMAIN D.rest : D.rest[j] = s2
      BY <3>1, <3>2 DEF OnQueue
    <3>4. PICK m \in DOMAIN q : m > k /\ s2 = q[m]
      BY <2>3, <3>3
    <3>5. m = k
      BY <2>2, <2>5, <2>6, <3>2, <3>4 DEF OnceInv
    <3>6. m \in Nat
      BY <1>1, <3>4, SeqElements
    <3> QED
      BY <3>4, <3>5, <3>6
  <2> QED
    BY <2>4, <2>5, <2>6 DEF D, q
<1> QED
  BY <1>3, <1>4

----------------------------------------------------------------------------
(* Every action preserves the invariant *)

LEMMA StepPreserves ==
  ASSUME IndInv, TypeOK', NEW g \in Gs, Frame(g), CallOK(g)', LocksOK(g)',
         \/ OwnStep(g) \/ WakeStep(g) \/ ParkStep(g)
         \/ \E c, dir, sg, i : ClaimStep(g, c, dir, sg, i)
         \/ \E c, dir, sg : ReleaseStep(g, c, dir, sg)
  PROVE  IndInv'
<1>1. TypeOK /\ CallsInv /\ LocksInv /\ QueuedInv /\ OnceInv /\ WakeInv /\ ParamInv /\ WaitersInv
  BY DEF IndInv
<1>2. CallsInv' /\ LocksInv'
  BY <1>1, FramePreserves
<1>3. QueuedInv' /\ OnceInv' /\ WakeInv' /\ ParamInv' /\ WaitersInv'
  <2>1. CASE OwnStep(g)
    BY <1>1, <2>1, OwnQueued, OwnWake, OwnParam, OwnWaiters
  <2>2. CASE WakeStep(g)
    BY <2>2, WakePreserves
  <2>3. CASE ParkStep(g)
    BY <2>3, ParkPreserves
  <2>4. CASE \E c, dir, sg, i : ClaimStep(g, c, dir, sg, i)
    BY <2>4, ClaimPreserves
  <2>5. CASE \E c, dir, sg : ReleaseStep(g, c, dir, sg)
    BY <2>5, ReleasePreserves
  <2> QED
    BY <2>1, <2>2, <2>3, <2>4, <2>5
<1> QED
  BY <1>2, <1>3 DEF IndInv

LEMMA NoCallType == NoCall \in CallType
BY DEF NoCall, CallType, CaseSeqs

\* g moves on, or returns, and leaves the channels as they are.
LEMMA LocalStep ==
  ASSUME IndInv, NEW g \in Gs, NEW l \in Places, hchan' = hchan, done' = done, wake' = wake,
         nv' = nv, pc' = [pc EXCEPT ![g] = l], param' \in [Gs -> Nat],
         \A x \in Gs \ {g} : param'[x] = param[x],
         pc[g] \in {"fast", "fastq", "fastc", "lock", "woken"}, ~call[g].sel,
         \/ call' = [call EXCEPT ![g] = NoCall] /\ l = "idle"
         \/ /\ call' = call /\ l \in {"fastq", "fastc", "lock"}
            /\ l # "lock" => pc[g] # "lock"
  PROVE  IndInv'
<1>1. TypeOK /\ CallsInv /\ LocksInv /\ QueuedInv /\ CallOK(g) /\ LocksOK(g)
  BY DEF IndInv, CallsInv, LocksInv
<1>2. TypeOK'
  BY <1>1, NoCallType DEF TypeOK
<1>3. /\ pc'[g] = l /\ \A x \in Gs \ {g} : pc'[x] = pc[x] /\ call'[x] = call[x]
      /\ (l = "idle" /\ call'[g] = NoCall) \/ (l # "idle" /\ call'[g] = call[g])
  BY <1>1 DEF TypeOK
<1>4. Frame(g)
  BY <1>3 DEF Frame
<1>5. \A c \in Chans : hchan'[c].lock # g
  BY <1>1 DEF LocksOK, Held
<1>6. CallOK(g)' /\ LocksOK(g)'
  <2>1. l # "lock" /\ l # "idle" => \A i \in DOMAIN Cases(g) : Cases(g)[i].dir \in Dirs
    BY <1>1 DEF CallOK
  <2> QED
    BY <1>1, <1>3, <1>4, <1>5, <2>1, FreeOwn
<1>7. OwnStep(g)
  <2>1. Others(g) /\ Shrinks
    BY <1>3, EmbedsSame DEF Others, Shrinks
  <2>2. \A c \in Chans : Closer(c)' = Closer(c)
    <3>1. \A x \in Gs : (pc'[x] = "closing" <=> pc[x] = "closing")
                      /\ (pc[x] = "closing" => call'[x] = call[x])
      BY <1>3
    <3> QED
      BY <3>1 DEF Closer, Cases
  <2> QED
    BY <1>3, <2>1, <2>2 DEF OwnStep, Waking
<1> QED
  BY <1>2, <1>4, <1>6, <1>7, StepPreserves

LEMMA FastPreserves ==
  ASSUME IndInv, NEW g \in Gs, FastFirst(g) \/ FastFail(g) \/ FastSlow(g)
  PROVE  IndInv'
<1>1. /\ pc[g] \in {"fast", "fastq", "fastc"} /\ hchan' = hchan /\ done' = done /\ wake' = wake
      /\ nv' = nv /\ param' = param
      /\ \/ call' = call /\ \E l \in {"fastq", "fastc", "lock"} : pc' = [pc EXCEPT ![g] = l]
         \/ call' = [call EXCEPT ![g] = NoCall] /\ pc' = [pc EXCEPT ![g] = "idle"]
  BY DEF FastFirst, FastFail, FastSlow, Return, Result, Goto
<1>2. ~call[g].sel /\ param' \in [Gs -> Nat]
  BY <1>1 DEF IndInv, CallsInv, CallOK, Plain, TypeOK
<1>3. PICK l \in {"fastq", "fastc", "lock", "idle"} :
        /\ pc' = [pc EXCEPT ![g] = l]
        /\ \/ call' = [call EXCEPT ![g] = NoCall] /\ l = "idle"
           \/ call' = call /\ l \in {"fastq", "fastc", "lock"}
  BY <1>1
<1>4. l \in Places
  BY DEF Places
<1> QED
  BY <1>1, <1>2, <1>3, <1>4, LocalStep

LEMMA MeetsClosedPreserves ==
  ASSUME IndInv, NEW g \in Gs, MeetsClosed(g)
  PROVE  IndInv'
<1>1. /\ pc[g] = "lock" /\ hchan' = hchan /\ done' = done /\ wake' = wake
      /\ nv' = nv /\ param' = param
      /\ call' = [call EXCEPT ![g] = NoCall] /\ pc' = [pc EXCEPT ![g] = "idle"]
  BY DEF MeetsClosed, Return, Result, Goto
<1>2. ~call[g].sel /\ param' \in [Gs -> Nat] /\ "idle" \in Places
  BY <1>1 DEF IndInv, CallsInv, CallOK, Plain, TypeOK, Places
<1> QED
  BY <1>1, <1>2, LocalStep

LEMMA WokenPreserves ==
  ASSUME IndInv, NEW g \in Gs, Woken(g)
  PROVE  IndInv'
<1>1. /\ pc[g] = "woken" /\ ~call[g].sel /\ hchan' = hchan /\ done' = done /\ wake' = wake
      /\ nv' = nv /\ param' = [param EXCEPT ![g] = IF Cap[Cases(g)[1].c] = 0 THEN 0 ELSE @]
  BY DEF Woken
<1>2. \/ call' = call /\ pc' = [pc EXCEPT ![g] = "lock"]
      \/ call' = [call EXCEPT ![g] = NoCall] /\ pc' = [pc EXCEPT ![g] = "idle"]
  <2>1. Cap[Cases(g)[1].c] = 0 => param[g] # 0 \/ hchan[Cases(g)[1].c].closed
    BY <1>1 DEF IndInv, ParamInv, ParamOK
  <2> QED
    BY <2>1 DEF Woken, Return, Result, Goto
<1>3. param' \in [Gs -> Nat] /\ \A x \in Gs \ {g} : param'[x] = param[x]
  BY <1>1 DEF IndInv, TypeOK
<1>4. PICK l \in {"lock", "idle"} :
        /\ pc' = [pc EXCEPT ![g] = l]
        /\ \/ call' = [call EXCEPT ![g] = NoCall] /\ l = "idle"
           \/ call' = call /\ l = "lock"
  BY <1>2
<1>5. l \in Places
  BY DEF Places
<1> QED
  BY <1>1, <1>3, <1>4, <1>5, LocalStep

\* Deliver and ReadyPeer signal the sudog claimed before.
LEMMA SignalPreserves ==
  ASSUME IndInv, NEW g \in Gs, Deliver(g) \/ ReadyPeer(g)
  PROVE  IndInv'
<1>1. TypeOK /\ CallsInv /\ LocksInv /\ WakeInv /\ CallOK(g) /\ LocksOK(g)
  BY DEF IndInv, CallsInv, LocksInv
<1>2. Waking(pc[g])
  BY DEF Deliver, ReadyPeer, Waking
<1>3. PICK sg \in Sudog :
        sg = wake[g].sg /\ WakeOK(g, sg) /\ sg.g \in Gs /\ sg.i \in Nat /\ pc[sg.g] = "parked"
  BY <1>1, <1>2, SudogFields DEF WakeInv, WakeOK
<1>4. WakeStep(g)
  <2>1. CASE Deliver(g)
    BY <1>2, <1>3, <2>1 DEF Deliver, WakeStep, Result, Goready
  <2>2. CASE ReadyPeer(g)
    BY <1>2, <1>3, <2>2 DEF ReadyPeer, WakeStep, Result, Goready
  <2> QED
    BY <2>1, <2>2
<1>5. /\ nv' = nv /\ hchan' = hchan /\ done' = done
      /\ sg.g # g /\ pc'[g] = "idle" /\ pc'[sg.g] = "woken" /\ call'[g] = NoCall
      /\ \A x \in Gs \ {g} : call'[x] = call[x]
      /\ \A x \in Gs \ {g, sg.g} : pc'[x] = pc[x]
  BY <1>1, <1>2, <1>3, <1>4 DEF Deliver, ReadyPeer, WakeStep, TypeOK, Waking
<1>6. TypeOK'
  <2>1. NoWake \in [sg: Sudog \cup {NoSg}, i: Nat] /\ NoCall \in CallType
    BY NoCallType DEF NoWake
  <2>2. pc' \in [Gs -> Places]
    BY <1>1, <1>3, <1>4 DEF WakeStep, TypeOK, Places
  <2>3. call' \in [Gs -> CallType] /\ wake' \in [Gs -> [sg: Sudog \cup {NoSg}, i: Nat]]
    BY <1>1, <1>4, <2>1 DEF WakeStep, TypeOK
  <2>4. param' \in [Gs -> Nat]
    BY <1>1, <1>3, <1>4 DEF WakeStep, TypeOK
  <2> QED
    BY <1>1, <1>5, <2>2, <2>3, <2>4 DEF TypeOK
<1>7. Frame(g)
  BY <1>3, <1>5 DEF Frame
<1>8. \A c \in Chans : hchan'[c].lock # g
  BY <1>1, <1>2, <1>5 DEF LocksOK, Held, Waking
<1>9. CallOK(g)' /\ LocksOK(g)'
  BY <1>1, <1>5, <1>7, <1>8, FreeOwn
<1> QED
  BY <1>4, <1>6, <1>7, <1>9, StepPreserves

LEMMA CallPreserves ==
  ASSUME IndInv, NEW g \in Gs, Call(g)
  PROVE  IndInv'
<1>1. TypeOK /\ CallsInv /\ LocksInv /\ CallOK(g) /\ LocksOK(g)
  BY DEF IndInv, CallsInv, LocksInv
<1>2. /\ pc[g] = "idle" /\ hchan' = hchan /\ done' = done /\ param' = param /\ wake' = wake
  BY DEF Call
<1>3. PICK s \in MayCall[g] :
        LET sends == {i \in DOMAIN s.cases : s.cases[i].dir = "send"}
            number(i) == nv + Cardinality({j \in sends : j <= i})
        IN
        /\ nv' = nv + Cardinality(sends)
        /\ call' = [call EXCEPT ![g] =
             [s EXCEPT !.cases = [i \in DOMAIN s.cases |->
                [dir |-> s.cases[i].dir, c |-> s.cases[i].c,
                 val |-> IF i \in sends THEN number(i) ELSE 0]]]]
        /\ pc' = [pc EXCEPT ![g] = IF s.sel THEN "sellock" ELSE IF s.block THEN "lock" ELSE "fast"]
  BY DEF Call, Goto
<1> DEFINE sends == {i \in DOMAIN s.cases : s.cases[i].dir = "send"}
           number(i) == nv + Cardinality({j \in sends : j <= i})
           cs == [i \in DOMAIN s.cases |->
                    [dir |-> s.cases[i].dir, c |-> s.cases[i].c,
                     val |-> IF i \in sends THEN number(i) ELSE 0]]
           l == IF s.sel THEN "sellock" ELSE IF s.block THEN "lock" ELSE "fast"
<1>4. /\ s \in [sel: BOOLEAN, block: BOOLEAN, cases: Seq([dir: Dirs \cup {"close"}, c: Chans])]
      /\ s.cases # <<>>
      /\ s.sel => \A i \in DOMAIN s.cases : s.cases[i].dir \in Dirs
      /\ ~s.sel => Len(s.cases) = 1
      /\ ~s.block => \A i \in DOMAIN s.cases : s.cases[i].dir \in Dirs
  BY <1>3, CallsAssumption
<1>5. /\ s.cases \in Seq([dir: Dirs \cup {"close"}, c: Chans])
      /\ Len(s.cases) \in Nat /\ DOMAIN s.cases = 1..Len(s.cases) /\ Len(s.cases) # 0
      /\ \A i \in DOMAIN s.cases : s.cases[i].dir \in Dirs \cup {"close"} /\ s.cases[i].c \in Chans
  <2>1. s.cases \in Seq([dir: Dirs \cup {"close"}, c: Chans])
    BY <1>4
  <2>2. /\ Len(s.cases) \in Nat /\ DOMAIN s.cases = 1..Len(s.cases)
        /\ \A i \in DOMAIN s.cases : s.cases[i] \in [dir: Dirs \cup {"close"}, c: Chans]
    BY <2>1, SeqElements
  <2>3. Len(s.cases) # 0
    BY <1>4, <2>1
  <2> QED
    BY <2>1, <2>2, <2>3
<1>6. IsFiniteSet(sends) /\ Cardinality(sends) \in Nat /\ \A i \in DOMAIN s.cases : number(i) \in Nat
  <2>1. IsFiniteSet(1..Len(s.cases))
    BY <1>5, FS_Interval
  <2>2. \A S \in SUBSET DOMAIN s.cases : IsFiniteSet(S) /\ Cardinality(S) \in Nat
    BY <1>5, <2>1, FS_Subset, FS_CardinalityType
  <2>3. sends \in SUBSET DOMAIN s.cases
    OBVIOUS
  <2> HIDE DEF sends
  <2>4. \A i \in DOMAIN s.cases : {j \in sends : j <= i} \in SUBSET DOMAIN s.cases
    BY <2>3
  <2>5. nv \in Nat
    BY <1>1 DEF TypeOK
  <2> QED
    BY <2>2, <2>3, <2>4, <2>5
<1> HIDE DEF sends, number
<1>7. /\ cs \in CaseSeqs /\ Len(cs) = Len(s.cases) /\ DOMAIN cs = DOMAIN s.cases
      /\ \A i \in DOMAIN cs : cs[i].dir = s.cases[i].dir
  <2> DEFINE v(i) == IF i \in sends THEN number(i) ELSE 0
  <2>1. \A i \in DOMAIN s.cases : v(i) \in Nat
    BY <1>6
  <2> HIDE DEF v
  <2> DEFINE e(i) == [dir |-> s.cases[i].dir, c |-> s.cases[i].c, val |-> v(i)]
  <2>2. \A i \in DOMAIN s.cases :
          e(i) \in [dir: Dirs \cup {"close"}, c: Chans, val: Nat] /\ e(i).dir = s.cases[i].dir
    BY <1>5, <2>1
  <2>3. cs = [i \in 1..Len(s.cases) |-> e(i)]
    BY <1>5 DEF v
  <2> HIDE DEF e, cs
  <2>4. cs \in Seq([dir: Dirs \cup {"close"}, c: Chans, val: Nat])
    BY <1>5, <2>2, <2>3
  <2>5. Len(cs) = Len(s.cases) /\ DOMAIN cs = 1..Len(s.cases)
    BY <1>5, <2>3
  <2> QED
    BY <1>5, <2>2, <2>3, <2>4, <2>5 DEF CaseSeqs
<1> DEFINE new == [s EXCEPT !.cases = cs]
<1>8. call' = [call EXCEPT ![g] = new] /\ pc' = [pc EXCEPT ![g] = l] /\ nv' = nv + Cardinality(sends)
  BY <1>3 DEF sends, number
<1> HIDE DEF cs
<1>9. new \in CallType /\ new.cases = cs /\ new.sel = s.sel
  BY <1>4, <1>7 DEF CallType
<1> HIDE DEF new
<1>10. TypeOK'
  <2>1. l \in Places
    BY DEF Places
  <2>2. nv' \in Nat
    BY <1>1, <1>6, <1>8 DEF TypeOK
  <2> HIDE DEF l
  <2> QED
    BY <1>1, <1>2, <1>8, <1>9, <2>1, <2>2 DEF TypeOK
<1>11. /\ pc'[g] = l /\ call'[g] = new /\ Cases(g)' = cs
       /\ \A x \in Gs \ {g} : pc'[x] = pc[x] /\ call'[x] = call[x]
  BY <1>1, <1>8, <1>9 DEF TypeOK, Cases
<1>12. Frame(g)
  BY <1>2, <1>11 DEF Frame
<1>13. CallOK(g)'
  <2>1. cs # <<>>
    BY <1>5, <1>7
  <2>2. ~s.sel => Len(cs) <= 1
    BY <1>4, <1>7
  <2>3. s.sel \/ ~s.block => \A i \in DOMAIN cs : cs[i].dir \in Dirs
    BY <1>4, <1>7
  <2>4. call'[g].sel = s.sel /\ s.sel \in BOOLEAN
    BY <1>4, <1>9, <1>11
  <2> QED
    BY <1>11, <2>1, <2>2, <2>3, <2>4 DEF CallOK, Plain, Selecting
<1>14. LocksOK(g)'
  <2>1. Held(g)' = {}
    BY <1>1, <1>2 DEF LocksOK, Held
  <2>2. 1 \in DOMAIN cs
    BY <1>5, <1>7
  <2>3. Wanted(g)' # {}
    BY <1>11, <2>2 DEF Wanted
  <2>4. ToLock(g)' # {}
    BY <2>1, <2>3 DEF ToLock
  <2> QED
    BY <2>1, <2>4 DEF LocksOK
<1>15. OwnStep(g)
  <2>1. Others(g) /\ Shrinks
    BY <1>2, <1>11, EmbedsSame DEF Others, Shrinks
  <2>2. \A c \in Chans : Closer(c)' = Closer(c)
    <3>1. \A x \in Gs : (pc'[x] = "closing" <=> pc[x] = "closing")
                      /\ (pc[x] = "closing" => call'[x] = call[x])
      BY <1>2, <1>11
    <3> QED
      BY <3>1 DEF Closer, Cases
  <2> QED
    BY <1>2, <1>11, <2>1, <2>2 DEF OwnStep, Waking
<1> QED
  BY <1>10, <1>12, <1>13, <1>14, <1>15, StepPreserves

\* The channels h when g is about to serve its case: its locks are released,
\* and some queues with nobody to signal are emptied.
Cleared(g, h) ==
  /\ HchanOK(h)
  /\ \A c \in Chans :
       /\ h[c].lock # g
       /\ h[c].lock = hchan[c].lock \/ (hchan[c].lock = g /\ h[c].lock = NoG)
       /\ h[c].closed = hchan[c].closed
  /\ \A c \in Chans, d \in Dirs : h[c].q[d] = hchan[c].q[d] \/ h[c].q[d] = <<>>

LEMMA RestType ==
  ASSUME NEW q \in Seq(Sudog)
  PROVE  dequeue(q).rest \in Seq(Sudog)
<1>1. CASE dequeue(q).sg = NoSg
  <2>1. dequeue(q).rest = <<>>
    BY <1>1, DequeueNone
  <2> QED
    BY <2>1
<1>2. CASE dequeue(q).sg # NoSg
  BY <1>2, DequeueSome, EmbedsRest
<1> QED
  BY <1>1, <1>2

\* g leaves its critical section having claimed a sudog, or returns.
LEMMA ServedPreserves ==
  ASSUME IndInv, NEW g \in Gs, pc[g] \in {"lock", "pass1"}, NEW h, Cleared(g, h),
         NEW i \in DOMAIN Cases(g), Cases(g)[i].dir \in Dirs,
         \A j \in DOMAIN Cases(g) : Cases(g)[j].dir \in Dirs,
         Rendezvous(g, i, h) \/ Buffered(g, i, h)
  PROVE  IndInv'
<1>1. TypeOK /\ CallsInv /\ LocksInv /\ OnceInv /\ CallOK(g) /\ LocksOK(g)
  BY DEF IndInv, CallsInv, LocksInv
<1>2. PICK k : k = Cases(g)[i]
  OBVIOUS
<1>3. PICK c \in Chans : c = k.c
  BY <1>1, <1>2, CaseTypes
<1>4. PICK d \in Dirs : d = Other(k.dir)
  BY DEF Other, Dirs
<1>5. k.val \in Nat /\ Peer(h, k) = dequeue(h[c].q[d])
  BY <1>1, <1>2, <1>3, <1>4, CaseTypes DEF Peer
<1>6. h[c].q[d] \in Seq(Sudog) /\ HchanOK(h)
  BY DEF Cleared, HchanOK, Hchan, Queues
<1> DEFINE D == dequeue(h[c].q[d])
<1>7. D.rest \in Seq(Sudog)
  BY <1>6, RestType
<1> HIDE DEF D
<1>8. PICK h1 :
        /\ hchan' = [h1 EXCEPT ![c].q[d] = D.rest]
        /\ HchanOK(h1) /\ SameLocks(h1, h) /\ \A c2 \in Chans : h1[c2].q = h[c2].q
  <2>1. CASE Rendezvous(g, i, h)
    <3>1. hchan' = [h EXCEPT ![c].q[d] = D.rest]
      BY <2>1, <1>2, <1>3, <1>4, <1>5 DEF Rendezvous, D
    <3> QED
      BY <3>1, <1>6 DEF SameLocks
  <2>2. CASE Buffered(g, i, h)
    <3>1. PICK h2 : h2 = IF k.dir = "send" THEN SendBuf(h, k) ELSE RecvBuf(h, k)
      OBVIOUS
    <3>2. hchan' = [h2 EXCEPT ![c].q[d] = D.rest] /\ Cap[k.c] > 0 /\ Room(h, k)
      BY <2>2, <1>2, <1>3, <1>4, <1>5, <3>1 DEF Buffered, D
    <3>3. HchanOK(h2) /\ SameLocks(h2, h) /\ \A c2 \in Chans : h2[c2].q = h[c2].q
      BY <1>3, <1>5, <1>6, <3>1, <3>2, BufUpdate
    <3> QED
      BY <3>2, <3>3
  <2> QED
    BY <2>1, <2>2
<1>9. /\ HchanOK(hchan') /\ SameLocks(hchan', h1)
      /\ \A c2 \in Chans, d2 \in Dirs :
           hchan'[c2].q[d2] = IF c2 = c /\ d2 = d THEN D.rest ELSE h1[c2].q[d2]
  <2>1. PICK s \in Seq(Sudog) : s = D.rest
    BY <1>7
  <2>2. PICK h2 : h2 = hchan'
    OBVIOUS
  <2>3. h2 = SetQueue(h1, c, d, s) /\ HchanOK(h1)
    BY <1>8, <2>1, <2>2 DEF SetQueue
  <2>4. Requeued(h2, h1, c, d, s)
    BY <2>3, QueueUpdate
  <2> QED
    BY <2>1, <2>2, <2>4 DEF Requeued
<1>10. /\ \A c2 \in Chans, d2 \in Dirs :
            hchan'[c2].q[d2] = IF c2 = c /\ d2 = d THEN D.rest ELSE h[c2].q[d2]
       /\ SameLocks(hchan', h)
  BY <1>8, <1>9 DEF SameLocks
<1>11. \A c2 \in Chans :
         /\ hchan'[c2].lock # g /\ hchan'[c2].closed = hchan[c2].closed
         /\ \/ hchan'[c2].lock = hchan[c2].lock
            \/ hchan[c2].lock = g /\ hchan'[c2].lock = NoG
  BY <1>10 DEF SameLocks, Cleared
<1>12. /\ Shrinks
       /\ D.sg # NoSg => \E sg \in Sudog :
            /\ sg = D.sg /\ OnQueue(c, d, sg) /\ Unsignalled(sg)
            /\ ~call[sg.g].sel => ~InQueue(c, d, sg.g)'
  BY <1>1, <1>6, <1>10, PeerTaken DEF Cleared, D
<1>13. /\ Claim(D.sg) /\ param' = param /\ nv' = nv
       /\ \/ /\ D.sg # NoSg /\ call' = call
             /\ wake' = [wake EXCEPT ![g] = [sg |-> D.sg, i |-> i]]
             /\ pc' = [pc EXCEPT ![g] = IF Cap[c] = 0 THEN "deliver" ELSE "ready"]
          \/ /\ D.sg = NoSg /\ call' = [call EXCEPT ![g] = NoCall]
             /\ wake' = wake
             /\ pc' = [pc EXCEPT ![g] = "idle"]
  <2>1. CASE Rendezvous(g, i, h)
    BY <2>1, <1>2, <1>3, <1>4, <1>5 DEF Rendezvous, D, Goto
  <2>2. CASE Buffered(g, i, h)
    <3>1. Cap[c] # 0
      BY <2>2, <1>2, <1>3, ChanAssumption DEF Buffered
    <3>2. Claim(D.sg) /\ param' = param /\ nv' = nv
      BY <2>2, <1>2, <1>5 DEF Buffered, D
    <3>3. CASE D.sg = NoSg
      BY <2>2, <1>2, <1>5, <3>2, <3>3 DEF Buffered, Return, Result, D, Goto
    <3>4. CASE D.sg # NoSg
      BY <2>2, <1>2, <1>5, <3>1, <3>2, <3>4 DEF Buffered, D, Goto
    <3> QED
      BY <3>3, <3>4
  <2> QED
    BY <2>1, <2>2
<1>14. done' \in [Gs -> {0, 1}]
  BY <1>1, <1>13 DEF Claim, TypeOK
<1>15. i \in Nat
  BY <1>1, CaseTypes
<1>16. CASE D.sg # NoSg
  <2>1. PICK sg \in Sudog :
          /\ sg = D.sg /\ OnQueue(c, d, sg) /\ Unsignalled(sg)
          /\ ~call[sg.g].sel => ~InQueue(c, d, sg.g)'
    BY <1>12, <1>16
  <2>2. /\ call' = call /\ wake' = [wake EXCEPT ![g] = [sg |-> sg, i |-> i]] /\ Claim(sg)
        /\ pc' = [pc EXCEPT ![g] = IF Cap[c] = 0 THEN "deliver" ELSE "ready"]
    BY <1>13, <1>16, <2>1
  <2>3. ClaimStep(g, c, d, sg, i)
    BY <1>11, <1>12, <1>13, <2>1, <2>2 DEF ClaimStep, Takes, SameClosed
  <2>4. TypeOK'
    <3>1. [sg |-> sg, i |-> i] \in [sg: Sudog \cup {NoSg}, i: Nat]
      BY <1>15
    <3>2. wake' \in [Gs -> [sg: Sudog \cup {NoSg}, i: Nat]]
      BY <1>1, <2>2, <3>1 DEF TypeOK
    <3>3. pc' \in [Gs -> Places]
      BY <1>1, <2>2 DEF TypeOK, Places
    <3> QED
      BY <1>1, <1>9, <1>13, <1>14, <2>2, <3>2, <3>3 DEF TypeOK
  <2>5. /\ pc'[g] \in {"deliver", "ready"} /\ call'[g] = call[g]
        /\ \A x \in Gs \ {g} : pc'[x] = pc[x] /\ call'[x] = call[x]
    BY <1>1, <2>2 DEF TypeOK
  <2>6. Frame(g)
    BY <1>11, <2>5 DEF Frame
  <2>7. CallOK(g)' /\ LocksOK(g)'
    BY <1>1, <1>11, <2>5, <2>6, FreeOwn DEF Plain
  <2> QED
    BY <2>3, <2>4, <2>6, <2>7, StepPreserves
<1>17. CASE D.sg = NoSg
  <2>1. /\ call' = [call EXCEPT ![g] = NoCall] /\ wake' = wake /\ pc' = [pc EXCEPT ![g] = "idle"]
    BY <1>13, <1>17
  <2>2. done' = done
    <3>1. \A x \in Gs : done'[x] = done[x]
      BY <1>13, <1>17, ChanAssumption DEF Claim, NoSg
    <3> QED
      BY <1>1, <1>14, <3>1 DEF TypeOK
  <2>3. TypeOK'
    BY <1>1, <1>9, <1>13, <2>1, <2>2, NoCallType DEF TypeOK, Places
  <2>4. /\ pc'[g] = "idle" /\ call'[g] = NoCall
        /\ \A x \in Gs \ {g} : pc'[x] = pc[x] /\ call'[x] = call[x]
    BY <1>1, <2>1 DEF TypeOK
  <2>5. Frame(g)
    BY <1>11, <2>4 DEF Frame
  <2>6. CallOK(g)' /\ LocksOK(g)'
    BY <1>1, <1>11, <2>4, <2>5, FreeOwn
  <2>7. OwnStep(g)
    <3>1. Others(g) /\ Shrinks
      BY <1>12, <1>13, <2>1, <2>2, <2>4 DEF Others
    <3>2. \A c2 \in Chans : Closer(c2)' = Closer(c2)
      <4>1. \A x \in Gs : (pc'[x] = "closing" <=> pc[x] = "closing")
                        /\ (pc[x] = "closing" => call'[x] = call[x])
        BY <2>4
      <4> QED
        BY <4>1 DEF Closer, Cases
    <3> QED
      BY <1>11, <2>4, <3>1, <3>2 DEF OwnStep, Waking
  <2> QED
    BY <2>3, <2>5, <2>6, <2>7, StepPreserves
<1> QED
  BY <1>16, <1>17

\* g has released the locks it held.
Unlocks(g) ==
  /\ HchanOK(hchan')
  /\ \A c \in Chans :
       /\ hchan'[c].lock # g
       /\ hchan'[c].lock = hchan[c].lock \/ (hchan[c].lock = g /\ hchan'[c].lock = NoG)
       /\ hchan'[c].closed = hchan[c].closed

LEMMA ClearedUnlocks ==
  ASSUME NEW g \in Gs, Cleared(g, hchan')
  PROVE  Unlocks(g) /\ Shrinks
<1>1. Unlocks(g)
  BY DEF Cleared, Unlocks
<1>2. Shrinks
  BY EmbedsSame, EmbedsEmpty DEF Cleared, Shrinks
<1> QED
  BY <1>1, <1>2

\* g returns from its critical section without signalling anybody.
LEMMA ReturnPreserves ==
  ASSUME IndInv, NEW g \in Gs, pc[g] \in {"lock", "pass1", "pass3", "closing"},
         Unlocks(g), Shrinks,
         pc[g] = "pass3" => \A c \in Chans, d \in Dirs : ~InQueue(c, d, g)',
         pc[g] = "closing" => /\ Waiters(Cases(g)[1].c, "recv") = {}
                              /\ Waiters(Cases(g)[1].c, "send") = {},
         pc' = [pc EXCEPT ![g] = "idle"], call' = [call EXCEPT ![g] = NoCall],
         wake' = wake, nv' = nv, param' \in [Gs -> Nat], done' \in [Gs -> {0, 1}],
         \A x \in Gs \ {g} : param'[x] = param[x] /\ done'[x] = done[x]
  PROVE  IndInv'
<1>1. TypeOK /\ CallsInv /\ LocksInv
  BY DEF IndInv
<1>2. TypeOK'
  BY <1>1, NoCallType DEF TypeOK, Unlocks, Places
<1>3. /\ pc'[g] = "idle" /\ call'[g] = NoCall
      /\ \A x \in Gs \ {g} : pc'[x] = pc[x] /\ call'[x] = call[x]
  BY <1>1 DEF TypeOK
<1>4. Frame(g)
  BY <1>3 DEF Frame, Unlocks
<1>5. CallOK(g)' /\ LocksOK(g)'
  BY <1>1, <1>3, <1>4, FreeOwn DEF Unlocks
<1>6. OwnStep(g)
  <2>1. Others(g)
    BY <1>3 DEF Others
  <2>2. ASSUME NEW c \in Chans, hchan'[c].closed, ~Closer(c)'
        PROVE  \/ hchan[c].closed /\ ~Closer(c)
               \/ Waiters(c, "recv") = {} /\ Waiters(c, "send") = {}
    <3>1. hchan[c].closed
      BY <2>2 DEF Unlocks
    <3>2. CASE pc[g] = "closing" /\ Cases(g)[1].c = c
      BY <3>2
    <3>3. CASE ~(pc[g] = "closing" /\ Cases(g)[1].c = c)
      <4>1. ASSUME NEW x \in Gs, pc[x] = "closing", Cases(x)[1].c = c PROVE FALSE
        <5>1. x # g
          BY <3>3, <4>1
        <5>2. pc'[x] = "closing" /\ Cases(x)' = Cases(x)
          BY <1>3, <4>1, <5>1 DEF Cases
        <5> QED
          BY <2>2, <4>1, <5>2 DEF Closer
      <4> QED
        BY <3>1, <4>1 DEF Closer
    <3> QED
      BY <3>2, <3>3
  <2>3. \A c \in Chans : hchan[c].closed => hchan'[c].closed
    BY DEF Unlocks
  <2> QED
    BY <1>3, <2>1, <2>2, <2>3 DEF OwnStep, Waking
<1> QED
  BY <1>2, <1>4, <1>5, <1>6, StepPreserves

\* g joins queues and parks, which releases its locks.
LEMMA ParkingPreserves ==
  ASSUME IndInv, NEW g \in Gs, ParkStep(g), Unlocks(g), nv' = nv, param' \in [Gs -> Nat],
         \A i \in DOMAIN Cases(g) : Cases(g)[i].dir \in Dirs
  PROVE  IndInv'
<1>1. TypeOK /\ CallsInv /\ LocksInv
  BY DEF IndInv
<1>2. TypeOK'
  <2>1. pc' \in [Gs -> Places] /\ done' \in [Gs -> {0, 1}]
    BY <1>1 DEF TypeOK, ParkStep, Places
  <2> QED
    BY <1>1, <2>1 DEF TypeOK, ParkStep, Unlocks
<1>3. /\ pc'[g] = "parked" /\ pc[g] # "idle" /\ call'[g] = call[g]
      /\ \A x \in Gs \ {g} : pc'[x] = pc[x] /\ call'[x] = call[x]
  BY <1>1 DEF TypeOK, ParkStep
<1>4. Frame(g)
  BY <1>3 DEF Frame, Unlocks
<1>5. CallOK(g)' /\ LocksOK(g)'
  BY <1>1, <1>3, <1>4, FreeOwn DEF Unlocks, Plain
<1> QED
  BY <1>2, <1>4, <1>5, StepPreserves

\* The case of a plain send or receive, which holds no lock.
LEMMA PlainCase ==
  ASSUME IndInv, NEW g \in Gs, pc[g] = "lock"
  PROVE  /\ ~call[g].sel /\ DOMAIN Cases(g) = {1} /\ Cleared(g, hchan)
         /\ Cases(g)[1].c \in Chans
<1>1. TypeOK /\ CallOK(g) /\ LocksOK(g)
  BY DEF IndInv, CallsInv, LocksInv
<1>2. ~call[g].sel /\ Cases(g) # <<>> /\ Len(Cases(g)) <= 1
  BY <1>1 DEF CallOK, Plain
<1>3. DOMAIN Cases(g) = {1}
  <2>1. Len(Cases(g)) \in Nat /\ DOMAIN Cases(g) = 1..Len(Cases(g)) /\ 1 \in DOMAIN Cases(g)
    BY <1>1, <1>2, CaseTypes
  <2> QED
    BY <1>2, <2>1
<1>4. Cleared(g, hchan)
  BY <1>1 DEF Cleared, LocksOK, Held, TypeOK
<1> QED
  BY <1>1, <1>2, <1>3, <1>4, CaseTypes

LEMMA PlainServedPreserves ==
  ASSUME IndInv, NEW g \in Gs, Served(g)
  PROVE  IndInv'
<1>1. pc[g] = "lock" /\ Cases(g)[1].dir \in Dirs
  BY DEF Served, AtLock, Dirs
<1>2. DOMAIN Cases(g) = {1} /\ Cleared(g, hchan)
  BY <1>1, PlainCase
<1>3. Rendezvous(g, 1, hchan) \/ Buffered(g, 1, hchan)
  BY DEF Served
<1> QED
  BY <1>1, <1>2, <1>3, ServedPreserves

LEMMA SmallSeqs ==
  /\ <<>> \in Seq(Sudog) /\ Len(<<>>) = 0 /\ DOMAIN <<>> = {}
  /\ \A sg \in Sudog :
       <<sg>> \in Seq(Sudog) /\ Len(<<sg>>) = 1 /\ DOMAIN <<sg>> = {1} /\ <<sg>>[1] = sg
OBVIOUS

\* Sudogs for cases of g, and a queue without any.
SudogsOf(s, g, c, dir) ==
  /\ s \in Seq(Sudog)
  /\ \A j \in DOMAIN s : /\ s[j].g = g /\ s[j].i \in DOMAIN Cases(g)
                         /\ Cases(g)[s[j].i].c = c /\ Cases(g)[s[j].i].dir = dir
  /\ ~call[g].sel => Len(s) <= 1

NoneOf(q, g) == q \in Seq(Sudog) /\ \A j \in DOMAIN q : q[j].g # g

\* A queue, or an empty one, with sudogs of g behind it.
LEMMA JoinsConcat ==
  ASSUME NEW g \in Gs, NEW c, NEW dir, NEW q, NoneOf(q, g), NEW q0, q0 = q \/ q0 = <<>>,
         NEW s, SudogsOf(s, g, c, dir)
  PROVE  q0 \o s \in Seq(Sudog) /\ Joins(q0 \o s, q, g, c, dir)
<1> USE DEF NoneOf, SudogsOf
<1>1. q0 \in Seq(Sudog)
  BY SmallSeqs
<1>2. PICK p : p = q0 \o s
  OBVIOUS
<1>3. /\ p \in Seq(Sudog) /\ Len(p) = Len(q0) + Len(s) /\ Len(q0) \in Nat /\ Len(s) \in Nat
      /\ DOMAIN p = 1..Len(q0) + Len(s) /\ DOMAIN s = 1..Len(s) /\ DOMAIN q0 = 1..Len(q0)
      /\ \A j \in 1..Len(q0) : p[j] = q0[j]
      /\ \A j \in DOMAIN p : j > Len(q0) => j - Len(q0) \in DOMAIN s /\ p[j] = s[j - Len(q0)]
  BY <1>1, <1>2
<1>4. \A j \in DOMAIN p : j <= Len(q0) => j \in DOMAIN q /\ p[j] = q[j] /\ p[j].g # g
  <2> SUFFICES ASSUME NEW j \in DOMAIN p, j <= Len(q0)
               PROVE  j \in DOMAIN q /\ p[j] = q[j] /\ p[j].g # g
    OBVIOUS
  <2>1. j \in 1..Len(q0)
    BY <1>3
  <2>2. q0 = q
    BY <1>3, <2>1
  <2> QED
    BY <1>3, <2>1, <2>2
<1> DEFINE f == [j \in DOMAIN p |-> j]
<1>5. f \in [DOMAIN p -> Nat]
  BY <1>3
<1>6. \A j \in DOMAIN p :
        \/ /\ p[j].g = g /\ p[j].i \in DOMAIN Cases(g)
           /\ Cases(g)[p[j].i].c = c /\ Cases(g)[p[j].i].dir = dir
        \/ f[j] \in DOMAIN q /\ p[j] = q[f[j]]
  BY <1>3, <1>4
<1>7. \A j, k \in DOMAIN p : f[j] = f[k] => j = k
  OBVIOUS
<1>8. ~call[g].sel => \A j, k \in DOMAIN p : p[j].g = g /\ p[k].g = g => j = k
  BY <1>3, <1>4
<1> HIDE DEF f
<1>9. Joins(p, q, g, c, dir)
  BY <1>5, <1>6, <1>7, <1>8 DEF Joins
<1> QED
  BY <1>2, <1>3, <1>9

\* A case that cannot be served on a synchronous channel has nobody to meet.
LEMMA NoPeer ==
  ASSUME TypeOK, NEW k, k.c \in Chans, k.dir \in Dirs, Cap[k.c] = 0, ~Able(hchan, k)
  PROVE  Waiters(k.c, Other(k.dir)) = {}
<1>1. PICK d \in Dirs : d = Other(k.dir)
  BY DEF Other, Dirs
<1>2. PICK q \in Seq(Sudog) : q = hchan[k.c].q[d]
  BY DEF TypeOK, HchanOK, Hchan, Queues
<1>3. dequeue(q).sg = NoSg
  BY <1>1, <1>2 DEF Able, Peer
<1>4. \A j \in DOMAIN q : ~Unsignalled(q[j])
  BY <1>3, DequeueNone
<1> QED
  BY <1>1, <1>2, <1>4 DEF Waiters

\* The queues hold no sudog of a goroutine that is not waiting.
LEMMA NotOnQueues ==
  ASSUME TypeOK, QueuedInv, NEW g \in Gs, pc[g] \notin {"parked", "woken", "pass3"},
         NEW c \in Chans, NEW d \in Dirs
  PROVE  NoneOf(hchan[c].q[d], g)
<1>1. PICK q \in Seq(Sudog) : q = hchan[c].q[d]
  BY DEF TypeOK, HchanOK, Hchan, Queues
<1>2. \A j \in DOMAIN q : q[j] \in Sudog /\ OnQueue(c, d, q[j])
  BY <1>1, SeqElements DEF OnQueue
<1>3. ~InQueue(c, d, g)
  BY NotQueued
<1> QED
  BY <1>1, <1>2, <1>3 DEF InQueue, NoneOf

\* The queue that Passed empties.
LEMMA PassedCleared ==
  ASSUME IndInv, NEW g \in Gs, Cleared(g, hchan), NEW k, k.c \in Chans, k.dir \in Dirs,
         NEW h, h = Passed(hchan, k)
  PROVE  Cleared(g, h)
<1>1. PICK d \in Dirs : d = Other(k.dir)
  BY DEF Other, Dirs
<1>2. CASE Cap[k.c] = 0
  <2>1. PICK s \in Seq(Sudog) : s = <<>>
    BY SmallSeqs
  <2>2. h = SetQueue(hchan, k.c, d, s)
    BY <1>1, <1>2, <2>1 DEF Passed, SetQueue
  <2>3. Requeued(h, hchan, k.c, d, s)
    BY <2>2, QueueUpdate DEF Cleared
  <2> QED
    BY <2>1, <2>3 DEF Requeued, Cleared, SameLocks
<1>3. CASE Cap[k.c] # 0
  BY <1>3 DEF Passed
<1> QED
  BY <1>2, <1>3

LEMMA NotServedPreserves ==
  ASSUME IndInv, NEW g \in Gs, NotServed(g)
  PROVE  IndInv'
<1>1. PICK k : k = Cases(g)[1]
  OBVIOUS
<1>2. /\ pc[g] = "lock" /\ k.dir \in Dirs /\ ~hchan[k.c].closed /\ ~Able(hchan, k)
      /\ done' = done /\ wake' = wake /\ nv' = nv
  BY <1>1 DEF NotServed, AtLock, Dirs
<1>3. /\ ~call[g].sel /\ DOMAIN Cases(g) = {1} /\ Cleared(g, hchan) /\ k.c \in Chans
      /\ TypeOK /\ QueuedInv
  BY <1>1, <1>2, PlainCase DEF IndInv
<1>4. PICK h : h = Passed(hchan, k)
  OBVIOUS
<1>5. Cleared(g, h)
  BY <1>2, <1>3, <1>4, PassedCleared
<1>6. CASE ~call[g].block
  <2>1. hchan' = h /\ param' = param /\ pc' = [pc EXCEPT ![g] = "idle"]
        /\ call' = [call EXCEPT ![g] = NoCall]
    BY <1>1, <1>4, <1>6 DEF NotServed, Return, Result, Goto
  <2>2. Unlocks(g) /\ Shrinks
    BY <1>5, <2>1, ClearedUnlocks
  <2>3. param' \in [Gs -> Nat] /\ done' \in [Gs -> {0, 1}]
    BY <1>2, <1>3, <2>1 DEF TypeOK
  <2> QED
    BY <1>2, <2>1, <2>2, <2>3, ReturnPreserves
<1>7. CASE call[g].block
  <2>1. PICK sg : sg = [g |-> g, i |-> 1]
    OBVIOUS
  <2>2. sg \in Sudog /\ sg.g = g /\ sg.i = 1
    BY <2>1 DEF Sudog
  <2>3. SudogsOf(<<sg>>, g, k.c, k.dir)
    BY <1>1, <1>3, <2>2, SmallSeqs DEF SudogsOf
  <2>4. PICK q0 : q0 = h[k.c].q[k.dir] /\ (q0 = hchan[k.c].q[k.dir] \/ q0 = <<>>)
    BY <1>2, <1>3, <1>5 DEF Cleared
  <2>5. /\ hchan' = enqueue(h, k, sg) /\ pc' = [pc EXCEPT ![g] = "parked"]
        /\ param' = [param EXCEPT ![g] = IF Cap[k.c] = 0 THEN 0 ELSE @] /\ call' = call
    BY <1>1, <1>4, <1>7, <2>1 DEF NotServed, Goto
  <2>6. NoneOf(hchan[k.c].q[k.dir], g)
    BY <1>2, <1>3, NotOnQueues
  <2>7. PICK p \in Seq(Sudog) :
          p = q0 \o <<sg>> /\ Joins(p, hchan[k.c].q[k.dir], g, k.c, k.dir)
    BY <2>3, <2>4, <2>6, JoinsConcat
  <2>8. hchan' = SetQueue(h, k.c, k.dir, p)
    <3>1. q0 \in Seq(Sudog)
      BY <2>4, <2>6, SmallSeqs DEF NoneOf
    <3>2. p = Append(q0, sg)
      BY <2>2, <2>7, <3>1
    <3> QED
      BY <2>4, <2>5, <3>2 DEF enqueue, SetQueue
  <2>9. Requeued(SetQueue(h, k.c, k.dir, p), h, k.c, k.dir, p)
    BY <1>2, <1>3, <1>5, QueueUpdate DEF Cleared
  <2>10. /\ HchanOK(hchan')
         /\ \A c \in Chans : hchan'[c].lock = h[c].lock /\ hchan'[c].closed = h[c].closed
         /\ \A c \in Chans, d \in Dirs :
              hchan'[c].q[d] = IF c = k.c /\ d = k.dir THEN p ELSE h[c].q[d]
    BY <2>8, <2>9 DEF Requeued, SameLocks
  <2>11. Unlocks(g) /\ SameClosed
    BY <1>5, <2>10 DEF Cleared, Unlocks, SameClosed
  <2>12. ASSUME NEW c \in Chans, NEW d \in Dirs
         PROVE  Joins(hchan'[c].q[d], hchan[c].q[d], g, c, d)
    <3>1. CASE c = k.c /\ d = k.dir
      BY <2>7, <2>10, <3>1
    <3>2. CASE ~(c = k.c /\ d = k.dir)
      <4>1. NoneOf(hchan[c].q[d], g)
        BY <1>2, <1>3, NotOnQueues
      <4>2. SudogsOf(<<>>, g, c, d)
        BY SmallSeqs DEF SudogsOf
      <4>3. PICK r : r = h[c].q[d] /\ (r = hchan[c].q[d] \/ r = <<>>)
        BY <1>5 DEF Cleared
      <4>4. Joins(r \o <<>>, hchan[c].q[d], g, c, d)
        BY <4>1, <4>2, <4>3, JoinsConcat
      <4>5. r \in Seq(Sudog)
        BY <4>1, <4>3, SmallSeqs DEF NoneOf
      <4>6. r \o <<>> = r
        BY <4>5
      <4> QED
        BY <2>10, <3>2, <4>3, <4>4, <4>6
    <3> QED
      BY <3>1, <3>2
  <2>13. /\ param' \in [Gs -> Nat] /\ \A x \in Gs \ {g} : param'[x] = param[x]
    BY <1>3, <2>5 DEF TypeOK
  <2>14. Cap[k.c] = 0 => Waiters(k.c, Other(k.dir)) = {}
    BY <1>2, <1>3, NoPeer
  <2>15. ParkStep(g)
    BY <1>1, <1>2, <1>3, <2>5, <2>11, <2>12, <2>13, <2>14 DEF ParkStep
  <2> QED
    BY <1>1, <1>2, <1>3, <2>11, <2>13, <2>15, ParkingPreserves
<1> QED
  BY <1>6, <1>7

LEMMA ClosechanPreserves ==
  ASSUME IndInv, NEW g \in Gs, Closechan(g)
  PROVE  IndInv'
<1>1. PICK c : c = Cases(g)[1].c
  OBVIOUS
<1>2. /\ pc[g] = "lock" /\ hchan[c].lock = NoG
      /\ done' = done /\ param' = param /\ wake' = wake /\ nv' = nv
  BY <1>1 DEF Closechan, AtLock
<1>3. ~call[g].sel /\ DOMAIN Cases(g) = {1} /\ Cleared(g, hchan) /\ c \in Chans
  BY <1>1, <1>2, PlainCase
<1>4. TypeOK /\ CallOK(g) /\ LocksOK(g)
  BY DEF IndInv, CallsInv, LocksInv
<1>5. CASE hchan[c].closed
  <2>1. /\ hchan' = hchan /\ call' = [call EXCEPT ![g] = NoCall] /\ pc' = [pc EXCEPT ![g] = "idle"]
    BY <1>1, <1>5 DEF Closechan, Return, Result, Goto
  <2>2. param' \in [Gs -> Nat] /\ "idle" \in Places
    BY <1>2, <1>4 DEF TypeOK, Places
  <2> QED
    BY <1>2, <1>3, <2>1, <2>2, LocalStep
<1>6. CASE ~hchan[c].closed
  <2>1. /\ hchan' = [hchan EXCEPT ![c].closed = TRUE, ![c].lock = g] /\ call' = call
        /\ pc' = [pc EXCEPT ![g] = "closing"]
    BY <1>1, <1>6 DEF Closechan, Goto
  <2>2. PICK h2 : h2 = hchan'
    OBVIOUS
  <2>3. /\ HchanOK(h2) /\ h2[c].lock = g /\ h2[c].closed
        /\ \A c2 \in Chans : h2[c2].q = hchan[c2].q
        /\ \A c2 \in Chans \ {c} : h2[c2] = hchan[c2]
    <3>1. HchanOK(hchan) /\ g \in Gs \cup {NoG} /\ TRUE \in BOOLEAN
      BY <1>4 DEF TypeOK
    <3>2. h2 = SetLock(hchan, c, TRUE, g)
      BY <2>1, <2>2 DEF SetLock
    <3>3. Relocked(h2, hchan, c, TRUE, g)
      BY <1>3, <3>1, <3>2, LockUpdate
    <3> QED
      BY <3>3 DEF Relocked
  <2>4. TypeOK'
    <3>1. pc' \in [Gs -> Places]
      BY <1>4, <2>1 DEF TypeOK, Places
    <3> QED
      BY <1>2, <1>4, <2>1, <2>2, <2>3, <3>1 DEF TypeOK
  <2>5. /\ pc'[g] = "closing" /\ \A x \in Gs \ {g} : pc'[x] = pc[x]
    BY <1>4, <2>1 DEF TypeOK
  <2>6. Frame(g)
    BY <1>2, <2>1, <2>2, <2>3, <2>5 DEF Frame
  <2>7. CallOK(g)'
    BY <1>1, <1>3, <1>4, <2>1, <2>2, <2>3, <2>5, <1>2 DEF CallOK, Plain, Selecting, Cases
  <2>8. LocksOK(g)'
    <3>1. Held(g) = {}
      BY <1>2, <1>4 DEF LocksOK
    <3>2. Held(g)' \subseteq {c}
      BY <2>2, <2>3, <3>1 DEF Held
    <3>3. c \in Wanted(g)'
      BY <1>1, <1>3, <2>1 DEF Wanted, Cases
    <3> QED
      BY <2>5, <3>2, <3>3 DEF LocksOK
  <2>9. OwnStep(g)
    <3>1. Others(g) /\ Shrinks
      BY <1>2, <2>1, <2>2, <2>3, <2>5, EmbedsSame DEF Others, Shrinks
    <3>2. Closer(c)'
      BY <1>1, <2>1, <2>5 DEF Closer, Cases
    <3>3. \A c2 \in Chans \ {c} : Closer(c2)' = Closer(c2)
      <4>1. \A x \in Gs : \/ (pc'[x] = "closing" <=> pc[x] = "closing") /\ Cases(x)' = Cases(x)
                          \/ x = g /\ pc[x] # "closing" /\ Cases(x)'[1].c = c
        BY <1>1, <1>2, <2>1, <2>5 DEF Cases
      <4> QED
        BY <4>1 DEF Closer
    <3> QED
      BY <1>2, <1>6, <2>2, <2>3, <2>5, <3>1, <3>2, <3>3 DEF OwnStep, Waking
  <2> QED
    BY <2>4, <2>6, <2>7, <2>8, <2>9, StepPreserves
<1> QED
  BY <1>5, <1>6

\* A closing goroutine holds the lock of its channel and no other.
LEMMA ClosingCase ==
  ASSUME IndInv, NEW g \in Gs, pc[g] = "closing"
  PROVE  /\ ~call[g].sel /\ Cases(g)[1].c \in Chans
         /\ hchan[Cases(g)[1].c].lock = g /\ hchan[Cases(g)[1].c].closed
         /\ \A c \in Chans : hchan[c].lock = g => c = Cases(g)[1].c
<1>1. TypeOK /\ CallOK(g) /\ LocksOK(g)
  BY DEF IndInv, CallsInv, LocksInv
<1>2. ~call[g].sel /\ Cases(g) # <<>> /\ Len(Cases(g)) <= 1
  BY <1>1 DEF CallOK, Plain
<1>3. /\ Len(Cases(g)) \in Nat /\ DOMAIN Cases(g) = 1..Len(Cases(g)) /\ 1 \in DOMAIN Cases(g)
      /\ Cases(g)[1].c \in Chans
  BY <1>1, <1>2, CaseTypes
<1>4. DOMAIN Cases(g) = {1}
  BY <1>2, <1>3
<1>5. \A c \in Chans : hchan[c].lock = g => c = Cases(g)[1].c
  BY <1>1, <1>4 DEF LocksOK, Held, Wanted
<1> QED
  BY <1>1, <1>2, <1>3, <1>5 DEF CallOK

LEMMA CloseReleasePreserves ==
  ASSUME IndInv, NEW g \in Gs, CloseRelease(g)
  PROVE  IndInv'
<1>1. TypeOK /\ CallsInv /\ LocksInv /\ QueuedInv /\ OnceInv /\ WakeInv /\ CallOK(g) /\ LocksOK(g)
  BY DEF IndInv, CallsInv, LocksInv
<1>2. pc[g] = "closing" /\ wake' = wake /\ nv' = nv
  BY DEF CloseRelease
<1>3. PICK c \in Chans :
        /\ c = Cases(g)[1].c /\ hchan[c].lock = g /\ hchan[c].closed
        /\ \A c2 \in Chans : hchan[c2].lock = g => c2 = c
  BY <1>2, ClosingCase
<1>4. PICK dir \in Dirs : dir = IF dequeue(hchan[c].q["recv"]).sg # NoSg THEN "recv" ELSE "send"
  BY DEF Dirs
<1>5. hchan[c].q[dir] \in Seq(Sudog) /\ hchan[c].q["recv"] \in Seq(Sudog) /\ HchanOK(hchan)
  BY <1>1 DEF TypeOK, HchanOK, Hchan, Queues, Dirs
<1>6. PICK h : h = IF dir = "send" THEN [hchan EXCEPT ![c].q.recv = <<>>] ELSE hchan
  OBVIOUS
<1>7. /\ HchanOK(h) /\ SameLocks(h, hchan) /\ h[c].q[dir] = hchan[c].q[dir]
      /\ \A c2 \in Chans, d \in Dirs : h[c2].q[d] = hchan[c2].q[d] \/ h[c2].q[d] = <<>>
  <2>1. CASE dir = "recv"
    BY <1>5, <1>6, <2>1 DEF SameLocks
  <2>2. CASE dir = "send"
    <3>1. PICK d \in Dirs : d = "recv"
      BY DEF Dirs
    <3>2. PICK s \in Seq(Sudog) : s = <<>>
      BY SmallSeqs
    <3>3. h = SetQueue(hchan, c, d, s)
      BY <1>6, <2>2, <3>1, <3>2 DEF SetQueue
    <3>4. Requeued(h, hchan, c, d, s)
      BY <1>5, <3>3, QueueUpdate
    <3> QED
      BY <2>2, <3>1, <3>2, <3>4 DEF Requeued
  <2> QED
    BY <2>1, <2>2 DEF Dirs
<1> DEFINE p == dequeue(hchan[c].q[dir])
<1>8. /\ Claim(p.sg)
      /\ p.sg # NoSg =>
           /\ hchan' = SetQueue(h, c, dir, p.rest)
           /\ param' = [param EXCEPT ![p.sg.g] = 0]
           /\ Goready(g, p.sg.g, "closing")
           /\ call' = call
      /\ p.sg = NoSg =>
           /\ hchan' = [h EXCEPT ![c].q.send = <<>>, ![c].lock = NoG]
           /\ call' = [call EXCEPT ![g] = NoCall] /\ pc' = [pc EXCEPT ![g] = "idle"]
           /\ param' = param
  BY <1>3, <1>4, <1>6 DEF CloseRelease, SetQueue, Return, Result, Goto
<1>9. p.rest \in Seq(Sudog)
  BY <1>5, RestType
<1>10. p.sg = NoSg => /\ dir = "send"
                      /\ \A j \in DOMAIN hchan[c].q[dir] : ~Unsignalled(hchan[c].q[dir][j])
                      /\ \A j \in DOMAIN hchan[c].q["recv"] : ~Unsignalled(hchan[c].q["recv"][j])
  <2> SUFFICES ASSUME p.sg = NoSg
               PROVE  /\ dir = "send"
                      /\ \A j \in DOMAIN hchan[c].q[dir] : ~Unsignalled(hchan[c].q[dir][j])
                      /\ \A j \in DOMAIN hchan[c].q["recv"] : ~Unsignalled(hchan[c].q["recv"][j])
    OBVIOUS
  <2>1. dir = "send" /\ dequeue(hchan[c].q["recv"]).sg = NoSg
    BY <1>4
  <2> QED
    BY <1>5, <2>1, DequeueNone
<1>11. PICK D : D = p
  OBVIOUS
<1> HIDE DEF p
<1>12. done' \in [Gs -> {0, 1}]
  BY <1>1, <1>8 DEF Claim, TypeOK
<1>13. CASE D.sg # NoSg
  <2>1. PICK s \in Seq(Sudog) : s = D.rest
    BY <1>9, <1>11
  <2>2. hchan' = SetQueue(h, c, dir, s)
    BY <1>8, <1>11, <1>13, <2>1
  <2>3. Requeued(SetQueue(h, c, dir, s), h, c, dir, s)
    BY <1>7, QueueUpdate
  <2>4. /\ HchanOK(hchan')
        /\ \A c2 \in Chans : hchan'[c2].lock = hchan[c2].lock /\ hchan'[c2].closed = hchan[c2].closed
    BY <1>7, <2>2, <2>3 DEF Requeued, SameLocks
  <2>5. \A c2 \in Chans, d2 \in Dirs :
          hchan'[c2].q[d2] = IF c2 = c /\ d2 = dir THEN dequeue(h[c].q[dir]).rest ELSE h[c2].q[d2]
    BY <1>7, <1>11, <2>1, <2>2, <2>3 DEF Requeued, p
  <2>6. /\ Shrinks
        /\ dequeue(h[c].q[dir]).sg # NoSg => \E sg \in Sudog :
             /\ sg = dequeue(h[c].q[dir]).sg /\ OnQueue(c, dir, sg) /\ Unsignalled(sg)
             /\ ~call[sg.g].sel => ~InQueue(c, dir, sg.g)'
    BY <1>1, <1>7, <2>5, PeerTaken
  <2>7. PICK sg \in Sudog :
          /\ sg = D.sg /\ OnQueue(c, dir, sg) /\ Unsignalled(sg)
          /\ ~call[sg.g].sel => ~InQueue(c, dir, sg.g)'
    BY <1>7, <1>11, <1>13, <2>6 DEF p
  <2>8. sg.g \in Gs /\ pc[sg.g] = "parked" /\ sg.g # g
    BY <1>1, <1>2, <2>7, Signallable
  <2>9. /\ Claim(sg) /\ call' = call /\ param' = [param EXCEPT ![sg.g] = 0]
        /\ pc' = [pc EXCEPT ![sg.g] = "woken", ![g] = "closing"]
    BY <1>8, <1>11, <1>13, <2>7, <2>8 DEF Goready
  <2>10. pc' = [pc EXCEPT ![sg.g] = "woken"]
    BY <1>1, <1>2, <2>8, <2>9 DEF TypeOK
  <2>11. ReleaseStep(g, c, dir, sg)
    BY <1>2, <1>3, <2>4, <2>6, <2>7, <2>9, <2>10 DEF ReleaseStep, Takes, SameClosed
  <2>12. TypeOK'
    <3>1. pc' \in [Gs -> Places] /\ param' \in [Gs -> Nat]
      BY <1>1, <2>8, <2>9, <2>10 DEF TypeOK, Places
    <3> QED
      BY <1>1, <1>2, <1>12, <2>4, <2>9, <3>1 DEF TypeOK
  <2>13. /\ pc'[g] = "closing" /\ pc'[sg.g] = "woken"
         /\ \A x \in Gs \ {sg.g} : pc'[x] = pc[x]
    BY <1>1, <1>2, <2>8, <2>10 DEF TypeOK
  <2>14. Frame(g)
    BY <2>4, <2>8, <2>9, <2>13 DEF Frame
  <2>15. CallOK(g)'
    BY <1>1, <1>2, <1>3, <2>4, <2>9, <2>13 DEF CallOK, Cases, Plain, Selecting
  <2>16. LocksOK(g)'
    <3>1. Held(g)' = Held(g) /\ Wanted(g)' = Wanted(g)
      BY <2>4, <2>9 DEF Held, Wanted, Cases
    <3> QED
      BY <1>1, <2>13, <3>1 DEF LocksOK
  <2> QED
    BY <2>11, <2>12, <2>14, <2>15, <2>16, StepPreserves
<1>14. CASE D.sg = NoSg
  <2>1. /\ hchan' = [h EXCEPT ![c].q.send = <<>>, ![c].lock = NoG] /\ param' = param
        /\ call' = [call EXCEPT ![g] = NoCall] /\ pc' = [pc EXCEPT ![g] = "idle"] /\ Claim(NoSg)
    BY <1>8, <1>11, <1>14
  <2>2. dir = "send" /\ Waiters(c, "send") = {} /\ Waiters(c, "recv") = {}
    BY <1>10, <1>11, <1>14 DEF Waiters
  <2>3. PICK s \in Seq(Sudog) : s = <<>>
    BY SmallSeqs
  <2>4. PICK h2 : h2 = SetQueue(h, c, dir, s)
    OBVIOUS
  <2>5. Requeued(h2, h, c, dir, s)
    BY <1>7, <2>4, QueueUpdate
  <2>6. PICK h3 : h3 = [h2 EXCEPT ![c].lock = NoG]
    OBVIOUS
  <2>7. Relocked(h3, h2, c, h2[c].closed, NoG)
    <3>1. HchanOK(h2) /\ NoG \in Gs \cup {NoG}
      BY <2>5 DEF Requeued
    <3>2. PICK b \in BOOLEAN : b = h2[c].closed
      BY <3>1 DEF HchanOK, Hchan
    <3>3. /\ Relocked(SetLock(h2, c, b, NoG), h2, c, b, NoG)
          /\ [h2 EXCEPT ![c].lock = NoG] = SetLock(h2, c, b, NoG)
      BY <3>1, <3>2, LockUpdate
    <3> QED
      BY <2>6, <3>2, <3>3
  <2>8. hchan' = h3
    BY <2>1, <2>2, <2>3, <2>4, <2>6 DEF SetQueue
  <2>9. Cleared(g, hchan')
    <3>1. \A c2 \in Chans, d \in Dirs : h3[c2].q[d] = h[c2].q[d] \/ h3[c2].q[d] = <<>>
      BY <2>3, <2>5, <2>7 DEF Requeued, Relocked
    <3>2. h3[c].lock = NoG /\ h3[c].closed = hchan[c].closed
      BY <1>7, <2>5, <2>7 DEF Requeued, Relocked, SameLocks
    <3>3. \A c2 \in Chans \ {c} : h3[c2].lock = hchan[c2].lock /\ h3[c2].closed = hchan[c2].closed
      BY <1>7, <2>5, <2>7 DEF Requeued, Relocked, SameLocks
    <3>4. HchanOK(h3) /\ NoG # g
      BY <2>7, ChanAssumption DEF Relocked
    <3>5. \A c2 \in Chans, d \in Dirs : h3[c2].q[d] = hchan[c2].q[d] \/ h3[c2].q[d] = <<>>
      BY <1>7, <3>1
    <3>6. \A c2 \in Chans :
            /\ h3[c2].lock # g /\ h3[c2].closed = hchan[c2].closed
            /\ h3[c2].lock = hchan[c2].lock \/ (hchan[c2].lock = g /\ h3[c2].lock = NoG)
      BY <1>3, <3>2, <3>3, <3>4
    <3>7. Cleared(g, h3)
      BY <3>4, <3>5, <3>6 DEF Cleared
    <3> QED
      BY <2>8, <3>7
  <2>10. Unlocks(g) /\ Shrinks
    BY <2>9, ClearedUnlocks
  <2>11. \A x \in Gs : done'[x] = done[x]
    BY <2>1, ChanAssumption DEF Claim, NoSg
  <2>12. param' \in [Gs -> Nat]
    BY <1>1, <2>1 DEF TypeOK
  <2> QED
    BY <1>2, <1>3, <1>12, <2>1, <2>2, <2>10, <2>11, <2>12, ReturnPreserves
<1> QED
  BY <1>13, <1>14

\* sellock takes the least lock that is missing.
LEMMA SellockPreserves ==
  ASSUME IndInv, NEW g \in Gs, Sellock(g)
  PROVE  IndInv'
<1>1. TypeOK /\ CallsInv /\ LocksInv /\ CallOK(g) /\ LocksOK(g)
  BY DEF IndInv, CallsInv, LocksInv
<1>2. /\ pc[g] \in {"sellock", "woken"} /\ call[g].sel /\ call' = call /\ done' = done
      /\ param' = param /\ wake' = wake /\ nv' = nv
  BY <1>1 DEF Sellock, CallOK, Selecting
<1>3. PICK n : n = NextLock(g)
  OBVIOUS
<1>4. ToLock(g) # {} /\ \A c \in Held(g), d \in ToLock(g) : c < d
  BY <1>1, <1>2 DEF LocksOK
<1>5. Wanted(g) \subseteq Chans /\ ToLock(g) \subseteq Chans /\ Held(g) \subseteq Chans
  BY <1>1, CaseTypes DEF Wanted, ToLock, Held
<1>6. n \in ToLock(g) /\ n \in Chans /\ \A d \in ToLock(g) : n <= d
  <2>1. ToLock(g) \in SUBSET Nat
    BY <1>5, ChanAssumption
  <2> QED
    BY <1>3, <1>4, <1>5, <2>1, MinIn DEF NextLock
<1>7. /\ hchan[n].lock = NoG /\ hchan' = [hchan EXCEPT ![n].lock = g]
      /\ \/ ToLock(g) # {n} /\ pc' = pc
         \/ ToLock(g) = {n} /\ pc' = [pc EXCEPT ![g] = IF pc[g] = "woken" THEN "pass3" ELSE "pass1"]
  BY <1>3 DEF Sellock, Goto
<1>8. Relocked(hchan', hchan, n, hchan[n].closed, g)
  <2>1. HchanOK(hchan) /\ g \in Gs \cup {NoG}
    BY <1>1 DEF TypeOK
  <2>2. PICK b \in BOOLEAN : b = hchan[n].closed
    BY <1>6, <2>1 DEF HchanOK, Hchan
  <2>3. /\ [hchan EXCEPT ![n].lock = g] = SetLock(hchan, n, b, g)
        /\ Relocked(SetLock(hchan, n, b, g), hchan, n, b, g)
    BY <1>6, <2>1, <2>2, LockUpdate
  <2> QED
    BY <1>7, <2>2, <2>3
<1>9. /\ HchanOK(hchan') /\ hchan'[n].lock = g /\ hchan'[n].closed = hchan[n].closed
      /\ \A c \in Chans : hchan'[c].q = hchan[c].q
      /\ \A c \in Chans \ {n} : hchan'[c] = hchan[c]
  BY <1>8 DEF Relocked
<1>10. /\ pc' \in [Gs -> Places] /\ \A x \in Gs \ {g} : pc'[x] = pc[x]
       /\ \/ ToLock(g) # {n} /\ pc'[g] = pc[g]
          \/ ToLock(g) = {n} /\ pc'[g] = "pass3" /\ pc[g] = "woken"
          \/ ToLock(g) = {n} /\ pc'[g] = "pass1" /\ pc[g] = "sellock"
  BY <1>1, <1>2, <1>7 DEF TypeOK, Places
<1>11. TypeOK'
  BY <1>1, <1>2, <1>9, <1>10 DEF TypeOK
<1>12. Frame(g)
  BY <1>2, <1>7, <1>9, <1>10 DEF Frame
<1>13. CallOK(g)'
  BY <1>1, <1>2, <1>10 DEF CallOK, Plain, Selecting, Cases
<1>14. LocksOK(g)'
  <2>1. Held(g)' = Held(g) \cup {n}
    BY <1>6, <1>9 DEF Held
  <2>2. Wanted(g)' = Wanted(g)
    BY <1>2 DEF Wanted, Cases
  <2>3. ToLock(g)' = ToLock(g) \ {n} /\ n \in Wanted(g)
    BY <1>6, <2>1, <2>2 DEF ToLock
  <2>4. Held(g)' \subseteq Wanted(g)'
    BY <1>1, <2>1, <2>2, <2>3 DEF LocksOK
  <2>5. ASSUME NEW c \in Held(g)', NEW d \in ToLock(g)' PROVE c < d
    <3>1. d \in ToLock(g) /\ d # n /\ d \in Nat /\ n \in Nat
      BY <1>5, <1>6, <2>3, <2>5, ChanAssumption
    <3>2. CASE c = n
      <4>1. n <= d
        BY <1>6, <3>1
      <4> QED
        BY <3>1, <3>2, <4>1
    <3>3. CASE c \in Held(g)
      BY <1>4, <3>1, <3>3
    <3> QED
      BY <2>1, <2>5, <3>2, <3>3
  <2>6. pc'[g] \in {"sellock", "woken"} => ToLock(g)' # {}
    BY <1>6, <1>10, <2>3
  <2>7. pc'[g] \in {"sellock", "pass1", "pass3"} \/ (pc'[g] = "woken" /\ call'[g].sel)
    BY <1>2, <1>10
  <2> QED
    BY <2>4, <2>5, <2>6, <2>7 DEF LocksOK
<1>15. OwnStep(g)
  <2>1. Others(g) /\ Shrinks
    BY <1>2, <1>9, <1>10, EmbedsSame DEF Others, Shrinks
  <2>2. \A c \in Chans : Closer(c)' = Closer(c)
    <3>1. \A x \in Gs : (pc'[x] = "closing" <=> pc[x] = "closing")
      BY <1>2, <1>10
    <3> QED
      BY <1>2, <3>1 DEF Closer, Cases
  <2>3. \A c \in Chans : hchan'[c].closed = hchan[c].closed
    BY <1>9
  <2> QED
    BY <1>2, <1>10, <2>1, <2>2, <2>3 DEF OwnStep, Waking
<1> QED
  BY <1>11, <1>12, <1>13, <1>14, <1>15, StepPreserves

\* A select that polls has the cases of a select.
LEMMA SelectCase ==
  ASSUME IndInv, NEW g \in Gs, pc[g] \in {"pass1", "pass3"}
  PROVE  /\ call[g].sel
         /\ \A i \in DOMAIN Cases(g) : Cases(g)[i].dir \in Dirs /\ Cases(g)[i].c \in Chans
         /\ DOMAIN Cases(g) \subseteq Nat \ {0}
<1>1. TypeOK /\ CallOK(g)
  BY DEF IndInv, CallsInv
<1>2. call[g].sel
  BY <1>1 DEF CallOK, Selecting
<1> QED
  BY <1>1, <1>2, CaseTypes DEF CallOK

\* The channels once g has polled and unlocked.
LEMMA PolledCleared ==
  ASSUME TypeOK, NEW g \in Gs, NEW n
  PROVE  Cleared(g, selunlock(g, Polled(g, n)))
<1>1. PICK h : h = Polled(g, n)
  OBVIOUS
<1> DEFINE emptied(c, dir) ==
             /\ Cap[c] = 0
             /\ \E i \in 1..n : Cases(g)[i].c = c /\ Other(Cases(g)[i].dir) = dir
           nq(c) == [dir \in Dirs |-> IF emptied(c, dir) THEN <<>> ELSE hchan[c].q[dir]]
<1>2. h = [c \in Chans |-> [hchan[c] EXCEPT !.q = nq(c)]]
  BY <1>1 DEF Polled
<1> HIDE DEF emptied
<1>3. ASSUME NEW c \in Chans
      PROVE  /\ h[c] \in Hchan(c) /\ h[c].lock = hchan[c].lock /\ h[c].closed = hchan[c].closed
             /\ \A d \in Dirs : h[c].q[d] = hchan[c].q[d] \/ h[c].q[d] = <<>>
  <2>1. hchan[c] \in Hchan(c) /\ hchan[c].q \in Queues
    BY DEF TypeOK, HchanOK, Hchan
  <2>2. nq(c) \in Queues /\ \A d \in Dirs : nq(c)[d] = hchan[c].q[d] \/ nq(c)[d] = <<>>
    BY <2>1, SmallSeqs DEF Queues
  <2>3. h[c] = [hchan[c] EXCEPT !.q = nq(c)]
    BY <1>2
  <2> HIDE DEF nq
  <2> QED
    BY <2>1, <2>2, <2>3 DEF Hchan
<1>4. HchanOK(h)
  <2>1. h = [c \in Chans |-> h[c]]
    BY <1>2
  <2> QED
    BY <1>3, <2>1 DEF HchanOK
<1>5. PICK h2 : h2 = selunlock(g, h)
  OBVIOUS
<1>6. /\ HchanOK(h2)
      /\ \A c \in Chans :
           /\ h2[c].lock = IF h[c].lock = g THEN NoG ELSE h[c].lock
           /\ h2[c].closed = h[c].closed /\ h2[c].q = h[c].q
  BY <1>4, <1>5, UnlockUpdate
<1>7. Cleared(g, h2)
  <2>1. NoG # g
    BY ChanAssumption
  <2>2. \A c \in Chans :
          /\ h2[c].lock # g /\ h2[c].closed = hchan[c].closed
          /\ h2[c].lock = hchan[c].lock \/ (hchan[c].lock = g /\ h2[c].lock = NoG)
    BY <1>3, <1>6, <2>1
  <2>3. \A c \in Chans, d \in Dirs : h2[c].q[d] = hchan[c].q[d] \/ h2[c].q[d] = <<>>
    BY <1>3, <1>6
  <2> QED
    BY <1>6, <2>2, <2>3 DEF Cleared
<1> QED
  BY <1>1, <1>5, <1>7

LEMMA FirstCase ==
  ASSUME IndInv, NEW g \in Gs, pc[g] = "pass1"
  PROVE  /\ First(g) # 0 => First(g) \in DOMAIN Cases(g)
         /\ First(g) = 0 => \A i \in DOMAIN Cases(g) : ~Fires(g, i)
<1> DEFINE F == {i \in DOMAIN Cases(g) : Fires(g, i)}
<1>1. F \in SUBSET Nat /\ 0 \notin F /\ F \subseteq DOMAIN Cases(g)
  BY SelectCase
<1>2. First(g) = IF F = {} THEN 0 ELSE Min(F)
  BY DEF First
<1>3. F = {} => \A i \in DOMAIN Cases(g) : ~Fires(g, i)
  OBVIOUS
<1> HIDE DEF F
<1>4. F # {} => Min(F) \in F
  BY <1>1, MinIn
<1> QED
  BY <1>1, <1>2, <1>3, <1>4

LEMMA SelectServedPreserves ==
  ASSUME IndInv, NEW g \in Gs, SelectServed(g)
  PROVE  IndInv'
<1>1. PICK i : i = First(g)
  OBVIOUS
<1>2. PICK h : h = selunlock(g, Polled(g, i - 1))
  OBVIOUS
<1>3. pc[g] = "pass1" /\ i # 0 /\ (Rendezvous(g, i, h) \/ Buffered(g, i, h))
  BY <1>1, <1>2 DEF SelectServed
<1>4. i \in DOMAIN Cases(g) /\ \A j \in DOMAIN Cases(g) : Cases(g)[j].dir \in Dirs
  BY <1>1, <1>3, FirstCase, SelectCase
<1>5. Cleared(g, h)
  BY <1>2, PolledCleared DEF IndInv
<1> QED
  BY <1>3, <1>4, <1>5, ServedPreserves

LEMMA SelectClosedPreserves ==
  ASSUME IndInv, NEW g \in Gs, SelectClosed(g)
  PROVE  IndInv'
<1>1. PICK n : hchan' = selunlock(g, Polled(g, n))
  BY DEF SelectClosed
<1>2. /\ pc[g] = "pass1" /\ done' = done /\ param' = param /\ wake' = wake /\ nv' = nv
      /\ call' = [call EXCEPT ![g] = NoCall] /\ pc' = [pc EXCEPT ![g] = "idle"]
  BY DEF SelectClosed, Return, Result, Goto
<1>3. TypeOK /\ Cleared(g, hchan')
  BY <1>1, PolledCleared DEF IndInv
<1>4. Unlocks(g) /\ Shrinks
  BY <1>3, ClearedUnlocks
<1>5. param' \in [Gs -> Nat] /\ done' \in [Gs -> {0, 1}]
  BY <1>2, <1>3 DEF TypeOK
<1> QED
  BY <1>2, <1>4, <1>5, ReturnPreserves

\* The sudogs of a select for one queue.
LEMMA SudogsCases ==
  ASSUME IndInv, NEW g \in Gs, pc[g] = "pass1", NEW c \in Chans, NEW dir \in Dirs
  PROVE  SudogsOf(Sudogs(g, c, dir), g, c, dir)
<1>1. TypeOK /\ call[g].sel
  BY SelectCase DEF IndInv
<1>2. Len(Cases(g)) \in Nat /\ DOMAIN Cases(g) = 1..Len(Cases(g))
  BY <1>1, CaseTypes
<1> DEFINE all == [i \in DOMAIN Cases(g) |-> [g |-> g, i |-> i]]
           K == {i \in DOMAIN Cases(g) : Cases(g)[i].c = c /\ Cases(g)[i].dir = dir}
<1>3. Sudogs(g, c, dir) = Pick(all, K)
  BY DEF Sudogs
<1>4. \A i \in DOMAIN Cases(g) : [g |-> g, i |-> i] \in Sudog
  BY <1>2 DEF Sudog
<1>5. all \in Seq(Sudog) /\ DOMAIN all = DOMAIN Cases(g)
  BY <1>2, <1>4
<1>6. \A i \in DOMAIN Cases(g) : all[i].g = g /\ all[i].i = i
  OBVIOUS
<1>7. K \in SUBSET DOMAIN all
  BY <1>5
<1>8. \A i \in K : i \in DOMAIN Cases(g) /\ Cases(g)[i].c = c /\ Cases(g)[i].dir = dir
  OBVIOUS
<1> HIDE DEF all, K
<1>9. PICK s : s = Pick(all, K)
  OBVIOUS
<1>10. s \in Seq(Sudog) /\ \A n \in DOMAIN s : \E j \in K : s[n] = all[j]
  BY <1>5, <1>7, <1>9, PickElements
<1>11. \A n \in DOMAIN s : /\ s[n].g = g /\ s[n].i \in DOMAIN Cases(g)
                           /\ Cases(g)[s[n].i].c = c /\ Cases(g)[s[n].i].dir = dir
  BY <1>6, <1>8, <1>10
<1> QED
  BY <1>1, <1>3, <1>9, <1>10, <1>11 DEF SudogsOf

LEMMA SelectNotServedPreserves ==
  ASSUME IndInv, NEW g \in Gs, SelectNotServed(g)
  PROVE  IndInv'
<1>1. PICK h : h = selunlock(g, Polled(g, Len(Cases(g))))
  OBVIOUS
<1>2. /\ pc[g] = "pass1" /\ First(g) = 0 /\ wake' = wake /\ nv' = nv
  BY DEF SelectNotServed
<1>3. TypeOK /\ QueuedInv /\ Cleared(g, h)
  BY <1>1, PolledCleared DEF IndInv
<1>4. /\ call[g].sel
      /\ \A i \in DOMAIN Cases(g) : Cases(g)[i].dir \in Dirs /\ Cases(g)[i].c \in Chans
  BY <1>2, SelectCase
<1>5. CASE ~call[g].block
  <2>1. /\ hchan' = h /\ done' = done /\ param' = param
        /\ call' = [call EXCEPT ![g] = NoCall] /\ pc' = [pc EXCEPT ![g] = "idle"]
    BY <1>1, <1>5 DEF SelectNotServed, Return, Result, Goto
  <2>2. Unlocks(g) /\ Shrinks
    BY <1>3, <2>1, ClearedUnlocks
  <2>3. param' \in [Gs -> Nat] /\ done' \in [Gs -> {0, 1}]
    BY <1>3, <2>1 DEF TypeOK
  <2> QED
    BY <1>2, <2>1, <2>2, <2>3, ReturnPreserves
<1>6. CASE call[g].block
  <2> DEFINE nq(c) == [dir \in Dirs |-> h[c].q[dir] \o Sudogs(g, c, dir)]
  <2>1. /\ hchan' = [c \in Chans |-> [h[c] EXCEPT !.q = nq(c)]]
        /\ done' = [done EXCEPT ![g] = 0] /\ param' = [param EXCEPT ![g] = 0]
        /\ call' = call /\ pc' = [pc EXCEPT ![g] = "parked"]
    BY <1>1, <1>6 DEF SelectNotServed, Goto
  <2>2. ASSUME NEW c \in Chans, NEW d \in Dirs
        PROVE  /\ h[c].q[d] \o Sudogs(g, c, d) \in Seq(Sudog)
               /\ Joins(h[c].q[d] \o Sudogs(g, c, d), hchan[c].q[d], g, c, d)
    <3>1. NoneOf(hchan[c].q[d], g)
      BY <1>2, <1>3, NotOnQueues
    <3>2. SudogsOf(Sudogs(g, c, d), g, c, d)
      BY <1>2, SudogsCases
    <3>3. h[c].q[d] = hchan[c].q[d] \/ h[c].q[d] = <<>>
      BY <1>3 DEF Cleared
    <3> QED
      BY <3>1, <3>2, <3>3, JoinsConcat
  <2>3. ASSUME NEW c \in Chans
        PROVE  /\ hchan'[c] \in Hchan(c) /\ hchan'[c].lock = h[c].lock
               /\ hchan'[c].closed = h[c].closed
               /\ \A d \in Dirs : hchan'[c].q[d] = h[c].q[d] \o Sudogs(g, c, d)
    <3>1. h[c] \in Hchan(c)
      BY <1>3 DEF Cleared, HchanOK
    <3>2. nq(c) \in Queues /\ \A d \in Dirs : nq(c)[d] = h[c].q[d] \o Sudogs(g, c, d)
      BY <2>2 DEF Queues
    <3>3. hchan'[c] = [h[c] EXCEPT !.q = nq(c)]
      BY <2>1
    <3> HIDE DEF nq
    <3> QED
      BY <3>1, <3>2, <3>3 DEF Hchan
  <2>4. HchanOK(hchan')
    <3>1. hchan' = [c \in Chans |-> hchan'[c]]
      BY <2>1
    <3> QED
      BY <2>3, <3>1 DEF HchanOK
  <2>5. Unlocks(g) /\ SameClosed
    BY <1>3, <2>3, <2>4 DEF Cleared, Unlocks, SameClosed
  <2>6. \A c \in Chans, d \in Dirs : Joins(hchan'[c].q[d], hchan[c].q[d], g, c, d)
    BY <2>2, <2>3
  <2>7. ASSUME NEW i \in DOMAIN Cases(g)
        PROVE  /\ ~hchan[Cases(g)[i].c].closed
               /\ Cap[Cases(g)[i].c] = 0 => Waiters(Cases(g)[i].c, Other(Cases(g)[i].dir)) = {}
    <3>1. ~Fires(g, i)
      BY <1>2, FirstCase
    <3>2. ~hchan[Cases(g)[i].c].closed /\ ~Able(hchan, Cases(g)[i])
      BY <3>1 DEF Fires
    <3> QED
      BY <1>3, <1>4, <3>2, NoPeer
  <2>8. /\ param' \in [Gs -> Nat] /\ param'[g] = 0 /\ \A x \in Gs \ {g} : param'[x] = param[x]
    BY <1>3, <2>1 DEF TypeOK
  <2>9. ParkStep(g)
    BY <1>2, <1>4, <2>1, <2>5, <2>6, <2>7, <2>8 DEF ParkStep
  <2> QED
    BY <1>2, <1>4, <2>5, <2>8, <2>9, ParkingPreserves
<1> QED
  BY <1>5, <1>6

\* Pass 3 leaves no sudog of g behind.
LEMMA DequeuedQueues ==
  ASSUME TypeOK, NEW g \in Gs, NEW h, h = Dequeued(g)
  PROVE  /\ HchanOK(h) /\ SameLocks(h, hchan)
         /\ \A c \in Chans, d \in Dirs :
              Embeds(h[c].q[d], hchan[c].q[d]) /\ NoneOf(h[c].q[d], g)
<1> DEFINE K(c, d) == {j \in DOMAIN hchan[c].q[d] : hchan[c].q[d][j].g # g}
           nq(c) == [d \in Dirs |-> Pick(hchan[c].q[d], K(c, d))]
<1>1. h = [c \in Chans |-> [hchan[c] EXCEPT !.q = nq(c)]]
  BY DEF Dequeued
<1>2. ASSUME NEW c \in Chans, NEW d \in Dirs
      PROVE  /\ Embeds(Pick(hchan[c].q[d], K(c, d)), hchan[c].q[d])
             /\ NoneOf(Pick(hchan[c].q[d], K(c, d)), g)
  <2>1. PICK q \in Seq(Sudog) : q = hchan[c].q[d]
    BY DEF TypeOK, HchanOK, Hchan, Queues
  <2>2. K(c, d) \in SUBSET DOMAIN q /\ \A j \in K(c, d) : q[j].g # g
    BY <2>1
  <2>3. PICK J \in SUBSET DOMAIN q : J = K(c, d)
    BY <2>2
  <2> HIDE DEF K
  <2>4. PICK p : p = Pick(q, J)
    OBVIOUS
  <2>5. p \in Seq(Sudog) /\ Embeds(p, q) /\ \A n \in DOMAIN p : \E j \in J : p[n] = q[j]
    BY <2>4, PickElements
  <2>6. NoneOf(p, g)
    BY <2>2, <2>3, <2>5 DEF NoneOf
  <2> QED
    BY <2>1, <2>3, <2>4, <2>5, <2>6
<1> HIDE DEF K
<1>3. ASSUME NEW c \in Chans
      PROVE  /\ h[c] \in Hchan(c) /\ h[c].lock = hchan[c].lock /\ h[c].closed = hchan[c].closed
             /\ \A d \in Dirs : h[c].q[d] = Pick(hchan[c].q[d], K(c, d))
  <2>1. hchan[c] \in Hchan(c)
    BY DEF TypeOK, HchanOK
  <2>2. nq(c) \in Queues /\ \A d \in Dirs : nq(c)[d] = Pick(hchan[c].q[d], K(c, d))
    BY <1>2 DEF Queues, NoneOf
  <2>3. h[c] = [hchan[c] EXCEPT !.q = nq(c)]
    BY <1>1
  <2> HIDE DEF nq
  <2> QED
    BY <2>1, <2>2, <2>3 DEF Hchan
<1>4. HchanOK(h)
  <2>1. h = [c \in Chans |-> h[c]]
    BY <1>1
  <2> QED
    BY <1>3, <2>1 DEF HchanOK
<1> QED
  BY <1>2, <1>3, <1>4 DEF SameLocks

LEMMA Pass3Preserves ==
  ASSUME IndInv, NEW g \in Gs, Pass3(g)
  PROVE  IndInv'
<1>1. /\ TypeOK /\ CallsInv /\ LocksInv /\ CallOK(g) /\ LocksOK(g) /\ ParamOK(g)
  BY DEF IndInv, CallsInv, LocksInv, ParamInv
<1>2. /\ pc[g] = "pass3" /\ wake' = wake /\ nv' = nv
      /\ param' = [param EXCEPT ![g] = 0] /\ done' = [done EXCEPT ![g] = 0]
  BY DEF Pass3
<1>3. /\ param' \in [Gs -> Nat] /\ done' \in [Gs -> {0, 1}]
      /\ \A x \in Gs \ {g} : param'[x] = param[x] /\ done'[x] = done[x]
  BY <1>1, <1>2 DEF TypeOK
<1>4. call[g].sel
  BY <1>2, SelectCase
<1>5. PICK h : h = Dequeued(g)
  OBVIOUS
<1>6. /\ HchanOK(h) /\ SameLocks(h, hchan)
      /\ \A c \in Chans, d \in Dirs : Embeds(h[c].q[d], hchan[c].q[d]) /\ NoneOf(h[c].q[d], g)
  BY <1>1, <1>5, DequeuedQueues
<1>7. ASSUME \A c \in Chans : hchan'[c].q = h[c].q
      PROVE  Shrinks /\ \A c \in Chans, d \in Dirs : ~InQueue(c, d, g)'
  <2>1. Shrinks
    BY <1>6, <1>7 DEF Shrinks
  <2> SUFFICES ASSUME NEW c \in Chans, NEW d \in Dirs, InQueue(c, d, g)' PROVE FALSE
    BY <2>1
  <2>2. PICK sg \in Sudog : sg.g = g /\ OnQueue(c, d, sg)'
    BY DEF InQueue
  <2>3. PICK j \in DOMAIN h[c].q[d] : h[c].q[d][j] = sg
    BY <1>7, <2>2 DEF OnQueue
  <2> QED
    BY <1>6, <2>2, <2>3 DEF NoneOf
<1>8. CASE param[g] = 0
  <2>1. hchan' = h /\ call' = call /\ pc' = [pc EXCEPT ![g] = "pass1"]
    BY <1>5, <1>8 DEF Pass3, Goto
  <2>2. TypeOK'
    <3>1. pc' \in [Gs -> Places]
      BY <1>1, <2>1 DEF TypeOK, Places
    <3> QED
      BY <1>1, <1>2, <1>3, <1>6, <2>1, <3>1 DEF TypeOK
  <2>3. /\ pc'[g] = "pass1" /\ \A x \in Gs \ {g} : pc'[x] = pc[x]
    BY <1>1, <2>1 DEF TypeOK
  <2>4. \A c \in Chans : hchan'[c].lock = hchan[c].lock /\ hchan'[c].closed = hchan[c].closed
    BY <1>6, <2>1 DEF SameLocks
  <2>5. Frame(g)
    BY <2>1, <2>3, <2>4 DEF Frame
  <2>6. CallOK(g)'
    BY <1>1, <1>2, <1>4, <2>1, <2>3 DEF CallOK, Plain, Selecting, Cases
  <2>7. LocksOK(g)'
    <3>1. Held(g)' = Held(g) /\ Wanted(g)' = Wanted(g)
      BY <2>1, <2>4 DEF Held, Wanted, Cases
    <3> QED
      BY <1>1, <2>3, <3>1 DEF LocksOK
  <2>8. OwnStep(g)
    <3>1. Others(g)
      BY <1>2, <1>3, <2>1, <2>3 DEF Others
    <3>2. Shrinks /\ \A c \in Chans, d \in Dirs : ~InQueue(c, d, g)'
      BY <1>7, <2>1
    <3>3. \A c \in Chans : Closer(c)' = Closer(c)
      <4>1. \A x \in Gs : (pc'[x] = "closing" <=> pc[x] = "closing")
        BY <1>2, <2>3
      <4> QED
        BY <2>1, <4>1 DEF Closer, Cases
    <3> QED
      BY <1>2, <2>3, <2>4, <3>1, <3>2, <3>3 DEF OwnStep, Waking
  <2> QED
    BY <2>2, <2>5, <2>6, <2>7, <2>8, StepPreserves
<1>9. CASE param[g] # 0
  <2>1. Cap[Cases(g)[param[g]].c] = 0
    BY <1>1, <1>2, <1>4, <1>9 DEF ParamOK
  <2>2. /\ hchan' = selunlock(g, h)
        /\ call' = [call EXCEPT ![g] = NoCall] /\ pc' = [pc EXCEPT ![g] = "idle"]
    BY <1>5, <1>9, <2>1 DEF Pass3, Return, Result, Goto
  <2>3. PICK h2 : h2 = hchan'
    OBVIOUS
  <2>4. /\ HchanOK(h2)
        /\ \A c \in Chans :
             /\ h2[c].lock = IF h[c].lock = g THEN NoG ELSE h[c].lock
             /\ h2[c].closed = h[c].closed /\ h2[c].q = h[c].q
    <3>1. h2 = selunlock(g, h)
      BY <2>2, <2>3
    <3> QED
      BY <1>6, <3>1, UnlockUpdate
  <2>5. Unlocks(g)
    <3>1. NoG # g
      BY ChanAssumption
    <3> QED
      BY <1>6, <2>3, <2>4, <3>1 DEF Unlocks, SameLocks
  <2>6. Shrinks /\ \A c \in Chans, d \in Dirs : ~InQueue(c, d, g)'
    BY <1>7, <2>3, <2>4
  <2> QED
    BY <1>2, <1>3, <2>2, <2>5, <2>6, ReturnPreserves
<1> QED
  BY <1>8, <1>9

----------------------------------------------------------------------------
(* The invariant, and what follows from it *)

LEMMA InitInv == Init => IndInv
<1> SUFFICES ASSUME Init PROVE IndInv
  OBVIOUS
<1>1. /\ pc = [g \in Gs |-> "idle"] /\ call = [g \in Gs |-> NoCall] /\ done = [g \in Gs |-> 0]
      /\ param = [g \in Gs |-> 0] /\ wake = [g \in Gs |-> NoWake] /\ nv = 0
  BY DEF Init
<1> DEFINE nobuf(c) == [k \in 0..Cap[c] - 1 |-> 0]
           noq == [dir \in Dirs |-> <<>>]
<1>2. hchan = [c \in Chans |->
        [lock |-> NoG, closed |-> FALSE, qcount |-> 0, sendx |-> 0, recvx |-> 0,
         buf |-> nobuf(c), q |-> noq]]
  BY DEF Init
<1>3. noq \in Queues /\ \A d \in Dirs : noq[d] = <<>>
  BY SmallSeqs DEF Queues
<1> HIDE DEF noq
<1>4. ASSUME NEW c \in Chans
      PROVE  hchan[c] \in Hchan(c) /\ hchan[c].lock = NoG /\ ~hchan[c].closed /\ hchan[c].q = noq
  <2>1. Cap[c] \in Nat
    BY ChanAssumption
  <2>2. nobuf(c) \in [0..Cap[c] - 1 -> Nat]
    OBVIOUS
  <2>3. 0 \in Index(c) /\ 0 \in 0..Cap[c]
    BY <2>1 DEF Index
  <2> HIDE DEF nobuf
  <2>4. hchan[c] = [lock |-> NoG, closed |-> FALSE, qcount |-> 0, sendx |-> 0, recvx |-> 0,
                    buf |-> nobuf(c), q |-> noq]
    BY <1>2
  <2> QED
    BY <1>3, <2>2, <2>3, <2>4 DEF Hchan
<1>5. TypeOK
  <2>1. HchanOK(hchan)
    <3>1. hchan = [c \in Chans |-> hchan[c]]
      BY <1>2
    <3> QED
      BY <1>4, <3>1 DEF HchanOK
  <2>2. NoWake \in [sg: Sudog \cup {NoSg}, i: Nat] /\ NoCall \in CallType
    BY NoCallType DEF NoWake
  <2> QED
    BY <1>1, <2>1, <2>2 DEF TypeOK, Places
<1>6. \A g \in Gs : pc[g] = "idle" /\ Cases(g) = <<>> /\ ~call[g].sel
  BY <1>1 DEF Cases, NoCall
<1>7. \A c \in Chans, d \in Dirs : hchan[c].q[d] = <<>>
  BY <1>3, <1>4
<1>8. \A c \in Chans, d \in Dirs, sg \in Sudog : ~OnQueue(c, d, sg)
  BY <1>7 DEF OnQueue
<1>9. CallsInv
  BY <1>6 DEF CallsInv, CallOK, Plain, Selecting
<1>10. LocksInv
  <2>1. \A g \in Gs : Held(g) = {}
    BY <1>4, ChanAssumption DEF Held
  <2> QED
    BY <1>6, <2>1 DEF LocksInv, LocksOK
<1>11. QueuedInv
  BY <1>8 DEF QueuedInv
<1>12. OnceInv
  BY <1>7, SmallSeqs DEF OnceInv
<1>13. WakeInv /\ ParamInv
  BY <1>6 DEF WakeInv, ParamInv, ParamOK, Waking
<1>14. WaitersInv
  <2>1. \A c \in Chans, d \in Dirs : Waiters(c, d) = {}
    BY <1>5, <1>8, WaitersOn
  <2>2. \A c \in Chans : Waiters(c, "send") = {}
    BY <2>1 DEF Dirs
  <2> QED
    BY <1>4, <2>2 DEF WaitersInv
<1> QED
  BY <1>5, <1>9, <1>10, <1>11, <1>12, <1>13, <1>14 DEF IndInv

LEMMA StutterInv == IndInv /\ UNCHANGED vars => IndInv'
<1> SUFFICES ASSUME IndInv, UNCHANGED vars PROVE IndInv'
  OBVIOUS
<1>1. /\ hchan' = hchan /\ pc' = pc /\ call' = call /\ done' = done /\ param' = param
      /\ wake' = wake /\ nv' = nv
  BY DEF vars
<1>2. \A c \in Chans, dir \in Dirs, sg \in Sudog :
        (OnQueue(c, dir, sg)' <=> OnQueue(c, dir, sg)) /\ (QueuedOK(c, dir, sg)' <=> QueuedOK(c, dir, sg))
  BY <1>1 DEF OnQueue, QueuedOK, Cases
<1>3. TypeOK'
  BY <1>1 DEF IndInv, TypeOK, HchanOK
<1>4. CallsInv'
  BY <1>1 DEF IndInv, CallsInv, CallOK, Cases
<1>5. LocksInv'
  BY <1>1 DEF IndInv, LocksInv, LocksOK, Held, Wanted, ToLock, Cases
<1>6. QueuedInv'
  BY <1>2 DEF IndInv, QueuedInv
<1>7. OnceInv'
  BY <1>1 DEF IndInv, OnceInv
<1>8. WakeInv'
  BY <1>1 DEF IndInv, WakeInv, WakeOK, InQueue, OnQueue, Cases
<1>9. ParamInv'
  BY <1>1 DEF IndInv, ParamInv, ParamOK, Cases
<1>10. WaitersInv'
  <2>1. \A c, dir : Waiters(c, dir)' = Waiters(c, dir)
    BY <1>1 DEF Waiters, Unsignalled
  <2>2. \A c : Closer(c)' = Closer(c)
    BY <1>1 DEF Closer, Cases
  <2> QED
    BY <1>1, <2>1, <2>2 DEF IndInv, WaitersInv
<1> QED
  BY <1>3, <1>4, <1>5, <1>6, <1>7, <1>8, <1>9, <1>10 DEF IndInv

LEMMA NextInv == IndInv /\ [Next]_vars => IndInv'
<1> SUFFICES ASSUME IndInv, [Next]_vars PROVE IndInv'
  OBVIOUS
<1>1. ASSUME NEW g \in Gs, Call(g) \/ ChanStep(g) \/ SelectStep(g)
      PROVE  IndInv'
  <2>1. CASE Call(g)
    BY <2>1, CallPreserves
  <2>2. CASE FastFirst(g) \/ FastFail(g) \/ FastSlow(g)
    BY <2>2, FastPreserves
  <2>3. CASE MeetsClosed(g)
    BY <2>3, MeetsClosedPreserves
  <2>4. CASE Served(g)
    BY <2>4, PlainServedPreserves
  <2>5. CASE NotServed(g)
    BY <2>5, NotServedPreserves
  <2>6. CASE Deliver(g) \/ ReadyPeer(g)
    BY <2>6, SignalPreserves
  <2>7. CASE Woken(g)
    BY <2>7, WokenPreserves
  <2>8. CASE Closechan(g)
    BY <2>8, ClosechanPreserves
  <2>9. CASE CloseRelease(g)
    BY <2>9, CloseReleasePreserves
  <2>10. CASE Sellock(g)
    BY <2>10, SellockPreserves
  <2>11. CASE SelectServed(g)
    BY <2>11, SelectServedPreserves
  <2>12. CASE SelectClosed(g)
    BY <2>12, SelectClosedPreserves
  <2>13. CASE SelectNotServed(g)
    BY <2>13, SelectNotServedPreserves
  <2>14. CASE Pass3(g)
    BY <2>14, Pass3Preserves
  <2> QED
    BY <1>1, <2>1, <2>2, <2>3, <2>4, <2>5, <2>6, <2>7, <2>8, <2>9, <2>10, <2>11, <2>12, <2>13,
       <2>14 DEF ChanStep, SelectStep
<1>2. CASE Next
  BY <1>1, <1>2 DEF Next
<1>3. CASE UNCHANGED vars
  BY <1>3, StutterInv
<1> QED
  BY <1>2, <1>3

LEMMA InvNeverThrows == IndInv => NeverThrows
BY DEF IndInv, TypeOK, Places, NeverThrows

\* Nobody is closing a channel whose lock is free.
LEMMA InvForgetsNobody == IndInv => NobodyForgotten
<1> SUFFICES ASSUME IndInv, NEW c \in Chans, hchan[c].lock = NoG
             PROVE  /\ hchan[c].closed => Waiters(c, "recv") \cup Waiters(c, "send") = {}
                    /\ Cap[c] = 0 => \A s \in Waiters(c, "send"), r \in Waiters(c, "recv") : s = r
  BY DEF NobodyForgotten
<1>1. ~Closer(c)
  BY ChanAssumption DEF IndInv, CallsInv, CallOK, Closer
<1> QED
  BY <1>1 DEF IndInv, WaitersInv

\* A finite set of numbers has a greatest element.
LEMMA Greatest ==
  ASSUME NEW L \in SUBSET Nat, IsFiniteSet(L), L # {}
  PROVE  \E c \in L : \A d \in L : ~(c < d)
<1> DEFINE Above(c) == {d \in L : c < d}
           N == {n \in Nat : \E c \in L : n = Cardinality(Above(c))}
<1>1. \A c \in L : IsFiniteSet(Above(c)) /\ Cardinality(Above(c)) \in Nat
  <2> TAKE c \in L
  <2>1. IsFiniteSet(Above(c))
    BY FS_Subset
  <2> QED
    BY <2>1, FS_CardinalityType
<1>2. N \in SUBSET Nat /\ N # {}
  BY <1>1
<1>3. Min(N) \in N /\ \A n \in N : Min(N) <= n
  <2> HIDE DEF N
  <2> QED
    BY <1>2, MinIn
<1>4. PICK c \in L : Min(N) = Cardinality(Above(c))
  BY <1>3
<1>5. ASSUME NEW d \in L, c < d PROVE FALSE
  <2>1. c \in Nat /\ d \in Nat /\ \A x \in L : x \in Nat
    OBVIOUS
  <2>2. Above(d) \subseteq Above(c) /\ d \in Above(c) /\ d \notin Above(d)
    <3>1. \A x \in L : d < x => c < x
      BY <1>5, <2>1
    <3>2. ~(d < d)
      BY <2>1
    <3> QED
      BY <1>5, <3>1, <3>2
  <2>3. Above(d) # Above(c)
    BY <2>2
  <2>4. Cardinality(Above(d)) \in N
    BY <1>1
  <2>5. Cardinality(Above(c)) <= Cardinality(Above(d))
    BY <1>3, <1>4, <2>4
  <2> HIDE DEF Above, N
  <2>6. /\ Cardinality(Above(d)) <= Cardinality(Above(c))
        /\ Cardinality(Above(c)) = Cardinality(Above(d)) => Above(c) = Above(d)
    BY <1>1, <2>2, FS_Subset
  <2>7. Cardinality(Above(c)) \in Nat /\ Cardinality(Above(d)) \in Nat
    BY <1>1
  <2> QED
    BY <2>3, <2>5, <2>6, <2>7
<1> QED
  BY <1>5

\* A select that has locks and is to take another one: the next is one of its
\* channels, and greater than those it has.
LEMMA NextIsGreater ==
  ASSUME IndInv, NEW g \in Gs, pc[g] \in {"sellock", "woken"}
  PROVE  NextLock(g) \in Chans /\ \A c \in Held(g) : c < NextLock(g)
<1>1. TypeOK /\ LocksInv
  BY DEF IndInv
<1>2. ToLock(g) # {} /\ \A c \in Held(g), d \in ToLock(g) : c < d
  BY <1>1 DEF LocksInv, LocksOK
<1>3. ToLock(g) \subseteq Chans
  BY <1>1, CaseTypes DEF ToLock, Wanted
<1>4. NextLock(g) \in ToLock(g)
  BY <1>2, <1>3, ChanAssumption, MinIn DEF NextLock
<1> QED  BY <1>2, <1>3, <1>4

\* Of goroutines that wait for each other's locks, consider the one that has
\* the greatest channel any of them waits for: it waits for a greater one.
LEMMA InvNoLockCircle == IndInv => NoLockCircle
<1> SUFFICES ASSUME IndInv, NEW S \in SUBSET Gs, S # {},
                    \A g \in S : WaitsForLock(g) /\ hchan[NextLock(g)].lock \in S
             PROVE  FALSE
  BY DEF NoLockCircle
<1> DEFINE L == {NextLock(g) : g \in S}
<1>1. \A g \in S : pc[g] \in {"sellock", "woken"}
  BY DEF WaitsForLock
<1>2. \A g \in S : NextLock(g) \in Chans /\ \A c \in Held(g) : c < NextLock(g)
  BY <1>1, NextIsGreater
<1>3. L \in SUBSET Nat /\ IsFiniteSet(L) /\ L # {}
  <2>1. L \subseteq Chans /\ L # {}
    BY <1>2
  <2> HIDE DEF L
  <2> QED  BY <2>1, ChanAssumption, FS_Subset
<1>4. PICK c \in L : \A d \in L : ~(c < d)
  <2> HIDE DEF L
  <2> QED  BY <1>3, Greatest
<1>5. PICK g \in S : c = NextLock(g)
  BY <1>4
<1>6. PICK h \in S : hchan[c].lock = h
  BY <1>5
<1>7. c \in Held(h)
  BY <1>2, <1>5, <1>6 DEF Held
<1> QED  BY <1>2, <1>4, <1>7

LEMMA SpecInv == Spec => []IndInv
BY InitInv, NextInv, PTL DEF Spec

(***************************************************************************)
(* goready always finds its goroutine waiting, and neither "spurious       *)
(* wakeup" nor "shouldn't happen" is ever thrown, for any number of        *)
(* goroutines, channels, buffers and cases: a sudog is claimed once, by    *)
(* taking it off its queue or by the cas of selectdone.                    *)
(***************************************************************************)
THEOREM SelectNeverThrows == Spec => []NeverThrows
BY SpecInv, InvNeverThrows, PTL

(***************************************************************************)
(* closechan leaves nobody on the queues of the channel it closed, and no  *)
(* sender and receiver wait for each other on a synchronous channel.       *)
(***************************************************************************)
THEOREM SelectForgetsNobody == Spec => []NobodyForgotten
BY SpecInv, InvForgetsNobody, PTL

(***************************************************************************)
(* sellock cannot deadlock: the locks are taken in the order of their      *)
(* addresses, so that no selects wait for each other's locks in a circle,  *)
(* for any number of selects and of channels in each.                      *)
(***************************************************************************)
THEOREM SelectNoLockCircle == Spec => []NoLockCircle
BY SpecInv, InvNoLockCircle, PTL

----------------------------------------------------------------------------
(* The buffers and closed: what a step does to them *)

LEMMA KeptMoved ==
  ASSUME NEW h3, NEW h2, NEW h
  PROVE  /\ Kept(h, h) /\ (Kept(h2, h) => Moved(h2, h))
         /\ Kept(h3, h2) /\ Kept(h2, h) => Kept(h3, h)
         /\ Kept(h3, h2) /\ Moved(h2, h) => Moved(h3, h)
         /\ Moved(h3, h2) /\ Kept(h2, h) => Moved(h3, h)
<1>1. Kept(h, h) /\ (Kept(h2, h) => Moved(h2, h))
  BY DEF Kept, Moved, SameBuf
<1>2. Kept(h3, h2) /\ Kept(h2, h) => Kept(h3, h)
  BY DEF Kept, SameBuf
<1>3. Kept(h3, h2) /\ Moved(h2, h) => Moved(h3, h)
  <2> SUFFICES ASSUME Kept(h3, h2), Moved(h2, h), NEW c \in Chans
               PROVE  /\ h[c].closed => h3[c].closed
                      /\ \/ SameBuf(h3[c], h[c])
                         \/ Cap[c] # 0 /\ (PutsOne(h3[c], h[c], c) \/ GetsOne(h3[c], h[c], c))
    BY DEF Moved
  <2>1. SameBuf(h3[c], h2[c]) /\ (h[c].closed => h3[c].closed)
    BY DEF Kept, Moved
  <2>2. CASE SameBuf(h2[c], h[c])
    BY <2>1, <2>2 DEF SameBuf
  <2>3. CASE Cap[c] # 0 /\ PutsOne(h2[c], h[c], c)
    BY <2>1, <2>3 DEF SameBuf, PutsOne
  <2>4. CASE Cap[c] # 0 /\ GetsOne(h2[c], h[c], c)
    BY <2>1, <2>4 DEF SameBuf, GetsOne
  <2> QED
    BY <2>2, <2>3, <2>4 DEF Moved
<1>4. Moved(h3, h2) /\ Kept(h2, h) => Moved(h3, h)
  <2> SUFFICES ASSUME Moved(h3, h2), Kept(h2, h), NEW c \in Chans
               PROVE  /\ h[c].closed => h3[c].closed
                      /\ \/ SameBuf(h3[c], h[c])
                         \/ Cap[c] # 0 /\ (PutsOne(h3[c], h[c], c) \/ GetsOne(h3[c], h[c], c))
    BY DEF Moved
  <2>1. SameBuf(h2[c], h[c]) /\ (h[c].closed => h3[c].closed)
    BY DEF Kept, Moved
  <2>2. CASE SameBuf(h3[c], h2[c])
    BY <2>1, <2>2 DEF SameBuf
  <2>3. CASE Cap[c] # 0 /\ PutsOne(h3[c], h2[c], c)
    BY <2>1, <2>3 DEF SameBuf, PutsOne
  <2>4. CASE Cap[c] # 0 /\ GetsOne(h3[c], h2[c], c)
    BY <2>1, <2>4 DEF SameBuf, GetsOne
  <2> QED
    BY <2>2, <2>3, <2>4 DEF Moved
<1> QED
  BY <1>1, <1>2, <1>3, <1>4

\* The updates of queues and locks keep the buffers.
LEMMA KeptQueue ==
  ASSUME NEW h, HchanOK(h), NEW c \in Chans, NEW d, NEW s
  PROVE  Kept(SetQueue(h, c, d, s), h)
<1>1. PICK r2 : r2 = [h[c] EXCEPT !.q = [h[c].q EXCEPT ![d] = s]]
  OBVIOUS
<1>2. h[c] \in Hchan(c)
  BY DEF HchanOK
<1>3. SameBuf(r2, h[c]) /\ r2.closed = h[c].closed
  BY <1>1, <1>2 DEF SameBuf, Hchan
<1>4. \A c2 \in Chans : SetQueue(h, c, d, s)[c2] = IF c2 = c THEN r2 ELSE h[c2]
  BY <1>1 DEF SetQueue, HchanOK
<1> QED
  BY <1>3, <1>4 DEF Kept, SameBuf

LEMMA KeptLock ==
  ASSUME NEW h, HchanOK(h), NEW c \in Chans, NEW l
  PROVE  Kept([h EXCEPT ![c].lock = l], h) /\ Kept(SetLock(h, c, TRUE, l), h)
<1>1. h[c] \in Hchan(c)
  BY DEF HchanOK
<1>2. PICK r2 : r2 = [h[c] EXCEPT !.lock = l]
  OBVIOUS
<1>3. PICK r3 : r3 = [h[c] EXCEPT !.closed = TRUE, !.lock = l]
  OBVIOUS
<1>4. SameBuf(r2, h[c]) /\ r2.closed = h[c].closed /\ SameBuf(r3, h[c]) /\ r3.closed
  BY <1>1, <1>2, <1>3 DEF SameBuf, Hchan
<1>5. PICK h2 : h2 = [h EXCEPT ![c].lock = l]
  OBVIOUS
<1>6. PICK h3 : h3 = SetLock(h, c, TRUE, l)
  OBVIOUS
<1>7. \A c2 \in Chans : h2[c2] = IF c2 = c THEN r2 ELSE h[c2]
  BY <1>2, <1>5 DEF HchanOK
<1>8. \A c2 \in Chans : h3[c2] = IF c2 = c THEN r3 ELSE h[c2]
  BY <1>1, <1>3, <1>6 DEF SetLock, HchanOK, Hchan
<1>9. Kept(h2, h) /\ Kept(h3, h)
  BY <1>4, <1>7, <1>8 DEF Kept, SameBuf
<1> QED
  BY <1>5, <1>6, <1>9

LEMMA KeptUnlock ==
  ASSUME NEW h, HchanOK(h), NEW g
  PROVE  Kept(selunlock(g, h), h)
<1>1. ASSUME NEW c \in Chans
      PROVE  SameBuf(selunlock(g, h)[c], h[c]) /\ (h[c].closed => selunlock(g, h)[c].closed)
  <2>1. PICK r2 : r2 = selunlock(g, h)[c]
    OBVIOUS
  <2>2. h[c] \in Hchan(c) /\ r2 = IF h[c].lock = g THEN [h[c] EXCEPT !.lock = NoG] ELSE h[c]
    BY <2>1 DEF HchanOK, selunlock
  <2>3. SameBuf(r2, h[c]) /\ (h[c].closed => r2.closed)
    BY <2>2 DEF Hchan, SameBuf
  <2> QED
    BY <2>1, <2>3
<1> QED
  BY <1>1 DEF Kept

\* h2 is h with the queues nq.
NewQueues(h2, h, nq) == \A c \in Chans : h2[c] = [h[c] EXCEPT !.q = nq[c]]

LEMMA KeptQueues ==
  ASSUME NEW h, HchanOK(h), NEW nq, NEW h2, NewQueues(h2, h, nq)
  PROVE  Kept(h2, h)
<1>1. ASSUME NEW c \in Chans
      PROVE  SameBuf(h2[c], h[c]) /\ (h[c].closed => h2[c].closed)
  <2>1. PICK q : q = nq[c]
    OBVIOUS
  <2>2. h[c] \in Hchan(c) /\ h2[c] = [h[c] EXCEPT !.q = q]
    BY <2>1 DEF HchanOK, NewQueues
  <2> QED
    BY <2>2 DEF Hchan, SameBuf
<1> QED
  BY <1>1 DEF Kept

LEMMA KeptPolled ==
  ASSUME TypeOK, NEW g \in Gs, NEW n
  PROVE  Kept(selunlock(g, Polled(g, n)), hchan)
<1> DEFINE emptied(c, dir) ==
             /\ Cap[c] = 0
             /\ \E i \in 1..n : Cases(g)[i].c = c /\ Other(Cases(g)[i].dir) = dir
           q2(c) == [dir \in Dirs |-> IF emptied(c, dir) THEN <<>> ELSE hchan[c].q[dir]]
<1>1. PICK nq : nq = [c \in Chans |-> q2(c)]
  OBVIOUS
<1>2. PICK h : h = Polled(g, n)
  OBVIOUS
<1>3. HchanOK(hchan) /\ NewQueues(h, hchan, nq)
  <2>1. h = [c \in Chans |-> [hchan[c] EXCEPT !.q = q2(c)]]
    BY <1>2 DEF Polled
  <2> HIDE DEF q2
  <2> QED
    BY <1>1, <2>1 DEF TypeOK, NewQueues
<1>4. Kept(h, hchan)
  BY <1>3, KeptQueues
<1>5. PICK h2 : h2 = selunlock(g, h)
  OBVIOUS
<1>6. Kept(h2, h)
  <2>1. ASSUME NEW c \in Chans
        PROVE  SameBuf(h2[c], h[c]) /\ (h[c].closed => h2[c].closed)
    <3>1. PICK r : r = h[c]
      OBVIOUS
    <3>2. PICK r2 : r2 = h2[c]
      OBVIOUS
    <3>3. r2 = IF r.lock = g THEN [r EXCEPT !.lock = NoG] ELSE r
      BY <1>5, <3>1, <3>2 DEF selunlock
    <3>4. PICK q : r = [hchan[c] EXCEPT !.q = q]
      BY <1>3, <3>1 DEF NewQueues
    <3>5. hchan[c] \in Hchan(c)
      BY <1>3 DEF HchanOK
    <3>6. SameBuf(r2, r) /\ (r.closed => r2.closed)
      BY <3>3, <3>4, <3>5 DEF Hchan, SameBuf
    <3> QED
      BY <3>1, <3>2, <3>6
  <2> QED
    BY <2>1 DEF Kept
<1> QED
  BY <1>2, <1>4, <1>5, <1>6, KeptMoved

LEMMA ServedMoves ==
  ASSUME IndInv, NEW g \in Gs, NEW i \in DOMAIN Cases(g), Cases(g)[i].dir \in Dirs,
         NEW h, HchanOK(h), Kept(h, hchan), Rendezvous(g, i, h) \/ Buffered(g, i, h)
  PROVE  Moved(hchan', hchan)
<1>1. PICK k : k = Cases(g)[i]
  OBVIOUS
<1>2. k.c \in Chans /\ k.val \in Nat
  BY <1>1, CaseTypes DEF IndInv
<1>3. CASE Rendezvous(g, i, h)
  <2>1. hchan' = SetQueue(h, k.c, Other(k.dir), Peer(h, k).rest)
    BY <1>1, <1>3 DEF Rendezvous, SetQueue
  <2>2. Kept(hchan', h)
    BY <1>2, <2>1, KeptQueue
  <2> QED
    BY <2>2, KeptMoved
<1>4. CASE Buffered(g, i, h)
  <2>1. PICK h1 : h1 = IF k.dir = "send" THEN SendBuf(h, k) ELSE RecvBuf(h, k)
    OBVIOUS
  <2>2. /\ hchan' = SetQueue(h1, k.c, Other(k.dir), Peer(h, k).rest)
        /\ Cap[k.c] > 0 /\ Room(h, k)
    BY <1>1, <1>4, <2>1 DEF Buffered, SetQueue
  <2>3. HchanOK(h1) /\ Moved(h1, h)
    BY <1>2, <2>1, <2>2, BufUpdate
  <2>4. Kept(hchan', h1)
    BY <1>2, <2>2, <2>3, KeptQueue
  <2> QED
    BY <2>3, <2>4, KeptMoved
<1> QED
  BY <1>3, <1>4

LEMMA NotServedKeeps ==
  ASSUME IndInv, NEW g \in Gs, NotServed(g)
  PROVE  Kept(hchan', hchan)
<1>1. PICK k : k = Cases(g)[1]
  OBVIOUS
<1>2. pc[g] = "lock" /\ k.dir \in Dirs
  BY <1>1 DEF NotServed, AtLock, Dirs
<1>3. Cleared(g, hchan) /\ k.c \in Chans
  BY <1>1, <1>2, PlainCase
<1>4. PICK h : h = Passed(hchan, k)
  OBVIOUS
<1>5. HchanOK(hchan) /\ HchanOK(h)
  BY <1>2, <1>3, <1>4, PassedCleared DEF Cleared
<1>6. Kept(h, hchan)
  <2>1. CASE Cap[k.c] = 0
    <3>1. h = SetQueue(hchan, k.c, Other(k.dir), <<>>)
      BY <1>4, <2>1 DEF Passed, SetQueue
    <3> QED
      BY <1>3, <1>5, <3>1, KeptQueue
  <2>2. CASE Cap[k.c] # 0
    BY <1>4, <2>2, KeptMoved DEF Passed
  <2> QED
    BY <2>1, <2>2
<1>7. hchan' = h \/ \E s : hchan' = SetQueue(h, k.c, k.dir, s)
  BY <1>1, <1>4 DEF NotServed, enqueue, SetQueue
<1>8. Kept(hchan', h)
  BY <1>3, <1>5, <1>7, KeptQueue, KeptMoved
<1> QED
  BY <1>6, <1>8, KeptMoved

LEMMA CloseKeeps ==
  ASSUME IndInv, NEW g \in Gs, Closechan(g) \/ CloseRelease(g)
  PROVE  Kept(hchan', hchan)
<1>1. PICK c : c = Cases(g)[1].c
  OBVIOUS
<1>2. c \in Chans /\ HchanOK(hchan)
  BY <1>1, PlainCase, ClosingCase DEF Closechan, CloseRelease, AtLock, IndInv, TypeOK
<1>3. CASE Closechan(g)
  <2>1. PICK h2 : h2 = SetLock(hchan, c, TRUE, g)
    OBVIOUS
  <2>2. hchan' = hchan \/ hchan' = h2
    BY <1>1, <1>3, <2>1 DEF Closechan, SetLock
  <2>3. Kept(hchan', hchan)
    <3>1. Kept(h2, hchan)
      BY <1>2, <2>1, KeptLock
    <3>2. Kept(hchan, hchan)
      BY KeptMoved
    <3> QED
      BY <2>2, <3>1, <3>2
  <2> QED
    BY <2>3
<1>4. CASE CloseRelease(g)
  <2>1. PICK h : /\ h = hchan \/ h = SetQueue(hchan, c, "recv", <<>>)
                 /\ \/ \E d, s : hchan' = SetQueue(h, c, d, s)
                    \/ hchan' = [SetQueue(h, c, "send", <<>>) EXCEPT ![c].lock = NoG]
    <3>1. PICK dir : dir = IF dequeue(hchan[c].q.recv).sg # NoSg THEN "recv" ELSE "send"
      OBVIOUS
    <3>2. PICK p : p = dequeue(hchan[c].q[dir])
      OBVIOUS
    <3>3. PICK h : h = IF dir = "send" THEN [hchan EXCEPT ![c].q.recv = <<>>] ELSE hchan
      OBVIOUS
    <3>4. \/ hchan' = [h EXCEPT ![c].q[dir] = p.rest]
          \/ hchan' = [h EXCEPT ![c].q.send = <<>>, ![c].lock = NoG]
      BY <1>1, <1>4, <3>1, <3>2, <3>3 DEF CloseRelease
    <3>5. \/ hchan' = SetQueue(h, c, dir, p.rest)
          \/ hchan' = [SetQueue(h, c, "send", <<>>) EXCEPT ![c].lock = NoG]
      BY <3>4 DEF SetQueue
    <3>6. h = hchan \/ h = SetQueue(hchan, c, "recv", <<>>)
      BY <3>3 DEF SetQueue
    <3> QED
      BY <3>5, <3>6
  <2>2. HchanOK(h) /\ Kept(h, hchan)
    <3>1. PICK d \in Dirs : d = "recv"
      BY DEF Dirs
    <3>2. PICK s \in Seq(Sudog) : s = <<>>
      BY SmallSeqs
    <3>3. HchanOK(SetQueue(hchan, c, d, s)) /\ Kept(SetQueue(hchan, c, d, s), hchan)
      BY <1>2, QueueUpdate, KeptQueue DEF Requeued
    <3> QED
      BY <1>2, <2>1, <3>1, <3>2, <3>3, KeptMoved
  <2>3. Kept(hchan', h)
    <3>1. CASE \E d, s : hchan' = SetQueue(h, c, d, s)
      BY <1>2, <2>2, <3>1, KeptQueue
    <3>2. CASE hchan' = [SetQueue(h, c, "send", <<>>) EXCEPT ![c].lock = NoG]
      <4>1. PICK d \in Dirs : d = "send"
        BY DEF Dirs
      <4>2. PICK s \in Seq(Sudog) : s = <<>>
        BY SmallSeqs
      <4>3. PICK h2 : h2 = SetQueue(h, c, d, s)
        OBVIOUS
      <4>4. HchanOK(h2) /\ Kept(h2, h)
        BY <1>2, <2>2, <4>3, QueueUpdate, KeptQueue DEF Requeued
      <4>5. hchan' = [h2 EXCEPT ![c].lock = NoG]
        BY <3>2, <4>1, <4>2, <4>3
      <4>6. Kept(hchan', h2)
        BY <1>2, <4>4, <4>5, KeptLock
      <4> QED
        BY <4>4, <4>6, KeptMoved
    <3> QED
      BY <2>1, <3>1, <3>2
  <2> QED
    BY <2>2, <2>3, KeptMoved
<1> QED
  BY <1>3, <1>4

LEMMA SelectKeeps ==
  ASSUME IndInv, NEW g \in Gs,
         Sellock(g) \/ SelectClosed(g) \/ SelectNotServed(g) \/ Pass3(g)
  PROVE  Kept(hchan', hchan)
<1>1. TypeOK /\ HchanOK(hchan) /\ LocksOK(g)
  BY DEF IndInv, TypeOK, LocksInv
<1>2. CASE Sellock(g)
  <2>1. NextLock(g) \in Chans
    <3>1. ToLock(g) # {}
      BY <1>1, <1>2 DEF Sellock, LocksOK
    <3>2. ToLock(g) \subseteq Chans /\ ToLock(g) \in SUBSET Nat
      BY <1>1, CaseTypes, ChanAssumption DEF ToLock, Wanted
    <3> QED
      BY <3>1, <3>2, MinIn DEF NextLock
  <2>2. hchan' = [hchan EXCEPT ![NextLock(g)].lock = g]
    BY <1>2 DEF Sellock
  <2> QED
    BY <1>1, <2>1, <2>2, KeptLock, KeptMoved
<1>4. CASE SelectClosed(g)
  <2>1. PICK n : hchan' = selunlock(g, Polled(g, n))
    BY <1>4 DEF SelectClosed
  <2> QED
    BY <1>1, <2>1, KeptPolled, KeptMoved
<1>5. CASE SelectNotServed(g)
  <2>1. PICK h : h = selunlock(g, Polled(g, Len(Cases(g))))
    OBVIOUS
  <2>2. HchanOK(h) /\ Kept(h, hchan)
    BY <1>1, <2>1, PolledCleared, KeptPolled DEF Cleared
  <2> DEFINE q2(c) == [dir \in Dirs |-> h[c].q[dir] \o Sudogs(g, c, dir)]
  <2>3. hchan' = h \/ hchan' = [c \in Chans |-> [h[c] EXCEPT !.q = q2(c)]]
    BY <1>5, <2>1 DEF SelectNotServed
  <2>4. PICK nq : nq = [c \in Chans |-> q2(c)]
    OBVIOUS
  <2> HIDE DEF q2
  <2>5. hchan' = h \/ NewQueues(hchan', h, nq)
    BY <2>3, <2>4 DEF NewQueues
  <2>6. Kept(hchan', h)
    BY <2>2, <2>5, KeptQueues, KeptMoved
  <2> QED
    BY <2>2, <2>6, KeptMoved
<1>6. CASE Pass3(g)
  <2>1. PICK h : h = Dequeued(g)
    OBVIOUS
  <2> DEFINE q2(c) == [dir \in Dirs |-> Pick(hchan[c].q[dir],
                         {j \in DOMAIN hchan[c].q[dir] : hchan[c].q[dir][j].g # g})]
  <2>2. h = [c \in Chans |-> [hchan[c] EXCEPT !.q = q2(c)]]
    BY <2>1 DEF Dequeued
  <2>3. PICK nq : nq = [c \in Chans |-> q2(c)]
    OBVIOUS
  <2> HIDE DEF q2
  <2>4. NewQueues(h, hchan, nq)
    BY <2>2, <2>3 DEF NewQueues
  <2>5. HchanOK(h) /\ Kept(h, hchan)
    BY <1>1, <2>1, <2>4, KeptQueues, DequeuedQueues
  <2>6. hchan' = h \/ hchan' = hchan \/ hchan' = selunlock(g, h)
    BY <1>6, <2>1 DEF Pass3
  <2>7. hchan' = hchan \/ Kept(hchan', h)
    BY <2>5, <2>6, KeptUnlock, KeptMoved
  <2> QED
    BY <2>5, <2>7, KeptMoved
<1> QED
  BY <1>2, <1>4, <1>5, <1>6

\* What a select that is served starts from.
LEMMA SelectServedFrom ==
  ASSUME IndInv, NEW g \in Gs, SelectServed(g)
  PROVE  \E i, h : /\ i \in DOMAIN Cases(g) /\ Cases(g)[i].dir \in Dirs /\ pc[g] = "pass1"
                   /\ HchanOK(h) /\ Kept(h, hchan) /\ (Rendezvous(g, i, h) \/ Buffered(g, i, h))
                   /\ h = selunlock(g, Polled(g, i - 1))
<1>1. TypeOK /\ HchanOK(hchan) /\ LocksOK(g)
  BY DEF IndInv, TypeOK, LocksInv
<1>2. PICK i : i = First(g)
  OBVIOUS
<1>3. PICK h : h = selunlock(g, Polled(g, i - 1))
  OBVIOUS
<1>4. pc[g] = "pass1" /\ i # 0 /\ (Rendezvous(g, i, h) \/ Buffered(g, i, h))
  BY <1>2, <1>3 DEF SelectServed
<1>5. i \in DOMAIN Cases(g) /\ Cases(g)[i].dir \in Dirs
  BY <1>2, <1>4, FirstCase, SelectCase
<1>6. HchanOK(h) /\ Kept(h, hchan)
  BY <1>1, <1>3, PolledCleared, KeptPolled DEF Cleared
<1> QED
  BY <1>3, <1>4, <1>5, <1>6

\* Every step keeps the buffers, or puts or gets one element; nothing opens again.
LEMMA StepMoves ==
  ASSUME IndInv, NEW g \in Gs, Call(g) \/ ChanStep(g) \/ SelectStep(g)
  PROVE  Moved(hchan', hchan)
<1>1. CASE \/ Call(g) \/ FastFirst(g) \/ FastFail(g) \/ FastSlow(g) \/ MeetsClosed(g)
           \/ Deliver(g) \/ ReadyPeer(g) \/ Woken(g)
  <2>1. hchan' = hchan
    BY <1>1 DEF Call, FastFirst, FastFail, FastSlow, MeetsClosed, Deliver, ReadyPeer, Woken
  <2> QED
    BY <2>1, KeptMoved
<1>2. CASE Served(g)
  <2>1. pc[g] = "lock" /\ Cases(g)[1].dir \in Dirs
    BY <1>2 DEF Served, AtLock, Dirs
  <2>2. 1 \in DOMAIN Cases(g) /\ HchanOK(hchan) /\ Kept(hchan, hchan)
    BY <2>1, PlainCase, KeptMoved DEF Cleared
  <2> QED
    BY <1>2, <2>1, <2>2, ServedMoves DEF Served
<1>3. CASE NotServed(g)
  BY <1>3, NotServedKeeps, KeptMoved
<1>4. CASE Closechan(g) \/ CloseRelease(g)
  BY <1>4, CloseKeeps, KeptMoved
<1>5. CASE SelectStep(g)
  <2>1. CASE Sellock(g) \/ SelectClosed(g) \/ SelectNotServed(g) \/ Pass3(g)
    BY <2>1, SelectKeeps, KeptMoved
  <2>2. CASE SelectServed(g)
    BY <2>2, SelectServedFrom, ServedMoves
  <2> QED
    BY <1>5, <2>1, <2>2 DEF SelectStep
<1> QED
  BY <1>1, <1>2, <1>3, <1>4, <1>5 DEF ChanStep

\* An index beyond the end of the buffer starts again at 0.
Wrapped(c, n) == IF n < Cap[c] THEN n ELSE n - Cap[c]

\* Content, for the state r of channel c.
ContentOf(r, c) == [j \in 1..r.qcount |-> r.buf[Wrapped(c, r.recvx + j - 1)]]

\* The buffer ends where the next element goes.
EndsAt(r, c) == Cap[c] # 0 => r.sendx = Wrapped(c, r.recvx + r.qcount)

BufferInv == \A c \in Chans : EndsAt(hchan[c], c)

LEMMA ModWrap ==
  ASSUME NEW n \in Nat, n # 0, NEW x \in 0..2 * n - 1
  PROVE  x % n = IF x < n THEN x ELSE x - n
OBVIOUS

\* What the fields of a buffer are.
LEMMA BufferFields ==
  ASSUME NEW c \in Chans, NEW r \in Hchan(c)
  PROVE  /\ Cap[c] \in Nat /\ r.qcount \in 0..Cap[c] /\ r.buf \in [0..Cap[c]-1 -> Nat]
         /\ Cap[c] # 0 => r.sendx \in 0..Cap[c]-1 /\ r.recvx \in 0..Cap[c]-1
BY ChanAssumption DEF Hchan, Index

LEMMA ContentSame ==
  ASSUME NEW c \in Chans, NEW r \in Hchan(c)
  PROVE  [j \in 1..r.qcount |-> r.buf[(r.recvx + j - 1) % Cap[c]]] = ContentOf(r, c)
<1>1. ASSUME NEW j \in 1..r.qcount
      PROVE  (r.recvx + j - 1) % Cap[c] = Wrapped(c, r.recvx + j - 1)
  <2>1. PICK n \in Nat : n = Cap[c]
    BY BufferFields
  <2>2. PICK m \in 0..n : m = r.qcount
    BY <2>1, BufferFields
  <2>3. n # 0 /\ j \in 1..m
    BY <2>2
  <2>4. PICK f \in 0..n-1 : f = r.recvx
    BY <2>1, <2>3, BufferFields
  <2>5. PICK x \in 0..2 * n - 1 : x = f + j - 1
    BY <2>3
  <2>6. x % n = IF x < n THEN x ELSE x - n
    BY <2>3, ModWrap
  <2> QED
    BY <2>1, <2>4, <2>5, <2>6 DEF Wrapped
<1> QED
  BY <1>1 DEF ContentOf

LEMMA FifoPut ==
  ASSUME NEW c \in Chans, Cap[c] # 0, NEW r \in Hchan(c), NEW r2 \in Hchan(c), EndsAt(r, c),
         PutsOne(r2, r, c)
  PROVE  /\ EndsAt(r2, c) /\ ContentOf(r2, c) # <<>>
         /\ ContentOf(r, c) = SubSeq(ContentOf(r2, c), 1, Len(ContentOf(r2, c)) - 1)
<1>1. PICK n \in Nat : n = Cap[c] /\ n # 0
  BY BufferFields
<1>2. PICK m \in 0..n-1, f \in 0..n-1, e \in 0..n-1 :
        m = r.qcount /\ f = r.recvx /\ e = r.sendx /\ r.buf \in [0..n-1 -> Nat]
  <2>1. r.qcount \in 0..n /\ r.qcount < n /\ r.recvx \in 0..n-1 /\ r.sendx \in 0..n-1
        /\ r.buf \in [0..n-1 -> Nat]
    BY <1>1, BufferFields DEF PutsOne
  <2>2. r.qcount \in 0..n-1
    BY <2>1
  <2> QED
    BY <2>1, <2>2
<1>3. PICK v \in Nat : r2.buf = [r.buf EXCEPT ![e] = v]
  BY <1>2 DEF PutsOne
<1>4. /\ r2.qcount = m + 1 /\ r2.recvx = f /\ r2.sendx = IF e + 1 = n THEN 0 ELSE e + 1
      /\ e = IF f + m < n THEN f + m ELSE f + m - n
  BY <1>1, <1>2 DEF PutsOne, Next1, EndsAt, Wrapped
<1>5. EndsAt(r2, c)
  <2>1. f + (m + 1) = (f + m) + 1
    OBVIOUS
  <2> QED
    BY <1>1, <1>4, <2>1 DEF EndsAt, Wrapped
<1> DEFINE w(x) == IF x < n THEN x ELSE x - n
<1>6. /\ ContentOf(r, c) = [j \in 1..m |-> r.buf[w(f + j - 1)]]
      /\ ContentOf(r2, c) = [j \in 1..m+1 |-> r2.buf[w(f + j - 1)]]
  BY <1>1, <1>2, <1>4 DEF ContentOf, Wrapped
<1>7. \A j \in 1..m : r2.buf[w(f + j - 1)] = r.buf[w(f + j - 1)]
  <2> TAKE j \in 1..m
  <2>1. w(f + j - 1) \in 0..n-1 /\ w(f + j - 1) # e
    BY <1>4
  <2> QED
    BY <1>2, <1>3, <2>1
<1>8. ASSUME NEW s \in Seq(Nat), Len(s) = m + 1
      PROVE  SubSeq(s, 1, Len(s) - 1) = [j \in 1..m |-> s[j]] /\ s # <<>>
  BY <1>8
<1>9. ContentOf(r2, c) \in Seq(Nat) /\ Len(ContentOf(r2, c)) = m + 1
  <2>1. \A j \in 1..m+1 : r2.buf[w(f + j - 1)] \in Nat
    <3> TAKE j \in 1..m+1
    <3>1. w(f + j - 1) \in 0..n-1
      OBVIOUS
    <3>2. r2.buf \in [0..n-1 -> Nat]
      BY <1>2, <1>3
    <3> HIDE DEF w
    <3> QED
      BY <3>1, <3>2
  <2> HIDE DEF w
  <2> QED
    BY <1>6, <2>1
<1> HIDE DEF w
<1>10. [j \in 1..m |-> ContentOf(r2, c)[j]] = ContentOf(r, c)
  BY <1>6, <1>7
<1> QED
  BY <1>5, <1>8, <1>9, <1>10

LEMMA FifoGet ==
  ASSUME NEW c \in Chans, Cap[c] # 0, NEW r \in Hchan(c), NEW r2 \in Hchan(c), EndsAt(r, c),
         GetsOne(r2, r, c)
  PROVE  /\ EndsAt(r2, c) /\ ContentOf(r, c) # <<>>
         /\ ContentOf(r2, c) = Tail(ContentOf(r, c))
<1>1. PICK n \in Nat : n = Cap[c] /\ n # 0
  BY BufferFields
<1>2. PICK m \in 1..n, f \in 0..n-1, e \in 0..n-1 :
        m = r.qcount /\ f = r.recvx /\ e = r.sendx /\ r.buf \in [0..n-1 -> Nat]
  <2>1. r.qcount \in 0..n /\ r.qcount > 0 /\ r.recvx \in 0..n-1 /\ r.sendx \in 0..n-1
        /\ r.buf \in [0..n-1 -> Nat]
    BY <1>1, BufferFields DEF GetsOne
  <2>2. r.qcount \in 1..n
    BY <2>1
  <2> QED
    BY <2>1, <2>2
<1>3. r2.buf = [r.buf EXCEPT ![f] = 0]
  BY <1>2 DEF GetsOne
<1>4. PICK f2 \in 0..n-1 :
        /\ r2.qcount = m - 1 /\ r2.recvx = f2 /\ f2 = (IF f + 1 = n THEN 0 ELSE f + 1)
        /\ r2.sendx = e /\ e = IF f + m < n THEN f + m ELSE f + m - n
  <2>1. PICK f2 \in 0..n-1 : f2 = (IF f + 1 = n THEN 0 ELSE f + 1)
    OBVIOUS
  <2>2. r2.qcount = m - 1 /\ r2.recvx = f2 /\ r2.sendx = e
    BY <1>1, <1>2, <2>1 DEF GetsOne, Next1
  <2>3. e = IF f + m < n THEN f + m ELSE f + m - n
    BY <1>1, <1>2 DEF EndsAt, Wrapped
  <2> QED
    BY <2>1, <2>2, <2>3
<1>5. EndsAt(r2, c)
  <2>1. e = IF f2 + (m - 1) < n THEN f2 + (m - 1) ELSE f2 + (m - 1) - n
    BY <1>4
  <2> QED
    BY <1>1, <1>4, <2>1 DEF EndsAt, Wrapped
<1> DEFINE w(x) == IF x < n THEN x ELSE x - n
<1>6. /\ ContentOf(r, c) = [j \in 1..m |-> r.buf[w(f + j - 1)]]
      /\ ContentOf(r2, c) = [j \in 1..m-1 |-> r2.buf[w(f2 + j - 1)]]
  BY <1>1, <1>2, <1>4 DEF ContentOf, Wrapped
<1>7. \A j \in 1..m-1 : r2.buf[w(f2 + j - 1)] = r.buf[w(f + (j + 1) - 1)]
  <2> TAKE j \in 1..m-1
  <2>1. w(f2 + j - 1) \in 0..n-1 /\ w(f2 + j - 1) # f /\ w(f2 + j - 1) = w(f + (j + 1) - 1)
    BY <1>4
  <2> HIDE DEF w
  <2> QED
    BY <1>2, <1>3, <2>1
<1>8. ASSUME NEW s \in Seq(Nat), Len(s) = m
      PROVE  Tail(s) = [j \in 1..m-1 |-> s[j + 1]] /\ s # <<>>
  <2>1. s # <<>>
    BY <1>8
  <2>2. Tail(s) \in Seq(Nat) /\ Len(Tail(s)) = m - 1
    BY <1>8, <2>1
  <2>3. Tail(s) = [j \in 1..Len(Tail(s)) |-> Tail(s)[j]]
    <3>1. PICK t \in Seq(Nat) : t = Tail(s)
      BY <2>2
    <3>2. t = [j \in 1..Len(t) |-> t[j]]
      OBVIOUS
    <3> QED
      BY <3>1, <3>2
  <2>4. \A j \in 1..m-1 : Tail(s)[j] = s[j + 1]
    BY <1>8, <2>1
  <2> QED
    BY <2>1, <2>2, <2>3, <2>4
<1>9. ContentOf(r, c) \in Seq(Nat) /\ Len(ContentOf(r, c)) = m
  <2>1. \A j \in 1..m : r.buf[w(f + j - 1)] \in Nat
    <3> TAKE j \in 1..m
    <3>1. w(f + j - 1) \in 0..n-1
      OBVIOUS
    <3> HIDE DEF w
    <3> QED
      BY <1>2, <3>1
  <2> HIDE DEF w
  <2> QED
    BY <1>6, <2>1
<1> HIDE DEF w
<1>10. \A j \in 1..m-1 : j + 1 \in 1..m
  OBVIOUS
<1>11. [j \in 1..m-1 |-> ContentOf(r, c)[j + 1]] = ContentOf(r2, c)
  BY <1>6, <1>7, <1>10
<1> QED
  BY <1>5, <1>8, <1>9, <1>11

Fifo(t, s) ==
  \/ t = s
  \/ s # <<>> /\ t = Tail(s)
  \/ t # <<>> /\ s = SubSeq(t, 1, Len(t) - 1)

LEMMA FifoStep ==
  ASSUME NEW c \in Chans, NEW r \in Hchan(c), NEW r2 \in Hchan(c), EndsAt(r, c),
         \/ SameBuf(r2, r)
         \/ Cap[c] # 0 /\ (PutsOne(r2, r, c) \/ GetsOne(r2, r, c))
  PROVE  EndsAt(r2, c) /\ Fifo(ContentOf(r2, c), ContentOf(r, c))
<1>1. CASE SameBuf(r2, r)
  BY <1>1 DEF SameBuf, EndsAt, ContentOf, Fifo
<1>2. CASE Cap[c] # 0 /\ PutsOne(r2, r, c)
  BY <1>2, FifoPut DEF Fifo
<1>3. CASE Cap[c] # 0 /\ GetsOne(r2, r, c)
  BY <1>3, FifoGet DEF Fifo
<1> QED
  BY <1>1, <1>2, <1>3

LEMMA NextMoves == IndInv /\ [Next]_vars => Moved(hchan', hchan)
<1> SUFFICES ASSUME IndInv, [Next]_vars PROVE Moved(hchan', hchan)
  OBVIOUS
<1>1. CASE Next
  BY <1>1, StepMoves DEF Next
<1>2. CASE UNCHANGED vars
  BY <1>2, KeptMoved DEF vars
<1> QED
  BY <1>1, <1>2

LEMMA NextFifo ==
  ASSUME IndInv, IndInv', BufferInv, [Next]_vars
  PROVE  BufferInv' /\ \A c \in Chans : Fifo(Content(c)', Content(c))
<1>1. ASSUME NEW c \in Chans
      PROVE  EndsAt(hchan'[c], c) /\ Fifo(Content(c)', Content(c))
  <2>1. PICK r : r = hchan[c]
    OBVIOUS
  <2>2. PICK r2 : r2 = hchan'[c]
    OBVIOUS
  <2>3. r \in Hchan(c) /\ r2 \in Hchan(c)
    BY <2>1, <2>2 DEF IndInv, TypeOK, HchanOK
  <2>4. EndsAt(r, c)
    BY <2>1 DEF BufferInv
  <2>5. \/ SameBuf(r2, r)
        \/ Cap[c] # 0 /\ (PutsOne(r2, r, c) \/ GetsOne(r2, r, c))
    BY <2>1, <2>2, NextMoves DEF Moved
  <2>6. EndsAt(r2, c) /\ Fifo(ContentOf(r2, c), ContentOf(r, c))
    BY <2>3, <2>4, <2>5, FifoStep
  <2>7. Content(c) = ContentOf(r, c)
    BY <2>1, <2>3, ContentSame DEF Content
  <2>8. Content(c)' = ContentOf(r2, c)
    BY <2>2, <2>3, ContentSame DEF Content
  <2> QED
    BY <2>2, <2>6, <2>7, <2>8
<1> QED
  BY <1>1 DEF BufferInv

LEMMA InitBuffer == Init => BufferInv
<1> SUFFICES ASSUME Init, NEW c \in Chans, Cap[c] # 0
             PROVE  hchan[c].sendx = Wrapped(c, hchan[c].recvx + hchan[c].qcount)
  BY DEF BufferInv, EndsAt
<1>1. hchan[c].sendx = 0 /\ hchan[c].recvx = 0 /\ hchan[c].qcount = 0
  BY DEF Init
<1>2. Cap[c] \in Nat
  BY ChanAssumption
<1> QED
  BY <1>1, <1>2 DEF Wrapped

\* A buffer always ends where the next element goes.
LEMMA SpecBuffer == Spec => []BufferInv
<1>1. IndInv /\ IndInv' /\ BufferInv /\ [Next]_vars => BufferInv'
  BY NextFifo
<1> QED
  BY <1>1, InitBuffer, SpecInv, PTL DEF Spec

(***************************************************************************)
(* The buffer of a channel is first in, first out: a step leaves it as it  *)
(* is, takes the oldest element or adds one behind the newest, wherever    *)
(* sendx and recvx stand and for every capacity.                           *)
(***************************************************************************)
THEOREM SelectIsFifo == Spec => FifoBuffer
<1>1. IndInv /\ IndInv' /\ BufferInv /\ [Next]_vars =>
        [\A c \in Chans :
           \/ Content(c)' = Content(c)
           \/ Content(c) # <<>> /\ Content(c)' = Tail(Content(c))
           \/ /\ Content(c)' # <<>>
              /\ Content(c) = SubSeq(Content(c)', 1, Len(Content(c)') - 1)]_vars
  BY NextFifo DEF Fifo
<1> QED
  BY <1>1, SpecInv, SpecBuffer, PTL DEF Spec, FifoBuffer

----------------------------------------------------------------------------
(* The unlocked fast path *)

Fast(l) == l \in {"fast", "fastq", "fastc"}

\* Only a receive that found nothing goes on to read closed; from then on it
\* has seen an open channel with nothing to receive, or the channel is closed.
FastOK(g) ==
  /\ pc[g] = "fast" => ~call[g].block
  /\ pc[g] = "fastq" => Cases(g)[1].dir = "send"
  /\ pc[g] = "fastc" /\ Cases(g)[1].dir = "recv" =>
       seen[g] \/ hchan[Cases(g)[1].c].closed

FastInv == \A g \in Gs : FastOK(g)

\* A goroutine is on the fast path because it was there and nobody touched it,
\* or because it has just called or made its first read.
Enters(g, x) ==
  \/ ~Fast(pc'[x])
  \/ pc'[x] = pc[x] /\ call'[x] = call[x]
  \/ x = g /\ (Call(g) \/ FastFirst(g))

LEMMA EntersReturn ==
  ASSUME TypeOK, NEW g \in Gs, NEW x \in Gs, NEW i, NEW v, Return(g, i, v)
  PROVE  Enters(g, x)
BY DEF TypeOK, Return, Result, Goto, Enters, Fast

LEMMA EntersGoto ==
  ASSUME TypeOK, NEW g \in Gs, NEW x \in Gs, NEW l, Goto(g, l), call' = call, ~Fast(l)
  PROVE  Enters(g, x)
BY DEF TypeOK, Goto, Enters, Fast

LEMMA EntersGoready ==
  ASSUME TypeOK, NEW g \in Gs, NEW x \in Gs, NEW to, NEW l, Goready(g, to, l), ~Fast(l),
         call' = call \/ call' = [call EXCEPT ![g] = NoCall]
  PROVE  Enters(g, x)
BY DEF TypeOK, Goto, Goready, Enters, Fast

LEMMA EntersServed ==
  ASSUME TypeOK, NEW g \in Gs, NEW x \in Gs, NEW i, NEW h,
         Rendezvous(g, i, h) \/ Buffered(g, i, h)
  PROVE  Enters(g, x)
<1>1. ~Fast("deliver") /\ ~Fast("ready")
  BY DEF Fast
<1>2. CASE Rendezvous(g, i, h)
  <2>1. Goto(g, "deliver") /\ call' = call
    BY <1>2 DEF Rendezvous
  <2> QED
    BY <1>1, <2>1, EntersGoto
<1>3. CASE Buffered(g, i, h)
  <2>1. \/ \E v : Return(g, i, v)
        \/ Goto(g, "ready") /\ call' = call
    BY <1>3 DEF Buffered
  <2> QED
    BY <1>1, <2>1, EntersGoto, EntersReturn
<1> QED
  BY <1>2, <1>3

LEMMA StepEnters ==
  ASSUME TypeOK, NEW g \in Gs, Call(g) \/ ChanStep(g) \/ SelectStep(g), NEW x \in Gs
  PROVE  Enters(g, x)
<1> USE DEF Fast
<1>1. CASE Call(g) \/ FastFirst(g)
  BY <1>1 DEF Call, FastFirst, Goto, TypeOK, Enters
<1>2. CASE FastFail(g)
  BY <1>2, EntersReturn DEF FastFail
<1>3. CASE FastSlow(g)
  BY <1>3, EntersGoto DEF FastSlow
<1>4. CASE MeetsClosed(g)
  BY <1>4, EntersReturn DEF MeetsClosed
<1>5. CASE Served(g)
  BY <1>5, EntersServed DEF Served
<1>6. CASE NotServed(g)
  BY <1>6, EntersGoto, EntersReturn DEF NotServed
<1>7. CASE Deliver(g)
  BY <1>7, EntersGoready DEF Deliver, Result
<1>8. CASE ReadyPeer(g)
  <2>1. Goready(g, wake[g].sg.g, "idle") /\ Result(g, wake[g].i, got[g])
    BY <1>8 DEF ReadyPeer
  <2>2. call' = [call EXCEPT ![g] = NoCall]
    BY <2>1 DEF Result
  <2>3. PICK to : Goready(g, to, "idle")
    BY <2>1
  <2> QED
    BY <2>2, <2>3, EntersGoready
<1>9. CASE Woken(g)
  BY <1>9, EntersGoto, EntersReturn DEF Woken
<1>10. CASE Closechan(g)
  BY <1>10, EntersGoto, EntersReturn DEF Closechan
<1>11. CASE CloseRelease(g)
  <2>1. \/ call' = call /\ \E to : Goready(g, to, "closing")
        \/ Return(g, 0, 0)
    BY <1>11 DEF CloseRelease
  <2> QED
    BY <2>1, EntersGoready, EntersReturn
<1>12. CASE Sellock(g)
  <2>1. call' = call /\ (pc' = pc \/ Goto(g, "pass3") \/ Goto(g, "pass1"))
    BY <1>12 DEF Sellock
  <2> QED
    BY <2>1, EntersGoto DEF Enters
<1>13. CASE SelectServed(g)
  BY <1>13, EntersServed DEF SelectServed
<1>14. CASE SelectClosed(g)
  <2>1. \E i : Return(g, i, 0)
    BY <1>14 DEF SelectClosed
  <2> QED
    BY <2>1, EntersReturn
<1>15. CASE SelectNotServed(g)
  BY <1>15, EntersGoto, EntersReturn DEF SelectNotServed
<1>16. CASE Pass3(g)
  BY <1>16, EntersGoto, EntersReturn DEF Pass3
<1> QED
  BY <1>1, <1>2, <1>3, <1>4, <1>5, <1>6, <1>7, <1>8, <1>9, <1>10, <1>11, <1>12, <1>13, <1>14,
     <1>15, <1>16 DEF ChanStep, SelectStep

\* The first read of a receive that finds nothing on an open channel.
LEMMA FirstReadSees ==
  ASSUME IndInv, FastInv, NEW g \in Gs, FastFirst(g), Observe,
         pc'[g] = "fastc", Cases(g)[1].dir = "recv", ~hchan[Cases(g)[1].c].closed
  PROVE  seen'[g]
<1>1. PICK k : k = Cases(g)[1]
  OBVIOUS
<1>2. /\ pc[g] = "fast" /\ LooksUnready(k)
      /\ hchan' = hchan /\ call' = call /\ done' = done
  BY <1>1 DEF FastFirst, Goto, IndInv, TypeOK
<1>3. ~call[g].sel /\ ~call[g].block /\ k.c \in Chans /\ k.dir = "recv"
  BY <1>1, <1>2, CaseTypes, PlainCase DEF IndInv, CallsInv, CallOK, Plain, FastInv, FastOK
<1>4. ~Able(hchan, k)'
  <2>1. CASE Cap[k.c] = 0
    <3>1. hchan[k.c].q["send"] = <<>>
      BY <1>2, <1>3, <2>1 DEF LooksUnready, Other
    <3>2. SelectInSeq(<<>>, Unsignalled)' = 0
      BY DEF SelectInSeq
    <3>3. dequeue(<<>>)'.sg = NoSg
      BY <3>2 DEF dequeue
    <3> QED
      BY <1>2, <1>3, <2>1, <3>1, <3>3 DEF Able, Peer, Other
  <2>2. CASE Cap[k.c] # 0
    BY <1>2, <1>3, <2>2 DEF Able, Room, LooksUnready
  <2> QED
    BY <2>1, <2>2
<1>5. Unready(g)'
  BY <1>1, <1>2, <1>3, <1>4 DEF Unready, Cases
<1> QED
  BY <1>5 DEF Observe

LEMMA FastNext ==
  ASSUME IndInv, IndInv', FastInv, [Next]_vars
  PROVE  FastInv'
<1>1. CASE UNCHANGED vars
  BY <1>1 DEF vars, FastInv, FastOK, Cases
<1>2. CASE Next
  <2>1. PICK g \in Gs : (Call(g) \/ ChanStep(g) \/ SelectStep(g)) /\ Observe
    BY <1>2 DEF Next
  <2>2. ASSUME NEW x \in Gs
        PROVE  FastOK(x)'
    <3>1. Enters(g, x)
      BY <2>1, StepEnters DEF IndInv
    <3>2. FastOK(x)
      BY DEF FastInv
    <3>3. CASE ~Fast(pc'[x])
      BY <3>3 DEF FastOK, Fast
    <3>4. CASE pc'[x] = pc[x] /\ call'[x] = call[x]
      <4>1. seen[x] /\ pc'[x] = "fastc" => seen'[x]
        BY <2>1 DEF Observe
      <4>2. pc[x] = "fastc" => Cases(x)[1].c \in Chans
        BY CaseTypes DEF IndInv, CallsInv, CallOK
      <4>3. \A c \in Chans : hchan[c].closed => hchan'[c].closed
        BY NextMoves DEF Moved
      <4> QED
        BY <3>2, <3>4, <4>1, <4>2, <4>3 DEF FastOK, Cases
    <3>5. CASE x = g /\ Call(g)
      <4>1. PICK s, cs :
              /\ s \in MayCall[g]
              /\ call' = [call EXCEPT ![g] = [s EXCEPT !.cases = cs]]
              /\ Goto(g, IF s.sel THEN "sellock" ELSE IF s.block THEN "lock" ELSE "fast")
        BY <3>5 DEF Call
      <4>2. s \in [sel: BOOLEAN, block: BOOLEAN,
                   cases: Seq([dir: Dirs \cup {"close"}, c: Chans])]
        BY <4>1, CallsAssumption
      <4>3. call'[g].block = s.block
        BY <4>1, <4>2 DEF IndInv, TypeOK
      <4>4. pc'[g] \notin {"fastq", "fastc"} /\ (pc'[g] = "fast" => ~s.block)
        BY <4>1 DEF Goto, IndInv, TypeOK
      <4> QED
        BY <3>5, <4>3, <4>4 DEF FastOK
    <3>6. CASE x = g /\ FastFirst(g)
      <4>1. Cases(g)' = Cases(g) /\ hchan' = hchan
        BY <3>6 DEF FastFirst, Cases
      <4>2. pc'[g] \in {"fastc", "fastq", "lock"} /\ (pc'[g] = "fastq" => Cases(g)[1].dir = "send")
        BY <3>6 DEF FastFirst, Goto, IndInv, TypeOK
      <4>3. pc'[g] = "fastc" /\ Cases(g)[1].dir = "recv" => seen'[g] \/ hchan[Cases(g)[1].c].closed
        BY <2>1, <3>6, FirstReadSees
      <4> QED
        BY <3>6, <4>1, <4>2, <4>3 DEF FastOK
    <3> QED
      BY <3>1, <3>3, <3>4, <3>5, <3>6 DEF Enters
  <2> QED
    BY <2>2 DEF FastInv
<1> QED
  BY <1>1, <1>2

LEMMA InitFast == Init => FastInv
BY DEF Init, FastInv, FastOK

LEMMA SpecFast == Spec => []FastInv
<1>1. IndInv /\ IndInv' /\ FastInv /\ [Next]_vars => FastInv'
  BY FastNext
<1> QED
  BY <1>1, InitFast, SpecInv, PTL DEF Spec

(***************************************************************************)
(* A receive that fails on the unlocked fast path of chanrecv has met, at  *)
(* some moment of its call, an open channel with nothing to receive: it    *)
(* reads the queue before closed, and a closed channel never opens again.  *)
(***************************************************************************)
THEOREM SelectFastPathHonest == Spec => FastPathHonest
<1>1. FastInv => \A g \in Gs : FastFail(g) /\ Cases(g)[1].dir = "recv" => seen[g]
  BY DEF FastInv, FastOK, FastFail
<1>2. FastInv /\ [Next]_vars =>
        [\A g \in Gs : FastFail(g) /\ Cases(g)[1].dir = "recv" => seen[g]]_vars
  BY <1>1
<1> QED
  BY <1>2, SpecFast, PTL DEF Spec, FastPathHonest

----------------------------------------------------------------------------
(* Where the values are *)

\* The case of g that has been served while g has not returned yet, 0 if none.
Fired(g) == IF pc[g] = "ready" THEN wake[g].i ELSE param[g]

\* A value that a receive has got, or is bound to get.
GivenBy(g, v) == Fired(g) # 0 /\ Cases(g)[Fired(g)].val = v
Given(v) == out[v] = "sent" \/ \E g \in Gs : GivenBy(g, v)

\* Where v is: in buffers, and with goroutines.
Slots(v) == {s \in Chans \X Nat : s[2] \in 0..Cap[s[1]]-1 /\ hchan[s[1]].buf[s[2]] = v}
Hands(v) == {g \in Gs : got[g] = v}

\* A value is in one place if it is given, and nowhere if not: in the slots S,
\* with the goroutines H or received, n times.
One(S, H, n, given) ==
  /\ S = {} \/ \E s : S = {s} /\ H = {} /\ n = 0
  /\ H = {} \/ \E g : H = {g} /\ n = 0
  /\ n \in {0, 1}
  /\ given <=> S # {} \/ H # {} \/ n = 1

PlaceInv == \A v \in Vals : One(Slots(v), Hands(v), in[v], Given(v))

\* Every send has a value of its own, which is unsent until it returns.
Pending(g, v) == \E i \in DOMAIN Cases(g) : Cases(g)[i].val = v

NumberInv ==
  /\ \A g \in Gs : \A i \in DOMAIN Cases(g) :
       /\ Cases(g)[i].val <= nv
       /\ Cases(g)[i].val # 0 => Cases(g)[i].dir = "send"
  /\ \A g \in Gs, v \in Vals : Pending(g, v) => out[v] = "unsent"
  /\ \A g, h \in Gs, v \in Vals : \A i \in DOMAIN Cases(g), j \in DOMAIN Cases(h) :
       Cases(g)[i].val = v /\ Cases(h)[j].val = v => g = h /\ i = j
  /\ \A v \in Vals : v > nv => out[v] = "unsent"

\* A goroutine holds a value only after it was served; param says that a
\* synchronous channel has served it.
HandOK(g) ==
  /\ Fired(g) = 0 => got[g] = 0
  /\ param[g] # 0 => /\ pc[g] \in {"woken", "pass3"} /\ param[g] \in DOMAIN Cases(g)
                     /\ Cap[Cases(g)[param[g]].c] = 0

HandInv == got \in [Gs -> Nat] /\ \A g \in Gs : HandOK(g)

\* Those who are about to meet have opposite cases.
PeerInv ==
  \A g \in Gs : pc[g] = "deliver" =>
    Cases(wake[g].sg.g)[wake[g].sg.i].dir = Other(Cases(g)[wake[g].i].dir)

\* What is not in the buffer has been cleared.
ClearOf(r, c) ==
  \A k \in 0..Cap[c]-1 :
    r.buf[k] # 0 => \E j \in 1..r.qcount : k = Wrapped(c, r.recvx + j - 1)

ClearInv == \A c \in Chans : ClearOf(hchan[c], c)

ValueInv == PlaceInv /\ NumberInv /\ HandInv /\ PeerInv /\ ClearInv

LEMMA OneFacts ==
  ASSUME NEW S, NEW H, NEW n, NEW b, One(S, H, n, b)
  PROVE  /\ ~b => S = {} /\ H = {} /\ n = 0
         /\ \A s \in S : S = {s} /\ H = {} /\ n = 0 /\ b
         /\ \A g \in H : S = {} /\ H = {g} /\ n = 0 /\ b
BY DEF One

LEMMA OneCases ==
  /\ One({}, {}, 0, FALSE) /\ One({}, {}, 1, TRUE)
  /\ \A s : One({s}, {}, 0, TRUE) /\ One({}, {s}, 0, TRUE)
BY DEF One

----------------------------------------------------------------------------
(* What a step may do to the values *)

Same(x) == Fired(x)' = Fired(x) /\ got'[x] = got[x] /\ Cases(x)' = Cases(x)
SameBufs == \A c \in Chans : hchan'[c].buf = hchan[c].buf

\* Nothing happens to any value.
QuietStep ==
  SameBufs /\ nv' = nv /\ out' = out /\ in' = in /\ \A x \in Gs : Same(x)

\* The call of g ends after case i was served, or none.
Ends(g, i, v) ==
  /\ Result(g, i, v) /\ nv' = nv
  /\ i \in {0} \cup DOMAIN Cases(g)
  /\ Cases(g)' = <<>> /\ Fired(g)' = 0 /\ got'[g] = 0

\* The call of g ends; what it was given is received.
EndStep(g, i) ==
  /\ Ends(g, i, got[g])
  /\ \/ Fired(g) = i
     \/ Fired(g) = 0 /\ Cases(g)[i].val = 0
  /\ SameBufs /\ \A x \in Gs \ {g} : Same(x)

\* g gives the value of its case i to x, or takes the value of the case of x.
MeetStep(g, i, x) ==
  /\ x \in Gs \ {g} /\ Fired(g) = 0 /\ Fired(x) = 0
  /\ Fired(x)' \in DOMAIN Cases(x) /\ Fired(x)' # 0 /\ Cases(x)' = Cases(x) /\ got[x] = 0 /\ got[g] = 0
  /\ \/ /\ Ends(g, i, 0) /\ i # 0
        /\ Cases(x)[Fired(x)'].val = 0 /\ got'[x] = Cases(g)[i].val
     \/ /\ Ends(g, i, Cases(x)[Fired(x)'].val) /\ i # 0
        /\ Cases(g)[i].val = 0 /\ got'[x] = 0
  /\ SameBufs /\ \A y \in Gs \ {g, x} : Same(y)

LEMMA SlotsSame ==
  ASSUME SameBufs, NEW v
  PROVE  Slots(v)' = Slots(v)
BY DEF SameBufs, Slots

LEMMA QuietValues ==
  ASSUME PlaceInv, NumberInv, QuietStep
  PROVE  PlaceInv' /\ NumberInv'
<1>1. \A v : Slots(v)' = Slots(v)
  BY SlotsSame DEF QuietStep
<1>2. \A v : Hands(v)' = Hands(v)
  BY DEF QuietStep, Same, Hands
<1>3. \A g \in Gs : \A v : GivenBy(g, v)' = GivenBy(g, v)
  BY DEF QuietStep, Same, GivenBy
<1>4. \A v : Given(v)' = Given(v)
  BY <1>3 DEF Given, QuietStep
<1>5. PlaceInv'
  BY <1>1, <1>2, <1>4 DEF PlaceInv, QuietStep
<1>6. NumberInv'
  BY DEF NumberInv, Pending, QuietStep, Same
<1> QED
  BY <1>5, <1>6

\* What Result does to out, and to the values that are given.
LEMMA EndsOut ==
  ASSUME TypeOK, NumberInv, NEW g \in Gs, NEW i, NEW v, Ends(g, i, v), NEW w \in Vals
  PROVE  /\ out'[w] = "sent" <=> out[w] = "sent" \/ (i # 0 /\ Cases(g)[i].val = w)
         /\ ~Pending(g, w) => out'[w] = out[w]
         /\ ~GivenBy(g, w)'
         /\ in'[w] = IF w = v THEN in[w] + 1 ELSE in[w]
<1>1. i > 0 <=> i # 0
  BY CaseTypes DEF Ends
<1>2. /\ out'[w] = IF ~Pending(g, w) THEN out[w]
                   ELSE IF i > 0 /\ Cases(g)[i].val = w THEN "sent" ELSE "failed"
      /\ in'[w] = IF w = v THEN in[w] + 1 ELSE in[w]
  BY DEF Ends, Result, Pending
<1>3. Pending(g, w) => out[w] # "sent"
  BY DEF NumberInv
<1>4. i # 0 /\ Cases(g)[i].val = w => Pending(g, w)
  BY DEF Ends, Pending
<1>5. ~GivenBy(g, w)'
  BY DEF Ends, GivenBy
<1> QED
  BY <1>1, <1>2, <1>3, <1>4, <1>5

LEMMA EndsNumber ==
  ASSUME TypeOK, NumberInv, NEW g \in Gs, NEW i, NEW v, Ends(g, i, v),
         \A x \in Gs \ {g} : Cases(x)' = Cases(x)
  PROVE  NumberInv'
<1>1. /\ Cases(g)' = <<>> /\ DOMAIN Cases(g)' = {} /\ nv' = nv
      /\ \A x \in Gs : Cases(x)' = Cases(x) \/ Cases(x)' = <<>>
  BY DEF Ends
<1>2. DOMAIN <<>> = {}
  OBVIOUS
<1>3. \A x \in Gs : \A j \in (DOMAIN Cases(x))' :
        x # g /\ Cases(x)' = Cases(x) /\ j \in DOMAIN Cases(x)
  BY <1>1, <1>2
<1>4. ASSUME NEW x \in Gs, NEW w \in Vals, Pending(x, w)'
      PROVE  out'[w] = "unsent"
  <2>1. Pending(x, w) /\ x # g
    BY <1>3, <1>4 DEF Pending
  <2>2. ~Pending(g, w) /\ out[w] = "unsent"
    BY <2>1 DEF NumberInv, Pending
  <2> QED
    BY <2>2, EndsOut
<1>5. ASSUME NEW w \in Vals, w > nv
      PROVE  out'[w] = "unsent"
  <2>1. ~Pending(g, w)
    BY <1>5, CaseTypes DEF NumberInv, Pending, Vals, TypeOK
  <2> QED
    BY <1>5, <2>1, EndsOut DEF NumberInv
<1>6. \A x \in Gs : \A j \in (DOMAIN Cases(x))' :
        /\ Cases(x)'[j].val <= nv
        /\ Cases(x)'[j].val # 0 => Cases(x)'[j].dir = "send"
  BY <1>3 DEF NumberInv
<1>7. \A x, h \in Gs, w \in Vals : \A k \in (DOMAIN Cases(x))', j \in (DOMAIN Cases(h))' :
        Cases(x)'[k].val = w /\ Cases(h)'[j].val = w => x = h /\ k = j
  BY <1>3 DEF NumberInv
<1> QED
  BY <1>1, <1>4, <1>5, <1>6, <1>7 DEF NumberInv

\* A value is pending at one goroutine, and only the case it belongs to gives it.
LEMMA PendingOnce ==
  ASSUME NumberInv, NEW g \in Gs, NEW i \in DOMAIN Cases(g), NEW v \in Vals, Cases(g)[i].val = v,
         \A x \in Gs : Fired(x) # 0 => Fired(x) \in DOMAIN Cases(x)
  PROVE  /\ out[v] = "unsent"
         /\ \A x \in Gs : GivenBy(x, v) => x = g /\ Fired(g) = i
BY DEF NumberInv, Pending, GivenBy

LEMMA FiredCase ==
  ASSUME IndInv, HandInv, NEW x \in Gs, Fired(x) # 0
  PROVE  Fired(x) \in DOMAIN Cases(x)
BY DEF IndInv, WakeInv, Waking, HandInv, HandOK, Fired

LEMMA EndValues ==
  ASSUME IndInv, PlaceInv, NumberInv, HandInv, NEW g \in Gs, NEW i, EndStep(g, i)
  PROVE  PlaceInv' /\ NumberInv'
<1> USE DEF EndStep
<1>1. TypeOK /\ \A x \in Gs : Fired(x) # 0 => Fired(x) \in DOMAIN Cases(x)
  BY FiredCase DEF IndInv
<1>2. NumberInv'
  BY <1>1, EndsNumber DEF Same
<1>3. ASSUME NEW v \in Vals
      PROVE  One(Slots(v), Hands(v), in[v], Given(v))'
  <2>1. Slots(v)' = Slots(v)
    BY SlotsSame
  <2>2. v # 0
    BY DEF Vals
  <2>3. /\ out'[v] = "sent" <=> out[v] = "sent" \/ (i # 0 /\ Cases(g)[i].val = v)
        /\ ~GivenBy(g, v)'
        /\ in'[v] = IF v = got[g] THEN in[v] + 1 ELSE in[v]
    BY <1>1, EndsOut
  <2>4. \A x \in Gs \ {g} : GivenBy(x, v)' = GivenBy(x, v)
    BY DEF Same, GivenBy
  <2>5. GivenBy(g, v) <=> i # 0 /\ Cases(g)[i].val = v
    BY <2>2 DEF GivenBy
  <2>6. Given(v)' = Given(v)
    BY <2>3, <2>4, <2>5 DEF Given
  <2>7. Hands(v)' = Hands(v) \ {g}
    BY <2>2 DEF Hands, Same, Ends
  <2>8. One(Slots(v), Hands(v), in[v], Given(v))
    BY DEF PlaceInv
  <2>9. CASE got[g] = v
    <3>1. g \in Hands(v)
      BY <2>9 DEF Hands
    <3>2. Slots(v) = {} /\ Hands(v) = {g} /\ in[v] = 0 /\ Given(v)
      BY <2>8, <3>1, OneFacts
    <3>3. Slots(v)' = {} /\ Hands(v)' = {} /\ in'[v] = 1 /\ Given(v)' = TRUE
      BY <2>1, <2>3, <2>6, <2>7, <2>9, <3>2
    <3> QED
      BY <3>3, OneCases
  <2>10. CASE got[g] # v
    <3>1. Hands(v)' = Hands(v) /\ in'[v] = in[v]
      BY <2>3, <2>7, <2>10 DEF Hands
    <3> QED
      BY <2>1, <2>6, <2>8, <3>1
  <2> QED
    BY <2>9, <2>10
<1> QED
  BY <1>2, <1>3 DEF PlaceInv

LEMMA MeetValues ==
  ASSUME IndInv, PlaceInv, NumberInv, HandInv, NEW g \in Gs, NEW i, NEW x, MeetStep(g, i, x)
  PROVE  PlaceInv' /\ NumberInv'
<1>1. TypeOK /\ \A y \in Gs : Fired(y) # 0 => Fired(y) \in DOMAIN Cases(y)
  BY FiredCase DEF IndInv
<1>2. PICK u : /\ Ends(g, i, u) /\ i # 0 /\ i \in DOMAIN Cases(g)
               /\ \/ u = 0 /\ Cases(x)[Fired(x)'].val = 0 /\ got'[x] = Cases(g)[i].val
                  \/ u = Cases(x)[Fired(x)'].val /\ Cases(g)[i].val = 0 /\ got'[x] = 0
  BY DEF MeetStep, Ends
<1>3. x \in Gs /\ x # g /\ \A y \in Gs \ {g} : Cases(y)' = Cases(y)
  BY DEF MeetStep, Same
<1>4. NumberInv'
  BY <1>1, <1>2, <1>3, EndsNumber
<1>5. PICK j : j = Fired(x)' /\ j \in DOMAIN Cases(x) /\ j # 0
  BY DEF MeetStep
<1>6. ASSUME NEW v \in Vals
      PROVE  One(Slots(v), Hands(v), in[v], Given(v))'
  <2>1. Slots(v)' = Slots(v)
    BY SlotsSame DEF MeetStep
  <2>2. v # 0
    BY DEF Vals
  <2>3. /\ out'[v] = "sent" <=> out[v] = "sent" \/ Cases(g)[i].val = v
        /\ ~GivenBy(g, v)'
        /\ in'[v] = IF v = u THEN in[v] + 1 ELSE in[v]
    BY <1>1, <1>2, EndsOut
  <2>4. \A y \in Gs \ {g, x} : GivenBy(y, v)' = GivenBy(y, v)
    BY DEF Same, GivenBy, MeetStep
  <2>5. GivenBy(x, v)' <=> Cases(x)[j].val = v
    BY <1>3, <1>5 DEF GivenBy
  <2>6. ~GivenBy(g, v) /\ ~GivenBy(x, v)
    BY DEF GivenBy, MeetStep
  <2>7. Given(v)' <=> Given(v) \/ Cases(g)[i].val = v \/ Cases(x)[j].val = v
    BY <1>3, <2>3, <2>4, <2>5, <2>6 DEF Given
  <2>8. Cases(g)[i].val = v \/ Cases(x)[j].val = v => ~Given(v)
    <3>1. ASSUME NEW y \in Gs, NEW k \in DOMAIN Cases(y), Cases(y)[k].val = v, ~GivenBy(y, v)
          PROVE  ~Given(v)
      <4>1. out[v] = "unsent" /\ \A z \in Gs : GivenBy(z, v) => z = y
        BY <1>1, <3>1, PendingOnce
      <4> QED
        BY <3>1, <4>1 DEF Given
    <3> QED
      BY <1>2, <1>3, <1>5, <2>6, <3>1
  <2>9. One(Slots(v), Hands(v), in[v], Given(v))
    BY DEF PlaceInv
  <2>10. \A y \in Gs \ {x} : got'[y] = v <=> got[y] = v
    BY <1>2, <2>2 DEF MeetStep, Same, Ends
  <2>11. got[x] # v /\ x \notin Hands(v)
    BY <2>2 DEF MeetStep, Hands
  <2>12. CASE Cases(g)[i].val = v
    <3>1. Slots(v) = {} /\ Hands(v) = {} /\ in[v] = 0
      BY <2>8, <2>9, <2>12, OneFacts
    <3>2. got'[x] = v /\ u # v
      BY <1>2, <2>2, <2>12
    <3>3. Hands(v)' = {x}
      BY <1>3, <2>10, <3>1, <3>2 DEF Hands
    <3>4. Slots(v)' = {} /\ in'[v] = 0 /\ Given(v)' = TRUE
      BY <2>1, <2>3, <2>7, <2>12, <3>1, <3>2 DEF Given
    <3> QED
      BY <3>3, <3>4, OneCases
  <2>13. CASE Cases(x)[j].val = v
    <3>1. Slots(v) = {} /\ Hands(v) = {} /\ in[v] = 0
      BY <2>8, <2>9, <2>13, OneFacts
    <3>2. got'[x] # v /\ u = v
      BY <1>2, <1>5, <2>2, <2>13
    <3>3. Hands(v)' = {}
      BY <1>3, <2>10, <3>1, <3>2 DEF Hands
    <3>4. Slots(v)' = {} /\ in'[v] = 1 /\ Given(v)' = TRUE
      BY <2>1, <2>3, <2>7, <2>13, <3>1, <3>2 DEF Given
    <3> QED
      BY <3>3, <3>4, OneCases
  <2>14. CASE Cases(g)[i].val # v /\ Cases(x)[j].val # v
    <3>1. got'[x] # v /\ u # v
      BY <1>2, <1>5, <2>2, <2>14
    <3>2. Hands(v)' = Hands(v)
      BY <1>3, <2>10, <2>11, <3>1 DEF Hands
    <3>3. in'[v] = in[v] /\ Given(v)' = Given(v)
      BY <2>3, <2>7, <2>14, <3>1 DEF Given
    <3> QED
      BY <2>1, <2>9, <3>2, <3>3
  <2> QED
    BY <2>12, <2>13, <2>14
<1> QED
  BY <1>4, <1>6 DEF PlaceInv

PutAt(c, k, u) == BufSet(hchan', hchan, c, k, u)

\* g has used the buffer for its case i, and got v: it returns, or has to ready
\* somebody first.
Uses(g, i, v) ==
  /\ i \in DOMAIN Cases(g) /\ i # 0 /\ Fired(g) = 0 /\ got[g] = 0
  /\ \A x \in Gs \ {g} : Same(x)
  /\ \/ Ends(g, i, v)
     \/ /\ Fired(g)' = i /\ got'[g] = v /\ Cases(g)' = Cases(g)
        /\ nv' = nv /\ out' = out /\ in' = in

PutStep(g, i) ==
  /\ Uses(g, i, 0)
  /\ \E c \in Chans : \E k \in 0..Cap[c]-1 :
       hchan[c].buf[k] = 0 /\ PutAt(c, k, Cases(g)[i].val)

GetStep(g, i) ==
  /\ Cases(g)[i].val = 0
  /\ \E c \in Chans : \E k \in 0..Cap[c]-1 :
       Uses(g, i, hchan[c].buf[k]) /\ PutAt(c, k, 0)

LEMMA SlotsPut ==
  ASSUME TypeOK, NEW c \in Chans, NEW k \in 0..Cap[c]-1, NEW u, PutAt(c, k, u), NEW v
  PROVE  /\ <<c, k>> \in Slots(v) <=> hchan[c].buf[k] = v
         /\ Slots(v)' = IF v = u THEN Slots(v) \cup {<<c, k>>} ELSE Slots(v) \ {<<c, k>>}
<1>1. \A d \in Chans : Cap[d] \in Nat /\ hchan[d].buf \in [0..Cap[d]-1 -> Nat]
  BY ChanAssumption DEF TypeOK, HchanOK, Hchan
<1>2. k \in Nat
  BY <1>1
<1>3. \A d \in Chans, l \in Nat :
        <<d, l>> \in Slots(v) <=> l \in 0..Cap[d]-1 /\ hchan[d].buf[l] = v
  BY DEF Slots
<1>4. \A d \in Chans, l \in Nat :
        <<d, l>> \in Slots(v)' <=> l \in 0..Cap[d]-1 /\ hchan'[d].buf[l] = v
  BY DEF Slots
<1>5. ASSUME NEW d \in Chans, NEW l \in 0..Cap[d]-1
      PROVE  hchan'[d].buf[l] = IF d = c /\ l = k THEN u ELSE hchan[d].buf[l]
  BY <1>1 DEF PutAt, BufSet
<1>6. ASSUME NEW d \in Chans, NEW l \in Nat
      PROVE  <<d, l>> \in Slots(v)' <=>
               IF v = u THEN <<d, l>> \in Slots(v) \/ (d = c /\ l = k)
               ELSE <<d, l>> \in Slots(v) /\ ~(d = c /\ l = k)
  BY <1>3, <1>4, <1>5
<1>7. Slots(v) \subseteq Chans \X Nat /\ Slots(v)' \subseteq Chans \X Nat
  BY DEF Slots
<1>8. \A s \in Chans \X Nat : \E d \in Chans, l \in Nat : s = <<d, l>>
  OBVIOUS
<1>9. \A d, l : <<d, l>> = <<c, k>> <=> d = c /\ l = k
  OBVIOUS
<1>10. ASSUME NEW s \in Chans \X Nat
       PROVE  s \in Slots(v)' <=> s \in IF v = u THEN Slots(v) \cup {<<c, k>>} ELSE Slots(v) \ {<<c, k>>}
  <2>1. PICK d \in Chans, l \in Nat : s = <<d, l>>
    BY <1>8
  <2> QED
    BY <1>6, <1>9, <2>1
<1>11. <<c, k>> \in Chans \X Nat
  BY <1>2
<1>12. <<c, k>> \in Slots(v) <=> hchan[c].buf[k] = v
  BY <1>2, <1>3
<1> QED
  BY <1>7, <1>10, <1>11, <1>12

LEMMA UsesValues ==
  ASSUME IndInv, NumberInv, HandInv, NEW g \in Gs, NEW i, NEW u, Uses(g, i, u)
  PROVE  /\ NumberInv'
         /\ \A v \in Vals :
              /\ Given(v)' <=> Given(v) \/ Cases(g)[i].val = v
              /\ Cases(g)[i].val = v => ~Given(v)
              /\ \/ /\ in'[v] = IF v = u THEN in[v] + 1 ELSE in[v]
                    /\ Hands(v)' = Hands(v)
                 \/ /\ in'[v] = in[v]
                    /\ Hands(v)' = IF v = u THEN Hands(v) \cup {g} ELSE Hands(v)
<1>1. TypeOK /\ \A y \in Gs : Fired(y) # 0 => Fired(y) \in DOMAIN Cases(y)
  BY FiredCase DEF IndInv
<1>2. i \in DOMAIN Cases(g) /\ i # 0 /\ Fired(g) = 0 /\ got[g] = 0 /\ \A x \in Gs \ {g} : Same(x)
  BY DEF Uses
<1>3. \A v \in Vals : v # 0
  BY DEF Vals
<1>4. \A v : ~GivenBy(g, v)
  BY <1>2 DEF GivenBy
<1>5. \A v : \A x \in Gs \ {g} : GivenBy(x, v)' = GivenBy(x, v)
  BY <1>2 DEF GivenBy, Same
<1>6. ASSUME NEW v \in Vals, Cases(g)[i].val = v
      PROVE  ~Given(v)
  <2>1. out[v] = "unsent" /\ \A z \in Gs : GivenBy(z, v) => z = g
    BY <1>1, <1>2, <1>6, PendingOnce
  <2> QED
    BY <1>4, <2>1 DEF Given
<1>7. CASE Ends(g, i, u)
  <2>1. NumberInv'
    BY <1>1, <1>2, <1>7, EndsNumber DEF Same
  <2>2. ASSUME NEW v \in Vals
        PROVE  /\ Given(v)' <=> Given(v) \/ Cases(g)[i].val = v
               /\ in'[v] = IF v = u THEN in[v] + 1 ELSE in[v]
               /\ Hands(v)' = Hands(v)
    <3>1. /\ out'[v] = "sent" <=> out[v] = "sent" \/ Cases(g)[i].val = v
          /\ ~GivenBy(g, v)'
          /\ in'[v] = IF v = u THEN in[v] + 1 ELSE in[v]
      BY <1>1, <1>2, <1>7, EndsOut
    <3>2. Given(v)' <=> Given(v) \/ Cases(g)[i].val = v
      BY <1>4, <1>5, <3>1 DEF Given
    <3>3. Hands(v)' = Hands(v)
      BY <1>2, <1>3, <1>7 DEF Hands, Same, Ends
    <3> QED
      BY <3>1, <3>2, <3>3
  <2> QED
    BY <1>6, <2>1, <2>2
<1>8. CASE /\ Fired(g)' = i /\ got'[g] = u /\ Cases(g)' = Cases(g)
           /\ nv' = nv /\ out' = out /\ in' = in
  <2>1. NumberInv'
    <3>1. \A x \in Gs : Cases(x)' = Cases(x)
      BY <1>2, <1>8 DEF Same
    <3> QED
      BY <1>8, <3>1 DEF NumberInv, Pending
  <2>2. ASSUME NEW v \in Vals
        PROVE  /\ Given(v)' <=> Given(v) \/ Cases(g)[i].val = v
               /\ in'[v] = in[v]
               /\ Hands(v)' = IF v = u THEN Hands(v) \cup {g} ELSE Hands(v)
    <3>1. GivenBy(g, v)' <=> Cases(g)[i].val = v
      BY <1>2, <1>8 DEF GivenBy
    <3>2. Given(v)' <=> Given(v) \/ Cases(g)[i].val = v
      BY <1>4, <1>5, <1>8, <3>1 DEF Given
    <3>3. Hands(v)' = IF v = u THEN Hands(v) \cup {g} ELSE Hands(v)
      BY <1>2, <1>3, <1>8 DEF Hands, Same
    <3> QED
      BY <1>8, <3>2, <3>3
  <2> QED
    BY <1>6, <2>1, <2>2
<1> QED
  BY <1>7, <1>8 DEF Uses

LEMMA PutValues ==
  ASSUME IndInv, PlaceInv, NumberInv, HandInv, NEW g \in Gs, NEW i, PutStep(g, i)
  PROVE  PlaceInv' /\ NumberInv'
<1>1. PICK c, k : /\ c \in Chans /\ k \in 0..Cap[c]-1
                  /\ hchan[c].buf[k] = 0 /\ PutAt(c, k, Cases(g)[i].val) /\ Uses(g, i, 0)
  BY DEF PutStep
<1>2. ASSUME NEW v \in Vals
      PROVE  One(Slots(v), Hands(v), in[v], Given(v))'
  <2>1. /\ Given(v)' <=> Given(v) \/ Cases(g)[i].val = v
        /\ Cases(g)[i].val = v => ~Given(v)
        /\ in'[v] = in[v] /\ Hands(v)' = Hands(v)
    BY <1>1, UsesValues DEF Vals
  <2>2. /\ <<c, k>> \notin Slots(v)
        /\ Slots(v)' = IF v = Cases(g)[i].val THEN Slots(v) \cup {<<c, k>>} ELSE Slots(v) \ {<<c, k>>}
    BY <1>1, SlotsPut DEF Vals, IndInv
  <2>3. One(Slots(v), Hands(v), in[v], Given(v))
    BY DEF PlaceInv
  <2>4. CASE v = Cases(g)[i].val
    <3>1. Slots(v) = {} /\ Hands(v) = {} /\ in[v] = 0
      BY <2>1, <2>3, <2>4, OneFacts
    <3>2. Slots(v)' = {<<c, k>>} /\ Hands(v)' = {} /\ in'[v] = 0 /\ Given(v)' = TRUE
      BY <2>1, <2>2, <2>4, <3>1 DEF Given
    <3> QED
      BY <3>2, OneCases
  <2>5. CASE v # Cases(g)[i].val
    <3>1. Slots(v)' = Slots(v) /\ Given(v)' = Given(v)
      BY <2>1, <2>2, <2>5 DEF Given
    <3> QED
      BY <2>1, <2>3, <3>1
  <2> QED
    BY <2>4, <2>5
<1> QED
  BY <1>1, <1>2, UsesValues DEF PlaceInv

LEMMA GetValues ==
  ASSUME IndInv, PlaceInv, NumberInv, HandInv, NEW g \in Gs, NEW i, GetStep(g, i)
  PROVE  PlaceInv' /\ NumberInv'
<1>1. PICK c, k : /\ c \in Chans /\ k \in 0..Cap[c]-1
                  /\ PutAt(c, k, 0) /\ Uses(g, i, hchan[c].buf[k]) /\ Cases(g)[i].val = 0
  BY DEF GetStep
<1>2. PICK u : u = hchan[c].buf[k]
  OBVIOUS
<1>3. ASSUME NEW v \in Vals
      PROVE  One(Slots(v), Hands(v), in[v], Given(v))'
  <2>1. v # 0
    BY DEF Vals
  <2>2. /\ Given(v)' = Given(v)
        /\ \/ /\ in'[v] = IF v = u THEN in[v] + 1 ELSE in[v]
              /\ Hands(v)' = Hands(v)
           \/ /\ in'[v] = in[v]
              /\ Hands(v)' = IF v = u THEN Hands(v) \cup {g} ELSE Hands(v)
    BY <1>1, <1>2, <2>1, UsesValues DEF Given
  <2>3. /\ <<c, k>> \in Slots(v) <=> v = u
        /\ Slots(v)' = Slots(v) \ {<<c, k>>}
    BY <1>1, <1>2, <2>1, SlotsPut DEF IndInv
  <2>4. One(Slots(v), Hands(v), in[v], Given(v))
    BY DEF PlaceInv
  <2>5. CASE v = u
    <3>1. Slots(v) = {<<c, k>>} /\ Hands(v) = {} /\ in[v] = 0 /\ Given(v)
      BY <2>3, <2>4, <2>5, OneFacts
    <3>2. Slots(v)' = {} /\ Given(v)' = TRUE
      BY <2>2, <2>3, <3>1
    <3>3. \/ in'[v] = 1 /\ Hands(v)' = {}
          \/ in'[v] = 0 /\ Hands(v)' = {g}
      BY <2>2, <2>5, <3>1
    <3> QED
      BY <3>2, <3>3, OneCases
  <2>6. CASE v # u
    <3>1. Slots(v)' = Slots(v) /\ in'[v] = in[v] /\ Hands(v)' = Hands(v)
      BY <2>2, <2>3, <2>6
    <3> QED
      BY <2>2, <2>4, <3>1
  <2> QED
    BY <2>5, <2>6
<1> QED
  BY <1>1, <1>3, UsesValues DEF PlaceInv

----------------------------------------------------------------------------
(* What is not in the buffer stays cleared *)

LEMMA ClearPut ==
  ASSUME NEW c \in Chans, Cap[c] # 0, NEW r \in Hchan(c), NEW r2 \in Hchan(c), EndsAt(r, c),
         ClearOf(r, c), PutsOne(r2, r, c)
  PROVE  ClearOf(r2, c)
<1>1. PICK n \in Nat : n = Cap[c] /\ n # 0
  BY BufferFields
<1>2. PICK m \in Nat, f \in 0..n-1, e \in 0..n-1 :
        m = r.qcount /\ f = r.recvx /\ e = r.sendx /\ r.buf \in [0..n-1 -> Nat]
  BY <1>1, BufferFields DEF PutsOne
<1>3. PICK v \in Nat : r2.buf = [r.buf EXCEPT ![e] = v]
  BY <1>2 DEF PutsOne
<1>4. r2.qcount = m + 1 /\ r2.recvx = f /\ e = Wrapped(c, f + m)
  BY <1>1, <1>2 DEF PutsOne, EndsAt
<1>5. ASSUME NEW k \in 0..n-1, r2.buf[k] # 0
      PROVE  \E j \in 1..m+1 : k = Wrapped(c, f + j - 1)
  <2>1. CASE k = e
    <3>1. m + 1 \in 1..m+1 /\ f + (m + 1) - 1 = f + m
      OBVIOUS
    <3> QED
      BY <1>4, <2>1, <3>1
  <2>2. CASE k # e
    <3>1. r.buf[k] # 0
      BY <1>2, <1>3, <1>5, <2>2
    <3>2. PICK j \in 1..m : k = Wrapped(c, f + j - 1)
      BY <1>1, <1>2, <3>1 DEF ClearOf
    <3>3. j \in 1..m+1
      OBVIOUS
    <3> QED
      BY <3>2, <3>3
  <2> QED
    BY <2>1, <2>2
<1> QED
  BY <1>1, <1>4, <1>5 DEF ClearOf

LEMMA ClearGet ==
  ASSUME NEW c \in Chans, Cap[c] # 0, NEW r \in Hchan(c), NEW r2 \in Hchan(c),
         ClearOf(r, c), GetsOne(r2, r, c)
  PROVE  ClearOf(r2, c)
<1>1. PICK n \in Nat : n = Cap[c] /\ n # 0
  BY BufferFields
<1>2. PICK m \in 1..n, f \in 0..n-1 :
        m = r.qcount /\ f = r.recvx /\ r.buf \in [0..n-1 -> Nat]
  <2>1. r.qcount \in 0..n /\ r.qcount > 0 /\ r.recvx \in 0..n-1 /\ r.buf \in [0..n-1 -> Nat]
    BY <1>1, BufferFields DEF GetsOne
  <2>2. r.qcount \in 1..n
    BY <2>1
  <2> QED
    BY <2>1, <2>2
<1>3. r2.buf = [r.buf EXCEPT ![f] = 0]
  BY <1>2 DEF GetsOne
<1>4. r2.qcount = m - 1 /\ r2.recvx = (IF f + 1 = n THEN 0 ELSE f + 1)
  BY <1>1, <1>2 DEF GetsOne, Next1
<1>5. ASSUME NEW k \in 0..n-1, r2.buf[k] # 0
      PROVE  \E j \in 1..r2.qcount : k = Wrapped(c, r2.recvx + j - 1)
  <2>1. k # f /\ r.buf[k] # 0
    BY <1>2, <1>3, <1>5
  <2>2. PICK j \in 1..m : k = Wrapped(c, f + j - 1)
    BY <1>1, <1>2, <2>1 DEF ClearOf
  <2>3. k = IF f + j - 1 < n THEN f + j - 1 ELSE f + j - 1 - n
    BY <1>1, <2>2 DEF Wrapped
  <2>4. j # 1
    BY <2>1, <2>3
  <2>5. PICK l \in 1..m-1 : l = j - 1
    BY <2>4
  <2>6. k = IF r2.recvx + l - 1 < n THEN r2.recvx + l - 1 ELSE r2.recvx + l - 1 - n
    BY <1>4, <2>3, <2>5
  <2> QED
    BY <1>1, <1>4, <2>6 DEF Wrapped
<1> QED
  BY <1>1, <1>5 DEF ClearOf

LEMMA NextClear ==
  ASSUME IndInv, IndInv', BufferInv, ClearInv, [Next]_vars
  PROVE  ClearInv'
<1>1. ASSUME NEW c \in Chans
      PROVE  ClearOf(hchan'[c], c)
  <2>1. PICK r : r = hchan[c]
    OBVIOUS
  <2>2. PICK r2 : r2 = hchan'[c]
    OBVIOUS
  <2>3. r \in Hchan(c) /\ r2 \in Hchan(c)
    BY <2>1, <2>2 DEF IndInv, TypeOK, HchanOK
  <2>4. EndsAt(r, c) /\ ClearOf(r, c)
    BY <2>1 DEF BufferInv, ClearInv
  <2>5. \/ SameBuf(r2, r)
        \/ Cap[c] # 0 /\ (PutsOne(r2, r, c) \/ GetsOne(r2, r, c))
    BY <2>1, <2>2, NextMoves DEF Moved
  <2>6. CASE SameBuf(r2, r)
    BY <2>2, <2>4, <2>6 DEF ClearOf, SameBuf
  <2> QED
    BY <2>2, <2>3, <2>4, <2>5, <2>6, ClearPut, ClearGet
<1> QED
  BY <1>1 DEF ClearInv

\* The slot that a send uses is empty.
LEMMA FreeSlot ==
  ASSUME NEW c \in Chans, NEW r \in Hchan(c), EndsAt(r, c), ClearOf(r, c), r.qcount < Cap[c]
  PROVE  r.sendx \in 0..Cap[c]-1 /\ r.buf[r.sendx] = 0
<1>1. PICK n \in Nat : n = Cap[c] /\ n # 0
  BY BufferFields
<1>2. PICK m \in 0..n-1, f \in 0..n-1, e \in 0..n-1 :
        m = r.qcount /\ f = r.recvx /\ e = r.sendx
  <2>1. r.qcount \in 0..n /\ r.qcount < n /\ r.recvx \in 0..n-1 /\ r.sendx \in 0..n-1
    BY <1>1, BufferFields
  <2>2. r.qcount \in 0..n-1
    BY <2>1
  <2> QED
    BY <2>1, <2>2
<1>3. e = IF f + m < n THEN f + m ELSE f + m - n
  BY <1>1, <1>2 DEF EndsAt, Wrapped
<1>4. ASSUME NEW j \in 1..m, e = Wrapped(c, f + j - 1)
      PROVE  FALSE
  <2>1. e = IF f + j - 1 < n THEN f + j - 1 ELSE f + j - 1 - n
    BY <1>1, <1>4 DEF Wrapped
  <2> QED
    BY <1>3, <2>1
<1> QED
  BY <1>1, <1>2, <1>4 DEF ClearOf

----------------------------------------------------------------------------
(* What each action does to the values *)

ValuesOK == PlaceInv /\ NumberInv /\ HandInv /\ PeerInv

\* g touches nobody else, except that it may wake somebody it has not served.
Apart(g) ==
  \A x \in Gs \ {g} :
    /\ call'[x] = call[x] /\ got'[x] = got[x] /\ wake'[x] = wake[x]
    /\ \/ pc'[x] = pc[x] /\ param'[x] = param[x]
       \/ pc[x] = "parked" /\ pc'[x] = "woken" /\ param'[x] \in {0, param[x]}

LEMMA ApartSame ==
  ASSUME HandInv, NEW g \in Gs, Apart(g), NEW x \in Gs \ {g}
  PROVE  Same(x) /\ HandOK(x)'
<1>1. HandOK(x) /\ call'[x] = call[x] /\ got'[x] = got[x] /\ wake'[x] = wake[x]
  BY DEF HandInv, Apart
<1>2. CASE pc'[x] = pc[x] /\ param'[x] = param[x]
  BY <1>1, <1>2 DEF Same, Fired, HandOK, Cases
<1>3. CASE pc[x] = "parked" /\ pc'[x] = "woken" /\ param'[x] \in {0, param[x]}
  <2>1. param[x] = 0 /\ param'[x] = 0
    BY <1>1, <1>3 DEF HandOK
  <2> QED
    BY <1>1, <1>3, <2>1 DEF Same, Fired, HandOK, Cases
<1> QED
  BY <1>2, <1>3 DEF Apart

\* No call but that of g changes, and nobody else is about to meet a peer.
CallsApart(g) ==
  \A x \in Gs \ {g} :
    /\ call'[x] = call[x]
    /\ pc'[x] = "deliver" => pc[x] = "deliver" /\ wake'[x] = wake[x]

LEMMA ApartPeer ==
  ASSUME IndInv, PeerInv, NEW g \in Gs, CallsApart(g), pc[g] # "parked", pc'[g] # "deliver"
  PROVE  PeerInv'
<1> SUFFICES ASSUME NEW y \in Gs, pc'[y] = "deliver"
             PROVE  (Cases(wake[y].sg.g)[wake[y].sg.i].dir = Other(Cases(y)[wake[y].i].dir))'
  BY DEF PeerInv
<1>1. pc[y] = "deliver" /\ wake'[y] = wake[y] /\ call'[y] = call[y]
  BY DEF CallsApart
<1>2. wake[y].sg \in Sudog /\ pc[wake[y].sg.g] = "parked"
  BY <1>1 DEF IndInv, WakeInv, WakeOK, Waking
<1>3. wake[y].sg.g \in Gs \ {g}
  BY <1>2, SudogFields
<1>4. Cases(y)' = Cases(y) /\ Cases(wake[y].sg.g)' = Cases(wake[y].sg.g)
  BY <1>1, <1>3 DEF CallsApart, Cases
<1> QED
  BY <1>1, <1>4 DEF PeerInv

\* g goes on with its call.
LEMMA GoesOn ==
  ASSUME IndInv, ValuesOK, NEW g \in Gs, Apart(g), Kept(hchan', hchan),
         nv' = nv, out' = out, in' = in, call'[g] = call[g], got' = got,
         pc[g] \notin {"parked", "ready"}, pc'[g] \notin {"deliver", "ready"},
         param'[g] \in {0, param[g]},
         param[g] # 0 => pc'[g] \in {"woken", "pass3"} /\ param'[g] = param[g]
  PROVE  ValuesOK'
<1>1. HandOK(g) /\ got'[g] = got[g] /\ got' \in [Gs -> Nat]
  BY DEF ValuesOK, HandInv
<1>2. Same(g) /\ HandOK(g)'
  BY <1>1 DEF Same, HandOK, Fired, Cases
<1>3. \A x \in Gs : Same(x) /\ HandOK(x)'
  BY <1>2, ApartSame DEF ValuesOK
<1>4. QuietStep
  BY <1>3 DEF QuietStep, SameBufs, Kept, SameBuf
<1>5. PlaceInv' /\ NumberInv'
  BY <1>4, QuietValues DEF ValuesOK
<1>6. HandInv'
  BY <1>1, <1>3 DEF HandInv
<1>7. PeerInv'
  BY ApartPeer DEF ValuesOK, Apart, CallsApart
<1> QED
  BY <1>5, <1>6, <1>7 DEF ValuesOK

\* g returns: what it got is received, and the case that was served sent.
LEMMA ReturnsValues ==
  ASSUME IndInv, ValuesOK, NEW g \in Gs, Apart(g), Kept(hchan', hchan), nv' = nv,
         NEW i \in {0} \cup DOMAIN Cases(g), Result(g, i, got[g]), got' = [got EXCEPT ![g] = 0],
         pc[g] # "parked", pc'[g] = "idle", param'[g] = 0,
         Fired(g) = i \/ (Fired(g) = 0 /\ Cases(g)[i].val = 0)
  PROVE  ValuesOK'
<1>1. got' \in [Gs -> Nat] /\ got'[g] = 0
  BY DEF ValuesOK, HandInv
<1>2. Fired(g)' = 0 /\ HandOK(g)' /\ Cases(g)' = <<>>
  BY <1>1 DEF HandOK, Fired, Cases, Result, IndInv, TypeOK, NoCall
<1>3. \A x \in Gs \ {g} : Same(x) /\ HandOK(x)'
  BY ApartSame DEF ValuesOK
<1>4. EndStep(g, i)
  BY <1>1, <1>2, <1>3 DEF EndStep, Ends, SameBufs, Kept, SameBuf
<1>5. PlaceInv' /\ NumberInv'
  BY <1>4, EndValues DEF ValuesOK
<1>6. HandInv'
  BY <1>1, <1>2, <1>3 DEF HandInv
<1>7. PeerInv'
  BY ApartPeer DEF ValuesOK, Apart, CallsApart
<1> QED
  BY <1>5, <1>6, <1>7 DEF ValuesOK

\* g returns without having been served.
LEMMA FailsValues ==
  ASSUME IndInv, ValuesOK, NEW g \in Gs, Kept(hchan', hchan), nv' = nv, wake' = wake,
         NEW i \in {0} \cup DOMAIN Cases(g), Return(g, i, 0),
         pc[g] \notin {"parked", "ready"}, param[g] = 0, \A x \in Gs : param'[x] = param[x],
         i # 0 => Cases(g)[i].val = 0
  PROVE  ValuesOK'
<1>1. /\ Result(g, i, 0) /\ got' = [got EXCEPT ![g] = 0] /\ pc' = [pc EXCEPT ![g] = "idle"]
      /\ call' = [call EXCEPT ![g] = NoCall]
  BY DEF Return, Result, Goto
<1>2. Fired(g) = 0 /\ got[g] = 0
  BY DEF ValuesOK, HandInv, HandOK, Fired
<1>3. Apart(g) /\ pc'[g] = "idle"
  BY <1>1 DEF Apart, IndInv, TypeOK, ValuesOK, HandInv
<1>4. Result(g, i, got[g])
  BY <1>1, <1>2
<1> QED
  BY <1>1, <1>2, <1>3, <1>4, ReturnsValues

LEMMA FastValues ==
  ASSUME IndInv, ValuesOK, NEW g \in Gs, FastFirst(g) \/ FastFail(g) \/ FastSlow(g)
  PROVE  ValuesOK'
<1>1. pc[g] \in {"fast", "fastq", "fastc"} /\ param[g] = 0
  BY DEF FastFirst, FastFail, FastSlow, ValuesOK, HandInv, HandOK
<1>2. CASE FastFirst(g) \/ FastSlow(g)
  <2>1. /\ hchan' = hchan /\ call' = call /\ param' = param /\ got' = got /\ wake' = wake
        /\ nv' = nv /\ out' = out /\ in' = in
        /\ \E l \in {"fastq", "fastc", "lock"} : pc' = [pc EXCEPT ![g] = l]
    BY <1>2 DEF FastFirst, FastSlow, Goto
  <2>2. Apart(g) /\ pc'[g] \in {"fastq", "fastc", "lock"}
    BY <2>1 DEF Apart, IndInv, TypeOK
  <2> QED
    BY <1>1, <2>1, <2>2, GoesOn, KeptMoved
<1>3. CASE FastFail(g)
  <2>1. hchan' = hchan /\ param' = param /\ wake' = wake /\ nv' = nv /\ Return(g, 0, 0)
    BY <1>3 DEF FastFail
  <2> QED
    BY <1>1, <2>1, FailsValues, KeptMoved
<1> QED
  BY <1>2, <1>3

\* A receive has no value of its own.
LEMMA RecvValue ==
  ASSUME NumberInv, NEW g \in Gs, NEW i \in DOMAIN Cases(g), Cases(g)[i].dir # "send"
  PROVE  Cases(g)[i].val = 0
BY DEF NumberInv

LEMMA FirstCaseOf ==
  ASSUME IndInv, NEW g \in Gs, pc[g] # "idle"
  PROVE  1 \in DOMAIN Cases(g) /\ Cases(g)[1].c \in Chans /\ (~call[g].sel => DOMAIN Cases(g) = {1})
<1>1. TypeOK /\ CallOK(g)
  BY DEF IndInv, CallsInv
<1>2. Len(Cases(g)) \in Nat /\ DOMAIN Cases(g) = 1..Len(Cases(g)) /\ 1 \in DOMAIN Cases(g)
  BY <1>1, CaseTypes DEF CallOK
<1>3. ~call[g].sel => Len(Cases(g)) <= 1
  BY <1>1 DEF CallOK
<1>4. ~call[g].sel => DOMAIN Cases(g) = {1}
  BY <1>2, <1>3
<1> QED
  BY <1>1, <1>2, <1>4, CaseTypes

LEMMA MeetsClosedValues ==
  ASSUME IndInv, ValuesOK, NEW g \in Gs, MeetsClosed(g)
  PROVE  ValuesOK'
<1>1. pc[g] = "lock" /\ param[g] = 0 /\ 1 \in DOMAIN Cases(g)
  BY FirstCaseOf DEF MeetsClosed, ValuesOK, HandInv, HandOK
<1>2. /\ hchan' = hchan /\ param' = param /\ wake' = wake /\ nv' = nv
      /\ Return(g, 0, 0) \/ (Return(g, 1, 0) /\ Cases(g)[1].dir = "recv")
  BY DEF MeetsClosed, AtLock
<1>3. CASE Return(g, 0, 0)
  BY <1>1, <1>2, <1>3, FailsValues, KeptMoved
<1>4. CASE Return(g, 1, 0) /\ Cases(g)[1].dir = "recv"
  <2>1. Cases(g)[1].val = 0
    BY <1>1, <1>4, RecvValue DEF ValuesOK
  <2> QED
    BY <1>1, <1>2, <1>4, <2>1, FailsValues, KeptMoved
<1> QED
  BY <1>2, <1>3, <1>4

LEMMA NotServedValues ==
  ASSUME IndInv, ValuesOK, NEW g \in Gs, NotServed(g)
  PROVE  ValuesOK'
<1>1. pc[g] = "lock" /\ param[g] = 0 /\ Kept(hchan', hchan)
  BY NotServedKeeps DEF NotServed, AtLock, ValuesOK, HandInv, HandOK
<1>2. CASE call[g].block
  <2>1. /\ call' = call /\ got' = got /\ wake' = wake /\ nv' = nv /\ out' = out /\ in' = in
        /\ pc' = [pc EXCEPT ![g] = "parked"]
        /\ \E n \in {0, param[g]} : param' = [param EXCEPT ![g] = n]
    BY <1>2 DEF NotServed, Goto
  <2>2. Apart(g) /\ pc'[g] = "parked" /\ param'[g] \in {0, param[g]}
    BY <2>1 DEF Apart, IndInv, TypeOK
  <2> QED
    BY <1>1, <2>1, <2>2, GoesOn
<1>3. CASE ~call[g].block
  <2>1. param' = param /\ wake' = wake /\ nv' = nv /\ Return(g, 0, 0)
    BY <1>3 DEF NotServed
  <2> QED
    BY <1>1, <2>1, FailsValues
<1> QED
  BY <1>2, <1>3

LEMMA WokenValues ==
  ASSUME IndInv, IndInv', ValuesOK, NEW g \in Gs, Woken(g)
  PROVE  ValuesOK'
<1>1. PICK c \in Chans : c = Cases(g)[1].c
  BY FirstCaseOf DEF Woken
<1>2. /\ pc[g] = "woken" /\ ~call[g].sel /\ DOMAIN Cases(g) = {1}
      /\ hchan' = hchan /\ wake' = wake /\ nv' = nv
  BY FirstCaseOf DEF Woken
<1>3. param[g] # 0 => param[g] = 1 /\ Cap[c] = 0
  BY <1>1, <1>2 DEF ValuesOK, HandInv, HandOK
<1>4. Kept(hchan', hchan)
  BY <1>2, KeptMoved
<1>5. PICK n \in {0, param[g]} : param' = [param EXCEPT ![g] = n] /\ (Cap[c] = 0 => n = 0)
  BY <1>1 DEF Woken
<1>6. CASE Cap[c] > 0
  <2>1. call' = call /\ got' = got /\ out' = out /\ in' = in /\ pc' = [pc EXCEPT ![g] = "lock"]
    BY <1>1, <1>6 DEF Woken, Goto
  <2>2. Apart(g) /\ pc'[g] = "lock" /\ param'[g] \in {0, param[g]}
    BY <1>2, <1>5, <2>1 DEF Apart, IndInv, TypeOK
  <2>3. param[g] = 0
    BY <1>3, <1>6
  <2> QED
    BY <1>2, <1>4, <2>1, <2>2, <2>3, GoesOn
<1>7. CASE Cap[c] = 0 /\ param[g] # 0
  <2>1. Return(g, 1, got[g])
    BY <1>1, <1>7 DEF Woken
  <2>2. /\ Result(g, 1, got[g]) /\ got' = [got EXCEPT ![g] = 0] /\ pc' = [pc EXCEPT ![g] = "idle"]
        /\ call' = [call EXCEPT ![g] = NoCall]
    BY <2>1 DEF Return, Result, Goto
  <2>3. Apart(g) /\ pc'[g] = "idle" /\ param'[g] = 0
    BY <1>2, <1>5, <1>7, <2>2 DEF Apart, IndInv, TypeOK, ValuesOK, HandInv
  <2>4. Fired(g) = 1 /\ 1 \in {0} \cup DOMAIN Cases(g)
    BY <1>2, <1>3, <1>7 DEF Fired
  <2> QED
    BY <1>2, <1>4, <2>2, <2>3, <2>4, ReturnsValues
<1>8. CASE Cap[c] = 0 /\ param[g] = 0
  <2>1. hchan[c].closed
    BY <1>1, <1>2, <1>8 DEF IndInv, ParamInv, ParamOK
  <2>2. Return(g, IF Cases(g)[1].dir = "send" THEN 0 ELSE 1, 0)
    BY <1>1, <1>8, <2>1 DEF Woken
  <2>3. \A x \in Gs : param'[x] = param[x]
    BY <1>5, <1>8 DEF IndInv, TypeOK
  <2>4. CASE Cases(g)[1].dir = "send"
    BY <1>2, <1>4, <1>8, <2>2, <2>3, <2>4, FailsValues
  <2>5. CASE Cases(g)[1].dir # "send"
    <3>1. Cases(g)[1].val = 0 /\ 1 \in DOMAIN Cases(g)
      BY <1>2, <2>5, RecvValue DEF ValuesOK
    <3> QED
      BY <1>2, <1>4, <1>8, <2>2, <2>3, <2>5, <3>1, FailsValues
  <2> QED
    BY <2>4, <2>5
<1> QED
  BY <1>1, <1>6, <1>7, <1>8, ChanAssumption

LEMMA CloseValues ==
  ASSUME IndInv, IndInv', ValuesOK, NEW g \in Gs, Closechan(g) \/ CloseRelease(g)
  PROVE  ValuesOK'
<1>1. pc[g] \in {"lock", "closing"} /\ param[g] = 0 /\ Kept(hchan', hchan)
  BY CloseKeeps DEF Closechan, CloseRelease, AtLock, ValuesOK, HandInv, HandOK
<1>2. CASE Closechan(g)
  <2>1. param' = param /\ wake' = wake /\ nv' = nv
    BY <1>2 DEF Closechan
  <2>2. CASE Return(g, 0, 0)
    BY <1>1, <2>1, <2>2, FailsValues
  <2>3. CASE Goto(g, "closing") /\ call' = call /\ out' = out /\ in' = in /\ got' = got
    <3>1. Apart(g) /\ pc'[g] = "closing"
      BY <2>1, <2>3 DEF Apart, Goto, IndInv, TypeOK
    <3> QED
      BY <1>1, <2>1, <2>3, <3>1, GoesOn
  <2> QED
    BY <1>2, <2>2, <2>3 DEF Closechan
<1>3. CASE CloseRelease(g)
  <2>1. /\ pc[g] = "closing" /\ wake' = wake /\ nv' = nv
        /\ \/ /\ call' = call /\ out' = out /\ in' = in /\ got' = got
              /\ \E x : Goready(g, x, "closing") /\ param' = [param EXCEPT ![x] = 0]
           \/ Return(g, 0, 0) /\ param' = param
    BY <1>3 DEF CloseRelease
  <2>2. CASE Return(g, 0, 0) /\ param' = param
    BY <1>1, <2>1, <2>2, FailsValues
  <2>3. CASE /\ call' = call /\ out' = out /\ in' = in /\ got' = got
             /\ \E x : Goready(g, x, "closing") /\ param' = [param EXCEPT ![x] = 0]
    <3>1. PICK x : Goready(g, x, "closing") /\ param' = [param EXCEPT ![x] = 0]
      BY <2>3
    <3>2. pc'[g] # "throw" /\ pc \in [Gs -> Places] /\ param \in [Gs -> Nat]
      BY DEF IndInv, TypeOK, Places
    <3>3. pc[x] = "parked" /\ pc' = [pc EXCEPT ![x] = "woken", ![g] = "closing"]
      BY <3>1, <3>2 DEF Goready, Goto
    <3>4. Apart(g) /\ pc'[g] = "closing" /\ param'[g] = param[g]
      BY <1>1, <2>1, <2>3, <3>1, <3>2, <3>3 DEF Apart
    <3> QED
      BY <1>1, <2>1, <2>3, <3>4, GoesOn
  <2> QED
    BY <2>1, <2>2, <2>3
<1> QED
  BY <1>2, <1>3

LEMMA ReadyPeerValues ==
  ASSUME IndInv, IndInv', ValuesOK, NEW g \in Gs, ReadyPeer(g)
  PROVE  ValuesOK'
<1>1. /\ pc[g] = "ready" /\ hchan' = hchan /\ param' = param /\ nv' = nv
      /\ wake' = [wake EXCEPT ![g] = NoWake] /\ got' = [got EXCEPT ![g] = 0]
      /\ Result(g, wake[g].i, got[g]) /\ Goready(g, wake[g].sg.g, "idle")
  BY DEF ReadyPeer
<1>2. PICK x : Goready(g, x, "idle")
  BY <1>1
<1>3. PICK i \in DOMAIN Cases(g) : i = wake[g].i
  BY <1>1 DEF IndInv, WakeInv, Waking
<1>4. pc'[g] # "throw" /\ pc \in [Gs -> Places] /\ call' = [call EXCEPT ![g] = NoCall]
  BY <1>1 DEF IndInv, TypeOK, Places, Result
<1>5. pc[x] = "parked" /\ pc' = [pc EXCEPT ![x] = "woken", ![g] = "idle"]
  BY <1>2, <1>4 DEF Goready, Goto
<1>6. param[g] = 0 /\ Fired(g) = i
  BY <1>1, <1>3 DEF ValuesOK, HandInv, HandOK, Fired
<1>7. Apart(g) /\ pc'[g] = "idle"
  BY <1>1, <1>4, <1>5 DEF Apart, IndInv, TypeOK, ValuesOK, HandInv
<1>8. Result(g, i, got[g]) /\ i \in {0} \cup DOMAIN Cases(g) /\ Kept(hchan', hchan)
  BY <1>1, <1>3, KeptMoved
<1> QED
  BY <1>1, <1>6, <1>7, <1>8, ReturnsValues

LEMMA DeliverValues ==
  ASSUME IndInv, IndInv', ValuesOK, NEW g \in Gs, Deliver(g)
  PROVE  ValuesOK'
<1>1. PICK sg \in Sudog : sg = wake[g].sg /\ WakeOK(g, sg)
  BY DEF Deliver, IndInv, WakeInv, Waking, WakeOK
<1>2. PICK i \in DOMAIN Cases(g) : i = wake[g].i
  BY DEF Deliver, IndInv, WakeInv, Waking
<1>3. PICK x \in Gs : x = sg.g
  BY SudogFields
<1>4. PICK j \in Nat \ {0} : j = sg.i
  BY SudogFields
<1>5. /\ pc[g] = "deliver" /\ pc[x] = "parked" /\ x # g
      /\ j \in DOMAIN Cases(x) /\ Cap[Cases(x)[j].c] = 0
  BY <1>1, <1>3, <1>4 DEF Deliver, WakeOK
<1>6. /\ param' = [param EXCEPT ![x] = j] /\ wake' = [wake EXCEPT ![g] = NoWake]
      /\ Goready(g, x, "idle") /\ hchan' = hchan /\ nv' = nv
      /\ \/ /\ Cases(g)[i].dir = "send" /\ Result(g, i, 0)
            /\ got' = [got EXCEPT ![x] = Cases(g)[i].val]
         \/ /\ Cases(g)[i].dir # "send" /\ Result(g, i, Cases(x)[j].val)
            /\ got' = got
  BY <1>1, <1>2, <1>3, <1>4 DEF Deliver
<1>7. pc' = [pc EXCEPT ![x] = "woken", ![g] = "idle"]
  BY <1>5, <1>6 DEF Goready
<1>8. call' = [call EXCEPT ![g] = NoCall]
  BY <1>6 DEF Result
<1>9. param[g] = 0 /\ param[x] = 0 /\ got[g] = 0 /\ got[x] = 0 /\ Fired(g) = 0 /\ Fired(x) = 0
  BY <1>5 DEF ValuesOK, HandInv, HandOK, Fired
<1>10. got' \in [Gs -> Nat]
  <2>1. Cases(g)[i].val \in Nat
    BY CaseTypes DEF IndInv
  <2> QED
    BY <1>6, <2>1 DEF ValuesOK, HandInv
<1>11. /\ pc'[x] = "woken" /\ pc'[g] = "idle" /\ param'[x] = j /\ param'[g] = 0
       /\ Cases(g)' = <<>> /\ Cases(x)' = Cases(x) /\ got'[g] = 0
  BY <1>5, <1>6, <1>7, <1>8, <1>9 DEF IndInv, TypeOK, Cases, NoCall, ValuesOK, HandInv
<1>12. Fired(x)' = j /\ Fired(g)' = 0
  BY <1>11 DEF Fired
<1>13. \A y \in Gs \ {g, x} :
         /\ pc'[y] = pc[y] /\ param'[y] = param[y] /\ wake'[y] = wake[y]
         /\ call'[y] = call[y] /\ got'[y] = got[y]
  BY <1>6, <1>7, <1>8 DEF IndInv, TypeOK, ValuesOK, HandInv
<1>14. \A y \in Gs \ {g, x} : Same(y) /\ HandOK(y)'
  BY <1>13 DEF Same, Fired, Cases, HandOK, ValuesOK, HandInv
<1>15. HandOK(x)' /\ HandOK(g)'
  BY <1>4, <1>5, <1>11, <1>12 DEF HandOK
<1>16. Cases(x)[j].dir = Other(Cases(g)[i].dir)
  BY <1>1, <1>2, <1>3, <1>4, <1>5 DEF ValuesOK, PeerInv
<1>17. /\ Cases(g)[i].dir = "send" => Cases(x)[j].val = 0
       /\ Cases(g)[i].dir # "send" => Cases(g)[i].val = 0
  BY <1>5, <1>16, RecvValue DEF ValuesOK, Other
<1>18. i # 0
  BY CaseTypes DEF IndInv
<1>19. MeetStep(g, i, x)
  <2>1. SameBufs
    BY <1>6 DEF SameBufs
  <2>2. CASE Cases(g)[i].dir = "send"
    <3>1. Ends(g, i, 0) /\ got'[x] = Cases(g)[i].val
      BY <1>6, <1>11, <1>12, <2>2 DEF Ends, ValuesOK, HandInv
    <3> QED
      BY <1>5, <1>9, <1>11, <1>12, <1>14, <1>17, <1>18, <2>1, <2>2, <3>1 DEF MeetStep
  <2>3. CASE Cases(g)[i].dir # "send"
    <3>1. Ends(g, i, Cases(x)[j].val) /\ got'[x] = 0
      BY <1>6, <1>9, <1>11, <1>12, <2>3 DEF Ends
    <3> QED
      BY <1>5, <1>9, <1>11, <1>12, <1>14, <1>17, <1>18, <2>1, <2>3, <3>1 DEF MeetStep
  <2> QED
    BY <2>2, <2>3
<1>20. PlaceInv' /\ NumberInv'
  BY <1>19, MeetValues DEF ValuesOK
<1>21. HandInv'
  BY <1>10, <1>14, <1>15 DEF HandInv
<1>22. PeerInv'
  <2>1. CallsApart(g)
    BY <1>5, <1>7, <1>8, <1>11, <1>13 DEF CallsApart, IndInv, TypeOK
  <2> QED
    BY <1>5, <1>11, <2>1, ApartPeer DEF ValuesOK
<1> QED
  BY <1>20, <1>21, <1>22 DEF ValuesOK

LEMMA SelectValues ==
  ASSUME IndInv, IndInv', ValuesOK, NEW g \in Gs,
         Sellock(g) \/ SelectClosed(g) \/ SelectNotServed(g) \/ Pass3(g)
  PROVE  ValuesOK'
<1>1. Kept(hchan', hchan)
  BY SelectKeeps
<1>2. pc \in [Gs -> Places] /\ param \in [Gs -> Nat] /\ HandOK(g)
  BY DEF IndInv, TypeOK, ValuesOK, HandInv
<1>3. CASE Sellock(g)
  <2>1. /\ pc[g] \in {"sellock", "woken"}
        /\ call' = call /\ param' = param /\ got' = got /\ wake' = wake
        /\ nv' = nv /\ out' = out /\ in' = in
        /\ pc' = pc \/ pc' = [pc EXCEPT ![g] = IF pc[g] = "woken" THEN "pass3" ELSE "pass1"]
    BY <1>3 DEF Sellock, Goto
  <2>2. Apart(g) /\ pc'[g] \notin {"deliver", "ready"}
    BY <1>2, <2>1 DEF Apart
  <2>3. param[g] # 0 => pc'[g] \in {"woken", "pass3"}
    BY <1>2, <2>1 DEF HandOK
  <2> QED
    BY <1>1, <2>1, <2>2, <2>3, GoesOn
<1>4. CASE SelectClosed(g)
  <2>1. PICK i : i = First(g)
    OBVIOUS
  <2>2. /\ pc[g] = "pass1" /\ i # 0 /\ param' = param /\ wake' = wake /\ nv' = nv
        /\ Return(g, IF Cases(g)[i].dir = "send" THEN 0 ELSE i, 0)
    BY <1>4, <2>1 DEF SelectClosed
  <2>3. i \in DOMAIN Cases(g) /\ param[g] = 0
    BY <1>2, <2>1, <2>2, FirstCase DEF HandOK, IndInv
  <2>4. CASE Cases(g)[i].dir = "send"
    BY <1>1, <2>2, <2>3, <2>4, FailsValues
  <2>5. CASE Cases(g)[i].dir # "send"
    <3>1. Cases(g)[i].val = 0
      BY <2>3, <2>5, RecvValue DEF ValuesOK
    <3> QED
      BY <1>1, <2>2, <2>3, <2>5, <3>1, FailsValues
  <2> QED
    BY <2>4, <2>5
<1>5. CASE SelectNotServed(g)
  <2>1. pc[g] = "pass1" /\ param[g] = 0 /\ wake' = wake /\ nv' = nv
    BY <1>2, <1>5 DEF SelectNotServed, HandOK
  <2>2. \/ /\ call' = call /\ out' = out /\ in' = in /\ got' = got
           /\ param' = [param EXCEPT ![g] = 0] /\ pc' = [pc EXCEPT ![g] = "parked"]
        \/ Return(g, 0, 0) /\ param' = param
    BY <1>5 DEF SelectNotServed, Goto
  <2>3. CASE /\ call' = call /\ out' = out /\ in' = in /\ got' = got
             /\ param' = [param EXCEPT ![g] = 0] /\ pc' = [pc EXCEPT ![g] = "parked"]
    <3>1. Apart(g) /\ pc'[g] = "parked" /\ param'[g] = 0
      BY <1>2, <2>1, <2>3 DEF Apart
    <3> QED
      BY <1>1, <2>1, <2>3, <3>1, GoesOn
  <2>4. CASE Return(g, 0, 0) /\ param' = param
    BY <1>1, <2>1, <2>4, FailsValues
  <2> QED
    BY <2>2, <2>3, <2>4
<1>6. CASE Pass3(g)
  <2>1. pc[g] = "pass3" /\ param' = [param EXCEPT ![g] = 0] /\ wake' = wake /\ nv' = nv
    BY <1>6 DEF Pass3
  <2>2. CASE param[g] = 0
    <3>1. call' = call /\ out' = out /\ in' = in /\ got' = got /\ pc' = [pc EXCEPT ![g] = "pass1"]
      BY <1>6, <2>2 DEF Pass3, Goto
    <3>2. Apart(g) /\ pc'[g] = "pass1" /\ param'[g] = 0
      BY <1>2, <2>1, <3>1 DEF Apart
    <3> QED
      BY <1>1, <2>1, <2>2, <3>1, <3>2, GoesOn
  <2>3. CASE param[g] # 0
    <3>1. PICK i \in DOMAIN Cases(g) : i = param[g] /\ ~(Cap[Cases(g)[i].c] > 0)
      BY <1>2, <2>3 DEF HandOK
    <3>2. Return(g, i, got[g])
      BY <1>6, <2>3, <3>1 DEF Pass3
    <3>3. /\ Result(g, i, got[g]) /\ got' = [got EXCEPT ![g] = 0] /\ pc' = [pc EXCEPT ![g] = "idle"]
          /\ call' = [call EXCEPT ![g] = NoCall]
      BY <3>2 DEF Return, Result, Goto
    <3>4. Apart(g) /\ pc'[g] = "idle" /\ param'[g] = 0
      BY <1>2, <2>1, <3>3 DEF Apart, IndInv, TypeOK, ValuesOK, HandInv
    <3>5. Fired(g) = i /\ i \in {0} \cup DOMAIN Cases(g)
      BY <2>1, <3>1 DEF Fired
    <3> QED
      BY <1>1, <2>1, <3>3, <3>4, <3>5, ReturnsValues
  <2> QED
    BY <2>2, <2>3
<1> QED
  BY <1>3, <1>4, <1>5, <1>6

LEMMA RendezvousValues ==
  ASSUME IndInv, ValuesOK, NEW g \in Gs, pc[g] \in {"lock", "pass1"}, NEW h, Cleared(g, h),
         Kept(h, hchan), NEW i \in DOMAIN Cases(g), Cases(g)[i].dir \in Dirs, Rendezvous(g, i, h)
  PROVE  ValuesOK'
<1>1. PICK k : k = Cases(g)[i]
  OBVIOUS
<1>2. PICK c \in Chans : c = k.c
  BY <1>1, CaseTypes DEF IndInv
<1>3. PICK d \in Dirs : d = Other(k.dir)
  BY DEF Other, Dirs
<1>4. Peer(h, k) = dequeue(h[c].q[d]) /\ dequeue(h[c].q[d]).sg # NoSg
  BY <1>1, <1>2, <1>3 DEF Peer, Rendezvous
<1>5. PICK q \in Seq(Sudog) : q = h[c].q[d]
  BY DEF Cleared, HchanOK, Hchan, Queues
<1>6. PICK n \in DOMAIN q : dequeue(q).sg = q[n]
  BY <1>4, <1>5, DequeueSome
<1>7. q = hchan[c].q[d]
  <2>1. DOMAIN q # {}
    BY <1>6
  <2>2. q # <<>>
    BY <2>1
  <2> QED
    BY <1>5, <2>2 DEF Cleared
<1>8. PICK sg \in Sudog : sg = q[n]
  BY <1>6, SeqElements
<1>9. QueuedOK(c, d, sg)
  BY <1>6, <1>7, <1>8 DEF OnQueue, IndInv, QueuedInv
<1>10. /\ wake' = [wake EXCEPT ![g] = [sg |-> sg, i |-> i]] /\ pc' = [pc EXCEPT ![g] = "deliver"]
       /\ call' = call /\ param' = param /\ got' = got /\ nv' = nv /\ out' = out /\ in' = in
  BY <1>1, <1>4, <1>5, <1>6, <1>8 DEF Rendezvous, Goto
<1>11. Kept(hchan', hchan)
  <2>1. hchan' = SetQueue(h, c, d, Peer(h, k).rest)
    BY <1>1, <1>2, <1>3 DEF Rendezvous, SetQueue
  <2>2. Kept(hchan', h)
    BY <2>1, KeptQueue DEF Cleared
  <2> QED
    BY <2>2, KeptMoved
<1>12. /\ pc'[g] = "deliver" /\ wake'[g] = [sg |-> sg, i |-> i]
       /\ \A x \in Gs \ {g} : pc'[x] = pc[x] /\ wake'[x] = wake[x]
  BY <1>10 DEF IndInv, TypeOK
<1>13. param[g] = 0
  BY DEF ValuesOK, HandInv, HandOK
<1>14. \A x \in Gs : Same(x) /\ HandOK(x)'
  <2>1. Apart(g)
    BY <1>10, <1>12 DEF Apart
  <2>2. \A x \in Gs \ {g} : Same(x) /\ HandOK(x)'
    BY <2>1, ApartSame DEF ValuesOK
  <2>3. Same(g) /\ HandOK(g)'
    BY <1>10, <1>12, <1>13 DEF Same, HandOK, Fired, Cases, ValuesOK, HandInv
  <2> QED
    BY <2>2, <2>3
<1>15. QuietStep
  BY <1>10, <1>11, <1>14 DEF QuietStep, SameBufs, Kept, SameBuf
<1>16. PlaceInv' /\ NumberInv'
  BY <1>15, QuietValues DEF ValuesOK
<1>17. HandInv'
  BY <1>10, <1>14 DEF HandInv, ValuesOK
<1>18. PeerInv'
  <2> SUFFICES ASSUME NEW y \in Gs, pc'[y] = "deliver"
               PROVE  (Cases(wake[y].sg.g)[wake[y].sg.i].dir = Other(Cases(y)[wake[y].i].dir))'
    BY DEF PeerInv
  <2>1. CASE y = g
    <3>1. wake'[g].sg = sg /\ wake'[g].i = i
      BY <1>12
    <3>2. Cases(sg.g)[sg.i].dir = Other(Cases(g)[i].dir)
      BY <1>1, <1>3, <1>9 DEF QueuedOK
    <3> QED
      BY <1>10, <2>1, <3>1, <3>2 DEF Cases
  <2>2. CASE y # g
    <3>1. pc[y] = "deliver" /\ wake'[y] = wake[y]
      BY <1>12, <2>2
    <3> QED
      BY <1>10, <3>1 DEF Cases, ValuesOK, PeerInv
  <2> QED
    BY <2>1, <2>2
<1> QED
  BY <1>16, <1>17, <1>18 DEF ValuesOK

LEMMA BufferedValues ==
  ASSUME IndInv, ValuesOK, BufferInv, ClearInv, NEW g \in Gs, pc[g] \in {"lock", "pass1"},
         NEW h, HchanOK(h), Kept(h, hchan), NEW i \in DOMAIN Cases(g), Cases(g)[i].dir \in Dirs,
         Buffered(g, i, h)
  PROVE  ValuesOK'
<1>1. PICK k : k = Cases(g)[i]
  OBVIOUS
<1>2. PICK c \in Chans : c = k.c
  BY <1>1, CaseTypes DEF IndInv
<1>3. k.val \in Nat /\ k.dir \in Dirs
  BY <1>1, CaseTypes DEF IndInv
<1>4. PICK h1 : h1 = IF k.dir = "send" THEN SendBuf(h, k) ELSE RecvBuf(h, k)
  OBVIOUS
<1>5. PICK u : u = IF k.dir = "recv" THEN h[c].buf[h[c].recvx] ELSE 0
  OBVIOUS
<1>6. PICK p : p = Peer(h, k)
  OBVIOUS
<1>7. /\ hchan' = SetQueue(h1, c, Other(k.dir), p.rest) /\ Cap[c] > 0 /\ Room(h, k)
      /\ param' = param /\ nv' = nv
      /\ \/ Return(g, i, u) /\ wake' = wake
         \/ /\ wake' = [wake EXCEPT ![g] = [sg |-> p.sg, i |-> i]] /\ got' = [got EXCEPT ![g] = u]
            /\ pc' = [pc EXCEPT ![g] = "ready"] /\ call' = call /\ out' = out /\ in' = in
  BY <1>1, <1>2, <1>4, <1>5, <1>6 DEF Buffered, SetQueue, Goto
<1>8. PICK r : r = hchan[c]
  OBVIOUS
<1>9. /\ r \in Hchan(c) /\ EndsAt(r, c) /\ ClearOf(r, c) /\ Cap[c] \in Nat /\ Cap[c] # 0
      /\ SameBuf(h[c], r) /\ \A d \in Chans : h[d].buf = hchan[d].buf
  <2>1. Cap[c] \in Nat /\ Cap[c] # 0
    BY <1>7, ChanAssumption
  <2> QED
    BY <1>8, <2>1 DEF IndInv, TypeOK, HchanOK, BufferInv, ClearInv, Kept, SameBuf
<1>10. /\ HchanOK(h1)
       /\ k.dir = "send" => BufSet(h1, h, c, r.sendx, k.val)
       /\ k.dir # "send" => BufSet(h1, h, c, r.recvx, 0)
  <2>1. h[c].sendx = r.sendx /\ h[c].recvx = r.recvx
    BY <1>9 DEF SameBuf
  <2> QED
    BY <1>2, <1>3, <1>4, <1>7, <2>1, BufUpdate
<1>11. \A d \in Chans : hchan'[d].buf = h1[d].buf
  <2>1. Kept(hchan', h1)
    BY <1>7, <1>10, KeptQueue
  <2> QED
    BY <2>1 DEF Kept, SameBuf
<1>12. /\ k.dir = "send" => PutAt(c, r.sendx, k.val)
       /\ k.dir # "send" => PutAt(c, r.recvx, 0)
  BY <1>9, <1>10, <1>11 DEF BufSet, PutAt
<1>13. param[g] = 0 /\ Fired(g) = 0 /\ got[g] = 0
  BY DEF ValuesOK, HandInv, HandOK, Fired
<1>14. u \in Nat
  <2>1. r.recvx \in 0..Cap[c]-1 /\ r.buf \in [0..Cap[c]-1 -> Nat]
    BY <1>9, BufferFields
  <2>2. h[c].buf = r.buf /\ h[c].recvx = r.recvx
    BY <1>9 DEF SameBuf
  <2> QED
    BY <1>5, <2>1, <2>2
<1>15. got' \in [Gs -> Nat]
  BY <1>7, <1>14 DEF Return, ValuesOK, HandInv
<1>16. i # 0
  BY CaseTypes DEF IndInv
<1>17. Apart(g) /\ pc'[g] \in {"idle", "ready"} /\ param'[g] = 0
  BY <1>7, <1>13 DEF Apart, Return, Result, Goto, IndInv, TypeOK, ValuesOK, HandInv
<1>18. \A x \in Gs \ {g} : Same(x) /\ HandOK(x)'
  BY <1>17, ApartSame DEF ValuesOK
<1>19. HandOK(g)' /\ Uses(g, i, u)
  <2>1. CASE Return(g, i, u) /\ wake' = wake
    <3>1. pc'[g] = "idle" /\ got'[g] = 0 /\ Cases(g)' = <<>> /\ Result(g, i, u)
      BY <2>1 DEF Return, Result, Goto, Cases, NoCall, IndInv, TypeOK, ValuesOK, HandInv
    <3>2. Fired(g)' = 0
      BY <1>17, <3>1 DEF Fired
    <3> QED
      BY <1>7, <1>13, <1>16, <1>17, <1>18, <3>1, <3>2 DEF HandOK, Uses, Ends
  <2>2. CASE /\ wake' = [wake EXCEPT ![g] = [sg |-> p.sg, i |-> i]]
             /\ got' = [got EXCEPT ![g] = u] /\ pc' = [pc EXCEPT ![g] = "ready"]
             /\ call' = call /\ out' = out /\ in' = in
    <3>1. pc'[g] = "ready" /\ got'[g] = u /\ wake'[g] = [sg |-> p.sg, i |-> i]
      BY <2>2 DEF IndInv, TypeOK, ValuesOK, HandInv
    <3>2. Fired(g)' = i /\ Cases(g)' = Cases(g)
      BY <2>2, <3>1 DEF Fired, Cases
    <3> QED
      BY <1>7, <1>13, <1>16, <1>17, <1>18, <2>2, <3>1, <3>2 DEF HandOK, Uses
  <2> QED
    BY <1>7, <2>1, <2>2
<1>20. PlaceInv' /\ NumberInv'
  <2>1. CASE k.dir = "send"
    <3>1. u = 0 /\ r.qcount < Cap[c]
      BY <1>2, <1>5, <1>7, <1>9, <2>1 DEF Room, SameBuf
    <3>2. r.sendx \in 0..Cap[c]-1 /\ r.buf[r.sendx] = 0
      BY <1>9, <3>1, FreeSlot
    <3>3. PutStep(g, i)
      BY <1>1, <1>8, <1>12, <1>19, <2>1, <3>1, <3>2 DEF PutStep
    <3> QED
      BY <3>3, PutValues DEF ValuesOK
  <2>2. CASE k.dir # "send"
    <3>1. k.dir = "recv" /\ Cases(g)[i].val = 0
      BY <1>1, <1>3, <2>2, RecvValue DEF Dirs, ValuesOK
    <3>2. u = r.buf[r.recvx] /\ r.recvx \in 0..Cap[c]-1
      BY <1>5, <1>9, <3>1, BufferFields DEF SameBuf
    <3>3. GetStep(g, i)
      BY <1>8, <1>12, <1>19, <2>2, <3>1, <3>2 DEF GetStep
    <3> QED
      BY <3>3, GetValues DEF ValuesOK
  <2> QED
    BY <2>1, <2>2
<1>21. HandInv'
  BY <1>15, <1>18, <1>19 DEF HandInv
<1>22. PeerInv'
  BY <1>17, ApartPeer DEF ValuesOK, Apart, CallsApart
<1> QED
  BY <1>20, <1>21, <1>22 DEF ValuesOK

\* The numbers of the sends of one call are different, and there are as many.
LEMMA Numbering ==
  ASSUME NEW n \in Nat, NEW S \in SUBSET (1..n)
  PROVE  /\ Cardinality(S) \in Nat
         /\ \A i \in S : Cardinality({j \in S : j <= i}) \in 1..Cardinality(S)
         /\ \A i, k \in S :
              Cardinality({j \in S : j <= i}) = Cardinality({j \in S : j <= k}) => i = k
<1>1. IsFiniteSet(S) /\ Cardinality(S) \in Nat
  <2>1. IsFiniteSet(1..n)
    BY FS_Interval
  <2>2. IsFiniteSet(S)
    BY <2>1, FS_Subset
  <2> QED
    BY <2>2, FS_CardinalityType
<1> DEFINE T(i) == {j \in S : j <= i}
<1>2. ASSUME NEW i \in S
      PROVE  IsFiniteSet(T(i)) /\ Cardinality(T(i)) \in 1..Cardinality(S)
  <2>1. T(i) \in SUBSET S /\ T(i) # {}
    <3>1. i <= i /\ i \in S
      OBVIOUS
    <3> QED
      BY <3>1
  <2> HIDE DEF T
  <2>2. IsFiniteSet(T(i)) /\ Cardinality(T(i)) <= Cardinality(S)
    BY <1>1, <2>1, FS_Subset
  <2>3. Cardinality(T(i)) \in Nat /\ Cardinality(T(i)) # 0
    <3>1. Cardinality(T(i)) \in Nat
      BY <2>2, FS_CardinalityType
    <3>2. Cardinality(T(i)) # 0
      BY <2>1, <2>2, FS_EmptySet
    <3> QED
      BY <3>1, <3>2
  <2> QED
    BY <1>1, <2>2, <2>3
<1>3. ASSUME NEW i \in S, NEW k \in S, i <= k, Cardinality(T(i)) = Cardinality(T(k))
      PROVE  i = k
  <2>1. T(i) \in SUBSET T(k)
    <3>1. i \in Nat /\ k \in Nat /\ \A j \in S : j \in Nat
      OBVIOUS
    <3>2. \A j \in S : j <= i => j <= k
      BY <1>3, <3>1
    <3> QED
      BY <3>2
  <2>2. T(i) = T(k)
    <3> HIDE DEF T
    <3> QED
      BY <1>2, <1>3, <2>1, FS_Subset
  <2>3. k \in T(k)
    OBVIOUS
  <2>4. k <= i
    BY <2>2, <2>3
  <2> QED
    BY <1>3, <2>4
<1>4. \A i, k \in S : Cardinality(T(i)) = Cardinality(T(k)) => i = k
  <2>1. \A i, k \in S : i <= k \/ k <= i
    OBVIOUS
  <2> HIDE DEF T
  <2> QED
    BY <1>3, <2>1
<1> QED
  BY <1>1, <1>2, <1>4

LEMMA CallValues ==
  ASSUME IndInv, IndInv', ValuesOK, NEW g \in Gs, Call(g)
  PROVE  ValuesOK'
<1>1. PICK s \in MayCall[g] :
        LET sends == {i \in DOMAIN s.cases : s.cases[i].dir = "send"}
            number(i) == nv + Cardinality({j \in sends : j <= i})
        IN
        /\ nv' = nv + Cardinality(sends)
        /\ call' = [call EXCEPT ![g] =
             [s EXCEPT !.cases = [i \in DOMAIN s.cases |->
                [dir |-> s.cases[i].dir, c |-> s.cases[i].c,
                 val |-> IF i \in sends THEN number(i) ELSE 0]]]]
        /\ pc' = [pc EXCEPT ![g] = IF s.sel THEN "sellock" ELSE IF s.block THEN "lock" ELSE "fast"]
  BY DEF Call, Goto
<1> DEFINE sends == {i \in DOMAIN s.cases : s.cases[i].dir = "send"}
           rank(i) == Cardinality({j \in sends : j <= i})
           cs == [i \in DOMAIN s.cases |->
                    [dir |-> s.cases[i].dir, c |-> s.cases[i].c,
                     val |-> IF i \in sends THEN nv + rank(i) ELSE 0]]
<1>2. /\ pc[g] = "idle" /\ hchan' = hchan /\ param' = param /\ got' = got /\ wake' = wake
      /\ out' = out /\ in' = in
  BY DEF Call
<1>3. s \in [sel: BOOLEAN, block: BOOLEAN, cases: Seq([dir: Dirs \cup {"close"}, c: Chans])]
  BY <1>1, CallsAssumption
<1>4. Len(s.cases) \in Nat /\ DOMAIN s.cases = 1..Len(s.cases)
  BY <1>3, SeqElements
<1>5. /\ Cardinality(sends) \in Nat
      /\ \A i \in sends : rank(i) \in 1..Cardinality(sends)
      /\ \A i, k \in sends : rank(i) = rank(k) => i = k
  <2>1. sends \in SUBSET (1..Len(s.cases))
    BY <1>4
  <2> HIDE DEF sends
  <2> QED
    BY <1>4, <2>1, Numbering
<1>6. nv' = nv + Cardinality(sends) /\ call' = [call EXCEPT ![g] = [s EXCEPT !.cases = cs]]
  BY <1>1
<1>7. DOMAIN cs = DOMAIN s.cases /\ sends \subseteq DOMAIN s.cases
  OBVIOUS
<1>8. \A i \in DOMAIN cs :
        /\ cs[i].dir = s.cases[i].dir
        /\ cs[i].val = IF i \in sends THEN nv + rank(i) ELSE 0
        /\ i \in sends => cs[i].dir = "send"
  OBVIOUS
<1> HIDE DEF sends, rank, cs
<1>9. nv \in Nat /\ pc \in [Gs -> Places] /\ call \in [Gs -> CallType]
  BY DEF IndInv, TypeOK
<1>10. Cases(g)' = cs /\ \A x \in Gs \ {g} : call'[x] = call[x] /\ Cases(x)' = Cases(x)
  BY <1>3, <1>6, <1>9 DEF Cases
<1>11. /\ pc'[g] \in {"sellock", "lock", "fast"}
       /\ \A x \in Gs \ {g} : pc'[x] = pc[x]
  BY <1>1, <1>9
<1>12. Apart(g)
  BY <1>2, <1>10, <1>11 DEF Apart
<1>13. \A x \in Gs \ {g} : Same(x) /\ HandOK(x)'
  BY <1>12, ApartSame DEF ValuesOK
<1>14. param[g] = 0 /\ got[g] = 0 /\ Fired(g) = 0
  BY <1>2 DEF ValuesOK, HandInv, HandOK, Fired
<1>15. HandOK(g)' /\ Fired(g)' = 0
  BY <1>2, <1>11, <1>14 DEF HandOK, Fired
<1>16. HandInv'
  BY <1>2, <1>13, <1>15 DEF HandInv, ValuesOK
<1>17. PeerInv'
  BY <1>2, <1>11, <1>12, ApartPeer DEF ValuesOK, Apart, CallsApart
<1>18. PlaceInv'
  <2>1. \A v : Slots(v)' = Slots(v) /\ Hands(v)' = Hands(v)
    BY <1>2 DEF Slots, Hands
  <2>2. \A v : ~GivenBy(g, v) /\ ~GivenBy(g, v)'
    BY <1>14, <1>15 DEF GivenBy
  <2>3. \A v : \A x \in Gs \ {g} : GivenBy(x, v)' = GivenBy(x, v)
    BY <1>13 DEF Same, GivenBy
  <2>4. \A v : Given(v)' = Given(v)
    BY <1>2, <2>2, <2>3 DEF Given
  <2> QED
    BY <1>2, <2>1, <2>4 DEF PlaceInv, ValuesOK
<1>19. NumberInv'
  <2>1. nv' \in Nat /\ nv <= nv'
    BY <1>5, <1>6, <1>9
  <2>2. \A i \in DOMAIN cs :
          /\ cs[i].val \in Nat /\ cs[i].val <= nv'
          /\ cs[i].val # 0 => i \in sends /\ nv < cs[i].val
    BY <1>5, <1>6, <1>8, <1>9
  <2>3. \A i, j \in DOMAIN cs : cs[i].val = cs[j].val /\ cs[i].val # 0 => i = j
    <3>1. \A i, j \in sends : nv + rank(i) = nv + rank(j) => rank(i) = rank(j)
      BY <1>5, <1>9
    <3> QED
      BY <1>5, <1>8, <2>2, <3>1
  <2>4. \A x \in Gs : \A i \in DOMAIN Cases(x) :
          /\ Cases(x)[i].val \in Nat /\ Cases(x)[i].val <= nv
          /\ Cases(x)[i].val # 0 => Cases(x)[i].dir = "send"
    BY CaseTypes DEF IndInv, ValuesOK, NumberInv
  <2>5. \A v \in Vals : v \in Nat /\ v # 0 /\ (v > nv => out[v] = "unsent")
    BY DEF Vals, ValuesOK, NumberInv
  <2>6. \A x \in Gs : \A i \in (DOMAIN Cases(x))' :
          /\ Cases(x)'[i].val <= nv'
          /\ Cases(x)'[i].val # 0 => Cases(x)'[i].dir = "send"
    <3> SUFFICES ASSUME NEW x \in Gs, NEW i \in (DOMAIN Cases(x))'
                 PROVE  /\ Cases(x)'[i].val <= nv'
                        /\ Cases(x)'[i].val # 0 => Cases(x)'[i].dir = "send"
      OBVIOUS
    <3>1. CASE x = g
      BY <1>8, <1>10, <2>2, <3>1
    <3>2. CASE x # g
      BY <1>9, <1>10, <2>1, <2>4, <3>2
    <3> QED
      BY <3>1, <3>2
  <2>7. \A x \in Gs, v \in Vals : Pending(x, v)' => out'[v] = "unsent"
    <3> SUFFICES ASSUME NEW x \in Gs, NEW v \in Vals, Pending(x, v)'
                 PROVE  out[v] = "unsent"
      BY <1>2
    <3>1. CASE x = g
      <4>1. PICK i \in DOMAIN cs : cs[i].val = v
        BY <1>10, <3>1 DEF Pending
      <4> QED
        BY <1>9, <2>2, <2>5, <4>1
    <3>2. CASE x # g
      <4>1. Pending(x, v)
        BY <1>10, <3>2 DEF Pending
      <4> QED
        BY <4>1 DEF ValuesOK, NumberInv
    <3> QED
      BY <3>1, <3>2
  <2>8. \A x, y \in Gs, v \in Vals : \A i \in (DOMAIN Cases(x))', j \in (DOMAIN Cases(y))' :
          Cases(x)'[i].val = v /\ Cases(y)'[j].val = v => x = y /\ i = j
    <3> SUFFICES ASSUME NEW x \in Gs, NEW y \in Gs, NEW v \in Vals,
                        NEW i \in (DOMAIN Cases(x))', NEW j \in (DOMAIN Cases(y))',
                        Cases(x)'[i].val = v, Cases(y)'[j].val = v
                 PROVE  x = y /\ i = j
      OBVIOUS
    <3>1. CASE x = g /\ y = g
      BY <1>10, <2>3, <2>5, <3>1
    <3>2. CASE x = g /\ y # g
      <4>1. nv < v
        BY <1>10, <2>2, <2>5, <3>2
      <4>2. v <= nv
        BY <1>10, <2>4, <3>2
      <4> QED
        BY <1>9, <2>5, <4>1, <4>2
    <3>3. CASE x # g /\ y = g
      <4>1. nv < v
        BY <1>10, <2>2, <2>5, <3>3
      <4>2. v <= nv
        BY <1>10, <2>4, <3>3
      <4> QED
        BY <1>9, <2>5, <4>1, <4>2
    <3>4. CASE x # g /\ y # g
      BY <1>10, <3>4 DEF ValuesOK, NumberInv
    <3> QED
      BY <3>1, <3>2, <3>3, <3>4
  <2>9. \A v \in Vals : v > nv' => out'[v] = "unsent"
    BY <1>2, <1>9, <2>1, <2>5
  <2> QED
    BY <2>6, <2>7, <2>8, <2>9 DEF NumberInv
<1> QED
  BY <1>16, <1>17, <1>18, <1>19 DEF ValuesOK

LEMMA ServedValues ==
  ASSUME IndInv, ValuesOK, BufferInv, ClearInv, NEW g \in Gs, Served(g) \/ SelectServed(g)
  PROVE  ValuesOK'
<1>1. CASE Served(g)
  <2>1. pc[g] = "lock" /\ Cases(g)[1].dir \in Dirs /\ (Rendezvous(g, 1, hchan) \/ Buffered(g, 1, hchan))
    BY <1>1 DEF Served, AtLock, Dirs
  <2>2. 1 \in DOMAIN Cases(g) /\ Cleared(g, hchan) /\ HchanOK(hchan) /\ Kept(hchan, hchan)
    BY <2>1, PlainCase, KeptMoved DEF Cleared
  <2> QED
    BY <2>1, <2>2, RendezvousValues, BufferedValues
<1>2. CASE SelectServed(g)
  <2>1. PICK i, h : /\ i \in DOMAIN Cases(g) /\ Cases(g)[i].dir \in Dirs /\ pc[g] = "pass1"
                    /\ HchanOK(h) /\ Kept(h, hchan) /\ (Rendezvous(g, i, h) \/ Buffered(g, i, h))
                    /\ h = selunlock(g, Polled(g, i - 1))
    BY <1>2, SelectServedFrom
  <2>2. Cleared(g, h)
    BY <2>1, PolledCleared DEF IndInv
  <2> QED
    BY <2>1, <2>2, RendezvousValues, BufferedValues
<1> QED
  BY <1>1, <1>2

LEMMA StepValues ==
  ASSUME IndInv, IndInv', ValuesOK, BufferInv, ClearInv, NEW g \in Gs,
         Call(g) \/ ChanStep(g) \/ SelectStep(g)
  PROVE  ValuesOK'
<1>1. CASE Call(g)
  BY <1>1, CallValues
<1>2. CASE ChanStep(g)
  BY <1>2, FastValues, MeetsClosedValues, ServedValues, NotServedValues, DeliverValues,
     ReadyPeerValues, WokenValues, CloseValues DEF ChanStep
<1>3. CASE SelectStep(g)
  BY <1>3, ServedValues, SelectValues DEF SelectStep
<1> QED
  BY <1>1, <1>2, <1>3

LEMMA NextValues ==
  ASSUME IndInv, IndInv', BufferInv, ValueInv, [Next]_vars
  PROVE  ValueInv'
<1>1. ValuesOK /\ ClearInv
  BY DEF ValueInv, ValuesOK
<1>2. ValuesOK'
  <2>1. CASE Next
    BY <1>1, <2>1, StepValues DEF Next
  <2>2. CASE UNCHANGED vars
    <3>1. /\ hchan' = hchan /\ pc' = pc /\ call' = call /\ param' = param /\ got' = got
          /\ wake' = wake /\ nv' = nv /\ out' = out /\ in' = in
      BY <2>2 DEF vars
    <3>2. QuietStep
      BY <3>1 DEF QuietStep, SameBufs, Same, Fired, Cases
    <3>3. PlaceInv' /\ NumberInv'
      BY <1>1, <3>2, QuietValues DEF ValuesOK
    <3>4. HandInv' /\ PeerInv'
      BY <1>1, <3>1 DEF ValuesOK, HandInv, HandOK, PeerInv, Fired, Cases
    <3> QED
      BY <3>3, <3>4 DEF ValuesOK
  <2> QED
    BY <2>1, <2>2
<1>3. ClearInv'
  BY <1>1, NextClear
<1> QED
  BY <1>2, <1>3 DEF ValueInv, ValuesOK

LEMMA InitValues == Init => ValueInv
<1> SUFFICES ASSUME Init PROVE ValueInv
  OBVIOUS
<1>1. \A g \in Gs : pc[g] = "idle" /\ Cases(g) = <<>> /\ param[g] = 0 /\ got[g] = 0 /\ Fired(g) = 0
  BY DEF Init, Cases, NoCall, Fired
<1>2. \A c \in Chans : \A k \in 0..Cap[c]-1 : hchan[c].buf[k] = 0
  BY DEF Init
<1>3. \A g \in Gs : DOMAIN Cases(g) = {}
  BY <1>1
<1>4. PlaceInv
  <2> SUFFICES ASSUME NEW v \in Vals PROVE One(Slots(v), Hands(v), in[v], Given(v))
    BY DEF PlaceInv
  <2>1. v # 0
    BY ChanAssumption DEF Vals
  <2>2. Slots(v) = {}
    BY <1>2, <2>1 DEF Slots
  <2>3. Hands(v) = {} /\ in[v] = 0
    BY <1>1, <2>1 DEF Hands, Init
  <2>4. ~Given(v)
    BY <1>1 DEF Given, GivenBy, Init
  <2> QED
    BY <2>2, <2>3, <2>4 DEF One
<1>5. NumberInv
  BY <1>3 DEF NumberInv, Pending, Init
<1>6. HandInv /\ PeerInv
  BY <1>1 DEF HandInv, HandOK, PeerInv, Init
<1>7. ClearInv
  BY <1>2 DEF ClearInv, ClearOf
<1> QED
  BY <1>4, <1>5, <1>6, <1>7 DEF ValueInv

\* Every value has its place.
LEMMA SpecValues == Spec => []ValueInv
<1>1. IndInv /\ IndInv' /\ BufferInv /\ ValueInv /\ [Next]_vars => ValueInv'
  BY NextValues
<1> QED
  BY <1>1, InitValues, SpecInv, SpecBuffer, PTL DEF Spec

\* Each position of the content has a slot of its own.
LEMMA SlotOf ==
  ASSUME NEW c \in Chans, NEW r \in Hchan(c), NEW j \in 1..r.qcount
  PROVE  /\ Wrapped(c, r.recvx + j - 1) \in 0..Cap[c]-1
         /\ \A i \in 1..r.qcount : Wrapped(c, r.recvx + i - 1) = Wrapped(c, r.recvx + j - 1) => i = j
<1>1. PICK n \in Nat : n = Cap[c]
  BY BufferFields
<1>2. PICK m \in 0..n : m = r.qcount
  BY <1>1, BufferFields
<1>3. n # 0 /\ j \in 1..m
  BY <1>2
<1>4. PICK f \in 0..n-1 : f = r.recvx
  BY <1>1, <1>3, BufferFields
<1>5. \A i \in 1..m : Wrapped(c, f + i - 1) = IF f + i - 1 < n THEN f + i - 1 ELSE f + i - 1 - n
  BY <1>1 DEF Wrapped
<1>6. Wrapped(c, f + j - 1) \in 0..n-1
  BY <1>3, <1>5
<1>7. \A i \in 1..m : Wrapped(c, f + i - 1) = Wrapped(c, f + j - 1) => i = j
  BY <1>3, <1>5
<1> QED
  BY <1>1, <1>2, <1>4, <1>6, <1>7

\* Where v is in the contents of the channels.
Located(v) == {x \in Positions : Content(x[1])[x[2]] = v}

LEMMA PositionSlot ==
  ASSUME IndInv, NEW v, NEW x \in Positions, Content(x[1])[x[2]] = v
  PROVE  \E c \in Chans, j \in Nat :
           /\ x = <<c, j>> /\ j \in 1..hchan[c].qcount
           /\ <<c, Wrapped(c, hchan[c].recvx + j - 1)>> \in Slots(v)
<1>1. PICK c \in Chans : x \in {c} \X (1..hchan[c].qcount)
  BY DEF Positions
<1>2. PICK r : r = hchan[c] /\ r \in Hchan(c)
  BY DEF IndInv, TypeOK, HchanOK
<1>3. PICK j : x = <<c, j>> /\ j \in 1..r.qcount
  BY <1>1, <1>2
<1>4. r.qcount \in Nat /\ j \in Nat
  BY <1>2, <1>3, BufferFields
<1>5. PICK k : k = Wrapped(c, r.recvx + j - 1) /\ k \in 0..Cap[c]-1
  BY <1>2, <1>3, SlotOf
<1>6. Content(c) = ContentOf(r, c)
  BY <1>2, ContentSame DEF Content
<1>7. ContentOf(r, c)[j] = r.buf[k]
  BY <1>3, <1>5 DEF ContentOf
<1>8. r.buf[k] = v /\ k \in Nat
  BY <1>3, <1>5, <1>6, <1>7
<1>9. <<c, k>> \in Slots(v)
  BY <1>2, <1>5, <1>8 DEF Slots
<1> QED
  BY <1>2, <1>3, <1>4, <1>5, <1>9

LEMMA SlotPosition ==
  ASSUME IndInv, ClearInv, NEW v, v # 0, NEW s \in Slots(v)
  PROVE  \E x \in Positions : Content(x[1])[x[2]] = v
<1>1. PICK c \in Chans, k \in Nat : s = <<c, k>>
  BY DEF Slots
<1>2. PICK r : r = hchan[c] /\ r \in Hchan(c)
  BY DEF IndInv, TypeOK, HchanOK
<1>3. k \in 0..Cap[c]-1 /\ r.buf[k] = v
  BY <1>1, <1>2 DEF Slots
<1>4. ClearOf(r, c)
  BY <1>2 DEF ClearInv
<1>5. PICK j \in 1..r.qcount : k = Wrapped(c, r.recvx + j - 1)
  BY <1>3, <1>4 DEF ClearOf
<1>6. Content(c) = ContentOf(r, c)
  BY <1>2, ContentSame DEF Content
<1>7. ContentOf(r, c)[j] = v
  BY <1>3, <1>5 DEF ContentOf
<1>8. <<c, j>> \in {c} \X (1..hchan[c].qcount)
  BY <1>2
<1>9. <<c, j>> \in Positions
  BY <1>8 DEF Positions
<1> QED
  BY <1>6, <1>7, <1>9

\* A value is in as many positions of the contents as in slots of the buffers.
LEMMA PositionsCount ==
  ASSUME IndInv, ClearInv, NEW v, v # 0
  PROVE  /\ Slots(v) = {} => Located(v) = {}
         /\ \A s : Slots(v) = {s} => \E x : Located(v) = {x}
<1>1. ASSUME Slots(v) = {}
      PROVE  Located(v) = {}
  BY <1>1, PositionSlot DEF Located
<1>2. ASSUME NEW s, Slots(v) = {s}
      PROVE  \E x : Located(v) = {x}
  <2>1. PICK x \in Positions : Content(x[1])[x[2]] = v
    BY <1>2, SlotPosition
  <2>2. PICK c \in Chans, j \in Nat :
           /\ x = <<c, j>> /\ j \in 1..hchan[c].qcount
           /\ <<c, Wrapped(c, hchan[c].recvx + j - 1)>> \in Slots(v)
    BY <2>1, PositionSlot
  <2>3. ASSUME NEW y \in Located(v)
        PROVE  y = x
    <3>1. PICK d \in Chans, i \in Nat :
             /\ y = <<d, i>> /\ i \in 1..hchan[d].qcount
             /\ <<d, Wrapped(d, hchan[d].recvx + i - 1)>> \in Slots(v)
      BY <2>3, PositionSlot DEF Located
    <3>2. <<d, Wrapped(d, hchan[d].recvx + i - 1)>> = <<c, Wrapped(c, hchan[c].recvx + j - 1)>>
      BY <1>2, <2>2, <3>1
    <3>3. d = c /\ Wrapped(c, hchan[c].recvx + i - 1) = Wrapped(c, hchan[c].recvx + j - 1)
      BY <3>2
    <3>4. hchan[c] \in Hchan(c)
      BY DEF IndInv, TypeOK, HchanOK
    <3>5. i = j
      BY <2>2, <3>1, <3>3, <3>4, SlotOf
    <3> QED
      BY <2>2, <3>1, <3>3, <3>5
  <2> QED
    BY <2>1, <2>3 DEF Located
<1> QED
  BY <1>1, <1>2

LEMMA InvExactlyOnce == IndInv /\ ValueInv => ExactlyOnce
<1> SUFFICES ASSUME IndInv, ValueInv, NEW v \in Vals
             PROVE  /\ out[v] = "sent" => OnItsWay(v) + in[v] = 1
                    /\ out[v] = "failed" => OnItsWay(v) + in[v] = 0
  BY DEF ExactlyOnce
<1>1. One(Slots(v), Hands(v), in[v], Given(v)) /\ v # 0
  BY ChanAssumption DEF ValueInv, PlaceInv, Vals
<1>2. OnItsWay(v) = Cardinality(Located(v)) + Cardinality(Hands(v))
  BY DEF OnItsWay, Located, Hands
<1>3. Cardinality({}) = 0 /\ \A x : Cardinality({x}) = 1
  BY FS_EmptySet, FS_Singleton
<1>4. /\ Slots(v) = {} => Located(v) = {}
      /\ \A s : Slots(v) = {s} => \E x : Located(v) = {x}
  BY <1>1, PositionsCount DEF ValueInv
<1>5. ASSUME out[v] = "sent"
      PROVE  OnItsWay(v) + in[v] = 1
  <2>1. Given(v)
    BY <1>5 DEF Given
  <2>2. \/ \E s : Slots(v) = {s} /\ Hands(v) = {} /\ in[v] = 0
        \/ \E g : Hands(v) = {g} /\ Slots(v) = {} /\ in[v] = 0
        \/ Slots(v) = {} /\ Hands(v) = {} /\ in[v] = 1
    BY <1>1, <2>1 DEF One
  <2>3. CASE \E s : Slots(v) = {s} /\ Hands(v) = {} /\ in[v] = 0
    <3>1. Cardinality(Located(v)) = 1 /\ Cardinality(Hands(v)) = 0 /\ in[v] = 0
      BY <1>3, <1>4, <2>3
    <3> QED
      BY <1>2, <3>1
  <2>4. CASE \E g : Hands(v) = {g} /\ Slots(v) = {} /\ in[v] = 0
    <3>1. Cardinality(Located(v)) = 0 /\ Cardinality(Hands(v)) = 1 /\ in[v] = 0
      BY <1>3, <1>4, <2>4
    <3> QED
      BY <1>2, <3>1
  <2>5. CASE Slots(v) = {} /\ Hands(v) = {} /\ in[v] = 1
    BY <1>2, <1>3, <1>4, <2>5
  <2> QED
    BY <2>2, <2>3, <2>4, <2>5
<1>6. ASSUME out[v] = "failed"
      PROVE  OnItsWay(v) + in[v] = 0
  <2>1. ASSUME NEW g \in Gs, GivenBy(g, v)
        PROVE  FALSE
    <3>1. Fired(g) \in DOMAIN Cases(g)
      BY <2>1, FiredCase DEF GivenBy, ValueInv
    <3>2. Pending(g, v)
      BY <2>1, <3>1 DEF Pending, GivenBy
    <3> QED
      BY <1>6, <3>2 DEF ValueInv, NumberInv
  <2>2. ~Given(v)
    BY <1>6, <2>1 DEF Given
  <2>3. Slots(v) = {} /\ Hands(v) = {} /\ in[v] = 0
    BY <1>1, <2>2, OneFacts
  <2> QED
    BY <1>2, <1>3, <1>4, <2>3
<1> QED
  BY <1>5, <1>6

(***************************************************************************)
(* No value is lost, doubled or received after its send failed: chansend,  *)
(* chanrecv and selectgo, on buffered and synchronous channels, hand each  *)
(* value over exactly once, whoever closes, retries or wakes in between.   *)
(***************************************************************************)
THEOREM SelectExactlyOnce == Spec => []ExactlyOnce
BY SpecInv, SpecValues, InvExactlyOnce, PTL
=============================================================================
