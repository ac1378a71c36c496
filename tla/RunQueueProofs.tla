---------------------------- MODULE RunQueueProofs --------------------------
(***************************************************************************)
(* Proofs about RunQueue, for every number of Ps, of goroutines, every even*)
(* ring size that divides Wrap, and fewer than Wrap puts on each queue.    *)
(*                                                                         *)
(* Indices wrap at Wrap, so nothing is ordered by <.  Everything is said   *)
(* with positions counted from Start, which do not wrap while fewer than   *)
(* Wrap goroutines were put (IndexInv).  CallInv says, for each place a P  *)
(* can be at inside a call, what its locals still know about the queues:   *)
(* a thief's h and t are behind the victim's head and tail, and what it    *)
(* copied is right unless its cas is going to fail.                        *)
(***************************************************************************)
EXTENDS RunQueue, FiniteSetTheorems, WellFoundedInduction, TLAPS

\* How many puts before index i was the start.
Pos(i) == Sub(i, Start)

\* How many goroutines P p is still going to publish on its queue at most.
Coming(p) ==
  CASE pc[p] \in {"put", "write", "publish", "slow"} -> 1 + Len(batch[p])
    [] pc[p] \in {"grab", "copy", "cas"} -> Half
    [] pc[p] \in {"stolen", "spublish"} -> Len(batch[p])
    [] OTHER -> 0

\* The queue of P p holds at most Size goroutines, will not go all the way
\* round, and each of its indices has a goroutine in its slot.
IndexInv(p) ==
  /\ Pos(head[p]) <= Pos(tail[p])
  /\ Pos(tail[p]) <= Pos(head[p]) + Size
  /\ Pos(tail[p]) + Coming(p) <= MaxPuts[p] + Size
  /\ \A i \in Indices(p) : runq[p][i % Size] \in Gs

\* runqput has gp to put.  Inside globrunqget the rest of the batch follows,
\* and there is room for all of it in half of the ring.
Putting(p) ==
  /\ gp[p] \in Gs
  /\ batch[p] \in Seq(Gs)
  /\ holder # p => batch[p] = <<>>
  /\ holder = p => Pos(tail[p]) + Len(batch[p]) + 1 <= Pos(head[p]) + Half

\* No put is going on and sched.lock is not held.
Alone(p) == holder # p /\ gp[p] = NoG

Empty(p) == Alone(p) /\ ret[p] = NoG /\ batch[p] = <<>>

\* runqgrab read a head of the victim, which may have moved on since.
Stealing(p) ==
  /\ Alone(p) /\ ret[p] = NoG
  /\ head[p] = tail[p]
  /\ victim[p] # p
  /\ Pos(h[p]) <= Pos(head[victim[p]])

\* It read a tail after it, and copied a batch.  The copies are what the queue
\* holds if the head is still the one read: nobody stores into those slots
\* before the head has passed them.
Grabbing(p) ==
  /\ Stealing(p)
  /\ Pos(h[p]) <= Pos(t[p])
  /\ Pos(t[p]) <= Pos(tail[victim[p]])
  /\ GrabSize(h[p], t[p]) \in 1..Half
  /\ head[victim[p]] = h[p] =>
       \A j \in 1..Len(batch[p]) :
         batch[p][j] = runq[victim[p]][Add(h[p], j-1) % Size]

\* The batch is taken; less than half a ring is left for the own empty queue.
Stole(p) ==
  /\ Alone(p) /\ ret[p] \in Gs
  /\ head[p] = tail[p]
  /\ batch[p] \in Seq(Gs) /\ Len(batch[p]) < Half

\* What P p knows where it is.
CallInv(p) ==
  /\ pc[p] = "idle" => Empty(p)
  /\ pc[p] = "get" => Empty(p) /\ Pos(h[p]) <= Pos(head[p]) /\ Pos(h[p]) < Pos(tail[p])
  /\ pc[p] = "put" => Putting(p)
  /\ pc[p] = "write" => Putting(p) /\ t[p] = tail[p] /\ Pos(tail[p]) < Pos(head[p]) + Size
  /\ pc[p] = "publish" =>
       /\ Putting(p) /\ t[p] = tail[p] /\ Pos(tail[p]) < Pos(head[p]) + Size
       /\ runq[p][t[p] % Size] = gp[p]
  /\ pc[p] = "slow" =>
       /\ Putting(p) /\ holder # p /\ t[p] = tail[p]
       /\ Pos(h[p]) <= Pos(head[p]) /\ Pos(tail[p]) = Pos(h[p]) + Size
  /\ pc[p] = "glob" => Alone(p) /\ batch[p] \in Seq(Gs) /\ Len(batch[p]) = Half + 1
  /\ pc[p] = "grab" => Stealing(p) /\ batch[p] = <<>>
  /\ pc[p] = "copy" => Grabbing(p) /\ Len(batch[p]) < GrabSize(h[p], t[p])
  /\ pc[p] = "cas" => Grabbing(p) /\ Len(batch[p]) = GrabSize(h[p], t[p])
  /\ pc[p] = "stolen" => Stole(p)
  /\ pc[p] = "spublish" =>
       /\ Stole(p) /\ t[p] = tail[p] 
       /\ \A j \in 1..Len(batch[p]) : runq[p][Add(t[p], j-1) % Size] = batch[p][j]

\* The inductive invariant of the queues.
QueueInv == \A p \in Ps : IndexInv(p) /\ CallInv(p)

----------------------------------------------------------------------------
(* Lemmas about % and the indices *)

LEMMA ModRange == ASSUME NEW a \in Int, NEW n \in Nat \ {0} PROVE a % n \in 0..n-1
  BY SMT

LEMMA ModUnique ==
  ASSUME NEW a \in Int, NEW n \in Nat \ {0}, NEW q \in Int, NEW r \in 0..n-1, a = n * q + r
  PROVE  a % n = r
  BY SMT

LEMMA ModDiv ==
  ASSUME NEW a \in Int, NEW n \in Nat \ {0}
  PROVE  \E q \in Int : a = n * q + (a % n)
<1>1. a \div n \in Int /\ a = n * (a \div n) + (a % n)
  BY SMT
<1> QED  BY <1>1

\* Numbers less than n apart have different remainders.
LEMMA ModSame ==
  ASSUME NEW n \in Nat \ {0}, NEW a \in Int, NEW b \in Int, a % n = b % n, a <= b, b < a + n
  PROVE  a = b
<1> DEFINE r == a % n
<1>1. PICK q \in Int : a = n * q + r
  BY ModDiv
<1>2. PICK u \in Int : b = n * u + r
  BY ModDiv
<1>3. r \in Int
  BY ModRange
<1> HIDE DEF r
<1>4. PICK e \in Int : e = u - q
  OBVIOUS
<1>5. n * e >= 0 /\ n * e < n
  <2>1. n * e = n * u - n * q
    BY <1>4
  <2> QED  BY <1>1, <1>2, <1>3, <2>1
<1>6. e >= 0
  BY <1>5
<1>7. e < 1
  BY <1>5
<1> QED  BY <1>1, <1>2, <1>3, <1>4, <1>6, <1>7

LEMMA ModShift ==
  ASSUME NEW n \in Nat \ {0}, NEW w \in Nat, w % n = 0, NEW a \in Int
  PROVE  (a + w) % n = a % n
<1> DEFINE r == a % n
<1>1. PICK q \in Int : a = n * q + r
  BY ModDiv
<1>2. w \in Int
  OBVIOUS
<1>3. PICK u \in Int : w = n * u + 0
  BY ModDiv, <1>2
<1>4. r \in 0..n-1
  BY ModRange
<1> HIDE DEF r
<1>5. a + w = n * (q + u) + r
  BY <1>1, <1>3, <1>4
<1>6. a + w \in Int /\ q + u \in Int
  BY <1>1, <1>3
<1>7. (a + w) % n = r
  BY <1>4, <1>5, <1>6, ModUnique
<1> QED  BY <1>7 DEF r

LEMMA Sizes ==
  ASSUME NEW p \in Ps
  PROVE  /\ Size \in Nat \ {0} /\ Half \in Nat \ {0} /\ Size = Half + Half
         /\ MaxPuts[p] \in Nat
         /\ Wrap \in Nat /\ MaxPuts[p] + Size + Size < Wrap /\ Wrap % Size = 0
         /\ Start \in 0..Wrap-1 /\ Start = Wrap - 2
  BY SizeAssumption DEF Half, Start

\* Pos counts from Start; while no index has gone all the way round, Add and
\* Sub are addition and subtraction of positions.
LEMMA PosAdd ==
  ASSUME NEW p \in Ps, NEW i \in 0..Wrap-1
  PROVE  /\ Pos(i) \in 0..Wrap-1
         /\ \A n \in Nat : Pos(i) + n < Wrap =>
              Add(i, n) \in 0..Wrap-1 /\ Pos(Add(i, n)) = Pos(i) + n
<1>1. Wrap \in Nat /\ Wrap > 2 /\ Start = Wrap - 2
  BY Sizes
<1>2. Pos(i) = IF i >= Start THEN i - Start ELSE i - Start + Wrap
  BY <1>1 DEF Pos, Sub
<1>3. ASSUME NEW n \in Nat, Pos(i) + n < Wrap
      PROVE  Add(i, n) = IF i + n < Wrap THEN i + n ELSE i + n - Wrap
  BY <1>1, <1>2, <1>3 DEF Add
<1>4. ASSUME NEW n \in Nat, Pos(i) + n < Wrap
      PROVE  Pos(Add(i, n)) = Pos(i) + n
  <2>1. Add(i, n) \in 0..Wrap-1
    BY <1>1, <1>2, <1>3, <1>4
  <2>2. Pos(Add(i, n)) = IF Add(i, n) >= Start THEN Add(i, n) - Start ELSE Add(i, n) - Start + Wrap
    BY <2>1, <1>1 DEF Pos, Sub
  <2> QED  BY <1>1, <1>2, <1>3, <1>4, <2>2
<1> QED  BY <1>1, <1>2, <1>3, <1>4

LEMMA PosSub ==
  ASSUME NEW p \in Ps, NEW i \in 0..Wrap-1, NEW j \in 0..Wrap-1
  PROVE  /\ Pos(i) = Pos(j) => i = j
         /\ Pos(j) <= Pos(i) => Sub(i, j) = Pos(i) - Pos(j)
         /\ Pos(j) <= Pos(i) => Add(j, Pos(i) - Pos(j)) = i
<1>1. Wrap \in Nat /\ Wrap > 2 /\ Start = Wrap - 2
  BY Sizes
<1>2. Pos(i) = IF i >= Start THEN i - Start ELSE i - Start + Wrap
  BY <1>1 DEF Pos, Sub
<1>3. Pos(j) = IF j >= Start THEN j - Start ELSE j - Start + Wrap
  BY <1>1 DEF Pos, Sub
<1>4. Pos(i) = Pos(j) => i = j
  BY <1>1, <1>2, <1>3
<1>5. Pos(j) <= Pos(i) => Sub(i, j) = Pos(i) - Pos(j)
  <2>1. Sub(i, j) = IF i >= j THEN i - j ELSE i - j + Wrap
    BY <1>1 DEF Sub
  <2> QED  BY <1>1, <1>2, <1>3, <2>1
<1>6. ASSUME Pos(j) <= Pos(i) PROVE Add(j, Pos(i) - Pos(j)) = i
  <2>0. Pos(i) - Pos(j) \in Nat
    BY <1>1, <1>2, <1>3, <1>6
  <2>1. PICK n \in Nat : n = Pos(i) - Pos(j)
    BY <2>0
  <2>2. Pos(j) + n < Wrap /\ Pos(j) + n = Pos(i)
    BY <1>1, <1>2, <1>3, <2>1
  <2>3. Add(j, n) \in 0..Wrap-1 /\ Pos(Add(j, n)) = Pos(i)
    BY <2>2, PosAdd
  <2>4. \A k \in 0..Wrap-1 : Pos(k) = Pos(i) => k = i
    BY <1>1 DEF Pos, Sub
  <2> QED  BY <2>1, <2>3, <2>4
<1> QED  BY <1>4, <1>5, <1>6

\* Two indices of one ring share a slot only if they are the same.
LEMMA SlotInj ==
  ASSUME NEW p \in Ps, NEW i \in 0..Wrap-1, NEW j \in 0..Wrap-1
  PROVE  /\ i % Size \in 0..Size-1
         /\ Pos(i) <= Pos(j) /\ Pos(j) < Pos(i) + Size /\ i % Size = j % Size => i = j
<1>1. /\ Wrap \in Nat /\ Wrap > 2 /\ Start = Wrap - 2 /\ Wrap % Size = 0
      /\ Size \in Nat \ {0} /\ Size + Size < Wrap
  BY Sizes
<1>2. i % Size \in 0..Size-1
  BY <1>1, ModRange
<1>3. Pos(i) = IF i >= Start THEN i - Start ELSE i - Start + Wrap
  BY <1>1 DEF Pos, Sub
<1>4. Pos(j) = IF j >= Start THEN j - Start ELSE j - Start + Wrap
  BY <1>1 DEF Pos, Sub
<1>5. ASSUME Pos(i) <= Pos(j), Pos(j) < Pos(i) + Size, i % Size = j % Size PROVE i = j
  <2>1. CASE i <= j
    <3>1. j < i + Size
      BY <1>1, <1>3, <1>4, <1>5, <2>1
    <3> QED  BY <1>1, <1>5, <2>1, <3>1, ModSame
  <2>2. CASE j < i
    <3>1. j + Wrap < i + Size /\ i <= j + Wrap
      BY <1>1, <1>3, <1>4, <1>5, <2>2
    <3>2. (j + Wrap) % Size = i % Size
      <4>1. j \in Int
        BY <1>1
      <4>2. (j + Wrap) % Size = j % Size
        BY <1>1, <4>1, ModShift
      <4> QED  BY <1>5, <4>2
    <3>3. j + Wrap \in Int /\ i \in Int
      BY <1>1
    <3>4. i = j + Wrap
      BY <1>1, <3>1, <3>2, <3>3, ModSame
    <3> QED  BY <1>1, <3>4
  <2> QED  BY <1>1, <2>1, <2>2
<1> QED  BY <1>2, <1>5

LEMMA IndicesFacts ==
  ASSUME NEW p \in Ps, NEW i0 \in 0..Wrap-1, NEW j0 \in 0..Wrap-1, Pos(i0) <= Pos(j0)
  PROVE  {Add(i0, k) : k \in 0..Sub(j0, i0)-1} = {i \in 0..Wrap-1 : Pos(i0) <= Pos(i) /\ Pos(i) < Pos(j0)}
<1>2. /\ Pos(i0) \in Nat /\ Pos(j0) \in Nat /\ Pos(j0) < Wrap
      /\ Sub(j0, i0) = Pos(j0) - Pos(i0)
      /\ Wrap \in Nat
  BY PosAdd, PosSub, Sizes
<1>3. ASSUME NEW i \in {Add(i0, k) : k \in 0..Sub(j0, i0)-1}
      PROVE  i \in 0..Wrap-1 /\ Pos(i0) <= Pos(i) /\ Pos(i) < Pos(j0)
  <2>1. PICK k \in 0..Sub(j0, i0)-1 : i = Add(i0, k)
    BY <1>3
  <2>2. k \in Nat /\ Pos(i0) + k < Pos(j0)
    BY <1>2, <2>1
  <2>3. Pos(i0) + k < Wrap
    BY <1>2, <2>2
  <2>4. Add(i0, k) \in 0..Wrap-1 /\ Pos(Add(i0, k)) = Pos(i0) + k
    BY <2>2, <2>3, PosAdd
  <2> QED  BY <1>2, <2>1, <2>2, <2>4
<1>4. ASSUME NEW i \in 0..Wrap-1, Pos(i0) <= Pos(i), Pos(i) < Pos(j0)
      PROVE  i \in {Add(i0, k) : k \in 0..Sub(j0, i0)-1}
  <2>1. Pos(i) \in Nat
    BY PosAdd
  <2>2. Add(i0, Pos(i) - Pos(i0)) = i
    BY <1>4, PosSub
  <2>3. Pos(i) - Pos(i0) \in 0..Sub(j0, i0)-1
    BY <1>2, <1>4, <2>1
  <2> QED  BY <2>2, <2>3
<1> QED  BY <1>3, <1>4

LEMMA PosNat ==
  ASSUME NEW p \in Ps
  PROVE  \A i \in 0..Wrap-1 : Pos(i) \in Nat /\ Pos(i) < Wrap
<1>1. ASSUME NEW i \in 0..Wrap-1 PROVE Pos(i) \in 0..Wrap-1
  BY PosAdd
<1>2. Wrap \in Nat
  BY Sizes
<1> QED  BY <1>1, <1>2

LEMMA Positions ==
  ASSUME TypeOK, NEW p \in Ps
  PROVE  /\ head[p] \in 0..Wrap-1 /\ tail[p] \in 0..Wrap-1
         /\ h[p] \in 0..Wrap-1 /\ t[p] \in 0..Wrap-1
         /\ Pos(head[p]) \in Nat /\ Pos(tail[p]) \in Nat
         /\ Pos(h[p]) \in Nat /\ Pos(t[p]) \in Nat
         /\ batch[p] \in Seq(Gs \cup {NoG}) /\ Len(batch[p]) \in Nat
         /\ pc[p] \in Locations /\ victim[p] \in Ps
         /\ gp[p] \in Gs \cup {NoG} /\ ret[p] \in Gs \cup {NoG}
         /\ runq[p] \in [0..Size-1 -> Gs \cup {NoG}]
<1>1. /\ head[p] \in 0..Wrap-1 /\ tail[p] \in 0..Wrap-1
      /\ h[p] \in 0..Wrap-1 /\ t[p] \in 0..Wrap-1
  BY DEF TypeOK
<1>2. batch[p] \in Seq(Gs \cup {NoG}) /\ pc[p] \in Locations /\ victim[p] \in Ps
  BY DEF TypeOK
<1>3. /\ gp[p] \in Gs \cup {NoG} /\ ret[p] \in Gs \cup {NoG}
      /\ runq[p] \in [0..Size-1 -> Gs \cup {NoG}]
  BY DEF TypeOK
<1>4. \A i \in 0..Wrap-1 : Pos(i) \in Nat
  BY PosNat
<1>5. Len(batch[p]) \in Nat
  BY <1>2
<1> QED  BY <1>1, <1>2, <1>3, <1>4, <1>5

\* A batch is at most half of what lies between the two indices, rounded up.
LEMMA GrabFacts ==
  ASSUME NEW p \in Ps, NEW i \in 0..Wrap-1, NEW j \in 0..Wrap-1, Pos(i) <= Pos(j)
  PROVE  /\ GrabSize(i, j) \in Nat
         /\ Pos(i) + GrabSize(i, j) <= Pos(j)
         /\ GrabSize(i, j) = 0 => Pos(i) = Pos(j)
<1>1. Sub(j, i) = Pos(j) - Pos(i) /\ Pos(i) \in Nat /\ Pos(j) \in Nat
  BY PosSub, PosAdd
<1>2. PICK d \in Nat : d = Sub(j, i)
  BY <1>1
<1>3. GrabSize(i, j) = d - d \div 2
  BY <1>2 DEF GrabSize
<1>4. d - d \div 2 \in Nat /\ d - d \div 2 <= d /\ (d - d \div 2 = 0 => d = 0)
  OBVIOUS
<1> QED  BY <1>1, <1>2, <1>3, <1>4, SMTT(30)

----------------------------------------------------------------------------
(* What a step of P p may do to the queues *)

\* Head and tail only advance, and what lies between them stays in its slot.
Advances(q) ==
  /\ Pos(head[q]) <= Pos(head'[q])
  /\ Pos(tail[q]) <= Pos(tail'[q])
  /\ \A i \in 0..Wrap-1 :
       Pos(head[q]) <= Pos(i) /\ Pos(i) < Pos(tail[q]) => runq'[q][i % Size] = runq[q][i % Size]

\* Another P goes on where it was; its head may have advanced.
Bystander(q) ==
  /\ pc'[q] = pc[q] /\ h'[q] = h[q] /\ t'[q] = t[q] /\ gp'[q] = gp[q]
  /\ ret'[q] = ret[q] /\ batch'[q] = batch[q] /\ victim'[q] = victim[q]
  /\ tail'[q] = tail[q] /\ runq'[q] = runq[q]
  /\ holder' = q => holder = q
  /\ holder = q => holder' = q
  /\ Pos(head[q]) <= Pos(head'[q]) /\ Pos(head'[q]) <= Pos(tail[q])

StepOf(p) ==
  /\ Advances(p)
  /\ \A q \in Ps \ {p} : Bystander(q)

LEMMA BystanderAdvances ==
  ASSUME TypeOK, NEW q \in Ps, Bystander(q)
  PROVE  Advances(q)
  BY Positions DEF Advances, Bystander

LEMMA BystanderKept ==
  ASSUME TypeOK, TypeOK', QueueInv, NEW p \in Ps, StepOf(p), NEW q \in Ps, q # p
  PROVE  IndexInv(q)' /\ CallInv(q)'
<1> DEFINE v == victim[q]
<1>0. IndexInv(q) /\ CallInv(q) /\ Bystander(q) /\ v \in Ps
  BY Positions DEF QueueInv, StepOf
<1>1. Advances(v)
  BY <1>0, BystanderAdvances DEF StepOf
<1>2. /\ head[q] \in 0..Wrap-1 /\ head'[q] \in 0..Wrap-1 /\ tail[q] \in 0..Wrap-1
      /\ head[v] \in 0..Wrap-1 /\ head'[v] \in 0..Wrap-1
      /\ tail[v] \in 0..Wrap-1 /\ tail'[v] \in 0..Wrap-1
      /\ h[q] \in 0..Wrap-1 /\ t[q] \in 0..Wrap-1
      /\ batch[q] \in Seq(Gs \cup {NoG}) /\ Len(batch[q]) \in Nat
  <2>1. v \in Ps /\ q \in Ps
    BY <1>0
  <2> HIDE DEF v
  <2>2. head \in [Ps -> 0..Wrap-1] /\ tail \in [Ps -> 0..Wrap-1]
    BY DEF TypeOK
  <2>3. head' \in [Ps -> 0..Wrap-1] /\ tail' \in [Ps -> 0..Wrap-1]
    BY DEF TypeOK
  <2>4. h[q] \in 0..Wrap-1 /\ t[q] \in 0..Wrap-1
    BY DEF TypeOK
  <2>5. batch[q] \in Seq(Gs \cup {NoG})
    BY DEF TypeOK
  <2> QED  BY <2>1, <2>2, <2>3, <2>4, <2>5
<1>3. /\ Pos(head[q]) \in Nat /\ Pos(head'[q]) \in Nat /\ Pos(tail[q]) \in Nat
      /\ Pos(head[v]) \in Nat /\ Pos(head'[v]) \in Nat
      /\ Pos(tail[v]) \in Nat /\ Pos(tail'[v]) \in Nat
      /\ Pos(h[q]) \in Nat /\ Pos(t[q]) \in Nat
  BY <1>2, PosNat
<1>4. /\ Size \in Nat \ {0} /\ Half \in Nat \ {0} /\ MaxPuts[q] \in Nat /\ Wrap \in Nat
  BY Sizes
<1>5. IndexInv(q)'
  <2>1. /\ Pos(head'[q]) <= Pos(tail'[q])
        /\ Pos(tail'[q]) <= Pos(head'[q]) + Size
    BY <1>0, <1>3, <1>4 DEF IndexInv, Bystander
  <2>2. Coming(q)' = Coming(q)
    BY <1>0 DEF Coming, Bystander
  <2>3. Pos(tail'[q]) + Coming(q)' <= MaxPuts[q] + Size
    BY <1>0, <2>2 DEF IndexInv, Bystander
  <2>4. Indices(q) = {i \in 0..Wrap-1 : Pos(head[q]) <= Pos(i) /\ Pos(i) < Pos(tail[q])}
    BY <1>0, <1>2, IndicesFacts DEF IndexInv, Indices
  <2>5. Indices(q)' = {i \in 0..Wrap-1 : Pos(head'[q]) <= Pos(i) /\ Pos(i) < Pos(tail'[q])}
    BY <1>0, <1>2, <2>1, IndicesFacts DEF Indices, Bystander
  <2>6. \A i \in 0..Wrap-1 : Pos(i) \in Nat
    BY PosAdd
  <2>7. \A i \in Indices(q)' : i \in Indices(q)
    BY <1>0, <1>3, <2>4, <2>5, <2>6 DEF Bystander
  <2>8. \A i \in Indices(q)' : runq'[q][i % Size] \in Gs
    BY <1>0, <2>7 DEF IndexInv, Bystander
  <2> QED  BY <2>1, <2>3, <2>8 DEF IndexInv
<1>6. Putting(q) => Putting(q)'
  BY <1>0, <1>3, <1>4, <1>2, SMTT(30) DEF Putting, Bystander
<1>7. Empty(q) => Empty(q)'
  BY <1>0 DEF Empty, Alone, Bystander
<1>8. head[q] = tail[q] => head'[q] = tail'[q]
  <2>1. head[q] = tail[q] => Pos(head'[q]) = Pos(tail[q])
    BY <1>0, <1>3 DEF Bystander
  <2> QED  BY <1>0, <1>2, <2>1, PosSub DEF Bystander
<1>9. Stealing(q) => Stealing(q)'
  BY <1>0, <1>1, <1>3, <1>8 DEF Stealing, Alone, Bystander, Advances
<1>10. Stole(q) => Stole(q)'
  BY <1>0, <1>8 DEF Stole, Alone, Bystander
<1>11. ASSUME Grabbing(q), Len(batch[q]) <= GrabSize(h[q], t[q])
       PROVE  Grabbing(q)'
  <2>1. Stealing(q)'
    BY <1>9, <1>11 DEF Grabbing
  <2>2. /\ Pos(h[q]) <= Pos(t[q])
        /\ Pos(t[q]) <= Pos(tail'[v])
        /\ GrabSize(h[q], t[q]) \in 1..Half
    BY <1>1, <1>3, <1>11 DEF Grabbing, Advances
  <2>3. ASSUME head'[v] = h[q], NEW j \in 1..Len(batch[q])
        PROVE  batch[q][j] = runq'[v][Add(h[q], j-1) % Size]
    <3>1. Pos(h[q]) <= Pos(head[v]) /\ Pos(head[v]) <= Pos(head'[v])
      BY <1>1, <1>11 DEF Grabbing, Stealing, Advances
    <3>2. head[v] = h[q]
      <4>1. Pos(head[v]) = Pos(h[q])
        BY <1>3, <2>3, <3>1
      <4> QED  BY <1>2, <4>1, PosSub
    <3>3. batch[q][j] = runq[v][Add(h[q], j-1) % Size]
      BY <1>11, <3>2 DEF Grabbing
    <3>4. j-1 \in Nat /\ Pos(h[q]) + (j-1) < Pos(t[q])
      BY <1>2, <1>3, <1>11, <2>2, GrabFacts, SMTT(30)
    <3>5. Pos(t[q]) < Wrap
      BY <1>2, <1>4, PosAdd
    <3>6. Add(h[q], j-1) \in 0..Wrap-1 /\ Pos(Add(h[q], j-1)) = Pos(h[q]) + (j-1)
      <4>1. Pos(h[q]) + (j-1) < Wrap
        BY <1>3, <1>4, <3>4, <3>5, SMTT(30)
      <4> QED  BY <1>2, <3>4, <4>1, PosAdd
    <3>7. Pos(t[q]) <= Pos(tail[v])
      BY <1>11 DEF Grabbing
    <3>8. Pos(head[v]) <= Pos(Add(h[q], j-1)) /\ Pos(Add(h[q], j-1)) < Pos(tail[v])
      BY <1>3, <3>2, <3>4, <3>6, <3>7, SMTT(30)
    <3>9. runq'[v][Add(h[q], j-1) % Size] = runq[v][Add(h[q], j-1) % Size]
      BY <1>1, <3>6, <3>8 DEF Advances
    <3> QED  BY <3>3, <3>9
  <2>4. h'[q] = h[q] /\ t'[q] = t[q] /\ batch'[q] = batch[q] /\ victim'[q] = v
    BY <1>0 DEF Bystander
  <2> HIDE DEF v
  <2> QED  BY <2>1, <2>2, <2>3, <2>4 DEF Grabbing
<1>12. GrabSize(h'[q], t'[q]) = GrabSize(h[q], t[q])
  BY <1>0 DEF Bystander
<1> HIDE DEF v
<1>13. pc[q] \in Locations
  BY DEF TypeOK
<1>14. CallInv(q)'
  <2>1. CASE pc[q] \in {"idle", "get"}
    BY <1>0, <1>3, <1>7, <2>1 DEF CallInv, Bystander
  <2>2. CASE pc[q] \in {"put", "write", "publish"}
    BY <1>0, <1>3, <1>4, <1>6, <2>2 DEF CallInv, Bystander
  <2>3. CASE pc[q] = "slow"
    BY <1>0, <1>3, <1>4, <1>6, <2>3 DEF CallInv, Bystander
  <2>4. CASE pc[q] = "glob"
    BY <1>0, <2>4 DEF CallInv, Bystander, Alone
  <2>5. CASE pc[q] = "grab"
    BY <1>0, <1>9, <2>5 DEF CallInv, Bystander
  <2>6. CASE pc[q] \in {"copy", "cas"}
    <3>1. GrabSize(h[q], t[q]) \in Nat /\ Len(batch[q]) <= GrabSize(h[q], t[q]) /\ Grabbing(q)
      BY <1>0, <1>2, <2>6 DEF CallInv, Grabbing
    <3>2. Grabbing(q)'
      BY <3>1, <1>11
    <3> QED  BY <1>0, <1>12, <2>6, <3>2 DEF CallInv, Bystander
  <2>7. CASE pc[q] \in {"stolen", "spublish"}
    BY <1>0, <1>10, <2>7 DEF CallInv, Bystander
  <2> QED  BY <1>13, <2>1, <2>2, <2>3, <2>4, <2>5, <2>6, <2>7 DEF Locations
<1> QED  BY <1>5, <1>14
----------------------------------------------------------------------------
(* Each action keeps the types and the queues *)

\* P q does not notice the step.
Still(q) ==
  /\ pc'[q] = pc[q] /\ h'[q] = h[q] /\ t'[q] = t[q] /\ gp'[q] = gp[q]
  /\ ret'[q] = ret[q] /\ batch'[q] = batch[q] /\ victim'[q] = victim[q]
  /\ tail'[q] = tail[q] /\ runq'[q] = runq[q] /\ head'[q] = head[q]
  /\ holder' = q => holder = q
  /\ holder = q => holder' = q

Rest(p) == \A q \in Ps \ {p} : Still(q)

LEMMA RestStep ==
  ASSUME TypeOK, QueueInv, NEW p \in Ps, Rest(p), Advances(p)
  PROVE  StepOf(p)
<1>1. \A q \in Ps : Pos(head[q]) \in Nat /\ Pos(tail[q]) \in Nat /\ Pos(head[q]) <= Pos(tail[q])
  BY Positions DEF QueueInv, IndexInv
<1>2. ASSUME NEW q \in Ps \ {p} PROVE Bystander(q)
  BY <1>1 DEF Rest, Still, Bystander
<1> QED  BY <1>2 DEF StepOf

\* The queue of P p stays as it is.
LEMMA SameQueue ==
  ASSUME TypeOK, QueueInv, NEW p \in Ps, Rest(p),
         head'[p] = head[p], tail'[p] = tail[p], runq'[p] = runq[p],
         Pos(tail[p]) + Coming(p)' <= MaxPuts[p] + Size
  PROVE  StepOf(p) /\ IndexInv(p)'
<1>1. Advances(p)
  BY Positions DEF Advances
<1>2. IndexInv(p)
  BY DEF QueueInv
<1>3. Indices(p)' = Indices(p)
  BY DEF Indices
<1>4. IndexInv(p)'
  BY <1>2, <1>3 DEF IndexInv
<1> QED  BY <1>1, <1>4, RestStep

LEMMA ReturnEffect ==
  ASSUME TypeOK, NEW p \in Ps, Return(p), head' \in [Ps -> 0..Wrap-1], tail' \in [Ps -> 0..Wrap-1],
         runq' \in [Ps -> [0..Size-1 -> Gs \cup {NoG}]], sched' \in Seq(Gs),
         \A q \in Ps \ {p} : tail'[q] = tail[q] /\ runq'[q] = runq[q] /\ head'[q] = head[q]
  PROVE  /\ TypeOK' /\ Rest(p) /\ CallInv(p)' /\ Coming(p)' = 0
         /\ pc'[p] = "idle" /\ gp'[p] = NoG /\ ret'[p] = NoG /\ batch'[p] = <<>>
<1>1. out' \subseteq Gs /\ holder' \in Ps \cup {NoG}
  BY DEF TypeOK, Return
<1>2. pc' \in [Ps -> Locations]
  BY DEF TypeOK, Return, Goto, Locations
<1>3. h' \in [Ps -> 0..Wrap-1] /\ t' \in [Ps -> 0..Wrap-1]
  <2>1. 0 \in 0..Wrap-1
    BY Sizes
  <2> QED  BY <2>1 DEF TypeOK, Return
<1>4. /\ gp' \in [Ps -> Gs \cup {NoG}] /\ ret' \in [Ps -> Gs \cup {NoG}]
      /\ batch' \in [Ps -> Seq(Gs \cup {NoG})] /\ victim' \in [Ps -> Ps]
  <2>1. gp' \in [Ps -> Gs \cup {NoG}] /\ ret' \in [Ps -> Gs \cup {NoG}]
    BY DEF TypeOK, Return
  <2>2. <<>> \in Seq(Gs \cup {NoG})
    OBVIOUS
  <2>3. batch' \in [Ps -> Seq(Gs \cup {NoG})]
    BY <2>2 DEF TypeOK, Return
  <2>4. victim' \in [Ps -> Ps]
    BY DEF TypeOK, Return
  <2> QED  BY <2>1, <2>3, <2>4
<1>5. TypeOK'
  BY <1>1, <1>2, <1>3, <1>4 DEF TypeOK
<1>6. /\ pc'[p] = "idle" /\ gp'[p] = NoG /\ ret'[p] = NoG /\ batch'[p] = <<>>
      /\ holder' # p
  BY NoGAssumption DEF TypeOK, Return, Goto
<1>7. Rest(p)
  BY NoGAssumption DEF TypeOK, Return, Goto, Rest, Still
<1>8. CallInv(p)'
  BY <1>6 DEF CallInv, Empty, Alone
<1>9. Coming(p)' = 0
  BY <1>6 DEF Coming
<1> QED  BY <1>5, <1>6, <1>7, <1>8, <1>9

LEMMA RunqputKept ==
  ASSUME TypeOK, QueueInv, NEW p \in Ps, Runqput(p)
  PROVE  TypeOK' /\ StepOf(p) /\ IndexInv(p)' /\ CallInv(p)'
<1>1. TypeOK'
  BY DEF TypeOK, Runqput, Goto, Locations
<1>2. /\ pc'[p] = "put" /\ gp'[p] \in Gs /\ batch'[p] = <<>> /\ holder' # p
  BY DEF TypeOK, QueueInv, CallInv, Empty, Alone, Runqput, Goto
<1>3. Rest(p)
  BY DEF TypeOK, Runqput, Goto, Rest, Still
<1>4. Coming(p)' = 1
  BY <1>2 DEF Coming
<1>5. Pos(tail[p]) < MaxPuts[p]
  BY DEF Runqput, MayPut, Pos
<1>6. StepOf(p) /\ IndexInv(p)'
  <2>1. Pos(tail[p]) + 1 <= MaxPuts[p] + Size
    BY <1>5, Positions, Sizes, SMTT(30)
  <2> QED  BY <1>3, <1>4, <2>1, SameQueue DEF Runqput
<1>7. CallInv(p)'
  BY <1>2 DEF CallInv, Putting
<1> QED  BY <1>1, <1>6, <1>7

LEMMA RunqputLoadKept ==
  ASSUME TypeOK, QueueInv, NEW p \in Ps, RunqputLoad(p)
  PROVE  TypeOK' /\ StepOf(p) /\ IndexInv(p)' /\ CallInv(p)'
<1>1. TypeOK'
  BY DEF TypeOK, RunqputLoad, Goto, Locations
<1>2. Putting(p) /\ Coming(p) = 1 + Len(batch[p]) /\ IndexInv(p)
  BY DEF QueueInv, CallInv, RunqputLoad, Coming
<1>3. Rest(p)
  BY DEF TypeOK, RunqputLoad, Goto, Rest, Still
<1>4. /\ pc'[p] = IF Sub(tail[p], head[p]) < Size THEN "write" ELSE "slow"
      /\ h'[p] = head[p] /\ t'[p] = tail[p] /\ batch' = batch /\ gp' = gp /\ holder' = holder
      /\ head' = head /\ tail' = tail /\ runq' = runq
  BY DEF TypeOK, RunqputLoad, Goto
<1>5. Coming(p)' = Coming(p)
  BY <1>2, <1>4 DEF Coming
<1>6. StepOf(p) /\ IndexInv(p)'
  BY <1>2, <1>3, <1>4, <1>5, SameQueue DEF IndexInv
<1>7. Sub(tail[p], head[p]) = Pos(tail[p]) - Pos(head[p])
  BY <1>2, Positions, PosSub DEF IndexInv
<1>8. Putting(p)'
  BY <1>2, <1>4 DEF Putting
<1>9. CallInv(p)'
  <2>0. /\ Pos(tail[p]) \in Nat /\ Pos(head[p]) \in Nat /\ Size \in Nat /\ Half \in Nat \ {0}
        /\ Size = Half + Half /\ Len(batch[p]) \in Nat
    BY Positions, Sizes
  <2>1. CASE Sub(tail[p], head[p]) < Size
    <3>1. Pos(tail[p]) < Pos(head[p]) + Size
      BY <2>0, <2>1, <1>7
    <3> QED  BY <1>4, <1>8, <2>1, <3>1 DEF CallInv
  <2>2. CASE ~(Sub(tail[p], head[p]) < Size)
    <3>1. Pos(tail[p]) = Pos(head[p]) + Size
      BY <2>0, <2>2, <1>2, <1>7 DEF IndexInv
    <3>2. holder # p
      BY <2>0, <3>1, <1>2 DEF Putting
    <3> QED  BY <1>4, <1>8, <2>0, <2>2, <3>1, <3>2 DEF CallInv
  <2> QED  BY <2>1, <2>2
<1> QED  BY <1>1, <1>6, <1>9

LEMMA RunqputWriteKept ==
  ASSUME TypeOK, QueueInv, NEW p \in Ps, RunqputWrite(p)
  PROVE  TypeOK' /\ StepOf(p) /\ IndexInv(p)' /\ CallInv(p)'
<1> DEFINE s == t[p] % Size
<1>0. /\ s \in 0..Size-1 /\ t[p] \in 0..Wrap-1
      /\ \A i \in 0..Wrap-1 : i % Size \in 0..Size-1 /\ Pos(i) \in Nat
  BY Positions, SlotInj, PosAdd
<1>1. /\ Putting(p) /\ Coming(p) = 1 + Len(batch[p]) /\ IndexInv(p)
      /\ t[p] = tail[p] /\ Pos(tail[p]) < Pos(head[p]) + Size
  BY DEF QueueInv, CallInv, RunqputWrite, Coming
<1>2. \A i \in 0..Wrap-1 : Pos(head[p]) <= Pos(i) /\ Pos(i) < Pos(tail[p]) => i % Size # s
  <2> SUFFICES ASSUME NEW i \in 0..Wrap-1, Pos(head[p]) <= Pos(i), Pos(i) < Pos(tail[p])
               PROVE  i % Size # s
    OBVIOUS
  <2>1. Pos(i) \in Nat /\ Pos(head[p]) \in Nat /\ Pos(tail[p]) \in Nat /\ Size \in Nat
    BY Positions, PosAdd, Sizes
  <2>2. Pos(tail[p]) < Pos(i) + Size /\ Pos(i) <= Pos(tail[p]) /\ i # tail[p]
    BY <2>1, <1>1
  <2> QED  BY <1>0, <1>1, <2>2, SlotInj
<1> HIDE DEF s
<1>3. /\ runq' = [runq EXCEPT ![p][s] = gp[p]] /\ pc' = [pc EXCEPT ![p] = "publish"]
      /\ head' = head /\ tail' = tail /\ sched' = sched /\ holder' = holder /\ out' = out
      /\ h' = h /\ t' = t /\ gp' = gp /\ ret' = ret /\ batch' = batch /\ victim' = victim
  BY DEF RunqputWrite, Goto, locals, s
<1>4. /\ runq' \in [Ps -> [0..Size-1 -> Gs \cup {NoG}]] /\ runq'[p][s] = gp[p]
      /\ \A k \in 0..Size-1 : k # s => runq'[p][k] = runq[p][k]
      /\ \A q \in Ps \ {p} : runq'[q] = runq[q]
  BY <1>0, <1>3 DEF TypeOK
<1>5. TypeOK'
  BY <1>3, <1>4 DEF TypeOK, Locations
<1>6. Rest(p)
  BY <1>3, <1>4 DEF TypeOK, Rest, Still
<1>7. Advances(p)
  BY <1>0, <1>2, <1>3, <1>4, Positions DEF Advances
<1>8. pc'[p] = "publish"
  BY <1>3 DEF TypeOK
<1>9. Coming(p)' = Coming(p)
  BY <1>1, <1>3, <1>8 DEF Coming
<1>10. IndexInv(p)'
  <2>1. Indices(p)' = Indices(p)
    BY <1>3 DEF Indices
  <2>2. Indices(p) = {i \in 0..Wrap-1 : Pos(head[p]) <= Pos(i) /\ Pos(i) < Pos(tail[p])}
    BY <1>1, Positions, IndicesFacts DEF IndexInv, Indices
  <2>3. \A i \in Indices(p) : runq'[p][i % Size] = runq[p][i % Size]
    BY <1>7, <2>2 DEF Advances
  <2> QED  BY <1>1, <1>3, <1>9, <2>1, <2>3 DEF IndexInv
<1>11. CallInv(p)'
  <2>1. Putting(p)'
    BY <1>1, <1>3 DEF Putting
  <2> QED  BY <1>1, <1>3, <1>4, <1>8, <2>1 DEF CallInv, s
<1> QED  BY <1>5, <1>6, <1>7, <1>10, <1>11, RestStep

\* What a longer queue holds: the new indices are the ones just published.
LEMMA Published ==
  ASSUME TypeOK, NEW p \in Ps, IndexInv(p), NEW n \in Nat,
         Pos(tail[p]) + n <= Pos(head[p]) + Size, Pos(tail[p]) + n <= MaxPuts[p] + Size,
         head' = head, runq' = runq, tail' = [tail EXCEPT ![p] = Add(tail[p], n)],
         \A j \in 1..n : runq[p][Add(tail[p], j-1) % Size] \in Gs,
         Coming(p)' + n <= Coming(p), Coming(p)' \in Nat, Coming(p) \in Nat
  PROVE  /\ tail' \in [Ps -> 0..Wrap-1] /\ Pos(tail'[p]) = Pos(tail[p]) + n
         /\ IndexInv(p)' /\ Advances(p)
<1>1. /\ tail[p] \in 0..Wrap-1 /\ head[p] \in 0..Wrap-1
      /\ Pos(tail[p]) \in Nat /\ Pos(head[p]) \in Nat
      /\ Wrap \in Nat /\ Size \in Nat /\ MaxPuts[p] \in Nat /\ MaxPuts[p] + Size < Wrap
      /\ \A i \in 0..Wrap-1 : Pos(i) \in Nat
  <2>1. /\ Wrap \in Nat /\ Size \in Nat /\ MaxPuts[p] \in Nat /\ MaxPuts[p] + Size + Size < Wrap
    BY Sizes
  <2>2. MaxPuts[p] + Size < Wrap
    BY <2>1
  <2> QED  BY <2>1, <2>2, Positions, PosAdd, SMTT(30)
<1>2. Pos(tail[p]) + n < Wrap
  BY <1>1
<1>3. Add(tail[p], n) \in 0..Wrap-1 /\ Pos(Add(tail[p], n)) = Pos(tail[p]) + n
  BY <1>1, <1>2, PosAdd
<1>4. /\ tail' \in [Ps -> 0..Wrap-1] /\ tail'[p] = Add(tail[p], n)
  BY <1>3 DEF TypeOK
<1>5. Pos(tail'[p]) = Pos(tail[p]) + n
  BY <1>3, <1>4
<1>6. Advances(p)
  BY <1>1, <1>5 DEF Advances
<1>7. Indices(p) = {i \in 0..Wrap-1 : Pos(head[p]) <= Pos(i) /\ Pos(i) < Pos(tail[p])}
  BY <1>1, IndicesFacts DEF IndexInv, Indices
<1>8. Pos(head[p]) <= Pos(tail'[p])
  BY <1>1, <1>5 DEF IndexInv
<1>9. Indices(p)' = {i \in 0..Wrap-1 : Pos(head[p]) <= Pos(i) /\ Pos(i) < Pos(tail'[p])}
  <2>1. tail'[p] \in 0..Wrap-1 /\ head'[p] = head[p]
    BY <1>3, <1>4
  <2>2. head[p] \in 0..Wrap-1
    BY <1>1
  <2> QED  BY <1>8, <2>1, <2>2, IndicesFacts DEF Indices
<1>10. ASSUME NEW i \in Indices(p)' PROVE runq[p][i % Size] \in Gs
  <2>1. CASE Pos(i) < Pos(tail[p])
    BY <1>7, <1>9, <1>10, <2>1 DEF IndexInv
  <2>2. CASE ~(Pos(i) < Pos(tail[p]))
    <3>0. i \in 0..Wrap-1 /\ Pos(i) \in Nat /\ Pos(i) < Pos(tail[p]) + n
      BY <1>1, <1>5, <1>9, <1>10
    <3>1. PICK k \in Nat : k = Pos(i) - Pos(tail[p])
      BY <1>1, <2>2, <3>0
    <3>2. Add(tail[p], k) = i
      BY <1>1, <2>2, <3>0, <3>1, PosSub
    <3>3. k + 1 \in 1..n /\ (k + 1) - 1 = k
      BY <1>1, <3>0, <3>1
    <3>4. runq[p][Add(tail[p], (k + 1) - 1) % Size] \in Gs
      BY <3>3
    <3> QED  BY <3>2, <3>3, <3>4
  <2> QED  BY <2>1, <2>2
<1>11. Pos(tail'[p]) + Coming(p)' <= MaxPuts[p] + Size
  BY <1>1, <1>5 DEF IndexInv
<1>12. IndexInv(p)'
  BY <1>1, <1>5, <1>8, <1>10, <1>11 DEF IndexInv
<1> QED  BY <1>4, <1>5, <1>6, <1>12

LEMMA RunqputPublishKept ==
  ASSUME TypeOK, QueueInv, NEW p \in Ps, RunqputPublish(p)
  PROVE  TypeOK' /\ StepOf(p) /\ IndexInv(p)' /\ CallInv(p)'
<1>1. /\ Putting(p) /\ Coming(p) = 1 + Len(batch[p]) /\ IndexInv(p)
      /\ t[p] = tail[p] /\ Pos(tail[p]) < Pos(head[p]) + Size
      /\ runq[p][t[p] % Size] = gp[p]
  BY DEF QueueInv, CallInv, RunqputPublish, Coming
<1>2. /\ tail[p] \in 0..Wrap-1 /\ Pos(tail[p]) \in Nat /\ Pos(head[p]) \in Nat
      /\ Len(batch[p]) \in Nat /\ Size \in Nat /\ Half \in Nat /\ MaxPuts[p] \in Nat /\ Wrap \in Nat
      /\ batch[p] \in Seq(Gs)
  BY <1>1, Positions, Sizes DEF Putting
<1>3. /\ tail' = [tail EXCEPT ![p] = Add(tail[p], 1)]
      /\ head' = head /\ runq' = runq /\ sched' = sched
  BY <1>1 DEF RunqputPublish
<1>4. Pos(tail[p]) + 1 <= Pos(head[p]) + Size /\ Pos(tail[p]) + 1 <= MaxPuts[p] + Size
  BY <1>1, <1>2, SMTT(30) DEF IndexInv
<1>5. Add(tail[p], 0) = tail[p]
  <2>1. Pos(tail[p]) - Pos(tail[p]) = 0
    BY <1>2
  <2> QED  BY <1>2, <2>1, PosSub
<1>6. \A j \in 1..1 : runq[p][Add(tail[p], j-1) % Size] \in Gs
  <2>1. runq[p][Add(tail[p], 0) % Size] \in Gs
    BY <1>1, <1>5 DEF Putting
  <2>2. \A j \in 1..1 : j - 1 = 0
    OBVIOUS
  <2> QED  BY <2>1, <2>2
<1>7. CASE batch[p] = <<>> /\ Return(p)
  <2>0. Coming(p)' = 0
    <3>1. pc'[p] = "idle"
      BY <1>7 DEF Return, Goto, TypeOK
    <3> QED  BY <3>1 DEF Coming
  <2>1. /\ tail' \in [Ps -> 0..Wrap-1] /\ IndexInv(p)' /\ Advances(p)
    <3>1. 1 \in Nat /\ Coming(p) \in Nat /\ Coming(p)' \in Nat /\ Coming(p)' + 1 <= Coming(p)
      BY <1>1, <1>2, <2>0, SMTT(30)
    <3> QED  BY <1>1, <1>3, <1>4, <1>6, <3>1, Published
  <2>2. \A q \in Ps \ {p} : tail'[q] = tail[q] /\ runq'[q] = runq[q] /\ head'[q] = head[q]
    BY <1>3 DEF TypeOK
  <2>3. /\ head' \in [Ps -> 0..Wrap-1]
        /\ runq' \in [Ps -> [0..Size-1 -> Gs \cup {NoG}]] /\ sched' \in Seq(Gs)
    BY <1>3 DEF TypeOK
  <2>4. TypeOK' /\ Rest(p) /\ CallInv(p)'
    BY <1>7, <2>1, <2>2, <2>3, ReturnEffect
  <2> QED  BY <2>1, <2>4, RestStep
<1>8. ASSUME batch[p] # <<>>,
             gp' = [gp EXCEPT ![p] = Head(batch[p])],
             batch' = [batch EXCEPT ![p] = Tail(batch[p])],
             pc' = [pc EXCEPT ![p] = "put"],
             UNCHANGED <<holder, out, h, t, ret, victim>>
      PROVE  TypeOK' /\ StepOf(p) /\ IndexInv(p)' /\ CallInv(p)'
  <2>1. /\ Head(batch[p]) \in Gs /\ Tail(batch[p]) \in Seq(Gs)
        /\ Tail(batch[p]) \in Seq(Gs \cup {NoG})
        /\ Len(Tail(batch[p])) = Len(batch[p]) - 1 /\ Len(batch[p]) > 0
    BY <1>2, <1>8, Positions
  <2>2. /\ pc'[p] = "put" /\ gp'[p] \in Gs /\ batch'[p] \in Seq(Gs)
        /\ Len(batch'[p]) = Len(batch[p]) - 1
    BY <1>8, <2>1 DEF TypeOK
  <2>3. Coming(p)' = Len(batch[p])
    BY <1>2, <2>2 DEF Coming
  <2>4. /\ tail' \in [Ps -> 0..Wrap-1] /\ IndexInv(p)' /\ Advances(p)
        /\ Pos(tail'[p]) = Pos(tail[p]) + 1
    <3>1. 1 \in Nat /\ Coming(p) \in Nat /\ Coming(p)' \in Nat /\ Coming(p)' + 1 <= Coming(p)
      BY <1>1, <1>2, <2>3
    <3> QED  BY <1>1, <1>3, <1>4, <1>6, <3>1, Published
  <2>5. TypeOK'
    <3>1. gp' \in [Ps -> Gs \cup {NoG}] /\ pc' \in [Ps -> Locations]
      BY <1>8, <2>1 DEF TypeOK, Locations
    <3>2. batch' \in [Ps -> Seq(Gs \cup {NoG})]
      BY <1>8, <2>1 DEF TypeOK
    <3> QED  BY <1>3, <1>8, <2>4, <3>1, <3>2 DEF TypeOK
  <2>6. Rest(p)
    BY <1>3, <1>8 DEF TypeOK, Rest, Still
  <2>7. Putting(p)'
    <3>1. holder = p
      BY <1>1, <1>8 DEF Putting
    <3>2. Pos(tail[p]) + Len(batch[p]) + 1 <= Pos(head[p]) + Half
      BY <1>1, <3>1 DEF Putting
    <3>3. Pos(tail'[p]) + Len(batch'[p]) + 1 <= Pos(head'[p]) + Half
      BY <1>2, <1>3, <2>1, <2>2, <2>4, <3>2
    <3> QED  BY <1>8, <2>2, <3>1, <3>3 DEF Putting
  <2>8. CallInv(p)'
    BY <2>2, <2>7 DEF CallInv
  <2> QED  BY <2>4, <2>5, <2>6, <2>8, RestStep
<1> QED  BY <1>7, <1>8 DEF RunqputPublish, Goto

\* What a shorter queue holds: what it held.
LEMMA Removed ==
  ASSUME TypeOK, NEW p \in Ps, NEW q \in Ps, IndexInv(q), NEW n \in Nat,
         Pos(head[q]) + n <= Pos(tail[q]),
         tail' = tail, runq' = runq, head' = [head EXCEPT ![q] = Add(head[q], n)]
  PROVE  /\ head' \in [Ps -> 0..Wrap-1] /\ Pos(head'[q]) = Pos(head[q]) + n
         /\ Indices(q)' = {i \in Indices(q) : Pos(head'[q]) <= Pos(i)}
         /\ Advances(q)
         /\ Pos(tail[q]) + Coming(q)' <= MaxPuts[q] + Size => IndexInv(q)'
<1>1. /\ tail[q] \in 0..Wrap-1 /\ head[q] \in 0..Wrap-1
      /\ Pos(tail[q]) \in Nat /\ Pos(head[q]) \in Nat /\ Pos(tail[q]) < Wrap
      /\ Wrap \in Nat /\ Size \in Nat
      /\ \A i \in 0..Wrap-1 : Pos(i) \in Nat
  BY Positions, Sizes, PosNat
<1>2. Pos(head[q]) + n < Wrap
  BY <1>1
<1>3. Add(head[q], n) \in 0..Wrap-1 /\ Pos(Add(head[q], n)) = Pos(head[q]) + n
  BY <1>1, <1>2, PosAdd
<1>4. /\ head' \in [Ps -> 0..Wrap-1] /\ head'[q] = Add(head[q], n)
  BY <1>3 DEF TypeOK
<1>5. Pos(head'[q]) = Pos(head[q]) + n
  BY <1>3, <1>4
<1>6. Advances(q)
  BY <1>1, <1>5 DEF Advances
<1>7. Indices(q) = {i \in 0..Wrap-1 : Pos(head[q]) <= Pos(i) /\ Pos(i) < Pos(tail[q])}
  BY <1>1, IndicesFacts DEF IndexInv, Indices
<1>8. Indices(q)' = {i \in 0..Wrap-1 : Pos(head'[q]) <= Pos(i) /\ Pos(i) < Pos(tail[q])}
  <2>1. Pos(head'[q]) <= Pos(tail[q]) /\ head'[q] \in 0..Wrap-1
    BY <1>3, <1>4, <1>5
  <2> QED  BY <1>1, <2>1, IndicesFacts DEF Indices
<1>9. Indices(q)' = {i \in Indices(q) : Pos(head'[q]) <= Pos(i)}
  BY <1>1, <1>5, <1>7, <1>8
<1>10. Pos(tail[q]) <= Pos(head'[q]) + Size
  BY <1>1, <1>5 DEF IndexInv
<1>11. ASSUME Pos(tail[q]) + Coming(q)' <= MaxPuts[q] + Size PROVE IndexInv(q)'
  BY <1>5, <1>9, <1>10, <1>11 DEF IndexInv
<1> QED  BY <1>4, <1>5, <1>6, <1>9, <1>11

LEMMA RingItems ==
  ASSUME TypeOK, NEW q \in Ps, IndexInv(q), NEW n \in Nat, Pos(head[q]) + n <= Pos(tail[q])
  PROVE  \A k \in 1..n :
           /\ Add(head[q], k-1) \in Indices(q)
           /\ Add(head[q], k-1) \in 0..Wrap-1
           /\ Pos(Add(head[q], k-1)) = Pos(head[q]) + (k-1)
           /\ runq[q][Add(head[q], k-1) % Size] \in Gs
<1> SUFFICES ASSUME NEW k \in 1..n
             PROVE  /\ Add(head[q], k-1) \in Indices(q)
                    /\ Add(head[q], k-1) \in 0..Wrap-1
                    /\ Pos(Add(head[q], k-1)) = Pos(head[q]) + (k-1)
                    /\ runq[q][Add(head[q], k-1) % Size] \in Gs
  OBVIOUS
<1>1. /\ tail[q] \in 0..Wrap-1 /\ head[q] \in 0..Wrap-1
      /\ Pos(tail[q]) \in Nat /\ Pos(head[q]) \in Nat /\ Pos(tail[q]) < Wrap /\ Wrap \in Nat
  BY Positions, Sizes, PosNat
<1>2. k-1 \in Nat /\ Pos(head[q]) + (k-1) < Pos(tail[q]) /\ Pos(head[q]) + (k-1) < Wrap
  BY <1>1
<1>3. Add(head[q], k-1) \in 0..Wrap-1 /\ Pos(Add(head[q], k-1)) = Pos(head[q]) + (k-1)
  BY <1>1, <1>2, PosAdd
<1>4. Indices(q) = {i \in 0..Wrap-1 : Pos(head[q]) <= Pos(i) /\ Pos(i) < Pos(tail[q])}
  BY <1>1, IndicesFacts DEF IndexInv, Indices
<1>5. Add(head[q], k-1) \in Indices(q)
  BY <1>1, <1>2, <1>3, <1>4
<1> QED  BY <1>3, <1>5 DEF IndexInv

LEMMA RunqputSlowKept ==
  ASSUME TypeOK, QueueInv, NEW p \in Ps, RunqputSlow(p)
  PROVE  TypeOK' /\ StepOf(p) /\ IndexInv(p)' /\ CallInv(p)'
<1>1. /\ Putting(p) /\ Coming(p) = 1 + Len(batch[p]) /\ IndexInv(p) /\ holder # p
      /\ Pos(h[p]) <= Pos(head[p]) /\ Pos(tail[p]) = Pos(h[p]) + Size
      /\ batch[p] = <<>> /\ gp[p] \in Gs
  BY DEF QueueInv, CallInv, RunqputSlow, Coming, Putting
<1>2. /\ Pos(tail[p]) \in Nat /\ Pos(head[p]) \in Nat /\ Pos(h[p]) \in Nat
      /\ Size \in Nat /\ Half \in Nat \ {0} /\ Size = Half + Half /\ MaxPuts[p] \in Nat
  BY Positions, Sizes
<1>3. UNCHANGED <<tail, runq, sched, holder, out, h, t, ret, victim>>
  BY DEF RunqputSlow
<1>4. CASE /\ head[p] = h[p]
           /\ head' = [head EXCEPT ![p] = Add(h[p], Half)]
           /\ batch' = [batch EXCEPT ![p] =
                          Append([k \in 1..Half |-> runq[p][Add(h[p], k-1) % Size]], gp[p])]
           /\ gp' = [gp EXCEPT ![p] = NoG]
           /\ Goto(p, "glob")
  <2> DEFINE f == [k \in 1..Half |-> runq[p][Add(h[p], k-1) % Size]]
  <2>1. Pos(head[p]) + Half <= Pos(tail[p])
    BY <1>1, <1>2, <1>4
  <2>2. \A k \in 1..Half : runq[p][Add(h[p], k-1) % Size] \in Gs
    BY <1>1, <1>2, <1>4, <2>1, RingItems
  <2>3. f \in [1..Half -> Gs]
    BY <2>2
  <2> HIDE DEF f
  <2>4. f \in Seq(Gs) /\ Len(f) = Half
    BY <1>2, <2>3
  <2>5. Append(f, gp[p]) \in Seq(Gs) /\ Len(Append(f, gp[p])) = Half + 1
    BY <1>1, <1>2, <2>4, SMTT(30)
  <2>6. Append(f, gp[p]) \in Seq(Gs \cup {NoG})
    BY <2>5
  <2>7. /\ batch' = [batch EXCEPT ![p] = Append(f, gp[p])] /\ pc' = [pc EXCEPT ![p] = "glob"]
        /\ head' = [head EXCEPT ![p] = Add(head[p], Half)]
    BY <1>4 DEF f, Goto
  <2>8. /\ pc'[p] = "glob" /\ gp'[p] = NoG /\ batch'[p] \in Seq(Gs) /\ Len(batch'[p]) = Half + 1
    BY <1>4, <2>5, <2>7, ZenonT(60) DEF TypeOK
  <2>9. Coming(p)' = 0
    BY <2>8 DEF Coming
  <2>10. Pos(tail[p]) + Coming(p)' <= MaxPuts[p] + Size
    BY <1>1, <1>2, <2>9 DEF IndexInv
  <2>11. head' \in [Ps -> 0..Wrap-1] /\ Advances(p) /\ IndexInv(p)'
    BY <1>1, <1>2, <1>3, <2>1, <2>7, <2>10, Removed
  <2>12. TypeOK'
    <3>1. gp' \in [Ps -> Gs \cup {NoG}] /\ pc' \in [Ps -> Locations]
      BY <1>4, <2>7 DEF TypeOK, Locations
    <3>2. batch' \in [Ps -> Seq(Gs \cup {NoG})]
      BY <2>6, <2>7 DEF TypeOK
    <3> QED  BY <1>3, <2>11, <3>1, <3>2 DEF TypeOK
  <2>13. Rest(p)
    BY <1>3, <1>4, <2>7 DEF TypeOK, Rest, Still
  <2>14. CallInv(p)'
    BY <1>1, <1>3, <2>8 DEF CallInv, Alone
  <2> QED  BY <2>11, <2>12, <2>13, <2>14, RestStep
<1>5. CASE /\ head[p] # h[p]
           /\ Goto(p, "put")
           /\ UNCHANGED <<head, batch, gp>>
  <2>1. pc'[p] = "put" /\ Rest(p) /\ TypeOK'
    BY <1>3, <1>5 DEF TypeOK, Goto, Rest, Still, Locations
  <2>2. Coming(p)' = Coming(p)
    BY <1>1, <1>5, <2>1 DEF Coming
  <2>3. StepOf(p) /\ IndexInv(p)'
    BY <1>1, <1>3, <1>5, <2>1, <2>2, SameQueue DEF IndexInv
  <2>4. Putting(p)'
    BY <1>1, <1>3, <1>5 DEF Putting
  <2>5. CallInv(p)'
    BY <2>1, <2>4 DEF CallInv
  <2> QED  BY <2>1, <2>3, <2>5
<1> QED  BY <1>4, <1>5 DEF RunqputSlow

LEMMA RunqputGlobKept ==
  ASSUME TypeOK, QueueInv, NEW p \in Ps, RunqputGlob(p)
  PROVE  TypeOK' /\ StepOf(p) /\ IndexInv(p)' /\ CallInv(p)'
<1>1. IndexInv(p) /\ batch[p] \in Seq(Gs) /\ sched \in Seq(Gs) /\ Coming(p) = 0
  BY DEF QueueInv, CallInv, RunqputGlob, TypeOK, Coming
<1>2. /\ head' = head /\ tail' = tail /\ runq' = runq /\ Return(p)
      /\ sched' = sched \o batch[p]
  BY DEF RunqputGlob
<1>3. sched' \in Seq(Gs)
  BY <1>1, <1>2
<1>4. /\ head' \in [Ps -> 0..Wrap-1] /\ tail' \in [Ps -> 0..Wrap-1]
      /\ runq' \in [Ps -> [0..Size-1 -> Gs \cup {NoG}]]
  BY <1>2 DEF TypeOK
<1>5. TypeOK' /\ Rest(p) /\ CallInv(p)' /\ Coming(p)' = 0
  BY <1>2, <1>3, <1>4, ReturnEffect
<1>6. StepOf(p) /\ IndexInv(p)'
  BY <1>1, <1>2, <1>5, SameQueue DEF IndexInv
<1> QED  BY <1>5, <1>6

LEMMA RunqgetKept ==
  ASSUME TypeOK, QueueInv, NEW p \in Ps, Runqget(p)
  PROVE  TypeOK' /\ StepOf(p) /\ IndexInv(p)' /\ CallInv(p)'
<1>1. Empty(p) /\ IndexInv(p) /\ Coming(p) = 0
  BY DEF QueueInv, CallInv, Runqget, Coming
<1>2. UNCHANGED <<head, tail, runq, sched, holder, out, t, gp, ret, batch, victim>>
  BY DEF Runqget
<1>3. CASE UNCHANGED <<h, pc>>
  <2>1. TypeOK' /\ Rest(p) /\ Coming(p)' = Coming(p)
    BY <1>2, <1>3 DEF TypeOK, Rest, Still, Coming
  <2>2. StepOf(p) /\ IndexInv(p)'
    BY <1>1, <1>2, <2>1, SameQueue DEF IndexInv
  <2>3. CallInv(p)'
    <3>1. Empty(p)'
      BY <1>1, <1>2 DEF Empty, Alone
    <3> QED  BY <1>3, <3>1 DEF CallInv, Runqget
  <2> QED  BY <2>1, <2>2, <2>3
<1>4. CASE /\ tail[p] # head[p]
           /\ h' = [h EXCEPT ![p] = head[p]]
           /\ Goto(p, "get")
  <2>1. TypeOK' /\ Rest(p) /\ pc'[p] = "get" /\ h'[p] = head[p]
    BY <1>2, <1>4 DEF TypeOK, Rest, Still, Goto, Locations
  <2>2. Coming(p)' = 0
    BY <2>1 DEF Coming
  <2>3. StepOf(p) /\ IndexInv(p)'
    BY <1>1, <1>2, <2>1, <2>2, SameQueue DEF IndexInv
  <2>4. Empty(p)'
    BY <1>1, <1>2 DEF Empty, Alone
  <2>5. /\ Pos(head[p]) \in Nat /\ Pos(tail[p]) \in Nat /\ Pos(head[p]) # Pos(tail[p])
        /\ Pos(head[p]) <= Pos(tail[p])
    BY <1>1, <1>4, Positions, PosSub DEF IndexInv
  <2>6. Pos(head[p]) <= Pos(head[p]) /\ Pos(head[p]) < Pos(tail[p])
    BY <2>5
  <2>7. CallInv(p)'
    BY <1>2, <2>1, <2>4, <2>6 DEF CallInv
  <2> QED  BY <2>1, <2>3, <2>7
<1> QED  BY <1>3, <1>4 DEF Runqget

LEMMA RunqgetCasKept ==
  ASSUME TypeOK, QueueInv, NEW p \in Ps, RunqgetCas(p)
  PROVE  TypeOK' /\ StepOf(p) /\ IndexInv(p)' /\ CallInv(p)'
<1>1. /\ Empty(p) /\ IndexInv(p) /\ Coming(p) = 0
      /\ Pos(h[p]) <= Pos(head[p]) /\ Pos(h[p]) < Pos(tail[p])
  BY DEF QueueInv, CallInv, RunqgetCas, Coming
<1>2. UNCHANGED <<tail, runq, sched, holder, t, gp, ret, batch, victim>>
  BY DEF RunqgetCas
<1>3. Empty(p)'
  BY <1>1, <1>2 DEF Empty, Alone
<1>4. /\ Pos(head[p]) \in Nat /\ Pos(tail[p]) \in Nat /\ Pos(h[p]) \in Nat /\ 0 \in 0..Wrap-1
      /\ head[p] \in 0..Wrap-1 /\ tail[p] \in 0..Wrap-1
  BY Positions, Sizes
<1>5. CASE /\ head[p] = h[p]
           /\ head' = [head EXCEPT ![p] = Add(h[p], 1)]
           /\ out' = out \cup {runq[p][h[p] % Size]}
           /\ h' = [h EXCEPT ![p] = 0]
           /\ Goto(p, "idle")
  <2>1. 1 \in Nat /\ Pos(head[p]) + 1 <= Pos(tail[p])
    BY <1>1, <1>4, <1>5
  <2>2. pc'[p] = "idle" /\ head' = [head EXCEPT ![p] = Add(head[p], 1)]
    BY <1>5 DEF TypeOK, Goto
  <2>3. Coming(p)' = 0
    BY <2>2 DEF Coming
  <2>4. Pos(tail[p]) + Coming(p)' <= MaxPuts[p] + Size
    BY <1>1, <2>3 DEF IndexInv
  <2>5. head' \in [Ps -> 0..Wrap-1] /\ Advances(p) /\ IndexInv(p)'
    BY <1>1, <1>2, <2>1, <2>2, <2>4, Removed
  <2>6. runq[p][h[p] % Size] \in Gs
    <3>1. 1 \in 1..1 /\ Add(head[p], 1-1) = head[p]
      <4>1. Pos(head[p]) - Pos(head[p]) = 1 - 1
        BY <1>4
      <4> QED  BY <1>4, <4>1, PosSub
    <3> QED  BY <1>1, <1>5, <2>1, <3>1, RingItems
  <2>7. TypeOK'
    BY <1>2, <1>4, <1>5, <2>5, <2>6 DEF TypeOK, Goto, Locations
  <2>8. Rest(p)
    BY <1>2, <1>5, <2>2 DEF TypeOK, Rest, Still, Goto
  <2>9. CallInv(p)'
    BY <1>3, <2>2 DEF CallInv
  <2> QED  BY <2>5, <2>7, <2>8, <2>9, RestStep
<1>6. CASE /\ h' = [h EXCEPT ![p] = 0]
           /\ Goto(p, "idle")
           /\ UNCHANGED <<head, out>>
  <2>1. TypeOK' /\ Rest(p) /\ pc'[p] = "idle"
    BY <1>2, <1>4, <1>6 DEF TypeOK, Rest, Still, Goto, Locations
  <2>2. Coming(p)' = 0
    BY <2>1 DEF Coming
  <2>3. StepOf(p) /\ IndexInv(p)'
    BY <1>1, <1>2, <1>6, <2>1, <2>2, SameQueue DEF IndexInv
  <2>4. CallInv(p)'
    BY <1>3, <2>1 DEF CallInv
  <2> QED  BY <2>1, <2>3, <2>4
<1>7. CASE /\ head[p] # h[p] /\ tail[p] # head[p]
           /\ h' = [h EXCEPT ![p] = head[p]]
           /\ UNCHANGED <<head, out, pc>>
  <2>1. TypeOK' /\ Rest(p) /\ pc'[p] = "get" /\ h'[p] = head[p]
    BY <1>2, <1>7 DEF TypeOK, Rest, Still, RunqgetCas
  <2>2. Coming(p)' = 0
    BY <2>1 DEF Coming
  <2>3. StepOf(p) /\ IndexInv(p)'
    BY <1>1, <1>2, <1>7, <2>1, <2>2, SameQueue DEF IndexInv
  <2>4. Pos(head[p]) # Pos(tail[p])
    BY <1>4, <1>7, PosSub
  <2>5. Pos(head[p]) <= Pos(head[p]) /\ Pos(head[p]) < Pos(tail[p])
    BY <1>1, <1>4, <2>4 DEF IndexInv
  <2>6. CallInv(p)'
    BY <1>2, <1>3, <1>7, <2>1, <2>5 DEF CallInv
  <2> QED  BY <2>1, <2>3, <2>6
<1> QED  BY <1>5, <1>6, <1>7 DEF RunqgetCas

LEMMA RunqstealKept ==
  ASSUME TypeOK, QueueInv, NEW p \in Ps, Runqsteal(p)
  PROVE  TypeOK' /\ StepOf(p) /\ IndexInv(p)' /\ CallInv(p)'
<1>1. Empty(p) /\ IndexInv(p) /\ tail[p] = head[p] /\ pc[p] = "idle"
  BY DEF QueueInv, CallInv, Runqsteal
<1>2. PICK q \in Ps \ {p} :
        victim' = [victim EXCEPT ![p] = q] /\ h' = [h EXCEPT ![p] = head[q]]
  BY DEF Runqsteal
<1>3. /\ UNCHANGED <<head, tail, runq, sched, holder, out, t, gp, ret, batch>>
      /\ pc' = [pc EXCEPT ![p] = "grab"]
  BY DEF Runqsteal, Goto
<1>4. TypeOK' /\ Rest(p)
  BY <1>2, <1>3 DEF TypeOK, Rest, Still, Locations
<1>5. pc'[p] = "grab" /\ victim'[p] = q /\ h'[p] = head[q]
  BY <1>2, <1>3 DEF TypeOK
<1>6. Coming(p)' = Half
  BY <1>5 DEF Coming
<1>7. Pos(tail[p]) < MaxPuts[p]
  BY DEF Runqsteal, MayPut, Pos
<1>8. StepOf(p) /\ IndexInv(p)'
  <2>1. Pos(tail[p]) + Half <= MaxPuts[p] + Size
    BY <1>7, Positions, Sizes
  <2> QED  BY <1>3, <1>4, <1>6, <2>1, SameQueue
<1>9. Stealing(p)' /\ batch'[p] = <<>>
  <2>1. Pos(head[q]) <= Pos(head[q])
    BY Positions
  <2> QED  BY <1>1, <1>2, <1>3, <1>5, <2>1 DEF Stealing, Alone, Empty
<1>10. CallInv(p)'
  BY <1>5, <1>9 DEF CallInv
<1> QED  BY <1>4, <1>8, <1>10

LEMMA GrabTailKept ==
  ASSUME TypeOK, QueueInv, NEW p \in Ps, GrabTail(p)
  PROVE  TypeOK' /\ StepOf(p) /\ IndexInv(p)' /\ CallInv(p)'
<1> DEFINE v == victim[p]
           n == GrabSize(h[p], tail[v])
<1>1. Stealing(p) /\ batch[p] = <<>> /\ IndexInv(p) /\ pc[p] = "grab" /\ Coming(p) = Half
  BY DEF QueueInv, CallInv, GrabTail, Coming
<1>2. v \in Ps /\ v # p /\ IndexInv(v)
  BY <1>1, Positions DEF Stealing, QueueInv
<1>3. /\ head[v] \in 0..Wrap-1 /\ tail[v] \in 0..Wrap-1 /\ h[p] \in 0..Wrap-1
      /\ Pos(head[v]) \in Nat /\ Pos(tail[v]) \in Nat /\ Pos(h[p]) \in Nat
      /\ Pos(tail[p]) \in Nat /\ Half \in Nat /\ 0 \in 0..Wrap-1
  <2> HIDE DEF v
  <2>1. /\ head[v] \in 0..Wrap-1 /\ tail[v] \in 0..Wrap-1
        /\ Pos(head[v]) \in Nat /\ Pos(tail[v]) \in Nat
    BY <1>2, Positions
  <2>2. h[p] \in 0..Wrap-1 /\ Pos(h[p]) \in Nat /\ Pos(tail[p]) \in Nat
    BY Positions
  <2>3. Half \in Nat /\ 0 \in 0..Wrap-1
    BY Sizes
  <2> QED  BY <2>1, <2>2, <2>3
<1>4. UNCHANGED <<head, tail, runq, sched, holder, out, gp, ret, batch>>
  BY DEF GrabTail
<1>5. Pos(h[p]) <= Pos(head[v]) /\ Pos(h[p]) <= Pos(tail[v])
  BY <1>1, <1>2, <1>3 DEF Stealing, IndexInv
<1>6. CASE /\ victim' = [victim EXCEPT ![p] = p]
           /\ h' = [h EXCEPT ![p] = 0]
           /\ Goto(p, "idle")
           /\ UNCHANGED t
  <2>1. TypeOK' /\ Rest(p) /\ pc'[p] = "idle"
    BY <1>3, <1>4, <1>6 DEF TypeOK, Rest, Still, Goto, Locations
  <2>2. Coming(p)' = 0
    BY <2>1 DEF Coming
  <2>3. Pos(tail[p]) + 0 <= MaxPuts[p] + Size
    <3>1. Pos(tail[p]) + Half <= MaxPuts[p] + Size
      BY <1>1 DEF IndexInv
    <3>2. MaxPuts[p] \in Nat /\ Size \in Nat
      BY Sizes
    <3> QED  BY <1>3, <3>1, <3>2
  <2>4. StepOf(p) /\ IndexInv(p)'
    BY <1>4, <2>1, <2>2, <2>3, SameQueue
  <2>5. CallInv(p)'
    BY <1>1, <1>4, <2>1 DEF CallInv, Stealing, Empty, Alone
  <2> QED  BY <2>1, <2>4, <2>5
<1>7. CASE /\ h' = [h EXCEPT ![p] = head[v]]
           /\ UNCHANGED <<t, pc, victim>>
  <2>1. TypeOK' /\ Rest(p)
    BY <1>2, <1>4, <1>7 DEF TypeOK, Rest, Still
  <2>2. Coming(p)' = Coming(p) /\ h'[p] = head[v]
    BY <1>4, <1>7 DEF Coming, TypeOK
  <2>3. StepOf(p) /\ IndexInv(p)'
    BY <1>1, <1>4, <2>1, <2>2, SameQueue DEF IndexInv
  <2>4. Stealing(p)'
    BY <1>1, <1>3, <1>4, <1>7, <2>2 DEF Stealing, Alone
  <2>5. CallInv(p)'
    BY <1>1, <1>4, <1>7, <2>4 DEF CallInv
  <2> QED  BY <2>1, <2>3, <2>5
<1>8. CASE /\ n \in 1..Half
           /\ t' = [t EXCEPT ![p] = tail[v]]
           /\ Goto(p, "copy")
           /\ UNCHANGED <<h, victim>>
  <2>1. TypeOK' /\ Rest(p) /\ pc'[p] = "copy" /\ t'[p] = tail[v]
    BY <1>2, <1>4, <1>8 DEF TypeOK, Rest, Still, Goto, Locations
  <2>2. Coming(p)' = Coming(p)
    BY <1>1, <2>1 DEF Coming
  <2>3. StepOf(p) /\ IndexInv(p)'
    BY <1>1, <1>4, <2>1, <2>2, SameQueue DEF IndexInv
  <2>4. Stealing(p)'
    BY <1>1, <1>4, <1>8 DEF Stealing, Alone
  <2>5. Len(batch'[p]) = 0 /\ victim'[p] = v /\ h'[p] = h[p]
    BY <1>1, <1>4, <1>8
  <2> HIDE DEF v
  <2>6. GrabSize(h'[p], t'[p]) \in 1..Half
    BY <1>8, <2>1, <2>5
  <2>7. Grabbing(p)'
    BY <1>3, <1>4, <1>5, <2>1, <2>4, <2>5, <2>6 DEF Grabbing
  <2>8. CallInv(p)'
    BY <2>1, <2>5, <2>6, <2>7 DEF CallInv
  <2> QED  BY <2>1, <2>3, <2>8
<1> QED  BY <1>6, <1>7, <1>8 DEF GrabTail

LEMMA GrabCopyKept ==
  ASSUME TypeOK, QueueInv, NEW p \in Ps, GrabCopy(p)
  PROVE  TypeOK' /\ StepOf(p) /\ IndexInv(p)' /\ CallInv(p)'
<1> DEFINE v == victim[p]
           b == batch[p]
           x == runq[v][Add(h[p], Len(b)) % Size]
<1>1. Grabbing(p) /\ IndexInv(p) /\ Len(b) < GrabSize(h[p], t[p]) /\ Coming(p) = Half
  BY DEF QueueInv, CallInv, GrabCopy, Coming
<1>2. v \in Ps /\ b \in Seq(Gs \cup {NoG}) /\ Len(b) \in Nat /\ h[p] \in 0..Wrap-1
  BY Positions
<1>3. GrabSize(h[p], t[p]) \in 1..Half /\ Half \in Nat
  BY <1>1, Sizes DEF Grabbing
<1>4. x \in Gs \cup {NoG}
  <2>1. h[p] + Len(b) \in Int /\ Wrap \in Nat \ {0} /\ Size \in Nat \ {0}
    BY <1>2, Sizes
  <2>2. Add(h[p], Len(b)) \in 0..Wrap-1
    BY <2>1, ModRange DEF Add
  <2>3. Add(h[p], Len(b)) % Size \in 0..Size-1
    BY <2>2, SlotInj
  <2> QED  BY <1>2, <2>3, Positions
<1> HIDE DEF x
<1>5. Append(b, x) \in Seq(Gs \cup {NoG}) /\ Len(Append(b, x)) = Len(b) + 1
  BY <1>2, <1>4
<1>6. /\ batch' = [batch EXCEPT ![p] = Append(b, x)]
      /\ pc' = [pc EXCEPT ![p] = IF Len(batch'[p]) = GrabSize(h[p], t[p]) THEN "cas" ELSE "copy"]
      /\ UNCHANGED <<head, tail, runq, sched, holder, out, h, t, gp, ret, victim>>
  BY DEF GrabCopy, Goto, x
<1>7. /\ batch' \in [Ps -> Seq(Gs \cup {NoG})] /\ batch'[p] = Append(b, x)
      /\ pc' \in [Ps -> Locations]
      /\ pc'[p] = IF Len(b) + 1 = GrabSize(h[p], t[p]) THEN "cas" ELSE "copy"
  <2>1. batch' \in [Ps -> Seq(Gs \cup {NoG})] /\ batch'[p] = Append(b, x)
    BY <1>5, <1>6 DEF TypeOK
  <2>2. Len(batch'[p]) = Len(b) + 1
    BY <1>5, <2>1
  <2>3. pc' = [pc EXCEPT ![p] = IF Len(b) + 1 = GrabSize(h[p], t[p]) THEN "cas" ELSE "copy"]
    BY <1>6, <2>2
  <2> QED  BY <2>1, <2>3 DEF TypeOK, Locations
<1>8. TypeOK'
  BY <1>6, <1>7 DEF TypeOK
<1>9. Rest(p)
  BY <1>6 DEF TypeOK, Rest, Still
<1>10. Coming(p)' = Half
  BY <1>7 DEF Coming
<1>11. StepOf(p) /\ IndexInv(p)'
  BY <1>1, <1>6, <1>9, <1>10, SameQueue DEF IndexInv
<1>12. Grabbing(p)'
  <2>1. Stealing(p)'
    BY <1>1, <1>6 DEF Grabbing, Stealing, Alone
  <2>2. ASSUME head[v] = h[p], NEW j \in 1..Len(b)+1
        PROVE  Append(b, x)[j] = runq[v][Add(h[p], j-1) % Size]
    <3>1. CASE j \in 1..Len(b)
      <4>1. Append(b, x)[j] = b[j]
        BY <1>2, <1>4, <3>1
      <4>2. b[j] = runq[v][Add(h[p], j-1) % Size]
        BY <1>1, <2>2, <3>1 DEF Grabbing
      <4> QED  BY <4>1, <4>2
    <3>2. CASE j = Len(b) + 1
      <4>1. Append(b, x)[j] = x
        BY <1>2, <1>4, <3>2
      <4>2. j - 1 = Len(b)
        BY <1>2, <3>2
      <4> QED  BY <4>1, <4>2 DEF x
    <3> QED  BY <1>2, <3>1, <3>2
  <2>3. head'[victim'[p]] = h'[p] =>
          \A j \in 1..Len(batch'[p]) :
            batch'[p][j] = runq'[victim'[p]][Add(h'[p], j-1) % Size]
    BY <1>5, <1>6, <1>7, <2>2
  <2> QED  BY <1>1, <1>6, <2>1, <2>3 DEF Grabbing
<1>13. CallInv(p)'
  <2>1. CASE Len(b) + 1 = GrabSize(h[p], t[p])
    <3>1. pc'[p] = "cas" /\ Len(batch'[p]) = GrabSize(h'[p], t'[p])
      BY <1>5, <1>6, <1>7, <2>1
    <3> QED  BY <1>12, <3>1 DEF CallInv
  <2>2. CASE Len(b) + 1 # GrabSize(h[p], t[p])
    <3>1. pc'[p] = "copy" /\ Len(batch'[p]) < GrabSize(h'[p], t'[p])
      BY <1>1, <1>2, <1>3, <1>5, <1>6, <1>7, <2>2
    <3> QED  BY <1>12, <3>1 DEF CallInv
  <2> QED  BY <2>1, <2>2
<1> QED  BY <1>8, <1>11, <1>13

LEMMA GrabCasKept ==
  ASSUME TypeOK, QueueInv, NEW p \in Ps, GrabCas(p)
  PROVE  TypeOK' /\ StepOf(p) /\ IndexInv(p)' /\ CallInv(p)'
<1> DEFINE v == victim[p]
           b == batch[p]
           n == Len(batch[p])
<1>1. Grabbing(p) /\ Stealing(p) /\ IndexInv(p) /\ n = GrabSize(h[p], t[p]) /\ Coming(p) = Half
  BY DEF QueueInv, CallInv, GrabCas, Coming, Grabbing
<1>2. /\ v \in Ps /\ v # p /\ b \in Seq(Gs \cup {NoG}) /\ n \in 1..Half /\ Half \in Nat
      /\ IndexInv(v)
  BY <1>1, Positions, Sizes DEF Grabbing, Stealing, QueueInv
<1> HIDE DEF v, b, n
<1>3. /\ head[v] \in 0..Wrap-1 /\ Pos(head[v]) \in Nat /\ Pos(tail[v]) \in Nat
  BY <1>2, Positions
<1>4. /\ h[p] \in 0..Wrap-1 /\ t[p] \in 0..Wrap-1 /\ Pos(h[p]) \in Nat /\ Pos(t[p]) \in Nat
      /\ Pos(tail[p]) \in Nat /\ Pos(head[p]) \in Nat
  BY Positions
<1>5. UNCHANGED <<tail, runq, sched, holder, out, t, gp, victim>>
  BY DEF GrabCas
<1>6. CASE /\ head[v] = h[p]
           /\ head' = [head EXCEPT ![v] = Add(h[p], n)]
           /\ ret' = [ret EXCEPT ![p] = Last(b)]
           /\ batch' = [batch EXCEPT ![p] = Front(b)]
           /\ Goto(p, "stolen")
           /\ UNCHANGED h
  <2>1. Pos(h[p]) + n <= Pos(t[p])
    <3>1. Pos(h[p]) <= Pos(t[p])
      BY <1>1 DEF Grabbing
    <3> QED  BY <1>1, <1>4, <3>1, GrabFacts
  <2>2. n \in Nat /\ Pos(head[v]) + n <= Pos(tail[v])
    <3>1. Pos(t[p]) <= Pos(tail[v])
      BY <1>1 DEF Grabbing, v
    <3> QED  BY <1>2, <1>3, <1>4, <1>6, <2>1, <3>1
  <2>3. head' = [head EXCEPT ![v] = Add(head[v], n)]
    BY <1>6
  <2>4. /\ head' \in [Ps -> 0..Wrap-1] /\ Pos(head'[v]) = Pos(head[v]) + n
    BY <1>2, <1>5, <2>2, <2>3, Removed
  <2>5. \A q \in Ps \ {v} : head'[q] = head[q]
    BY <2>3 DEF TypeOK
  <2>6. \A j \in 1..n : b[j] \in Gs
    <3>1. \A j \in 1..n : b[j] = runq[v][Add(head[v], j-1) % Size]
      BY <1>1, <1>6 DEF Grabbing, v, b, n
    <3> QED  BY <1>2, <2>2, <3>1, RingItems
  <2>7. Len(b) = n
    BY DEF n, b
  <2>8. Last(b) \in Gs
    BY <1>2, <2>6, <2>7 DEF Last
  <2>9. /\ Front(b) \in Seq(Gs) /\ Len(Front(b)) = n - 1
    <3>1. Front(b) = [j \in 1..n-1 |-> b[j]]
      BY <1>2, <2>7 DEF Front
    <3>2. [j \in 1..n-1 |-> b[j]] \in [1..n-1 -> Gs]
      BY <1>2, <2>6
    <3>3. n-1 \in Nat
      BY <1>2
    <3> QED  BY <3>1, <3>2, <3>3
  <2>10. Front(b) \in Seq(Gs \cup {NoG})
    BY <2>9
  <2>11. /\ pc'[p] = "stolen" /\ ret'[p] = Last(b) /\ batch'[p] = Front(b) /\ head'[p] = head[p]
    BY <1>2, <1>6, <2>5 DEF TypeOK, Goto
  <2>12. TypeOK'
    <3>1. ret' \in [Ps -> Gs \cup {NoG}] /\ pc' \in [Ps -> Locations]
      BY <1>6, <2>8 DEF TypeOK, Locations, Goto
    <3>2. batch' \in [Ps -> Seq(Gs \cup {NoG})]
      BY <1>6, <2>10 DEF TypeOK
    <3> QED  BY <1>5, <1>6, <2>4, <3>1, <3>2 DEF TypeOK
  <2>13. ASSUME NEW q \in Ps \ {p} PROVE Bystander(q)
    <3>1. /\ pc'[q] = pc[q] /\ ret'[q] = ret[q] /\ batch'[q] = batch[q]
      BY <1>6 DEF TypeOK, Goto
    <3>2. Pos(head[q]) <= Pos(head'[q]) /\ Pos(head'[q]) <= Pos(tail[q])
      <4>1. CASE q = v
        BY <1>2, <1>3, <2>2, <2>4, <4>1
      <4>2. CASE q # v
        <5>1. head'[q] = head[q] /\ Pos(head[q]) \in Nat /\ Pos(tail[q]) \in Nat
          BY <2>5, <4>2, Positions
        <5> QED  BY <5>1 DEF QueueInv, IndexInv
      <4> QED  BY <4>1, <4>2
    <3> QED  BY <1>5, <1>6, <3>1, <3>2 DEF Bystander
  <2>14. Coming(p)' = n - 1
    BY <2>9, <2>11 DEF Coming
  <2>15. IndexInv(p)' /\ Advances(p)
    <3>1. Indices(p)' = Indices(p)
      BY <1>5, <2>11 DEF Indices
    <3>2. Pos(tail[p]) + (n - 1) <= MaxPuts[p] + Size
      <4>1. MaxPuts[p] \in Nat /\ Size \in Nat
        BY Sizes
      <4>2. Pos(tail[p]) + Half <= MaxPuts[p] + Size
        BY <1>1 DEF IndexInv
      <4> QED  BY <1>2, <1>4, <4>1, <4>2, SMTT(30)
    <3>3. IndexInv(p)'
      BY <1>1, <1>5, <2>11, <2>14, <3>1, <3>2 DEF IndexInv
    <3>4. Advances(p)
      BY <1>4, <1>5, <2>11 DEF Advances
    <3> QED  BY <3>3, <3>4
  <2>16. Stole(p)'
    BY <1>1, <1>2, <1>5, <2>8, <2>9, <2>11 DEF Stealing, Stole, Alone
  <2>17. CallInv(p)'
    BY <2>11, <2>16 DEF CallInv
  <2> QED  BY <2>12, <2>13, <2>15, <2>17 DEF StepOf
<1>7. CASE /\ head[v] # h[p]
           /\ h' = [h EXCEPT ![p] = head[v]]
           /\ batch' = [batch EXCEPT ![p] = <<>>]
           /\ Goto(p, "grab")
           /\ UNCHANGED <<head, ret>>
  <2>1. <<>> \in Seq(Gs \cup {NoG})
    OBVIOUS
  <2>2. TypeOK' /\ Rest(p) /\ pc'[p] = "grab" /\ batch'[p] = <<>> /\ h'[p] = head[v]
    <3>1. batch' \in [Ps -> Seq(Gs \cup {NoG})] /\ batch'[p] = <<>>
      BY <1>7, <2>1 DEF TypeOK
    <3>2. h' \in [Ps -> 0..Wrap-1] /\ pc' \in [Ps -> Locations] /\ pc'[p] = "grab" /\ h'[p] = head[v]
      BY <1>3, <1>7 DEF TypeOK, Goto, Locations
    <3>3. TypeOK'
      BY <1>5, <1>7, <3>1, <3>2 DEF TypeOK
    <3>4. Rest(p)
      BY <1>5, <1>7 DEF TypeOK, Goto, Rest, Still
    <3> QED  BY <3>1, <3>2, <3>3, <3>4
  <2>3. Coming(p)' = Half
    BY <2>2 DEF Coming
  <2>4. StepOf(p) /\ IndexInv(p)'
    BY <1>1, <1>5, <1>7, <2>2, <2>3, SameQueue DEF IndexInv
  <2>5. Stealing(p)'
    <3>1. Pos(head[v]) <= Pos(head[v]) /\ victim'[p] = v
      BY <1>3, <1>5 DEF v
    <3> QED  BY <1>1, <1>2, <1>5, <1>7, <2>2, <3>1 DEF Stealing, Alone
  <2>6. CallInv(p)'
    BY <2>2, <2>5 DEF CallInv
  <2> QED  BY <2>2, <2>4, <2>6
<1> QED  BY <1>6, <1>7 DEF GrabCas, v, b, n

LEMMA StealWriteKept ==
  ASSUME TypeOK, QueueInv, NEW p \in Ps, StealWrite(p)
  PROVE  TypeOK' /\ StepOf(p) /\ IndexInv(p)' /\ CallInv(p)'
<1> DEFINE b == batch[p]
           n == Len(batch[p])
<1>1. Stole(p) /\ IndexInv(p) /\ Coming(p) = n /\ pc[p] = "stolen"
  BY DEF QueueInv, CallInv, StealWrite, Coming
<1>2. /\ n \in Nat /\ n < Half /\ Half \in Nat \ {0} /\ Size = Half + Half /\ MaxPuts[p] \in Nat
      /\ b \in Seq(Gs) /\ head[p] = tail[p] /\ tail[p] \in 0..Wrap-1 /\ Pos(tail[p]) \in Nat
      /\ Wrap \in Nat /\ MaxPuts[p] + Size + Size < Wrap
  BY <1>1, Positions, Sizes DEF Stole
<1>3. head' = head /\ tail' = tail /\ sched' = sched
  BY DEF StealWrite
<1>4. CASE n = 0 /\ Return(p) /\ runq' = runq
  <2>1. /\ head' \in [Ps -> 0..Wrap-1] /\ tail' \in [Ps -> 0..Wrap-1]
        /\ runq' \in [Ps -> [0..Size-1 -> Gs \cup {NoG}]] /\ sched' \in Seq(Gs)
    BY <1>3, <1>4 DEF TypeOK
  <2>2. TypeOK' /\ Rest(p) /\ CallInv(p)' /\ Coming(p)' = 0
    BY <1>3, <1>4, <2>1, ReturnEffect
  <2>3. StepOf(p) /\ IndexInv(p)'
    BY <1>1, <1>3, <1>4, <2>2, SameQueue DEF IndexInv
  <2> QED  BY <2>2, <2>3
<1>5. CASE /\ n > 0
           /\ t' = [t EXCEPT ![p] = tail[p]]
           /\ runq' = [runq EXCEPT ![p] = [k \in DOMAIN runq[p] |->
                IF \E j \in 1..n : k = Add(tail[p], j-1) % Size
                THEN b[CHOOSE j \in 1..n : k = Add(tail[p], j-1) % Size]
                ELSE runq[p][k]]]
           /\ Goto(p, "spublish")
           /\ UNCHANGED <<holder, out, h, gp, ret, batch, victim>>
  <2> DEFINE f == [k \in DOMAIN runq[p] |->
                IF \E j \in 1..n : k = Add(tail[p], j-1) % Size
                THEN b[CHOOSE j \in 1..n : k = Add(tail[p], j-1) % Size]
                ELSE runq[p][k]]
  <2>1. \A j \in 1..n : b[j] \in Gs
    BY <1>2
  <2>2. DOMAIN runq[p] = 0..Size-1 /\ \A k \in 0..Size-1 : runq[p][k] \in Gs \cup {NoG}
    <3>1. runq[p] \in [0..Size-1 -> Gs \cup {NoG}]
      BY DEF TypeOK
    <3> QED  BY <3>1
  <2>3. f \in [0..Size-1 -> Gs \cup {NoG}]
    <3> SUFFICES ASSUME NEW k \in 0..Size-1
                 PROVE  (IF \E j \in 1..n : k = Add(tail[p], j-1) % Size
                         THEN b[CHOOSE j \in 1..n : k = Add(tail[p], j-1) % Size]
                         ELSE runq[p][k]) \in Gs \cup {NoG}
      BY <2>2
    <3> HIDE DEF b, n
    <3>1. CASE \E j \in 1..n : k = Add(tail[p], j-1) % Size
      <4>1. (CHOOSE j \in 1..n : k = Add(tail[p], j-1) % Size) \in 1..n
        BY <3>1
      <4> QED  BY <2>1, <3>1, <4>1
    <3> QED  BY <2>2, <3>1
  <2>4. ASSUME NEW j \in 1..n PROVE f[Add(tail[p], j-1) % Size] = b[j]
    <3> DEFINE s == Add(tail[p], j-1) % Size
    <3>1. \A k \in 1..n : /\ Add(tail[p], k-1) \in 0..Wrap-1
                          /\ Pos(Add(tail[p], k-1)) = Pos(tail[p]) + (k-1)
      <4> SUFFICES ASSUME NEW k \in 1..n
                   PROVE  /\ Add(tail[p], k-1) \in 0..Wrap-1
                          /\ Pos(Add(tail[p], k-1)) = Pos(tail[p]) + (k-1)
        OBVIOUS
      <4>1. k-1 \in Nat /\ Pos(tail[p]) + (k-1) < Wrap
        BY <1>1, <1>2, SMTT(30) DEF IndexInv
      <4> QED  BY <1>2, <4>1, PosAdd
    <3>2. s \in 0..Size-1
      BY <3>1, SlotInj
    <3>3. ASSUME NEW k \in 1..n, s = Add(tail[p], k-1) % Size PROVE k = j
      <4>0. /\ Pos(Add(tail[p], j-1)) = Pos(tail[p]) + (j-1)
            /\ Pos(Add(tail[p], k-1)) = Pos(tail[p]) + (k-1)
            /\ j \in Nat /\ k \in Nat /\ j >= 1 /\ k >= 1 /\ j <= n /\ k <= n
        BY <1>2, <3>1
      <4>1. CASE j <= k
        <5>1. /\ Pos(Add(tail[p], j-1)) <= Pos(Add(tail[p], k-1))
              /\ Pos(Add(tail[p], k-1)) < Pos(Add(tail[p], j-1)) + Size
          BY <1>2, <4>0, <4>1, SMTT(30)
        <5>2. Add(tail[p], j-1) = Add(tail[p], k-1)
          BY <3>1, <3>3, <5>1, SlotInj
        <5> QED  BY <1>2, <4>0, <5>2
      <4>2. CASE k <= j
        <5>1. /\ Pos(Add(tail[p], k-1)) <= Pos(Add(tail[p], j-1))
              /\ Pos(Add(tail[p], j-1)) < Pos(Add(tail[p], k-1)) + Size
          BY <1>2, <4>0, <4>2, SMTT(30)
        <5>2. Add(tail[p], j-1) = Add(tail[p], k-1)
          BY <3>1, <3>3, <5>1, SlotInj
        <5> QED  BY <1>2, <4>0, <5>2
      <4> QED  BY <1>2, <4>1, <4>2
    <3>4. \E k \in 1..n : s = Add(tail[p], k-1) % Size
      OBVIOUS
    <3> HIDE DEF s, n, b
    <3>5. (CHOOSE k \in 1..n : s = Add(tail[p], k-1) % Size) = j
      BY <3>3, <3>4
    <3>6. f[s] = b[CHOOSE k \in 1..n : s = Add(tail[p], k-1) % Size]
      BY <2>2, <3>2, <3>4
    <3> QED  BY <3>5, <3>6 DEF s
  <2>5. runq' = [runq EXCEPT ![p] = f]
    BY <1>5
  <2> HIDE DEF f
  <2>6. /\ runq' \in [Ps -> [0..Size-1 -> Gs \cup {NoG}]] /\ runq'[p] = f
        /\ \A q \in Ps \ {p} : runq'[q] = runq[q]
    BY <2>3, <2>5 DEF TypeOK
  <2>7. TypeOK' /\ pc'[p] = "spublish" /\ t'[p] = tail[p]
    BY <1>3, <1>5, <2>6, ZenonT(60) DEF TypeOK, Goto, Locations
  <2>8. Rest(p)
    BY <1>3, <1>5, <2>6 DEF TypeOK, Goto, Rest, Still
  <2>9. \A i \in 0..Wrap-1 : ~(Pos(head[p]) <= Pos(i) /\ Pos(i) < Pos(tail[p]))
    <3>1. \A i \in 0..Wrap-1 : Pos(i) \in Nat
      BY PosNat
    <3> QED  BY <1>2, <3>1
  <2>10. Advances(p)
    BY <1>2, <1>3, <2>9, SMTT(30) DEF Advances
  <2>11. Coming(p)' = n
    BY <1>5, <2>7 DEF Coming
  <2>12. IndexInv(p)'
    <3>1. Indices(p) = {i \in 0..Wrap-1 : Pos(head[p]) <= Pos(i) /\ Pos(i) < Pos(tail[p])}
      BY <1>1, <1>2, IndicesFacts DEF IndexInv, Indices
    <3>2. Indices(p)' = {}
      BY <1>3, <2>9, <3>1 DEF Indices
    <3> QED  BY <1>1, <1>3, <2>11, <3>2 DEF IndexInv
  <2>13. CallInv(p)'
    <3>1. Stole(p)'
      BY <1>1, <1>3, <1>5 DEF Stole, Alone
    <3>2. batch'[p] = b /\ Len(batch'[p]) = n
      BY <1>5
    <3>3. \A j \in 1..n : runq'[p][Add(t'[p], j-1) % Size] = b[j]
      BY <2>4, <2>6, <2>7
    <3> HIDE DEF n, b
    <3> QED  BY <1>3, <2>7, <3>1, <3>2, <3>3 DEF CallInv
  <2> QED  BY <2>7, <2>8, <2>10, <2>12, <2>13, RestStep
<1> QED  BY <1>4, <1>5 DEF StealWrite

LEMMA StealPublishKept ==
  ASSUME TypeOK, QueueInv, NEW p \in Ps, StealPublish(p)
  PROVE  TypeOK' /\ StepOf(p) /\ IndexInv(p)' /\ CallInv(p)'
<1> DEFINE b == batch[p]
           n == Len(batch[p])
<1>1. /\ Stole(p) /\ IndexInv(p) /\ Coming(p) = n /\ t[p] = tail[p]
      /\ \A j \in 1..n : runq[p][Add(t[p], j-1) % Size] = b[j]
  BY DEF QueueInv, CallInv, StealPublish, Coming
<1>2. /\ n \in Nat /\ n < Half /\ Half \in Nat \ {0} /\ Size = Half + Half /\ MaxPuts[p] \in Nat
      /\ b \in Seq(Gs) /\ head[p] = tail[p] /\ Pos(tail[p]) \in Nat
  BY <1>1, Positions, Sizes DEF Stole
<1>3. /\ head' = head /\ runq' = runq /\ sched' = sched /\ Return(p)
      /\ tail' = [tail EXCEPT ![p] = Add(tail[p], n)]
  BY <1>1 DEF StealPublish
<1>4. \A j \in 1..n : runq[p][Add(tail[p], j-1) % Size] \in Gs
  BY <1>1, <1>2
<1>5. Coming(p)' = 0
  <2>1. pc'[p] = "idle"
    BY <1>3 DEF Return, Goto, TypeOK
  <2> QED  BY <2>1 DEF Coming
<1>6. Pos(tail[p]) + n <= Pos(head[p]) + Size /\ Pos(tail[p]) + n <= MaxPuts[p] + Size
  BY <1>1, <1>2 DEF IndexInv
<1>7. tail' \in [Ps -> 0..Wrap-1] /\ IndexInv(p)' /\ Advances(p)
  <2>1. Coming(p)' + n <= Coming(p) /\ Coming(p)' \in Nat /\ Coming(p) \in Nat
    BY <1>1, <1>2, <1>5
  <2> HIDE DEF n
  <2> QED  BY <1>1, <1>2, <1>3, <1>4, <1>6, <2>1, Published
<1>8. \A q \in Ps \ {p} : tail'[q] = tail[q] /\ runq'[q] = runq[q] /\ head'[q] = head[q]
  BY <1>3 DEF TypeOK
<1>9. /\ head' \in [Ps -> 0..Wrap-1]
      /\ runq' \in [Ps -> [0..Size-1 -> Gs \cup {NoG}]] /\ sched' \in Seq(Gs)
  BY <1>3 DEF TypeOK
<1>10. TypeOK' /\ Rest(p) /\ CallInv(p)'
  BY <1>3, <1>7, <1>8, <1>9, ReturnEffect
<1> QED  BY <1>7, <1>10, RestStep

LEMMA GlobrunqputKept ==
  ASSUME TypeOK, QueueInv, NEW p \in Ps, Globrunqput(p)
  PROVE  TypeOK' /\ StepOf(p) /\ IndexInv(p)' /\ CallInv(p)'
<1>1. PICK g \in out : sched' = Append(sched, g) /\ out' = out \ {g}
  BY DEF Globrunqput
<1>2. UNCHANGED <<head, tail, runq, holder, pc, h, t, gp, ret, batch, victim>> /\ pc[p] = "idle"
  BY DEF Globrunqput, locals
<1>3. sched' \in Seq(Gs) /\ out' \subseteq Gs
  BY <1>1 DEF TypeOK
<1>4. TypeOK' /\ Rest(p)
  BY <1>2, <1>3 DEF TypeOK, Rest, Still
<1>5. Coming(p)' = Coming(p)
  BY <1>2 DEF Coming
<1>6. StepOf(p) /\ IndexInv(p)'
  BY <1>2, <1>4, <1>5, SameQueue DEF QueueInv, IndexInv
<1>7. CallInv(p)'
  <2>1. Empty(p)
    BY <1>2 DEF QueueInv, CallInv
  <2>2. Empty(p)'
    BY <1>2, <2>1 DEF Empty, Alone
  <2> QED  BY <1>2, <2>2 DEF CallInv
<1> QED  BY <1>4, <1>6, <1>7

LEMMA MinFacts ==
  ASSUME NEW T \in SUBSET Nat, T # {}
  PROVE  Min(T) \in T /\ \A y \in T : Min(T) <= y
<1>1. PICK x \in T : \A y \in T : ~ (<<y, x>> \in OpToRel(<,Nat))
  BY NatLessThanWellFounded, WFMin, Zenon
<1>2. \A y \in T : ~(y < x)
  BY <1>1, Zenon DEF OpToRel
<1>3. \A y \in T : x <= y
  BY <1>2
<1> QED  BY <1>3 DEF Min

\* globrunqget takes at least one and at most half a ring, and one if asked.
LEMMA GlobBatchFacts ==
  ASSUME NEW p \in Ps, sched \in Seq(Gs), sched # <<>>, NEW max \in {0, 1}
  PROVE  /\ GlobBatch(max) \in 1..Len(sched) /\ GlobBatch(max) <= Half
         /\ max = 1 => GlobBatch(max) = 1
<1> DEFINE n == Min({Len(sched) \div Cardinality(Ps) + 1, Len(sched), Half})
<1>1. Cardinality(Ps) \in Nat \ {0}
  BY NoGAssumption, FS_CardinalityType, FS_EmptySet
<1>2. Len(sched) \in Nat \ {0} /\ Half \in Nat \ {0}
  BY Sizes
<1>3. Len(sched) \div Cardinality(Ps) \in Nat
  BY <1>1, <1>2
<1>4. PICK k \in Nat \ {0} : k = Len(sched) \div Cardinality(Ps) + 1
  BY <1>3
<1>5. n = Min({k, Len(sched), Half})
  BY <1>4
<1> HIDE DEF n
<1>6. {k, Len(sched), Half} \in SUBSET Nat /\ {k, Len(sched), Half} # {}
  BY <1>2
<1>7. n \in {k, Len(sched), Half} /\ \A y \in {k, Len(sched), Half} : n <= y
  BY <1>5, <1>6, MinFacts
<1>8. n \in 1..Len(sched) /\ n <= Half
  BY <1>2, <1>7
<1>9. CASE max = 0
  <2>1. GlobBatch(max) = n
    BY <1>9 DEF GlobBatch, n
  <2> QED  BY <1>8, <1>9, <2>1
<1>10. CASE max = 1
  <2>1. GlobBatch(max) = Min({n, max})
    BY <1>10 DEF GlobBatch, n
  <2>2. {n, max} \in SUBSET Nat /\ {n, max} # {}
    BY <1>8, <1>10, <1>2
  <2>3. Min({n, max}) \in {n, max} /\ Min({n, max}) <= n /\ Min({n, max}) <= max
    BY <2>2, MinFacts
  <2>4. GlobBatch(max) = 1
    BY <1>2, <1>8, <1>10, <2>1, <2>3
  <2> QED  BY <1>2, <1>8, <2>4
<1> QED  BY <1>9, <1>10

LEMMA GlobrunqgetKept ==
  ASSUME TypeOK, QueueInv, NEW p \in Ps, Globrunqget(p)
  PROVE  TypeOK' /\ StepOf(p) /\ IndexInv(p)' /\ CallInv(p)'
<1>1. /\ Empty(p) /\ IndexInv(p) /\ pc[p] = "idle" /\ holder = NoG /\ sched # <<>>
      /\ Coming(p) = 0 /\ sched \in Seq(Gs)
  BY DEF QueueInv, CallInv, Globrunqget, Coming, TypeOK
<1>2. head' = head /\ tail' = tail /\ runq' = runq
  BY DEF Globrunqget
<1>3. PICK max \in {0, 1} :
        /\ max = 0 => tail[p] = head[p]
        /\ LET n == GlobBatch(max) IN
             /\ sched' = SubSeq(sched, n + 1, Len(sched))
             /\ \/ /\ n = 1
                   /\ out' = out \cup {Head(sched)}
                   /\ UNCHANGED <<holder, pc, locals>>
                \/ /\ n > 1
                   /\ holder' = p
                   /\ ret' = [ret EXCEPT ![p] = Head(sched)]
                   /\ gp' = [gp EXCEPT ![p] = sched[2]]
                   /\ batch' = [batch EXCEPT ![p] = SubSeq(sched, 3, n)]
                   /\ Goto(p, "put")
                   /\ UNCHANGED <<out, h, t, victim>>
  BY DEF Globrunqget
<1> DEFINE n == GlobBatch(max)
<1>4. n \in 1..Len(sched) /\ n <= Half /\ (max = 1 => n = 1)
  BY <1>1, GlobBatchFacts
<1>5. sched' = SubSeq(sched, n + 1, Len(sched))
  BY <1>3
<1>6. \/ /\ n = 1
         /\ out' = out \cup {Head(sched)}
         /\ UNCHANGED <<holder, pc, h, t, gp, ret, batch, victim>>
      \/ /\ n > 1
         /\ holder' = p
         /\ ret' = [ret EXCEPT ![p] = Head(sched)]
         /\ gp' = [gp EXCEPT ![p] = sched[2]]
         /\ batch' = [batch EXCEPT ![p] = SubSeq(sched, 3, n)]
         /\ pc' = [pc EXCEPT ![p] = "put"]
         /\ UNCHANGED <<out, h, t, victim>>
  BY <1>3 DEF Goto, locals
<1> HIDE DEF n
<1>7. sched' \in Seq(Gs) /\ Head(sched) \in Gs
  BY <1>1, <1>4, <1>5
<1>8. CASE /\ n = 1
           /\ out' = out \cup {Head(sched)}
           /\ UNCHANGED <<holder, pc, h, t, gp, ret, batch, victim>>
  <2>1. TypeOK' /\ Rest(p)
    BY <1>2, <1>7, <1>8 DEF TypeOK, Rest, Still
  <2>2. Coming(p)' = Coming(p)
    BY <1>8 DEF Coming
  <2>3. StepOf(p) /\ IndexInv(p)'
    BY <1>1, <1>2, <2>1, <2>2, SameQueue DEF IndexInv
  <2>4. Empty(p)'
    BY <1>1, <1>8 DEF Empty, Alone
  <2>5. CallInv(p)'
    BY <1>1, <1>8, <2>4 DEF CallInv
  <2> QED  BY <2>1, <2>3, <2>5
<1>9. CASE /\ n > 1
           /\ holder' = p
           /\ ret' = [ret EXCEPT ![p] = Head(sched)]
           /\ gp' = [gp EXCEPT ![p] = sched[2]]
           /\ batch' = [batch EXCEPT ![p] = SubSeq(sched, 3, n)]
           /\ pc' = [pc EXCEPT ![p] = "put"]
           /\ UNCHANGED <<out, h, t, victim>>
  <2>0. Len(sched) \in Nat /\ n \in Nat /\ n <= Len(sched) /\ Half \in Nat /\ Size \in Nat
    BY <1>1, <1>4, Sizes
  <2>1. SubSeq(sched, 3, n) \in Seq(Gs) /\ Len(SubSeq(sched, 3, n)) = n - 2 /\ sched[2] \in Gs
    BY <1>1, <1>9, <2>0
  <2>2. SubSeq(sched, 3, n) \in Seq(Gs \cup {NoG})
    BY <2>1
  <2>3. TypeOK'
    <3>1. /\ ret' \in [Ps -> Gs \cup {NoG}] /\ gp' \in [Ps -> Gs \cup {NoG}]
          /\ pc' \in [Ps -> Locations]
      BY <1>7, <1>9, <2>1 DEF TypeOK, Locations
    <3>2. batch' \in [Ps -> Seq(Gs \cup {NoG})]
      BY <1>9, <2>2 DEF TypeOK
    <3> QED  BY <1>2, <1>7, <1>9, <3>1, <3>2 DEF TypeOK
  <2>4. Rest(p)
    BY <1>1, <1>2, <1>9, NoGAssumption DEF TypeOK, Rest, Still
  <2>5. /\ pc'[p] = "put" /\ gp'[p] = sched[2] /\ batch'[p] = SubSeq(sched, 3, n)
    BY <1>9 DEF TypeOK
  <2>6. Coming(p)' = n - 1
    BY <2>0, <2>1, <2>5 DEF Coming
  <2>7. Pos(tail[p]) < MaxPuts[p]
    BY DEF Globrunqget, MayPut, Pos
  <2>8. StepOf(p) /\ IndexInv(p)'
    <3>1. Pos(tail[p]) \in Nat /\ MaxPuts[p] \in Nat /\ Size = Half + Half
      BY Positions, Sizes
    <3>2. Pos(tail[p]) + (n - 1) <= MaxPuts[p] + Size
      BY <1>4, <2>0, <2>7, <3>1
    <3> QED  BY <1>2, <2>4, <2>6, <3>2, SameQueue
  <2>9. Putting(p)'
    <3>1. tail[p] = head[p]
      BY <1>3, <1>4, <1>9
    <3>2. Pos(tail[p]) + (n - 2) + 1 <= Pos(head[p]) + Half
      <4>1. Pos(tail[p]) \in Nat
        BY Positions
      <4> QED  BY <1>4, <2>0, <3>1, <4>1
    <3> QED  BY <1>2, <1>9, <2>1, <2>5, <3>2 DEF Putting
  <2>10. CallInv(p)'
    BY <2>5, <2>9 DEF CallInv
  <2> QED  BY <2>3, <2>8, <2>10
<1> QED  BY <1>6, <1>8, <1>9
----------------------------------------------------------------------------
(* Types and queues are invariant *)

LEMMA StartPos ==
  ASSUME NEW p \in Ps
  PROVE  /\ Start \in 0..Wrap-1 /\ Pos(Start) = 0
         /\ \A k \in 0..Size :
              /\ Add(Start, k) \in 0..Wrap-1 /\ Pos(Add(Start, k)) = k
              /\ k < Size => (((Add(Start, k) % Size) - Start) % Size) = k
<1>1. /\ Wrap \in Nat \ {0} /\ Size \in Nat \ {0} /\ Start \in 0..Wrap-1 /\ Start = Wrap - 2
      /\ Size + Size < Wrap /\ Wrap % Size = 0
  BY Sizes
<1>2. Pos(Start) = 0
  BY <1>1 DEF Pos, Sub
<1>3. ASSUME NEW k \in 0..Size
      PROVE  Add(Start, k) \in 0..Wrap-1 /\ Pos(Add(Start, k)) = k
  <2>1. k \in Nat /\ Pos(Start) + k < Wrap /\ Pos(Start) + k = k
    BY <1>1, <1>2
  <2> QED  BY <1>1, <2>1, PosAdd
<1>4. ASSUME NEW k \in 0..Size-1
      PROVE  (((Add(Start, k) % Size) - Start) % Size) = k
  <2> DEFINE a == Add(Start, k)
             s == a % Size
  <2>1. a \in Int
    BY <1>1, <1>3
  <2>2. a = Start + k \/ a = Start + k - Wrap
    BY <1>1 DEF Add
  <2> HIDE DEF a
  <2>3. PICK q \in Int : a = Size * q + s
    BY <1>1, <2>1, ModDiv
  <2>4. s \in Int
    BY <1>1, <2>1, ModRange
  <2>5. PICK c \in Int : Wrap = Size * c + 0
    <3>1. Wrap \in Int
      BY <1>1
    <3> QED  BY <1>1, <3>1, ModDiv
  <2> HIDE DEF s
  <2>6. CASE a = Start + k
    <3>1. s - Start = Size * (-q) + k
      BY <1>1, <2>3, <2>4, <2>6
    <3>2. -q \in Int /\ s - Start \in Int
      BY <1>1, <2>3, <2>4
    <3> QED  BY <1>1, <3>1, <3>2, ModUnique, ZenonT(60) DEF s, a
  <2>7. CASE a = Start + k - Wrap
    <3>1. s - Start = Size * (-q - c) + k
      BY <1>1, <2>3, <2>4, <2>5, <2>7
    <3>2. -q - c \in Int /\ s - Start \in Int
      BY <1>1, <2>3, <2>4, <2>5
    <3> QED  BY <1>1, <3>1, <3>2, ModUnique, ZenonT(60) DEF s, a
  <2> QED  BY <2>2, <2>6, <2>7
<1> QED  BY <1>1, <1>2, <1>3, <1>4

\* What the queues hold at the start.
LEMMA InitRunq ==
  ASSUME Init, NEW p \in Ps
  PROVE  /\ Len(Preload[p]) \in 0..Size /\ Preload[p] \in Seq(Gs)
         /\ runq[p] \in [0..Size-1 -> Gs \cup {NoG}]
         /\ head[p] = Start /\ Pos(head[p]) = 0
         /\ tail[p] \in 0..Wrap-1 /\ Pos(tail[p]) = Len(Preload[p])
         /\ \A i \in Indices(p) : /\ i \in 0..Wrap-1 /\ Pos(i) + 1 \in 1..Len(Preload[p])
                                  /\ runq[p][i % Size] = Preload[p][Pos(i) + 1]
         /\ \A j \in 1..Len(Preload[p]) : /\ Add(Start, j-1) \in Indices(p)
                                          /\ Pos(Add(Start, j-1)) = j - 1
<1>1. Len(Preload[p]) \in 0..Size /\ Preload[p] \in Seq(Gs)
  BY PreloadAssumption, SizeAssumption
<1>2. Size \in Nat \ {0} /\ Start \in 0..Wrap-1 /\ Start \in Int
  BY Sizes
<1> DEFINE f == [k \in 0..Size-1 |->
       LET j == ((k - Start) % Size) + 1
       IN  IF j <= Len(Preload[p]) THEN Preload[p][j] ELSE NoG]
<1>3. runq[p] = f /\ head[p] = Start /\ tail[p] = Add(Start, Len(Preload[p]))
  BY DEF Init
<1>4. \A k \in 0..Size-1 : ((k - Start) % Size) \in 0..Size-1
  <2> SUFFICES ASSUME NEW k \in 0..Size-1 PROVE ((k - Start) % Size) \in 0..Size-1
    OBVIOUS
  <2>1. k - Start \in Int
    BY <1>2
  <2> QED  BY <1>2, <2>1, ModRange
<1>5. f \in [0..Size-1 -> Gs \cup {NoG}]
  <2> SUFFICES ASSUME NEW k \in 0..Size-1
               PROVE  f[k] \in Gs \cup {NoG}
    OBVIOUS
  <2>1. PICK j \in 1..Size : j = ((k - Start) % Size) + 1
    BY <1>2, <1>4
  <2>2. f[k] = IF j <= Len(Preload[p]) THEN Preload[p][j] ELSE NoG
    BY <2>1
  <2>3. j <= Len(Preload[p]) => Preload[p][j] \in Gs
    BY <1>1, <1>2, <2>1
  <2> QED  BY <2>2, <2>3
<1>6. /\ Pos(head[p]) = 0 /\ tail[p] \in 0..Wrap-1 /\ Pos(tail[p]) = Len(Preload[p])
  BY <1>1, <1>3, StartPos
<1>7. Indices(p) = {i \in 0..Wrap-1 : 0 <= Pos(i) /\ Pos(i) < Len(Preload[p])}
  <2>1. Pos(head[p]) <= Pos(tail[p])
    BY <1>1, <1>2, <1>6
  <2> QED  BY <1>2, <1>3, <1>6, <2>1, IndicesFacts DEF Indices
<1>8. ASSUME NEW i \in Indices(p)
      PROVE  /\ i \in 0..Wrap-1 /\ Pos(i) + 1 \in 1..Len(Preload[p])
             /\ runq[p][i % Size] = Preload[p][Pos(i) + 1]
  <2>1. i \in 0..Wrap-1 /\ Pos(i) < Len(Preload[p])
    BY <1>7, <1>8
  <2>2. Pos(i) \in Nat /\ Pos(i) + 1 \in 1..Len(Preload[p])
    BY <1>1, <1>2, <2>1, PosAdd
  <2>3. PICK k \in 0..Size-1 : k = Pos(i)
    BY <1>1, <1>2, <2>1, <2>2
  <2>4. Add(Start, k) = i
    <3>1. Pos(i) - Pos(Start) = k /\ Pos(Start) <= Pos(i)
      BY <2>2, <2>3, StartPos
    <3> QED  BY <1>2, <2>1, <3>1, PosSub
  <2>5. ((i % Size) - Start) % Size = k
    BY <1>2, <2>3, <2>4, StartPos
  <2>6. i % Size \in 0..Size-1
    BY <2>1, SlotInj
  <2>7. PICK j : j = (((i % Size) - Start) % Size) + 1
    OBVIOUS
  <2>8. f[i % Size] = IF j <= Len(Preload[p]) THEN Preload[p][j] ELSE NoG
    BY <2>6, <2>7
  <2>9. j = Pos(i) + 1 /\ j <= Len(Preload[p])
    BY <2>2, <2>3, <2>5, <2>7
  <2> HIDE DEF f
  <2> QED  BY <1>3, <2>1, <2>2, <2>8, <2>9
<1>9. ASSUME NEW j \in 1..Len(Preload[p])
      PROVE  Add(Start, j-1) \in Indices(p) /\ Pos(Add(Start, j-1)) = j - 1
  <2>1. j-1 \in 0..Size /\ j-1 < Len(Preload[p]) /\ 0 <= j-1
    BY <1>1, <1>2
  <2>2. Add(Start, j-1) \in 0..Wrap-1 /\ Pos(Add(Start, j-1)) = j - 1
    BY <2>1, StartPos
  <2> QED  BY <1>7, <2>1, <2>2
<1> HIDE DEF f
<1> QED  BY <1>1, <1>3, <1>5, <1>6, <1>8, <1>9

LEMMA InitQueues == Init => TypeOK /\ QueueInv
<1> SUFFICES ASSUME Init PROVE TypeOK /\ QueueInv
  OBVIOUS
<1>1. \A p \in Ps : 0 \in 0..Wrap-1 /\ Size \in Nat /\ MaxPuts[p] \in Nat
  BY Sizes
<1>2. TypeOK
  <2>1. head \in [Ps -> 0..Wrap-1] /\ tail \in [Ps -> 0..Wrap-1]
    <3>1. \A p \in Ps : head[p] \in 0..Wrap-1 /\ tail[p] \in 0..Wrap-1
      BY InitRunq, Sizes
    <3> QED  BY <3>1 DEF Init
  <2>2. runq \in [Ps -> [0..Size-1 -> Gs \cup {NoG}]]
    <3>1. \A p \in Ps : runq[p] \in [0..Size-1 -> Gs \cup {NoG}]
      BY InitRunq
    <3>2. runq = [p \in Ps |-> runq[p]]
      BY DEF Init
    <3> QED  BY <3>1, <3>2
  <2>3. sched \in Seq(Gs) /\ holder \in Ps \cup {NoG} /\ out \subseteq Gs
    BY DEF Init
  <2>4. /\ pc \in [Ps -> Locations] /\ gp \in [Ps -> Gs \cup {NoG}]
        /\ ret \in [Ps -> Gs \cup {NoG}] /\ victim \in [Ps -> Ps]
    BY DEF Init, Locations
  <2>5. h \in [Ps -> 0..Wrap-1] /\ t \in [Ps -> 0..Wrap-1]
    BY <1>1 DEF Init
  <2>6. batch \in [Ps -> Seq(Gs \cup {NoG})]
    BY DEF Init
  <2> QED  BY <2>1, <2>2, <2>3, <2>4, <2>5, <2>6 DEF TypeOK
<1>3. ASSUME NEW p \in Ps PROVE IndexInv(p) /\ CallInv(p)
  <2>1. pc[p] = "idle" /\ holder # p /\ gp[p] = NoG /\ ret[p] = NoG /\ batch[p] = <<>>
    BY NoGAssumption DEF Init
  <2>2. CallInv(p)
    BY <2>1 DEF CallInv, Empty, Alone
  <2>3. Coming(p) = 0
    BY <2>1 DEF Coming
  <2>4. /\ Len(Preload[p]) \in 0..Size /\ Preload[p] \in Seq(Gs)
        /\ Pos(head[p]) = 0 /\ Pos(tail[p]) = Len(Preload[p])
    BY InitRunq
  <2>5. \A i \in Indices(p) : runq[p][i % Size] \in Gs
    BY <2>4, InitRunq
  <2>6. /\ Pos(head[p]) <= Pos(tail[p]) /\ Pos(tail[p]) <= Pos(head[p]) + Size
        /\ Pos(tail[p]) + 0 <= MaxPuts[p] + Size
    BY <1>1, <2>4
  <2> QED  BY <2>2, <2>3, <2>5, <2>6 DEF IndexInv
<1> QED  BY <1>2, <1>3 DEF QueueInv

LEMMA StepQueues ==
  ASSUME TypeOK, QueueInv, NEW p \in Ps,
         TypeOK' /\ StepOf(p) /\ IndexInv(p)' /\ CallInv(p)'
  PROVE  TypeOK' /\ QueueInv'
<1>1. \A q \in Ps : q # p => IndexInv(q)' /\ CallInv(q)'
  BY BystanderKept
<1> QED  BY <1>1 DEF QueueInv

LEMMA NextQueues == TypeOK /\ QueueInv /\ [Next]_vars => TypeOK' /\ QueueInv'
<1> SUFFICES ASSUME TypeOK, QueueInv, [Next]_vars PROVE TypeOK' /\ QueueInv'
  OBVIOUS
<1>1. CASE UNCHANGED vars
  <2>1. TypeOK'
    BY <1>1 DEF vars, TypeOK
  <2>2. QueueInv'
    BY <1>1 DEF vars, QueueInv, IndexInv, Indices, Coming, CallInv, Putting, Alone, Empty,
                Stealing, Grabbing, Stole
  <2> QED  BY <2>1, <2>2
<1>2. ASSUME NEW p \in Ps,
             \/ Runqput(p) \/ Runqget(p) \/ Runqsteal(p)
             \/ Globrunqput(p) \/ Globrunqget(p)
             \/ Step(p)
      PROVE  TypeOK' /\ StepOf(p) /\ IndexInv(p)' /\ CallInv(p)'
  BY <1>2, RunqputKept, RunqgetKept, RunqstealKept, GlobrunqputKept, GlobrunqgetKept,
     RunqputLoadKept, RunqputWriteKept, RunqputPublishKept, RunqputSlowKept, RunqputGlobKept,
     RunqgetCasKept, GrabTailKept, GrabCopyKept, GrabCasKept, StealWriteKept, StealPublishKept,
     Zenon DEF Step
<1>3. CASE Next
  BY <1>2, <1>3, StepQueues DEF Next
<1> QED  BY <1>1, <1>3

LEMMA QueuesInvariant == Spec => [](TypeOK /\ QueueInv)
  BY InitQueues, NextQueues, PTL DEF Spec

\* runqgrab, runqputslow and globrunqget never overrun the local array batch,
\* runqsteal never throws "runqsteal: runq overflow", nor runqputslow "queue is
\* not full".
THEOREM RunqNeverOverflows == Spec => []NoOverflow
<1>1. TypeOK /\ QueueInv => NoOverflow
  <2> SUFFICES ASSUME TypeOK, QueueInv, NEW p \in Ps
               PROVE  /\ Len(batch[p]) <= IF pc[p] = "glob" THEN Half + 1 ELSE Half
                      /\ pc[p] = "stolen" /\ batch[p] # <<>> =>
                           Sub(tail[p], head[p]) + Len(batch[p]) < Size
                      /\ pc[p] = "slow" => Sub(t[p], h[p]) \div 2 = Half
    BY DEF NoOverflow
  <2>1. /\ Half \in Nat \ {0} /\ Size = Half + Half
        /\ Len(batch[p]) \in Nat /\ Pos(tail[p]) \in Nat /\ Pos(head[p]) \in Nat
        /\ tail[p] \in 0..Wrap-1 /\ head[p] \in 0..Wrap-1
        /\ IndexInv(p) /\ CallInv(p) /\ pc[p] \in Locations
    BY Positions, Sizes DEF QueueInv
  <2>2. Len(<<>>) = 0
    OBVIOUS
  <2>3. Putting(p) => Len(batch[p]) <= Half
    BY <2>1, <2>2, SMTT(30) DEF Putting, IndexInv
  <2>4. CASE pc[p] \in {"put", "write", "publish"}
    BY <2>1, <2>3, <2>4 DEF CallInv
  <2>9. CASE pc[p] = "slow"
    <3>1. t[p] = tail[p] /\ Pos(tail[p]) = Pos(h[p]) + Size /\ Putting(p)
      BY <2>1, <2>9 DEF CallInv
    <3>2. t[p] \in 0..Wrap-1 /\ h[p] \in 0..Wrap-1 /\ Pos(h[p]) \in Nat
      BY Positions
    <3>3. Sub(t[p], h[p]) = Size
      BY <2>1, <3>1, <3>2, PosSub
    <3> QED  BY <2>1, <2>3, <2>9, <3>1, <3>3
  <2>5. CASE pc[p] \in {"idle", "get", "grab"}
    BY <2>1, <2>2, <2>5 DEF CallInv, Empty
  <2>6. CASE pc[p] = "glob"
    BY <2>1, <2>6 DEF CallInv
  <2>7. CASE pc[p] \in {"copy", "cas"}
    BY <2>1, <2>7 DEF CallInv, Grabbing
  <2>8. CASE pc[p] \in {"stolen", "spublish"}
    <3>1. head[p] = tail[p] /\ Len(batch[p]) < Half
      BY <2>1, <2>8 DEF CallInv, Stole
    <3>2. Sub(tail[p], head[p]) = 0
      BY <2>1, <3>1, PosSub
    <3> QED  BY <2>1, <2>8, <3>1, <3>2
  <2> QED  BY <2>1, <2>4, <2>5, <2>6, <2>7, <2>8, <2>9 DEF Locations
<1> QED  BY <1>1, QueuesInvariant, PTL

\* The puts globrunqget makes with sched.lock held never overflow into
\* runqputslow, which takes sched.lock.
THEOREM RunqNeverLocksTwice == Spec => []NoSelfDeadlock
<1>1. TypeOK /\ QueueInv => NoSelfDeadlock
  BY DEF QueueInv, CallInv, Alone, NoSelfDeadlock
<1> QED  BY <1>1, QueuesInvariant, PTL
----------------------------------------------------------------------------
(* Every goroutine is in one place *)

\* Goroutine g is k-th on the global queue, at index i of the queue of P q, or
\* k-th in the batch of P q.
InSched(k, g) == k \in DOMAIN sched /\ sched[k] = g
InRunq(q, i, g) == i \in Indices(q) /\ runq[q][i % Size] = g
InBatch(q, k, g) == Taken(q) /\ k \in DOMAIN batch[q] /\ batch[q][k] = g

Place == {<<"out", NoG, 0>>}
           \cup {<<"sched", NoG, k>> : k \in Int}
           \cup {<<"gp", q, 0>> : q \in Ps}
           \cup {<<"ret", q, 0>> : q \in Ps}
           \cup {<<"runq", q, i>> : q \in Ps, i \in Int}
           \cup {<<"batch", q, k>> : q \in Ps, k \in Int}

\* Goroutine g is in place x and in no other.
Only(x, g) ==
  /\ g \in out <=> x = <<"out", NoG, 0>>
  /\ \A k \in Int : InSched(k, g) <=> x = <<"sched", NoG, k>>
  /\ \A q \in Ps : gp[q] = g <=> x = <<"gp", q, 0>>
  /\ \A q \in Ps : ret[q] = g <=> x = <<"ret", q, 0>>
  /\ \A q \in Ps, i \in Int : InRunq(q, i, g) <=> x = <<"runq", q, i>>
  /\ \A q \in Ps, k \in Int : InBatch(q, k, g) <=> x = <<"batch", q, k>>

\* The inductive invariant of the places; PlaceOne is why it says OnePlace.
PlaceInv == \A g \in Gs : \E x \in Place : Only(x, g)

LEMMA PlaceOne == ASSUME TypeOK, QueueInv, PlaceInv PROVE OnePlace
<1> SUFFICES ASSUME NEW g \in Gs PROVE Cardinality(Places(g)) = 1
  BY DEF OnePlace
<1>1. PICK x \in Place : Only(x, g)
  BY DEF PlaceInv
<1>2. DOMAIN sched \subseteq Int /\ \A q \in Ps : DOMAIN batch[q] \subseteq Int
  <2>1. sched \in Seq(Gs) /\ \A q \in Ps : batch[q] \in Seq(Gs \cup {NoG})
    BY DEF TypeOK
  <2> QED  BY <2>1
<1>3. \A q \in Ps : Indices(q) \subseteq Int
  <2> SUFFICES ASSUME NEW q \in Ps PROVE Indices(q) \subseteq Int
    OBVIOUS
  <2>1. Indices(q) = {i \in 0..Wrap-1 : Pos(head[q]) <= Pos(i) /\ Pos(i) < Pos(tail[q])}
    BY Positions, IndicesFacts DEF QueueInv, IndexInv, Indices
  <2> QED  BY <2>1, Sizes
<1>4. \A y : y \in Places(g) <=>
        \/ y = <<"out", NoG, 0>> /\ g \in out
        \/ \E k \in DOMAIN sched : sched[k] = g /\ y = <<"sched", NoG, k>>
        \/ \E q \in Ps : y \in PlacesAt(q, g)
  BY DEF Places
<1>5. \A q \in Ps : \A y : y \in PlacesAt(q, g) <=>
        \/ \E i \in Indices(q) : runq[q][i % Size] = g /\ y = <<"runq", q, i>>
        \/ y = <<"gp", q, 0>> /\ gp[q] = g
        \/ y = <<"ret", q, 0>> /\ ret[q] = g
        \/ \E k \in DOMAIN batch[q] : Taken(q) /\ batch[q][k] = g /\ y = <<"batch", q, k>>
  BY DEF PlacesAt
<1>6. ASSUME NEW y \in Places(g) PROVE y = x
  <2>1. CASE y = <<"out", NoG, 0>> /\ g \in out
    BY <1>1, <2>1 DEF Only
  <2>2. CASE \E k \in DOMAIN sched : sched[k] = g /\ y = <<"sched", NoG, k>>
    BY <1>1, <1>2, <2>2 DEF Only, InSched
  <2>3. CASE \E q \in Ps : y \in PlacesAt(q, g)
    <3>1. PICK q \in Ps : y \in PlacesAt(q, g)
      BY <2>3
    <3>2. CASE \E i \in Indices(q) : runq[q][i % Size] = g /\ y = <<"runq", q, i>>
      BY <1>1, <1>3, <3>2 DEF Only, InRunq
    <3>3. CASE y = <<"gp", q, 0>> /\ gp[q] = g
      BY <1>1, <3>3 DEF Only
    <3>4. CASE y = <<"ret", q, 0>> /\ ret[q] = g
      BY <1>1, <3>4 DEF Only
    <3>5. CASE \E k \in DOMAIN batch[q] : Taken(q) /\ batch[q][k] = g /\ y = <<"batch", q, k>>
      BY <1>1, <1>2, <3>5 DEF Only, InBatch
    <3> QED  BY <1>5, <3>1, <3>2, <3>3, <3>4, <3>5
  <2> QED  BY <1>4, <1>6, <2>1, <2>2, <2>3
<1>7. x \in Places(g)
  <2>1. CASE x = <<"out", NoG, 0>>
    BY <1>1, <1>4, <2>1 DEF Only
  <2>2. ASSUME NEW k \in Int, x = <<"sched", NoG, k>> PROVE x \in Places(g)
    BY <1>1, <1>4, <2>2 DEF Only, InSched
  <2>3. ASSUME NEW q \in Ps, x = <<"gp", q, 0>> PROVE x \in Places(g)
    BY <1>1, <1>4, <1>5, <2>3 DEF Only
  <2>4. ASSUME NEW q \in Ps, x = <<"ret", q, 0>> PROVE x \in Places(g)
    BY <1>1, <1>4, <1>5, <2>4 DEF Only
  <2>5. ASSUME NEW q \in Ps, NEW i \in Int, x = <<"runq", q, i>> PROVE x \in Places(g)
    BY <1>1, <1>4, <1>5, <2>5 DEF Only, InRunq
  <2>6. ASSUME NEW q \in Ps, NEW k \in Int, x = <<"batch", q, k>> PROVE x \in Places(g)
    BY <1>1, <1>4, <1>5, <2>6 DEF Only, InBatch
  <2> QED  BY <2>1, <2>2, <2>3, <2>4, <2>5, <2>6 DEF Place
<1>8. Places(g) = {x}
  BY <1>6, <1>7
<1> QED  BY <1>8, FS_Singleton

LEMMA InitPlaces == ASSUME Init PROVE PlaceInv
<1> SUFFICES ASSUME NEW g \in Gs PROVE \E x \in Place : Only(x, g)
  BY DEF PlaceInv
<1>1. /\ sched = <<>> /\ out = Gs \ UNION {Range(Preload[p]) : p \in Ps}
      /\ \A q \in Ps : gp[q] = NoG /\ ret[q] = NoG /\ batch[q] = <<>> /\ g # NoG
  BY NoGAssumption DEF Init
<1>2. /\ \A k \in Int : ~InSched(k, g)
      /\ \A q \in Ps, k \in Int : ~InBatch(q, k, g)
      /\ \A q \in Ps : gp[q] # g /\ ret[q] # g
  BY <1>1 DEF InSched, InBatch
<1>3. \A q \in Ps : \A z : z \in Range(Preload[q]) <=> \E j \in 1..Len(Preload[q]) : Preload[q][j] = z
  <2>1. \A q \in Ps : DOMAIN Preload[q] = 1..Len(Preload[q])
    BY PreloadAssumption
  <2> QED  BY <2>1 DEF Range
<1>4. CASE g \in out
  <2>1. \A q \in Ps, i \in Int : ~InRunq(q, i, g)
    <3> SUFFICES ASSUME NEW q \in Ps, NEW i \in Int, InRunq(q, i, g) PROVE FALSE
      OBVIOUS
    <3>1. Pos(i) + 1 \in 1..Len(Preload[q]) /\ Preload[q][Pos(i) + 1] = g
      BY InitRunq DEF InRunq
    <3>2. g \in Range(Preload[q])
      BY <1>3, <3>1
    <3> QED  BY <1>1, <1>4, <3>2
  <2>2. Only(<<"out", NoG, 0>>, g)
    BY <1>2, <1>4, <2>1 DEF Only
  <2> QED  BY <2>2 DEF Place
<1>5. CASE g \notin out
  <2>1. PICK p \in Ps : g \in Range(Preload[p])
    BY <1>1, <1>5
  <2>2. PICK j \in 1..Len(Preload[p]) : Preload[p][j] = g
    BY <1>3, <2>1
  <2>3. PICK i0 \in 0..Wrap-1 : i0 \in Indices(p) /\ Pos(i0) = j - 1
    BY InitRunq
  <2>4. i0 \in Int /\ j \in Int
    BY Sizes, InitRunq
  <2>5. Preload[p][Pos(i0) + 1] = g
    <3>1. Pos(i0) + 1 = j
      BY <2>3, <2>4
    <3> QED  BY <2>2, <3>1
  <2>6. InRunq(p, i0, g)
    BY <2>3, <2>5, InitRunq DEF InRunq
  <2>7. ASSUME NEW q \in Ps, NEW i \in Int, InRunq(q, i, g) PROVE q = p /\ i = i0
    <3>1. i \in 0..Wrap-1 /\ Pos(i) + 1 \in 1..Len(Preload[q]) /\ Preload[q][Pos(i) + 1] = g
      BY <2>7, InitRunq DEF InRunq
    <3>2. g \in Range(Preload[q])
      BY <1>3, <3>1
    <3>3. q = p
      BY <2>1, <3>2, PreloadAssumption
    <3>4. Pos(i) + 1 = j
      <4>1. DOMAIN Preload[p] = 1..Len(Preload[p]) /\ IsInjective(Preload[p])
        BY PreloadAssumption
      <4> QED  BY <2>2, <3>1, <3>3, <4>1 DEF IsInjective
    <3>5. Pos(i) = Pos(i0)
      <4>1. Pos(i) \in Nat
        BY <3>1, PosAdd
      <4> QED  BY <2>3, <2>4, <3>4, <4>1
    <3> QED  BY <2>3, <3>1, <3>3, <3>5, PosSub
  <2>8. Only(<<"runq", p, i0>>, g)
    BY <1>2, <1>5, <2>6, <2>7 DEF Only
  <2> QED  BY <2>4, <2>8 DEF Place
<1> QED  BY <1>4, <1>5

\* A step after which every goroutine is where it was.
LEMMA Steady ==
  ASSUME PlaceInv, UNCHANGED <<sched, out, gp, ret>>,
         \A q \in Ps, i \in Int, g \in Gs : InRunq(q, i, g)' <=> InRunq(q, i, g),
         \A q \in Ps, k \in Int, g \in Gs : InBatch(q, k, g)' <=> InBatch(q, k, g)
  PROVE  PlaceInv'
<1> SUFFICES ASSUME NEW g \in Gs PROVE \E x \in Place : Only(x, g)'
  BY DEF PlaceInv
<1>1. PICK x \in Place : Only(x, g)
  BY DEF PlaceInv
<1>2. \A k \in Int : InSched(k, g)' <=> InSched(k, g)
  BY DEF InSched
<1>3. Only(x, g)'
  BY <1>1, <1>2 DEF Only
<1> QED  BY <1>3

\* The batch of P p is empty before and after, or not taken.
LEMMA SameBatch ==
  ASSUME NEW p \in Ps, \A q \in Ps \ {p} : pc'[q] = pc[q] /\ batch'[q] = batch[q],
         pc[p] \in {"copy", "cas"} \/ batch[p] = <<>>,
         pc'[p] \in {"copy", "cas"} \/ batch'[p] = <<>>
  PROVE  \A q \in Ps, k \in Int, g \in Gs : InBatch(q, k, g)' <=> InBatch(q, k, g)
  BY DEF InBatch, Taken

LEMMA SameRunq ==
  ASSUME UNCHANGED <<head, tail, runq>>
  PROVE  \A q \in Ps, i \in Int, g \in Gs : InRunq(q, i, g)' <=> InRunq(q, i, g)
  BY DEF InRunq, Indices

LEMMA RunqputMoves ==
  ASSUME TypeOK, QueueInv, PlaceInv, NEW p \in Ps, Runqput(p)
  PROVE  PlaceInv'
<1>1. PICK g0 \in out : gp' = [gp EXCEPT ![p] = g0] /\ out' = out \ {g0}
  BY DEF Runqput
<1>2. /\ UNCHANGED <<head, tail, runq, sched, ret, batch>> /\ gp[p] = NoG /\ batch[p] = <<>>
      /\ pc' = [pc EXCEPT ![p] = "put"]
  BY DEF Runqput, Goto, QueueInv, CallInv, Empty, Alone
<1>3. /\ \A q \in Ps, i \in Int, g \in Gs : InRunq(q, i, g)' <=> InRunq(q, i, g)
      /\ \A q \in Ps, k \in Int, g \in Gs : InBatch(q, k, g)' <=> InBatch(q, k, g)
  <2>1. \A q \in Ps \ {p} : pc'[q] = pc[q]
    BY <1>2 DEF TypeOK
  <2> QED  BY <1>2, <2>1, SameRunq, SameBatch
<1>4. \A k \in Int, g \in Gs : InSched(k, g)' <=> InSched(k, g)
  BY <1>2 DEF InSched
<1>5. g0 \in Gs /\ gp'[p] = g0 /\ \A q \in Ps \ {p} : gp'[q] = gp[q]
  BY <1>1 DEF TypeOK
<1> SUFFICES ASSUME NEW g \in Gs PROVE \E x \in Place : Only(x, g)'
  BY DEF PlaceInv
<1>6. PICK x \in Place : Only(x, g)
  BY DEF PlaceInv
<1>7. CASE g = g0
  <2>1. Only(<<"out", NoG, 0>>, g)
    BY <1>6, <1>7 DEF Only
  <2>2. Only(<<"gp", p, 0>>, g)'
    BY <1>1, <1>2, <1>3, <1>4, <1>5, <1>7, <2>1 DEF Only
  <2> QED  BY <2>2 DEF Place
<1>8. CASE g # g0
  <2>1. gp[p] # g
    BY <1>2, NoGAssumption
  <2>2. Only(x, g)'
    BY <1>1, <1>2, <1>3, <1>4, <1>5, <1>6, <1>8, <2>1 DEF Only
  <2> QED  BY <2>2
<1> QED  BY <1>7, <1>8

\* When a call returns, the goroutine it returns is on no queue.
LEMMA ReturnMoves ==
  ASSUME TypeOK, NEW p \in Ps, Return(p)
  PROVE  /\ \A g \in Gs : g \in out' <=> g \in out \/ ret[p] = g
         /\ \A g \in Gs : gp'[p] # g /\ ret'[p] # g
         /\ \A q \in Ps \ {p} : gp'[q] = gp[q] /\ ret'[q] = ret[q]
         /\ \A q \in Ps \ {p}, k \in Int, g \in Gs : InBatch(q, k, g)' <=> InBatch(q, k, g)
         /\ \A k \in Int, g \in Gs : ~InBatch(p, k, g)'
<1>1. \A g \in Gs : g \in out' <=> g \in out \/ ret[p] = g
  BY NoGAssumption DEF Return, TypeOK
<1>2. \A g \in Gs : gp'[p] # g /\ ret'[p] # g
  BY NoGAssumption DEF Return, TypeOK
<1>3. \A q \in Ps \ {p} : gp'[q] = gp[q] /\ ret'[q] = ret[q] /\ batch'[q] = batch[q] /\ pc'[q] = pc[q]
  BY DEF Return, TypeOK, Goto
<1>4. batch'[p] = <<>>
  BY DEF Return, TypeOK
<1>5. \A q \in Ps \ {p}, k \in Int, g \in Gs : InBatch(q, k, g)' <=> InBatch(q, k, g)
  BY <1>3 DEF InBatch, Taken
<1>6. \A k \in Int, g \in Gs : ~InBatch(p, k, g)'
  BY <1>4 DEF InBatch
<1> QED  BY <1>1, <1>2, <1>3, <1>5, <1>6

LEMMA RunqgetCasMoves ==
  ASSUME TypeOK, QueueInv, PlaceInv, NEW p \in Ps, RunqgetCas(p)
  PROVE  PlaceInv'
<1>1. /\ Empty(p) /\ IndexInv(p) /\ Pos(h[p]) < Pos(tail[p])
  BY DEF QueueInv, CallInv, RunqgetCas
<1>2. UNCHANGED <<tail, runq, sched, gp, ret, batch>> /\ batch[p] = <<>>
  BY <1>1 DEF RunqgetCas, Empty
<1>3. \A q \in Ps \ {p} : pc'[q] = pc[q]
  BY DEF RunqgetCas, Goto, TypeOK
<1>4. \A q \in Ps, k \in Int, g \in Gs : InBatch(q, k, g)' <=> InBatch(q, k, g)
  BY <1>2, <1>3, SameBatch
<1>5. CASE /\ head[p] = h[p]
           /\ head' = [head EXCEPT ![p] = Add(h[p], 1)]
           /\ out' = out \cup {runq[p][h[p] % Size]}
  <2> DEFINE i0 == head[p]
  <2>1. /\ head' = [head EXCEPT ![p] = Add(head[p], 1)] /\ Pos(head[p]) \in Nat /\ Pos(tail[p]) \in Nat
        /\ i0 \in 0..Wrap-1 /\ tail[p] \in 0..Wrap-1
    BY <1>5, Positions
  <2>2. 1 \in Nat /\ Pos(head[p]) + 1 <= Pos(tail[p])
    BY <1>1, <1>5, <2>1
  <2>3. /\ Pos(head'[p]) = Pos(head[p]) + 1
        /\ Indices(p)' = {i \in Indices(p) : Pos(head'[p]) <= Pos(i)}
    BY <1>1, <1>2, <2>1, <2>2, Removed
  <2>4. Indices(p) = {i \in 0..Wrap-1 : Pos(head[p]) <= Pos(i) /\ Pos(i) < Pos(tail[p])}
    BY <1>1, <2>1, IndicesFacts DEF IndexInv, Indices
  <2>5. i0 \in Indices(p) /\ i0 \in Int
    BY <2>1, <2>2, <2>4, Sizes
  <2>6. \A i : i \in Indices(p)' <=> i \in Indices(p) /\ i # i0
    <3> SUFFICES ASSUME NEW i \in Indices(p) PROVE Pos(head[p]) + 1 <= Pos(i) <=> i # i0
      BY <2>3
    <3>1. i \in 0..Wrap-1 /\ Pos(head[p]) <= Pos(i) /\ Pos(i) \in Nat
      BY <2>4, PosAdd
    <3>2. Pos(i) = Pos(i0) <=> i = i0
      BY <2>1, <3>1, PosSub
    <3> QED  BY <2>1, <3>1, <3>2
  <2>7. \A i \in Int, g \in Gs : InRunq(p, i, g)' <=> InRunq(p, i, g) /\ i # i0
    BY <1>2, <2>6 DEF InRunq
  <2>8. \A q \in Ps \ {p}, i \in Int, g \in Gs : InRunq(q, i, g)' <=> InRunq(q, i, g)
    BY <1>2, <2>1 DEF InRunq, Indices, TypeOK
  <2>9. \A g \in Gs : g \in out' <=> g \in out \/ InRunq(p, i0, g)
    BY <1>5, <2>5 DEF InRunq
  <2>10. \A k \in Int, g \in Gs : InSched(k, g)' <=> InSched(k, g)
    BY <1>2 DEF InSched
  <2> HIDE DEF i0
  <2> SUFFICES ASSUME NEW g \in Gs PROVE \E x \in Place : Only(x, g)'
    BY DEF PlaceInv
  <2>11. PICK x \in Place : Only(x, g)
    BY DEF PlaceInv
  <2>12. CASE InRunq(p, i0, g)
    <3>1. Only(<<"runq", p, i0>>, g)
      BY <2>5, <2>11, <2>12 DEF Only
    <3>2. Only(<<"out", NoG, 0>>, g)'
      BY <1>2, <1>4, <2>5, <2>7, <2>8, <2>9, <2>10, <2>12, <3>1 DEF Only
    <3> QED  BY <3>2 DEF Place
  <2>13. CASE ~InRunq(p, i0, g)
    <3>1. \A q \in Ps, i \in Int : InRunq(q, i, g)' <=> InRunq(q, i, g)
      BY <2>7, <2>8, <2>13
    <3>2. Only(x, g)'
      BY <1>2, <1>4, <2>9, <2>10, <2>11, <2>13, <3>1 DEF Only
    <3> QED  BY <3>2
  <2> QED  BY <2>12, <2>13
<1>6. CASE UNCHANGED <<head, out>>
  BY <1>2, <1>4, <1>6, SameRunq, Steady
<1> QED  BY <1>5, <1>6 DEF RunqgetCas

\* Where a goroutine is when it is found in one place of a row and nowhere else.
LEMMA NowBatch ==
  ASSUME NEW p \in Ps, NEW k0 \in Int, NEW g \in Gs,
         g \notin out', \A k \in Int : ~InSched(k, g)',
         \A q \in Ps : gp'[q] # g /\ ret'[q] # g,
         \A q \in Ps, i \in Int : ~InRunq(q, i, g)',
         \A q \in Ps, k \in Int : InBatch(q, k, g)' <=> q = p /\ k = k0
  PROVE  \E x \in Place : Only(x, g)'
<1>1. Only(<<"batch", p, k0>>, g)'
  BY DEF Only
<1> QED  BY <1>1 DEF Place

LEMMA NowRunq ==
  ASSUME NEW p \in Ps, NEW i0 \in Int, NEW g \in Gs,
         g \notin out', \A k \in Int : ~InSched(k, g)',
         \A q \in Ps : gp'[q] # g /\ ret'[q] # g,
         \A q \in Ps, i \in Int : InRunq(q, i, g)' <=> q = p /\ i = i0,
         \A q \in Ps, k \in Int : ~InBatch(q, k, g)'
  PROVE  \E x \in Place : Only(x, g)'
<1>1. Only(<<"runq", p, i0>>, g)'
  BY DEF Only
<1> QED  BY <1>1 DEF Place

LEMMA NowSched ==
  ASSUME NEW k0 \in Int, NEW g \in Gs,
         g \notin out', \A k \in Int : InSched(k, g)' <=> k = k0,
         \A q \in Ps : gp'[q] # g /\ ret'[q] # g,
         \A q \in Ps, i \in Int : ~InRunq(q, i, g)',
         \A q \in Ps, k \in Int : ~InBatch(q, k, g)'
  PROVE  \E x \in Place : Only(x, g)'
<1>1. Only(<<"sched", NoG, k0>>, g)'
  BY DEF Only
<1> QED  BY <1>1 DEF Place

\* A call that holds no batch returns.
LEMMA Returned ==
  ASSUME TypeOK, PlaceInv, NEW p \in Ps, Return(p), gp[p] = NoG, UNCHANGED sched,
         \A k \in Int, g \in Gs : ~InBatch(p, k, g),
         \A q \in Ps, i \in Int, g \in Gs : InRunq(q, i, g)' <=> InRunq(q, i, g)
  PROVE  PlaceInv'
<1> SUFFICES ASSUME NEW g \in Gs PROVE \E x \in Place : Only(x, g)'
  BY DEF PlaceInv
<1>1. PICK x \in Place : Only(x, g)
  BY DEF PlaceInv
<1>2. /\ g \in out' <=> g \in out \/ ret[p] = g
      /\ gp'[p] # g /\ ret'[p] # g /\ gp[p] # g
      /\ \A q \in Ps \ {p} : gp'[q] = gp[q] /\ ret'[q] = ret[q]
      /\ \A q \in Ps \ {p}, k \in Int : InBatch(q, k, g)' <=> InBatch(q, k, g)
      /\ \A k \in Int : ~InBatch(p, k, g)'
  BY ReturnMoves, NoGAssumption
<1>3. \A k \in Int : InSched(k, g)' <=> InSched(k, g)
  BY DEF InSched
<1>4. CASE ret[p] = g
  <2>1. Only(<<"ret", p, 0>>, g)
    BY <1>1, <1>4 DEF Only
  <2>2. Only(<<"out", NoG, 0>>, g)'
    BY <1>2, <1>3, <1>4, <2>1 DEF Only
  <2> QED  BY <2>2 DEF Place
<1>5. CASE ret[p] # g
  <2>1. Only(x, g)'
    BY <1>1, <1>2, <1>3, <1>5 DEF Only
  <2> QED  BY <2>1
<1> QED  BY <1>4, <1>5

\* The indices a put or a steal adds to the queue.
LEMMA NewIndices ==
  ASSUME TypeOK, NEW p \in Ps, IndexInv(p), NEW n \in Nat,
         Pos(tail[p]) + n <= MaxPuts[p] + Size,
         head' = head, runq' = runq, tail' = [tail EXCEPT ![p] = Add(tail[p], n)]
  PROVE  /\ \A j \in 1..n : /\ Add(tail[p], j-1) \in Int /\ Add(tail[p], j-1) \notin Indices(p)
                            /\ Add(tail[p], j-1) \in Indices(p)'
                            /\ \A k \in 1..n : Add(tail[p], j-1) = Add(tail[p], k-1) => j = k
         /\ \A i : i \in Indices(p)' <=> i \in Indices(p) \/ \E j \in 1..n : i = Add(tail[p], j-1)
         /\ \A q \in Ps \ {p}, i \in Int, g \in Gs : InRunq(q, i, g)' <=> InRunq(q, i, g)
<1>1. /\ tail[p] \in 0..Wrap-1 /\ head[p] \in 0..Wrap-1
      /\ Pos(tail[p]) \in Nat /\ Pos(head[p]) \in Nat
      /\ Wrap \in Nat /\ Pos(tail[p]) + n < Wrap /\ Pos(head[p]) <= Pos(tail[p])
      /\ \A i \in 0..Wrap-1 : Pos(i) \in Nat
  <2>1. /\ Wrap \in Nat /\ Size \in Nat \ {0} /\ MaxPuts[p] \in Nat /\ MaxPuts[p] + Size + Size < Wrap
    BY Sizes
  <2>2. Pos(tail[p]) \in Nat
    BY Positions
  <2>3. Pos(tail[p]) + n < Wrap
    BY <2>1, <2>2
  <2>4. Pos(head[p]) <= Pos(tail[p])
    BY DEF IndexInv
  <2>5. \A i \in 0..Wrap-1 : Pos(i) \in Nat
    BY PosNat
  <2>6. tail[p] \in 0..Wrap-1 /\ head[p] \in 0..Wrap-1 /\ Pos(head[p]) \in Nat
    BY Positions
  <2> QED  BY <2>1, <2>2, <2>3, <2>4, <2>5, <2>6
<1>2. Add(tail[p], n) \in 0..Wrap-1 /\ Pos(Add(tail[p], n)) = Pos(tail[p]) + n
  BY <1>1, PosAdd
<1>3. tail'[p] = Add(tail[p], n) /\ head'[p] = head[p]
  BY DEF TypeOK
<1>4. Indices(p) = {i \in 0..Wrap-1 : Pos(head[p]) <= Pos(i) /\ Pos(i) < Pos(tail[p])}
  BY <1>1, IndicesFacts DEF Indices
<1>5. Indices(p)' = {i \in 0..Wrap-1 : Pos(head[p]) <= Pos(i) /\ Pos(i) < Pos(tail[p]) + n}
  <2>1. Pos(tail'[p]) = Pos(tail[p]) + n
    BY <1>2, <1>3
  <2>3. tail'[p] \in 0..Wrap-1 /\ head'[p] = head[p]
    BY <1>2, <1>3
  <2>4. Pos(head[p]) <= Pos(tail'[p])
    BY <1>1, <2>1
  <2>5. head[p] \in 0..Wrap-1
    BY <1>1
  <2>2. Indices(p)' = {i \in 0..Wrap-1 : Pos(head[p]) <= Pos(i) /\ Pos(i) < Pos(tail'[p])}
    BY <2>3, <2>4, <2>5, IndicesFacts DEF Indices
  <2> QED  BY <2>1, <2>2
<1>6. ASSUME NEW j \in 1..n
      PROVE  Add(tail[p], j-1) \in 0..Wrap-1 /\ Pos(Add(tail[p], j-1)) = Pos(tail[p]) + (j-1)
  <2>1. j-1 \in Nat /\ Pos(tail[p]) + (j-1) < Wrap
    BY <1>1
  <2> QED  BY <1>1, <2>1, PosAdd
<1>7. ASSUME NEW j \in 1..n
      PROVE  /\ Add(tail[p], j-1) \in Int /\ Add(tail[p], j-1) \notin Indices(p)
             /\ Add(tail[p], j-1) \in Indices(p)'
             /\ \A k \in 1..n : Add(tail[p], j-1) = Add(tail[p], k-1) => j = k
  <2>1. Add(tail[p], j-1) \in Int
    BY <1>1, <1>6
  <2>2. Add(tail[p], j-1) \notin Indices(p) /\ Add(tail[p], j-1) \in Indices(p)'
    <3>1. /\ ~(Pos(tail[p]) + (j-1) < Pos(tail[p])) /\ Pos(tail[p]) + (j-1) < Pos(tail[p]) + n
          /\ Pos(head[p]) <= Pos(tail[p]) + (j-1)
      BY <1>1
    <3> QED  BY <1>4, <1>5, <1>6, <3>1
  <2>3. ASSUME NEW k \in 1..n, Add(tail[p], j-1) = Add(tail[p], k-1) PROVE j = k
    <3>1. Pos(tail[p]) + (j-1) = Pos(tail[p]) + (k-1)
      BY <1>6, <2>3
    <3> QED  BY <1>1, <3>1
  <2> QED  BY <2>1, <2>2, <2>3
<1>8. ASSUME NEW i \in Indices(p)', i \notin Indices(p) PROVE \E j \in 1..n : i = Add(tail[p], j-1)
  <2>1. /\ i \in 0..Wrap-1 /\ Pos(i) \in Nat /\ Pos(tail[p]) <= Pos(i) /\ Pos(i) < Pos(tail[p]) + n
    BY <1>1, <1>4, <1>5, <1>8
  <2>2. PICK k \in Nat : k = Pos(i) - Pos(tail[p])
    BY <1>1, <2>1
  <2>3. Add(tail[p], k) = i
    BY <1>1, <2>1, <2>2, PosSub
  <2>4. k + 1 \in 1..n /\ (k + 1) - 1 = k
    BY <1>1, <2>1, <2>2
  <2> QED  BY <2>3, <2>4
<1>9. ASSUME NEW i \in Indices(p) PROVE i \in Indices(p)'
  BY <1>1, <1>4, <1>5, <1>9
<1>10. \A q \in Ps \ {p}, i \in Int, g \in Gs : InRunq(q, i, g)' <=> InRunq(q, i, g)
  BY DEF InRunq, Indices, TypeOK
<1> QED  BY <1>7, <1>8, <1>9, <1>10

LEMMA RunqputPublishMoves ==
  ASSUME TypeOK, QueueInv, PlaceInv, NEW p \in Ps, RunqputPublish(p)
  PROVE  PlaceInv'
<1>1. /\ Putting(p) /\ Coming(p) = 1 + Len(batch[p]) /\ IndexInv(p)
      /\ t[p] = tail[p] /\ runq[p][t[p] % Size] = gp[p] /\ pc[p] = "publish"
  BY DEF QueueInv, CallInv, RunqputPublish, Coming
<1>2. /\ tail[p] \in 0..Wrap-1 /\ Pos(tail[p]) \in Nat /\ Len(batch[p]) \in Nat
      /\ Size \in Nat /\ MaxPuts[p] \in Nat /\ batch[p] \in Seq(Gs) /\ gp[p] \in Gs
  BY <1>1, Positions, Sizes DEF Putting
<1>3. /\ tail' = [tail EXCEPT ![p] = Add(tail[p], 1)]
      /\ head' = head /\ runq' = runq /\ sched' = sched
  BY <1>1 DEF RunqputPublish
<1>4. Pos(tail[p]) + 1 <= MaxPuts[p] + Size /\ 1 \in Nat
  BY <1>1, <1>2, SMTT(30) DEF IndexInv
<1>0. PICK i0 : i0 = tail[p]
  OBVIOUS
<1>5. Add(tail[p], 1-1) = i0
  <2>1. Pos(tail[p]) - Pos(tail[p]) = 1-1
    BY <1>2
  <2> QED  BY <1>0, <1>2, <2>1, PosSub
<1>6. /\ i0 \in Int /\ i0 \notin Indices(p)
      /\ \A i : i \in Indices(p)' <=> i \in Indices(p) \/ i = i0
      /\ \A q \in Ps \ {p}, i \in Int, g \in Gs : InRunq(q, i, g)' <=> InRunq(q, i, g)
  <2>1. 1 \in 1..1 /\ \A j \in 1..1 : j = 1
    OBVIOUS
  <2>2. /\ \A j \in 1..1 : /\ Add(tail[p], j-1) \in Int /\ Add(tail[p], j-1) \notin Indices(p)
                           /\ Add(tail[p], j-1) \in Indices(p)'
        /\ \A i : i \in Indices(p)' <=> i \in Indices(p) \/ \E j \in 1..1 : i = Add(tail[p], j-1)
        /\ \A q \in Ps \ {p}, i \in Int, g \in Gs : InRunq(q, i, g)' <=> InRunq(q, i, g)
    BY <1>1, <1>3, <1>4, NewIndices
  <2>3. \A j \in 1..1 : Add(tail[p], j-1) = i0
    BY <1>5, <2>1
  <2> QED  BY <2>1, <2>2, <2>3
<1>7. \A i \in Int, g \in Gs : InRunq(p, i, g)' <=> InRunq(p, i, g) \/ (i = i0 /\ gp[p] = g)
  BY <1>0, <1>1, <1>3, <1>6 DEF InRunq
<1>8. \A k \in Int, g \in Gs : InSched(k, g)' <=> InSched(k, g)
  BY <1>3 DEF InSched
<1> SUFFICES ASSUME NEW g \in Gs PROVE \E x \in Place : Only(x, g)'
  BY DEF PlaceInv
<1>9. PICK x \in Place : Only(x, g)
  BY DEF PlaceInv
<1>10. CASE batch[p] = <<>> /\ Return(p)
  <2>1. /\ g \in out' <=> g \in out \/ ret[p] = g
        /\ gp'[p] # g /\ ret'[p] # g
        /\ \A q \in Ps \ {p} : gp'[q] = gp[q] /\ ret'[q] = ret[q]
        /\ \A q \in Ps \ {p}, k \in Int : InBatch(q, k, g)' <=> InBatch(q, k, g)
        /\ \A k \in Int : ~InBatch(p, k, g)'
    BY <1>10, ReturnMoves
  <2>2. \A k \in Int : ~InBatch(p, k, g)
    BY <1>10 DEF InBatch
  <2>3. CASE gp[p] = g
    <3>1. Only(<<"gp", p, 0>>, g)
      BY <1>9, <2>3 DEF Only
    <3>2. Only(<<"runq", p, i0>>, g)'
      BY <1>6, <1>7, <1>8, <2>1, <2>2, <2>3, <3>1 DEF Only
    <3> QED  BY <1>6, <3>2 DEF Place
  <2>4. CASE ret[p] = g
    <3>1. Only(<<"ret", p, 0>>, g)
      BY <1>9, <2>4 DEF Only
    <3>2. Only(<<"out", NoG, 0>>, g)'
      BY <1>6, <1>7, <1>8, <2>1, <2>2, <2>4, <3>1 DEF Only
    <3> QED  BY <3>2 DEF Place
  <2>5. CASE gp[p] # g /\ ret[p] # g
    <3>1. Only(x, g)'
      BY <1>6, <1>7, <1>8, <1>9, <2>1, <2>2, <2>5 DEF Only
    <3> QED  BY <3>1
  <2> QED  BY <2>3, <2>4, <2>5
<1>11. ASSUME batch[p] # <<>>,
              gp' = [gp EXCEPT ![p] = Head(batch[p])],
              batch' = [batch EXCEPT ![p] = Tail(batch[p])],
              pc' = [pc EXCEPT ![p] = "put"],
              UNCHANGED <<holder, out, h, t, ret, victim>>
       PROVE  \E x1 \in Place : Only(x1, g)'
  <2>1. /\ Len(batch[p]) > 0 /\ 1 \in DOMAIN batch[p] /\ Head(batch[p]) = batch[p][1]
        /\ DOMAIN batch[p] = 1..Len(batch[p])
        /\ DOMAIN Tail(batch[p]) = 1..Len(batch[p])-1
        /\ \A k \in 1..Len(batch[p])-1 : Tail(batch[p])[k] = batch[p][k+1]
    BY <1>2, <1>11
  <2>2. /\ gp'[p] = batch[p][1] /\ batch'[p] = Tail(batch[p]) /\ pc'[p] = "put"
        /\ \A q \in Ps \ {p} : gp'[q] = gp[q] /\ batch'[q] = batch[q] /\ pc'[q] = pc[q]
    BY <1>11, <2>1 DEF TypeOK
  <2>3. \A q \in Ps \ {p}, k \in Int : InBatch(q, k, g)' <=> InBatch(q, k, g)
    BY <2>2 DEF InBatch, Taken
  <2>4. Taken(p) /\ Taken(p)'
    BY <1>1, <2>2 DEF Taken
  <2>5. \A k \in Int : InBatch(p, k, g)' <=> k >= 1 /\ InBatch(p, k+1, g)
    <3> SUFFICES ASSUME NEW k \in Int PROVE InBatch(p, k, g)' <=> k >= 1 /\ InBatch(p, k+1, g)
      OBVIOUS
    <3>1. k \in DOMAIN batch'[p] <=> k \in 1..Len(batch[p])-1
      BY <2>1, <2>2
    <3>2. k >= 1 /\ k+1 \in DOMAIN batch[p] <=> k \in 1..Len(batch[p])-1
      BY <1>2, <2>1
    <3>3. k \in 1..Len(batch[p])-1 => batch'[p][k] = batch[p][k+1]
      BY <2>1, <2>2
    <3> QED  BY <2>4, <3>1, <3>2, <3>3 DEF InBatch
  <2>6. gp'[p] = g <=> InBatch(p, 1, g)
    BY <2>1, <2>2, <2>4 DEF InBatch
  <2>7. CASE gp[p] = g
    <3>1. Only(<<"gp", p, 0>>, g)
      BY <1>9, <2>7 DEF Only
    <3>2. \A k \in Int : ~InBatch(p, k, g)
      BY <3>1 DEF Only
    <3>3. \A k \in Int : k + 1 \in Int
      OBVIOUS
    <3>4. gp'[p] # g /\ \A k \in Int : ~InBatch(p, k, g)'
      BY <2>5, <2>6, <3>2, <3>3
    <3>5. Only(<<"runq", p, i0>>, g)'
      BY <1>6, <1>7, <1>8, <1>11, <2>2, <2>3, <2>7, <3>1, <3>4 DEF Only
    <3> QED  BY <1>6, <3>5 DEF Place
  <2>8. CASE InBatch(p, 1, g)
    <3>1. Only(<<"batch", p, 1>>, g)
      BY <1>9, <2>8 DEF Only
    <3>2. \A k \in Int : k >= 1 => ~InBatch(p, k+1, g)
      <4> SUFFICES ASSUME NEW k \in Int, k >= 1 PROVE ~InBatch(p, k+1, g)
        OBVIOUS
      <4>1. k+1 \in Int /\ k+1 # 1
        OBVIOUS
      <4> QED  BY <3>1, <4>1 DEF Only
    <3>3. gp[p] # g
      BY <3>1 DEF Only
    <3>4. gp'[p] = g /\ \A k \in Int : ~InBatch(p, k, g)'
      BY <2>5, <2>6, <2>8, <3>2
    <3>5. Only(<<"gp", p, 0>>, g)'
      BY <1>6, <1>7, <1>8, <1>11, <2>2, <2>3, <3>1, <3>3, <3>4 DEF Only
    <3> QED  BY <3>5 DEF Place
  <2>9. ASSUME NEW k0 \in Int, k0 >= 1, InBatch(p, k0+1, g)
        PROVE  \E x1 \in Place : Only(x1, g)'
    <3>0. k0+1 \in Int /\ k0+1 # 1
      BY <2>9
    <3>1. Only(<<"batch", p, k0+1>>, g)
      BY <1>9, <2>9, <3>0 DEF Only
    <3>2. \A k \in Int : InBatch(p, k, g)' <=> k = k0
      <4> SUFFICES ASSUME NEW k \in Int PROVE InBatch(p, k, g)' <=> k = k0
        OBVIOUS
      <4>1. k+1 \in Int /\ (k+1 = k0+1 <=> k = k0)
        OBVIOUS
      <4>2. InBatch(p, k+1, g) <=> k = k0
        BY <3>0, <3>1, <4>1 DEF Only
      <4> QED  BY <2>5, <2>9, <4>2
    <3>3. gp[p] # g /\ ~InBatch(p, 1, g)
      BY <3>0, <3>1 DEF Only
    <3>4. Only(<<"batch", p, k0>>, g)'
      BY <1>6, <1>7, <1>8, <1>11, <2>2, <2>3, <2>6, <3>1, <3>2, <3>3 DEF Only
    <3> QED  BY <3>4 DEF Place
  <2>10. CASE gp[p] # g /\ ~InBatch(p, 1, g) /\ \A k \in Int : k >= 1 => ~InBatch(p, k+1, g)
    <3>1. \A k \in Int : ~InBatch(p, k, g)
      <4> SUFFICES ASSUME NEW k \in Int, InBatch(p, k, g) PROVE FALSE
        OBVIOUS
      <4>1. k \in 1..Len(batch[p])
        BY <2>1 DEF InBatch
      <4>2. CASE k = 1
        BY <2>10, <4>2
      <4>3. CASE k # 1
        <5>1. k-1 \in Int /\ k-1 >= 1 /\ (k-1)+1 = k
          BY <1>2, <4>1, <4>3
        <5> QED  BY <2>10, <5>1
      <4> QED  BY <4>2, <4>3
    <3>2. Only(x, g)'
      BY <1>6, <1>7, <1>8, <1>9, <1>11, <2>2, <2>3, <2>5, <2>6, <2>10, <3>1 DEF Only
    <3> QED  BY <3>2
  <2> QED  BY <2>7, <2>8, <2>9, <2>10
<1> QED  BY <1>10, <1>11 DEF RunqputPublish, Goto

\* The indices a cas takes from the queue of P q.
LEMMA OldIndices ==
  ASSUME TypeOK, NEW q \in Ps, IndexInv(q), NEW n \in Nat,
         Pos(head[q]) + n <= Pos(tail[q]),
         tail' = tail, runq' = runq, head' = [head EXCEPT ![q] = Add(head[q], n)]
  PROVE  /\ \A j \in 1..n : /\ Add(head[q], j-1) \in Int /\ Add(head[q], j-1) \in Indices(q)
                            /\ Add(head[q], j-1) \notin Indices(q)'
                            /\ \A k \in 1..n : Add(head[q], j-1) = Add(head[q], k-1) => j = k
         /\ \A i : i \in Indices(q) <=> i \in Indices(q)' \/ \E j \in 1..n : i = Add(head[q], j-1)
         /\ \A r \in Ps \ {q}, i \in Int, g \in Gs : InRunq(r, i, g)' <=> InRunq(r, i, g)
<1>1. /\ Pos(head'[q]) = Pos(head[q]) + n
      /\ Indices(q)' = {i \in Indices(q) : Pos(head'[q]) <= Pos(i)}
  BY Removed
<1>2. /\ head[q] \in 0..Wrap-1 /\ tail[q] \in 0..Wrap-1 /\ Pos(head[q]) \in Nat
      /\ Pos(tail[q]) \in Nat /\ Wrap \in Nat
  BY Positions, Sizes
<1>3. \A j \in 1..n : /\ Add(head[q], j-1) \in Indices(q) /\ Add(head[q], j-1) \in 0..Wrap-1
                      /\ Pos(Add(head[q], j-1)) = Pos(head[q]) + (j-1)
  BY RingItems
<1>4. ASSUME NEW j \in 1..n
      PROVE  /\ Add(head[q], j-1) \in Int /\ Add(head[q], j-1) \in Indices(q)
             /\ Add(head[q], j-1) \notin Indices(q)'
             /\ \A k \in 1..n : Add(head[q], j-1) = Add(head[q], k-1) => j = k
  <2>1. Add(head[q], j-1) \in Int /\ Add(head[q], j-1) \in Indices(q)
    BY <1>2, <1>3
  <2>2. ~(Pos(head[q]) + n <= Pos(head[q]) + (j-1))
    BY <1>2
  <2>3. Add(head[q], j-1) \notin Indices(q)'
    BY <1>1, <1>3, <2>2
  <2>4. ASSUME NEW k \in 1..n, Add(head[q], j-1) = Add(head[q], k-1) PROVE j = k
    <3>1. Pos(head[q]) + (j-1) = Pos(head[q]) + (k-1)
      BY <1>3, <2>4
    <3> QED  BY <1>2, <3>1
  <2> QED  BY <2>1, <2>3, <2>4
<1>5. ASSUME NEW i \in Indices(q), i \notin Indices(q)' PROVE \E j \in 1..n : i = Add(head[q], j-1)
  <2>1. Indices(q) = {l \in 0..Wrap-1 : Pos(head[q]) <= Pos(l) /\ Pos(l) < Pos(tail[q])}
    BY <1>2, IndicesFacts DEF IndexInv, Indices
  <2>2. i \in 0..Wrap-1 /\ Pos(head[q]) <= Pos(i) /\ Pos(i) \in Nat
    BY <2>1, PosAdd
  <2>3. Pos(i) < Pos(head[q]) + n
    BY <1>1, <1>2, <1>5, <2>2
  <2>4. PICK k \in Nat : k = Pos(i) - Pos(head[q])
    BY <1>2, <2>2
  <2>5. Add(head[q], k) = i
    BY <1>2, <2>2, <2>4, PosSub
  <2>6. k + 1 \in 1..n /\ (k + 1) - 1 = k
    BY <1>2, <2>2, <2>3, <2>4
  <2> QED  BY <2>5, <2>6
<1>6. \A i : i \in Indices(q)' => i \in Indices(q)
  BY <1>1
<1>7. \A r \in Ps \ {q}, i \in Int, g \in Gs : InRunq(r, i, g)' <=> InRunq(r, i, g)
  BY DEF InRunq, Indices, TypeOK
<1> QED  BY <1>4, <1>5, <1>6, <1>7

LEMMA RunqputSlowMoves ==
  ASSUME TypeOK, QueueInv, PlaceInv, NEW p \in Ps, RunqputSlow(p)
  PROVE  PlaceInv'
<1>1. /\ Putting(p) /\ IndexInv(p) /\ pc[p] = "slow"
      /\ Pos(h[p]) <= Pos(head[p]) /\ Pos(tail[p]) = Pos(h[p]) + Size
      /\ batch[p] = <<>> /\ gp[p] \in Gs
  BY DEF QueueInv, CallInv, RunqputSlow, Putting
<1>2. /\ Pos(tail[p]) \in Nat /\ Pos(head[p]) \in Nat /\ Pos(h[p]) \in Nat
      /\ Size \in Nat /\ Half \in Nat \ {0} /\ Size = Half + Half
  BY Positions, Sizes
<1>3. UNCHANGED <<tail, runq, sched, out, ret>>
  BY DEF RunqputSlow
<1>4. CASE /\ head[p] = h[p]
           /\ head' = [head EXCEPT ![p] = Add(h[p], Half)]
           /\ batch' = [batch EXCEPT ![p] =
                          Append([k \in 1..Half |-> runq[p][Add(h[p], k-1) % Size]], gp[p])]
           /\ gp' = [gp EXCEPT ![p] = NoG]
           /\ Goto(p, "glob")
  <2>1. PICK old : \A j \in 1..Half : old[j] = Add(head[p], j-1)
    <3>1. \A j \in 1..Half : [l \in 1..Half |-> Add(head[p], l-1)][j] = Add(head[p], j-1)
      OBVIOUS
    <3> QED  BY <3>1
  <2>2. Half \in Nat /\ Pos(head[p]) + Half <= Pos(tail[p]) /\ head' = [head EXCEPT ![p] = Add(head[p], Half)]
    BY <1>1, <1>2, <1>4
  <2>3. /\ \A j \in 1..Half : /\ old[j] \in Int /\ old[j] \in Indices(p) /\ old[j] \notin Indices(p)'
                              /\ \A k \in 1..Half : old[j] = old[k] => j = k
        /\ \A i : i \in Indices(p) <=> i \in Indices(p)' \/ \E j \in 1..Half : i = old[j]
        /\ \A q \in Ps \ {p}, i \in Int, g \in Gs : InRunq(q, i, g)' <=> InRunq(q, i, g)
    <3>1. /\ \A j \in 1..Half : /\ Add(head[p], j-1) \in Int /\ Add(head[p], j-1) \in Indices(p)
                                /\ Add(head[p], j-1) \notin Indices(p)'
                                /\ \A k \in 1..Half : Add(head[p], j-1) = Add(head[p], k-1) => j = k
          /\ \A i : i \in Indices(p) <=> i \in Indices(p)' \/ \E j \in 1..Half : i = Add(head[p], j-1)
          /\ \A q \in Ps \ {p}, i \in Int, g \in Gs : InRunq(q, i, g)' <=> InRunq(q, i, g)
      BY <1>1, <1>3, <2>2, OldIndices
    <3> QED  BY <2>1, <3>1
  <2>4. PICK f \in [1..Half -> Gs \cup {NoG}] :
          /\ \A j \in 1..Half : f[j] = runq[p][old[j] % Size]
          /\ batch' = [batch EXCEPT ![p] = Append(f, gp[p])]
    <3> DEFINE f == [k \in 1..Half |-> runq[p][Add(h[p], k-1) % Size]]
    <3>1. \A j \in 1..Half : runq[p][old[j] % Size] \in Gs
      BY <1>1, <2>3 DEF IndexInv
    <3>2. \A j \in 1..Half : f[j] = runq[p][old[j] % Size]
      BY <1>4, <2>1
    <3>3. f \in [1..Half -> Gs \cup {NoG}]
      BY <1>4, <2>1, <3>1
    <3> HIDE DEF f
    <3> QED  BY <1>4, <3>2, <3>3 DEF f
  <2>5. /\ f \in Seq(Gs \cup {NoG}) /\ Len(f) = Half
        /\ DOMAIN Append(f, gp[p]) = 1..Half+1
        /\ \A j \in 1..Half : Append(f, gp[p])[j] = f[j]
        /\ Append(f, gp[p])[Half+1] = gp[p]
    <3>1. f \in Seq(Gs \cup {NoG}) /\ Len(f) = Half
      BY <1>2, <2>4
    <3> QED  BY <1>1, <1>2, <3>1
  <2>6. /\ batch'[p] = Append(f, gp[p]) /\ pc'[p] = "glob" /\ gp'[p] = NoG
        /\ \A q \in Ps \ {p} : batch'[q] = batch[q] /\ pc'[q] = pc[q] /\ gp'[q] = gp[q]
    <3>1. batch'[p] = Append(f, gp[p]) /\ \A q \in Ps \ {p} : batch'[q] = batch[q]
      <4> DEFINE b == Append(f, gp[p])
      <4>1. batch' = [batch EXCEPT ![p] = b] /\ batch \in [Ps -> Seq(Gs \cup {NoG})]
        BY <2>4 DEF TypeOK
      <4> HIDE DEF b
      <4>2. batch'[p] = b /\ \A q \in Ps \ {p} : batch'[q] = batch[q]
        BY <4>1
      <4> QED  BY <4>2 DEF b
    <3>2. pc' = [pc EXCEPT ![p] = "glob"] /\ gp' = [gp EXCEPT ![p] = NoG]
      BY <1>4 DEF Goto
    <3>3. pc'[p] = "glob" /\ gp'[p] = NoG /\ \A q \in Ps \ {p} : pc'[q] = pc[q] /\ gp'[q] = gp[q]
      BY <3>2 DEF TypeOK
    <3> QED  BY <3>1, <3>3
  <2>7. \A q \in Ps \ {p}, k \in Int, g \in Gs : InBatch(q, k, g)' <=> InBatch(q, k, g)
    BY <2>6 DEF InBatch, Taken
  <2>8. \A k \in Int, g \in Gs : ~InBatch(p, k, g)
    BY <1>1 DEF InBatch
  <2>9. \A j \in 1..Half, g \in Gs : InBatch(p, j, g)' <=> InRunq(p, old[j], g)
    <3>1. \A j \in 1..Half : j \in DOMAIN batch'[p] /\ batch'[p][j] = runq[p][old[j] % Size]
      BY <1>2, <2>4, <2>5, <2>6
    <3> QED  BY <2>3, <2>6, <3>1 DEF InBatch, InRunq, Taken
  <2>10. \A g \in Gs : InBatch(p, Half+1, g)' <=> gp[p] = g
    <3>1. Half+1 \in DOMAIN batch'[p] /\ batch'[p][Half+1] = gp[p]
      BY <1>2, <2>5, <2>6
    <3> QED  BY <2>6, <3>1 DEF InBatch, Taken
  <2>11. \A k \in Int, g \in Gs : InBatch(p, k, g)' => k \in 1..Half \/ k = Half+1
    <3>1. \A k \in Int : k \in 1..Half+1 => k \in 1..Half \/ k = Half+1
      BY <1>2
    <3> QED  BY <2>5, <2>6, <3>1 DEF InBatch
  <2>12. \A i \in Int, g \in Gs : InRunq(p, i, g)' <=>
            InRunq(p, i, g) /\ \A j \in 1..Half : i # old[j]
    BY <1>3, <2>3 DEF InRunq
  <2>13. \A k \in Int, g \in Gs : InSched(k, g)' <=> InSched(k, g)
    BY <1>3 DEF InSched
  <2>14. Half+1 \in Int /\ Half+1 \notin 1..Half /\ \A j \in 1..Half : j \in Int
    BY <1>2
  <2> SUFFICES ASSUME NEW g \in Gs PROVE \E x \in Place : Only(x, g)'
    BY DEF PlaceInv
  <2>15. PICK x \in Place : Only(x, g)
    BY DEF PlaceInv
  <2>16. g # NoG
    BY NoGAssumption
  <2>17. CASE gp[p] = g
    <3>1. Only(<<"gp", p, 0>>, g)
      BY <2>15, <2>17 DEF Only
    <3>2. \A k \in Int : InBatch(p, k, g)' <=> k = Half+1
      BY <2>3, <2>9, <2>10, <2>11, <2>14, <2>17, <3>1 DEF Only
    <3>3. \A i \in Int : ~InRunq(p, i, g)'
      BY <2>12, <3>1 DEF Only
    <3>4. g \notin out' /\ \A k \in Int : ~InSched(k, g)'
      BY <1>3, <2>13, <3>1 DEF Only
    <3>5. \A q \in Ps : gp'[q] # g /\ ret'[q] # g
      BY <1>3, <2>6, <2>16, <3>1 DEF Only
    <3>6. \A q \in Ps, i \in Int : ~InRunq(q, i, g)'
      BY <2>3, <3>1, <3>3 DEF Only
    <3>7. \A q \in Ps, k \in Int : InBatch(q, k, g)' <=> q = p /\ k = Half+1
      BY <2>7, <3>1, <3>2 DEF Only
    <3> QED  BY <2>14, <3>4, <3>5, <3>6, <3>7, NowBatch
  <2>18. ASSUME NEW j0 \in 1..Half, InRunq(p, old[j0], g)
         PROVE  \E x1 \in Place : Only(x1, g)'
    <3>1. Only(<<"runq", p, old[j0]>>, g)
      BY <2>3, <2>15, <2>18 DEF Only
    <3>2. \A k \in Int : InBatch(p, k, g)' <=> k = j0
      <4>1. \A j \in 1..Half : InRunq(p, old[j], g) <=> j = j0
        BY <2>3, <3>1 DEF Only
      <4>2. gp[p] # g
        BY <3>1 DEF Only
      <4> QED  BY <2>9, <2>10, <2>11, <2>14, <4>1, <4>2
    <3>3. \A i \in Int : ~InRunq(p, i, g)'
      BY <2>12, <3>1 DEF Only
    <3>4. g \notin out' /\ \A k \in Int : ~InSched(k, g)'
      BY <1>3, <2>13, <3>1 DEF Only
    <3>5. \A q \in Ps : gp'[q] # g /\ ret'[q] # g
      BY <1>3, <2>6, <2>16, <3>1 DEF Only
    <3>6. \A q \in Ps, i \in Int : ~InRunq(q, i, g)'
      BY <2>3, <3>1, <3>3 DEF Only
    <3>7. \A q \in Ps, k \in Int : InBatch(q, k, g)' <=> q = p /\ k = j0
      BY <2>7, <3>1, <3>2 DEF Only
    <3> QED  BY <2>14, <3>4, <3>5, <3>6, <3>7, NowBatch
  <2>19. CASE gp[p] # g /\ \A j \in 1..Half : ~InRunq(p, old[j], g)
    <3>1. \A k \in Int : ~InBatch(p, k, g)'
      BY <2>9, <2>10, <2>11, <2>19
    <3>2. \A i \in Int : InRunq(p, i, g)' <=> InRunq(p, i, g)
      BY <2>12, <2>19
    <3>3. Only(x, g)'
      BY <1>3, <2>3, <2>6, <2>7, <2>8, <2>13, <2>15, <2>16, <2>19, <3>1, <3>2 DEF Only
    <3> QED  BY <3>3
  <2> QED  BY <2>17, <2>18, <2>19
<1>5. CASE /\ head[p] # h[p]
           /\ Goto(p, "put")
           /\ UNCHANGED <<head, batch, gp>>
  <2>1. \A q \in Ps \ {p} : pc'[q] = pc[q]
    BY <1>5 DEF Goto, TypeOK
  <2>2. \A q \in Ps, k \in Int, g \in Gs : InBatch(q, k, g)' <=> InBatch(q, k, g)
    BY <1>1, <1>5, <2>1, SameBatch
  <2> QED  BY <1>3, <1>5, <2>2, SameRunq, Steady
<1> QED  BY <1>4, <1>5 DEF RunqputSlow

LEMMA SameTaken ==
  ASSUME UNCHANGED batch, \A q \in Ps : Taken(q)' <=> Taken(q)
  PROVE  \A q \in Ps, k \in Int, g \in Gs : InBatch(q, k, g)' <=> InBatch(q, k, g)
  BY DEF InBatch

\* A store beside what is between head and tail.
LEMMA SameSlots ==
  ASSUME TypeOK, QueueInv, NEW p \in Ps, StepOf(p), UNCHANGED <<head, tail>>
  PROVE  \A q \in Ps, i \in Int, g \in Gs : InRunq(q, i, g)' <=> InRunq(q, i, g)
<1> SUFFICES ASSUME NEW q \in Ps, NEW i \in Int, NEW g \in Gs
             PROVE  InRunq(q, i, g)' <=> InRunq(q, i, g)
  OBVIOUS
<1>1. Advances(q)
  BY BystanderAdvances DEF StepOf
<1>2. Indices(q) = {l \in 0..Wrap-1 : Pos(head[q]) <= Pos(l) /\ Pos(l) < Pos(tail[q])}
  BY Positions, IndicesFacts, SMTT(30) DEF QueueInv, IndexInv, Indices
<1>3. Indices(q)' = Indices(q)
  BY DEF Indices
<1>4. i \in Indices(q) => runq'[q][i % Size] = runq[q][i % Size]
  BY <1>1, <1>2 DEF Advances
<1> QED  BY <1>3, <1>4 DEF InRunq

LEMMA RunqputLoadMoves ==
  ASSUME TypeOK, QueueInv, PlaceInv, NEW p \in Ps, RunqputLoad(p)
  PROVE  PlaceInv'
<1>1. UNCHANGED <<head, tail, runq, sched, out, gp, ret, batch>>
  BY DEF RunqputLoad
<1>2. \A q \in Ps : Taken(q)' <=> Taken(q)
  BY DEF RunqputLoad, Goto, Taken, TypeOK
<1> QED  BY <1>1, <1>2, SameRunq, SameTaken, Steady

LEMMA RunqputWriteMoves ==
  ASSUME TypeOK, QueueInv, PlaceInv, NEW p \in Ps, RunqputWrite(p)
  PROVE  PlaceInv'
<1>1. UNCHANGED <<head, tail, sched, out, gp, ret, batch>>
  BY DEF RunqputWrite, locals
<1>2. \A q \in Ps : Taken(q)' <=> Taken(q)
  BY DEF RunqputWrite, Goto, Taken, TypeOK
<1>3. StepOf(p)
  BY RunqputWriteKept
<1> QED  BY <1>1, <1>2, <1>3, SameSlots, SameTaken, Steady

LEMMA RunqgetMoves ==
  ASSUME TypeOK, QueueInv, PlaceInv, NEW p \in Ps, Runqget(p)
  PROVE  PlaceInv'
<1>1. UNCHANGED <<head, tail, runq, sched, out, gp, ret, batch>>
  BY DEF Runqget
<1>2. \A q \in Ps : Taken(q)' <=> Taken(q)
  BY DEF Runqget, Goto, Taken, TypeOK
<1> QED  BY <1>1, <1>2, SameRunq, SameTaken, Steady

LEMMA RunqstealMoves ==
  ASSUME TypeOK, QueueInv, PlaceInv, NEW p \in Ps, Runqsteal(p)
  PROVE  PlaceInv'
<1>1. UNCHANGED <<head, tail, runq, sched, out, gp, ret, batch>>
  BY DEF Runqsteal
<1>2. \A q \in Ps : Taken(q)' <=> Taken(q)
  BY DEF Runqsteal, Goto, Taken, TypeOK
<1> QED  BY <1>1, <1>2, SameRunq, SameTaken, Steady

LEMMA GrabTailMoves ==
  ASSUME TypeOK, QueueInv, PlaceInv, NEW p \in Ps, GrabTail(p)
  PROVE  PlaceInv'
<1>1. UNCHANGED <<head, tail, runq, sched, out, gp, ret, batch>>
  BY DEF GrabTail
<1>2. batch[p] = <<>>
  BY DEF GrabTail, QueueInv, CallInv
<1>3. \A q \in Ps \ {p} : pc'[q] = pc[q]
  BY DEF GrabTail, Goto, TypeOK
<1>4. \A q \in Ps, k \in Int, g \in Gs : InBatch(q, k, g)' <=> InBatch(q, k, g)
  BY <1>1, <1>2, <1>3, SameBatch
<1> QED  BY <1>1, <1>4, SameRunq, Steady

LEMMA GrabCopyMoves ==
  ASSUME TypeOK, QueueInv, PlaceInv, NEW p \in Ps, GrabCopy(p)
  PROVE  PlaceInv'
<1>1. UNCHANGED <<head, tail, runq, sched, out, gp, ret>>
  BY DEF GrabCopy
<1>2. PICK b : batch' = [batch EXCEPT ![p] = b]
  BY DEF GrabCopy
<1>3. PICK l \in {"copy", "cas"} : pc' = [pc EXCEPT ![p] = l]
  BY DEF GrabCopy, Goto
<1>4. \A q \in Ps \ {p} : pc'[q] = pc[q] /\ batch'[q] = batch[q]
  BY <1>2, <1>3 DEF TypeOK
<1>5. pc[p] = "copy" /\ pc'[p] \in {"copy", "cas"}
  BY <1>3 DEF GrabCopy, TypeOK
<1>6. \A q \in Ps, k \in Int, g \in Gs : InBatch(q, k, g)' <=> InBatch(q, k, g)
  BY <1>4, <1>5, SameBatch
<1> QED  BY <1>1, <1>6, SameRunq, Steady

LEMMA StealWriteMoves ==
  ASSUME TypeOK, QueueInv, PlaceInv, NEW p \in Ps, StealWrite(p)
  PROVE  PlaceInv'
<1>1. UNCHANGED <<head, tail, sched>> /\ Stole(p) /\ pc[p] = "stolen"
  BY DEF StealWrite, QueueInv, CallInv
<1>2. CASE Len(batch[p]) = 0 /\ Return(p) /\ UNCHANGED runq
  <2>1. gp[p] = NoG /\ batch[p] \in Seq(Gs)
    BY <1>1 DEF Stole, Alone
  <2>2. \A k \in Int, g \in Gs : ~InBatch(p, k, g)
    BY <1>2, <2>1 DEF InBatch
  <2> QED  BY <1>1, <1>2, <2>1, <2>2, SameRunq, Returned
<1>3. CASE pc' = [pc EXCEPT ![p] = "spublish"] /\ UNCHANGED <<out, gp, ret, batch>>
  <2>1. \A q \in Ps : Taken(q)' <=> Taken(q)
    BY <1>1, <1>3 DEF Taken, TypeOK
  <2>2. StepOf(p)
    BY StealWriteKept
  <2> QED  BY <1>1, <1>3, <2>1, <2>2, SameSlots, SameTaken, Steady
<1> QED  BY <1>2, <1>3 DEF StealWrite, Goto

LEMMA StealPublishMoves ==
  ASSUME TypeOK, QueueInv, PlaceInv, NEW p \in Ps, StealPublish(p)
  PROVE  PlaceInv'
<1>1. PICK b \in Seq(Gs), n \in Nat :
        /\ b = batch[p] /\ n = Len(b) /\ gp[p] = NoG /\ Taken(p) /\ IndexInv(p) /\ t[p] = tail[p]
        /\ Pos(tail[p]) + n <= MaxPuts[p] + Size
        /\ \A j \in 1..n : runq[p][Add(tail[p], j-1) % Size] = b[j]
  <2>1. /\ Stole(p) /\ IndexInv(p) /\ pc[p] = "spublish" /\ t[p] = tail[p]
        /\ \A j \in 1..Len(batch[p]) : runq[p][Add(tail[p], j-1) % Size] = batch[p][j]
    BY DEF QueueInv, CallInv, StealPublish
  <2>2. Coming(p) = Len(batch[p]) /\ Taken(p)
    BY <2>1 DEF Coming, Taken
  <2>3. Pos(tail[p]) + Len(batch[p]) <= MaxPuts[p] + Size
    BY <2>1, <2>2 DEF IndexInv
  <2>4. batch[p] \in Seq(Gs) /\ gp[p] = NoG
    BY <2>1 DEF Stole, Alone
  <2>5. Len(batch[p]) \in Nat
    BY <2>4
  <2> QED  BY <2>1, <2>2, <2>3, <2>4, <2>5
<1>2. /\ head' = head /\ runq' = runq /\ sched' = sched /\ Return(p)
      /\ tail' = [tail EXCEPT ![p] = Add(tail[p], n)]
  BY <1>1 DEF StealPublish
<1>3. PICK new : \A j \in 1..n : new[j] = Add(tail[p], j-1)
  <2>1. \A j \in 1..n : [l \in 1..n |-> Add(tail[p], l-1)][j] = Add(tail[p], j-1)
    OBVIOUS
  <2> QED  BY <2>1
<1>4. /\ \A j \in 1..n : /\ new[j] \in Int /\ new[j] \notin Indices(p) /\ new[j] \in Indices(p)'
                         /\ \A k \in 1..n : new[j] = new[k] => j = k
      /\ \A i : i \in Indices(p)' <=> i \in Indices(p) \/ \E j \in 1..n : i = new[j]
      /\ \A q \in Ps \ {p}, i \in Int, g \in Gs : InRunq(q, i, g)' <=> InRunq(q, i, g)
  <2>1. /\ \A j \in 1..n : /\ Add(tail[p], j-1) \in Int /\ Add(tail[p], j-1) \notin Indices(p)
                           /\ Add(tail[p], j-1) \in Indices(p)'
                           /\ \A k \in 1..n : Add(tail[p], j-1) = Add(tail[p], k-1) => j = k
        /\ \A i : i \in Indices(p)' <=> i \in Indices(p) \/ \E j \in 1..n : i = Add(tail[p], j-1)
        /\ \A q \in Ps \ {p}, i \in Int, g \in Gs : InRunq(q, i, g)' <=> InRunq(q, i, g)
    BY <1>1, <1>2, NewIndices, ZenonT(60)
  <2>2. \A j \in 1..n : new[j] \in Int /\ new[j] \notin Indices(p) /\ new[j] \in Indices(p)'
    BY <1>3, <2>1
  <2>3. \A j \in 1..n : \A k \in 1..n : new[j] = new[k] => j = k
    BY <1>3, <2>1
  <2>4. \A i : (\E j \in 1..n : i = Add(tail[p], j-1)) <=> (\E j \in 1..n : i = new[j])
    BY <1>3
  <2>5. \A i : i \in Indices(p)' <=> i \in Indices(p) \/ \E j \in 1..n : i = new[j]
    BY <2>1, <2>4
  <2> QED  BY <2>1, <2>2, <2>3, <2>5
<1>5. \A j \in 1..n, g \in Gs : InBatch(p, j, g) <=> runq[p][new[j] % Size] = g
  <2>1. \A j \in 1..n : j \in DOMAIN batch[p] /\ batch[p][j] = runq[p][new[j] % Size]
    BY <1>1, <1>3
  <2> QED  BY <1>1, <2>1 DEF InBatch
<1>6. \A k \in Int, g \in Gs : InBatch(p, k, g) => k \in 1..n
  BY <1>1 DEF InBatch
<1>7. \A i \in Int, g \in Gs : InRunq(p, i, g)' <=>
         InRunq(p, i, g) \/ \E j \in 1..n : i = new[j] /\ InBatch(p, j, g)
  BY <1>2, <1>4, <1>5 DEF InRunq
<1>8. \A k \in Int, g \in Gs : InSched(k, g)' <=> InSched(k, g)
  BY <1>2 DEF InSched
<1> SUFFICES ASSUME NEW g \in Gs PROVE \E x \in Place : Only(x, g)'
  BY DEF PlaceInv
<1>9. PICK x \in Place : Only(x, g)
  BY DEF PlaceInv
<1>10. /\ g \in out' <=> g \in out \/ ret[p] = g
       /\ gp'[p] # g /\ ret'[p] # g /\ gp[p] # g
       /\ \A q \in Ps \ {p} : gp'[q] = gp[q] /\ ret'[q] = ret[q]
       /\ \A q \in Ps \ {p}, k \in Int : InBatch(q, k, g)' <=> InBatch(q, k, g)
       /\ \A k \in Int : ~InBatch(p, k, g)'
  BY <1>1, <1>2, ReturnMoves, NoGAssumption
<1>11. ASSUME NEW j0 \in 1..n, InBatch(p, j0, g) PROVE \E x1 \in Place : Only(x1, g)'
  <2>0. j0 \in Int
    OBVIOUS
  <2>1. Only(<<"batch", p, j0>>, g)
    BY <1>9, <1>11, <2>0 DEF Only
  <2>2. \A j \in 1..n : InBatch(p, j, g) <=> j = j0
    BY <2>1 DEF Only
  <2>3. \A q \in Ps, i \in Int : ~InRunq(q, i, g)
    BY <2>1 DEF Only
  <2>4. g \notin out' /\ \A k \in Int : ~InSched(k, g)'
    BY <1>8, <1>10, <2>1 DEF Only
  <2>5. \A q \in Ps : gp'[q] # g /\ ret'[q] # g
    BY <1>10, <2>1 DEF Only
  <2>6. \A q \in Ps, k \in Int : ~InBatch(q, k, g)'
    BY <1>10, <2>1 DEF Only
  <2>7. \A q \in Ps, i \in Int : InRunq(q, i, g)' <=> q = p /\ i = new[j0]
    BY <1>4, <1>7, <2>2, <2>3
  <2>8. new[j0] \in Int
    BY <1>4
  <2> QED  BY <2>4, <2>5, <2>6, <2>7, <2>8, NowRunq
<1>12. CASE ret[p] = g
  <2>1. Only(<<"ret", p, 0>>, g)
    BY <1>9, <1>12 DEF Only
  <2>2. \A q \in Ps, i \in Int : ~InRunq(q, i, g)'
    BY <1>4, <1>7, <2>1 DEF Only
  <2>3. Only(<<"out", NoG, 0>>, g)'
    BY <1>8, <1>10, <1>12, <2>1, <2>2 DEF Only
  <2> QED  BY <2>3 DEF Place
<1>13. CASE ret[p] # g /\ \A j \in 1..n : ~InBatch(p, j, g)
  <2>1. \A q \in Ps, k \in Int : InBatch(q, k, g)' <=> InBatch(q, k, g)
    BY <1>6, <1>10, <1>13
  <2>2. \A q \in Ps, i \in Int : InRunq(q, i, g)' <=> InRunq(q, i, g)
    BY <1>4, <1>7, <1>13
  <2>3. Only(x, g)'
    BY <1>8, <1>9, <1>10, <1>13, <2>1, <2>2 DEF Only
  <2> QED  BY <2>3
<1> QED  BY <1>11, <1>12, <1>13

LEMMA GrabCasMoves ==
  ASSUME TypeOK, QueueInv, PlaceInv, NEW p \in Ps, GrabCas(p)
  PROVE  PlaceInv'
<1>1. /\ Grabbing(p) /\ Stealing(p) /\ pc[p] = "cas" /\ Len(batch[p]) = GrabSize(h[p], t[p])
      /\ ret[p] = NoG
  BY DEF QueueInv, CallInv, GrabCas, Grabbing, Stealing
<1>2. PICK v \in Ps, b \in Seq(Gs \cup {NoG}), n \in Nat \ {0} :
        v = victim[p] /\ b = batch[p] /\ n = Len(b) /\ n = GrabSize(h[p], t[p])
  <2>1. Len(batch[p]) \in Nat \ {0}
    <3>1. Half \in Nat
      BY Sizes
    <3> QED  BY <1>1, <3>1 DEF Grabbing
  <2> QED  BY <1>1, <2>1, Positions
<1>3. UNCHANGED <<tail, runq, sched, out, gp>>
  BY DEF GrabCas
<1>4. \A k \in Int, g \in Gs : ~InBatch(p, k, g)
  BY <1>1 DEF InBatch, Taken
<1>5. CASE /\ head[v] = h[p]
           /\ head' = [head EXCEPT ![v] = Add(h[p], n)]
           /\ ret' = [ret EXCEPT ![p] = Last(b)]
           /\ batch' = [batch EXCEPT ![p] = Front(b)]
           /\ pc' = [pc EXCEPT ![p] = "stolen"]
  <2>1. /\ IndexInv(v) /\ head' = [head EXCEPT ![v] = Add(head[v], n)]
        /\ Pos(head[v]) + n <= Pos(tail[v])
    <3>1. Pos(h[p]) <= Pos(t[p]) /\ Pos(t[p]) <= Pos(tail[v])
      BY <1>1, <1>2 DEF Grabbing
    <3>2. /\ Pos(h[p]) \in Nat /\ Pos(t[p]) \in Nat /\ h[p] \in 0..Wrap-1 /\ t[p] \in 0..Wrap-1
      BY Positions
    <3>3. Pos(tail[v]) \in Nat
      BY Positions
    <3>4. Pos(h[p]) + n <= Pos(t[p])
      BY <1>2, <3>1, <3>2, GrabFacts
    <3> QED  BY <1>5, <3>1, <3>2, <3>3, <3>4 DEF QueueInv
  <2>2. PICK old : \A j \in 1..n : old[j] = Add(head[v], j-1)
    <3>1. \A j \in 1..n : [l \in 1..n |-> Add(head[v], l-1)][j] = Add(head[v], j-1)
      OBVIOUS
    <3> QED  BY <3>1
  <2>3. /\ \A j \in 1..n : /\ old[j] \in Int /\ old[j] \in Indices(v) /\ old[j] \notin Indices(v)'
                           /\ \A k \in 1..n : old[j] = old[k] => j = k
        /\ \A i : i \in Indices(v) <=> i \in Indices(v)' \/ \E j \in 1..n : i = old[j]
        /\ \A q \in Ps \ {v}, i \in Int, g \in Gs : InRunq(q, i, g)' <=> InRunq(q, i, g)
    <3>0. n \in Nat
      OBVIOUS
    <3>1. /\ \A j \in 1..n : /\ Add(head[v], j-1) \in Int /\ Add(head[v], j-1) \in Indices(v)
                             /\ Add(head[v], j-1) \notin Indices(v)'
                             /\ \A k \in 1..n : Add(head[v], j-1) = Add(head[v], k-1) => j = k
          /\ \A i : i \in Indices(v) <=> i \in Indices(v)' \/ \E j \in 1..n : i = Add(head[v], j-1)
          /\ \A q \in Ps \ {v}, i \in Int, g \in Gs : InRunq(q, i, g)' <=> InRunq(q, i, g)
      BY <1>3, <2>1, <3>0, OldIndices
    <3>2. \A j \in 1..n : old[j] \in Int /\ old[j] \in Indices(v) /\ old[j] \notin Indices(v)'
      BY <2>2, <3>1
    <3>3. \A j \in 1..n : \A k \in 1..n : old[j] = old[k] => j = k
      BY <2>2, <3>1
    <3>4. \A i : (\E j \in 1..n : i = Add(head[v], j-1)) <=> (\E j \in 1..n : i = old[j])
      BY <2>2
    <3>5. \A i : i \in Indices(v) <=> i \in Indices(v)' \/ \E j \in 1..n : i = old[j]
      BY <3>1, <3>4
    <3> QED  BY <3>1, <3>2, <3>3, <3>5
  <2>4. \A j \in 1..n : b[j] = runq[v][old[j] % Size]
    BY <1>1, <1>2, <1>5, <2>2 DEF Grabbing
  <2>5. /\ Last(b) = b[n] /\ n \in 1..n /\ DOMAIN Front(b) = 1..n-1
        /\ \A j \in 1..n-1 : Front(b)[j] = b[j] /\ j \in 1..n
    <3>1. Front(b) = [j \in 1..n-1 |-> b[j]]
      BY <1>2 DEF Front
    <3>2. Last(b) = b[n]
      BY <1>2 DEF Last
    <3> QED  BY <3>1, <3>2
  <2>6. /\ ret'[p] = b[n] /\ pc'[p] = "stolen" /\ DOMAIN batch'[p] = 1..n-1
        /\ \A j \in 1..n-1 : batch'[p][j] = b[j]
        /\ \A q \in Ps \ {p} : ret'[q] = ret[q] /\ pc'[q] = pc[q] /\ batch'[q] = batch[q]
    <3> DEFINE f == Front(b)
    <3>1. batch' = [batch EXCEPT ![p] = f]
      BY <1>5
    <3> HIDE DEF f
    <3>2. batch'[p] = f /\ \A q \in Ps \ {p} : batch'[q] = batch[q]
      BY <3>1 DEF TypeOK
    <3>3. ret'[p] = b[n] /\ pc'[p] = "stolen" /\ \A q \in Ps \ {p} : ret'[q] = ret[q] /\ pc'[q] = pc[q]
      BY <1>5, <2>5 DEF TypeOK
    <3> QED  BY <2>5, <3>2, <3>3 DEF f
  <2>7. \A g \in Gs : ret'[p] = g <=> InRunq(v, old[n], g)
    BY <2>3, <2>4, <2>5, <2>6 DEF InRunq
  <2>8. \A k \in Int, g \in Gs : InBatch(p, k, g)' <=> k \in 1..n-1 /\ InRunq(v, old[k], g)
    <3>1. Taken(p)'
      BY <2>6 DEF Taken
    <3>2. \A k \in 1..n-1 : k \in 1..n /\ batch'[p][k] = runq[v][old[k] % Size] /\ old[k] \in Indices(v)
      BY <2>3, <2>4, <2>5, <2>6
    <3> QED  BY <2>6, <3>1, <3>2 DEF InBatch, InRunq
  <2>9. \A q \in Ps \ {p}, k \in Int, g \in Gs : InBatch(q, k, g)' <=> InBatch(q, k, g)
    BY <2>6 DEF InBatch, Taken
  <2>10. \A i \in Int, g \in Gs : InRunq(v, i, g)' <=> InRunq(v, i, g) /\ \A j \in 1..n : i # old[j]
    BY <1>3, <2>3 DEF InRunq
  <2>11. \A k \in Int, g \in Gs : InSched(k, g)' <=> InSched(k, g)
    BY <1>3 DEF InSched
  <2> SUFFICES ASSUME NEW g \in Gs PROVE \E x \in Place : Only(x, g)'
    BY DEF PlaceInv
  <2>12. PICK x \in Place : Only(x, g)
    BY DEF PlaceInv
  <2>13. ASSUME NEW j0 \in 1..n, InRunq(v, old[j0], g) PROVE \E x1 \in Place : Only(x1, g)'
    <3>1. Only(<<"runq", v, old[j0]>>, g)
      BY <2>3, <2>12, <2>13 DEF Only
    <3>2. \A j \in 1..n : InRunq(v, old[j], g) <=> j = j0
      BY <2>3, <3>1 DEF Only
    <3>3. g \notin out' /\ \A k \in Int : ~InSched(k, g)'
      BY <1>3, <2>11, <3>1 DEF Only
    <3>4. \A q \in Ps : gp'[q] # g /\ ret[q] # g
      BY <1>3, <3>1 DEF Only
    <3>5. \A q \in Ps, i \in Int : ~InRunq(q, i, g)'
      BY <2>3, <2>10, <3>1 DEF Only
    <3>6. \A q \in Ps, k \in Int : ~InBatch(q, k, g)
      BY <3>1 DEF Only
    <3>7. CASE j0 = n
      <4>1. ret'[p] = g /\ \A q \in Ps \ {p} : ret'[q] # g
        BY <2>6, <2>7, <2>13, <3>4, <3>7
      <4>2. \A k \in 1..n-1 : k \in 1..n /\ k # n
        OBVIOUS
      <4>3. \A k \in Int : ~InBatch(p, k, g)'
        BY <2>8, <3>2, <3>7, <4>2
      <4>4. Only(<<"ret", p, 0>>, g)'
        BY <2>9, <3>3, <3>4, <3>5, <3>6, <4>1, <4>3 DEF Only
      <4> QED  BY <4>4 DEF Place
    <3>8. CASE j0 # n
      <4>1. j0 \in 1..n-1 /\ j0 \in Int
        BY <3>8
      <4>2. \A q \in Ps : ret'[q] # g
        BY <2>5, <2>6, <2>7, <3>2, <3>4, <3>8
      <4>3. \A k \in 1..n-1 : k \in 1..n
        OBVIOUS
      <4>4. \A k \in Int : InBatch(p, k, g)' <=> k = j0
        BY <2>8, <3>2, <4>1, <4>3
      <4>5. \A q \in Ps, k \in Int : InBatch(q, k, g)' <=> q = p /\ k = j0
        BY <2>9, <3>6, <4>4
      <4> QED  BY <3>3, <3>4, <3>5, <4>1, <4>2, <4>5, NowBatch
    <3> QED  BY <3>7, <3>8
  <2>14. CASE \A j \in 1..n : ~InRunq(v, old[j], g)
    <3>1. g # NoG
      BY NoGAssumption
    <3>2. \A q \in Ps : ret'[q] = g <=> ret[q] = g
      BY <1>1, <2>5, <2>6, <2>7, <2>14, <3>1
    <3>3. \A k \in 1..n-1 : k \in 1..n
      OBVIOUS
    <3>4. \A q \in Ps, k \in Int : InBatch(q, k, g)' <=> InBatch(q, k, g)
      BY <1>4, <2>8, <2>9, <2>14, <3>3
    <3>5. \A q \in Ps, i \in Int : InRunq(q, i, g)' <=> InRunq(q, i, g)
      BY <2>3, <2>10, <2>14
    <3>6. Only(x, g)'
      BY <1>3, <2>11, <2>12, <3>2, <3>4, <3>5 DEF Only
    <3> QED  BY <3>6
  <2> QED  BY <2>13, <2>14
<1>6. CASE /\ batch' = [batch EXCEPT ![p] = <<>>]
           /\ pc' = [pc EXCEPT ![p] = "grab"]
           /\ UNCHANGED <<head, ret>>
  <2>1. \A q \in Ps \ {p} : pc'[q] = pc[q] /\ batch'[q] = batch[q]
    BY <1>6 DEF TypeOK
  <2>2. batch'[p] = <<>>
    BY <1>6 DEF TypeOK
  <2>3. \A q \in Ps, k \in Int, g \in Gs : InBatch(q, k, g)' <=> InBatch(q, k, g)
    BY <1>1, <2>1, <2>2, SameBatch
  <2> QED  BY <1>3, <1>6, <2>3, SameRunq, Steady
<1> QED  BY <1>2, <1>5, <1>6 DEF GrabCas, Goto

LEMMA RunqputGlobMoves ==
  ASSUME TypeOK, QueueInv, PlaceInv, NEW p \in Ps, RunqputGlob(p)
  PROVE  PlaceInv'
<1>1. PICK b \in Seq(Gs), n \in Nat : b = batch[p] /\ n = Len(b) /\ gp[p] = NoG /\ Taken(p)
  <2>1. batch[p] \in Seq(Gs) /\ gp[p] = NoG /\ Taken(p)
    BY DEF QueueInv, CallInv, RunqputGlob, Alone, Taken
  <2>2. Len(batch[p]) \in Nat
    BY <2>1
  <2> QED  BY <2>1, <2>2
<1>2. PICK s \in Seq(Gs), m \in Nat : s = sched /\ m = Len(s)
  <2>1. sched \in Seq(Gs)
    BY DEF TypeOK
  <2> QED  BY <2>1
<1>3. /\ Return(p) /\ UNCHANGED <<head, tail, runq>> /\ sched' = s \o b
  BY <1>1, <1>2 DEF RunqputGlob
<1>4. /\ DOMAIN (s \o b) = 1..m+n
      /\ \A k \in 1..m : (s \o b)[k] = s[k]
      /\ \A j \in 1..n : (s \o b)[m+j] = b[j]
  BY <1>1, <1>2
<1>5. \A k \in 1..m, g \in Gs : InSched(k, g)' <=> InSched(k, g)
  <2>1. \A k \in 1..m : k \in DOMAIN sched' /\ sched'[k] = sched[k] /\ k \in DOMAIN sched
    BY <1>2, <1>3, <1>4
  <2> QED  BY <2>1 DEF InSched
<1>6. \A j \in 1..n, g \in Gs : InSched(m+j, g)' <=> InBatch(p, j, g)
  <2>1. \A j \in 1..n : m+j \in DOMAIN sched' /\ sched'[m+j] = batch[p][j] /\ j \in DOMAIN batch[p]
    BY <1>1, <1>3, <1>4
  <2> QED  BY <1>1, <2>1 DEF InSched, InBatch
<1>7. \A k \in Int, g \in Gs : InSched(k, g)' => k \in 1..m \/ \E j \in 1..n : k = m+j
  <2>1. \A k \in Int : k \in 1..m+n => k \in 1..m \/ k-m \in 1..n
    OBVIOUS
  <2>2. \A k \in Int : k = m + (k-m)
    OBVIOUS
  <2> QED  BY <1>3, <1>4, <2>1, <2>2 DEF InSched
<1>8. \A k \in Int, g \in Gs : InSched(k, g) => k \in 1..m
  BY <1>2 DEF InSched
<1>9. \A k \in Int, g \in Gs : InBatch(p, k, g) => k \in 1..n
  BY <1>1 DEF InBatch
<1>10. \A q \in Ps, i \in Int, g \in Gs : InRunq(q, i, g)' <=> InRunq(q, i, g)
  BY <1>3, SameRunq
<1>11. \A j \in 1..n : m+j \in Int /\ m+j \notin 1..m
  OBVIOUS
<1> SUFFICES ASSUME NEW g \in Gs PROVE \E x \in Place : Only(x, g)'
  BY DEF PlaceInv
<1>12. PICK x \in Place : Only(x, g)
  BY DEF PlaceInv
<1>13. /\ g \in out' <=> g \in out \/ ret[p] = g
       /\ gp'[p] # g /\ ret'[p] # g /\ gp[p] # g
       /\ \A q \in Ps \ {p} : gp'[q] = gp[q] /\ ret'[q] = ret[q]
       /\ \A q \in Ps \ {p}, k \in Int : InBatch(q, k, g)' <=> InBatch(q, k, g)
       /\ \A k \in Int : ~InBatch(p, k, g)'
  BY <1>1, <1>3, ReturnMoves, NoGAssumption
<1>14. ASSUME NEW j0 \in 1..n, InBatch(p, j0, g) PROVE \E x1 \in Place : Only(x1, g)'
  <2>0. j0 \in Int
    OBVIOUS
  <2>1. Only(<<"batch", p, j0>>, g)
    BY <1>12, <1>14, <2>0 DEF Only
  <2>2. \A j \in 1..n : InBatch(p, j, g) <=> j = j0
    BY <2>1 DEF Only
  <2>3. \A k \in Int : ~InSched(k, g)
    BY <2>1 DEF Only
  <2>4. \A k \in 1..m : k \in Int
    OBVIOUS
  <2>5. \A k \in Int : InSched(k, g)' <=> k = m+j0
    BY <1>5, <1>6, <1>7, <1>14, <2>2, <2>3, <2>4, ZenonT(60)
  <2>6. g \notin out' /\ \A q \in Ps : gp'[q] # g /\ ret'[q] # g
    BY <1>13, <2>1 DEF Only
  <2>7. \A q \in Ps, i \in Int : ~InRunq(q, i, g)'
    BY <1>10, <2>1 DEF Only
  <2>8. \A q \in Ps, k \in Int : ~InBatch(q, k, g)'
    BY <1>13, <2>1 DEF Only
  <2>9. m+j0 \in Int
    OBVIOUS
  <2> QED  BY <2>5, <2>6, <2>7, <2>8, <2>9, NowSched
<1>15. CASE \A j \in 1..n : ~InBatch(p, j, g)
  <2>1. \A k \in Int : InSched(k, g)' <=> InSched(k, g)
    BY <1>5, <1>6, <1>7, <1>8, <1>15
  <2>2. \A k \in Int : ~InBatch(p, k, g)
    BY <1>9, <1>15
  <2>3. CASE ret[p] = g
    <3>1. Only(<<"ret", p, 0>>, g)
      BY <1>12, <2>3 DEF Only
    <3>2. Only(<<"out", NoG, 0>>, g)'
      BY <1>10, <1>13, <2>1, <2>3, <3>1 DEF Only
    <3> QED  BY <3>2 DEF Place
  <2>4. CASE ret[p] # g
    <3>1. Only(x, g)'
      BY <1>10, <1>12, <1>13, <2>1, <2>2, <2>4 DEF Only
    <3> QED  BY <3>1
  <2> QED  BY <2>3, <2>4
<1> QED  BY <1>14, <1>15

LEMMA GlobrunqputMoves ==
  ASSUME TypeOK, QueueInv, PlaceInv, NEW p \in Ps, Globrunqput(p)
  PROVE  PlaceInv'
<1>1. PICK g0 \in Gs : g0 \in out /\ sched' = Append(sched, g0) /\ out' = out \ {g0}
  BY DEF Globrunqput, TypeOK
<1>2. UNCHANGED <<head, tail, runq, pc, gp, ret, batch>>
  BY DEF Globrunqput, locals
<1>3. PICK m \in Nat : m = Len(sched) + 1 /\ DOMAIN sched = 1..m-1
  <2>1. sched \in Seq(Gs)
    BY DEF TypeOK
  <2> QED  BY <2>1
<1>4. DOMAIN sched' = 1..m /\ sched'[m] = g0 /\ \A k \in 1..m-1 : sched'[k] = sched[k]
  <2>1. sched \in Seq(Gs)
    BY DEF TypeOK
  <2> QED  BY <1>1, <1>3, <2>1
<1>5. \A k \in Int, g \in Gs : InSched(k, g)' <=> InSched(k, g) \/ (k = m /\ g = g0)
  <2>1. \A k \in Int : k \in 1..m <=> k \in 1..m-1 \/ k = m
    BY <1>3
  <2>2. m \notin 1..m-1
    BY <1>3
  <2> QED  BY <1>3, <1>4, <2>1, <2>2 DEF InSched
<1>6. /\ \A q \in Ps, i \in Int, g \in Gs : InRunq(q, i, g)' <=> InRunq(q, i, g)
      /\ \A q \in Ps, k \in Int, g \in Gs : InBatch(q, k, g)' <=> InBatch(q, k, g)
  BY <1>2 DEF InRunq, Indices, InBatch, Taken
<1> SUFFICES ASSUME NEW g \in Gs PROVE \E x \in Place : Only(x, g)'
  BY DEF PlaceInv
<1>7. PICK x \in Place : Only(x, g)
  BY DEF PlaceInv
<1>8. CASE g = g0
  <2>1. Only(<<"out", NoG, 0>>, g)
    BY <1>1, <1>7, <1>8 DEF Only
  <2>2. \A k \in Int : InSched(k, g)' <=> k = m
    BY <1>5, <1>8, <2>1 DEF Only
  <2>3. g \notin out' /\ \A q \in Ps : gp'[q] # g /\ ret'[q] # g
    BY <1>1, <1>2, <1>8, <2>1 DEF Only
  <2>4. \A q \in Ps, i \in Int : ~InRunq(q, i, g)' /\ ~InBatch(q, i, g)'
    BY <1>6, <2>1 DEF Only
  <2>5. m \in Int
    OBVIOUS
  <2> QED  BY <2>2, <2>3, <2>4, <2>5, NowSched
<1>9. CASE g # g0
  <2>1. Only(x, g)'
    BY <1>1, <1>2, <1>5, <1>6, <1>7, <1>9 DEF Only
  <2> QED  BY <2>1
<1> QED  BY <1>8, <1>9

LEMMA GlobrunqgetMoves ==
  ASSUME TypeOK, QueueInv, PlaceInv, NEW p \in Ps, Globrunqget(p)
  PROVE  PlaceInv'
<1>1. /\ Empty(p) /\ pc[p] = "idle" /\ sched # <<>> /\ sched \in Seq(Gs)
      /\ gp[p] = NoG /\ ret[p] = NoG /\ batch[p] = <<>>
  BY DEF QueueInv, CallInv, Globrunqget, TypeOK, Empty, Alone
<1>2. head' = head /\ tail' = tail /\ runq' = runq
  BY DEF Globrunqget
<1>3. PICK n \in Nat \ {0} :
        /\ n <= Len(sched)
        /\ sched' = SubSeq(sched, n + 1, Len(sched))
        /\ \/ /\ n = 1
              /\ out' = out \cup {Head(sched)}
              /\ UNCHANGED <<pc, gp, ret, batch>>
           \/ /\ n > 1
              /\ ret' = [ret EXCEPT ![p] = Head(sched)]
              /\ gp' = [gp EXCEPT ![p] = sched[2]]
              /\ batch' = [batch EXCEPT ![p] = SubSeq(sched, 3, n)]
              /\ pc' = [pc EXCEPT ![p] = "put"]
              /\ UNCHANGED out
  <2>1. PICK max \in {0, 1} :
        LET n == GlobBatch(max) IN
             /\ sched' = SubSeq(sched, n + 1, Len(sched))
             /\ \/ /\ n = 1
                   /\ out' = out \cup {Head(sched)}
                   /\ UNCHANGED <<pc, gp, ret, batch>>
                \/ /\ n > 1
                   /\ ret' = [ret EXCEPT ![p] = Head(sched)]
                   /\ gp' = [gp EXCEPT ![p] = sched[2]]
                   /\ batch' = [batch EXCEPT ![p] = SubSeq(sched, 3, n)]
                   /\ pc' = [pc EXCEPT ![p] = "put"]
                   /\ UNCHANGED out
    BY DEF Globrunqget, locals, Goto
  <2>2. GlobBatch(max) \in 1..Len(sched) /\ Len(sched) \in Nat
    BY <1>1, GlobBatchFacts
  <2>3. PICK n \in Nat \ {0} : n = GlobBatch(max) /\ n <= Len(sched)
    BY <2>2
  <2> QED  BY <2>1, <2>3
<1>4. PICK m \in Nat : m = Len(sched) /\ DOMAIN sched = 1..m /\ n <= m
  BY <1>1, <1>3
<1>5. DOMAIN sched' = 1..m-n /\ \A k \in 1..m-n : sched'[k] = sched[k+n]
  <2>1. sched' = [k \in 1..m-n |-> sched[k+n]]
    <3>1. sched' = [k \in 1..m-(n+1)+1 |-> sched[k+(n+1)-1]]
      BY <1>1, <1>3, <1>4
    <3>2. m-(n+1)+1 = m-n /\ \A k \in 1..m-n : k+(n+1)-1 = k+n
      BY <1>4
    <3> QED  BY <3>1, <3>2
  <2> QED  BY <2>1
<1>6. \A k \in Int, g \in Gs : InSched(k, g)' <=> k >= 1 /\ InSched(k+n, g)
  <2> SUFFICES ASSUME NEW k \in Int, NEW g \in Gs
               PROVE  InSched(k, g)' <=> k >= 1 /\ InSched(k+n, g)
    OBVIOUS
  <2>1. k \in DOMAIN sched' <=> k >= 1 /\ k+n \in DOMAIN sched
    BY <1>4, <1>5
  <2>2. k \in DOMAIN sched' => sched'[k] = sched[k+n]
    BY <1>5
  <2> QED  BY <2>1, <2>2 DEF InSched
<1>7. \A g \in Gs : InSched(1, g) <=> Head(sched) = g
  BY <1>1, <1>3, <1>4 DEF InSched
<1>8. \A q \in Ps, i \in Int, g \in Gs : InRunq(q, i, g)' <=> InRunq(q, i, g)
  BY <1>2, SameRunq
<1>9. \A k \in Int, g \in Gs : InSched(k, g) => k >= 1
  BY <1>4 DEF InSched
<1> SUFFICES ASSUME NEW g \in Gs PROVE \E x \in Place : Only(x, g)'
  BY DEF PlaceInv
<1>10. PICK x \in Place : Only(x, g)
  BY DEF PlaceInv
<1>11. \A k0 \in Int : InSched(k0, g) => Only(<<"sched", NoG, k0>>, g)
  BY <1>10 DEF Only
<1>12. ASSUME NEW k0 \in Int, InSched(k0, g), k0 > n
       PROVE  k0-n \in Int /\ \A k \in Int : InSched(k, g)' <=> k = k0-n
  <2>1. \A l \in Int : InSched(l, g) <=> l = k0
    BY <1>11, <1>12 DEF Only
  <2>2. \A k \in Int : k+n \in Int /\ (k >= 1 /\ k+n = k0 <=> k = k0-n)
    BY <1>12
  <2> QED  BY <1>6, <2>1, <2>2
<1>13. ASSUME NEW k0 \in Int, InSched(k0, g), k0 <= n
       PROVE  \A k \in Int : ~InSched(k, g)'
  <2>1. \A l \in Int : InSched(l, g) <=> l = k0
    BY <1>11, <1>13 DEF Only
  <2>2. \A k \in Int : k+n \in Int /\ (k >= 1 => k+n # k0)
    BY <1>13
  <2> QED  BY <1>6, <2>1, <2>2
<1>14. ASSUME \A k \in Int : ~InSched(k, g)
       PROVE  \A k \in Int : ~InSched(k, g)'
  <2>1. \A k \in Int : k+n \in Int
    OBVIOUS
  <2> QED  BY <1>6, <1>14, <2>1
<1>15. CASE /\ n = 1
            /\ out' = out \cup {Head(sched)}
            /\ UNCHANGED <<pc, gp, ret, batch>>
  <2>1. \A q \in Ps, k \in Int : InBatch(q, k, g)' <=> InBatch(q, k, g)
    BY <1>15 DEF InBatch, Taken
  <2>2. g \in out' <=> g \in out \/ InSched(1, g)
    BY <1>7, <1>15
  <2>3. CASE InSched(1, g)
    <3>0. 1 \in Int /\ 1 <= n
      BY <1>15
    <3>1. Only(<<"sched", NoG, 1>>, g)
      BY <1>11, <2>3, <3>0
    <3>2. \A k \in Int : ~InSched(k, g)'
      BY <1>13, <2>3, <3>0
    <3>3. Only(<<"out", NoG, 0>>, g)'
      BY <1>8, <1>15, <2>1, <2>2, <2>3, <3>1, <3>2 DEF Only
    <3> QED  BY <3>3 DEF Place
  <2>4. ASSUME NEW k0 \in Int, InSched(k0, g), k0 # 1 PROVE \E x1 \in Place : Only(x1, g)'
    <3>1. Only(<<"sched", NoG, k0>>, g)
      BY <1>11, <2>4
    <3>2. k0 > n
      BY <1>9, <1>15, <2>4
    <3>3. k0-n \in Int /\ \A k \in Int : InSched(k, g)' <=> k = k0-n
      BY <1>12, <2>4, <3>2
    <3>4. 1 \in Int /\ ~InSched(1, g)
      BY <2>4, <3>1 DEF Only
    <3>5. g \notin out' /\ \A q \in Ps : gp'[q] # g /\ ret'[q] # g
      BY <1>15, <2>2, <3>1, <3>4 DEF Only
    <3>6. \A q \in Ps, i \in Int : ~InRunq(q, i, g)' /\ ~InBatch(q, i, g)'
      BY <1>8, <2>1, <3>1 DEF Only
    <3> QED  BY <3>3, <3>5, <3>6, NowSched
  <2>5. CASE \A k \in Int : ~InSched(k, g)
    <3>1. \A k \in Int : ~InSched(k, g)'
      BY <1>14, <2>5
    <3>2. ~InSched(1, g)
      BY <2>5
    <3>3. Only(x, g)'
      BY <1>8, <1>10, <1>15, <2>1, <2>2, <2>5, <3>1, <3>2 DEF Only
    <3> QED  BY <3>3
  <2> QED  BY <2>3, <2>4, <2>5
<1>16. CASE /\ n > 1
            /\ ret' = [ret EXCEPT ![p] = Head(sched)]
            /\ gp' = [gp EXCEPT ![p] = sched[2]]
            /\ batch' = [batch EXCEPT ![p] = SubSeq(sched, 3, n)]
            /\ pc' = [pc EXCEPT ![p] = "put"]
            /\ UNCHANGED out
  <2>1. PICK b : b = SubSeq(sched, 3, n)
    OBVIOUS
  <2>2. DOMAIN b = 1..n-2 /\ \A k \in 1..n-2 : b[k] = sched[k+2]
    <3>1. b = [k \in 1..n-3+1 |-> sched[k+3-1]]
      BY <1>1, <1>4, <1>16, <2>1
    <3>2. n-3+1 = n-2 /\ \A k \in 1..n-2 : k+3-1 = k+2
      OBVIOUS
    <3> QED  BY <3>1, <3>2
  <2>3. batch'[p] = b /\ \A q \in Ps \ {p} : batch'[q] = batch[q]
    BY <1>16, <2>1 DEF TypeOK
  <2>4. /\ ret'[p] = Head(sched) /\ gp'[p] = sched[2] /\ pc'[p] = "put"
        /\ \A q \in Ps \ {p} : ret'[q] = ret[q] /\ gp'[q] = gp[q] /\ pc'[q] = pc[q]
    BY <1>16 DEF TypeOK
  <2>5. \A q \in Ps \ {p}, k \in Int : InBatch(q, k, g)' <=> InBatch(q, k, g)
    BY <2>3, <2>4 DEF InBatch, Taken
  <2>6. ret'[p] = g <=> InSched(1, g)
    BY <1>7, <2>4
  <2>7. gp'[p] = g <=> InSched(2, g)
    <3>1. 2 \in DOMAIN sched
      BY <1>4, <1>16
    <3> QED  BY <2>4, <3>1 DEF InSched
  <2>8. \A k \in Int : InBatch(p, k, g)' <=> k \in 1..n-2 /\ InSched(k+2, g)
    <3>1. Taken(p)'
      BY <2>4 DEF Taken
    <3>2. \A k \in 1..n-2 : k+2 \in DOMAIN sched /\ b[k] = sched[k+2]
      BY <1>4, <2>2
    <3> QED  BY <2>2, <2>3, <3>1, <3>2 DEF InBatch, InSched
  <2>9. \A k \in Int : ~InBatch(p, k, g)
    BY <1>1 DEF InBatch
  <2>10. gp[p] # g /\ ret[p] # g
    BY <1>1, NoGAssumption
  <2>11. ASSUME NEW k0 \in Int, InSched(k0, g) PROVE \E x1 \in Place : Only(x1, g)'
    <3>1. Only(<<"sched", NoG, k0>>, g)
      BY <1>11, <2>11
    <3>2. g \notin out' /\ \A q \in Ps, i \in Int : ~InRunq(q, i, g)'
      BY <1>8, <1>16, <3>1 DEF Only
    <3>3. \A q \in Ps \ {p} : gp'[q] # g /\ ret'[q] # g
      BY <2>4, <3>1 DEF Only
    <3>4. \A q \in Ps \ {p}, k \in Int : ~InBatch(q, k, g)'
      BY <2>5, <3>1 DEF Only
    <3>5. \A l \in Int : InSched(l, g) <=> l = k0
      BY <3>1 DEF Only
    <3>6. 1 \in Int /\ 2 \in Int /\ k0 >= 1
      BY <1>9, <2>11
    <3>7. (ret'[p] = g <=> k0 = 1) /\ (gp'[p] = g <=> k0 = 2)
      BY <2>6, <2>7, <3>5, <3>6
    <3>8. \A k \in Int : InBatch(p, k, g)' <=> k \in 1..n-2 /\ k+2 = k0
      <4>1. \A k \in Int : k+2 \in Int
        OBVIOUS
      <4> QED  BY <2>8, <3>5, <4>1
    <3>9. CASE k0 = 1
      <4>1. k0 <= n
        BY <3>9
      <4>2. \A k \in Int : ~InSched(k, g)'
        BY <1>13, <2>11, <4>1
      <4>3. \A k \in Int : ~InBatch(p, k, g)'
        <5>1. \A k \in Int : ~(k \in 1..n-2 /\ k+2 = k0)
          BY <3>9
        <5> QED  BY <3>8, <5>1
      <4>4. ret'[p] = g /\ gp'[p] # g
        BY <3>7, <3>9
      <4>5. Only(<<"ret", p, 0>>, g)'
        BY <3>2, <3>3, <3>4, <4>2, <4>3, <4>4 DEF Only
      <4> QED  BY <4>5 DEF Place
    <3>10. CASE k0 = 2
      <4>1. k0 <= n
        BY <1>16, <3>10
      <4>2. \A k \in Int : ~InSched(k, g)'
        BY <1>13, <2>11, <4>1
      <4>3. \A k \in Int : ~InBatch(p, k, g)'
        <5>1. \A k \in Int : ~(k \in 1..n-2 /\ k+2 = k0)
          BY <3>10
        <5> QED  BY <3>8, <5>1
      <4>4. gp'[p] = g /\ ret'[p] # g
        BY <3>7, <3>10
      <4>5. Only(<<"gp", p, 0>>, g)'
        BY <3>2, <3>3, <3>4, <4>2, <4>3, <4>4 DEF Only
      <4> QED  BY <4>5 DEF Place
    <3>11. CASE k0 > 2 /\ k0 <= n
      <4>2. \A k \in Int : ~InSched(k, g)'
        BY <1>13, <2>11, <3>11
      <4>3. k0-2 \in Int /\ \A k \in Int : (k \in 1..n-2 /\ k+2 = k0) <=> k = k0-2
        BY <3>11
      <4>4. \A q \in Ps : gp'[q] # g /\ ret'[q] # g
        BY <3>3, <3>7, <3>11
      <4>5. \A q \in Ps, k \in Int : InBatch(q, k, g)' <=> q = p /\ k = k0-2
        BY <3>4, <3>8, <4>3
      <4> QED  BY <3>2, <4>2, <4>3, <4>4, <4>5, NowBatch
    <3>12. CASE k0 > n
      <4>1. k0-n \in Int /\ \A k \in Int : InSched(k, g)' <=> k = k0-n
        BY <1>12, <2>11, <3>12
      <4>2. k0 # 1 /\ k0 # 2 /\ \A k \in Int : ~(k \in 1..n-2 /\ k+2 = k0)
        BY <1>16, <3>12
      <4>3. \A q \in Ps, k \in Int : ~InBatch(q, k, g)'
        BY <3>4, <3>8, <4>2
      <4>4. \A q \in Ps : gp'[q] # g /\ ret'[q] # g
        BY <3>3, <3>7, <4>2
      <4> QED  BY <3>2, <4>1, <4>3, <4>4, NowSched
    <3> QED  BY <3>6, <3>9, <3>10, <3>11, <3>12
  <2>12. CASE \A k \in Int : ~InSched(k, g)
    <3>1. \A k \in Int : ~InSched(k, g)'
      BY <1>14, <2>12
    <3>2. gp'[p] # g /\ ret'[p] # g
      BY <2>6, <2>7, <2>12
    <3>3. \A k \in Int : ~InBatch(p, k, g)'
      <4>1. \A k \in Int : k+2 \in Int
        OBVIOUS
      <4> QED  BY <2>8, <2>12, <4>1
    <3>4. Only(x, g)'
      BY <1>8, <1>10, <1>16, <2>4, <2>5, <2>9, <2>10, <2>12, <3>1, <3>2, <3>3 DEF Only
    <3> QED  BY <3>4
  <2> QED  BY <2>11, <2>12
<1> QED  BY <1>3, <1>15, <1>16

\* Every step moves a goroutine from one place to another, or leaves it.
LEMMA NextPlaces == TypeOK /\ QueueInv /\ PlaceInv /\ [Next]_vars => PlaceInv'
<1> SUFFICES ASSUME TypeOK, QueueInv, PlaceInv, [Next]_vars PROVE PlaceInv'
  OBVIOUS
<1>1. CASE UNCHANGED vars
  <2>1. UNCHANGED <<head, tail, runq, sched, out, gp, ret, batch, pc>>
    BY <1>1 DEF vars
  <2>2. \A q \in Ps : Taken(q)' <=> Taken(q)
    BY <2>1 DEF Taken
  <2> QED  BY <2>1, <2>2, SameRunq, SameTaken, Steady
<1>2. ASSUME NEW p \in Ps,
             \/ Runqput(p) \/ Runqget(p) \/ Runqsteal(p)
             \/ Globrunqput(p) \/ Globrunqget(p)
             \/ Step(p)
      PROVE  PlaceInv'
  BY <1>2, RunqputMoves, RunqgetMoves, RunqstealMoves, GlobrunqputMoves, GlobrunqgetMoves,
     RunqputLoadMoves, RunqputWriteMoves, RunqputPublishMoves, RunqputSlowMoves, RunqputGlobMoves,
     RunqgetCasMoves, GrabTailMoves, GrabCopyMoves, GrabCasMoves, StealWriteMoves,
     StealPublishMoves, Zenon DEF Step
<1> QED  BY <1>1, <1>2 DEF Next

\* runqput, runqget, runqsteal and the global queue lose no goroutine and hand
\* none to two Ps: each is in exactly one place, whoever races with whom.
THEOREM RunqOnePlace == Spec => []OnePlace
<1>1. Spec => []PlaceInv
  BY InitPlaces, NextPlaces, QueuesInvariant, PTL DEF Spec
<1> QED  BY <1>1, PlaceOne, QueuesInvariant, PTL
=============================================================================
