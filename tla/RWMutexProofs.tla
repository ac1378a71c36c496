---------------------------- MODULE RWMutexProofs ----------------------------
(***************************************************************************)
(* For every finite set of goroutines smaller than rwmutexMaxReaders: a    *)
(* writer of an RWMutex is alone, nothing is left over when nobody uses    *)
(* it, and its semaphores miss no wakeup and ready no goroutine twice.     *)
(***************************************************************************)
EXTENDS RWMutex, FiniteSetTheorems, SequenceTheorems, WellFoundedInduction, TLAPS

Sems == {"readerSem", "writerSem"}

\* The places in a call of semacquire and of semrelease.
Acquiring == {"lock", "check", "undo", "park", "parked", "retry"}
Releasing == {"easy", "search", "ready"}

SemaType ==
  /\ val \in [Sems -> Nat]
  /\ nwait \in Int
  /\ holder \in Gs \cup {NoG}
  /\ queue \in Seq(Gs)
  /\ at \in [Gs -> {"out"} \cup Acquiring \cup Releasing]
  /\ woke \in [Gs -> Gs \cup {NoG}]

TypeOK ==
  /\ w \in Gs \cup {NoG}
  /\ readerCount \in Int /\ readerWait \in Int
  /\ pc \in [Gs -> Locations]
  /\ r \in [Gs -> Int]
  /\ SemaType

----------------------------------------------------------------------------
(* The semaphores' part of the invariant *)

\* Who is in a call of the semaphores, and who has the root's lock.
CallsInv ==
  \A g \in Gs :
    /\ at[g] \in Acquiring => pc[g] \in {"rsem", "wsem"}
    /\ at[g] \in Releasing => pc[g] \in {"rwake", "wrelease"}
    /\ holder = g <=> at[g] \in {"check", "undo", "park"}

OnQueue(s, g) == \E k \in DOMAIN s : s[k] = g
NoRepeat(s) == \A k, l \in DOMAIN s : s[k] = s[l] => k = l

\* A parked goroutine is on the queue at one place, or with one semrelease of
\* its address; and nobody else is.
QueueInv ==
  /\ NoRepeat(queue)
  /\ \A g \in Gs :
       /\ OnQueue(queue, g) => at[g] = "parked"
       /\ woke[g] # NoG <=> at[g] = "ready"
       /\ woke[g] # NoG =>
            /\ at[woke[g]] = "parked" /\ addr[woke[g]] = addr[g]
            /\ ~OnQueue(queue, woke[g])
            /\ \A h \in Gs : woke[h] = woke[g] => h = g
       /\ at[g] = "parked" => OnQueue(queue, g) \/ \E h \in Gs : woke[h] = g

\* root.nwait counts the goroutines under the root's lock and on its queue.
Counted == {g \in Gs : at[g] \in {"check", "undo", "park"} \/ OnQueue(queue, g)}

NwaitInv == nwait = Cardinality(Counted)

\* Goroutines that wait on address a, and calls that still owe it a wakeup or
\* an attempt to take it, as in NoMissedWakeup.
Waiting(a) == {g \in Gs : addr[g] = a /\ (at[g] = "park" \/ OnQueue(queue, g))}
InFlight(a) ==
  {g \in Gs : addr[g] = a /\ at[g] \in {"easy", "search", "ready", "retry"}}

WakeupInv == \A a \in Sems : Waiting(a) # {} => val[a] <= Cardinality(InFlight(a))

SemaInv == CallsInv /\ QueueInv /\ NwaitInv /\ WakeupInv

----------------------------------------------------------------------------
(* The lock's part of the invariant *)

\* Readers that have the lock, readers still waiting for a count of readerSem,
\* readers about to tell the writer that they have left.
Inside == {g \in Gs : pc[g] = "reading" \/ (pc[g] = "rsem" /\ at[g] = "undo")}
Blocked == {g \in Gs : pc[g] = "rsem" /\ at[g] # "undo"}
Departing == {g \in Gs : pc[g] = "rdepart"}

\* Readers about to wake the writer, and the writer that has been woken.
Tokens == {g \in Gs : \/ pc[g] = "rwake" /\ at[g] = "out"
                      \/ pc[g] = "wsem" /\ at[g] = "undo"}

\* Where the holder of w is.
Stage == IF w = NoG THEN "free" ELSE pc[w]
Pending == Stage \in {"wcount", "wsem", "writing"}

OwnerInv ==
  \A g \in Gs :
    w = g <=> pc[g] \in {"announce", "wcount", "wsem", "writing", "wrelease"}

\* readerCount counts the readers inside and blocked, with the writer's offset.
CountInv ==
  readerCount = Cardinality(Inside) + Cardinality(Blocked)
                - (IF Pending THEN rwmutexMaxReaders ELSE 0)

\* Readers that the pending writer has to wait for: inside, departing, or let
\* in by the writer before it (a count of readerSem not yet taken).
ToLeave == Cardinality(Inside) + Cardinality(Departing) + val["readerSem"]

\* What the counts are at each stage of the writer: without a pending writer
\* every blocked reader has a count or is about to get one; a pending writer
\* knows how many are still to leave; and it is woken once, when none is.
StageInv ==
  /\ ~Pending =>
       /\ readerWait = 0 /\ Cardinality(Departing) = 0
       /\ val["readerSem"] + (IF Stage = "wrelease" THEN r[w] ELSE 0)
            = Cardinality(Blocked)
  /\ Stage = "wcount" => readerWait <= 0 /\ readerWait + r[w] = ToLeave
  /\ Stage = "wsem" => readerWait = ToLeave
  /\ Stage = "writing" => readerWait = 0 /\ ToLeave = 0
  /\ val["writerSem"] + Cardinality(Tokens)
       = IF Stage = "wsem" /\ readerWait = 0 THEN 1 ELSE 0

IndInv == TypeOK /\ SemaInv /\ OwnerInv /\ CountInv /\ StageInv

----------------------------------------------------------------------------
(* Lemmas about the operators: cardinalities, Min and RemoveAt *)

LEMMA Count ==
  ASSUME NEW A \in SUBSET Gs
  PROVE  /\ Cardinality(A) \in Nat /\ Cardinality(A) <= Cardinality(Gs)
         /\ Cardinality(A) = 0 <=> A = {}
         /\ \A g \in A : Cardinality(A \ {g}) = Cardinality(A) - 1
         /\ \A g \in Gs \ A : Cardinality(A \cup {g}) = Cardinality(A) + 1
  <1>1. IsFiniteSet(A) /\ Cardinality(A) <= Cardinality(Gs)
    BY FS_Subset, MaxReadersAssumption
  <1>2. Cardinality(A) \in Nat
    BY <1>1, FS_CardinalityType
  <1>3. Cardinality(A) = 0 <=> A = {}
    BY <1>1, FS_EmptySet
  <1>4. \A g \in A : Cardinality(A \ {g}) = Cardinality(A) - 1
    BY <1>1, FS_RemoveElement
  <1>5. \A g \in Gs \ A : Cardinality(A \cup {g}) = Cardinality(A) + 1
    BY <1>1, FS_AddElement
  <1> QED
    BY <1>1, <1>2, <1>3, <1>4, <1>5

LEMMA MinFacts ==
  ASSUME NEW T \in SUBSET Nat, T # {}
  PROVE  S!Min(T) \in T
  <1>1. PICK x \in T : \A y \in T : ~ (<<y, x>> \in OpToRel(<,Nat))
    BY NatLessThanWellFounded, WFMin, Zenon
  <1>2. \A y \in T : ~(y < x)
    BY <1>1, Zenon DEF OpToRel
  <1>3. \A y \in T : x <= y
    BY <1>2
  <1> QED
    BY <1>3 DEF S!Min

LEMMA RemoveAtFacts ==
  ASSUME NEW s \in Seq(Gs), NEW i \in 1..Len(s)
  PROVE  /\ S!RemoveAt(s, i) \in Seq(Gs)
         /\ Len(S!RemoveAt(s, i)) = Len(s) - 1
         /\ \A k \in 1..Len(s)-1 :
              S!RemoveAt(s, i)[k] = IF k < i THEN s[k] ELSE s[k+1]
  <1> DEFINE s1 == SubSeq(s, 1, i-1)
             s2 == SubSeq(s, i+1, Len(s))
  <1>1. s1 \in Seq(Gs) /\ Len(s1) = i-1 /\ \A k \in 1..i-1 : s1[k] = s[k]
    OBVIOUS
  <1>2. s2 \in Seq(Gs) /\ Len(s2) = Len(s) - i /\ \A k \in 1..Len(s)-i : s2[k] = s[k+i]
    OBVIOUS
  <1>3. S!RemoveAt(s, i) = s1 \o s2
    BY DEF S!RemoveAt
  <1> HIDE DEF s1, s2
  <1>4. s1 \o s2 \in Seq(Gs) /\ Len(s1 \o s2) = Len(s1) + Len(s2)
    BY <1>1, <1>2, ConcatProperties
  <1>5. Len(s) \in Nat
    BY LenProperties
  <1>6. Len(s1 \o s2) = Len(s) - 1
    BY ONLY <1>1, <1>2, <1>4, <1>5, i \in 1..Len(s)
  <1>7. \A k \in 1..Len(s)-1 : (s1 \o s2)[k] = IF k < i THEN s[k] ELSE s[k+1]
    BY <1>1, <1>2
  <1> QED
    BY <1>3, <1>4, <1>6, <1>7

\* Removing one place of a queue without repetitions removes its goroutine
\* and nobody else.
LEMMA Dequeue ==
  ASSUME NEW s \in Seq(Gs), NEW i \in DOMAIN s, NoRepeat(s)
  PROVE  /\ S!RemoveAt(s, i) \in Seq(Gs)
         /\ NoRepeat(S!RemoveAt(s, i))
         /\ \A g \in Gs : OnQueue(S!RemoveAt(s, i), g) <=> g # s[i] /\ OnQueue(s, g)
  <1> DEFINE t == S!RemoveAt(s, i)
  <1>1. DOMAIN s = 1..Len(s) /\ Len(s) \in Nat
    BY LenProperties
  <1>2. /\ t \in Seq(Gs) /\ Len(t) = Len(s) - 1
        /\ \A k \in 1..Len(s)-1 : t[k] = IF k < i THEN s[k] ELSE s[k+1]
    BY <1>1, RemoveAtFacts
  <1>3. DOMAIN t = 1..Len(s)-1
    BY <1>2, LenProperties
  <1> HIDE DEF t
  <1>4. ASSUME NEW k \in DOMAIN t, NEW l \in DOMAIN t, t[k] = t[l]
        PROVE  k = l
    <2> DEFINE f(n) == IF n < i THEN n ELSE n + 1
    <2>1. f(k) \in DOMAIN s /\ f(l) \in DOMAIN s /\ t[k] = s[f(k)] /\ t[l] = s[f(l)]
      BY <1>1, <1>2, <1>3
    <2>2. f(k) = f(l)
      BY <1>4, <2>1 DEF NoRepeat
    <2> QED
      BY <1>1, <1>3, <2>2
  <1>5. ASSUME NEW k \in DOMAIN t
        PROVE  t[k] # s[i] /\ \E l \in DOMAIN s : s[l] = t[k]
    BY <1>1, <1>2, <1>3 DEF NoRepeat
  <1>6. ASSUME NEW l \in DOMAIN s, l # i
        PROVE  \E k \in DOMAIN t : t[k] = s[l]
    <2>1. CASE l < i
      BY <1>1, <1>2, <1>3, <2>1
    <2>2. CASE l > i
      <3>1. l-1 \in DOMAIN t /\ t[l-1] = s[l]
        BY <1>1, <1>2, <1>3, <2>2
      <3> QED
        BY <3>1
    <2> QED
      BY <1>1, <1>6, <2>1, <2>2
  <1>7. \A g \in Gs : OnQueue(t, g) <=> g # s[i] /\ OnQueue(s, g)
    BY <1>5, <1>6 DEF OnQueue
  <1> QED
    BY <1>2, <1>4, <1>7 DEF t, NoRepeat

\* Append adds one goroutine that was not on the queue.
LEMMA Enqueue ==
  ASSUME NEW s \in Seq(Gs), NEW h \in Gs, NoRepeat(s), ~OnQueue(s, h)
  PROVE  /\ Append(s, h) \in Seq(Gs)
         /\ NoRepeat(Append(s, h))
         /\ \A g \in Gs : OnQueue(Append(s, h), g) <=> g = h \/ OnQueue(s, g)
  <1> DEFINE t == Append(s, h)
  <1>1. DOMAIN s = 1..Len(s) /\ Len(s) \in Nat
    BY LenProperties
  <1>2. /\ t \in Seq(Gs) /\ DOMAIN t = 1..Len(s)+1 /\ t[Len(s)+1] = h
        /\ \A k \in 1..Len(s) : t[k] = s[k]
    BY <1>1, AppendProperties
  <1> HIDE DEF t
  <1>3. NoRepeat(t)
    BY <1>1, <1>2 DEF NoRepeat, OnQueue
  <1>4. \A g \in Gs : OnQueue(t, g) <=> g = h \/ OnQueue(s, g)
    BY <1>1, <1>2 DEF OnQueue
  <1> QED
    BY <1>2, <1>3, <1>4 DEF t

----------------------------------------------------------------------------
(* The steps of semacquire and semrelease *)

\* What a call that goes on, and whoever is not calling, keeps.
LEMMA Frame ==
  ASSUME TypeOK, NEW g \in Gs, NEW l \in Locations,
         Goto(g, IF at'[g] = "out" THEN l ELSE pc[g])
  PROVE  /\ pc' \in [Gs -> Locations]
         /\ \A h \in Gs : h # g \/ at'[h] # "out" => pc'[h] = pc[h] /\ addr'[h] = addr[h]
         /\ \A h \in Gs : addr[h] \in Sems /\ addr'[h] \in Sems
  BY DEF TypeOK, Goto, addr, Sems

\* Nobody starts to wait on a.
Fewer(a) == Waiting(a)' # {} => Waiting(a) # {}

LEMMA FewerWaiting ==
  ASSUME NEW a \in Sems,
         \A h \in Gs : at'[h] = "park" \/ OnQueue(queue', h) =>
           addr'[h] = addr[h] /\ (at[h] = "park" \/ OnQueue(queue, h))
  PROVE  Fewer(a)
  BY DEF Fewer, Waiting

\* The ways in which a step keeps each unit of a covered.
Covered(a) ==
  \/ Waiting(a)' = {}
  \/ val'[a] = 0
  \/ Fewer(a) /\ val'[a] <= val[a] /\ InFlight(a)' = InFlight(a)
  \/ /\ Fewer(a) /\ val'[a] <= val[a] - 1
     /\ \E g \in InFlight(a) : InFlight(a)' = InFlight(a) \ {g}
  \/ /\ Fewer(a) /\ val'[a] <= val[a] + 1
     /\ \E g \in Gs \ InFlight(a) : InFlight(a)' = InFlight(a) \cup {g}
  \/ /\ Fewer(a) /\ val'[a] <= val[a]
     /\ \E g \in InFlight(a), h \in Gs \ InFlight(a) :
          InFlight(a)' = (InFlight(a) \ {g}) \cup {h}

LEMMA WakeupStep ==
  ASSUME SemaType, SemaType', WakeupInv, \A a \in Sems : Covered(a)
  PROVE  WakeupInv'
  <1> SUFFICES ASSUME NEW a \in Sems, Waiting(a)' # {}
               PROVE  val'[a] <= Cardinality(InFlight(a)')
    BY DEF WakeupInv
  <1> DEFINE F == InFlight(a)
  <1>1. F \in SUBSET Gs /\ F' \in SUBSET Gs /\ val[a] \in Nat /\ val'[a] \in Nat
    BY DEF InFlight, SemaType
  <1>2. Fewer(a) => val[a] <= Cardinality(F)
    BY DEF Fewer, WakeupInv
  <1> HIDE DEF F
  <1>3. Cardinality(F) \in Nat /\ Cardinality(F') \in Nat
    BY <1>1, Count
  <1>4. ASSUME NEW g \in F PROVE Cardinality(F \ {g}) = Cardinality(F) - 1
    BY <1>1, Count
  <1>5. ASSUME NEW g \in Gs \ F PROVE Cardinality(F \cup {g}) = Cardinality(F) + 1
    BY <1>1, Count
  <1>6. ASSUME NEW g \in F, NEW h \in Gs \ F
        PROVE  Cardinality((F \ {g}) \cup {h}) = Cardinality(F)
    <2>1. (F \ {g}) \in SUBSET Gs /\ h \in Gs \ (F \ {g})
      BY <1>1
    <2>2. Cardinality((F \ {g}) \cup {h}) = Cardinality(F \ {g}) + 1
      BY <2>1, Count
    <2> QED
      BY <1>3, <1>4, <2>2
  <1>7. Covered(a)
    OBVIOUS
  <1>8. \/ val'[a] = 0
        \/ Fewer(a) /\ val'[a] <= val[a] /\ Cardinality(F') = Cardinality(F)
        \/ Fewer(a) /\ val'[a] <= val[a] - 1 /\ Cardinality(F') = Cardinality(F) - 1
        \/ Fewer(a) /\ val'[a] <= val[a] + 1 /\ Cardinality(F') = Cardinality(F) + 1
    BY <1>4, <1>5, <1>6, <1>7 DEF Covered, F
  <1>9. val'[a] <= Cardinality(F')
    BY <1>1, <1>2, <1>3, <1>8
  <1> QED
    BY <1>9 DEF F

LEMMA AcquireSema ==
  ASSUME TypeOK, SemaInv, NEW g \in Gs, NEW l \in Locations,
         pc[g] \in {"rsem", "wsem"}, Semacquire(g, l)
  PROVE  SemaType' /\ SemaInv'
  <1> USE DEF TypeOK, SemaType, Sems, Acquiring, Releasing
  <1> DEFINE a0 == addr[g]
  <1>0. /\ pc' \in [Gs -> Locations]
        /\ \A h \in Gs : h # g \/ at'[h] # "out" => pc'[h] = pc[h] /\ addr'[h] = addr[h]
        /\ \A h \in Gs : addr[h] \in Sems /\ addr'[h] \in Sems
    BY Frame DEF Semacquire
  <1>1. at[g] \notin Releasing /\ \A h \in Gs : OnQueue(queue, h) => at[h] = "parked"
    BY DEF SemaInv, CallsInv, QueueInv
  <1>2. CASE S!Semacquire(g) \/ S!AcquireRetry(g)
    <2>1. /\ at' = [at EXCEPT ![g] = IF val[a0] > 0 THEN "out" ELSE "lock"]
          /\ val' = IF val[a0] > 0 THEN [val EXCEPT ![a0] = @ - 1] ELSE val
          /\ at[g] \in {"out", "retry"} /\ UNCHANGED <<nwait, holder, queue, woke>>
      BY <1>0, <1>2 DEF S!Semacquire, S!AcquireRetry, S!cansemacquire, S!Goto
    <2>2. SemaType'
      BY <1>0, <2>1
    <2>3. CallsInv'
      BY <1>0, <2>1 DEF SemaInv, CallsInv
    <2>4. QueueInv'
      BY <1>0, <1>1, <2>1 DEF SemaInv, QueueInv
    <2>5. NwaitInv'
      BY <1>0, <2>1 DEF SemaInv, NwaitInv, Counted
    <2>6. ASSUME NEW a \in Sems PROVE Covered(a)
      <3>1. Fewer(a)
        BY <1>0, <1>1, <2>1, FewerWaiting
      <3>2. CASE a = a0 /\ val[a] > 0
        <4>1. CASE at[g] = "retry"
          BY <1>0, <2>1, <3>1, <3>2, <4>1 DEF Covered, InFlight
        <4>2. CASE at[g] = "out"
          BY <1>0, <2>1, <3>1, <3>2, <4>2 DEF Covered, InFlight
        <4> QED
          BY <2>1, <4>1, <4>2
      <3>3. CASE a # a0
        BY <1>0, <2>1, <3>1, <3>3 DEF Covered, InFlight
      <3>4. CASE val[a] = 0
        BY <2>1, <3>4 DEF Covered
      <3> QED
        BY <3>2, <3>3, <3>4
    <2> QED
      BY <2>2, <2>3, <2>4, <2>5, <2>6, WakeupStep DEF SemaInv
  <1>3. CASE S!AcquireLock(g)
    <2>1. /\ at' = [at EXCEPT ![g] = "check"] /\ at[g] = "lock"
          /\ holder = NoG /\ holder' = g /\ nwait' = nwait + 1
          /\ UNCHANGED <<val, queue, woke>>
      BY <1>3 DEF S!AcquireLock, S!Goto
    <2>2. SemaType'
      BY <2>1
    <2>3. CallsInv'
      BY <1>0, <2>1, NoGAssumption DEF SemaInv, CallsInv
    <2>4. QueueInv'
      BY <1>0, <1>1, <2>1 DEF SemaInv, QueueInv
    <2>5. NwaitInv'
      <3>1. Counted' = Counted \cup {g} /\ g \notin Counted /\ Counted \in SUBSET Gs
        BY <1>1, <2>1 DEF Counted
      <3> QED
        BY <2>1, <3>1, Count DEF SemaInv, NwaitInv
    <2>6. ASSUME NEW a \in Sems PROVE Covered(a)
      <3>1. Fewer(a)
        BY <1>0, <1>1, <2>1, FewerWaiting
      <3> QED
        BY <1>0, <2>1, <3>1 DEF Covered, InFlight
    <2> QED
      BY <2>2, <2>3, <2>4, <2>5, <2>6, WakeupStep DEF SemaInv
  <1>4. CASE S!AcquireCheck(g)
    <2>1. /\ at' = [at EXCEPT ![g] = IF val[a0] > 0 THEN "undo" ELSE "park"]
          /\ val' = IF val[a0] > 0 THEN [val EXCEPT ![a0] = @ - 1] ELSE val
          /\ at[g] = "check" /\ UNCHANGED <<nwait, holder, queue, woke>>
      BY <1>0, <1>4 DEF S!AcquireCheck, S!cansemacquire, S!Goto
    <2>2. SemaType'
      BY <1>0, <2>1
    <2>3. CallsInv'
      BY <1>0, <2>1 DEF SemaInv, CallsInv
    <2>4. QueueInv'
      BY <1>0, <1>1, <2>1 DEF SemaInv, QueueInv
    <2>5. NwaitInv'
      <3>1. Counted' = Counted
        BY <2>1 DEF Counted
      <3> QED
        BY <2>1, <3>1 DEF SemaInv, NwaitInv
    <2>6. ASSUME NEW a \in Sems PROVE Covered(a)
      <3>1. CASE val[a0] = 0 /\ a = a0
        BY <2>1, <3>1 DEF Covered
      <3>2. CASE val[a0] > 0
        <4>1. Fewer(a)
          BY <1>0, <1>1, <2>1, <3>2, FewerWaiting
        <4> QED
          BY <1>0, <2>1, <3>2, <4>1 DEF Covered, InFlight
      <3>3. CASE a # a0
        <4>1. Fewer(a)
          BY <1>0, <1>1, <2>1, <3>3 DEF Fewer, Waiting
        <4> QED
          BY <1>0, <2>1, <3>3, <4>1 DEF Covered, InFlight
      <3> QED
        BY <1>0, <3>1, <3>2, <3>3
    <2> QED
      BY <2>2, <2>3, <2>4, <2>5, <2>6, WakeupStep DEF SemaInv
  <1>5. CASE S!AcquireUndo(g)
    <2>1. /\ at' = [at EXCEPT ![g] = "out"] /\ at[g] = "undo"
          /\ holder' = NoG /\ nwait' = nwait - 1 /\ UNCHANGED <<val, queue, woke>>
      BY <1>5 DEF S!AcquireUndo, S!Goto
    <2>2. SemaType'
      BY <2>1
    <2>3. CallsInv'
      BY <1>0, <2>1, NoGAssumption DEF SemaInv, CallsInv
    <2>4. QueueInv'
      BY <1>0, <1>1, <2>1 DEF SemaInv, QueueInv
    <2>5. NwaitInv'
      <3>1. Counted' = Counted \ {g} /\ g \in Counted /\ Counted \in SUBSET Gs
        BY <1>1, <2>1 DEF Counted
      <3> QED
        BY <2>1, <3>1, Count DEF SemaInv, NwaitInv
    <2>6. ASSUME NEW a \in Sems PROVE Covered(a)
      <3>1. Fewer(a)
        BY <1>0, <1>1, <2>1, FewerWaiting
      <3> QED
        BY <1>0, <2>1, <3>1 DEF Covered, InFlight
    <2> QED
      BY <2>2, <2>3, <2>4, <2>5, <2>6, WakeupStep DEF SemaInv
  <1>6. CASE S!AcquirePark(g)
    <2>1. /\ at' = [at EXCEPT ![g] = "parked"] /\ at[g] = "park"
          /\ holder' = NoG /\ queue' = Append(queue, g) /\ UNCHANGED <<val, nwait, woke>>
      BY <1>6 DEF S!AcquirePark, S!Goto
    <2>2. /\ queue' \in Seq(Gs) /\ NoRepeat(queue')
          /\ \A h \in Gs : OnQueue(queue', h) <=> h = g \/ OnQueue(queue, h)
      BY <1>1, <2>1, Enqueue DEF SemaInv, QueueInv
    <2>3. SemaType'
      BY <2>1, <2>2
    <2>4. CallsInv'
      BY <1>0, <2>1, NoGAssumption DEF SemaInv, CallsInv
    <2>5. QueueInv'
      BY <1>0, <1>1, <2>1, <2>2 DEF SemaInv, QueueInv
    <2>6. NwaitInv'
      <3>1. Counted' = Counted
        BY <2>1, <2>2 DEF Counted
      <3> QED
        BY <2>1, <3>1 DEF SemaInv, NwaitInv
    <2>7. ASSUME NEW a \in Sems PROVE Covered(a)
      <3>1. Fewer(a)
        BY <1>0, <1>1, <2>1, <2>2, FewerWaiting
      <3> QED
        BY <1>0, <2>1, <3>1 DEF Covered, InFlight
    <2> QED
      BY <2>3, <2>4, <2>5, <2>6, <2>7, WakeupStep DEF SemaInv
  <1> QED
    BY <1>2, <1>3, <1>4, <1>5, <1>6 DEF Semacquire, S!SemacquireStep

LEMMA ReleaseSema ==
  ASSUME TypeOK, SemaInv, NEW g \in Gs, NEW l \in Locations,
         pc[g] \in {"rwake", "wrelease"}, Semrelease(g, l)
  PROVE  SemaType' /\ SemaInv'
  <1> USE DEF TypeOK, SemaType, Sems, Acquiring, Releasing
  <1> DEFINE a0 == addr[g]
  <1>0. /\ pc' \in [Gs -> Locations]
        /\ \A h \in Gs : h # g \/ at'[h] # "out" => pc'[h] = pc[h] /\ addr'[h] = addr[h]
        /\ \A h \in Gs : addr[h] \in Sems /\ addr'[h] \in Sems
    BY Frame DEF Semrelease
  <1>1. at[g] \notin Acquiring /\ \A h \in Gs : OnQueue(queue, h) => at[h] = "parked"
    BY DEF SemaInv, CallsInv, QueueInv
  <1>2. CASE S!Semrelease(g)
    <2>1. /\ at' = [at EXCEPT ![g] = "easy"] /\ at[g] = "out"
          /\ val' = [val EXCEPT ![a0] = @ + 1]
          /\ UNCHANGED <<nwait, holder, queue, woke>>
      BY <1>2 DEF S!Semrelease, S!Goto
    <2>2. SemaType'
      BY <1>0, <2>1
    <2>3. CallsInv'
      BY <1>0, <2>1 DEF SemaInv, CallsInv
    <2>4. QueueInv'
      BY <1>0, <1>1, <2>1 DEF SemaInv, QueueInv
    <2>5. NwaitInv'
      BY <1>0, <2>1 DEF SemaInv, NwaitInv, Counted
    <2>6. ASSUME NEW a \in Sems PROVE Covered(a)
      <3>1. Fewer(a)
        BY <1>0, <1>1, <2>1, FewerWaiting
      <3>2. CASE a = a0
        <4>1. g \in Gs \ InFlight(a) /\ InFlight(a)' = InFlight(a) \cup {g}
          BY <1>0, <2>1, <3>2 DEF InFlight
        <4> QED
          BY <1>0, <2>1, <3>1, <3>2, <4>1 DEF Covered
      <3>3. CASE a # a0
        BY <1>0, <2>1, <3>1, <3>3 DEF Covered, InFlight
      <3> QED
        BY <3>2, <3>3
    <2> QED
      BY <2>2, <2>3, <2>4, <2>5, <2>6, WakeupStep DEF SemaInv
  <1>3. ASSUME at' = [at EXCEPT ![g] = "out"], at[g] \in {"easy", "search"},
               UNCHANGED <<val, nwait, holder, queue, woke>>,
               \A a \in Sems : a = a0 => Waiting(a)' = {}
        PROVE  SemaType' /\ SemaInv'
    <2>2. SemaType'
      BY <1>0, <1>3
    <2>3. CallsInv'
      BY <1>0, <1>3 DEF SemaInv, CallsInv
    <2>4. QueueInv'
      BY <1>0, <1>1, <1>3 DEF SemaInv, QueueInv
    <2>5. NwaitInv'
      BY <1>0, <1>3 DEF SemaInv, NwaitInv, Counted
    <2>6. ASSUME NEW a \in Sems PROVE Covered(a)
      <3>1. Fewer(a)
        BY <1>0, <1>1, <1>3, FewerWaiting
      <3>2. CASE a = a0
        BY <1>3, <3>2 DEF Covered
      <3>3. CASE a # a0
        BY <1>0, <1>3, <3>1, <3>3 DEF Covered, InFlight
      <3> QED
        BY <3>2, <3>3
    <2> QED
      BY <2>2, <2>3, <2>4, <2>5, <2>6, WakeupStep DEF SemaInv
  <1>4. CASE S!ReleaseEasy(g)
    <2>1. CASE nwait = 0
      <3>1. Counted = {}
        BY <2>1, Count DEF SemaInv, NwaitInv, Counted
      <3>2. /\ at' = [at EXCEPT ![g] = "out"] /\ at[g] = "easy"
            /\ UNCHANGED <<val, nwait, holder, queue, woke>>
        BY <1>4, <2>1 DEF S!ReleaseEasy, S!Goto
      <3>3. \A a \in Sems : Waiting(a)' = {}
        BY <3>1, <3>2 DEF Counted, Waiting
      <3> QED
        BY <1>3, <3>2, <3>3
    <2>2. CASE nwait # 0
      <3>1. /\ at' = [at EXCEPT ![g] = "search"] /\ at[g] = "easy"
            /\ UNCHANGED <<val, nwait, holder, queue, woke>>
        BY <1>4, <2>2 DEF S!ReleaseEasy, S!Goto
      <3>2. SemaType'
        BY <1>0, <3>1
      <3>3. CallsInv'
        BY <1>0, <3>1 DEF SemaInv, CallsInv
      <3>4. QueueInv'
        BY <1>0, <1>1, <3>1 DEF SemaInv, QueueInv
      <3>5. NwaitInv'
        BY <1>0, <3>1 DEF SemaInv, NwaitInv, Counted
      <3>6. ASSUME NEW a \in Sems PROVE Covered(a)
        <4>1. Fewer(a)
          BY <1>0, <1>1, <3>1, FewerWaiting
        <4> QED
          BY <1>0, <3>1, <4>1 DEF Covered, InFlight
      <3> QED
        BY <3>2, <3>3, <3>4, <3>5, <3>6, WakeupStep DEF SemaInv
    <2> QED
      BY <2>1, <2>2
  <1>5. CASE S!ReleaseSearch(g)
    <2>1. at[g] = "search" /\ holder = NoG /\ UNCHANGED <<val, holder>>
      BY <1>5 DEF S!ReleaseSearch
    <2>2. \A h \in Gs : at[h] \notin {"check", "undo", "park"}
      BY <2>1, NoGAssumption DEF SemaInv, CallsInv
    <2>3. CASE nwait = 0 \/ S!WaitersOn(addr[g]) = {}
      <3>1. /\ at' = [at EXCEPT ![g] = "out"] /\ UNCHANGED <<nwait, queue, woke>>
        BY <1>5, <2>3 DEF S!ReleaseSearch, S!Goto
      <3>2. \A h \in Gs : addr[h] = a0 => ~OnQueue(queue, h)
        <4>1. CASE nwait = 0
          <5>1. Counted = {}
            BY <4>1, Count DEF SemaInv, NwaitInv, Counted
          <5> QED
            BY <5>1 DEF Counted
        <4>2. CASE S!WaitersOn(addr[g]) = {}
          BY <4>2 DEF S!WaitersOn, OnQueue
        <4> QED
          BY <2>3, <4>1, <4>2
      <3>3. ASSUME NEW a \in Sems, a = a0 PROVE Waiting(a)' = {}
        <4>1. \A h \in Gs : at'[h] # "park" /\ (OnQueue(queue', h) => addr'[h] # a0)
          BY <1>0, <1>1, <2>1, <2>2, <3>1, <3>2
        <4> QED
          BY <3>3, <4>1 DEF Waiting
      <3> QED
        BY <1>3, <2>1, <3>1, <3>3
    <2>4. CASE ~(nwait = 0 \/ S!WaitersOn(addr[g]) = {})
      <3> DEFINE k == S!Min(S!WaitersOn(addr[g]))
                 u == queue[k]
      <3>1. /\ at' = [at EXCEPT ![g] = "ready"] /\ nwait' = nwait - 1
            /\ woke' = [woke EXCEPT ![g] = u] /\ queue' = S!RemoveAt(queue, k)
        BY <1>5, <2>4 DEF S!ReleaseSearch, S!Goto
      <3>2. k \in DOMAIN queue /\ addr[queue[k]] = a0
        <4>1. DOMAIN queue \subseteq Nat
          BY LenProperties
        <4>2. S!WaitersOn(addr[g]) \in SUBSET Nat
          BY <4>1 DEF S!WaitersOn
        <4>3. k \in S!WaitersOn(addr[g])
          BY <2>4, <4>2, MinFacts
        <4> QED
          BY <4>3 DEF S!WaitersOn
      <3> HIDE DEF k
      <3>3. /\ queue' \in Seq(Gs) /\ NoRepeat(queue')
            /\ \A h \in Gs : OnQueue(queue', h) <=> h # u /\ OnQueue(queue, h)
        BY <3>1, <3>2, Dequeue DEF SemaInv, QueueInv
      <3>4. u \in Gs /\ OnQueue(queue, u)
        BY <3>2 DEF OnQueue
      <3> HIDE DEF u
      <3>5. at[u] = "parked" /\ addr[u] = a0 /\ \A h \in Gs : woke[h] # u
        BY <1>1, <3>2, <3>4, NoGAssumption DEF u, SemaInv, QueueInv
      <3>6. SemaType'
        BY <2>1, <3>1, <3>3, <3>4
      <3>7. CallsInv'
        BY <1>0, <2>1, <3>1 DEF SemaInv, CallsInv
      <3>8. QueueInv'
        <4>1. \A h \in Gs : OnQueue(queue', h) => at'[h] = "parked"
          BY <1>0, <1>1, <2>1, <3>1, <3>3, <3>4, <3>5
        <4>2. \A h \in Gs : woke'[h] # NoG <=> at'[h] = "ready"
          BY <1>0, <1>1, <2>1, <3>1, <3>3, <3>4, <3>5, NoGAssumption DEF SemaInv, QueueInv
        <4>3. \A h \in Gs : woke'[h] # NoG =>
                /\ at'[woke'[h]] = "parked" /\ addr'[woke'[h]] = addr'[h]
                /\ ~OnQueue(queue', woke'[h])
          BY <1>0, <1>1, <2>1, <3>1, <3>3, <3>4, <3>5, NoGAssumption DEF SemaInv, QueueInv
        <4>4. \A h, i \in Gs : woke'[h] # NoG /\ woke'[i] = woke'[h] => i = h
          BY <1>0, <1>1, <2>1, <3>1, <3>3, <3>4, <3>5, NoGAssumption DEF SemaInv, QueueInv
        <4>5. \A h \in Gs : at'[h] = "parked" =>
                OnQueue(queue', h) \/ \E i \in Gs : woke'[i] = h
          BY <1>0, <1>1, <2>1, <3>1, <3>3, <3>4, <3>5, NoGAssumption DEF SemaInv, QueueInv
        <4> QED
          BY <4>1, <4>2, <4>3, <4>4, <4>5, <3>3 DEF QueueInv
      <3>9. NwaitInv'
        <4>1. Counted' = Counted \ {u} /\ u \in Counted /\ Counted \in SUBSET Gs
          BY <1>1, <2>1, <3>1, <3>3, <3>4, <3>5 DEF Counted
        <4> QED
          BY <3>1, <4>1, Count DEF SemaInv, NwaitInv
      <3>10. ASSUME NEW a \in Sems PROVE Covered(a)
        <4>1. Fewer(a)
          BY <1>0, <1>1, <2>1, <3>1, <3>3, FewerWaiting
        <4> QED
          BY <1>0, <2>1, <3>1, <4>1 DEF Covered, InFlight
      <3> QED
        BY <3>6, <3>7, <3>8, <3>9, <3>10, WakeupStep DEF SemaInv
    <2> QED
      BY <2>3, <2>4
  <1>6. CASE S!ReleaseReady(g)
    <2> DEFINE u == woke[g]
    <2>1. /\ at' = [at EXCEPT ![g] = "out", ![u] = "retry"] /\ at[g] = "ready"
          /\ woke' = [woke EXCEPT ![g] = NoG] /\ UNCHANGED <<val, nwait, holder, queue>>
      BY <1>6 DEF S!ReleaseReady
    <2>2. /\ u \in Gs /\ u # NoG /\ at[u] = "parked" /\ addr[u] = a0
          /\ ~OnQueue(queue, u) /\ \A h \in Gs : woke[h] = u => h = g
      BY <2>1, NoGAssumption DEF SemaInv, QueueInv
    <2>3. u # g
      BY <2>1, <2>2
    <2> HIDE DEF u
    <2>4. SemaType'
      BY <2>1
    <2>5. CallsInv'
      BY <1>0, <2>1, <2>2, <2>3 DEF SemaInv, CallsInv
    <2>6. QueueInv'
      <3>1. \A h \in Gs : OnQueue(queue', h) => at'[h] = "parked"
        BY <1>0, <1>1, <2>1, <2>2, <2>3
      <3>2. \A h \in Gs : woke'[h] # NoG <=> at'[h] = "ready"
        BY <1>0, <1>1, <2>1, <2>2, <2>3, NoGAssumption DEF SemaInv, QueueInv, u
      <3>3. \A h \in Gs : woke'[h] # NoG =>
              /\ at'[woke'[h]] = "parked" /\ addr'[woke'[h]] = addr'[h]
              /\ ~OnQueue(queue', woke'[h])
        BY <1>0, <1>1, <2>1, <2>2, <2>3, NoGAssumption DEF SemaInv, QueueInv, u
      <3>4. \A h, i \in Gs : woke'[h] # NoG /\ woke'[i] = woke'[h] => i = h
        BY <1>0, <1>1, <2>1, <2>2, <2>3, NoGAssumption DEF SemaInv, QueueInv, u
      <3>5. \A h \in Gs : at'[h] = "parked" =>
              OnQueue(queue', h) \/ \E i \in Gs : woke'[i] = h
        BY <1>0, <1>1, <2>1, <2>2, <2>3, NoGAssumption DEF SemaInv, QueueInv, u
      <3> QED
        BY <3>1, <3>2, <3>3, <3>4, <3>5, <2>1 DEF SemaInv, QueueInv
    <2>7. NwaitInv'
      <3>1. Counted' = Counted
        BY <1>1, <2>1, <2>2, <2>3 DEF Counted
      <3> QED
        BY <2>1, <3>1 DEF SemaInv, NwaitInv
    <2>8. ASSUME NEW a \in Sems PROVE Covered(a)
      <3>1. Fewer(a)
        BY <1>0, <1>1, <2>1, <2>2, <2>3, FewerWaiting
      <3>2. CASE a = a0
        <4>1. /\ g \in InFlight(a) /\ u \in Gs \ InFlight(a)
              /\ InFlight(a)' = (InFlight(a) \ {g}) \cup {u}
          BY <1>0, <2>1, <2>2, <2>3, <3>2 DEF InFlight
        <4> QED
          BY <2>1, <3>1, <4>1 DEF Covered
      <3>3. CASE a # a0
        <4>1. InFlight(a)' = InFlight(a)
          BY <1>0, <2>1, <2>2, <2>3, <3>3 DEF InFlight
        <4> QED
          BY <2>1, <3>1, <4>1 DEF Covered
      <3> QED
        BY <3>2, <3>3
    <2> QED
      BY <2>4, <2>5, <2>6, <2>7, <2>8, WakeupStep DEF SemaInv
  <1> QED
    BY <1>2, <1>4, <1>5, <1>6 DEF Semrelease, S!SemreleaseStep

\* Steps of the lock outside its semaphores.
LEMMA KeepSema ==
  ASSUME TypeOK, SemaInv, NEW g \in Gs, NEW l \in Locations, at[g] = "out",
         Goto(g, l), UNCHANGED semavars
  PROVE  SemaType' /\ SemaInv'
  <1> USE DEF TypeOK, SemaType, semavars, Sems, Acquiring, Releasing
  <1>0. /\ \A h \in Gs : h # g => pc'[h] = pc[h] /\ addr'[h] = addr[h]
        /\ \A h \in Gs : OnQueue(queue, h) => at[h] = "parked"
    BY DEF Goto, addr, SemaInv, QueueInv
  <1>1. SemaType'
    OBVIOUS
  <1>2. CallsInv'
    BY <1>0 DEF SemaInv, CallsInv
  <1>3. QueueInv'
    BY <1>0 DEF SemaInv, QueueInv
  <1>4. NwaitInv'
    BY DEF SemaInv, NwaitInv, Counted
  <1>5. ASSUME NEW a \in Sems PROVE Covered(a)
    <2>1. Fewer(a)
      BY <1>0, FewerWaiting
    <2>2. InFlight(a)' = InFlight(a)
      BY <1>0 DEF InFlight
    <2> QED
      BY <2>1, <2>2 DEF Covered
  <1> QED
    BY <1>1, <1>2, <1>3, <1>4, <1>5, WakeupStep DEF SemaInv

----------------------------------------------------------------------------
(* What the lock sees of a step of its semaphores *)

LEMMA AcquireEffect ==
  ASSUME TypeOK, NEW g \in Gs, NEW l \in Locations, Semacquire(g, l)
  PROVE  /\ \A h \in Gs \ {g} : at'[h] = at[h]
         /\ \/ /\ val[addr[g]] > 0 /\ val' = [val EXCEPT ![addr[g]] = @ - 1]
               /\ at[g] # "undo"
               /\ \/ at'[g] = "undo" /\ pc' = pc
                  \/ at'[g] = "out" /\ pc' = [pc EXCEPT ![g] = l]
            \/ /\ at[g] = "undo" /\ at'[g] = "out"
               /\ val' = val /\ pc' = [pc EXCEPT ![g] = l]
            \/ /\ at[g] # "undo" /\ at'[g] \notin {"out", "undo"}
               /\ val' = val /\ pc' = pc
  <1> USE DEF TypeOK, SemaType, Semacquire, Goto, S!Goto, S!cansemacquire
  <1>1. at'[g] # "out" => pc' = pc
    OBVIOUS
  <1>2. CASE S!Semacquire(g)
    BY <1>1, <1>2 DEF S!Semacquire
  <1>3. CASE S!AcquireLock(g)
    BY <1>1, <1>3 DEF S!AcquireLock
  <1>4. CASE S!AcquireCheck(g)
    BY <1>1, <1>4 DEF S!AcquireCheck
  <1>5. CASE S!AcquireUndo(g)
    BY <1>5 DEF S!AcquireUndo
  <1>6. CASE S!AcquirePark(g)
    BY <1>1, <1>6 DEF S!AcquirePark
  <1>7. CASE S!AcquireRetry(g)
    BY <1>1, <1>7 DEF S!AcquireRetry
  <1> QED
    BY <1>2, <1>3, <1>4, <1>5, <1>6, <1>7 DEF S!SemacquireStep

LEMMA ReleaseEffect ==
  ASSUME TypeOK, SemaInv, NEW g \in Gs, NEW l \in Locations, Semrelease(g, l)
  PROVE  /\ \A h \in Gs \ {g} :
              at'[h] = at[h] \/ (at[h] = "parked" /\ at'[h] = "retry")
         /\ \/ /\ at[g] = "out" /\ at'[g] = "easy" /\ pc' = pc
               /\ val' = [val EXCEPT ![addr[g]] = @ + 1]
            \/ at[g] # "out" /\ at'[g] # "out" /\ at'[g] # "undo" /\ at[g] # "undo"
               /\ pc' = pc /\ val' = val
            \/ at[g] # "out" /\ at[g] # "undo" /\ at'[g] = "out"
               /\ pc' = [pc EXCEPT ![g] = l] /\ val' = val
  <1> USE DEF TypeOK, SemaType, Semrelease, Goto, S!Goto
  <1>1. at'[g] # "out" => pc' = pc
    OBVIOUS
  <1>2. CASE S!Semrelease(g)
    BY <1>1, <1>2 DEF S!Semrelease
  <1>3. CASE S!ReleaseEasy(g)
    BY <1>1, <1>3 DEF S!ReleaseEasy
  <1>4. CASE S!ReleaseSearch(g)
    BY <1>1, <1>4 DEF S!ReleaseSearch
  <1>5. CASE S!ReleaseReady(g)
    <2>1. woke[g] \in Gs /\ at[woke[g]] = "parked" /\ at[g] = "ready"
      BY <1>5, NoGAssumption DEF SemaInv, QueueInv, S!ReleaseReady
    <2> QED
      BY <1>1, <1>5, <2>1 DEF S!ReleaseReady
  <1> QED
    BY <1>2, <1>3, <1>4, <1>5 DEF S!SemreleaseStep

----------------------------------------------------------------------------
(* Every step keeps types and the semaphores' invariant *)

LEMMA NextSema ==
  ASSUME TypeOK, SemaInv, NEW g \in Gs, RLock(g) \/ Lock(g) \/ Step(g)
  PROVE  TypeOK' /\ SemaInv'
  <1>1. /\ "idle" \in Locations /\ "rsem" \in Locations /\ "reading" \in Locations
        /\ "rdepart" \in Locations /\ "rwake" \in Locations /\ "wlock" \in Locations
        /\ "announce" \in Locations /\ "wcount" \in Locations /\ "wsem" \in Locations
        /\ "writing" \in Locations /\ "wrelease" \in Locations
    BY DEF Locations
  <1>2. CASE RLockSem(g)
    <2>1. SemaType' /\ SemaInv'
      BY <1>1, <1>2, AcquireSema DEF RLockSem
    <2>2. pc' \in [Gs -> Locations]
      BY <1>1, <1>2 DEF RLockSem, Semacquire, TypeOK, Goto
    <2> QED
      BY <1>2, <2>1, <2>2 DEF RLockSem, rwvars, TypeOK
  <1>3. CASE LockSem(g)
    <2>1. SemaType' /\ SemaInv'
      BY <1>1, <1>3, AcquireSema DEF LockSem
    <2>2. pc' \in [Gs -> Locations]
      BY <1>1, <1>3 DEF LockSem, Semacquire, TypeOK, Goto
    <2> QED
      BY <1>3, <2>1, <2>2 DEF LockSem, rwvars, TypeOK
  <1>4. CASE RUnlockWake(g)
    <2>1. SemaType' /\ SemaInv'
      BY <1>1, <1>4, ReleaseSema DEF RUnlockWake
    <2>2. pc' \in [Gs -> Locations]
      BY <1>1, <1>4 DEF RUnlockWake, Semrelease, TypeOK, Goto
    <2> QED
      BY <1>4, <2>1, <2>2 DEF RUnlockWake, rwvars, TypeOK
  <1>5. CASE UnlockRelease(g) /\ Semrelease(g, "wrelease")
    <2>1. SemaType' /\ SemaInv'
      BY <1>1, <1>5, ReleaseSema DEF UnlockRelease
    <2>2. pc' \in [Gs -> Locations]
      BY <1>1, <1>5 DEF Semrelease, TypeOK, Goto
    <2>3. r' \in [Gs -> Int] /\ w' \in Gs \cup {NoG}
      BY <1>5 DEF UnlockRelease, TypeOK
    <2> QED
      BY <1>5, <2>1, <2>2, <2>3 DEF UnlockRelease, TypeOK
  <1>6. ASSUME NEW l \in Locations, at[g] = "out", Goto(g, l), UNCHANGED semavars,
               w' \in Gs \cup {NoG}, readerCount' \in Int, readerWait' \in Int,
               r' \in [Gs -> Int]
        PROVE  TypeOK' /\ SemaInv'
    <2>1. SemaType' /\ SemaInv'
      BY <1>6, KeepSema
    <2> QED
      BY <1>6, <2>1 DEF TypeOK, Goto
  <1>7. pc[g] \notin {"rsem", "wsem", "rwake", "wrelease"} => at[g] = "out"
    BY DEF SemaInv, CallsInv, TypeOK, SemaType
  <1>8. CASE RLock(g)
    BY <1>1, <1>6, <1>7, <1>8 DEF RLock, TypeOK
  <1>9. CASE RUnlock(g)
    BY <1>1, <1>6, <1>7, <1>9 DEF RUnlock, TypeOK
  <1>10. CASE RUnlockDepart(g)
    BY <1>1, <1>6, <1>7, <1>10 DEF RUnlockDepart, TypeOK
  <1>11. CASE Lock(g) \/ LockW(g)
    BY <1>1, <1>6, <1>7, <1>11 DEF Lock, LockW, TypeOK
  <1>12. CASE LockAnnounce(g)
    BY <1>1, <1>6, <1>7, <1>12, MaxReadersAssumption DEF LockAnnounce, TypeOK
  <1>13. CASE LockCount(g)
    BY <1>1, <1>6, <1>7, <1>13 DEF LockCount, TypeOK
  <1>14. CASE Unlock(g)
    BY <1>1, <1>6, <1>7, <1>14, MaxReadersAssumption DEF Unlock, TypeOK
  <1>15. CASE UnlockRelease(g) /\ ~Semrelease(g, "wrelease")
    BY <1>1, <1>6, <1>15 DEF UnlockRelease, TypeOK
  <1> QED
    BY <1>2, <1>3, <1>4, <1>5, <1>8, <1>9, <1>10, <1>11, <1>12, <1>13, <1>14, <1>15
       DEF Step

----------------------------------------------------------------------------
(* Every step keeps the lock's invariant *)

LEMMA NextOwner ==
  ASSUME TypeOK, OwnerInv, NEW g \in Gs, RLock(g) \/ Lock(g) \/ Step(g)
  PROVE  OwnerInv'
  <1> USE DEF TypeOK, OwnerInv, Goto, rwvars
  <1>1. CASE RLockSem(g) \/ LockSem(g) \/ RUnlockWake(g)
    BY <1>1 DEF RLockSem, LockSem, RUnlockWake, Semacquire, Semrelease
  <1>2. CASE RLock(g) \/ RUnlock(g) \/ RUnlockDepart(g) \/ Lock(g)
    BY <1>2 DEF RLock, RUnlock, RUnlockDepart, Lock
  <1>3. CASE LockW(g) \/ LockAnnounce(g) \/ LockCount(g) \/ Unlock(g)
    BY <1>3, NoGAssumption DEF LockW, LockAnnounce, LockCount, Unlock
  <1>4. CASE UnlockRelease(g)
    BY <1>4, NoGAssumption DEF UnlockRelease, Semrelease
  <1> QED
    BY <1>1, <1>2, <1>3, <1>4 DEF Step

\* The sizes that the invariant is about, and what OwnerInv says of Stage.
LEMMA Sizes ==
  ASSUME TypeOK, OwnerInv
  PROVE  /\ Inside \in SUBSET Gs /\ Blocked \in SUBSET Gs
         /\ Departing \in SUBSET Gs /\ Tokens \in SUBSET Gs
         /\ Cardinality(Inside) \in Nat /\ Cardinality(Blocked) \in Nat
         /\ Cardinality(Departing) \in Nat /\ Cardinality(Tokens) \in Nat
         /\ val["readerSem"] \in Nat /\ val["writerSem"] \in Nat
         /\ readerCount \in Int /\ readerWait \in Int /\ rwmutexMaxReaders \in Nat
         /\ \A g \in Gs : r[g] \in Int
         /\ \A g \in Gs : pc[g] \in {"announce", "wcount", "wsem", "writing", "wrelease"}
                            => w = g /\ Stage = pc[g]
  <1>1. /\ Inside \in SUBSET Gs /\ Blocked \in SUBSET Gs
        /\ Departing \in SUBSET Gs /\ Tokens \in SUBSET Gs
    BY DEF Inside, Blocked, Departing, Tokens
  <1>2. /\ Cardinality(Inside) \in Nat /\ Cardinality(Blocked) \in Nat
        /\ Cardinality(Departing) \in Nat /\ Cardinality(Tokens) \in Nat
    BY <1>1, Count
  <1>3. /\ val["readerSem"] \in Nat /\ val["writerSem"] \in Nat
        /\ readerCount \in Int /\ readerWait \in Int /\ rwmutexMaxReaders \in Nat
        /\ \A g \in Gs : r[g] \in Int
    BY MaxReadersAssumption DEF TypeOK, SemaType, Sems
  <1>4. \A g \in Gs : pc[g] \in {"announce", "wcount", "wsem", "writing", "wrelease"}
                        => w = g /\ Stage = pc[g]
    BY NoGAssumption DEF OwnerInv, Stage
  <1> QED
    BY <1>1, <1>2, <1>3, <1>4

\* There are too few readers to outweigh the writer's offset.
LEMMA FewReaders ==
  ASSUME TypeOK
  PROVE  /\ Cardinality(Inside) + Cardinality(Blocked) < rwmutexMaxReaders
         /\ \A g \in Gs : pc[g] = "idle" =>
              Cardinality(Inside) + Cardinality(Blocked) + 1 < rwmutexMaxReaders
  <1> DEFINE R == Inside \cup Blocked
  <1>1. /\ Inside \in SUBSET Gs /\ Blocked \in SUBSET Gs /\ R \in SUBSET Gs
        /\ Inside \cap Blocked = {}
        /\ \A g \in Gs : pc[g] = "idle" => g \in Gs \ R
    BY DEF Inside, Blocked
  <1>2. IsFiniteSet(Inside) /\ IsFiniteSet(Blocked)
    BY <1>1, FS_Subset, MaxReadersAssumption
  <1>3. Cardinality(R) = Cardinality(Inside) + Cardinality(Blocked) - Cardinality({})
    BY <1>1, <1>2, FS_Union
  <1>4. Cardinality({}) = 0
    BY FS_EmptySet
  <1> HIDE DEF R
  <1>5. Cardinality(Gs) \in Nat /\ Cardinality(Inside) \in Nat
        /\ Cardinality(Blocked) \in Nat /\ Cardinality(R) <= Cardinality(Gs)
    BY <1>1, Count
  <1>6. ASSUME NEW g \in Gs, pc[g] = "idle"
        PROVE  Cardinality(R) + 1 <= Cardinality(Gs)
    <2>1. g \in Gs \ R /\ R \cup {g} \in SUBSET Gs
      BY <1>1, <1>6
    <2> QED
      BY <1>1, <2>1, Count
  <1> QED
    BY <1>3, <1>4, <1>5, <1>6, MaxReadersAssumption

LEMMA NoneLeft ==
  ASSUME NEW i \in Nat, NEW j \in Nat, NEW k \in Nat, i + j + k = 0
  PROVE  i = 0 /\ j = 0 /\ k = 0
  OBVIOUS

LEMMA Carry ==
  ASSUME NEW i \in Int, NEW j \in Int
  PROVE  (i + 1) + (j - 1) = i + j
  OBVIOUS

LEMMA NextStage ==
  ASSUME IndInv, NEW g \in Gs, RLock(g) \/ Lock(g) \/ Step(g)
  PROVE  CountInv' /\ StageInv'
  <1> DEFINE nI == Cardinality(Inside)
             nB == Cardinality(Blocked)
             nD == Cardinality(Departing)
             nT == Cardinality(Tokens)
  <1>0. TypeOK /\ SemaInv /\ OwnerInv /\ CountInv /\ StageInv
    BY DEF IndInv
  <1>1. /\ Inside \in SUBSET Gs /\ Blocked \in SUBSET Gs
        /\ Departing \in SUBSET Gs /\ Tokens \in SUBSET Gs
        /\ nI \in Nat /\ nB \in Nat /\ nD \in Nat /\ nT \in Nat
        /\ val["readerSem"] \in Nat /\ val["writerSem"] \in Nat
        /\ readerCount \in Int /\ readerWait \in Int /\ rwmutexMaxReaders \in Nat
        /\ \A h \in Gs : r[h] \in Int
        /\ \A h \in Gs : pc[h] \in {"announce", "wcount", "wsem", "writing", "wrelease"}
                           => w = h /\ Stage = pc[h]
    BY <1>0, Sizes
  <1>2. nI + nB < rwmutexMaxReaders /\ (pc[g] = "idle" => nI + nB + 1 < rwmutexMaxReaders)
    BY <1>0, FewReaders
  <1>3. pc[g] \notin {"rsem", "wsem", "rwake", "wrelease"} => at[g] = "out"
    BY <1>0 DEF SemaInv, CallsInv, TypeOK, SemaType
  <1>4. pc \in [Gs -> Locations] /\ at \in [Gs -> {"out"} \cup Acquiring \cup Releasing]
        /\ val \in [Sems -> Nat] /\ r \in [Gs -> Int] /\ w \in Gs \cup {NoG}
    BY <1>0 DEF TypeOK, SemaType
  <1>5a. Stage # "free" => r[w] \in Int
    BY <1>4 DEF Stage
  \* Steps of goroutines that do not hold w.
  <1>5. ASSUME w' = w, pc[g] \notin {"announce", "wcount", "wsem", "writing", "wrelease"},
               \A h \in Gs \ {g} : pc'[h] = pc[h]
        PROVE  Stage' = Stage /\ (w # NoG => w \in Gs)
    BY <1>0, <1>4, <1>5 DEF OwnerInv, Stage
  <1> USE DEF Goto
  <1>6. CASE RLock(g)
    <2>1. /\ pc[g] = "idle" /\ at[g] = "out" /\ UNCHANGED <<w, readerWait, r, val, at>>
          /\ readerCount' = readerCount + 1
      BY <1>3, <1>6 DEF RLock, semavars
    <2>2. Stage' = Stage
      BY <1>4, <1>5, <1>6, <2>1 DEF RLock
    <2>3. CASE readerCount' < 0
      <3>1. Pending
        BY <1>0, <1>1, <2>1, <2>3 DEF CountInv
      <3>2. pc' = [pc EXCEPT ![g] = "rsem"]
        BY <1>6, <2>3 DEF RLock
      <3>3. /\ Blocked' = Blocked \cup {g} /\ g \in Gs \ Blocked
            /\ Inside' = Inside /\ Departing' = Departing /\ Tokens' = Tokens
        BY <1>4, <2>1, <3>2 DEF Inside, Blocked, Departing, Tokens
      <3>4. /\ Cardinality(Blocked') = nB + 1 /\ Cardinality(Inside') = nI
            /\ Cardinality(Departing') = nD /\ Cardinality(Tokens') = nT
        BY <1>1, <3>3, Count
      <3> QED
        BY <1>0, <1>1, <2>1, <2>2, <3>1, <3>4
           DEF CountInv, StageInv, Pending, ToLeave
    <2>4. CASE readerCount' >= 0
      <3>1. ~Pending
        BY <1>0, <1>1, <1>2, <2>1, <2>4 DEF CountInv
      <3>2. pc' = [pc EXCEPT ![g] = "reading"]
        BY <1>6, <2>4 DEF RLock
      <3>3. /\ Inside' = Inside \cup {g} /\ g \in Gs \ Inside
            /\ Blocked' = Blocked /\ Departing' = Departing /\ Tokens' = Tokens
        BY <1>4, <2>1, <3>2 DEF Inside, Blocked, Departing, Tokens
      <3>4. /\ Cardinality(Inside') = nI + 1 /\ Cardinality(Blocked') = nB
            /\ Cardinality(Departing') = nD /\ Cardinality(Tokens') = nT
        BY <1>1, <3>3, Count
      <3> QED
        BY <1>0, <1>1, <2>1, <2>2, <3>1, <3>4 DEF CountInv, StageInv, Pending, ToLeave
    <2> QED
      BY <1>1, <2>1, <2>3, <2>4
  <1>7. CASE RLockSem(g)
    <2>1. pc[g] = "rsem" /\ Semacquire(g, "reading") /\ UNCHANGED rwvars
          /\ addr[g] = "readerSem"
      BY <1>7 DEF RLockSem, addr
    <2>2. /\ \A h \in Gs \ {g} : at'[h] = at[h]
          /\ \/ /\ val["readerSem"] > 0 /\ val' = [val EXCEPT !["readerSem"] = @ - 1]
                /\ at[g] # "undo"
                /\ \/ at'[g] = "undo" /\ pc' = pc
                   \/ at'[g] = "out" /\ pc' = [pc EXCEPT ![g] = "reading"]
             \/ /\ at[g] = "undo" /\ at'[g] = "out"
                /\ val' = val /\ pc' = [pc EXCEPT ![g] = "reading"]
             \/ /\ at[g] # "undo" /\ at'[g] \notin {"out", "undo"}
                /\ val' = val /\ pc' = pc
      <3>1. "reading" \in Locations
        BY DEF Locations
      <3> QED
        BY <1>0, <2>1, <3>1, AcquireEffect
    <2>3. Stage' = Stage /\ UNCHANGED <<w, readerCount, readerWait, r>>
      BY <1>4, <1>5, <2>1, <2>2 DEF rwvars
    <2>4. CASE val' = val
      <3>1. Inside' = Inside /\ Blocked' = Blocked /\ Departing' = Departing /\ Tokens' = Tokens
        BY <1>1, <1>4, <2>1, <2>2, <2>4 DEF Inside, Blocked, Departing, Tokens, Sems
      <3> QED
        BY <1>0, <1>1, <2>3, <2>4, <3>1 DEF CountInv, StageInv, Pending, ToLeave
    <2>5. CASE val["readerSem"] > 0 /\ val' = [val EXCEPT !["readerSem"] = @ - 1]
      <3>1. /\ Inside' = Inside \cup {g} /\ g \in Gs \ Inside
            /\ Blocked' = Blocked \ {g} /\ g \in Blocked
            /\ Departing' = Departing /\ Tokens' = Tokens
        BY <1>1, <1>4, <2>1, <2>2, <2>5 DEF Inside, Blocked, Departing, Tokens, Sems
      <3>2. /\ Cardinality(Inside') = nI + 1 /\ Cardinality(Blocked') = nB - 1
            /\ Cardinality(Departing') = nD /\ Cardinality(Tokens') = nT
        BY <1>1, <3>1, Count
      <3>3. val'["readerSem"] = val["readerSem"] - 1 /\ val'["writerSem"] = val["writerSem"]
        BY <1>4, <2>5 DEF Sems
      <3>4. CountInv'
        BY <1>0, <1>1, <2>3, <3>2 DEF CountInv, Pending
      <3>5. ToLeave' = ToLeave
        BY <1>1, <3>2, <3>3 DEF ToLeave
      <3>6. StageInv'
        BY <1>0, <1>1, <1>5a, <2>3, <3>2, <3>3, <3>5 DEF StageInv, Pending
      <3> QED
        BY <3>4, <3>6
    <2> QED
      BY <2>2, <2>4, <2>5
  <1>8. CASE RUnlock(g)
    <2>1. /\ pc[g] = "reading" /\ at[g] = "out" /\ UNCHANGED <<w, readerWait, r, val, at>>
          /\ readerCount' = readerCount - 1
      BY <1>3, <1>8 DEF RUnlock, semavars
    <2>2. Stage' = Stage
      BY <1>4, <1>5, <1>8, <2>1 DEF RUnlock
    <2>3. g \in Inside /\ nI > 0
      <3>1. g \in Inside
        BY <2>1 DEF Inside
      <3>2. nI # 0
        BY <1>1, <3>1, Count
      <3> QED
        BY <1>1, <3>1, <3>2
    <2>4. CASE readerCount' < 0
      <3>1. Pending
        BY <1>0, <1>1, <2>1, <2>3, <2>4 DEF CountInv
      <3>2. pc' = [pc EXCEPT ![g] = "rdepart"]
        BY <1>8, <2>4 DEF RUnlock
      <3>3. /\ Inside' = Inside \ {g} /\ g \in Inside
            /\ Departing' = Departing \cup {g} /\ g \in Gs \ Departing
            /\ Blocked' = Blocked /\ Tokens' = Tokens
        BY <1>4, <2>1, <3>2 DEF Inside, Blocked, Departing, Tokens
      <3>4. /\ Cardinality(Inside') = nI - 1 /\ Cardinality(Blocked') = nB
            /\ Cardinality(Departing') = nD + 1 /\ Cardinality(Tokens') = nT
        BY <1>1, <3>3, Count
      <3> QED
        BY <1>0, <1>1, <2>1, <2>2, <2>3, <3>1, <3>4 DEF CountInv, StageInv, Pending, ToLeave
    <2>5. CASE readerCount' >= 0
      <3>1. ~Pending
        BY <1>0, <1>1, <1>2, <2>1, <2>5 DEF CountInv
      <3>2. pc' = [pc EXCEPT ![g] = "idle"]
        BY <1>8, <2>5 DEF RUnlock
      <3>3. /\ Inside' = Inside \ {g} /\ g \in Inside
            /\ Blocked' = Blocked /\ Departing' = Departing /\ Tokens' = Tokens
        BY <1>4, <2>1, <3>2 DEF Inside, Blocked, Departing, Tokens
      <3>4. /\ Cardinality(Inside') = nI - 1 /\ Cardinality(Blocked') = nB
            /\ Cardinality(Departing') = nD /\ Cardinality(Tokens') = nT
        BY <1>1, <3>3, Count
      <3> QED
        BY <1>0, <1>1, <2>1, <2>2, <3>1, <3>4 DEF CountInv, StageInv, Pending, ToLeave
    <2> QED
      BY <1>1, <2>1, <2>4, <2>5
  <1>9. CASE RUnlockDepart(g)
    <2>1. /\ pc[g] = "rdepart" /\ at[g] = "out" /\ UNCHANGED <<w, readerCount, r, val, at>>
          /\ readerWait' = readerWait - 1
      BY <1>3, <1>9 DEF RUnlockDepart, semavars
    <2>2. Stage' = Stage
      BY <1>4, <1>5, <1>9, <2>1 DEF RUnlockDepart
    <2>3. g \in Departing /\ nD > 0
      <3>1. g \in Departing
        BY <2>1 DEF Departing
      <3>2. nD # 0
        BY <1>1, <3>1, Count
      <3> QED
        BY <1>1, <3>1, <3>2
    <2>4. Stage \in {"wcount", "wsem"}
      BY <1>0, <1>1, <2>3 DEF CountInv, StageInv, Pending, ToLeave
    <2>5. CASE readerWait' = 0
      <3>1. pc' = [pc EXCEPT ![g] = "rwake"]
        BY <1>9, <2>5 DEF RUnlockDepart
      <3>2. /\ Departing' = Departing \ {g} /\ g \in Departing
            /\ Tokens' = Tokens \cup {g} /\ g \in Gs \ Tokens
            /\ Inside' = Inside /\ Blocked' = Blocked
        BY <1>4, <2>1, <3>1 DEF Inside, Blocked, Departing, Tokens
      <3>3. /\ Cardinality(Inside') = nI /\ Cardinality(Blocked') = nB
            /\ Cardinality(Departing') = nD - 1 /\ Cardinality(Tokens') = nT + 1
        BY <1>1, <3>2, Count
      <3> QED
        BY <1>0, <1>1, <2>1, <2>2, <2>3, <2>4, <2>5, <3>3 DEF CountInv, StageInv, Pending, ToLeave
    <2>6. CASE readerWait' # 0
      <3>1. pc' = [pc EXCEPT ![g] = "idle"]
        BY <1>9, <2>6 DEF RUnlockDepart
      <3>2. /\ Departing' = Departing \ {g} /\ g \in Departing
            /\ Tokens' = Tokens /\ Inside' = Inside /\ Blocked' = Blocked
        BY <1>4, <2>1, <3>1 DEF Inside, Blocked, Departing, Tokens
      <3>3. /\ Cardinality(Inside') = nI /\ Cardinality(Blocked') = nB
            /\ Cardinality(Departing') = nD - 1 /\ Cardinality(Tokens') = nT
        BY <1>1, <3>2, Count
      <3> QED
        BY <1>0, <1>1, <1>5a, <2>1, <2>2, <2>3, <2>4, <2>6, <3>3
           DEF CountInv, StageInv, Pending, ToLeave
    <2> QED
      BY <2>5, <2>6
  <1>10. CASE RUnlockWake(g)
    <2>1. pc[g] = "rwake" /\ Semrelease(g, "idle") /\ UNCHANGED rwvars
          /\ addr[g] = "writerSem"
      BY <1>10 DEF RUnlockWake, addr
    <2>2. /\ \A h \in Gs \ {g} :
               at'[h] = at[h] \/ (at[h] = "parked" /\ at'[h] = "retry")
          /\ \/ /\ at[g] = "out" /\ at'[g] = "easy" /\ pc' = pc
                /\ val' = [val EXCEPT !["writerSem"] = @ + 1]
             \/ at[g] # "out" /\ at'[g] # "out" /\ pc' = pc /\ val' = val
             \/ at[g] # "out" /\ pc' = [pc EXCEPT ![g] = "idle"] /\ val' = val
      <3>1. "idle" \in Locations
        BY DEF Locations
      <3> QED
        BY <1>0, <2>1, <3>1, ReleaseEffect
    <2>3. Stage' = Stage /\ UNCHANGED <<w, readerCount, readerWait, r>>
      BY <1>4, <1>5, <2>1, <2>2 DEF rwvars
    <2>4. CASE val' = val
      <3>1. Inside' = Inside /\ Blocked' = Blocked /\ Departing' = Departing /\ Tokens' = Tokens
        BY <1>1, <1>4, <2>1, <2>2, <2>4 DEF Inside, Blocked, Departing, Tokens, Sems
      <3> QED
        BY <1>0, <1>1, <2>3, <2>4, <3>1 DEF CountInv, StageInv, Pending, ToLeave
    <2>5. CASE at[g] = "out" /\ val' = [val EXCEPT !["writerSem"] = @ + 1]
      <3>1. /\ Tokens' = Tokens \ {g} /\ g \in Tokens
            /\ Inside' = Inside /\ Blocked' = Blocked /\ Departing' = Departing
        BY <1>4, <2>1, <2>2, <2>5 DEF Inside, Blocked, Departing, Tokens
      <3>2. /\ Cardinality(Inside') = nI /\ Cardinality(Blocked') = nB
            /\ Cardinality(Departing') = nD /\ Cardinality(Tokens') = nT - 1
        BY <1>1, <3>1, Count
      <3>3. val'["readerSem"] = val["readerSem"] /\ val'["writerSem"] = val["writerSem"] + 1
        BY <1>4, <2>5 DEF Sems
      <3> QED
        BY <1>0, <1>1, <1>5a, <2>3, <3>2, <3>3 DEF CountInv, StageInv, Pending, ToLeave
    <2> QED
      BY <2>2, <2>4, <2>5
  <1>11. CASE Lock(g) \/ LockW(g)
    <2>1. /\ pc[g] \in {"idle", "wlock"} /\ at[g] = "out"
          /\ UNCHANGED <<readerCount, readerWait, r, val, at>>
          /\ pc' = [pc EXCEPT ![g] = IF Lock(g) THEN "wlock" ELSE "announce"]
      BY <1>3, <1>11 DEF Lock, LockW, semavars
    <2>2. Inside' = Inside /\ Blocked' = Blocked /\ Departing' = Departing /\ Tokens' = Tokens
      BY <1>4, <2>1 DEF Inside, Blocked, Departing, Tokens
    <2>3. Stage' = Stage \/ (Stage = "free" /\ Stage' = "announce")
      <3>1. CASE Lock(g)
        BY <1>4, <1>5, <2>1, <3>1 DEF Lock
      <3>2. CASE LockW(g)
        BY <1>4, <3>2, NoGAssumption DEF LockW, Stage
      <3> QED
        BY <1>11, <3>1, <3>2
    <2>4. Stage' \in {"wcount", "wrelease"} => r'[w'] = r[w]
      <3>1. CASE Lock(g)
        BY <2>1, <3>1 DEF Lock
      <3>2. CASE LockW(g)
        BY <2>1, <3>2, <1>4, NoGAssumption DEF LockW, Stage
      <3> QED
        BY <1>11, <3>1, <3>2
    <2> QED
      BY <1>0, <1>1, <1>5a, <2>1, <2>2, <2>3, <2>4 DEF CountInv, StageInv, Pending, ToLeave
  <1>12. CASE LockAnnounce(g)
    <2>1. /\ pc[g] = "announce" /\ at[g] = "out" /\ UNCHANGED <<w, readerWait, val, at>>
          /\ r' = [r EXCEPT ![g] = readerCount]
          /\ readerCount' = readerCount - rwmutexMaxReaders
          /\ pc' = [pc EXCEPT ![g] = IF readerCount = 0 THEN "writing" ELSE "wcount"]
      BY <1>3, <1>12 DEF LockAnnounce, semavars
    <2>2. Inside' = Inside /\ Blocked' = Blocked /\ Departing' = Departing /\ Tokens' = Tokens
      BY <1>4, <2>1 DEF Inside, Blocked, Departing, Tokens
    <2>3. w = g /\ Stage = "announce"
      BY <1>1, <2>1
    <2>4. /\ Stage' = IF readerCount = 0 THEN "writing" ELSE "wcount"
          /\ r'[w'] = readerCount
      BY <1>4, <2>1, <2>3, NoGAssumption DEF Stage
    <2>5. /\ readerWait = 0 /\ nD = 0 /\ val["readerSem"] = nB
          /\ val["writerSem"] + nT = 0 /\ readerCount = nI + nB
      BY <1>0, <1>1, <2>3 DEF CountInv, StageInv, Pending
    <2>6. ToLeave' = readerCount
      BY <1>1, <2>1, <2>2, <2>5 DEF ToLeave
    <2>7. CountInv'
      BY <1>1, <2>1, <2>2, <2>4, <2>5 DEF CountInv, Pending
    <2>8. StageInv'
      BY <1>1, <2>1, <2>2, <2>4, <2>5, <2>6 DEF StageInv, Pending
    <2> QED
      BY <2>7, <2>8
  <1>13. CASE LockCount(g)
    <2>1. /\ pc[g] = "wcount" /\ at[g] = "out" /\ UNCHANGED <<w, readerCount, val, at>>
          /\ readerWait' = readerWait + r[g]
          /\ pc' = [pc EXCEPT ![g] = IF readerWait' = 0 THEN "writing" ELSE "wsem"]
      BY <1>3, <1>13 DEF LockCount, semavars
    <2>2. Inside' = Inside /\ Blocked' = Blocked /\ Departing' = Departing /\ Tokens' = Tokens
      BY <1>4, <2>1 DEF Inside, Blocked, Departing, Tokens
    <2>3. w = g /\ Stage = "wcount"
      BY <1>1, <2>1
    <2>4. Stage' = IF readerWait' = 0 THEN "writing" ELSE "wsem"
      BY <1>4, <2>1, <2>3, NoGAssumption DEF Stage
    <2> QED
      BY <1>0, <1>1, <1>5a, <2>1, <2>2, <2>3, <2>4 DEF CountInv, StageInv, Pending, ToLeave
  <1>14. CASE LockSem(g)
    <2>1. pc[g] = "wsem" /\ Semacquire(g, "writing") /\ UNCHANGED rwvars
          /\ addr[g] = "writerSem"
      BY <1>14 DEF LockSem, addr
    <2>2. /\ \A h \in Gs \ {g} : at'[h] = at[h]
          /\ \/ /\ val["writerSem"] > 0 /\ val' = [val EXCEPT !["writerSem"] = @ - 1]
                /\ at[g] # "undo"
                /\ \/ at'[g] = "undo" /\ pc' = pc
                   \/ at'[g] = "out" /\ pc' = [pc EXCEPT ![g] = "writing"]
             \/ /\ at[g] = "undo" /\ at'[g] = "out"
                /\ val' = val /\ pc' = [pc EXCEPT ![g] = "writing"]
             \/ /\ at[g] # "undo" /\ at'[g] \notin {"out", "undo"}
                /\ val' = val /\ pc' = pc
      <3>1. "writing" \in Locations
        BY DEF Locations
      <3> QED
        BY <1>0, <2>1, <3>1, AcquireEffect
    <2>3. /\ w = g /\ Stage = "wsem" /\ UNCHANGED <<w, readerCount, readerWait, r>>
          /\ Stage' = pc'[g] /\ pc'[g] \in {"wsem", "writing"}
      BY <1>1, <1>4, <2>1, <2>2, NoGAssumption DEF rwvars, Stage
    <2>4. Inside' = Inside /\ Blocked' = Blocked /\ Departing' = Departing
      BY <1>4, <2>1, <2>2 DEF Inside, Blocked, Departing, Tokens
    <2>5. CASE val' = val /\ at[g] # "undo"
      <3>1. Tokens' = Tokens /\ pc' = pc
        BY <1>1, <1>4, <2>1, <2>2, <2>5 DEF Tokens, Sems
      <3> QED
        BY <1>0, <1>1, <2>1, <2>3, <2>4, <2>5, <3>1 DEF CountInv, StageInv, Pending, ToLeave
    <2>6. CASE at[g] = "undo"
      <3>1. Tokens' = Tokens \ {g} /\ g \in Tokens /\ pc'[g] = "writing" /\ val' = val
        BY <1>4, <2>1, <2>2, <2>6 DEF Tokens
      <3>2. Cardinality(Tokens') = nT - 1
        BY <1>1, <3>1, Count
      <3>3. readerWait = 0 /\ ToLeave = 0 /\ val["writerSem"] + nT = 1
        <4>1. nT # 0
          BY <1>1, <3>1, Count
        <4> QED
          BY <1>0, <1>1, <2>3, <4>1 DEF StageInv
      <3>4. CountInv'
        BY <1>0, <1>1, <2>3, <2>4, <3>1 DEF CountInv, Pending
      <3>5. ToLeave' = ToLeave
        BY <2>4, <3>1 DEF ToLeave
      <3>6. StageInv'
        BY <1>1, <2>3, <3>1, <3>2, <3>3, <3>5 DEF StageInv, Pending
      <3> QED
        BY <3>4, <3>6
    <2>7. CASE val["writerSem"] > 0 /\ val' = [val EXCEPT !["writerSem"] = @ - 1] /\ at[g] # "undo"
      <3>1. val'["readerSem"] = val["readerSem"] /\ val'["writerSem"] = val["writerSem"] - 1
        BY <1>4, <2>7 DEF Sems
      <3>2. CASE at'[g] = "undo" /\ pc' = pc
        <4>1. Tokens' = Tokens \cup {g} /\ g \in Gs \ Tokens
          BY <1>4, <2>1, <2>2, <2>7, <3>2 DEF Tokens
        <4>2. Cardinality(Tokens') = nT + 1
          BY <1>1, <4>1, Count
        <4> QED
          BY <1>0, <1>1, <2>1, <2>3, <2>4, <3>1, <3>2, <4>2 DEF CountInv, StageInv, Pending, ToLeave
      <3>3. CASE at'[g] = "out" /\ pc' = [pc EXCEPT ![g] = "writing"]
        <4>1. Tokens' = Tokens /\ pc'[g] = "writing"
          BY <1>4, <2>1, <2>2, <2>7, <3>3 DEF Tokens
        <4> QED
          BY <1>0, <1>1, <2>3, <2>4, <2>7, <3>1, <4>1 DEF CountInv, StageInv, Pending, ToLeave
      <3> QED
        BY <1>1, <2>2, <2>7, <3>1, <3>2, <3>3
    <2> QED
      BY <2>2, <2>5, <2>6, <2>7
  <1>15. CASE Unlock(g)
    <2>1. /\ pc[g] = "writing" /\ at[g] = "out" /\ UNCHANGED <<w, readerWait, val, at>>
          /\ readerCount' = readerCount + rwmutexMaxReaders
          /\ r' = [r EXCEPT ![g] = readerCount']
          /\ pc' = [pc EXCEPT ![g] = "wrelease"]
      BY <1>3, <1>15 DEF Unlock, semavars
    <2>2. Inside' = Inside /\ Blocked' = Blocked /\ Departing' = Departing /\ Tokens' = Tokens
      BY <1>4, <2>1 DEF Inside, Blocked, Departing, Tokens
    <2>3. w = g /\ Stage = "writing"
      BY <1>1, <2>1
    <2>4. Stage' = "wrelease" /\ r'[w'] = readerCount'
      BY <1>4, <2>1, <2>3, NoGAssumption DEF Stage
    <2>5. /\ nI = 0 /\ nD = 0 /\ val["readerSem"] = 0 /\ readerWait = 0
          /\ val["writerSem"] + nT = 0
      <3>1. ToLeave = 0 /\ readerWait = 0 /\ val["writerSem"] + nT = 0
        BY <1>0, <2>3 DEF StageInv
      <3>2. nI + nD + val["readerSem"] = 0
        BY <3>1 DEF ToLeave
      <3>3. nI \in Nat /\ nD \in Nat /\ val["readerSem"] \in Nat
        BY <1>1
      <3>4. nI = 0 /\ nD = 0 /\ val["readerSem"] = 0
        BY <3>2, <3>3, NoneLeft
      <3> QED
        BY <3>1, <3>4
    <2>6. readerCount' = nB
      BY <1>0, <1>1, <2>1, <2>3, <2>5 DEF CountInv, Pending
    <2>7. CountInv'
      BY <1>1, <2>2, <2>4, <2>5, <2>6 DEF CountInv, Pending
    <2>8. StageInv'
      BY <1>1, <2>1, <2>2, <2>4, <2>5, <2>6 DEF StageInv, Pending
    <2> QED
      BY <2>7, <2>8
  <1>16. CASE UnlockRelease(g)
    <2>1. pc[g] = "wrelease" /\ UNCHANGED <<readerCount, readerWait>>
          /\ addr[g] = "readerSem" /\ w = g /\ Stage = "wrelease"
      BY <1>1, <1>16 DEF UnlockRelease, addr
    <2>2. CASE Semrelease(g, "wrelease") /\ UNCHANGED w
               /\ r' = [r EXCEPT ![g] = IF at[g] = "out" THEN @ - 1 ELSE @]
      <3>1. /\ \A h \in Gs \ {g} :
                 at'[h] = at[h] \/ (at[h] = "parked" /\ at'[h] = "retry")
            /\ \/ /\ at[g] = "out" /\ at'[g] = "easy" /\ pc' = pc
                  /\ val' = [val EXCEPT !["readerSem"] = @ + 1]
               \/ at[g] # "out" /\ pc' = pc /\ val' = val
        <4>1. "wrelease" \in Locations
          BY DEF Locations
        <4>2. [pc EXCEPT ![g] = "wrelease"] = pc
          BY <1>4, <2>1
        <4> QED
          BY <1>0, <2>1, <2>2, <4>1, <4>2, ReleaseEffect
      <3>2. Inside' = Inside /\ Blocked' = Blocked /\ Departing' = Departing /\ Tokens' = Tokens
        BY <1>4, <2>1, <3>1 DEF Inside, Blocked, Departing, Tokens
      <3>3. Stage' = Stage
        BY <2>2, <3>1 DEF Stage
      <3>4. CASE at[g] = "out"
        <4>1. /\ val'["readerSem"] = val["readerSem"] + 1
              /\ val'["writerSem"] = val["writerSem"] /\ r'[w'] = r[w] - 1
          BY <1>4, <2>1, <2>2, <3>1, <3>4 DEF Sems
        <4>2. CountInv'
          BY <1>0, <1>1, <2>1, <3>2, <3>3 DEF CountInv, Pending
        <4>3. /\ readerWait = 0 /\ nD = 0 /\ val["readerSem"] + r[w] = nB
              /\ val["writerSem"] + nT = 0
          BY <1>0, <2>1 DEF StageInv, Pending
        <4>4. val'["readerSem"] + r'[w'] = nB
          <5>1. r[w] \in Int /\ val["readerSem"] \in Int
            BY <1>1, <1>5a, <2>1
          <5>2. val'["readerSem"] + r'[w'] = (val["readerSem"] + 1) + (r[w] - 1)
            BY <4>1
          <5> QED
            BY <4>3, <5>1, <5>2, Carry
        <4>5. StageInv'
          BY <2>1, <3>2, <3>3, <4>1, <4>3, <4>4 DEF StageInv, Pending
        <4> QED
          BY <4>2, <4>5
      <3>5. CASE at[g] # "out"
        <4>1. val' = val /\ r' = r
          BY <1>4, <2>2, <3>1, <3>5
        <4> QED
          BY <1>0, <1>1, <1>5a, <2>1, <2>2, <3>2, <3>3, <4>1 DEF CountInv, StageInv, Pending, ToLeave
      <3> QED
        BY <3>4, <3>5
    <2>3. CASE at[g] = "out" /\ r[g] = 0 /\ w' = NoG /\ Goto(g, "idle")
               /\ UNCHANGED <<r, semavars>>
      <3>1. Inside' = Inside /\ Blocked' = Blocked /\ Departing' = Departing /\ Tokens' = Tokens
        BY <1>4, <2>1, <2>3 DEF Inside, Blocked, Departing, Tokens, semavars
      <3>2. Stage' = "free" /\ val' = val
        BY <2>3 DEF Stage, semavars
      <3> QED
        BY <1>0, <1>1, <1>5a, <2>1, <2>3, <3>1, <3>2 DEF CountInv, StageInv, Pending, ToLeave
    <2> QED
      BY <1>16, <2>2, <2>3 DEF UnlockRelease
  <1> QED
    BY <1>6, <1>7, <1>8, <1>9, <1>10, <1>11, <1>12, <1>13, <1>14, <1>15, <1>16 DEF Step

LEMMA InitInv == Init => IndInv
  <1> SUFFICES ASSUME Init PROVE IndInv
    OBVIOUS
  <1> USE DEF Init, S!SemaInit
  <1>1. TypeOK
    BY MaxReadersAssumption DEF TypeOK, SemaType, Sems, Locations
  <1>2. OnQueue(queue, NoG) = FALSE /\ \A g \in Gs : ~OnQueue(queue, g)
    BY DEF OnQueue
  <1>3. CallsInv /\ QueueInv
    BY <1>2, NoGAssumption DEF CallsInv, QueueInv, NoRepeat, Acquiring, Releasing
  <1>4. Counted = {} /\ \A a \in Sems : Waiting(a) = {}
    BY <1>2 DEF Counted, Waiting
  <1>5. Inside = {} /\ Blocked = {} /\ Departing = {} /\ Tokens = {} /\ Stage = "free"
    BY DEF Inside, Blocked, Departing, Tokens, Stage
  <1>6. Cardinality({}) = 0
    BY FS_EmptySet
  <1>7. SemaInv
    BY <1>3, <1>4, <1>6 DEF SemaInv, NwaitInv, WakeupInv
  <1>8. OwnerInv
    BY NoGAssumption DEF OwnerInv
  <1>9. CountInv /\ StageInv
    BY <1>5, <1>6 DEF CountInv, StageInv, Pending, ToLeave, Sems
  <1> QED
    BY <1>1, <1>7, <1>8, <1>9 DEF IndInv

LEMMA NextInv == IndInv /\ [Next]_vars => IndInv'
  <1> SUFFICES ASSUME IndInv, [Next]_vars PROVE IndInv'
    OBVIOUS
  <1>1. ASSUME NEW g \in Gs, RLock(g) \/ Lock(g) \/ Step(g)
        PROVE  IndInv'
    BY <1>1, NextSema, NextOwner, NextStage DEF IndInv
  <1>2. ASSUME UNCHANGED vars
        PROVE  IndInv'
    <2>1. UNCHANGED <<w, readerCount, readerWait, r, pc, val, nwait, holder, queue, at, woke>>
      BY <1>2 DEF vars, rwvars, semavars
    <2>2. TypeOK' /\ OwnerInv'
      BY <2>1 DEF IndInv, TypeOK, SemaType, OwnerInv
    <2>3. addr' = addr
      BY <2>1 DEF addr
    <2>4. CallsInv' /\ QueueInv'
      BY <2>1, <2>3 DEF IndInv, SemaInv, CallsInv, QueueInv
    <2>5. NwaitInv' /\ WakeupInv'
      BY <2>1, <2>3 DEF IndInv, SemaInv, NwaitInv, Counted, WakeupInv, Waiting, InFlight
    <2>6. CountInv' /\ StageInv'
      BY <2>1 DEF IndInv, CountInv, StageInv, Pending, Stage, ToLeave, Inside, Blocked,
                  Departing, Tokens
    <2> QED
      BY <2>2, <2>4, <2>5, <2>6 DEF IndInv, SemaInv
  <1> QED
    BY <1>1, <1>2 DEF Next

----------------------------------------------------------------------------
(* The theorems *)

\* Cardinality as module Sema has it.
LEMMA SemaCardinality == ASSUME NEW T PROVE S!Cardinality(T) = Cardinality(T)
  BY DEF Cardinality, S!Cardinality

\* Between Lock and Unlock a goroutine has the RWMutex for itself.
THEOREM RWMutexExcludes == Spec => []WriterAlone
  <1>1. ASSUME IndInv PROVE WriterAlone
    <2> SUFFICES ASSUME NEW g \in Gs, NEW h \in Gs, pc[g] = "writing",
                        pc[h] \in {"writing", "reading"}
                 PROVE  g = h
      BY DEF WriterAlone
    <2>1. w = g /\ Stage = "writing" /\ Inside \in SUBSET Gs
          /\ Cardinality(Inside) \in Nat /\ Cardinality(Departing) \in Nat
          /\ val["readerSem"] \in Nat
      BY <1>1, Sizes DEF IndInv
    <2>2. Cardinality(Inside) = 0
      BY <1>1, <2>1 DEF IndInv, StageInv, ToLeave
    <2>3. Inside = {}
      BY <2>1, <2>2, Count
    <2>4. pc[h] # "reading"
      BY <2>3 DEF Inside
    <2> QED
      BY <1>1, <2>1, <2>4 DEF IndInv, OwnerInv
  <1> QED
    BY InitInv, NextInv, <1>1, PTL DEF Spec

\* When every goroutine is outside the RWMutex, its counts, its semaphores and
\* the root's lock and waiter count are as in a new one.
THEOREM RWMutexDrains == Spec => []Drained
  <1>1. ASSUME IndInv PROVE Drained
    <2> SUFFICES ASSUME \A g \in Gs : pc[g] = "idle"
                 PROVE  /\ w = NoG /\ readerCount = 0 /\ readerWait = 0
                        /\ \A a \in DOMAIN val : val[a] = 0
                        /\ nwait = 0 /\ holder = NoG
      BY DEF Drained
    <2>1. TypeOK /\ SemaInv /\ OwnerInv /\ CountInv /\ StageInv
      BY <1>1 DEF IndInv
    <2>2. \A g \in Gs : at[g] = "out"
      BY <2>1 DEF TypeOK, SemaType, SemaInv, CallsInv
    <2>3. \A g \in Gs : ~OnQueue(queue, g)
      BY <2>1, <2>2 DEF SemaInv, QueueInv
    <2>4. Inside = {} /\ Blocked = {} /\ Departing = {} /\ Tokens = {} /\ Counted = {}
      BY <2>2, <2>3 DEF Inside, Blocked, Departing, Tokens, Counted
    <2>5. Cardinality({}) = 0
      BY FS_EmptySet
    <2>6. w = NoG /\ holder = NoG /\ Stage = "free"
      BY <2>1, <2>2 DEF TypeOK, SemaType, SemaInv, CallsInv, OwnerInv, Stage
    <2>7. nwait = 0 /\ readerCount = 0
      BY <2>1, <2>4, <2>5, <2>6 DEF SemaInv, NwaitInv, CountInv, Pending
    <2>8. readerWait = 0 /\ val["readerSem"] = 0 /\ val["writerSem"] = 0
      BY <2>1, <2>4, <2>5, <2>6 DEF TypeOK, SemaType, Sems, StageInv, Pending
    <2>9. \A a \in DOMAIN val : val[a] = 0
      BY <2>1, <2>8 DEF TypeOK, SemaType, Sems
    <2> QED
      BY <2>6, <2>7, <2>8, <2>9
  <1> QED
    BY InitInv, NextInv, <1>1, PTL DEF Spec

\* While a goroutine waits in one of the semaphores, each unit of that
\* semaphore's count has a semrelease or a woken goroutine on its way to it.
THEOREM RWMutexMissesNoWakeup == Spec => []NoMissedWakeup
  <1>1. ASSUME IndInv PROVE NoMissedWakeup
    <2> SUFFICES ASSUME NEW a \in Sems, S!Waiting(a) # {}
                 PROVE  val[a] <= S!Cardinality(S!InFlight(a))
      BY DEF NoMissedWakeup, S!NoMissedWakeup, Sems
    <2>1. S!Waiting(a) = Waiting(a)
      BY DEF S!Waiting, Waiting, OnQueue
    <2>2. S!InFlight(a) = InFlight(a)
      BY DEF S!InFlight, InFlight
    <2>3. val[a] <= Cardinality(InFlight(a))
      BY <1>1, <2>1 DEF IndInv, SemaInv, WakeupInv
    <2>4. S!Cardinality(InFlight(a)) = Cardinality(InFlight(a))
      BY SemaCardinality
    <2> QED
      BY <2>2, <2>3, <2>4
  <1> QED
    BY InitInv, NextInv, <1>1, PTL DEF Spec

\* A goroutine asleep in a semaphore is readied by one semrelease of it only.
THEOREM RWMutexReadiesOnce == Spec => []OneWaker
  <1>1. ASSUME IndInv PROVE OneWaker
    <2> SUFFICES ASSUME NEW g \in Gs, at[g] = "parked"
                 PROVE  S!Cardinality({k \in DOMAIN queue : queue[k] = g})
                        + S!Cardinality({h \in Gs : woke[h] = g /\ addr[h] = addr[g]}) = 1
      BY DEF OneWaker, S!OneWaker
    <2> DEFINE K == {k \in DOMAIN queue : queue[k] = g}
               H == {h \in Gs : woke[h] = g /\ addr[h] = addr[g]}
    <2>1. g # NoG
      BY NoGAssumption
    <2>2. QueueInv
      BY <1>1 DEF IndInv, SemaInv
    <2>3. S!Cardinality(K) = Cardinality(K) /\ S!Cardinality(H) = Cardinality(H)
      BY SemaCardinality
    <2>4. Cardinality({}) = 0 /\ \A x : Cardinality({x}) = 1
      BY FS_EmptySet, FS_Singleton
    <2>5. CASE OnQueue(queue, g)
      <3>1. H = {}
        BY <2>1, <2>2, <2>5 DEF QueueInv
      <3>2. PICK k \in DOMAIN queue : queue[k] = g
        BY <2>5 DEF OnQueue
      <3>3. K = {k}
        BY <2>2, <3>2 DEF QueueInv, NoRepeat
      <3> HIDE DEF K, H
      <3>4. Cardinality(K) = 1 /\ Cardinality(H) = 0
        BY <2>4, <3>1, <3>3
      <3>5. S!Cardinality(K) + S!Cardinality(H) = 1
        BY <2>3, <3>4
      <3> QED
        BY <3>5 DEF K, H
    <2>6. CASE ~OnQueue(queue, g)
      <3>1. K = {}
        BY <2>6 DEF OnQueue
      <3>2. PICK h \in Gs : woke[h] = g
        BY <2>2, <2>6 DEF QueueInv
      <3>3. H = {h}
        BY <2>1, <2>2, <3>2 DEF QueueInv
      <3> HIDE DEF K, H
      <3>4. Cardinality(K) = 0 /\ Cardinality(H) = 1
        BY <2>4, <3>1, <3>3
      <3>5. S!Cardinality(K) + S!Cardinality(H) = 1
        BY <2>3, <3>4
      <3> QED
        BY <3>5 DEF K, H
    <2> QED
      BY <2>5, <2>6
  <1> QED
    BY InitInv, NextInv, <1>1, PTL DEF Spec
=============================================================================
