----------------------------- MODULE SyncProofs -----------------------------
(***************************************************************************)
(* For every set of goroutines: sync.Mutex excludes, an Unlock does not    *)
(* leave the waiters of a free mutex behind, and the mutex implements      *)
(* AbstractLock.  For every finite set of goroutines: WaitGroup's Wait     *)
(* returns only when it may, and Cond neither loses nor invents a signal.  *)
(***************************************************************************)
EXTENDS SyncMutex, WaitGroup, Cond, FiniteSetTheorems, SequenceTheorems, NaturalsInduction, TLAPS

USE DEF Entering, Locations

\* The values Lock computes are states with the lock bit set.
LEMMA NewStateOK ==
  ASSUME NEW o \in State, NEW w \in BOOLEAN
  PROVE  /\ NewState(o, w) \in State
         /\ NewState(o, w).locked
  BY DEF NewState, State

\* An Unlock that finds somebody to wake takes one off a positive count.
LEMMA WaiterToWake ==
  ASSUME NEW o \in State, ~NobodyToWake(o)
  PROVE  o.waiters - 1 \in Nat
  BY DEF NobodyToWake, State

LEMMA ZeroOK == Zero \in State /\ ~Zero.locked /\ ~Zero.woken /\ Zero.waiters = 0
  BY DEF Zero, State

LEMMA InitIndInv == Init => IndInv
  BY ZeroOK
     DEF Init, IndInv, TypeOK, MutualExclusion, LockedHeld, NoLostWakeup

LEMMA NextTypeOK == TypeOK /\ [Next]_vars => TypeOK'
  <1> SUFFICES ASSUME TypeOK, [Next]_vars PROVE TypeOK'
      OBVIOUS
  <1> USE DEF TypeOK
  <1>1. ASSUME NEW g \in Gs, Lock(g) PROVE TypeOK'
        BY <1>1 DEF Lock, Goto, Zero, State
  <1>2. ASSUME NEW g \in Gs, LockLoad(g) PROVE TypeOK'
        BY <1>2 DEF LockLoad, Goto
  <1>3. ASSUME NEW g \in Gs, LockCas(g) PROVE TypeOK'
        BY <1>3, NewStateOK DEF LockCas, Goto
  <1>4. ASSUME NEW g \in Gs, Semacquire(g) PROVE TypeOK'
        BY <1>4 DEF Semacquire, Goto
  <1>5. ASSUME NEW g \in Gs, Unlock(g) PROVE TypeOK'
        BY <1>5 DEF Unlock, Goto, State
  <1>6. ASSUME NEW g \in Gs, UnlockCas(g) PROVE TypeOK'
    <2>1. state' \in State
      <3>1. CASE NobodyToWake(old[g]) BY <1>6, <3>1 DEF UnlockCas
      <3>2. CASE ~NobodyToWake(old[g])
        <4>1. old[g].waiters - 1 \in Nat BY <3>2, WaiterToWake
        <4>2. [locked  |-> FALSE, woken |-> TRUE,
               waiters |-> old[g].waiters - 1] \in State
              BY ONLY <4>1 DEF State
        <4> QED BY <1>6, <3>2, <4>2 DEF UnlockCas
      <3> QED BY <3>1, <3>2
    <2> QED BY <1>6, <2>1 DEF UnlockCas, Goto
  <1>7. ASSUME NEW g \in Gs, UnlockLoad(g) PROVE TypeOK'
        BY <1>7 DEF UnlockLoad, Goto
  <1>8. ASSUME NEW g \in Gs, Semrelease(g) PROVE TypeOK'
        BY <1>8 DEF Semrelease, Goto
  <1>9. CASE UNCHANGED vars
        BY <1>9 DEF vars
  <1> QED BY <1>1, <1>2, <1>3, <1>4, <1>5, <1>6, <1>7, <1>8, <1>9
          DEF Next, Step

LEMMA NextIndInv == IndInv /\ [Next]_vars => IndInv'
  <1> SUFFICES ASSUME IndInv, [Next]_vars PROVE IndInv'
      OBVIOUS
  <1>0. TypeOK' BY NextTypeOK DEF IndInv
  <1> USE <1>0 DEF IndInv, TypeOK, MutualExclusion, LockedHeld, NoLostWakeup
  <1>1. ASSUME NEW g \in Gs, Lock(g) PROVE IndInv'
        BY <1>1, ZeroOK DEF Lock, Goto, State, Zero
  <1>2. ASSUME NEW g \in Gs, LockLoad(g) PROVE IndInv'
        BY <1>2 DEF LockLoad, Goto
  <1>3. ASSUME NEW g \in Gs, LockCas(g) PROVE IndInv'
    <2>1. CASE state = old[g]
      <3>1. state'.locked BY <1>3, <2>1, NewStateOK DEF LockCas
      <3>2. CASE old[g].locked BY <1>3, <2>1, <3>1, <3>2 DEF LockCas, Goto
      <3>3. CASE ~old[g].locked BY <1>3, <2>1, <3>1, <3>3 DEF LockCas, Goto
      <3> QED BY <3>2, <3>3
    <2>2. CASE state # old[g] BY <1>3, <2>2 DEF LockCas, Goto
    <2> QED BY <2>1, <2>2
  <1>4. ASSUME NEW g \in Gs, Semacquire(g) PROVE IndInv'
        BY <1>4 DEF Semacquire, Goto
  <1>5. ASSUME NEW g \in Gs, Unlock(g) PROVE IndInv'
        BY <1>5 DEF Unlock, Goto, State
  <1>6. ASSUME NEW g \in Gs, UnlockCas(g) PROVE IndInv'
        BY <1>6 DEF UnlockCas, Goto, NobodyToWake, State
  <1>7. ASSUME NEW g \in Gs, UnlockLoad(g) PROVE IndInv'
        BY <1>7 DEF UnlockLoad, Goto
  <1>8. ASSUME NEW g \in Gs, Semrelease(g) PROVE IndInv'
        BY <1>8 DEF Semrelease, Goto
  <1>9. CASE UNCHANGED vars
        BY <1>9 DEF vars
  <1> QED BY <1>1, <1>2, <1>3, <1>4, <1>5, <1>6, <1>7, <1>8, <1>9
          DEF Next, Step

(***************************************************************************)
(* No two goroutines are between Lock and Unlock of one sync.Mutex.        *)
(***************************************************************************)
THEOREM MutexExcludes == Spec => []MutualExclusion
  <1>1. IndInv => MutualExclusion BY DEF IndInv
  <1> QED BY InitIndInv, NextIndInv, <1>1, PTL DEF Spec

(***************************************************************************)
(* A sync.Mutex that is free, has waiters and has woken none of them is    *)
(* still being unlocked by a goroutine that saw this very state.           *)
(***************************************************************************)
THEOREM MutexWakes == Spec => []NoLostWakeup
  <1>1. IndInv => NoLostWakeup BY DEF IndInv
  <1> QED BY InitIndInv, NextIndInv, <1>1, PTL DEF Spec

\* The owner of the abstract lock, when there is one holder and when none.
LEMMA HolderIs ==
  ASSUME MutualExclusion
  PROVE  /\ \A g \in Gs : pc[g] = "held" => Holder = g
         /\ (\A g \in Gs : pc[g] # "held") => Holder = NoG
  BY DEF Holder, MutualExclusion

\* The same, of the next state.
LEMMA HolderIsPrimed ==
  ASSUME MutualExclusion'
  PROVE  /\ \A g \in Gs : pc'[g] = "held" => Holder' = g
         /\ (\A g \in Gs : pc'[g] # "held") => Holder' = NoG
  BY DEF Holder, MutualExclusion

(***************************************************************************)
(* sync.Mutex implements AbstractLock: the cas that sets mutexLocked from  *)
(* an unlocked state is the acquire, Unlock's AddInt32 the release, and    *)
(* all the loads, failed cases, sleeps and wakeups are invisible.          *)
(***************************************************************************)
THEOREM MutexRefines == Spec => Refinement
  <1>1. Init => Abstract!Init
        BY DEF Init, Abstract!Init, Holder
  <1>2. IndInv /\ IndInv' /\ [Next]_vars => [Abstract!Next]_(Abstract!vars)
    <2> SUFFICES ASSUME IndInv, IndInv', [Next]_vars
                 PROVE  [Abstract!Next]_(Abstract!vars)
        OBVIOUS
    <2> USE DEF IndInv, TypeOK, MutualExclusion, LockedHeld
    <2>1. ASSUME NEW g \in Gs, Lock(g), state = Zero
          PROVE  Abstract!Acquire(g)
          BY <2>1, ZeroOK, HolderIs, HolderIsPrimed
             DEF Lock, Goto, Abstract!Acquire
    <2>2. ASSUME NEW g \in Gs, LockCas(g), state = old[g], ~state.locked
          PROVE  Abstract!Acquire(g)
          BY <2>2, HolderIs, HolderIsPrimed
             DEF LockCas, Goto, Abstract!Acquire
    <2>3. ASSUME NEW g \in Gs, Unlock(g)
          PROVE  Abstract!Release(g)
          BY <2>3, HolderIs, HolderIsPrimed
             DEF Unlock, Goto, Abstract!Release
    <2>4. ASSUME \A g \in Gs : pc'[g] = "held" <=> pc[g] = "held"
          PROVE  Holder' = Holder
          BY <2>4, HolderIs, HolderIsPrimed
    <2>5. ASSUME NEW g \in Gs, Lock(g), state # Zero
          PROVE  Abstract!Request(g)
      <3>1. Holder' = Holder BY <2>4, <2>5 DEF Lock, Goto
      <3>2. Holder # g
            BY <2>5, HolderIs, NoGAssumption DEF Lock
      <3> QED BY <2>5, <3>1, <3>2 DEF Lock, Goto, Abstract!Request
    <2>6. ASSUME /\ \A g \in Gs : pc'[g] = "held" <=> pc[g] = "held"
                 /\ \A g \in Gs : pc'[g] \in Entering <=> pc[g] \in Entering
          PROVE  UNCHANGED Abstract!vars
          BY <2>4, <2>6 DEF Abstract!vars
    <2>7. ASSUME NEW g \in Gs,
                 \/ LockLoad(g) \/ Semacquire(g) \/ UnlockCas(g)
                 \/ UnlockLoad(g) \/ Semrelease(g)
                 \/ LockCas(g) /\ (state # old[g] \/ state.locked)
          PROVE  UNCHANGED Abstract!vars
          BY <2>6, <2>7
             DEF LockLoad, Semacquire, UnlockCas, UnlockLoad, Semrelease,
                 LockCas, Goto
    <2>8. ASSUME UNCHANGED vars PROVE UNCHANGED Abstract!vars
          BY <2>6, <2>8 DEF vars
    <2> QED BY <2>1, <2>2, <2>3, <2>5, <2>7, <2>8
            DEF Next, Step, Abstract!Next
  <1> QED BY InitIndInv, NextIndInv, <1>1, <1>2, PTL
          DEF Spec, Refinement, Abstract!Spec

----------------------------------------------------------------------------
(* sync.WaitGroup *)

Holding == {"dcheck", "drelease", "wadd", "wcheck", "wundo"}

\* The waiters on a semaphore, and those wg.waiters counts.
On(k) == {h \in Gs : s[h] = k}
Here == {h \in Gs : (wgPc[h] = "wsema" /\ s[h] = wgSema) \/ wgPc[h] \in {"wcheck", "wundo"}}

GroupCalls ==
  /\ wgPc \in [Gs -> WGLocations]
  /\ counter \in Nat /\ wgWaiters \in Nat /\ left \in [Gs -> Nat]
  /\ wgSema \in Semas \cup {0} /\ s \in [Gs -> Semas \cup {0}]
  /\ count \in [Semas -> Nat] /\ sawZero \in [Gs -> BOOLEAN]
  /\ \A g \in Gs : wgPc[g] \in Holding <=> m = g
  /\ \A g \in Gs : s[g] # 0 <=> wgPc[g] = "wsema"

\* A semaphore that was dropped has a wakeup for each of its waiters, and the
\* current one has none, until a Done releases the waiters one by one.
GroupCounts ==
  /\ \A k \in Semas : k # wgSema => count[k] = Cardinality(On(k))
  /\ (\A g \in Gs : wgPc[g] # "drelease") =>
       wgWaiters = Cardinality(Here) /\ (wgSema # 0 => count[wgSema] = 0)
  /\ \A g \in Gs : wgPc[g] = "drelease" =>
       /\ wgSema = 0 => left[g] = 0
       /\ wgSema # 0 => count[wgSema] + left[g] = Cardinality(On(wgSema))

\* Those for whom there is, or may be, a wakeup have seen the counter at 0.
GroupZeros ==
  /\ \A h \in Gs : counter = 0 /\ wgPc[h] \in WGWaiting => sawZero[h]
  /\ \A h \in Gs : wgPc[h] = "wundo" => sawZero[h]
  /\ \A h \in Gs : wgPc[h] = "wsema" /\ s[h] # wgSema => sawZero[h]
  /\ \A g, h \in Gs : wgPc[g] = "drelease" /\ wgPc[h] = "wsema" => sawZero[h]

GroupInv == GroupCalls /\ GroupCounts /\ GroupZeros

\* Sizes of sets of goroutines.
LEMMA Sizes ==
  ASSUME NEW A \in SUBSET Gs
  PROVE  /\ IsFiniteSet(A) /\ Cardinality(A) \in Nat
         /\ Cardinality(A) = 0 <=> A = {}
         /\ \A g \in A : Cardinality(A \ {g}) = Cardinality(A) - 1
         /\ \A g \in Gs \ A : Cardinality(A \cup {g}) = Cardinality(A) + 1
<1>1. IsFiniteSet(A)
  BY GsAssumption, FS_Subset
<1>2. Cardinality(A) \in Nat
  BY <1>1, FS_CardinalityType
<1>3. Cardinality(A) = 0 <=> A = {}
  BY <1>1, FS_EmptySet
<1>4. \A g \in A : Cardinality(A \ {g}) = Cardinality(A) - 1
  BY <1>1, FS_RemoveElement
<1>5. \A g \in Gs \ A : Cardinality(A \cup {g}) = Cardinality(A) + 1
  BY <1>1, FS_AddElement
<1> QED  BY <1>1, <1>2, <1>3, <1>4, <1>5

\* There is a semaphore nobody refers to when there is no current one.
LEMMA NewSemaIs ==
  ASSUME GroupCalls, wgSema = 0
  PROVE  NewSema \in Semas /\ NewSema # 0 /\ \A g \in Gs : s[g] # NewSema
<1>1. PICK c \in Nat : c = Cardinality(Gs)
  BY GsAssumption, FS_CardinalityType
<1>2. PICK S : S = 1..c+1
  OBVIOUS
<1>3. Semas = S /\ 0 \notin S
  <2>2. Semas = 1..Cardinality(Gs) + 1
    BY DEF Semas
  <2> QED  BY <1>1, <1>2, <2>2
<1>4. IsFiniteSet(S) /\ Cardinality(S) = c + 1
  BY <1>2, FS_Interval
<1>5. \E k \in S : k # wgSema /\ \A g \in Gs : s[g] # k
  <2> SUFFICES ASSUME \A k \in S : \E g \in Gs : s[g] = k PROVE FALSE
    BY <1>3
  <2> DEFINE f == [k \in S |-> CHOOSE g \in Gs : s[g] = k]
  <2>1. \A k \in S : f[k] \in Gs /\ s[f[k]] = k
    OBVIOUS
  <2>2. f \in [S -> Gs]
    BY <2>1
  <2> HIDE DEF f
  <2>3. Cardinality(Gs) < Cardinality(S)
    BY <1>1, <1>4
  <2>4. PICK x, y \in S : x # y /\ f[x] = f[y]
    BY GsAssumption, <1>4, <2>2, <2>3, FS_PigeonHole
  <2> QED  BY <2>1, <2>4
<1>6. /\ NewSema \in Semas /\ NewSema # wgSema
      /\ \A g \in Gs : s[g] # NewSema
  BY <1>3, <1>5 DEF NewSema
<1> QED  BY <1>3, <1>6

LEMMA InitGroup ==
  ASSUME WGInit
  PROVE  GroupInv
<1>1. Semas \subseteq Nat /\ 0 \notin Semas
  BY FS_CardinalityType DEF Semas
<1>2. GroupCalls
  BY <1>1, NoGAssumption DEF WGInit, GroupCalls, WGLocations, Holding
<1>3. Here = {} /\ \A k \in Semas : On(k) = {}
  BY <1>1 DEF WGInit, Here, On
<1>4. GroupCounts
  BY <1>1, <1>3, FS_EmptySet DEF WGInit, GroupCounts
<1>5. GroupZeros
  BY DEF WGInit, GroupZeros, WGWaiting
<1> QED  BY <1>2, <1>4, <1>5 DEF GroupInv

\* Nobody else is where wg.m is held.
LEMMA OneHolder ==
  ASSUME GroupCalls, NEW g \in Gs, wgPc[g] \in Holding
  PROVE  \A h \in Gs : h # g => wgPc[h] \notin Holding
BY DEF GroupCalls

LEMMA StepGroupCalls ==
  ASSUME GroupCalls, GroupCounts, [WGNext]_wgVars
  PROVE  GroupCalls'
<1>1. Semas \subseteq Nat /\ 0 \notin Semas
  BY FS_CardinalityType DEF Semas
<1> USE NoGAssumption DEF GroupCalls, Holding, WGLocations, WGWaiting, WGGoto
<1>2. ASSUME NEW g \in Gs, Add(g) PROVE GroupCalls'
  BY <1>2 DEF Add
<1>3. ASSUME NEW g \in Gs, Wait(g) PROVE GroupCalls'
  BY <1>3 DEF Wait
<1>4. ASSUME NEW g \in Gs, Done(g) PROVE GroupCalls'
  BY <1>4 DEF Done
<1>5. ASSUME NEW g \in Gs, DoneLoad(g) PROVE GroupCalls'
  BY <1>5 DEF DoneLoad
<1>6. ASSUME NEW g \in Gs, DoneLock(g) PROVE GroupCalls'
  BY <1>6 DEF DoneLock
<1>7. ASSUME NEW g \in Gs, DoneCheck(g) PROVE GroupCalls'
  BY <1>7 DEF DoneCheck
<1>8. ASSUME NEW g \in Gs, DoneRelease(g) PROVE GroupCalls'
  <2>1. CASE left[g] > 0
    BY <1>8, <2>1 DEF DoneRelease
  <2>2. CASE left[g] = 0
    BY <1>1, <1>8, <2>2 DEF DoneRelease
  <2> QED  BY <1>8, <2>1, <2>2 DEF DoneRelease
<1>9. ASSUME NEW g \in Gs, WaitLock(g) PROVE GroupCalls'
  BY <1>9 DEF WaitLock
<1>10. ASSUME NEW g \in Gs, WaitAdd(g) PROVE GroupCalls'
  BY <1>10 DEF WaitAdd
<1>11. ASSUME NEW g \in Gs, WaitCheck(g) PROVE GroupCalls'
  <2>1. wgSema = 0 => NewSema \in Semas /\ NewSema # 0
    BY NewSemaIs
  <2>2. CASE counter = 0
    BY <1>11, <2>2 DEF WaitCheck
  <2>3. CASE counter # 0
    <3>1. wgSema' \in Semas /\ wgSema' # 0
      BY <1>1, <1>11, <2>1, <2>3 DEF WaitCheck
    <3>2. /\ s' = [s EXCEPT ![g] = wgSema'] /\ m' = NoG /\ wgPc' = [wgPc EXCEPT ![g] = "wsema"]
          /\ UNCHANGED <<counter, wgWaiters, count, left, sawZero>> /\ wgPc[g] = "wcheck"
      BY <1>11, <2>3 DEF WaitCheck
    <3> QED  BY <1>1, <3>1, <3>2
  <2> QED  BY <2>2, <2>3
<1>12. ASSUME NEW g \in Gs, WaitUndo(g) PROVE GroupCalls'
  <2>1. wgPc[g] = "wundo"
    BY <1>12 DEF WaitUndo
  <2>2. \A h \in Gs : wgPc[h] # "drelease"
    BY <2>1, OneHolder
  <2>3. wgWaiters = Cardinality(Here) /\ g \in Here
    BY <2>1, <2>2 DEF GroupCounts, Here
  <2>4. wgWaiters # 0
    <3>1. Here \in SUBSET Gs
      BY DEF Here
    <3> QED  BY <2>3, <3>1, Sizes
  <2> QED  BY <1>12, <2>4 DEF WaitUndo
<1>13. ASSUME NEW g \in Gs, WaitSema(g) PROVE GroupCalls'
  <2>1. PICK k \in Semas : k = s[g] /\ count[k] > 0
    BY <1>13 DEF WaitSema
  <2>2. /\ wgPc[g] = "wsema" /\ count' = [count EXCEPT ![k] = count[k] - 1]
        /\ s' = [s EXCEPT ![g] = 0] /\ wgPc' = [wgPc EXCEPT ![g] = "idle"]
        /\ UNCHANGED <<m, counter, wgWaiters, wgSema, left, sawZero>>
    BY <1>13, <2>1 DEF WaitSema
  <2>3. count' \in [Semas -> Nat]
    BY <2>1, <2>2
  <2>4. Semas' = Semas
    BY DEF Semas
  <2> QED  BY <2>2, <2>3, <2>4
<1>14. CASE UNCHANGED wgVars
  BY <1>14 DEF wgVars
<1> QED
  BY <1>2, <1>3, <1>4, <1>5, <1>6, <1>7, <1>8, <1>9, <1>10, <1>11, <1>12, <1>13, <1>14
     DEF WGNext, WGStep

\* Steps that touch neither the counts nor who is counted.
LEMMA GroupFrame ==
  ASSUME GroupCounts, UNCHANGED <<wgWaiters, wgSema, count, s, left>>,
         \A h \in Gs : /\ wgPc'[h] = "drelease" <=> wgPc[h] = "drelease"
                       /\ wgPc'[h] = "wsema" <=> wgPc[h] = "wsema"
                       /\ wgPc'[h] \in {"wcheck", "wundo"} <=> wgPc[h] \in {"wcheck", "wundo"}
  PROVE  GroupCounts'
<1>1. Here' = Here /\ \A k : On(k)' = On(k)
  BY DEF Here, On
<1>2. Semas' = Semas
  BY DEF Semas
<1> QED  BY <1>1, <1>2 DEF GroupCounts

LEMMA ReleaseCounts ==
  ASSUME GroupCalls, GroupCounts, NEW g \in Gs, DoneRelease(g)
  PROVE  GroupCounts'
<1>1. Semas \subseteq Nat /\ 0 \notin Semas
  BY FS_CardinalityType DEF Semas
<1>2. wgPc[g] = "drelease" /\ s' = s /\ \A k : On(k)' = On(k)
  BY DEF DoneRelease, On
<1>3. \A h \in Gs : h # g => wgPc[h] \notin Holding
  BY <1>2, OneHolder DEF Holding
<1>4. \A k : k \in Semas => Cardinality(On(k)) \in Nat
  <2> SUFFICES ASSUME NEW k PROVE Cardinality(On(k)) \in Nat
    OBVIOUS
  <2>1. On(k) \in SUBSET Gs
    BY DEF On
  <2> QED  BY <2>1, Sizes
<1>5. CASE left[g] > 0
  <2>1. /\ count' = [count EXCEPT ![wgSema] = count[wgSema] + 1]
        /\ left' = [left EXCEPT ![g] = left[g] - 1]
        /\ UNCHANGED <<wgWaiters, wgSema, wgPc>>
    BY <1>5 DEF DoneRelease
  <2>2. left[g] \in Nat /\ left'[g] = left[g] - 1
    BY <2>1 DEF GroupCalls
  <2>3. wgSema # 0 /\ wgSema \in Semas /\ count[wgSema] + left[g] = Cardinality(On(wgSema))
    BY <1>2, <1>5, <2>2 DEF GroupCounts, GroupCalls
  <2>4. count[wgSema] \in Nat /\ count'[wgSema] = count[wgSema] + 1
    BY <2>1, <2>3 DEF GroupCalls
  <2>5. \A k \in Semas : k # wgSema => count'[k] = Cardinality(On(k))
    BY <2>1 DEF GroupCalls, GroupCounts
  <2>6. count'[wgSema] + left'[g] = Cardinality(On(wgSema))
    BY <2>2, <2>3, <2>4
  <2>7. Semas' = Semas
    BY DEF Semas
  <2> QED  BY <1>2, <1>3, <2>1, <2>3, <2>5, <2>6, <2>7 DEF GroupCounts, Holding
<1>6. CASE left[g] = 0
  <2>1. /\ wgWaiters' = 0 /\ wgSema' = 0 /\ count' = count
        /\ wgPc' = [wgPc EXCEPT ![g] = "idle"]
    BY <1>6 DEF DoneRelease, WGGoto
  <2>2. \A h \in Gs : wgPc'[h] \notin Holding
    BY <1>3, <2>1 DEF GroupCalls, Holding
  <2>3. \A k \in Semas : count[k] = Cardinality(On(k))
    <3> SUFFICES ASSUME NEW k \in Semas PROVE count[k] = Cardinality(On(k))
      OBVIOUS
    <3>1. CASE k # wgSema
      BY <3>1 DEF GroupCounts
    <3>2. CASE k = wgSema
      <4>1. count[k] + 0 = Cardinality(On(k)) /\ count[k] \in Nat
        BY <1>1, <1>2, <1>6, <3>2 DEF GroupCounts, GroupCalls
      <4> QED  BY <4>1
    <3> QED  BY <3>1, <3>2
  <2>4. Here' = {}
    <3> SUFFICES ASSUME NEW h \in Here' PROVE FALSE
      OBVIOUS
    <3>1. h \in Gs /\ wgPc'[h] = "wsema" /\ s[h] = 0
      BY <1>2, <2>1, <2>2 DEF Here, Holding
    <3>2. wgPc[h] = "wsema"
      BY <2>1, <3>1 DEF GroupCalls
    <3> QED  BY <3>1, <3>2 DEF GroupCalls
  <2>5. Semas' = Semas
    BY DEF Semas
  <2> QED  BY <1>2, <2>1, <2>2, <2>3, <2>4, <2>5, FS_EmptySet DEF GroupCounts, Holding
<1> QED  BY <1>5, <1>6 DEF DoneRelease

LEMMA CheckCounts ==
  ASSUME GroupCalls, GroupCounts, NEW g \in Gs, DoneCheck(g)
  PROVE  GroupCounts'
<1>1. wgPc[g] = "dcheck"
  BY DEF DoneCheck
<1>2. \A h \in Gs : h # g => wgPc[h] \notin Holding
  BY <1>1, OneHolder DEF Holding
<1>3. CASE counter = 0
  <2>1. /\ left' = [left EXCEPT ![g] = wgWaiters] /\ wgPc' = [wgPc EXCEPT ![g] = "drelease"]
        /\ UNCHANGED <<wgWaiters, wgSema, count, s>>
    BY <1>3 DEF DoneCheck, WGGoto
  <2>2. left'[g] = wgWaiters /\ wgPc'[g] = "drelease" /\ wgWaiters \in Nat
    BY <2>1 DEF GroupCalls
  <2>3. wgWaiters = Cardinality(Here) /\ (wgSema # 0 => count[wgSema] = 0)
    BY <1>1, <1>2 DEF GroupCounts, Holding
  <2>4. wgSema = 0 => Here = {}
    BY <1>1, <1>2 DEF Here, Holding, GroupCalls
  <2>5. wgSema # 0 => Here = On(wgSema)
    BY <1>1, <1>2 DEF Here, On, Holding, GroupCalls
  <2>6. \A k : On(k)' = On(k)
    BY <2>1 DEF On
  <2>7. Semas' = Semas
    BY DEF Semas
  <2>8. wgSema = 0 => left'[g] = 0
    BY <2>2, <2>3, <2>4, FS_EmptySet
  <2>9. wgSema # 0 => count[wgSema] + left'[g] = Cardinality(On(wgSema))
    BY <2>2, <2>3, <2>5
  <2>10. \A h \in Gs : wgPc'[h] = "drelease" => h = g
    BY <1>2, <2>1 DEF GroupCalls, Holding
  <2> QED  BY <2>1, <2>2, <2>6, <2>7, <2>8, <2>9, <2>10 DEF GroupCounts
<1>4. CASE counter # 0
  <2>1. UNCHANGED <<wgWaiters, wgSema, count, s, left>> /\ wgPc' = [wgPc EXCEPT ![g] = "idle"]
    BY <1>4 DEF DoneCheck, WGGoto
  <2> QED  BY <1>1, <2>1, GroupFrame DEF GroupCalls
<1> QED  BY <1>3, <1>4

LEMMA WaitCheckCounts ==
  ASSUME GroupCalls, GroupCounts, NEW g \in Gs, WaitCheck(g)
  PROVE  GroupCounts'
<1>1. Semas \subseteq Nat /\ 0 \notin Semas
  BY FS_CardinalityType DEF Semas
<1>2. wgPc[g] = "wcheck"
  BY DEF WaitCheck
<1>3. \A h \in Gs : h # g => wgPc[h] \notin Holding
  BY <1>2, OneHolder DEF Holding
<1>4. CASE counter = 0
  <2>1. UNCHANGED <<wgWaiters, wgSema, count, s, left>> /\ wgPc' = [wgPc EXCEPT ![g] = "wundo"]
    BY <1>4 DEF WaitCheck, WGGoto
  <2> QED  BY <1>2, <2>1, GroupFrame DEF GroupCalls
<1>5. CASE counter # 0
  <2>1. PICK k : k = wgSema'
    OBVIOUS
  <2>2. /\ k = IF wgSema = 0 THEN NewSema ELSE wgSema
        /\ s' = [s EXCEPT ![g] = k] /\ wgPc' = [wgPc EXCEPT ![g] = "wsema"]
        /\ UNCHANGED <<wgWaiters, count, left>>
    BY <1>5, <2>1 DEF WaitCheck, WGGoto
  <2>3. k \in Semas /\ k # 0 /\ (wgSema = 0 => \A h \in Gs : s[h] # k)
    BY <1>1, <2>2, NewSemaIs DEF GroupCalls
  <2>4. wgWaiters = Cardinality(Here) /\ (wgSema # 0 => count[wgSema] = 0)
    BY <1>2, <1>3 DEF GroupCounts, Holding
  <2>5. \A j \in Semas : j # k => On(j)' = On(j)
    BY <1>1, <1>2, <2>2 DEF On, GroupCalls
  <2>6. Here' = Here
    <3>1. \A h \in Gs : h # g => wgPc'[h] = wgPc[h] /\ s'[h] = s[h]
      BY <2>2 DEF GroupCalls
    <3>2. wgPc'[g] = "wsema" /\ s'[g] = k
      BY <2>2 DEF GroupCalls
    <3>3. g \in Here /\ g \in Here'
      BY <1>2, <2>1, <3>2 DEF Here
    <3>4. \A h \in Gs : h # g /\ wgPc[h] = "wsema" => (s[h] = wgSema <=> s[h] = k)
      BY <2>2, <2>3 DEF GroupCalls
    <3>5. \A h \in Gs : h # g => (h \in Here <=> h \in Here')
      BY <2>1, <3>1, <3>4 DEF Here
    <3>6. Here \subseteq Gs /\ Here' \subseteq Gs
      BY DEF Here
    <3> QED  BY <3>3, <3>5, <3>6
  <2>7. count[k] = 0
    <3>1. CASE wgSema = 0
      <4>1. On(k) = {}
        BY <2>3, <3>1 DEF On
      <4>2. count[k] = Cardinality(On(k))
        BY <2>3, <3>1 DEF GroupCounts
      <4> QED  BY <4>1, <4>2, FS_EmptySet
    <3>2. CASE wgSema # 0
      BY <2>2, <2>4, <3>2
    <3> QED  BY <3>1, <3>2
  <2>8. \A j \in Semas : j # k => count[j] = Cardinality(On(j))
    <3>1. \A j \in Semas : j # k => j # wgSema
      BY <1>1, <2>2
    <3> QED  BY <3>1 DEF GroupCounts
  <2>9. \A h \in Gs : wgPc'[h] # "drelease"
    BY <1>3, <2>2 DEF Holding, GroupCalls
  <2>10. Semas' = Semas
    BY DEF Semas
  <2> QED  BY <2>1, <2>2, <2>4, <2>5, <2>6, <2>7, <2>8, <2>9, <2>10 DEF GroupCounts
<1> QED  BY <1>4, <1>5

LEMMA WaitSemaCounts ==
  ASSUME GroupCalls, GroupCounts, NEW g \in Gs, WaitSema(g)
  PROVE  GroupCounts'
<1>1. Semas \subseteq Nat /\ 0 \notin Semas
  BY FS_CardinalityType DEF Semas
<1>2. wgPc[g] = "wsema"
  BY DEF WaitSema
<1>3. PICK k \in Semas : k = s[g]
  BY <1>2 DEF GroupCalls
<1>4. /\ count[k] > 0 /\ count' = [count EXCEPT ![k] = count[k] - 1]
      /\ s' = [s EXCEPT ![g] = 0] /\ wgPc' = [wgPc EXCEPT ![g] = "idle"]
      /\ UNCHANGED <<wgWaiters, wgSema, left>>
  BY <1>3 DEF WaitSema, WGGoto
<1>5. count[k] \in Nat /\ count'[k] = count[k] - 1 /\ \A j \in Semas : j # k => count'[j] = count[j]
  BY <1>4 DEF GroupCalls
<1>6. \A j \in Semas : j # k => On(j)' = On(j)
  BY <1>1, <1>3, <1>4 DEF On, GroupCalls
<1>7. Cardinality(On(k)') = Cardinality(On(k)) - 1
  <2>1. On(k)' = On(k) \ {g} /\ g \in On(k)
    BY <1>1, <1>3, <1>4 DEF On, GroupCalls
  <2>2. On(k) \in SUBSET Gs
    BY DEF On
  <2> QED  BY <2>1, <2>2, Sizes
<1>8. Cardinality(On(k)) \in Nat
  <2>1. On(k) \in SUBSET Gs
    BY DEF On
  <2> QED  BY <2>1, Sizes
<1>9. \A h \in Gs : wgPc'[h] = "drelease" <=> wgPc[h] = "drelease"
  BY <1>2, <1>4 DEF GroupCalls
<1>10. Semas' = Semas
  BY DEF Semas
<1>11. CASE k # wgSema
  <2>1. Here' = Here
    BY <1>2, <1>3, <1>4, <1>11 DEF Here, GroupCalls
  <2>2. \A j \in Semas : j # wgSema => count'[j] = Cardinality(On(j)')
    BY <1>5, <1>6, <1>7, <1>11 DEF GroupCounts
  <2>3. wgSema # 0 => wgSema \in Semas /\ count'[wgSema] = count[wgSema] /\ On(wgSema)' = On(wgSema)
    <3>1. wgSema # 0 => wgSema \in Semas
      BY DEF GroupCalls
    <3>2. ASSUME wgSema # 0 PROVE count'[wgSema] = count[wgSema]
      BY <1>5, <1>11, <3>1, <3>2
    <3>3. PICK j : j = wgSema
      OBVIOUS
    <3>4. ASSUME wgSema # 0 PROVE On(wgSema)' = On(wgSema)
      <4>1. On(j)' = On(j)
        BY <1>6, <1>11, <3>1, <3>3, <3>4
      <4>2. On(wgSema)' = On(j)' /\ On(wgSema) = On(j)
        BY <1>4, <3>3 DEF On
      <4> QED  BY <4>1, <4>2
    <3> QED  BY <3>1, <3>2, <3>4
  <2> QED  BY <1>4, <1>9, <1>10, <2>1, <2>2, <2>3 DEF GroupCounts
<1>12. CASE k = wgSema
  <2>1. \A j \in Semas : j # wgSema => count'[j] = Cardinality(On(j)')
    BY <1>5, <1>6, <1>12 DEF GroupCounts
  <2>2. ~\A h \in Gs : wgPc[h] # "drelease"
    BY <1>1, <1>4, <1>5, <1>12 DEF GroupCounts
  <2>3. wgSema # 0
    BY <1>1, <1>12
  <2>4. ASSUME NEW h \in Gs, wgPc[h] = "drelease"
        PROVE  count'[wgSema] + left[h] = Cardinality(On(wgSema)')
    <3>1. count[k] + left[h] = Cardinality(On(k)) /\ left[h] \in Nat
      BY <1>12, <2>3, <2>4 DEF GroupCounts, GroupCalls
    <3>2. count'[k] + left[h] = Cardinality(On(k)')
      BY <1>5, <1>7, <1>8, <3>1
    <3>3. On(wgSema)' = On(k)'
      BY <1>4, <1>12 DEF On
    <3>4. count'[wgSema] = count'[k]
      BY <1>12
    <3> QED  BY <3>2, <3>3, <3>4
  <2> QED  BY <1>4, <1>9, <1>10, <2>1, <2>2, <2>3, <2>4 DEF GroupCounts
<1> QED  BY <1>11, <1>12

LEMMA StepGroupCounts ==
  ASSUME GroupCalls, GroupCounts, [WGNext]_wgVars
  PROVE  GroupCounts'
<1>1. ASSUME NEW g \in Gs,
             \/ Add(g) \/ Wait(g) \/ Done(g)
             \/ DoneLoad(g) \/ DoneLock(g) \/ WaitLock(g)
      PROVE  GroupCounts'
  <2>1. UNCHANGED <<wgWaiters, wgSema, count, s, left>>
    BY <1>1 DEF Add, Wait, Done, DoneLoad, DoneLock, WaitLock
  <2>2. /\ \A h \in Gs : h # g => wgPc'[h] = wgPc[h]
        /\ wgPc[g] \in {"idle", "dload", "dlock", "wlock"}
        /\ wgPc'[g] \in {"idle", "dload", "dlock", "dcheck", "wlock", "wadd"}
    BY <1>1 DEF Add, Wait, Done, DoneLoad, DoneLock, WaitLock, WGGoto,
                GroupCalls
  <2>3. \A h \in Gs : /\ wgPc'[h] = "drelease" <=> wgPc[h] = "drelease"
                      /\ wgPc'[h] = "wsema" <=> wgPc[h] = "wsema"
                      /\ wgPc'[h] \in {"wcheck", "wundo"} <=> wgPc[h] \in {"wcheck", "wundo"}
    BY <2>2
  <2> QED  BY <2>1, <2>3, GroupFrame
<1>2. ASSUME NEW g \in Gs, WaitAdd(g) PROVE GroupCounts'
  <2>1. /\ wgPc[g] = "wadd" /\ wgWaiters' = wgWaiters + 1 /\ wgPc' = [wgPc EXCEPT ![g] = "wcheck"]
        /\ UNCHANGED <<wgSema, count, s, left>>
    BY <1>2 DEF WaitAdd, WGGoto
  <2>2. \A h \in Gs : h # g => wgPc[h] \notin Holding
    BY <2>1, OneHolder DEF Holding
  <2>3. \A h \in Gs : wgPc[h] # "drelease" /\ wgPc'[h] # "drelease"
    BY <2>1, <2>2 DEF Holding, GroupCalls
  <2>4. Here' = Here \cup {g} /\ g \notin Here /\ Here \in SUBSET Gs
    BY <2>1 DEF Here, GroupCalls
  <2>5. wgWaiters = Cardinality(Here) /\ (wgSema # 0 => count[wgSema] = 0)
    BY <2>3 DEF GroupCounts
  <2>6. wgWaiters' = Cardinality(Here')
    BY <2>1, <2>4, <2>5, Sizes
  <2>7. \A k : On(k)' = On(k)
    BY <2>1 DEF On
  <2>8. Semas' = Semas
    BY DEF Semas
  <2> QED  BY <2>1, <2>3, <2>5, <2>6, <2>7, <2>8 DEF GroupCounts
<1>3. ASSUME NEW g \in Gs, WaitUndo(g) PROVE GroupCounts'
  <2>1. /\ wgPc[g] = "wundo" /\ wgWaiters' = wgWaiters - 1 /\ wgPc' = [wgPc EXCEPT ![g] = "idle"]
        /\ UNCHANGED <<wgSema, count, s, left>>
    BY <1>3 DEF WaitUndo, WGGoto
  <2>2. \A h \in Gs : h # g => wgPc[h] \notin Holding
    BY <2>1, OneHolder DEF Holding
  <2>3. \A h \in Gs : wgPc[h] # "drelease" /\ wgPc'[h] # "drelease"
    BY <2>1, <2>2 DEF Holding, GroupCalls
  <2>4. Here' = Here \ {g} /\ g \in Here /\ Here \in SUBSET Gs
    BY <2>1 DEF Here, GroupCalls
  <2>5. wgWaiters = Cardinality(Here) /\ (wgSema # 0 => count[wgSema] = 0)
    BY <2>3 DEF GroupCounts
  <2>6. wgWaiters' = Cardinality(Here')
    BY <2>1, <2>4, <2>5, Sizes
  <2>7. \A k : On(k)' = On(k)
    BY <2>1 DEF On
  <2>8. Semas' = Semas
    BY DEF Semas
  <2> QED  BY <2>1, <2>3, <2>5, <2>6, <2>7, <2>8 DEF GroupCounts
<1>4. CASE UNCHANGED wgVars
  <2>1. UNCHANGED <<wgWaiters, wgSema, count, s, left, wgPc>>
    BY <1>4 DEF wgVars
  <2> QED  BY <2>1, GroupFrame
<1> QED
  BY <1>1, <1>2, <1>3, <1>4, ReleaseCounts, CheckCounts, WaitCheckCounts, WaitSemaCounts
     DEF WGNext, WGStep

LEMMA StepGroupZeros ==
  ASSUME GroupInv, [WGNext]_wgVars
  PROVE  GroupZeros'
<1>1. GroupCalls /\ GroupCounts /\ GroupZeros
  BY DEF GroupInv
<1> USE <1>1 DEF GroupCalls, GroupZeros, WGWaiting, WGGoto
<1>2. ASSUME NEW g \in Gs, Add(g) PROVE GroupZeros'
  BY <1>2 DEF Add
<1>3. ASSUME NEW g \in Gs, Wait(g) PROVE GroupZeros'
  BY <1>3 DEF Wait
<1>4. ASSUME NEW g \in Gs, Done(g) PROVE GroupZeros'
  BY <1>4 DEF Done
<1>5. ASSUME NEW g \in Gs, DoneLoad(g) \/ DoneLock(g) PROVE GroupZeros'
  BY <1>5 DEF DoneLoad, DoneLock
<1>6. ASSUME NEW g \in Gs, DoneCheck(g) PROVE GroupZeros'
  BY <1>6 DEF DoneCheck
<1>7. ASSUME NEW g \in Gs, DoneRelease(g) PROVE GroupZeros'
  BY <1>7 DEF DoneRelease
<1>8. ASSUME NEW g \in Gs, WaitLock(g) \/ WaitAdd(g) PROVE GroupZeros'
  BY <1>8 DEF WaitLock, WaitAdd
<1>9. ASSUME NEW g \in Gs, WaitCheck(g) PROVE GroupZeros'
  <2>1. wgPc[g] = "wcheck"
    BY <1>9 DEF WaitCheck
  <2>2. \A h \in Gs : wgPc[h] # "drelease"
    BY <2>1, OneHolder DEF Holding
  <2>3. CASE counter = 0
    BY <1>9, <2>1, <2>3 DEF WaitCheck
  <2>4. CASE counter # 0
    <3>1. /\ s' = [s EXCEPT ![g] = wgSema'] /\ wgPc' = [wgPc EXCEPT ![g] = "wsema"]
          /\ UNCHANGED <<counter, sawZero>> /\ (wgSema # 0 => wgSema' = wgSema)
      BY <1>9, <2>4 DEF WaitCheck
    <3> QED  BY <2>1, <2>2, <2>4, <3>1
  <2> QED  BY <2>3, <2>4
<1>10. ASSUME NEW g \in Gs, WaitUndo(g) \/ WaitSema(g) PROVE GroupZeros'
  BY <1>10 DEF WaitUndo, WaitSema
<1>11. CASE UNCHANGED wgVars
  BY <1>11 DEF wgVars
<1> QED
  BY <1>2, <1>3, <1>4, <1>5, <1>6, <1>7, <1>8, <1>9, <1>10, <1>11 DEF WGNext, WGStep

\* Whoever leaves Wait has been given up on at 0, or released by a Done.
LEMMA GroupLeaves ==
  ASSUME GroupInv, [WGNext]_wgVars, NEW h \in Gs,
         wgPc[h] \in WGWaiting, wgPc'[h] = "idle"
  PROVE  sawZero[h]
<1>1. GroupCalls /\ GroupCounts /\ GroupZeros
  BY DEF GroupInv
<1>2. PICK g \in Gs : WaitUndo(g) \/ WaitSema(g)
  <2>1. wgPc \in [Gs -> WGLocations] /\ wgPc[h] \in {"wlock", "wadd", "wcheck", "wundo", "wsema"}
    BY <1>1 DEF GroupCalls, WGWaiting
  <2>2. ~UNCHANGED wgVars
    BY <2>1 DEF wgVars
  <2>3. ASSUME NEW g \in Gs,
               \/ Add(g) \/ Wait(g) \/ Done(g) \/ DoneLoad(g) \/ DoneLock(g)
               \/ DoneCheck(g) \/ DoneRelease(g)
               \/ WaitLock(g) \/ WaitAdd(g) \/ WaitCheck(g)
        PROVE  FALSE
    BY <2>1, <2>3 DEF Add, Wait, Done, DoneLoad, DoneLock, DoneCheck,
         DoneRelease, WaitLock, WaitAdd, WaitCheck, WGGoto
  <2> QED  BY <2>2, <2>3 DEF WGNext, WGStep
<1>3. g = h
  BY <1>1, <1>2 DEF WaitUndo, WaitSema, WGGoto, GroupCalls, WGWaiting
<1>4. CASE WaitUndo(g)
  BY <1>1, <1>3, <1>4 DEF WaitUndo, GroupZeros
<1>5. CASE WaitSema(g)
  <2>1. wgPc[h] = "wsema" /\ count[s[h]] > 0
    BY <1>3, <1>5 DEF WaitSema
  <2>2. s[h] # 0
    BY <1>1, <2>1 DEF GroupCalls
  <2>3. s[h] # wgSema \/ \E x \in Gs : wgPc[x] = "drelease"
    BY <1>1, <2>1, <2>2 DEF GroupCounts
  <2> QED  BY <1>1, <2>1, <2>3 DEF GroupZeros
<1> QED  BY <1>2, <1>4, <1>5

\* Wait returns only after the counter was 0 at some moment of the all, for
\* any number of goroutines and rounds: a wakeup of one round is never taken
\* by a waiter of the next.
THEOREM GroupWaitSawZero == WGSpec => WaitSawZero
<1>1. WGInit => GroupInv
  BY InitGroup
<1>2. GroupInv /\ [WGNext]_wgVars => GroupInv'
  BY StepGroupCalls, StepGroupCounts, StepGroupZeros DEF GroupInv
<1>3. GroupInv /\ [WGNext]_wgVars
        => [\A g \in Gs : wgPc[g] \in WGWaiting /\ wgPc'[g] = "idle" => sawZero[g]]_wgVars
  BY GroupLeaves
<1> QED
  BY <1>1, <1>2, <1>3, PTL DEF WGSpec, WaitSawZero

----------------------------------------------------------------------------
(* sync.Cond *)

\* The wakeups of one signaller, of the signallers not yet at the semaphore, and
\* of those in its queue; and the goroutines in Wait.
Wakeups(g, k) == {g} \X (1..k)
TakenBy(f) == UNION {Wakeups(g, f[g]) : g \in Gs}
HeldIn(q) == UNION {Wakeups(q[j].g, q[j].nrelease) : j \in DOMAIN q}
InWait(p) == {g \in Gs : p[g] \in CondWaiting}

Entry == [g : Gs, nrelease : Int]
Queues == {q \in Seq(Entry) : \A i, j \in DOMAIN q : q[i].g = q[j].g => i = j}

\* S has k elements more than T.
More(S, T, k) == IsFiniteSet(S) /\ IsFiniteSet(T) /\ Cardinality(S) = Cardinality(T) + k

LEMMA WakeupsMore ==
  ASSUME NEW g, NEW k \in Nat
  PROVE  More(Wakeups(g, k), {}, k)
<1>1. IsFiniteSet({g}) /\ Cardinality({g}) = 1
  BY FS_Singleton
<1>2. IsFiniteSet(1..k) /\ Cardinality(1..k) = k
  BY FS_Interval
<1>3. IsFiniteSet({g} \X (1..k)) /\ Cardinality({g} \X (1..k)) = Cardinality({g}) * Cardinality(1..k)
  BY <1>1, <1>2, FS_Product
<1> QED  BY <1>1, <1>2, <1>3, FS_EmptySet DEF More, Wakeups

LEMMA NoWakeups ==
  ASSUME NEW g, NEW k \in Int, k <= 0
  PROVE  Wakeups(g, k) = {}
BY DEF Wakeups

LEMMA DisjointMore ==
  ASSUME NEW S, NEW T, NEW k \in Nat, IsFiniteSet(S), More(T, {}, k), S \cap T = {}
  PROVE  More(S \cup T, S, k)
<1>1. IsFiniteSet(T) /\ Cardinality(T) = k
  BY FS_EmptySet DEF More
<1>2. IsFiniteSet(S \cup T) /\ Cardinality(S \cup T) = Cardinality(S) + Cardinality(T) - Cardinality(S \cap T)
  BY <1>1, FS_Union
<1>3. Cardinality(S \cap T) = 0 /\ Cardinality(S) \in Nat
  BY FS_EmptySet, FS_CardinalityType
<1> QED  BY <1>1, <1>2, <1>3 DEF More

\* A signaller that has taken k waiters off the count, or has brought them.
LEMMA TakenMore ==
  ASSUME NEW f \in [Gs -> Nat], NEW g \in Gs, NEW k \in Nat,
         f[g] = 0, IsFiniteSet(TakenBy(f)),
         NEW f2 \in [Gs -> Nat], f2[g] = k, \A h \in Gs : h # g => f2[h] = f[h]
  PROVE  More(TakenBy(f2), TakenBy(f), k)
<1>1. Wakeups(g, f[g]) = {}
  BY NoWakeups
<1>2. TakenBy(f2) = TakenBy(f) \cup Wakeups(g, k)
  BY <1>1, Zenon DEF TakenBy
<1>3. TakenBy(f) \cap Wakeups(g, k) = {}
  <2> SUFFICES ASSUME NEW h \in Gs, NEW p \in Wakeups(h, f[h]), p \in Wakeups(g, k) PROVE FALSE
    BY Zenon DEF TakenBy
  <2>1. h = g
    BY DEF Wakeups
  <2> QED  BY <1>1, <2>1
<1> QED  BY <1>2, <1>3, WakeupsMore, DisjointMore

LEMMA TakenFinite ==
  ASSUME NEW f, NEW f2, IsFiniteSet(TakenBy(f)), \A h \in Gs : f2[h] = f[h] \/ f2[h] = 0
  PROVE  IsFiniteSet(TakenBy(f2))
<1>1. \A h \in Gs : Wakeups(h, f2[h]) \subseteq Wakeups(h, f[h])
  <2> SUFFICES ASSUME NEW h \in Gs PROVE Wakeups(h, f2[h]) \subseteq Wakeups(h, f[h])
    OBVIOUS
  <2>1. CASE f2[h] = 0
    BY <2>1, NoWakeups
  <2> QED  BY <2>1
<1>2. TakenBy(f2) \in SUBSET TakenBy(f)
  BY <1>1, Zenon DEF TakenBy
<1> QED  BY <1>2, FS_Subset

LEMMA HeldBy ==
  ASSUME NEW q, NEW p
  PROVE  p \in HeldIn(q) <=> \E j \in DOMAIN q : p \in Wakeups(q[j].g, q[j].nrelease)
BY Zenon DEF HeldIn

\* Joining the queue.
LEMMA HeldAppend ==
  ASSUME NEW q \in Seq(Entry), NEW e \in Entry
  PROVE  HeldIn(Append(q, e)) = HeldIn(q) \cup Wakeups(e.g, e.nrelease)
<1> DEFINE r == Append(q, e)
<1>1. /\ DOMAIN q = 1..Len(q) /\ DOMAIN r = 1..Len(q)+1 /\ Len(q) \in Nat
      /\ r[Len(q)+1] = e /\ \A j \in 1..Len(q) : r[j] = q[j]
  OBVIOUS
<1> HIDE DEF r
<1>2. DOMAIN r = DOMAIN q \cup {Len(q)+1}
  BY <1>1
<1>3. /\ r[Len(q)+1] = e
      /\ \A j \in DOMAIN q : r[j] = q[j]
  BY <1>1
<1>4. ASSUME NEW p \in HeldIn(r) PROVE p \in HeldIn(q) \cup Wakeups(e.g, e.nrelease)
  <2>1. PICK j \in DOMAIN r : p \in Wakeups(r[j].g, r[j].nrelease)
    BY <1>4, HeldBy
  <2>2. CASE j \in DOMAIN q
    BY <1>3, <2>1, <2>2, HeldBy
  <2>3. CASE j = Len(q)+1
    BY <1>3, <2>1, <2>3
  <2> QED  BY <1>2, <2>2, <2>3
<1>5. ASSUME NEW p \in HeldIn(q) PROVE p \in HeldIn(r)
  <2>1. PICK j \in DOMAIN q : p \in Wakeups(q[j].g, q[j].nrelease)
    BY <1>5, HeldBy
  <2>2. j \in DOMAIN r /\ r[j] = q[j]
    BY <1>2, <1>3
  <2> QED  BY <2>1, <2>2, HeldBy
<1>6. ASSUME NEW p \in Wakeups(e.g, e.nrelease) PROVE p \in HeldIn(r)
  <2>1. Len(q)+1 \in DOMAIN r /\ p \in Wakeups(r[Len(q)+1].g, r[Len(q)+1].nrelease)
    BY <1>2, <1>3, <1>6
  <2> QED  BY <2>1, HeldBy
<1>7. HeldIn(r) = HeldIn(q) \cup Wakeups(e.g, e.nrelease)
  BY <1>4, <1>5, <1>6, Zenon
<1> QED  BY <1>7 DEF r

LEMMA HeldOthers ==
  ASSUME NEW q, NEW g, NEW k, \A j \in DOMAIN q : q[j].g # g
  PROVE  HeldIn(q) \cap Wakeups(g, k) = {}
<1> SUFFICES ASSUME NEW j \in DOMAIN q, NEW p \in Wakeups(q[j].g, q[j].nrelease),
                    p \in Wakeups(g, k)
             PROVE  FALSE
  BY Zenon DEF HeldIn
<1>1. q[j].g = g
  BY DEF Wakeups
<1> QED  BY <1>1

\* Leaving the head of the queue: what is left, and what the head holds.
LEMMA HeldFirst ==
  ASSUME NEW q \in Queues, q # <<>>
  PROVE  /\ HeldIn(q) = HeldIn(Tail(q)) \cup Wakeups(q[1].g, q[1].nrelease)
         /\ \A j \in DOMAIN Tail(q) : Tail(q)[j].g # q[1].g
         /\ Tail(q) \in Queues
<1> DEFINE r == Tail(q)
<1>1. q \in Seq(Entry) /\ \A i, j \in DOMAIN q : q[i].g = q[j].g => i = j
  BY DEF Queues
<1>2. /\ r \in Seq(Entry) /\ Len(q) \in Nat /\ Len(q) > 0 /\ Len(r) = Len(q) - 1
      /\ DOMAIN q = 1..Len(q) /\ DOMAIN r = 1..Len(r)
      /\ \A j \in 1..Len(r) : r[j] = q[j+1]
  BY <1>1
<1> HIDE DEF r
<1>3. \A j \in DOMAIN q : j = 1 \/ \E i \in DOMAIN r : r[i] = q[j]
  <2> SUFFICES ASSUME NEW j \in DOMAIN q, j # 1 PROVE \E i \in DOMAIN r : r[i] = q[j]
    OBVIOUS
  <2>1. j - 1 \in DOMAIN r /\ r[j-1] = q[j]
    BY <1>2
  <2> QED  BY <2>1
<1>4. \A j \in DOMAIN r : \E i \in DOMAIN q : r[j] = q[i]
  <2> SUFFICES ASSUME NEW j \in DOMAIN r PROVE \E i \in DOMAIN q : r[j] = q[i]
    OBVIOUS
  <2>1. j + 1 \in DOMAIN q /\ r[j] = q[j+1]
    BY <1>2
  <2> QED  BY <2>1
<1>5. 1 \in DOMAIN q
  BY <1>2
<1>6. HeldIn(q) = HeldIn(r) \cup Wakeups(q[1].g, q[1].nrelease)
  <2>1. ASSUME NEW p \in HeldIn(q) PROVE p \in HeldIn(r) \cup Wakeups(q[1].g, q[1].nrelease)
    <3>1. PICK j \in DOMAIN q : p \in Wakeups(q[j].g, q[j].nrelease)
      BY <2>1, HeldBy
    <3>2. CASE j = 1
      BY <3>1, <3>2
    <3>3. ASSUME NEW i \in DOMAIN r, r[i] = q[j] PROVE p \in HeldIn(r)
      BY <3>1, <3>3, HeldBy
    <3> QED  BY <1>3, <3>2, <3>3
  <2>2. ASSUME NEW p \in HeldIn(r) PROVE p \in HeldIn(q)
    <3>1. PICK j \in DOMAIN r : p \in Wakeups(r[j].g, r[j].nrelease)
      BY <2>2, HeldBy
    <3>2. PICK i \in DOMAIN q : r[j] = q[i]
      BY <1>4
    <3> QED  BY <3>1, <3>2, HeldBy
  <2>3. ASSUME NEW p \in Wakeups(q[1].g, q[1].nrelease) PROVE p \in HeldIn(q)
    BY <1>5, <2>3, HeldBy
  <2> QED  BY <2>1, <2>2, <2>3, Zenon
<1>7. \A j \in DOMAIN r : r[j].g # q[1].g
  BY <1>1, <1>2
<1>8. r \in Queues
  <2>1. \A i, j \in DOMAIN r : r[i].g = r[j].g => i = j
    <3> SUFFICES ASSUME NEW i \in DOMAIN r, NEW j \in DOMAIN r, r[i].g = r[j].g PROVE i = j
      OBVIOUS
    <3>1. i \in Nat /\ j \in Nat /\ i + 1 \in DOMAIN q /\ j + 1 \in DOMAIN q
      BY <1>2
    <3>2. q[i+1].g = q[j+1].g
      BY <1>2
    <3>3. i + 1 = j + 1
      BY <1>1, <3>1, <3>2
    <3> QED  BY <3>1, <3>3
  <2> QED  BY <1>2, <2>1 DEF Queues
<1> QED  BY <1>6, <1>7, <1>8 DEF r

LEMMA HeadMore ==
  ASSUME NEW q \in Queues, q # <<>>, q[1].nrelease \in Nat, IsFiniteSet(HeldIn(Tail(q)))
  PROVE  More(HeldIn(q), HeldIn(Tail(q)), q[1].nrelease)
<1>1. PICK t, g, k : t = Tail(q) /\ g = q[1].g /\ k = q[1].nrelease
  OBVIOUS
<1>2. HeldIn(q) = HeldIn(t) \cup Wakeups(g, k) /\ \A j \in DOMAIN t : t[j].g # g
  BY <1>1, HeldFirst
<1>3. HeldIn(t) \cap Wakeups(g, k) = {}
  BY <1>2, HeldOthers
<1>4. More(HeldIn(t) \cup Wakeups(g, k), HeldIn(t), k)
  BY <1>1, <1>3, WakeupsMore, DisjointMore
<1> QED  BY <1>1, <1>2, <1>4

\* The queue without its first k goroutines.
Lasts(r, q, k) ==
  /\ r \in Queues
  /\ \A j \in DOMAIN r : j + k \in DOMAIN q /\ r[j] = q[j + k]
  /\ \A j \in DOMAIN q : j > k => j - k \in DOMAIN r /\ r[j - k] = q[j]

LEMMA RestOf ==
  ASSUME NEW q \in Queues, NEW k \in 0..Len(q), NEW r, r = SubSeq(q, k + 1, Len(q))
  PROVE  Lasts(r, q, k)
<1>1. q \in Seq(Entry) /\ \A i, j \in DOMAIN q : q[i].g = q[j].g => i = j
  BY DEF Queues
<1>2. PICK len \in Nat : len = Len(q) /\ DOMAIN q = 1..len /\ k \in 0..len
  BY <1>1
<1>3. \A i \in k + 1..len : q[i] \in Entry
  BY <1>1, <1>2
<1>4. /\ r \in Seq(Entry) /\ Len(r) = len - k
      /\ \A i \in 1..len - (k + 1) + 1 : r[i] = q[(k + 1) + i - 1]
  <2>1. /\ r \in Seq(Entry)
        /\ Len(r) = IF k + 1 <= len THEN len - (k + 1) + 1 ELSE 0
        /\ \A i \in 1..len - (k + 1) + 1 : r[i] = q[(k + 1) + i - 1]
    BY <1>2, <1>3, SubSeqProperties
  <2> QED  BY <1>2, <2>1
<1>5. DOMAIN r = 1..len - k
  BY <1>4
<1>6. \A j \in 1..len - k : r[j] = q[j + k]
  <2> SUFFICES ASSUME NEW j \in 1..len - k PROVE r[j] = q[j + k]
    OBVIOUS
  <2>1. (k + 1) + j - 1 = j + k /\ j \in 1..len - (k + 1) + 1
    BY <1>2
  <2> QED  BY <1>4, <2>1
<1>7. \A j \in DOMAIN r : j + k \in DOMAIN q /\ r[j] = q[j + k]
  BY <1>2, <1>5, <1>6
<1>8. \A j \in DOMAIN q : j > k => j - k \in DOMAIN r /\ r[j - k] = q[j]
  <2> SUFFICES ASSUME NEW j \in DOMAIN q, j > k PROVE j - k \in DOMAIN r /\ r[j - k] = q[j]
    OBVIOUS
  <2>1. j - k \in 1..len - k /\ (j - k) + k = j
    BY <1>2
  <2> QED  BY <1>5, <1>6, <2>1
<1>9. \A i, j \in DOMAIN r : r[i].g = r[j].g => i = j
  <2> SUFFICES ASSUME NEW i \in DOMAIN r, NEW j \in DOMAIN r, r[i].g = r[j].g PROVE i = j
    OBVIOUS
  <2>1. i + k = j + k
    BY <1>1, <1>7
  <2> QED  BY <1>2, <1>5, <2>1
<1> QED  BY <1>4, <1>7, <1>8, <1>9 DEF Queues, Lasts

LEMMA RestHeld ==
  ASSUME NEW q \in Queues, NEW k \in 0..Len(q), NEW r, r = SubSeq(q, k + 1, Len(q)),
         \A j \in 1..k : q[j].nrelease < 0
  PROVE  HeldIn(r) = HeldIn(q)
<1>1. \A j \in DOMAIN r : \E i \in DOMAIN q : r[j] = q[i]
  BY RestOf DEF Lasts
<1>2. \A j \in DOMAIN q : Wakeups(q[j].g, q[j].nrelease) = {} \/ \E i \in DOMAIN r : r[i] = q[j]
  <2> SUFFICES ASSUME NEW j \in DOMAIN q
               PROVE  Wakeups(q[j].g, q[j].nrelease) = {} \/ \E i \in DOMAIN r : r[i] = q[j]
    OBVIOUS
  <2>1. q \in Seq(Entry) /\ j \in 1..Len(q) /\ Len(q) \in Nat
    BY DEF Queues
  <2>2. q[j] \in Entry /\ q[j].nrelease \in Int
    <3>1. PICK e \in Entry : e = q[j]
      BY <2>1, ElementOfSeq
    <3>2. e.nrelease \in Int
      BY DEF Entry
    <3> QED  BY <3>1, <3>2
  <2>3. CASE j <= k
    <3>1. q[j].nrelease < 0
      BY <2>1, <2>3
    <3>2. q[j].nrelease <= 0
      BY <2>2, <3>1
    <3> QED  BY <2>2, <3>2, NoWakeups
  <2>4. CASE j > k
    <3>1. \A x \in DOMAIN q : x > k => x - k \in DOMAIN r /\ r[x - k] = q[x]
      BY RestOf DEF Lasts
    <3>2. j - k \in DOMAIN r /\ r[j - k] = q[j]
      BY <2>4, <3>1
    <3> QED  BY <3>2, Zenon
  <2> QED  BY <2>1, <2>3, <2>4
<1>3. ASSUME NEW p \in HeldIn(r) PROVE p \in HeldIn(q)
  <2>1. PICK j \in DOMAIN r : p \in Wakeups(r[j].g, r[j].nrelease)
    BY <1>3, Zenon DEF HeldIn
  <2> QED  BY <1>1, <2>1, Zenon DEF HeldIn
<1>4. ASSUME NEW p \in HeldIn(q) PROVE p \in HeldIn(r)
  <2>1. PICK j \in DOMAIN q : p \in Wakeups(q[j].g, q[j].nrelease)
    BY <1>4, Zenon DEF HeldIn
  <2>2. PICK i \in DOMAIN r : r[i] = q[j]
    BY <1>2, <2>1, Zenon
  <2> QED  BY <2>1, <2>2, Zenon DEF HeldIn
<1> QED  BY <1>3, <1>4, Zenon

\* The pending acquires at the head are a prefix of the queue.
LEMMA SatisfiedIs ==
  ASSUME NEW q \in Queues, NEW req \in Nat, NEW S,
         S = {j \in DOMAIN q : j <= req /\ \A i \in 1..j : q[i].nrelease < 0}
  PROVE  Cardinality(S) \in 0..Len(q) /\ Cardinality(S) <= req /\ S = 1..Cardinality(S)
<1>1. PICK len \in Nat : len = Len(q) /\ DOMAIN q = 1..len
  BY DEF Queues
<1> DEFINE T == {j \in Nat : j + 1 \notin S}
<1>2. len \in T
  BY <1>1
<1>3. PICK k \in T : \A j \in T : k <= j
  <2>1. PICK k \in T : \A y \in T : <<y, k>> \notin OpToRel(<, Nat)
    BY <1>2, NatLessThanWellFounded, WFMin, Zenon
  <2>2. \A y \in T : ~(y < k)
    BY <2>1, Zenon DEF OpToRel
  <2> QED  BY <2>2
<1>4. k \in 0..len
  BY <1>1, <1>2, <1>3
<1>5. \A j \in 1..k : j \in S
  <2> SUFFICES ASSUME NEW j \in 1..k, j \notin S PROVE FALSE
    OBVIOUS
  <2>1. j - 1 \in Nat /\ (j - 1) + 1 = j /\ ~(k <= j - 1)
    BY <1>3
  <2> QED  BY <1>3, <2>1
<1>6. \A j \in S : j \in 1..k
  <2> SUFFICES ASSUME NEW j \in S, j > k PROVE FALSE
    BY <1>1, <1>3
  <2>1. k + 1 \in DOMAIN q /\ k + 1 <= j /\ j <= req
    BY <1>1, <1>4
  <2>2. k + 1 <= req /\ \A i \in 1..k + 1 : q[i].nrelease < 0
    BY <1>1, <1>4, <2>1
  <2> QED  BY <1>3, <2>1, <2>2
<1>7. S = 1..k
  BY <1>5, <1>6
<1>8. Cardinality(S) = k
  <2> HIDE DEF T
  <2>1. k \in Nat
    BY <1>4
  <2>2. Cardinality(1..k) = k
    BY <2>1, FS_Interval
  <2> QED  BY <1>7, <2>2, Zenon
<1>9. k <= req
  <2>1. CASE k = 0
    BY <2>1
  <2>2. CASE k # 0
    <3>1. k \in S
      BY <1>4, <1>7, <2>2
    <3> QED  BY <3>1
  <2> QED  BY <2>1, <2>2
<1> QED  BY <1>1, <1>4, <1>7, <1>8, <1>9

\* The first k goroutines of the queue are k goroutines.
LEMMA FirstMore ==
  ASSUME NEW q \in Queues, NEW k \in 0..Len(q), NEW W, W = {q[j].g : j \in 1..k}
  PROVE  More(W, {}, k)
<1>1. PICK len \in Nat : len = Len(q) /\ DOMAIN q = 1..len /\ k \in 0..len
  BY DEF Queues
<1>2. \A i, j \in 1..k : q[i].g = q[j].g => i = j
  BY <1>1 DEF Queues
<1> DEFINE f == [j \in 1..k |-> q[j].g]
<1>3. f \in Surjection(1..k, W)
  BY DEF Surjection
<1>4. f \in Injection(1..k, W)
  BY <1>2 DEF Injection, IsInjective
<1> HIDE DEF f
<1>5. IsFiniteSet(1..k) /\ Cardinality(1..k) = k
  BY <1>1, FS_Interval
<1>6. IsFiniteSet(W) /\ Cardinality(W) = k
  BY <1>3, <1>4, <1>5, FS_Surjection
<1> QED  BY <1>6, FS_EmptySet DEF More

Parked(e, p) ==
  \/ e.nrelease < 0 /\ p[e.g] = "wparked"
  \/ e.nrelease > 0 /\ p[e.g] = "sparked"

CondCalls ==
  /\ cPc \in [Gs -> CondLocations] /\ all \in [Gs -> BOOLEAN]
  /\ waiters \in Nat /\ cOld \in [Gs -> Nat] /\ n \in [Gs -> Nat]
  /\ \A g \in Gs : n[g] # 0 => cPc[g] = "srelease"
  /\ \A g \in Gs : cPc[g] = "scas" => cOld[g] # 0

\* Everybody in the queue is there once, and parked.
CondQueue == queue \in Queues /\ \A j \in DOMAIN queue : Parked(queue[j], cPc)

CondMatched ==
  /\ IsFiniteSet(TakenBy(n)) /\ IsFiniteSet(HeldIn(queue))
  /\ Cardinality(InWait(cPc)) =
       waiters + Cardinality(TakenBy(n)) + Cardinality(HeldIn(queue))

CondInv == CondCalls /\ CondQueue /\ CondMatched

LEMMA CondMatches == CondMatched => SignalsMatched
<1>1. Taken = TakenBy(n) /\ Held = HeldIn(queue)
  BY DEF Taken, Held, TakenBy, HeldIn, Wakeups
<1> QED  BY <1>1, Zenon DEF CondMatched, SignalsMatched, InWait

LEMMA InitCond ==
  ASSUME CondInit
  PROVE  CondInv
<1>1. CondCalls
  BY DEF CondCalls, CondInit, CondLocations
<1>2. CondQueue
  BY DEF CondQueue, CondInit, Queues
<1>3. TakenBy(n) = {}
  <2>1. \A g \in Gs : Wakeups(g, n[g]) = {}
    BY NoWakeups DEF CondInit
  <2> QED  BY <2>1, Zenon DEF TakenBy
<1>4. HeldIn(queue) = {}
  <2>1. DOMAIN queue = {}
    BY DEF CondInit
  <2> QED  BY <2>1, Zenon DEF HeldIn
<1>5. InWait(cPc) = {} /\ waiters = 0
  BY DEF InWait, CondInit, CondWaiting
<1>6. CondMatched
  <2>1. Cardinality(InWait(cPc)) = 0 /\ Cardinality(TakenBy(n)) = 0 /\ Cardinality(HeldIn(queue)) = 0
    BY <1>3, <1>4, <1>5, FS_EmptySet, Zenon
  <2>2. IsFiniteSet(TakenBy(n)) /\ IsFiniteSet(HeldIn(queue))
    BY <1>3, <1>4, FS_EmptySet, Zenon
  <2> QED  BY <1>5, <2>1, <2>2 DEF CondMatched
<1> QED  BY <1>1, <1>2, <1>6 DEF CondInv

\* What syncsemrelease does, with k the pending acquires it satisfies.
Woken(q, k) == {q[j].g : j \in 1..k}
Rest(q, k) == SubSeq(q, k + 1, Len(q))
Released(g, k) ==
  /\ k <= n[g] /\ \A j \in 1..k : queue[j].nrelease < 0
  /\ cPc[g] = "srelease"
  /\ queue' = IF k = n[g] THEN Rest(queue, k)
              ELSE Append(Rest(queue, k), [g |-> g, nrelease |-> n[g] - k])
  /\ cPc' = [h \in Gs |-> IF h \in Woken(queue, k) THEN "wlock"
                          ELSE IF h = g THEN (IF k = n[g] THEN "run" ELSE "sparked")
                          ELSE cPc[h]]
  /\ n' = [n EXCEPT ![g] = 0]
  /\ UNCHANGED <<waiters, all, cOld>>

LEMMA ReleaseIs ==
  ASSUME CondCalls, CondQueue, NEW g \in Gs, Syncsemrelease(g)
  PROVE  \E k \in 0..Len(queue) : Released(g, k)
<1>1. PICK k : k = Cardinality(Satisfied(n[g]))
  OBVIOUS
<1>2. Cardinality(Satisfied(n[g])) = k
  BY <1>1
<1>3. PICK q : q = queue
  OBVIOUS
<1>4. q \in Queues /\ n[g] \in Nat
  BY <1>3 DEF CondQueue, CondCalls
<1>5. Satisfied(n[g]) = {j \in DOMAIN q : j <= n[g] /\ \A i \in 1..j : q[i].nrelease < 0}
  BY <1>3 DEF Satisfied
<1>6. k \in 0..Len(q) /\ k <= n[g] /\ Satisfied(n[g]) = 1..k
  BY <1>1, <1>4, <1>5, SatisfiedIs
<1>7. \A j \in 1..k : q[j].nrelease < 0
  <2> SUFFICES ASSUME NEW j \in 1..k PROVE q[j].nrelease < 0
    OBVIOUS
  <2>1. j \in Satisfied(n[g])
    BY <1>6
  <2>2. \A i \in 1..j : q[i].nrelease < 0
    BY <1>5, <2>1
  <2>3. j \in 1..j
    BY <1>6
  <2> QED  BY <2>2, <2>3
<1>8. /\ cPc[g] = "srelease"
      /\ queue' = IF k = n[g] THEN SubSeq(queue, k + 1, Len(queue))
                  ELSE Append(SubSeq(queue, k + 1, Len(queue)), [g |-> g, nrelease |-> n[g] - k])
      /\ cPc' = [h \in Gs |-> IF h \in {queue[j].g : j \in 1..k} THEN "wlock"
                              ELSE IF h = g THEN (IF k = n[g] THEN "run" ELSE "sparked")
                              ELSE cPc[h]]
      /\ n' = [n EXCEPT ![g] = 0]
      /\ UNCHANGED <<waiters, all, cOld>>
  BY <1>2, Zenon DEF Syncsemrelease, Forget
<1>9. Released(g, k)
  BY <1>3, <1>6, <1>7, <1>8, Zenon DEF Released, Rest, Woken
<1> QED  BY <1>3, <1>6, <1>9

\* The head of a queue that is not empty.
LEMMA HeadIs ==
  ASSUME CondQueue, queue # <<>>
  PROVE  /\ 1 \in DOMAIN queue /\ Head(queue) = queue[1] /\ queue[1] \in Entry
         /\ queue[1].g \in Gs /\ queue[1].nrelease \in Int
<1>1. queue \in Seq(Entry)
  BY DEF CondQueue, Queues
<1>2. 1 \in DOMAIN queue /\ Head(queue) = queue[1] /\ queue[1] \in Entry
  BY <1>1
<1>3. PICK e \in Entry : e = queue[1]
  BY <1>2
<1>4. e.g \in Gs /\ e.nrelease \in Int
  BY DEF Entry
<1> QED  BY <1>2, <1>3, <1>4

\* What syncsemacquire does when a releaser r waits at the head, for the last
\* of its acquires and for another, and when none does.
Taking(g) ==
  /\ cPc[g] = "wacquire" /\ queue # <<>> /\ queue[1].nrelease > 1
  /\ queue' = [queue EXCEPT ![1].nrelease = queue[1].nrelease - 1]
  /\ cPc' = [cPc EXCEPT ![g] = "wlock"] /\ n' = n

TakingLast(g) ==
  /\ cPc[g] = "wacquire" /\ queue # <<>> /\ queue[1].nrelease = 1
  /\ queue' = Tail(queue)
  /\ cPc' = [cPc EXCEPT ![g] = "wlock", ![queue[1].g] = "run"]
  /\ n' = [n EXCEPT ![queue[1].g] = 0]

Parking(g) ==
  /\ cPc[g] = "wacquire"
  /\ queue' = Append(queue, [g |-> g, nrelease |-> -1])
  /\ cPc' = [cPc EXCEPT ![g] = "wparked"] /\ n' = n

LEMMA AcquireIs ==
  ASSUME CondQueue, NEW g \in Gs, Syncsemacquire(g)
  PROVE  /\ \/ Taking(g)
            \/ TakingLast(g)
            \/ Parking(g)
         /\ UNCHANGED <<waiters, all, cOld>>
<1>1. PICK x : x = Pending
  OBVIOUS
<1>2. queue # <<>> => x = queue[1].nrelease /\ Head(queue) = queue[1]
  BY <1>1, HeadIs DEF Pending
<1>3. queue = <<>> => x = 0
  BY <1>1 DEF Pending
<1>4. /\ cPc[g] = "wacquire" /\ UNCHANGED <<waiters, all, cOld>>
      /\ \/ /\ x > 1
            /\ queue' = [queue EXCEPT ![1].nrelease = @ - 1]
            /\ cPc' = [cPc EXCEPT ![g] = "wlock"] /\ n' = n
         \/ /\ x = 1
            /\ queue' = Tail(queue)
            /\ cPc' = [cPc EXCEPT ![g] = "wlock", ![Head(queue).g] = "run"]
            /\ n' = [n EXCEPT ![Head(queue).g] = 0]
         \/ /\ x <= 0
            /\ queue' = Append(queue, [g |-> g, nrelease |-> -1])
            /\ cPc' = [cPc EXCEPT ![g] = "wparked"] /\ n' = n
  BY <1>1, Zenon DEF Syncsemacquire, CondGoto, Forget
<1>5. CASE x > 1 /\ queue' = [queue EXCEPT ![1].nrelease = @ - 1]
           /\ cPc' = [cPc EXCEPT ![g] = "wlock"] /\ n' = n
  <2>1. queue # <<>>
    BY <1>3, <1>5
  <2>2. queue' = [queue EXCEPT ![1].nrelease = queue[1].nrelease - 1]
    BY <1>5
  <2> QED  BY <1>2, <1>4, <1>5, <2>1, <2>2 DEF Taking
<1>6. CASE x = 1 /\ queue' = Tail(queue)
           /\ cPc' = [cPc EXCEPT ![g] = "wlock", ![Head(queue).g] = "run"]
           /\ n' = [n EXCEPT ![Head(queue).g] = 0]
  <2>1. queue # <<>>
    BY <1>3, <1>6
  <2>2. Head(queue) = queue[1] /\ queue[1].nrelease = 1
    BY <1>2, <1>6, <2>1
  <2> QED  BY <1>4, <1>6, <2>1, <2>2, Zenon DEF TakingLast
<1>7. CASE queue' = Append(queue, [g |-> g, nrelease |-> -1])
           /\ cPc' = [cPc EXCEPT ![g] = "wparked"] /\ n' = n
  BY <1>4, <1>7 DEF Parking
<1> QED  BY <1>4, <1>5, <1>6, <1>7

LEMMA StepCondCalls ==
  ASSUME CondCalls, CondQueue, [CondNext]_condVars
  PROVE  CondCalls'
<1>1. CondLocations = {"wunlock", "wacquire", "wparked", "sload", "scas", "srelease", "sparked",
                      "run", "wlock"}
  BY DEF CondLocations, CondWaiting, Signalling
<1> USE DEF CondCalls, CondGoto
<1>2. ASSUME NEW g \in Gs, LockL(g) \/ UnlockL(g) PROVE CondCalls'
  BY <1>2 DEF LockL, UnlockL
<1>3. ASSUME NEW g \in Gs, CondWait(g) \/ WaitUnlock(g) \/ WaitLockL(g) PROVE CondCalls'
  BY <1>1, <1>3 DEF CondWait, WaitUnlock, WaitLockL
<1>4. ASSUME NEW g \in Gs, SignalImpl(g) PROVE CondCalls'
  BY <1>1, <1>4 DEF SignalImpl
<1>5. ASSUME NEW g \in Gs, SignalLoad(g) PROVE CondCalls'
  BY <1>1, <1>5 DEF SignalLoad
<1>6. ASSUME NEW g \in Gs, SignalCas(g) PROVE CondCalls'
  <2>1. CASE waiters # cOld[g]
    BY <1>1, <1>6, <2>1 DEF SignalCas
  <2>2. CASE waiters = cOld[g]
    <3>1. PICK w : w = NewWaiters(g)
      OBVIOUS
    <3>2. cPc[g] = "scas" /\ cOld[g] \in Nat /\ cOld[g] # 0
      BY <1>6 DEF SignalCas
    <3>3. w \in Nat /\ cOld[g] - w \in Nat
      BY <3>1, <3>2 DEF NewWaiters
    <3>4. /\ waiters' = w /\ n' = [n EXCEPT ![g] = cOld[g] - w]
          /\ cPc' = [cPc EXCEPT ![g] = "srelease"] /\ cOld' = [cOld EXCEPT ![g] = 0] /\ all' = all
      BY <1>6, <2>2, <3>1 DEF SignalCas
    <3> QED  BY <1>1, <3>3, <3>4
  <2> QED  BY <2>1, <2>2
<1>7. ASSUME NEW g \in Gs, Syncsemacquire(g) PROVE CondCalls'
  <2>1. UNCHANGED <<waiters, all, cOld>>
    BY <1>7, AcquireIs
  <2>2. CASE Taking(g)
    BY <1>1, <2>1, <2>2 DEF Taking
  <2>3. CASE TakingLast(g)
    <3>1. queue[1].g \in Gs
      BY <2>3, HeadIs DEF TakingLast
    <3> QED  BY <1>1, <2>1, <2>3, <3>1 DEF TakingLast
  <2>4. CASE Parking(g)
    BY <1>1, <2>1, <2>4 DEF Parking
  <2> QED  BY <1>7, <2>2, <2>3, <2>4, AcquireIs
<1>8. ASSUME NEW g \in Gs, Syncsemrelease(g) PROVE CondCalls'
  <2>1. PICK k \in 0..Len(queue) : Released(g, k)
    BY <1>8, ReleaseIs
  <2>2. PICK W : W = Woken(queue, k)
    OBVIOUS
  <2>3. /\ cPc[g] = "srelease" /\ n' = [n EXCEPT ![g] = 0] /\ UNCHANGED <<waiters, all, cOld>>
        /\ cPc' = [h \in Gs |-> IF h \in W THEN "wlock"
                          ELSE IF h = g THEN (IF k = n[g] THEN "run" ELSE "sparked")
                          ELSE cPc[h]]
    BY <2>1, <2>2 DEF Released
  <2>4. \A h \in Gs : cPc[h] = "srelease" => h \notin W
    <3> SUFFICES ASSUME NEW j \in 1..k, cPc[queue[j].g] = "srelease" PROVE FALSE
      BY <2>2 DEF Woken
    <3>1. j \in DOMAIN queue
      BY DEF CondQueue, Queues
    <3> QED  BY <3>1 DEF CondQueue, Parked
  <2> QED  BY <1>1, <2>3, <2>4
<1>9. CASE UNCHANGED condVars
  BY <1>9 DEF condVars
<1> QED
  BY <1>2, <1>3, <1>4, <1>5, <1>6, <1>7, <1>8, <1>9 DEF CondNext, CondStep

\* The goroutine of an entry, which nobody but the one it waits for wakes.
LEMMA EntryIs ==
  ASSUME NEW q \in Queues, NEW j \in DOMAIN q
  PROVE  q[j] \in Entry /\ q[j].g \in Gs /\ q[j].nrelease \in Int
<1>1. PICK e \in Entry : e = q[j]
  BY ElementOfSeq DEF Queues
<1>2. e.g \in Gs /\ e.nrelease \in Int
  BY DEF Entry
<1> QED  BY <1>1, <1>2

LEMMA StaysParked ==
  ASSUME NEW e, NEW p, NEW p2, Parked(e, p),
         p[e.g] \in {"wparked", "sparked"} => p2[e.g] = p[e.g]
  PROVE  Parked(e, p2)
BY DEF Parked

\* Joining the queue, with everybody in it still parked.
LEMMA QueueAppend ==
  ASSUME NEW q \in Queues, NEW p, \A j \in DOMAIN q : Parked(q[j], p),
         NEW e \in Entry, \A j \in DOMAIN q : q[j].g # e.g, Parked(e, p)
  PROVE  Append(q, e) \in Queues /\ \A j \in DOMAIN Append(q, e) : Parked(Append(q, e)[j], p)
<1>1. q \in Seq(Entry) /\ \A i, j \in DOMAIN q : q[i].g = q[j].g => i = j
  BY DEF Queues
<1>2. PICK r, len : r = Append(q, e) /\ len = Len(q)
  OBVIOUS
<1>3. /\ r \in Seq(Entry) /\ len \in Nat /\ DOMAIN q = 1..len /\ DOMAIN r = 1..len+1
      /\ r[len+1] = e /\ \A j \in 1..len : r[j] = q[j]
  BY <1>1, <1>2
<1>4. \A j \in DOMAIN r : j = len + 1 \/ j \in DOMAIN q
  BY <1>3
<1>5. \A j \in DOMAIN r : Parked(r[j], p)
  BY <1>3, <1>4
<1>6. \A i, j \in DOMAIN r : r[i].g = r[j].g => i = j
  BY <1>1, <1>3, <1>4
<1> QED  BY <1>2, <1>3, <1>5, <1>6 DEF Queues

LEMMA AcquireQueue ==
  ASSUME CondCalls, CondQueue, NEW g \in Gs, Syncsemacquire(g)
  PROVE  CondQueue'
<1>1. queue \in Queues /\ \A j \in DOMAIN queue : queue[j].g \in Gs
  BY EntryIs DEF CondQueue
<1>2. \A j \in DOMAIN queue : cPc[queue[j].g] \in {"wparked", "sparked"}
  BY DEF CondQueue, Parked
<1>3. CASE Taking(g)
  <2>1. PICK q, r : q = queue /\ r = queue' /\ q \in Seq(Entry)
    BY <1>1 DEF Queues
  <2>2. 1 \in DOMAIN q /\ q[1] \in Entry /\ q[1].nrelease \in Int /\ q[1].nrelease > 1
    BY <1>3, <2>1, HeadIs DEF Taking
  <2>3. PICK e : e = [q[1] EXCEPT !.nrelease = q[1].nrelease - 1]
    OBVIOUS
  <2>4. e \in Entry /\ e.g = q[1].g /\ e.nrelease > 0
    BY <2>2, <2>3 DEF Entry
  <2>5. r = [q EXCEPT ![1] = e]
    BY <1>3, <2>1, <2>2, <2>3 DEF Taking
  <2>6. r \in Seq(Entry) /\ DOMAIN r = DOMAIN q /\ r[1] = e
        /\ \A j \in DOMAIN q : j # 1 => r[j] = q[j]
    BY <2>1, <2>2, <2>4, <2>5
  <2>7. \A j \in DOMAIN q : r[j].g = q[j].g
    BY <2>4, <2>6
  <2>8. r \in Queues
    <3>1. \A i, j \in DOMAIN r : r[i].g = r[j].g => i = j
      BY <1>1, <2>1, <2>6, <2>7 DEF Queues
    <3> QED  BY <2>6, <3>1 DEF Queues
  <2>9. \A j \in DOMAIN q : cPc'[q[j].g] = cPc[q[j].g]
    BY <1>1, <1>2, <1>3, <2>1 DEF Taking, CondCalls
  <2>10. \A j \in DOMAIN q : j # 1 => Parked(r[j], cPc')
    BY <2>1, <2>6, <2>9 DEF CondQueue, Parked
  <2>11. cPc[q[1].g] = "sparked"
    <3>1. Parked(q[1], cPc)
      BY <2>1, <2>2 DEF CondQueue
    <3> QED  BY <2>2, <3>1 DEF Parked
  <2>12. Parked(r[1], cPc')
    BY <2>2, <2>4, <2>6, <2>9, <2>11 DEF Parked
  <2>13. \A j \in DOMAIN r : Parked(r[j], cPc')
    BY <2>6, <2>10, <2>12
  <2> QED  BY <2>1, <2>8, <2>13 DEF CondQueue
<1>4. CASE TakingLast(g)
  <2>1. PICK q, r : q = queue /\ r = Tail(queue)
    OBVIOUS
  <2>2. r \in Queues /\ queue' = r /\ \A j \in DOMAIN r : r[j].g # q[1].g
    BY <1>1, <1>4, <2>1, HeldFirst DEF TakingLast
  <2>3. \A j \in DOMAIN r : Parked(r[j], cPc) /\ r[j].g \in Gs
    <3> SUFFICES ASSUME NEW j \in DOMAIN r PROVE Parked(r[j], cPc) /\ r[j].g \in Gs
      OBVIOUS
    <3>1. q \in Seq(Entry) /\ q # <<>>
      BY <1>1, <1>4, <2>1 DEF Queues, TakingLast
    <3>2. j + 1 \in DOMAIN q /\ r[j] = q[j + 1]
      BY <2>1, <3>1
    <3> QED  BY <1>1, <2>1, <3>2 DEF CondQueue
  <2>4. \A j \in DOMAIN r : cPc[r[j].g] \in {"wparked", "sparked"}
    BY <2>3 DEF Parked
  <2>5. \A j \in DOMAIN r : cPc'[r[j].g] = cPc[r[j].g]
    BY <1>4, <2>1, <2>2, <2>3, <2>4 DEF TakingLast, CondCalls
  <2>6. \A j \in DOMAIN r : Parked(r[j], cPc')
    BY <2>3, <2>5 DEF Parked
  <2> QED  BY <2>2, <2>6 DEF CondQueue
<1>5. CASE Parking(g)
  <2>1. PICK e : e = [g |-> g, nrelease |-> -1]
    OBVIOUS
  <2>2. e \in Entry /\ e.g = g /\ e.nrelease < 0
    BY <2>1 DEF Entry
  <2>3. \A j \in DOMAIN queue : queue[j].g # g
    BY <1>2, <1>5 DEF Parking
  <2>4. cPc'[g] = "wparked" /\ \A j \in DOMAIN queue : cPc'[queue[j].g] = cPc[queue[j].g]
    BY <1>1, <1>5, <2>3 DEF Parking, CondCalls
  <2>5. Parked(e, cPc') /\ \A j \in DOMAIN queue : Parked(queue[j], cPc')
    BY <2>2, <2>4 DEF Parked, CondQueue
  <2>6. queue' = Append(queue, e)
    BY <1>5, <2>1 DEF Parking
  <2> QED  BY <1>1, <2>2, <2>3, <2>5, <2>6, QueueAppend DEF CondQueue
<1> QED  BY <1>3, <1>4, <1>5, AcquireIs

LEMMA ReleaseQueue ==
  ASSUME CondCalls, CondQueue, NEW g \in Gs, Syncsemrelease(g)
  PROVE  CondQueue'
<1>1. PICK k \in 0..Len(queue) : Released(g, k)
  BY ReleaseIs
<1>2. PICK q, r : q = queue /\ r = SubSeq(q, k + 1, Len(q)) /\ q \in Queues
  BY DEF CondQueue
<1>3. PICK req \in Nat : req = n[g] /\ k <= req /\ k \in Nat
  BY <1>1 DEF Released, CondCalls
<1>4. r \in Queues /\ \A j \in DOMAIN r : j + k \in DOMAIN q /\ r[j] = q[j + k]
  <2>1. k \in 0..Len(q)
    BY <1>2
  <2>2. q \in Queues /\ r = SubSeq(q, k + 1, Len(q))
    BY <1>2
  <2>3. Lasts(r, q, k)
    BY <2>1, <2>2, RestOf
  <2> QED  BY <2>3 DEF Lasts
<1>5. \A j \in DOMAIN r : Parked(r[j], cPc) /\ r[j].g \in Gs
  BY <1>2, <1>4, EntryIs DEF CondQueue
<1>6. \A j \in DOMAIN r : cPc[r[j].g] \in {"wparked", "sparked"}
  BY <1>5 DEF Parked
<1>7. \A j \in DOMAIN r : r[j].g \notin Woken(q, k)
  <2> SUFFICES ASSUME NEW j \in DOMAIN r, NEW i \in 1..k, r[j].g = q[i].g PROVE FALSE
    BY DEF Woken
  <2>1. DOMAIN q = 1..Len(q) /\ Len(q) \in Nat /\ k <= Len(q) /\ DOMAIN r = 1..Len(r) /\ j \in Nat /\ j > 0
    BY <1>2, <1>4 DEF Queues
  <2>2. i \in DOMAIN q /\ j + k \in DOMAIN q /\ q[j + k].g = q[i].g
    BY <1>3, <1>4, <2>1
  <2>3. j + k = i
    BY <1>2, <2>2 DEF Queues
  <2> QED  BY <1>3, <2>1, <2>3
<1>8. \A h \in Gs : h \notin Woken(q, k) /\ h # g => cPc'[h] = cPc[h]
  BY <1>1, <1>2 DEF Released
<1>9. cPc[g] = "srelease"
  BY <1>1 DEF Released
<1>10. \A j \in DOMAIN r : r[j].g # g
  BY <1>6, <1>9
<1>11. \A j \in DOMAIN r : Parked(r[j], cPc')
  <2> SUFFICES ASSUME NEW j \in DOMAIN r PROVE Parked(r[j], cPc')
    OBVIOUS
  <2>1. cPc'[r[j].g] = cPc[r[j].g]
    BY <1>5, <1>7, <1>8, <1>10
  <2> QED  BY <1>5, <2>1, StaysParked
<1>12. CASE k = req
  <2>1. queue' = r
    BY <1>1, <1>2, <1>3, <1>12 DEF Released, Rest
  <2> QED  BY <1>4, <1>11, <2>1 DEF CondQueue
<1>13. CASE k # req
  <2>1. PICK e : e = [g |-> g, nrelease |-> req - k]
    OBVIOUS
  <2>2. e \in Entry /\ e.g = g /\ e.nrelease > 0
    BY <1>3, <1>13, <2>1 DEF Entry
  <2>3. queue' = Append(r, e)
    BY <1>1, <1>2, <1>3, <1>13, <2>1 DEF Released, Rest
  <2>4. g \notin Woken(q, k)
    <3> SUFFICES ASSUME NEW i \in 1..k, q[i].g = g PROVE FALSE
      BY DEF Woken
    <3>1. i \in DOMAIN q
      BY <1>2 DEF Queues
    <3> QED  BY <1>2, <1>9, <3>1 DEF CondQueue, Parked
  <2>5. cPc'[g] = "sparked"
    BY <1>1, <1>2, <1>3, <1>13, <2>4 DEF Released
  <2>6. Parked(e, cPc')
    BY <2>2, <2>5 DEF Parked
  <2> QED  BY <1>4, <1>10, <1>11, <2>2, <2>3, <2>6, QueueAppend DEF CondQueue
<1> QED  BY <1>12, <1>13

LEMMA StepCondQueue ==
  ASSUME CondCalls, CondQueue, [CondNext]_condVars
  PROVE  CondQueue'
<1>1. ASSUME queue' = queue, \A h \in Gs : cPc[h] \in {"wparked", "sparked"} => cPc'[h] = cPc[h]
      PROVE  CondQueue'
  <2>1. \A j \in DOMAIN queue : Parked(queue[j], cPc) /\ queue[j].g \in Gs
    BY EntryIs DEF CondQueue
  <2>2. \A j \in DOMAIN queue : Parked(queue[j], cPc')
    BY <1>1, <2>1, StaysParked
  <2> QED  BY <1>1, <2>2 DEF CondQueue
<1>2. ASSUME NEW g \in Gs,
             \/ LockL(g) \/ UnlockL(g) \/ CondWait(g) \/ WaitUnlock(g) \/ WaitLockL(g)
             \/ SignalImpl(g) \/ SignalLoad(g) \/ SignalCas(g)
      PROVE  CondQueue'
  <2>1. queue' = queue
    BY <1>2 DEF LockL, UnlockL, CondWait, WaitUnlock, WaitLockL, SignalImpl,
         SignalLoad, SignalCas
  <2>2. \A h \in Gs : cPc[h] \in {"wparked", "sparked"} => cPc'[h] = cPc[h]
    BY <1>2 DEF LockL, UnlockL, CondWait, WaitUnlock, WaitLockL, SignalImpl,
         SignalLoad, SignalCas, CondGoto, CondCalls
  <2> QED  BY <1>1, <2>1, <2>2
<1>3. CASE UNCHANGED condVars
  BY <1>1, <1>3 DEF condVars
<1> QED  BY <1>2, <1>3, AcquireQueue, ReleaseQueue DEF CondNext, CondStep

\* The goroutines in Wait, when some enter or leave it.
LEMMA InWaitMore ==
  ASSUME NEW p, NEW p2, NEW W, NEW k \in Nat, More(W, {}, k),
         InWait(p) = InWait(p2) \cup W, InWait(p2) \cap W = {}
  PROVE  /\ Cardinality(InWait(p)) = Cardinality(InWait(p2)) + k
         /\ Cardinality(InWait(p2)) \in Nat
<1>1. InWait(p2) \in SUBSET Gs
  BY DEF InWait
<1>2. IsFiniteSet(InWait(p2)) /\ Cardinality(InWait(p2)) \in Nat
  BY <1>1, GsAssumption, FS_Subset, FS_CardinalityType
<1>3. More(InWait(p2) \cup W, InWait(p2), k)
  BY <1>2, DisjointMore
<1> QED  BY <1>2, <1>3 DEF More

LEMMA OneMore ==
  ASSUME NEW g
  PROVE  More({g}, {}, 1)
<1>1. IsFiniteSet({g}) /\ Cardinality({g}) = 1
  BY FS_Singleton, Zenon
<1>2. IsFiniteSet({}) /\ Cardinality({}) = 0
  BY FS_EmptySet, Zenon
<1> QED  BY <1>1, <1>2 DEF More

\* The waiters taken off the count are the wakeups taken.
LEMMA CasMatched ==
  ASSUME CondInv, NEW g \in Gs, SignalCas(g), waiters = cOld[g]
  PROVE  CondMatched'
<1>1. CondCalls /\ CondMatched
  BY DEF CondInv
<1>2. PICK w : w = NewWaiters(g)
  OBVIOUS
<1>3. cPc[g] = "scas" /\ waiters \in Nat /\ waiters # 0
  BY <1>1 DEF SignalCas, CondCalls
<1>4. PICK k \in Nat : waiters = w + k /\ w \in Nat /\ k = cOld[g] - w
  <2>1. w = 0 \/ w = waiters - 1
    BY <1>1, <1>2 DEF NewWaiters, CondCalls
  <2> QED  BY <1>3, <2>1
<1>5. /\ waiters' = w /\ n' = [n EXCEPT ![g] = k] /\ queue' = queue
      /\ cPc' = [cPc EXCEPT ![g] = "srelease"]
  BY <1>2, <1>4 DEF SignalCas, CondGoto
<1>6. InWait(cPc') = InWait(cPc)
  BY <1>1, <1>3, <1>5 DEF InWait, CondWaiting, CondCalls
<1>7. /\ n \in [Gs -> Nat] /\ n[g] = 0
      /\ n' \in [Gs -> Nat] /\ n'[g] = k /\ \A h \in Gs : h # g => n'[h] = n[h]
  BY <1>1, <1>3, <1>5 DEF CondCalls
<1>8. More(TakenBy(n'), TakenBy(n), k)
  BY <1>1, <1>7, TakenMore DEF CondMatched
<1>9. Cardinality(TakenBy(n)) \in Nat /\ Cardinality(HeldIn(queue)) \in Nat
  BY <1>1, FS_CardinalityType DEF CondMatched
<1>10. /\ IsFiniteSet(TakenBy(n')) /\ IsFiniteSet(HeldIn(queue'))
       /\ Cardinality(TakenBy(n')) = Cardinality(TakenBy(n)) + k
  BY <1>1, <1>5, <1>8 DEF More, CondMatched
<1>11. Cardinality(InWait(cPc')) = waiters' + Cardinality(TakenBy(n')) + Cardinality(HeldIn(queue'))
  <2>1. Cardinality(InWait(cPc)) = waiters + Cardinality(TakenBy(n)) + Cardinality(HeldIn(queue))
    BY <1>1 DEF CondMatched
  <2>2. HeldIn(queue') = HeldIn(queue)
    BY <1>5
  <2> QED  BY <1>4, <1>5, <1>6, <1>9, <1>10, <2>1, <2>2
<1> QED  BY <1>10, <1>11 DEF CondMatched

LEMMA AcquireMatched ==
  ASSUME CondInv, NEW g \in Gs, Syncsemacquire(g)
  PROVE  CondMatched'
<1>1. CondCalls /\ CondQueue /\ CondMatched /\ queue \in Queues
  BY DEF CondInv, CondQueue
<1>2. waiters' = waiters /\ waiters \in Nat
  BY <1>1, AcquireIs DEF CondCalls
<1>3. IsFiniteSet(TakenBy(n)) /\ IsFiniteSet(HeldIn(queue))
  BY <1>1 DEF CondMatched
<1>4. Cardinality(TakenBy(n)) \in Nat /\ Cardinality(HeldIn(queue)) \in Nat
  BY <1>3, FS_CardinalityType
<1>5. Cardinality(InWait(cPc)) = waiters + Cardinality(TakenBy(n)) + Cardinality(HeldIn(queue))
  BY <1>1 DEF CondMatched
<1>6. ASSUME queue # <<>>
      PROVE  IsFiniteSet(HeldIn(Tail(queue)))
  <2>1. HeldIn(Tail(queue)) \in SUBSET HeldIn(queue)
    BY <1>1, <1>6, HeldFirst
  <2> QED  BY <1>3, <2>1, FS_Subset
<1>7. ASSUME cPc[g] = "wacquire", cPc'[g] = "wlock",
             \A h \in Gs : h # g => cPc'[h] = cPc[h] \/ (cPc[h] = "sparked" /\ cPc'[h] = "run")
      PROVE  Cardinality(InWait(cPc)) = Cardinality(InWait(cPc')) + 1 /\ Cardinality(InWait(cPc')) \in Nat
  <2>1. InWait(cPc) = InWait(cPc') \cup {g} /\ InWait(cPc') \cap {g} = {}
    BY <1>7 DEF InWait, CondWaiting
  <2> QED  BY <2>1, OneMore, InWaitMore
<1>8. CASE Taking(g)
  <2>1. PICK q, r, t, len : q = queue /\ r = queue' /\ t = Tail(queue) /\ len = queue[1].nrelease
    OBVIOUS
  <2>2. q \in Seq(Entry) /\ q # <<>> /\ 1 \in DOMAIN q /\ q[1] \in Entry /\ len \in Int /\ len > 1
    BY <1>1, <1>8, <2>1, HeadIs DEF Taking, Queues
  <2>3. PICK e : e = [q[1] EXCEPT !.nrelease = len - 1]
    OBVIOUS
  <2>4. e \in Entry /\ e.nrelease = len - 1
    BY <2>2, <2>3 DEF Entry
  <2>5. r = [q EXCEPT ![1] = e]
    BY <1>8, <2>1, <2>2, <2>3 DEF Taking
  <2>6. r \in Seq(Entry) /\ r # <<>> /\ r[1] = e /\ Tail(r) = t
    BY <2>1, <2>2, <2>4, <2>5
  <2>7. r \in Queues
    BY <1>1, <2>1, AcquireQueue DEF CondQueue
  <2>8. More(HeldIn(q), HeldIn(t), len)
    BY <1>1, <1>6, <2>1, <2>2, HeadMore
  <2>9. More(HeldIn(r), HeldIn(t), len - 1)
    <3>1. r[1].nrelease \in Nat /\ r[1].nrelease = len - 1 /\ IsFiniteSet(HeldIn(Tail(r)))
      <4>1. IsFiniteSet(HeldIn(t))
        BY <1>6, <2>1, <2>2
      <4>2. r[1].nrelease = len - 1 /\ Tail(r) = t
        BY <2>4, <2>6
      <4>3. len - 1 \in Nat
        BY <2>2
      <4> QED  BY <4>1, <4>2, <4>3
    <3> QED  BY <2>6, <2>7, <3>1, HeadMore
  <2>10. n' = n
    BY <1>8 DEF Taking
  <2>11. Cardinality(InWait(cPc)) = Cardinality(InWait(cPc')) + 1 /\ Cardinality(InWait(cPc')) \in Nat
    BY <1>1, <1>7, <1>8 DEF Taking, CondCalls
  <2>12. Cardinality(HeldIn(queue)) = Cardinality(HeldIn(queue')) + 1 /\ IsFiniteSet(HeldIn(queue'))
    <3>1. PICK x, y, z : /\ x = Cardinality(HeldIn(q)) /\ y = Cardinality(HeldIn(r))
                         /\ z = Cardinality(HeldIn(t))
      OBVIOUS
    <3>2. x = z + len /\ y = z + (len - 1) /\ IsFiniteSet(HeldIn(t)) /\ IsFiniteSet(HeldIn(r))
      BY <2>8, <2>9, <3>1 DEF More
    <3>3. z \in Nat
      BY <3>1, <3>2, FS_CardinalityType
    <3>4. x = y + 1
      BY <2>2, <3>2, <3>3
    <3> QED  BY <2>1, <3>1, <3>2, <3>4
  <2>13. Cardinality(HeldIn(queue')) \in Nat
    BY <2>12, FS_CardinalityType
  <2>14. Cardinality(InWait(cPc')) = waiters' + Cardinality(TakenBy(n')) + Cardinality(HeldIn(queue'))
    BY <1>2, <1>4, <1>5, <2>10, <2>11, <2>12, <2>13
  <2> QED  BY <1>3, <2>10, <2>12, <2>14 DEF CondMatched
<1>9. CASE TakingLast(g)
  <2>1. PICK h, t : h = queue[1].g /\ t = Tail(queue)
    OBVIOUS
  <2>2. /\ h \in Gs /\ queue # <<>> /\ queue[1].nrelease = 1 /\ 1 \in DOMAIN queue
        /\ queue' = t /\ n' = [n EXCEPT ![h] = 0]
        /\ cPc' = [cPc EXCEPT ![g] = "wlock", ![h] = "run"] /\ cPc[g] = "wacquire"
    BY <1>1, <1>9, <2>1, HeadIs DEF TakingLast
  <2>3. cPc[h] = "sparked"
    <3>1. Parked(queue[1], cPc)
      BY <1>1, <2>2 DEF CondQueue
    <3> QED  BY <2>1, <2>2, <3>1 DEF Parked
  <2>4. n' = n
    BY <1>1, <2>2, <2>3 DEF CondCalls
  <2>5. More(HeldIn(queue), HeldIn(queue'), 1)
    BY <1>1, <1>6, <2>1, <2>2, HeadMore
  <2>6. Cardinality(InWait(cPc)) = Cardinality(InWait(cPc')) + 1 /\ Cardinality(InWait(cPc')) \in Nat
    BY <1>1, <1>7, <2>2, <2>3 DEF CondCalls
  <2>7. Cardinality(HeldIn(queue)) = Cardinality(HeldIn(queue')) + 1 /\ IsFiniteSet(HeldIn(queue'))
    BY <2>5 DEF More
  <2>8. Cardinality(HeldIn(queue')) \in Nat
    BY <2>7, FS_CardinalityType
  <2>9. Cardinality(InWait(cPc')) = waiters' + Cardinality(TakenBy(n')) + Cardinality(HeldIn(queue'))
    BY <1>2, <1>4, <1>5, <2>4, <2>6, <2>7, <2>8
  <2> QED  BY <1>3, <2>4, <2>7, <2>9 DEF CondMatched
<1>10. CASE Parking(g)
  <2>1. PICK e : e = [g |-> g, nrelease |-> -1]
    OBVIOUS
  <2>2. e \in Entry /\ e.nrelease = -1
    BY <2>1 DEF Entry
  <2>3. queue' = Append(queue, e) /\ n' = n /\ InWait(cPc') = InWait(cPc)
    BY <1>1, <1>10, <2>1 DEF Parking, InWait, CondWaiting, CondCalls
  <2>4. HeldIn(queue') = HeldIn(queue)
    <3>1. HeldIn(Append(queue, e)) = HeldIn(queue) \cup Wakeups(e.g, e.nrelease)
      BY <1>1, <2>2, HeldAppend DEF Queues
    <3>2. Wakeups(e.g, e.nrelease) = {}
      BY <2>2, NoWakeups
    <3> QED  BY <2>3, <3>1, <3>2
  <2> QED  BY <1>2, <1>3, <1>5, <2>3, <2>4 DEF CondMatched
<1> QED  BY <1>1, <1>8, <1>9, <1>10, AcquireIs

LEMMA Moved ==
  ASSUME NEW y \in Nat, NEW k \in Nat, NEW w \in Nat, NEW b \in Nat, NEW req \in Nat, NEW c \in Nat,
         y + k = w + (b + req) + c
  PROVE  y = w + b + (c + (req - k))
OBVIOUS

LEMMA ReleaseMatched ==
  ASSUME CondInv, NEW g \in Gs, Syncsemrelease(g)
  PROVE  CondMatched'
<1>1. CondCalls /\ CondQueue /\ CondMatched
  BY DEF CondInv
<1>2. PICK k \in 0..Len(queue) : Released(g, k)
  BY <1>1, ReleaseIs
<1>3. PICK q : q = queue /\ q \in Queues
  BY <1>1 DEF CondQueue
<1>4. PICK r, W : r = SubSeq(q, k + 1, Len(q)) /\ W = {q[j].g : j \in 1..k}
  OBVIOUS
<1>5. PICK req \in Nat : req = n[g] /\ k <= req /\ k \in Nat /\ k \in 0..Len(q)
  BY <1>1, <1>2, <1>3 DEF Released, CondCalls
<1>6. /\ cPc[g] = "srelease" /\ waiters' = waiters /\ n' = [n EXCEPT ![g] = 0]
      /\ \A j \in 1..k : q[j].nrelease < 0
      /\ queue' = IF k = req THEN r ELSE Append(r, [g |-> g, nrelease |-> req - k])
      /\ cPc' = [h \in Gs |-> IF h \in W THEN "wlock"
                              ELSE IF h = g THEN (IF k = req THEN "run" ELSE "sparked")
                              ELSE cPc[h]]
  BY <1>2, <1>3, <1>4, <1>5, Zenon DEF Released, Rest, Woken
<1>7. \A h \in W : h \in Gs /\ cPc[h] = "wparked"
  <2> SUFFICES ASSUME NEW j \in 1..k PROVE q[j].g \in Gs /\ cPc[q[j].g] = "wparked"
    BY <1>4
  <2>1. j \in DOMAIN q
    BY <1>3, <1>5 DEF Queues
  <2>2. Parked(q[j], cPc) /\ q[j].nrelease < 0 /\ q[j].nrelease \in Int /\ q[j].g \in Gs
    BY <1>1, <1>3, <1>6, <2>1, EntryIs DEF CondQueue
  <2> QED  BY <2>2 DEF Parked
<1>8. More(W, {}, k)
  BY <1>3, <1>4, <1>5, FirstMore
<1>9. Cardinality(InWait(cPc)) = Cardinality(InWait(cPc')) + k /\ Cardinality(InWait(cPc')) \in Nat
  <2>1. \A h \in Gs : cPc'[h] = IF h \in W THEN "wlock"
                              ELSE IF h = g THEN (IF k = req THEN "run" ELSE "sparked")
                              ELSE cPc[h]
    BY <1>6
  <2>2. \A h \in Gs : cPc'[h] \in CondWaiting <=> cPc[h] \in CondWaiting /\ h \notin W
    BY <1>6, <2>1 DEF CondWaiting
  <2>3. \A h \in W : h \in Gs /\ cPc[h] \in CondWaiting
    BY <1>7 DEF CondWaiting
  <2>4. InWait(cPc) = InWait(cPc') \cup W /\ InWait(cPc') \cap W = {}
    BY <2>2, <2>3 DEF InWait
  <2> QED  BY <1>5, <1>8, <2>4, InWaitMore
<1>10. More(TakenBy(n), TakenBy(n'), req)
  <2>1. /\ n \in [Gs -> Nat] /\ n' \in [Gs -> Nat] /\ n'[g] = 0
        /\ \A h \in Gs : h # g => n[h] = n'[h]
    BY <1>1, <1>6 DEF CondCalls
  <2>2. IsFiniteSet(TakenBy(n'))
    <3>1. \A h \in Gs : n'[h] = n[h] \/ n'[h] = 0
      BY <2>1
    <3> QED  BY <1>1, <3>1, TakenFinite DEF CondMatched
  <2> QED  BY <1>5, <2>1, <2>2, TakenMore
<1>11. HeldIn(r) = HeldIn(q) /\ r \in Queues
  BY <1>3, <1>4, <1>5, <1>6, RestHeld, RestOf DEF Lasts
<1>12. More(HeldIn(queue'), HeldIn(queue), req - k)
  <2>1. IsFiniteSet(HeldIn(q)) /\ Cardinality(HeldIn(q)) \in Nat
    BY <1>1, <1>3, FS_CardinalityType DEF CondMatched
  <2>2. CASE k = req
    <3>1. queue' = r
      BY <1>6, <2>2
    <3>2. HeldIn(queue') = HeldIn(queue) /\ req - k = 0
      BY <1>3, <1>5, <1>11, <2>2, <3>1
    <3> QED  BY <1>3, <2>1, <3>2 DEF More
  <2>3. CASE k # req
    <3>1. PICK e : e = [g |-> g, nrelease |-> req - k]
      OBVIOUS
    <3>2. e \in Entry /\ e.g = g /\ e.nrelease = req - k /\ req - k \in Nat
      BY <1>5, <3>1 DEF Entry
    <3>3. queue' = Append(r, e)
      BY <1>6, <2>3, <3>1
    <3>4. HeldIn(queue') = HeldIn(q) \cup Wakeups(g, req - k)
      BY <1>11, <3>2, <3>3, HeldAppend DEF Queues
    <3>5. \A j \in DOMAIN q : q[j].g # g
      BY <1>1, <1>3, <1>6 DEF CondQueue, Parked
    <3>6. HeldIn(q) \cap Wakeups(g, req - k) = {}
      BY <3>5, HeldOthers
    <3>7. More(HeldIn(q) \cup Wakeups(g, req - k), HeldIn(q), req - k)
      BY <2>1, <3>2, <3>6, WakeupsMore, DisjointMore
    <3> QED  BY <1>3, <3>4, <3>7
  <2> QED  BY <2>2, <2>3
<1>13. PICK a, b, c, d : /\ a = Cardinality(TakenBy(n)) /\ b = Cardinality(TakenBy(n'))
                         /\ c = Cardinality(HeldIn(queue)) /\ d = Cardinality(HeldIn(queue'))
  OBVIOUS
<1>14. /\ a = b + req /\ d = c + (req - k) /\ IsFiniteSet(TakenBy(n')) /\ IsFiniteSet(HeldIn(queue'))
       /\ IsFiniteSet(HeldIn(queue))
  BY <1>10, <1>12, <1>13 DEF More
<1>15. b \in Nat /\ c \in Nat
  BY <1>13, <1>14, FS_CardinalityType
<1>16. Cardinality(InWait(cPc)) = waiters + a + c /\ waiters \in Nat
  BY <1>1, <1>13 DEF CondMatched, CondCalls
<1>17. Cardinality(InWait(cPc')) = waiters' + b + d
  <2>1. PICK y \in Nat, w \in Nat : y = Cardinality(InWait(cPc')) /\ w = waiters /\ w = waiters'
    BY <1>6, <1>9, <1>16
  <2>2. y + k = w + (b + req) + c
    BY <1>9, <1>14, <1>16, <2>1
  <2>3. k \in Nat /\ req \in Nat
    BY <1>5
  <2>4. y = w + b + (c + (req - k))
    BY <1>15, <2>2, <2>3, Moved
  <2> QED  BY <1>14, <2>1, <2>4
<1> QED  BY <1>13, <1>14, <1>17 DEF CondMatched

LEMMA StepCondMatched ==
  ASSUME CondInv, [CondNext]_condVars
  PROVE  CondMatched'
<1>1. CondCalls /\ CondMatched
  BY DEF CondInv
<1>2. ASSUME UNCHANGED <<waiters, n, queue>>,
             \A h \in Gs : cPc'[h] \in CondWaiting <=> cPc[h] \in CondWaiting
      PROVE  CondMatched'
  <2>1. InWait(cPc') = InWait(cPc)
    BY <1>2 DEF InWait
  <2> QED  BY <1>1, <1>2, <2>1 DEF CondMatched
<1>3. ASSUME NEW g \in Gs,
             \/ LockL(g) \/ UnlockL(g) \/ WaitUnlock(g) \/ WaitLockL(g)
             \/ SignalImpl(g) \/ SignalLoad(g)
             \/ (SignalCas(g) /\ waiters # cOld[g])
      PROVE  CondMatched'
  <2>1. UNCHANGED <<waiters, n, queue>>
    BY <1>3 DEF LockL, UnlockL, WaitUnlock, WaitLockL, SignalImpl, SignalLoad,
         SignalCas
  <2>2. \A h \in Gs : cPc'[h] \in CondWaiting <=> cPc[h] \in CondWaiting
    BY <1>1, <1>3 DEF LockL, UnlockL, WaitUnlock, WaitLockL, SignalImpl,
         SignalLoad, SignalCas, CondGoto, CondWaiting, CondCalls
  <2> QED  BY <1>2, <2>1, <2>2
<1>4. ASSUME NEW g \in Gs, CondWait(g) PROVE CondMatched'
  <2>1. /\ cPc[g] = "run" /\ waiters' = waiters + 1 /\ cPc' = [cPc EXCEPT ![g] = "wunlock"]
        /\ UNCHANGED <<n, queue>>
    BY <1>4 DEF CondWait, CondGoto
  <2>2. InWait(cPc') = InWait(cPc) \cup {g} /\ InWait(cPc) \cap {g} = {}
    BY <1>1, <2>1 DEF InWait, CondWaiting, CondCalls
  <2>3. Cardinality(InWait(cPc')) = Cardinality(InWait(cPc)) + 1
    <3>1. PICK A \in SUBSET Gs : A = InWait(cPc)
      BY DEF InWait
    <3>2. g \in Gs \ A
      BY <2>2, <3>1
    <3>3. Cardinality(A \cup {g}) = Cardinality(A) + 1
      BY <3>2, Sizes
    <3> QED  BY <2>2, <3>1, <3>3
  <2>4. Cardinality(TakenBy(n)) \in Nat /\ Cardinality(HeldIn(queue)) \in Nat /\ waiters \in Nat
    BY <1>1, FS_CardinalityType DEF CondMatched, CondCalls
  <2>5. Cardinality(InWait(cPc')) = waiters' + Cardinality(TakenBy(n)) + Cardinality(HeldIn(queue))
    BY <1>1, <2>1, <2>3, <2>4 DEF CondMatched
  <2> QED  BY <1>1, <2>1, <2>5 DEF CondMatched
<1>5. CASE UNCHANGED condVars
  BY <1>2, <1>5 DEF condVars
<1> QED
  BY <1>3, <1>4, <1>5, CasMatched, AcquireMatched, ReleaseMatched DEF CondNext, CondStep

\* No signal is lost and none is made up, for any finite set of goroutines: those
\* in Wait are the ones still counted in waiters and the ones for whom a Signal or
\* Broadcast holds a wakeup, at the semaphore or on its way there.
THEOREM CondSignalsMatched == CondSpec => []SignalsMatched
<1>1. CondInit => CondInv
  BY InitCond
<1>2. CondInv /\ [CondNext]_condVars => CondInv'
  BY StepCondCalls, StepCondQueue, StepCondMatched DEF CondInv
<1>3. CondInv => SignalsMatched
  BY CondMatches DEF CondInv
<1> QED
  BY <1>1, <1>2, <1>3, PTL DEF CondSpec
=============================================================================
