--------------------------- MODULE FutexLockProofs ---------------------------
(***************************************************************************)
(* For every set of threads and every spin count: the runtime mutex of     *)
(* lock_futex.go excludes, loses no wakeup and implements AbstractLock.    *)
(***************************************************************************)
EXTENDS FutexLock, TLAPS

USE DEF mutex_unlocked, mutex_locked, mutex_sleeping, Awake, Locations

LEMMA InitIndInv == Init => IndInv
  BY SpinAssumption
     DEF Init, IndInv, TypeOK, MutualExclusion, KeyHeld, WaitSet,
         NoLostWakeup, Asleep

LEMMA NextTypeOK == TypeOK /\ [Next]_vars => TypeOK'
  <1> SUFFICES ASSUME TypeOK, [Next]_vars PROVE TypeOK'
      OBVIOUS
  <1> USE SpinAssumption DEF TypeOK
  <1>1. ASSUME NEW t \in Threads, Lock(t) PROVE TypeOK'
        BY <1>1 DEF Lock, Goto
  <1>2. ASSUME NEW t \in Threads, SpinLoad(t) PROVE TypeOK'
        BY <1>2 DEF SpinLoad, Goto, Spin, passive_spin
  <1>3. ASSUME NEW t \in Threads, SpinCas(t) PROVE TypeOK'
        BY <1>3 DEF SpinCas, Goto
  <1>4. ASSUME NEW t \in Threads, SleepXchg(t) PROVE TypeOK'
        BY <1>4 DEF SleepXchg, Goto
  <1>5. ASSUME NEW t \in Threads, FutexSleep(t) PROVE TypeOK'
        BY <1>5 DEF FutexSleep, Goto
  <1>6. ASSUME NEW t \in Threads, SpuriousWakeup(t) PROVE TypeOK'
        BY <1>6 DEF SpuriousWakeup, Goto
  <1>7. ASSUME NEW t \in Threads, Unlock(t) PROVE TypeOK'
        BY <1>7 DEF Unlock, Goto
  <1>8. ASSUME NEW t \in Threads, FutexWakeup(t) PROVE TypeOK'
        BY <1>8 DEF FutexWakeup, Goto, Asleep
  <1>9. CASE UNCHANGED vars
        BY <1>9 DEF vars
  <1> QED BY <1>1, <1>2, <1>3, <1>4, <1>5, <1>6, <1>7, <1>8, <1>9
          DEF Next, Step

LEMMA NextIndInv == IndInv /\ [Next]_vars => IndInv'
  <1> SUFFICES ASSUME IndInv, [Next]_vars PROVE IndInv'
      OBVIOUS
  <1>0. TypeOK' BY NextTypeOK DEF IndInv
  <1> USE <1>0 DEF IndInv, TypeOK, MutualExclusion, KeyHeld, WaitSet,
                   NoLostWakeup, Asleep
  <1>1. ASSUME NEW t \in Threads, Lock(t) PROVE IndInv'
        BY <1>1 DEF Lock, Goto
  <1>2. ASSUME NEW t \in Threads, SpinLoad(t) PROVE IndInv'
        BY <1>2 DEF SpinLoad, Goto
  <1>3. ASSUME NEW t \in Threads, SpinCas(t) PROVE IndInv'
        BY <1>3 DEF SpinCas, Goto
  <1>4. ASSUME NEW t \in Threads, SleepXchg(t) PROVE IndInv'
        BY <1>4 DEF SleepXchg, Goto
  <1>5. ASSUME NEW t \in Threads, FutexSleep(t) PROVE IndInv'
        BY <1>5 DEF FutexSleep, Goto
  <1>6. ASSUME NEW t \in Threads, SpuriousWakeup(t) PROVE IndInv'
        BY <1>6 DEF SpuriousWakeup, Goto
  <1>7. ASSUME NEW t \in Threads, Unlock(t) PROVE IndInv'
        BY <1>7 DEF Unlock, Goto
  <1>8. ASSUME NEW t \in Threads, FutexWakeup(t) PROVE IndInv'
        BY <1>8 DEF FutexWakeup, Goto
  <1>9. CASE UNCHANGED vars
        BY <1>9 DEF vars
  <1> QED BY <1>1, <1>2, <1>3, <1>4, <1>5, <1>6, <1>7, <1>8, <1>9
          DEF Next, Step
(***************************************************************************)
(* lock and unlock never let two threads between the return of lock and    *)
(* the xchg of unlock.                                                     *)
(***************************************************************************)
THEOREM LockExcludes == Spec => []MutualExclusion
  <1>1. IndInv => MutualExclusion BY DEF IndInv
  <1> QED BY InitIndInv, NextIndInv, <1>1, PTL DEF Spec

(***************************************************************************)
(* The key is mutex_unlocked exactly while the lock is free: unlock by the *)
(* holder never throws.                                                    *)
(***************************************************************************)
THEOREM UnlockNeverThrows == Spec => []KeyHeld
  <1>1. IndInv => KeyHeld BY DEF IndInv
  <1> QED BY InitIndInv, NextIndInv, <1>1, PTL DEF Spec

(***************************************************************************)
(* A thread asleep in the kernel always has mutex_sleeping in the key, a   *)
(* wakeup on its way or an awake contender that will restore the key: the  *)
(* promise in the comment of lock.                                         *)
(***************************************************************************)
THEOREM SleepersAreWoken == Spec => []NoLostWakeup
  <1>1. IndInv => NoLostWakeup BY DEF IndInv
  <1> QED BY InitIndInv, NextIndInv, <1>1, PTL DEF Spec

\* The owner of the abstract lock, when there is one holder and when none.
LEMMA HolderIs ==
  ASSUME MutualExclusion
  PROVE  /\ \A t \in Threads : pc[t] = "held" => Holder = t
         /\ (\A t \in Threads : pc[t] # "held") => Holder = NoOwner
  BY DEF Holder, MutualExclusion

\* The same, of the next state.
LEMMA HolderIsPrimed ==
  ASSUME MutualExclusion'
  PROVE  /\ \A t \in Threads : pc'[t] = "held" => Holder' = t
         /\ (\A t \in Threads : pc'[t] # "held") => Holder' = NoOwner
  BY DEF Holder, MutualExclusion

(***************************************************************************)
(* lock and unlock implement AbstractLock: the xchg or cas that finds the  *)
(* key unlocked is the acquire, unlock's xchg the release, and every other *)
(* load, exchange, sleep and wakeup changes nothing a caller can see.      *)
(***************************************************************************)
THEOREM LockRefines == Spec => Refinement
  <1> DEFINE Inside == {"spin", "cas", "sleepx", "futex", "asleep"}
             want == {t \in Threads : pc[t] \in Inside}
  <1>1. Init => Abstract!Init
        BY DEF Init, Abstract!Init, Holder
  <1>2. IndInv /\ IndInv' /\ [Next]_vars => [Abstract!Next]_(Abstract!vars)
    <2> SUFFICES ASSUME IndInv, IndInv', [Next]_vars
                 PROVE  [Abstract!Next]_(Abstract!vars)
        OBVIOUS
    <2> USE DEF IndInv, TypeOK, KeyHeld, MutualExclusion
    <2> HIDE DEF Holder
    <2>1. ASSUME NEW t \in Threads, Lock(t), key = mutex_unlocked
          PROVE  Abstract!Acquire(t)
          BY <2>1, HolderIs, HolderIsPrimed
             DEF Lock, Goto, Abstract!Acquire
    <2>2. ASSUME NEW t \in Threads, Lock(t), key # mutex_unlocked
          PROVE  Abstract!Request(t)
      <3>1. PICK h \in Threads : pc[h] = "held" BY <2>2
      <3>2. pc'[h] = "held" /\ h # t BY <2>2, <3>1 DEF Lock, Goto
      <3>3. Holder = h /\ Holder' = h
            BY <3>1, <3>2, HolderIs, HolderIsPrimed
      <3> QED BY <2>2, <3>2, <3>3 DEF Lock, Goto, Abstract!Request
    <2>3. ASSUME NEW t \in Threads, Unlock(t)
          PROVE  Abstract!Release(t)
          BY <2>3, HolderIs, HolderIsPrimed
             DEF Unlock, Goto, Abstract!Release
    <2>4. ASSUME NEW t \in Threads, SpinCas(t) \/ SleepXchg(t),
                 key = mutex_unlocked
          PROVE  Abstract!Acquire(t)
          BY <2>4, HolderIs, HolderIsPrimed
             DEF SpinCas, SleepXchg, Goto, Abstract!Acquire
    <2>5. ASSUME /\ \A t \in Threads : pc'[t] = "held" <=> pc[t] = "held"
                 /\ \A t \in Threads : pc'[t] \in Inside <=> pc[t] \in Inside
          PROVE  UNCHANGED Abstract!vars
      <3>1. Holder' = Holder BY <2>5, HolderIs, HolderIsPrimed
      <3> QED BY <2>5, <3>1 DEF Abstract!vars
    <2>6. ASSUME NEW t \in Threads,
                 \/ SpinLoad(t) \/ FutexSleep(t) \/ SpuriousWakeup(t)
                 \/ FutexWakeup(t)
                 \/ (SpinCas(t) \/ SleepXchg(t)) /\ key # mutex_unlocked
          PROVE  UNCHANGED Abstract!vars
          BY <2>5, <2>6
             DEF SpinLoad, FutexSleep, SpuriousWakeup, FutexWakeup, SpinCas,
                 SleepXchg, Goto, Asleep
    <2>7. ASSUME UNCHANGED vars PROVE UNCHANGED Abstract!vars
          BY <2>5, <2>7 DEF vars
    <2> QED BY <2>1, <2>2, <2>3, <2>4, <2>6, <2>7
            DEF Next, Step, Abstract!Next
  <1> QED BY InitIndInv, NextIndInv, <1>1, <1>2, PTL
          DEF Spec, Refinement, Abstract!Spec
=============================================================================
