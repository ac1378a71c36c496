------------------------------ MODULE FutexLock ------------------------------
(***************************************************************************)
(* runtime/lock_futex.go: the runtime's own mutex on Linux, lock and       *)
(* unlock, over the kernel's futex.  Every atomic instruction (xchg, cas,  *)
(* a load of l.key) and every futex system call is one step, so the        *)
(* threads interleave exactly where the hardware lets them.                *)
(*                                                                         *)
(* The lock and preemption bookkeeping at the two ends of lock and unlock  *)
(* (m.locks, gp.preempt, stackguard0) is thread-local and left out.        *)
(***************************************************************************)
EXTENDS Integers, FiniteSets

CONSTANTS Threads,      \* the Ms
          ActiveSpin,   \* active_spin when ncpu > 1, 0 on a uniprocessor
          NoOwner       \* the owner of a free lock, in the abstraction

ASSUME SpinAssumption == ActiveSpin \in Nat
ASSUME NoOwnerAssumption == NoOwner \notin Threads

mutex_unlocked == 0
mutex_locked   == 1
mutex_sleeping == 2

passive_spin == 1

\* Both spin loops read and cas the key in the same way.
Spin == ActiveSpin + passive_spin

VARIABLES
  key,      \* l.key
  pc,       \* where each thread is
  wait,     \* lock's local wait, 0 outside lock
  i         \* iterations of the spin loops done in this round

vars == <<key, pc, wait, i>>

(***************************************************************************)
(* idle    outside the lock                                                *)
(* spin    about to load l.key in a spin loop                              *)
(* cas     saw mutex_unlocked, about to cas                                *)
(* sleepx  both loops exhausted, about to xchg mutex_sleeping              *)
(* futex   about to enter futexsleep                                       *)
(* asleep  on the kernel's wait queue of &l.key                            *)
(* held    lock has returned                                               *)
(* wake    unlock saw mutex_sleeping, about to call futexwakeup            *)
(***************************************************************************)
Awake == {"spin", "cas", "sleepx", "futex"}
Locations == Awake \cup {"idle", "asleep", "held", "wake"}

Asleep == {t \in Threads : pc[t] = "asleep"}

Init ==
  /\ key = mutex_unlocked
  /\ pc = [t \in Threads |-> "idle"]
  /\ wait = [t \in Threads |-> 0]
  /\ i = [t \in Threads |-> 0]

Goto(t, l) == pc' = [pc EXCEPT ![t] = l]

\* The start of lock: the speculative xchg.
Lock(t) ==
  /\ pc[t] = "idle"
  /\ key' = mutex_locked
  /\ \/ /\ key = mutex_unlocked
        /\ Goto(t, "held")
        /\ UNCHANGED wait
     \/ /\ key # mutex_unlocked
        /\ Goto(t, "spin")
        /\ wait' = [wait EXCEPT ![t] = key]
  /\ UNCHANGED i

\* One load of l.key in either spin loop; a locked key ends the iteration.
SpinLoad(t) ==
  /\ pc[t] = "spin"
  /\ \/ /\ key = mutex_unlocked
        /\ Goto(t, "cas")
        /\ UNCHANGED i
     \/ /\ key # mutex_unlocked
        /\ i[t] + 1 < Spin
        /\ i' = [i EXCEPT ![t] = @ + 1]
        /\ UNCHANGED pc
     \/ /\ key # mutex_unlocked
        /\ i[t] + 1 >= Spin
        /\ i' = [i EXCEPT ![t] = 0]
        /\ Goto(t, "sleepx")
  /\ UNCHANGED <<key, wait>>

\* Mutant of SpinCas: takes the lock with mutex_locked, forgetting sleepers.
SpinCasLocked(t) ==
  /\ pc[t] = "cas"
  /\ \/ /\ key = mutex_unlocked
        /\ key' = mutex_locked
        /\ Goto(t, "held")
        /\ wait' = [wait EXCEPT ![t] = 0]
        /\ i' = [i EXCEPT ![t] = 0]
     \/ /\ key # mutex_unlocked
        /\ Goto(t, "spin")
        /\ UNCHANGED <<key, wait, i>>

\* Mutant of SpinCas: trusts the load and stores without comparing.
SpinStore(t) ==
  /\ pc[t] = "cas"
  /\ key' = wait[t]
  /\ Goto(t, "held")
  /\ wait' = [wait EXCEPT ![t] = 0]
  /\ i' = [i EXCEPT ![t] = 0]

\* cas(&l.key, mutex_unlocked, wait): take the lock or load the key again.
SpinCas(t) ==
  /\ pc[t] = "cas"
  /\ \/ /\ key = mutex_unlocked
        /\ key' = wait[t]
        /\ Goto(t, "held")
        /\ wait' = [wait EXCEPT ![t] = 0]
        /\ i' = [i EXCEPT ![t] = 0]
     \/ /\ key # mutex_unlocked
        /\ Goto(t, "spin")
        /\ UNCHANGED <<key, wait, i>>

\* xchg(&l.key, mutex_sleeping) before going to sleep.
SleepXchg(t) ==
  /\ pc[t] = "sleepx"
  /\ key' = mutex_sleeping
  /\ \/ /\ key = mutex_unlocked
        /\ Goto(t, "held")
        /\ wait' = [wait EXCEPT ![t] = 0]
     \/ /\ key # mutex_unlocked
        /\ Goto(t, "futex")
        /\ wait' = [wait EXCEPT ![t] = mutex_sleeping]
  /\ UNCHANGED i

\* Mutant of FutexSleep: sleeps without comparing the key again.
FutexSleepBlind(t) ==
  /\ pc[t] = "futex"
  /\ Goto(t, "asleep")
  /\ UNCHANGED <<key, wait, i>>

\* FUTEX_WAIT: atomically, sleep if the key is still mutex_sleeping.
FutexSleep(t) ==
  /\ pc[t] = "futex"
  /\ \/ key = mutex_sleeping /\ Goto(t, "asleep")
     \/ key # mutex_sleeping /\ Goto(t, "spin")
  /\ UNCHANGED <<key, wait, i>>

\* "Might be woken up spuriously; that's allowed."
SpuriousWakeup(t) ==
  /\ pc[t] = "asleep"
  /\ Goto(t, "spin")
  /\ UNCHANGED <<key, wait, i>>

\* Mutant of Unlock: never wakes the sleepers it saw.
UnlockQuietly(t) ==
  /\ pc[t] = "held"
  /\ key' = mutex_unlocked
  /\ Goto(t, "idle")
  /\ UNCHANGED <<wait, i>>

\* unlock's xchg.  KeyHeld shows that it never finds mutex_unlocked,
\* so the throw of line 108 is not a step.
Unlock(t) ==
  /\ pc[t] = "held"
  /\ key' = mutex_unlocked
  /\ \/ key = mutex_sleeping /\ Goto(t, "wake")
     \/ key # mutex_sleeping /\ Goto(t, "idle")
  /\ UNCHANGED <<wait, i>>

\* FUTEX_WAKE with a count of one: some sleeper, if there is any.
FutexWakeup(t) ==
  /\ pc[t] = "wake"
  /\ \/ /\ Asleep = {}
        /\ Goto(t, "idle")
     \/ \E s \in Asleep : pc' = [pc EXCEPT ![t] = "idle", ![s] = "spin"]
  /\ UNCHANGED <<key, wait, i>>

\* The steps a thread owes once it has called lock.
Step(t) ==
  \/ SpinLoad(t) \/ SpinCas(t) \/ SleepXchg(t) \/ FutexSleep(t)
  \/ Unlock(t) \/ FutexWakeup(t)

Next == \E t \in Threads : Lock(t) \/ SpuriousWakeup(t) \/ Step(t)

(***************************************************************************)
(* The kernel runs every runnable thread, and the runtime's critical       *)
(* sections are finite.  Nobody has to call lock, and no spurious wakeup   *)
(* is relied on.                                                           *)
(***************************************************************************)
Fairness == \A t \in Threads : WF_vars(Step(t))

Spec == Init /\ [][Next]_vars
FairSpec == Spec /\ Fairness

----------------------------------------------------------------------------
(* Properties *)

\* Every variable has its type; a thread outside lock keeps no wait, and a
\* thread that slept remembers mutex_sleeping.
TypeOK ==
  /\ key \in {mutex_unlocked, mutex_locked, mutex_sleeping}
  /\ pc \in [Threads -> Locations]
  /\ wait \in [Threads -> {0, mutex_locked, mutex_sleeping}]
  /\ i \in [Threads -> 0..ActiveSpin]

\* At most one thread is between the return of lock and its unlock.
MutualExclusion ==
  \A s, t \in Threads : pc[s] = "held" /\ pc[t] = "held" => s = t

\* The key is mutex_unlocked exactly while nobody holds the lock, so unlock
\* never throws "unlock of unlocked lock" and a free lock can be taken.
KeyHeld == key # mutex_unlocked <=> \E t \in Threads : pc[t] = "held"

(***************************************************************************)
(* The comment of lock: "If we ever change l->key from MUTEX_SLEEPING to   *)
(* some other value, we must be careful to change it back to               *)
(* MUTEX_SLEEPING before returning, to ensure that the sleeping thread     *)
(* gets its wakeup call."  While a thread sleeps, the key says so, or a    *)
(* wakeup is on its way, or an awake contender will say so again.          *)
(***************************************************************************)
NoLostWakeup ==
  Asleep # {} =>
    \/ key = mutex_sleeping
    \/ \E t \in Threads : pc[t] = "wake"
    \/ \E t \in Threads : pc[t] \in Awake /\ wait[t] = mutex_sleeping

\* Once no thread calls lock any more, every thread inside lock gets it: no
\* sleeper is left behind by the last unlock.
AllServed ==
  <>[][\A t \in Threads : ~Lock(t)]_vars =>
    \A t \in Threads : pc[t] \in Awake \cup {"asleep"} ~> pc[t] = "held"

\* The mutex is an AbstractLock, whose owner is the thread holding it.
Holder ==
  IF \E t \in Threads : pc[t] = "held"
  THEN CHOOSE t \in Threads : pc[t] = "held"
  ELSE NoOwner

Abstract == INSTANCE AbstractLock WITH
  owner <- Holder, want <- {t \in Threads : pc[t] \in Awake \cup {"asleep"}}

\* lock and unlock implement acquire and release of an abstract lock, however
\* many loads, exchanges, sleeps and wakeups they take.
Refinement == Abstract!Spec

\* Contenders carry a nonzero wait, and those near the futex mutex_sleeping.
WaitSet ==
  \A t \in Threads :
    /\ pc[t] \in Awake => wait[t] # 0
    /\ pc[t] \in {"futex", "asleep"} => wait[t] = mutex_sleeping

\* The inductive invariant.
IndInv == TypeOK /\ MutualExclusion /\ KeyHeld /\ WaitSet /\ NoLostWakeup

=============================================================================
