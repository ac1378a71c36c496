------------------------------ MODULE SyncMutex ------------------------------
(***************************************************************************)
(* sync/mutex.go: Lock and Unlock of sync.Mutex, one step per atomic       *)
(* operation on m.state.  m.sema is a counting semaphore:                  *)
(* runtime_Semacquire waits until it is positive and takes one (Sema).     *)
(***************************************************************************)
EXTENDS Goroutines, Integers

VARIABLES
  state,    \* m.state: the bits mutexLocked and mutexWoken, and the waiters
  sema,     \* m.sema
  pc,       \* where each goroutine is
  old,      \* the local old: the state it last saw
  awoke     \* Lock's local awoke

vars == <<state, sema, pc, old, awoke>>

State == [locked : BOOLEAN, woken : BOOLEAN, waiters : Nat]
Zero == [locked |-> FALSE, woken |-> FALSE, waiters |-> 0]

(***************************************************************************)
(* idle      outside the mutex                                             *)
(* load      in the loop of Lock, about to load m.state                    *)
(* cas       about to cas from old                                         *)
(* sema      counted as a waiter, in runtime_Semacquire                    *)
(* held      Lock has returned                                             *)
(* ucas      in the loop of Unlock, about to look at old and cas           *)
(* uload     its cas failed, about to load m.state                         *)
(* urel      set mutexWoken, about to call runtime_Semrelease              *)
(***************************************************************************)
Entering == {"load", "cas", "sema"}
Locations == Entering \cup {"idle", "held", "ucas", "uload", "urel"}

Init ==
  /\ state = Zero
  /\ sema = 0
  /\ pc = [g \in Gs |-> "idle"]
  /\ old = [g \in Gs |-> Zero]
  /\ awoke = [g \in Gs |-> FALSE]

Goto(g, l) == pc' = [pc EXCEPT ![g] = l]

\* Fast path: grab an unlocked mutex nobody waits for.
Lock(g) ==
  /\ pc[g] = "idle"
  /\ \/ /\ state = Zero
        /\ state' = [Zero EXCEPT !.locked = TRUE]
        /\ Goto(g, "held")
     \/ /\ state # Zero
        /\ Goto(g, "load")
        /\ UNCHANGED state
  /\ awoke' = [awoke EXCEPT ![g] = FALSE]
  /\ UNCHANGED <<sema, old>>

\* old := m.state
LockLoad(g) ==
  /\ pc[g] = "load"
  /\ old' = [old EXCEPT ![g] = state]
  /\ Goto(g, "cas")
  /\ UNCHANGED <<state, sema, awoke>>

\* Mutant of NewState: the woken goroutine leaves mutexWoken set.
NewStateStillWoken(o, w) ==
  [locked  |-> TRUE,
   woken   |-> o.woken,
   waiters |-> IF o.locked THEN o.waiters + 1 ELSE o.waiters]

\* new: the mutex taken, or one more waiter; "The goroutine has been woken
\* from sleep, so we need to reset the flag in either case."
NewState(o, w) ==
  [locked  |-> TRUE,
   woken   |-> o.woken /\ ~w,
   waiters |-> IF o.locked THEN o.waiters + 1 ELSE o.waiters]

\* Mutant of LockCas: stores new although the state moved.
LockStore(g) ==
  /\ pc[g] = "cas"
  /\ state' = NewState(old[g], awoke[g])
  /\ Goto(g, IF old[g].locked THEN "sema" ELSE "held")
  /\ UNCHANGED <<sema, old, awoke>>

\* Mutant of LockCas: returns although the mutex was locked in old.
LockCasBarge(g) ==
  /\ pc[g] = "cas"
  /\ \/ /\ state = old[g]
        /\ state' = NewState(old[g], awoke[g])
        /\ Goto(g, "held")
     \/ /\ state # old[g]
        /\ Goto(g, "load")
        /\ UNCHANGED state
  /\ UNCHANGED <<sema, old, awoke>>

\* cas from old to new: the mutex is taken, or its waiter goes to sleep.
LockCas(g) ==
  /\ pc[g] = "cas"
  /\ \/ /\ state = old[g]
        /\ state' = NewState(old[g], awoke[g])
        /\ Goto(g, IF old[g].locked THEN "sema" ELSE "held")
     \/ /\ state # old[g]
        /\ Goto(g, "load")
        /\ UNCHANGED state
  /\ UNCHANGED <<sema, old, awoke>>

\* runtime_Semacquire returns.
Semacquire(g) ==
  /\ pc[g] = "sema"
  /\ sema > 0
  /\ sema' = sema - 1
  /\ awoke' = [awoke EXCEPT ![g] = TRUE]
  /\ Goto(g, "load")
  /\ UNCHANGED <<state, old>>

\* Mutant of Unlock: compares with the state it had locked, not the new one.
UnlockStale(g) ==
  /\ pc[g] = "held"
  /\ state' = [state EXCEPT !.locked = FALSE]
  /\ old' = [old EXCEPT ![g] = [@ EXCEPT !.locked = FALSE]]
  /\ Goto(g, "ucas")
  /\ UNCHANGED <<sema, awoke>>

\* Drop the lock bit.  The holder set it, so Unlock does not panic.
Unlock(g) ==
  /\ pc[g] = "held"
  /\ state' = [state EXCEPT !.locked = FALSE]
  /\ old' = [old EXCEPT ![g] = state']
  /\ Goto(g, "ucas")
  /\ UNCHANGED <<sema, awoke>>

\* "If there are no waiters or a goroutine has already been woken or grabbed
\* the lock, no need to wake anyone."
NobodyToWake(o) == o.waiters = 0 \/ o.locked \/ o.woken

\* Grab the right to wake someone.
UnlockCas(g) ==
  /\ pc[g] = "ucas"
  /\ \/ /\ NobodyToWake(old[g])
        /\ Goto(g, "idle")
        /\ UNCHANGED state
     \/ /\ ~NobodyToWake(old[g])
        /\ state = old[g]
        /\ state' = [locked  |-> FALSE,
                     woken   |-> TRUE,
                     waiters |-> old[g].waiters - 1]
        /\ Goto(g, "urel")
     \/ /\ ~NobodyToWake(old[g])
        /\ state # old[g]
        /\ Goto(g, "uload")
        /\ UNCHANGED state
  /\ UNCHANGED <<sema, old, awoke>>

UnlockLoad(g) ==
  /\ pc[g] = "uload"
  /\ old' = [old EXCEPT ![g] = state]
  /\ Goto(g, "ucas")
  /\ UNCHANGED <<state, sema, awoke>>

\* runtime_Semrelease
Semrelease(g) ==
  /\ pc[g] = "urel"
  /\ sema' = sema + 1
  /\ Goto(g, "idle")
  /\ UNCHANGED <<state, old, awoke>>

\* The steps of a call in progress, and the Unlock a holder owes.
Step(g) ==
  \/ LockLoad(g) \/ LockCas(g) \/ Semacquire(g)
  \/ Unlock(g) \/ UnlockCas(g) \/ UnlockLoad(g) \/ Semrelease(g)

Next == \E g \in Gs : Lock(g) \/ Step(g)

(***************************************************************************)
(* Runnable goroutines run, holders unlock, and a semaphore with a count   *)
(* wakes a waiter (module Sema).  Nobody has to call Lock.                 *)
(***************************************************************************)
Fairness == \A g \in Gs : WF_vars(Step(g))

Spec == Init /\ [][Next]_vars
FairSpec == Spec /\ Fairness

----------------------------------------------------------------------------
(* Properties *)

\* Every variable has its type: the waiter bits never borrow from the flags.
TypeOK ==
  /\ state \in State
  /\ sema \in Nat
  /\ pc \in [Gs -> Locations]
  /\ old \in [Gs -> State]
  /\ awoke \in [Gs -> BOOLEAN]

\* At most one goroutine is between Lock and Unlock.
MutualExclusion ==
  \A g, h \in Gs : pc[g] = "held" /\ pc[h] = "held" => g = h

\* mutexLocked is set exactly while somebody holds the mutex, so Unlock by the
\* holder does not panic and a free mutex can be taken.
LockedHeld == state.locked <=> \E g \in Gs : pc[g] = "held"

(***************************************************************************)
(* A free mutex with waiters, none of them woken, still has an Unlock in   *)
(* progress that saw exactly this state and will wake one of them.         *)
(***************************************************************************)
NoLostWakeup ==
  state.waiters > 0 /\ ~state.locked /\ ~state.woken =>
    \E g \in Gs : pc[g] = "ucas" /\ old[g] = state

\* Once no goroutine calls Lock any more, every one inside Lock gets the mutex.
AllServed ==
  <>[][\A g \in Gs : ~Lock(g)]_vars =>
    \A g \in Gs : pc[g] \in Entering ~> pc[g] = "held"

Holder ==
  IF \E g \in Gs : pc[g] = "held"
  THEN CHOOSE g \in Gs : pc[g] = "held"
  ELSE NoG

Abstract == INSTANCE AbstractLock WITH
  Threads <- Gs, NoOwner <- NoG, owner <- Holder, want <- {g \in Gs : pc[g] \in Entering}

\* sync.Mutex is an AbstractLock: RWMutex and WaitGroup use it so.
Refinement == Abstract!Spec

\* The inductive invariant.
IndInv == TypeOK /\ MutualExclusion /\ LockedHeld /\ NoLostWakeup
=============================================================================
