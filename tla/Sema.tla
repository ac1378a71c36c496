-------------------------------- MODULE Sema --------------------------------
(***************************************************************************)
(* runtime/sema.go: the sleeping semaphore under sync.Mutex, RWMutex and   *)
(* WaitGroup.  Several addresses may hash to one semaRoot, whose lock,     *)
(* queue and waiter count they share; this is one such root.  The module   *)
(* has no specification of its own: its steps are taken by the goroutines  *)
(* of the module that calls it (RWMutex).                                  *)
(*                                                                         *)
(* The root's lock is an AbstractLock.  A stretch of code under it that    *)
(* makes at most one access another goroutine can see is one step.         *)
(***************************************************************************)
EXTENDS Integers, Sequences, FiniteSets, SequencesExt, FiniteSetsExt

CONSTANTS Gs,        \* goroutines
          Addrs,     \* semaphore addresses of this root
          NoG        \* no goroutine

VARIABLES
  val,      \* *addr
  nwait,    \* root.nwait
  holder,   \* the goroutine holding root.lock, or NoG
  queue,    \* root.head .. root.tail: goroutines, each waiting on addr[g]
  at,       \* where each goroutine is in its call
  woke,     \* semrelease's s.g: the waiter it took off the queue
  addr      \* the argument of each call, chosen by the caller

(***************************************************************************)
(* out       outside, or about to call                                     *)
(* lock      semacquire failed the easy case, about to lock the root       *)
(* check     holds the lock and has been counted in nwait                  *)
(* undo      got the semaphore under the lock                              *)
(* park      did not: about to queue and park                              *)
(* parked    queued, or dequeued and not yet readied                       *)
(* retry     readied by a semrelease                                       *)
(* easy      semrelease has added one, about to load nwait                 *)
(* search    saw waiters: about to lock the root and search the queue      *)
(* ready     about to goready the waiter it dequeued                       *)
(***************************************************************************)
SemaInit ==
  /\ val = [a \in Addrs |-> 0]
  /\ nwait = 0
  /\ holder = NoG
  /\ queue = <<>>
  /\ at = [g \in Gs |-> "out"]
  /\ woke = [g \in Gs |-> NoG]

Goto(g, l) == at' = [at EXCEPT ![g] = l]

\* The loop of load and cas succeeds at a cas that takes one, and fails at a
\* load of zero; a failed cas only starts it again.
cansemacquire(a, ok) ==
  \/ ok /\ val[a] > 0 /\ val' = [val EXCEPT ![a] = @ - 1]
  \/ ~ok /\ val[a] = 0 /\ UNCHANGED val

\* semacquire, the easy case.
Semacquire(g) ==
  /\ at[g] = "out"
  /\ \/ cansemacquire(addr[g], TRUE) /\ UNCHANGED at
     \/ cansemacquire(addr[g], FALSE) /\ Goto(g, "lock")
  /\ UNCHANGED <<nwait, holder, queue, woke>>

\* Lock the root and add ourselves to nwait, to disable semrelease's easy case.
AcquireLock(g) ==
  /\ at[g] = "lock"
  /\ holder = NoG
  /\ holder' = g
  /\ nwait' = nwait + 1
  /\ Goto(g, "check")
  /\ UNCHANGED <<val, queue, woke>>

\* Mutant of AcquireCheck: parks without looking at the count again.
AcquireUnchecked(g) ==
  /\ at[g] = "check"
  /\ Goto(g, "park")
  /\ UNCHANGED <<val, nwait, holder, queue, woke>>

\* Check cansemacquire again, to avoid a missed wakeup.
AcquireCheck(g) ==
  /\ at[g] = "check"
  /\ \/ cansemacquire(addr[g], TRUE) /\ Goto(g, "undo")
     \/ cansemacquire(addr[g], FALSE) /\ Goto(g, "park")
  /\ UNCHANGED <<nwait, holder, queue, woke>>

AcquireUndo(g) ==
  /\ at[g] = "undo"
  /\ nwait' = nwait - 1
  /\ holder' = NoG
  /\ Goto(g, "out")
  /\ UNCHANGED <<val, queue, woke>>

\* root.queue and goparkunlock: the goroutine is waiting before the unlock.
AcquirePark(g) ==
  /\ at[g] = "park"
  /\ queue' = Append(queue, g)
  /\ holder' = NoG
  /\ Goto(g, "parked")
  /\ UNCHANGED <<val, nwait, woke>>

\* After the wakeup the goroutine competes again.
AcquireRetry(g) ==
  /\ at[g] = "retry"
  /\ \/ cansemacquire(addr[g], TRUE) /\ Goto(g, "out")
     \/ cansemacquire(addr[g], FALSE) /\ Goto(g, "lock")
  /\ UNCHANGED <<nwait, holder, queue, woke>>

\* semrelease adds to the semaphore first.
Semrelease(g) ==
  /\ at[g] = "out"
  /\ val' = [val EXCEPT ![addr[g]] = @ + 1]
  /\ Goto(g, "easy")
  /\ UNCHANGED <<nwait, holder, queue, woke>>

\* The easy case: no waiters.  The load is not under the root's lock.
ReleaseEasy(g) ==
  /\ at[g] = "easy"
  /\ \/ nwait = 0 /\ Goto(g, "out")
     \/ nwait # 0 /\ Goto(g, "search")
  /\ UNCHANGED <<val, nwait, holder, queue, woke>>

\* Positions in the queue that wait on address a.
WaitersOn(a) == {k \in DOMAIN queue : addr[queue[k]] = a}

\* Mutant of ReleaseSearch: wakes the head of the root, whatever its address.
ReleaseSearchHead(g) ==
  /\ at[g] = "search"
  /\ holder = NoG
  /\ \/ /\ queue = <<>>
        /\ Goto(g, "out")
        /\ UNCHANGED <<nwait, queue, woke>>
     \/ /\ queue # <<>>
        /\ woke' = [woke EXCEPT ![g] = Head(queue)]
        /\ queue' = Tail(queue)
        /\ nwait' = nwait - 1
        /\ Goto(g, "ready")
  /\ UNCHANGED <<val, holder>>

\* Under the lock: the first waiter on this address leaves the queue and
\* nwait.  If nobody is left, the count was already consumed.
ReleaseSearch(g) ==
  /\ at[g] = "search"
  /\ holder = NoG
  /\ \/ /\ nwait = 0 \/ WaitersOn(addr[g]) = {}
        /\ Goto(g, "out")
        /\ UNCHANGED <<nwait, queue, woke>>
     \/ /\ nwait # 0 /\ WaitersOn(addr[g]) # {}
        /\ LET k == Min(WaitersOn(addr[g])) IN
             /\ woke' = [woke EXCEPT ![g] = queue[k]]
             /\ queue' = RemoveAt(queue, k)
        /\ nwait' = nwait - 1
        /\ Goto(g, "ready")
  /\ UNCHANGED <<val, holder>>

\* goready, after the root's lock is released.
ReleaseReady(g) ==
  /\ at[g] = "ready"
  /\ at' = [at EXCEPT ![g] = "out", ![woke[g]] = "retry"]
  /\ woke' = [woke EXCEPT ![g] = NoG]
  /\ UNCHANGED <<val, nwait, holder, queue>>

\* A goroutine's steps through one call of semacquire and of semrelease.
SemacquireStep(g) ==
  \/ Semacquire(g) \/ AcquireLock(g) \/ AcquireCheck(g) \/ AcquireUndo(g)
  \/ AcquirePark(g) \/ AcquireRetry(g)

SemreleaseStep(g) ==
  Semrelease(g) \/ ReleaseEasy(g) \/ ReleaseSearch(g) \/ ReleaseReady(g)

----------------------------------------------------------------------------
(* Properties *)

Waiting(a) ==
  {g \in Gs : addr[g] = a /\ (at[g] = "park" \/ \E k \in DOMAIN queue : queue[k] = g)}

\* Calls that still owe address a a wakeup or an attempt to take it.
InFlight(a) ==
  {g \in Gs : addr[g] = a /\ at[g] \in {"easy", "search", "ready", "retry"}}

(***************************************************************************)
(* "Check cansemacquire to avoid missed wakeup": while somebody waits on   *)
(* an address, each unit of its count has a semrelease or a woken waiter   *)
(* still on the way, also when other addresses share the root's queue.     *)
(***************************************************************************)
NoMissedWakeup ==
  \A a \in Addrs : Waiting(a) # {} => val[a] <= Cardinality(InFlight(a))

\* Each parked goroutine is on the queue once, or in the hands of exactly one
\* semrelease that called for its address: goready is never called twice.
OneWaker ==
  \A g \in Gs : at[g] = "parked" =>
    Cardinality({k \in DOMAIN queue : queue[k] = g})
    + Cardinality({r \in Gs : woke[r] = g /\ addr[r] = addr[g]}) = 1
=============================================================================
