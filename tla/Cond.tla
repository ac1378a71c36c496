-------------------------------- MODULE Cond --------------------------------
(***************************************************************************)
(* sync/cond.go over the synchronous semaphore of runtime/sema.go.         *)
(* c.L is an AbstractLock; syncsemacquire and syncsemrelease work on the   *)
(* queue under s.lock, so each is one step up to where it parks or wakes.  *)
(* Goroutines may signal with or without c.L.                              *)
(***************************************************************************)
EXTENDS Goroutines, Integers, Sequences

VARIABLES
  L,         \* the goroutine holding c.L
  waiters,   \* c.waiters
  queue,     \* s.head .. s.tail: [g, nrelease], nrelease -1 for an acquirer
  cPc,       \* where each goroutine is
  all,       \* signalImpl's parameter
  cOld,      \* signalImpl's local old
  n,         \* syncsemrelease's parameter
  owed       \* history: those waiting when the Broadcast took effect and
             \* still not woken

condVars == <<L, waiters, queue, cPc, all, cOld, n, owed>>

(***************************************************************************)
(* run       not in a call                                                 *)
(* wunlock   Wait: counted in waiters, about to unlock c.L                 *)
(* wacquire  Wait: about to call syncsemacquire                            *)
(* wparked   Wait: parked in syncsemacquire                                *)
(* wlock     Wait: woken, in c.L.Lock()                                    *)
(* sload     signalImpl: about to load waiters                             *)
(* scas      signalImpl: about to cas waiters                              *)
(* srelease  signalImpl: about to call syncsemrelease                      *)
(* sparked   signalImpl: parked in syncsemrelease                          *)
(***************************************************************************)
CondWaiting == {"wunlock", "wacquire", "wparked"}
Signalling == {"sload", "scas", "srelease", "sparked"}
CondLocations == CondWaiting \cup Signalling \cup {"run", "wlock"}

CondInit ==
  /\ L = NoG
  /\ waiters = 0
  /\ queue = <<>>
  /\ cPc = [g \in Gs |-> "run"]
  /\ all = [g \in Gs |-> FALSE]
  /\ cOld = [g \in Gs |-> 0]
  /\ n = [g \in Gs |-> 0]
  /\ owed = [g \in Gs |-> {}]

CondGoto(g, l) == cPc' = [cPc EXCEPT ![g] = l]

\* The client takes and gives up c.L.
LockL(g) ==
  /\ cPc[g] = "run"
  /\ L = NoG
  /\ L' = g
  /\ UNCHANGED <<waiters, queue, cPc, all, cOld, n, owed>>

UnlockL(g) ==
  /\ cPc[g] = "run"
  /\ L = g
  /\ L' = NoG
  /\ UNCHANGED <<waiters, queue, cPc, all, cOld, n, owed>>

----------------------------------------------------------------------------
(* Wait *)

\* The caller holds c.L.
CondWait(g) ==
  /\ cPc[g] = "run"
  /\ L = g
  /\ waiters' = waiters + 1
  /\ CondGoto(g, "wunlock")
  /\ UNCHANGED <<L, queue, all, cOld, n, owed>>

WaitUnlock(g) ==
  /\ cPc[g] = "wunlock"
  /\ L' = NoG
  /\ CondGoto(g, "wacquire")
  /\ UNCHANGED <<waiters, queue, all, cOld, n, owed>>

\* A goroutine woken from Wait is owed nothing any more.
Paid(woken) == owed' = [b \in Gs |-> owed[b] \ woken]

\* A signaller that leaves syncsemrelease.
Forget(g) == n' = [n EXCEPT ![g] = 0]

\* The releases pending at the head; negative for an acquirer.
Pending == IF queue = <<>> THEN 0 ELSE Head(queue).nrelease

\* Mutant of Syncsemacquire: the last acquirer does not ready the releaser.
SyncsemacquireNoReady(g) ==
  /\ cPc[g] = "wacquire"
  /\ \/ /\ Pending > 0
        /\ queue' = IF Pending > 1 THEN [queue EXCEPT ![1].nrelease = @ - 1] ELSE Tail(queue)
        /\ CondGoto(g, "wlock")
        /\ Paid({g})
        /\ UNCHANGED n
     \/ /\ Pending <= 0
        /\ queue' = Append(queue, [g |-> g, nrelease |-> -1])
        /\ CondGoto(g, "wparked")
        /\ UNCHANGED <<n, owed>>
  /\ UNCHANGED <<L, waiters, all, cOld>>

\* Consume a pending release, readying its releaser with the last one, or
\* enqueue and park.
Syncsemacquire(g) ==
  /\ cPc[g] = "wacquire"
  /\ \/ /\ Pending > 1
        /\ queue' = [queue EXCEPT ![1].nrelease = @ - 1]
        /\ CondGoto(g, "wlock")
        /\ Paid({g})
        /\ UNCHANGED n
     \/ /\ Pending = 1
        /\ queue' = Tail(queue)
        /\ cPc' = [cPc EXCEPT ![g] = "wlock", ![Head(queue).g] = "run"]
        /\ Forget(Head(queue).g)
        /\ Paid({g})
     \/ /\ Pending <= 0
        /\ queue' = Append(queue, [g |-> g, nrelease |-> -1])
        /\ CondGoto(g, "wparked")
        /\ UNCHANGED <<n, owed>>
  /\ UNCHANGED <<L, waiters, all, cOld>>

WaitLockL(g) ==
  /\ cPc[g] = "wlock"
  /\ L = NoG
  /\ L' = g
  /\ CondGoto(g, "run")
  /\ UNCHANGED <<waiters, queue, all, cOld, n, owed>>

----------------------------------------------------------------------------
(* Signal and Broadcast *)

SignalImpl(g) ==
  /\ cPc[g] = "run"
  /\ \E b \in BOOLEAN : all' = [all EXCEPT ![g] = b]
  /\ owed' = [owed EXCEPT ![g] = {}]
  /\ CondGoto(g, "sload")
  /\ UNCHANGED <<L, waiters, queue, cOld, n>>

\* Nobody waits: nothing to do.
SignalLoad(g) ==
  /\ cPc[g] = "sload"
  /\ \/ /\ waiters = 0
        /\ CondGoto(g, "run")
        /\ UNCHANGED cOld
     \/ /\ waiters # 0
        /\ cOld' = [cOld EXCEPT ![g] = waiters]
        /\ CondGoto(g, "scas")
  /\ UNCHANGED <<L, waiters, queue, all, n, owed>>

NewWaiters(g) == IF all[g] THEN 0 ELSE cOld[g] - 1

\* Mutant of SignalCas: stores although waiters moved.
SignalStore(g) ==
  /\ cPc[g] = "scas"
  /\ waiters' = NewWaiters(g)
  /\ n' = [n EXCEPT ![g] = cOld[g] - NewWaiters(g)]
  /\ owed' = [owed EXCEPT ![g] = {w \in Gs : all[g] /\ cPc[w] \in CondWaiting}]
  /\ cOld' = [cOld EXCEPT ![g] = 0]
  /\ CondGoto(g, "srelease")
  /\ UNCHANGED <<L, queue, all>>

\* Take one waiter, or all of them, off the count.
SignalCas(g) ==
  /\ cPc[g] = "scas"
  /\ \/ /\ waiters = cOld[g]
        /\ waiters' = NewWaiters(g)
        /\ n' = [n EXCEPT ![g] = cOld[g] - NewWaiters(g)]
        /\ owed' = [owed EXCEPT ![g] = {w \in Gs : all[g] /\ cPc[w] \in CondWaiting}]
        /\ CondGoto(g, "srelease")
     \/ /\ waiters # cOld[g]
        /\ CondGoto(g, "sload")
        /\ UNCHANGED <<waiters, n, owed>>
  /\ cOld' = [cOld EXCEPT ![g] = 0]
  /\ UNCHANGED <<L, queue, all>>

\* The pending acquires at the head of the queue, at most k of them.
Satisfied(k) ==
  {j \in DOMAIN queue : j <= k /\ \A i \in 1..j : queue[i].nrelease < 0}

\* Satisfy pending acquires; if n of them have not come yet, wait for them.
Syncsemrelease(g) ==
  /\ cPc[g] = "srelease"
  /\ LET k == Cardinality(Satisfied(n[g]))
         woken == {queue[j].g : j \in 1..k}
         rest == SubSeq(queue, k + 1, Len(queue))
         after == IF k = n[g] THEN "run" ELSE "sparked"
     IN  /\ Paid(woken)
         /\ queue' = IF k = n[g] THEN rest
                     ELSE Append(rest, [g |-> g, nrelease |-> n[g] - k])
         /\ cPc' = [h \in Gs |-> IF h \in woken THEN "wlock"
                                ELSE IF h = g THEN after ELSE cPc[h]]
         /\ Forget(g)
  /\ UNCHANGED <<L, waiters, all, cOld>>

\* The steps of calls in progress.
CondStep(g) ==
  \/ WaitUnlock(g) \/ Syncsemacquire(g) \/ WaitLockL(g)
  \/ SignalLoad(g) \/ SignalCas(g) \/ Syncsemrelease(g)

CondNext == \E g \in Gs : LockL(g) \/ UnlockL(g) \/ CondWait(g) \/ SignalImpl(g) \/ CondStep(g)

\* Calls in progress go on.  Nobody has to lock, wait or signal.
CondFairness == \A g \in Gs : WF_condVars(CondStep(g))

CondSpec == CondInit /\ [][CondNext]_condVars
CondFairSpec == CondSpec /\ CondFairness

----------------------------------------------------------------------------
(* Properties *)

\* The wakeups signallers took off the count, one pair for each: those not yet
\* brought to the semaphore, and those pending there.
Taken == UNION {{g} \X (1..n[g]) : g \in Gs}
Held == UNION {{queue[j].g} \X (1..queue[j].nrelease) : j \in DOMAIN queue}

(***************************************************************************)
(* "Wait cannot return unless awoken by Broadcast or Signal", and no       *)
(* signal is lost: the goroutines in Wait are exactly those still counted, *)
(* plus those a Signal or Broadcast has taken off the count and will wake. *)
(***************************************************************************)
SignalsMatched ==
  Cardinality({g \in Gs : cPc[g] \in CondWaiting}) = waiters + Cardinality(Taken) + Cardinality(Held)

\* A Signal or Broadcast that has taken its waiters off the count returns,
\* although it may park until they arrive at the semaphore, and even if its
\* caller holds c.L all the time.
SignalReturns ==
  \A g \in Gs : cPc[g] \in {"srelease", "sparked"} ~> cPc[g] = "run"

\* "Broadcast wakes all goroutines waiting on c": when it returns, every
\* goroutine that was in Wait when it took effect has been woken.
BroadcastWakesAll ==
  \A g \in Gs : cPc[g] \notin Signalling => owed[g] = {}
=============================================================================
