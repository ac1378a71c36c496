------------------------------ MODULE WaitGroup ------------------------------
(***************************************************************************)
(* sync/waitgroup.go, one step per atomic operation.  wg.m is an           *)
(* AbstractLock.  wg.sema points to a semaphore that is dropped when its   *)
(* waiters are released; the semaphores still referenced have distinct     *)
(* identities, and an unreferenced one is collected.                       *)
(*                                                                         *)
(* The clients: a goroutine starts a piece of work with Add(1), ends it    *)
(* with Done, and in between does not Wait.  Rounds may overlap freely.    *)
(***************************************************************************)
EXTENDS Goroutines, Integers

VARIABLES
  m,         \* the goroutine holding wg.m
  counter,   \* wg.counter
  wgWaiters, \* wg.waiters
  wgSema,    \* wg.sema: 0 for nil, or a semaphore
  count,     \* the value of each semaphore
  busy,      \* goroutines with a piece of work to be Done
  wgPc,      \* where each goroutine is
  s,         \* Wait's local s, 0 outside
  left,      \* Add's local wg.waiters - i
  sawZero    \* history: the counter was 0 since the goroutine called Wait

wgVars == <<m, counter, wgWaiters, wgSema, count, busy, wgPc, s, left, sawZero>>

\* One per goroutine in Wait, and the current one.
Semas == 1..Cardinality(Gs) + 1

(***************************************************************************)
(* idle      outside                                                       *)
(* dload     Add: the counter became 0, about to load waiters              *)
(* dlock     Add: there are waiters, in wg.m.Lock()                        *)
(* dcheck    Add: holds m, about to load the counter                       *)
(* drelease  Add: releasing the waiters one by one                         *)
(* wlock     Wait: the counter was not 0, in wg.m.Lock()                   *)
(* wadd      Wait: holds m                                                 *)
(* wcheck    Wait: counted in waiters, about to load the counter           *)
(* wundo     Wait: the counter is 0, about to leave                        *)
(* wsema     Wait: in Semacquire(s)                                        *)
(***************************************************************************)
WGWaiting == {"wlock", "wadd", "wcheck", "wundo", "wsema"}
WGLocations == WGWaiting \cup {"idle", "dload", "dlock", "dcheck", "drelease"}

WGInit ==
  /\ m = NoG
  /\ counter = 0 /\ wgWaiters = 0 /\ wgSema = 0
  /\ count = [k \in Semas |-> 0]
  /\ busy = {}
  /\ wgPc = [g \in Gs |-> "idle"]
  /\ s = [g \in Gs |-> 0]
  /\ left = [g \in Gs |-> 0]
  /\ sawZero = [g \in Gs |-> FALSE]

WGGoto(g, l) == wgPc' = [wgPc EXCEPT ![g] = l]

\* Add(1).  The counter is positive, so Add returns at once.
Add(g) ==
  /\ wgPc[g] = "idle"
  /\ g \notin busy
  /\ busy' = busy \cup {g}
  /\ counter' = counter + 1
  /\ UNCHANGED <<m, wgWaiters, wgSema, count, wgPc, s, left, sawZero>>

\* Done, that is Add(-1).
Done(g) ==
  /\ wgPc[g] = "idle"
  /\ g \in busy
  /\ busy' = busy \ {g}
  /\ counter' = counter - 1
  /\ \/ counter' > 0 /\ UNCHANGED wgPc
     \/ counter' = 0 /\ WGGoto(g, "dload")
  /\ sawZero' = [h \in Gs |-> sawZero[h] \/ (wgPc[h] \in WGWaiting /\ counter' = 0)]
  /\ UNCHANGED <<m, wgWaiters, wgSema, count, s, left>>

DoneLoad(g) ==
  /\ wgPc[g] = "dload"
  /\ \/ wgWaiters = 0 /\ WGGoto(g, "idle")
     \/ wgWaiters # 0 /\ WGGoto(g, "dlock")
  /\ UNCHANGED <<busy, m, counter, wgWaiters, wgSema, count, s, left, sawZero>>

DoneLock(g) ==
  /\ wgPc[g] = "dlock"
  /\ m = NoG
  /\ m' = g
  /\ WGGoto(g, "dcheck")
  /\ UNCHANGED <<busy, counter, wgWaiters, wgSema, count, s, left, sawZero>>

\* Mutant of DoneCheck: does not look at the counter again.
DoneUnchecked(g) ==
  /\ wgPc[g] = "dcheck"
  /\ left' = [left EXCEPT ![g] = wgWaiters]
  /\ WGGoto(g, "drelease")
  /\ UNCHANGED <<busy, m, counter, wgWaiters, wgSema, count, s, sawZero>>

\* The counter may have been raised again: then nobody is released now.
DoneCheck(g) ==
  /\ wgPc[g] = "dcheck"
  /\ \/ /\ counter = 0
        /\ left' = [left EXCEPT ![g] = wgWaiters]
        /\ WGGoto(g, "drelease")
        /\ UNCHANGED m
     \/ /\ counter # 0
        /\ m' = NoG
        /\ WGGoto(g, "idle")
        /\ UNCHANGED left
  /\ UNCHANGED <<busy, counter, wgWaiters, wgSema, count, s, sawZero>>

\* Mutant of DoneRelease: the next round goes on with the old semaphore.
DoneReleaseKeep(g) ==
  /\ wgPc[g] = "drelease"
  /\ \/ /\ left[g] > 0
        /\ count' = [count EXCEPT ![wgSema] = @ + 1]
        /\ left' = [left EXCEPT ![g] = @ - 1]
        /\ UNCHANGED <<m, wgWaiters, wgSema, wgPc>>
     \/ /\ left[g] = 0
        /\ wgWaiters' = 0
        /\ m' = NoG
        /\ WGGoto(g, "idle")
        /\ UNCHANGED <<wgSema, count, left>>
  /\ UNCHANGED <<busy, counter, s, sawZero>>

\* Release every waiter, forget them and their semaphore, and unlock.
DoneRelease(g) ==
  /\ wgPc[g] = "drelease"
  /\ \/ /\ left[g] > 0
        /\ count' = [count EXCEPT ![wgSema] = @ + 1]
        /\ left' = [left EXCEPT ![g] = @ - 1]
        /\ UNCHANGED <<m, wgWaiters, wgSema, wgPc>>
     \/ /\ left[g] = 0
        /\ wgWaiters' = 0
        /\ wgSema' = 0
        /\ m' = NoG
        /\ WGGoto(g, "idle")
        /\ UNCHANGED <<count, left>>
  /\ UNCHANGED <<busy, counter, s, sawZero>>

\* Wait returns at once when the counter is 0.
Wait(g) ==
  /\ wgPc[g] = "idle"
  /\ g \notin busy
  /\ \/ counter = 0 /\ UNCHANGED wgPc
     \/ counter # 0 /\ WGGoto(g, "wlock")
  /\ sawZero' = [sawZero EXCEPT ![g] = counter = 0]
  /\ UNCHANGED <<busy, m, counter, wgWaiters, wgSema, count, s, left>>

WaitLock(g) ==
  /\ wgPc[g] = "wlock"
  /\ m = NoG
  /\ m' = g
  /\ WGGoto(g, "wadd")
  /\ UNCHANGED <<busy, counter, wgWaiters, wgSema, count, s, left, sawZero>>

\* wg.waiters is raised before the counter is read.
WaitAdd(g) ==
  /\ wgPc[g] = "wadd"
  /\ wgWaiters' = wgWaiters + 1
  /\ WGGoto(g, "wcheck")
  /\ UNCHANGED <<busy, m, counter, wgSema, count, s, left, sawZero>>

\* A semaphore nobody refers to.
NewSema == CHOOSE k \in Semas : k # wgSema /\ \A g \in Gs : s[g] # k

\* Mutant of WaitCheck: does not look at the counter again.
WaitUnchecked(g) ==
  /\ wgPc[g] = "wcheck"
  /\ wgSema' = IF wgSema = 0 THEN NewSema ELSE wgSema
  /\ s' = [s EXCEPT ![g] = wgSema']
  /\ m' = NoG
  /\ WGGoto(g, "wsema")
  /\ UNCHANGED <<busy, counter, wgWaiters, count, left, sawZero>>

\* The counter is still not 0: wait on the semaphore of this round.
WaitCheck(g) ==
  /\ wgPc[g] = "wcheck"
  /\ \/ /\ counter = 0
        /\ WGGoto(g, "wundo")
        /\ UNCHANGED <<m, wgSema, s>>
     \/ /\ counter # 0
        /\ wgSema' = IF wgSema = 0 THEN NewSema ELSE wgSema
        /\ s' = [s EXCEPT ![g] = wgSema']
        /\ m' = NoG
        /\ WGGoto(g, "wsema")
  /\ UNCHANGED <<busy, counter, wgWaiters, count, left, sawZero>>

WaitUndo(g) ==
  /\ wgPc[g] = "wundo"
  /\ wgWaiters' = wgWaiters - 1
  /\ m' = NoG
  /\ WGGoto(g, "idle")
  /\ UNCHANGED <<busy, counter, wgSema, count, s, left, sawZero>>

WaitSema(g) ==
  /\ wgPc[g] = "wsema"
  /\ count[s[g]] > 0
  /\ count' = [count EXCEPT ![s[g]] = @ - 1]
  /\ s' = [s EXCEPT ![g] = 0]
  /\ WGGoto(g, "idle")
  /\ UNCHANGED <<busy, m, counter, wgWaiters, wgSema, left, sawZero>>

\* The steps of calls in progress, and the Done a worker owes.
WGStep(g) ==
  \/ Done(g)
  \/ DoneLoad(g) \/ DoneLock(g) \/ DoneCheck(g) \/ DoneRelease(g)
  \/ WaitLock(g) \/ WaitAdd(g) \/ WaitCheck(g) \/ WaitUndo(g) \/ WaitSema(g)

WGNext == \E g \in Gs : Add(g) \/ Wait(g) \/ WGStep(g)

\* Calls in progress go on and work ends.  Nobody has to call Add or Wait.
WGFairness == \A g \in Gs : WF_wgVars(WGStep(g))

WGSpec == WGInit /\ [][WGNext]_wgVars
WGFairSpec == WGSpec /\ WGFairness

----------------------------------------------------------------------------
(* Properties *)

(***************************************************************************)
(* Wait returns only after the counter was 0 at some moment of the call,   *)
(* also when the group is reused while the waiters of the last round are   *)
(* still waking: the race the comment at the top of the file describes.    *)
(***************************************************************************)
WaitSawZero ==
  [][\A g \in Gs : wgPc[g] \in WGWaiting /\ wgPc'[g] = "idle" => sawZero[g]]_wgVars

\* "If the counter becomes zero, all goroutines blocked on Wait are released":
\* when it stays zero, every Wait returns.
AllReleased ==
  <>[](counter = 0) => \A g \in Gs : wgPc[g] \in WGWaiting ~> wgPc[g] = "idle"
=============================================================================
