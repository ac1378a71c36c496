------------------------------- MODULE RWMutex -------------------------------
(***************************************************************************)
(* sync/rwmutex.go, one step per atomic operation.  The embedded Mutex w   *)
(* is an AbstractLock (SyncMutex!Refinement).  The two semaphores are      *)
(* those of module Sema, with all its steps: writerSem and readerSem lie   *)
(* in one 8-byte word of an aligned RWMutex, so semroot gives them the     *)
(* same root.  Every goroutine may read and may write, one lock at a time. *)
(***************************************************************************)
EXTENDS Integers, Sequences, FiniteSets

CONSTANTS Gs,                  \* goroutines
          NoG,                 \* the owner of a free w
          rwmutexMaxReaders    \* 1 << 30 in the code

\* The code relies on never having that many readers.
ASSUME MaxReadersAssumption ==
  /\ rwmutexMaxReaders \in Nat
  /\ IsFiniteSet(Gs) /\ Cardinality(Gs) < rwmutexMaxReaders
ASSUME NoGAssumption == NoG \notin Gs

VARIABLES
  w,            \* the goroutine holding rw.w
  readerCount,  \* pending readers, less rwmutexMaxReaders under a writer
  readerWait,   \* departing readers the writer waits for
  pc,           \* where each goroutine is
  r             \* the local r of Lock, and what is left of r - i in Unlock
VARIABLES
  val, nwait, holder, queue, at, woke   \* the semaphores (module Sema)

\* The argument of the call of semacquire or semrelease at each location.
addr == [g \in Gs |-> IF pc[g] \in {"rsem", "wrelease"} THEN "readerSem"
                                                       ELSE "writerSem"]

S == INSTANCE Sema WITH Addrs <- {"readerSem", "writerSem"}

semavars == <<val, nwait, holder, queue, at, woke>>
rwvars == <<w, readerCount, readerWait, r>>
vars == <<rwvars, pc, semavars>>

(***************************************************************************)
(* idle      outside                                                       *)
(* rsem      RLock: a writer is pending, in Semacquire(readerSem)          *)
(* reading   RLock has returned                                            *)
(* rdepart   RUnlock saw a pending writer, about to decrement readerWait   *)
(* rwake     RUnlock: the last departing reader, about to wake the writer  *)
(* wlock     Lock: in rw.w.Lock()                                          *)
(* announce  Lock: holds w                                                 *)
(* wcount    Lock: there were r readers, about to add them to readerWait   *)
(* wsem      Lock: in Semacquire(writerSem)                                *)
(* writing   Lock has returned                                             *)
(* wrelease  Unlock: releasing r blocked readers, then w                   *)
(***************************************************************************)
Locations == {"idle", "rsem", "reading", "rdepart", "rwake", "wlock",
              "announce", "wcount", "wsem", "writing", "wrelease"}

Init ==
  /\ w = NoG
  /\ readerCount = 0 /\ readerWait = 0
  /\ S!SemaInit
  /\ pc = [g \in Gs |-> "idle"]
  /\ r = [g \in Gs |-> 0]

Goto(g, l) == pc' = [pc EXCEPT ![g] = l]

\* A step of a call of Semacquire or Semrelease; when it returns, go to l.
Semacquire(g, l) == S!SemacquireStep(g) /\ Goto(g, IF at'[g] = "out" THEN l ELSE pc[g])
Semrelease(g, l) == S!SemreleaseStep(g) /\ Goto(g, IF at'[g] = "out" THEN l ELSE pc[g])

RLock(g) ==
  /\ pc[g] = "idle"
  /\ readerCount' = readerCount + 1
  /\ \/ readerCount' < 0 /\ Goto(g, "rsem")
     \/ readerCount' >= 0 /\ Goto(g, "reading")
  /\ UNCHANGED <<w, readerWait, r, semavars>>

\* A writer is pending: wait for it.
RLockSem(g) ==
  /\ pc[g] = "rsem"
  /\ Semacquire(g, "reading")
  /\ UNCHANGED rwvars

RUnlock(g) ==
  /\ pc[g] = "reading"
  /\ readerCount' = readerCount - 1
  /\ \/ readerCount' < 0 /\ Goto(g, "rdepart")
     \/ readerCount' >= 0 /\ Goto(g, "idle")
  /\ UNCHANGED <<w, readerWait, r, semavars>>

\* Mutant of RUnlockDepart: the last departing reader wakes nobody.
RUnlockDepartQuietly(g) ==
  /\ pc[g] = "rdepart"
  /\ readerWait' = readerWait - 1
  /\ Goto(g, "idle")
  /\ UNCHANGED <<w, readerCount, r, semavars>>

\* A writer is pending: the last departing reader unblocks it.
RUnlockDepart(g) ==
  /\ pc[g] = "rdepart"
  /\ readerWait' = readerWait - 1
  /\ \/ readerWait' = 0 /\ Goto(g, "rwake")
     \/ readerWait' # 0 /\ Goto(g, "idle")
  /\ UNCHANGED <<w, readerCount, r, semavars>>

RUnlockWake(g) ==
  /\ pc[g] = "rwake"
  /\ Semrelease(g, "idle")
  /\ UNCHANGED rwvars

\* Lock is called.
Lock(g) ==
  /\ pc[g] = "idle"
  /\ Goto(g, "wlock")
  /\ UNCHANGED <<w, readerCount, readerWait, r, semavars>>

\* First, resolve competition with other writers.
LockW(g) ==
  /\ pc[g] = "wlock"
  /\ w = NoG
  /\ w' = g
  /\ Goto(g, "announce")
  /\ UNCHANGED <<readerCount, readerWait, r, semavars>>

\* Announce to readers there is a pending writer.
LockAnnounce(g) ==
  /\ pc[g] = "announce"
  /\ r' = [r EXCEPT ![g] = readerCount]
  /\ readerCount' = readerCount - rwmutexMaxReaders
  /\ \/ readerCount = 0 /\ Goto(g, "writing")
     \/ readerCount # 0 /\ Goto(g, "wcount")
  /\ UNCHANGED <<w, readerWait, semavars>>

\* Mutant of LockCount: sleeps without looking at the sum.
LockCountBlind(g) ==
  /\ pc[g] = "wcount"
  /\ readerWait' = readerWait + r[g]
  /\ r' = [r EXCEPT ![g] = 0]
  /\ Goto(g, "wsem")
  /\ UNCHANGED <<w, readerCount, semavars>>

\* Mutant of LockCount: does not wait for the active readers.
LockCountOnly(g) ==
  /\ pc[g] = "wcount"
  /\ readerWait' = readerWait + r[g]
  /\ r' = [r EXCEPT ![g] = 0]
  /\ Goto(g, "writing")
  /\ UNCHANGED <<w, readerCount, semavars>>

\* Wait for active readers: some of the r may have departed already.
LockCount(g) ==
  /\ pc[g] = "wcount"
  /\ readerWait' = readerWait + r[g]
  /\ r' = [r EXCEPT ![g] = 0]
  /\ \/ readerWait' # 0 /\ Goto(g, "wsem")
     \/ readerWait' = 0 /\ Goto(g, "writing")
  /\ UNCHANGED <<w, readerCount, semavars>>

LockSem(g) ==
  /\ pc[g] = "wsem"
  /\ Semacquire(g, "writing")
  /\ UNCHANGED rwvars

\* Announce to readers there is no active writer.
Unlock(g) ==
  /\ pc[g] = "writing"
  /\ readerCount' = readerCount + rwmutexMaxReaders
  /\ r' = [r EXCEPT ![g] = readerCount']
  /\ Goto(g, "wrelease")
  /\ UNCHANGED <<w, readerWait, semavars>>

\* Mutant of UnlockRelease: one readerSem too many (i <= r).
UnlockReleaseOneMore(g) ==
  /\ pc[g] = "wrelease"
  /\ \/ /\ at[g] # "out" \/ r[g] >= 0
        /\ Semrelease(g, "wrelease")
        /\ r' = [r EXCEPT ![g] = IF at[g] = "out" THEN @ - 1 ELSE @]
        /\ UNCHANGED w
     \/ /\ at[g] = "out" /\ r[g] < 0
        /\ w' = NoG
        /\ r' = [r EXCEPT ![g] = 0]
        /\ Goto(g, "idle")
        /\ UNCHANGED semavars
  /\ UNCHANGED <<readerCount, readerWait>>

\* Unblock blocked readers one by one, then allow other writers to proceed.
UnlockRelease(g) ==
  /\ pc[g] = "wrelease"
  /\ \/ /\ at[g] # "out" \/ r[g] > 0
        /\ Semrelease(g, "wrelease")
        /\ r' = [r EXCEPT ![g] = IF at[g] = "out" THEN @ - 1 ELSE @]
        /\ UNCHANGED w
     \/ /\ at[g] = "out" /\ r[g] = 0
        /\ w' = NoG
        /\ Goto(g, "idle")
        /\ UNCHANGED <<r, semavars>>
  /\ UNCHANGED <<readerCount, readerWait>>

\* The steps of calls in progress, and the unlocks the holders owe.
Step(g) ==
  \/ RLockSem(g) \/ RUnlock(g) \/ RUnlockDepart(g) \/ RUnlockWake(g)
  \/ LockW(g) \/ LockAnnounce(g) \/ LockCount(g) \/ LockSem(g)
  \/ Unlock(g) \/ UnlockRelease(g)

Next == \E g \in Gs : RLock(g) \/ Lock(g) \/ Step(g)

\* Goroutines in a call run, and those holding a lock release it in the end.
Fairness == \A g \in Gs : WF_vars(Step(g))

Spec == Init /\ [][Next]_vars
FairSpec == Spec /\ Fairness

----------------------------------------------------------------------------
(* Properties *)

\* A writer between Lock and Unlock is alone: no other writer, no reader.
WriterAlone ==
  \A g, h \in Gs :
    pc[g] = "writing" /\ pc[h] \in {"writing", "reading"} => g = h

\* Nothing is left over when nobody uses the lock: a stray count in a
\* semaphore would let a later reader or writer in too early.
Drained ==
  (\A g \in Gs : pc[g] = "idle") =>
    /\ w = NoG
    /\ readerCount = 0 /\ readerWait = 0
    /\ \A a \in DOMAIN val : val[a] = 0
    /\ nwait = 0 /\ holder = NoG

\* "To ensure that the lock eventually becomes available, a blocked Lock call
\* excludes new readers from acquiring the lock": once it has announced
\* itself a writer gets the lock, whatever readers keep coming.
WriterServed ==
  \A g \in Gs : pc[g] \in {"announce", "wcount", "wsem"} ~> pc[g] = "writing"

\* Once nobody calls RLock or Lock any more, everybody inside gets the lock.
AllServed ==
  <>[][\A g \in Gs : ~RLock(g) /\ ~Lock(g)]_vars =>
    \A g \in Gs :
      /\ pc[g] = "rsem" ~> pc[g] = "reading"
      /\ pc[g] = "wlock" ~> pc[g] = "writing"

\* semrelease never leaves a goroutine of the lock asleep beside a count it
\* could take, although it reads nwait without the root's lock.
NoMissedWakeup == S!NoMissedWakeup

\* A goroutine asleep in one of the lock's semaphores is readied once, by a
\* release of that semaphore, although the other's sleepers share its queue.
OneWaker == S!OneWaker
=============================================================================
