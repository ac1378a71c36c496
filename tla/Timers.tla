------------------------------- MODULE Timers -------------------------------
(***************************************************************************)
(* runtime/time.go: the heap of timers, the goroutine timerproc that runs  *)
(* them, and the note it sleeps on with a timeout (lock_futex.go).         *)
(*                                                                         *)
(* All times are relative to the present, so that the clock may tick for   *)
(* ever: left[t] is t.when - nanotime().  timers.lock is only held within  *)
(* a step: addtimerLocked keeps it through notewakeup, so nothing can tell *)
(* the xchg of the note from its futexwakeup.                              *)
(***************************************************************************)
EXTENDS Integers, Sequences, SequencesExt, FiniteSets, FiniteSetsExt

CONSTANTS Timer,      \* timers
          Delays,     \* how far ahead a timer is set
          Periods,    \* its period, 0 for a one-shot timer
          Arity,      \* children of a node of the heap, 4 in the code
          MaxLate     \* bound on how late timerproc may be, for TLC

ASSUME TimersAssumption ==
  /\ Delays \subseteq Nat /\ Periods \subseteq Nat
  /\ Arity \in Nat \ {0, 1}
  /\ MaxLate \in Nat

VARIABLES
  heap,           \* timers.t
  left, period,   \* t.when - nanotime(), t.period
  sleeping, rescheduling,
  key,            \* timers.waitnote
  pc,             \* where timerproc is
  delta,          \* timerproc's local delta
  age,            \* nanotime() - now, for its local now
  deadline,       \* notetsleep_internal's deadline - nanotime()
  thrown          \* notewakeup found the note woken

vars == <<heap, left, period, sleeping, rescheduling, key, pc, delta, age, deadline,
          thrown>>

(***************************************************************************)
(* none     timerproc is not created                                       *)
(* top      about to lock and read the clock                               *)
(* fire     calls f, without the lock                                      *)
(* idle     parked, rescheduling                                           *)
(* note     in notetsleep_internal, about to load the note                 *)
(* call     about to enter futexsleep                                      *)
(* futex    asleep in the kernel                                           *)
(* awake    back from futexsleep, about to load the note again             *)
(***************************************************************************)
Init ==
  /\ heap = <<>>
  /\ left = [t \in Timer |-> 0]
  /\ period = [t \in Timer |-> 0]
  /\ sleeping = FALSE /\ rescheduling = FALSE
  /\ key = 0
  /\ pc = "none"
  /\ delta = 0 /\ age = 0 /\ deadline = 0
  /\ thrown = FALSE

----------------------------------------------------------------------------
(* The heap: a sequence h, its order that of w[h[k]] *)

Parent(k) == ((k - 2) \div Arity) + 1
Children(h, k) == (Arity * (k - 1) + 2 .. Arity * k + 1) \cap DOMAIN h
Ordered(h, w) == \A k \in 2..Len(h) : w[h[Parent(k)]] <= w[h[k]]

\* The places the k-th timer passes on its way up, past every parent that is
\* due later, and that way: each timer on it takes the place below.
Above(h, w, k) ==
  LET up[j \in DOMAIN h] == IF j = 1 \/ w[h[Parent(j)]] <= w[h[k]] THEN {j}
                            ELSE {j} \cup up[Parent(j)]
  IN  up[k]

siftupTimer(h, w, k) ==
  LET way == Above(h, w, k)
  IN  [j \in DOMAIN h |-> IF j = Min(way) THEN h[k]
                          ELSE IF j \in way THEN h[Parent(j)] ELSE h[j]]

\* The first of the least children of a place.
Least(h, w, j) ==
  Min({c \in Children(h, j) : \A d \in Children(h, j) : w[h[c]] <= w[h[d]]})

\* The places the k-th timer passes on its way down, past the least child
\* while that is due earlier, and that way: each takes the place above.
Below(h, w, k) ==
  LET down[j \in DOMAIN h] ==
        IF Children(h, j) = {} \/ w[h[Least(h, w, j)]] >= w[h[k]] THEN {j}
        ELSE {j} \cup down[Least(h, w, j)]
  IN  down[k]

siftdownTimer(h, w, k) ==
  LET way == Below(h, w, k)
  IN  [j \in DOMAIN h |-> IF j = Max(way) THEN h[k]
                          ELSE IF j \in way THEN h[Least(h, w, j)] ELSE h[j]]

\* Mutant of Removed: the timer that takes the free place only moves down.
RemovedDown(h, w, k) ==
  LET n == Len(h)
      moved == [j \in 1..n-1 |-> IF j = k THEN h[n] ELSE h[j]]
  IN  IF k = n THEN Front(h) ELSE siftdownTimer(moved, w, k)

\* The last timer takes the place of the k-th.
Removed(h, w, k) ==
  LET n == Len(h)
      moved == [j \in 1..n-1 |-> IF j = k THEN h[n] ELSE h[j]]
  IN  IF k = n THEN Front(h) ELSE siftdownTimer(siftupTimer(moved, w, k), w, k)

----------------------------------------------------------------------------
(* addtimer (startTimer, timeSleep) and deltimer (stopTimer) *)

InHeap(t) == \E k \in DOMAIN heap : heap[k] = t

\* The caller chooses when and period.
Enqueue(t) ==
  /\ ~InHeap(t)
  /\ \E d \in Delays : left' = [left EXCEPT ![t] = d]
  /\ \E p \in Periods : period' = [period EXCEPT ![t] = p]
  /\ heap' = siftupTimer(Append(heap, t), left', Len(heap) + 1)

\* Kick timerproc: wakes is the note's wakeup, readies that of the parked one.
Kick(wakes, readies) ==
  /\ key' = IF wakes THEN 1 ELSE key
  /\ thrown' = (thrown \/ (wakes /\ key # 0))
  /\ pc' = IF pc = "none" \/ readies THEN "top"
           ELSE IF pc = "futex" /\ wakes THEN "awake" ELSE pc
  /\ UNCHANGED <<delta, age, deadline>>

\* Mutant of addtimer: the note is woken, the sleeping flag stays set.
addtimerKeep(t) ==
  /\ Enqueue(t)
  /\ LET first == heap'[1] = t
     IN  /\ Kick(first /\ sleeping, first /\ rescheduling)
         /\ rescheduling' = (rescheduling /\ ~first)
  /\ UNCHANGED sleeping

\* Add a timer to the heap, and start or kick timerproc if the new timer is
\* earlier than any of the others.
addtimer(t) ==
  /\ Enqueue(t)
  /\ LET first == heap'[1] = t
     IN  /\ Kick(first /\ sleeping, first /\ rescheduling)
         /\ sleeping' = (sleeping /\ ~first)
         /\ rescheduling' = (rescheduling /\ ~first)

\* A timer out of the heap is no longer read: its fields count as 0.
Forget(t) ==
  /\ left' = [left EXCEPT ![t] = 0]
  /\ period' = [period EXCEPT ![t] = 0]

deltimer(t) ==
  /\ \E k \in DOMAIN heap : heap[k] = t /\ heap' = Removed(heap, left, k)
  /\ Forget(t)
  /\ UNCHANGED <<sleeping, rescheduling, key, pc, delta, age, deadline,
                 thrown>>

----------------------------------------------------------------------------
(* timerproc *)

\* No timers left: park.
Idle ==
  /\ heap = <<>>
  /\ rescheduling' = TRUE /\ sleeping' = FALSE
  /\ pc' = "idle"
  /\ age' = 0
  /\ UNCHANGED <<heap, left, period, key, delta, deadline, thrown>>

\* At least one timer pending: sleep until then.
Sleep(stale) ==
  /\ heap # <<>>
  /\ left[heap[1]] + stale > 0
  /\ delta' = left[heap[1]] + stale
  /\ sleeping' = TRUE
  /\ key' = 0
  /\ pc' = "note"
  /\ age' = stale
  /\ UNCHANGED <<heap, left, period, rescheduling, deadline, thrown>>

\* The first timer is due: take it out, or set its next time to fire.
Due(stale) ==
  /\ heap # <<>>
  /\ LET t == heap[1]
         late == -(left[t] + stale)
     IN  /\ late >= 0
         /\ IF period[t] = 0
            THEN Forget(t) /\ heap' = Removed(heap, left, 1)
            ELSE /\ left' = [left EXCEPT ![t] = @ + period[t] * (1 + late \div period[t])]
                 /\ heap' = siftdownTimer(heap, left', 1)
                 /\ UNCHANGED period
  /\ sleeping' = FALSE
  /\ pc' = "fire"
  /\ age' = stale
  /\ UNCHANGED <<rescheduling, key, delta, deadline, thrown>>

\* The critical section of the loop; now is stale ticks old.
Scan(stale) == Idle \/ Sleep(stale) \/ Due(stale)

\* lock, and read the clock
Top == pc = "top" /\ Scan(0)

\* f(arg, seq) returned: lock, and look at the next timer with the same now.
Fire == pc = "fire" /\ Scan(age)

Noteload ==
  /\ pc = "note"
  /\ IF key # 0 THEN pc' = "top" /\ age' = 0 /\ UNCHANGED deadline
     ELSE pc' = "call" /\ deadline' = delta /\ UNCHANGED age
  /\ delta' = 0
  /\ UNCHANGED <<heap, left, period, sleeping, rescheduling, key, thrown>>

\* Mutant of Futexsleep: the kernel does not look at the note.
FutexsleepBlind ==
  /\ pc = "call"
  /\ pc' = "futex"
  /\ UNCHANGED <<heap, left, period, sleeping, rescheduling, key, delta, age, deadline,
                 thrown>>

\* The kernel sleeps only if the note still holds 0.
Futexsleep ==
  /\ pc = "call"
  /\ pc' = IF key = 0 THEN "futex" ELSE "awake"
  /\ UNCHANGED <<heap, left, period, sleeping, rescheduling, key, delta, age, deadline,
                 thrown>>

\* The timeout expires.
Timeout ==
  /\ pc = "futex" /\ deadline <= 0
  /\ pc' = "awake"
  /\ UNCHANGED <<heap, left, period, sleeping, rescheduling, key, delta, age, deadline,
                 thrown>>

\* The kernel may return early, for a signal.
Interrupt ==
  /\ pc = "futex" /\ deadline > 0
  /\ pc' = "awake"
  /\ UNCHANGED <<heap, left, period, sleeping, rescheduling, key, delta, age, deadline,
                 thrown>>

\* Mutant of Awake: only a wakeup ends the sleep.
AwakeWoken ==
  /\ pc = "awake"
  /\ IF key # 0
     THEN pc' = "top" /\ deadline' = 0 /\ age' = 0
     ELSE pc' = "call" /\ UNCHANGED <<deadline, age>>
  /\ UNCHANGED <<heap, left, period, sleeping, rescheduling, key, delta, thrown>>

\* Woken or past the deadline: return; otherwise sleep for what is left.
Awake ==
  /\ pc = "awake"
  /\ IF key # 0 \/ deadline <= 0
     THEN pc' = "top" /\ deadline' = 0 /\ age' = 0
     ELSE pc' = "call" /\ UNCHANGED <<deadline, age>>
  /\ UNCHANGED <<heap, left, period, sleeping, rescheduling, key, delta, thrown>>

----------------------------------------------------------------------------
Timerproc == Top \/ Fire \/ Noteload \/ Futexsleep \/ Timeout \/ Awake

\* The clock; age grows while timerproc uses its now, which ends with Noteload.
Tick ==
  /\ \A k \in DOMAIN heap : left[heap[k]] > -MaxLate
  /\ deadline > -MaxLate
  /\ pc \in {"fire", "note"} => age < MaxLate
  /\ left' = [t \in Timer |-> IF InHeap(t) THEN left[t] - 1 ELSE left[t]]
  /\ deadline' = IF pc \in {"call", "futex", "awake"} THEN deadline - 1 ELSE 0
  /\ age' = IF pc \in {"fire", "note"} THEN age + 1 ELSE age
  /\ UNCHANGED <<heap, period, sleeping, rescheduling, key, pc, delta, thrown>>

Next ==
  \/ \E t \in Timer : addtimer(t) \/ deltimer(t)
  \/ Top \/ Fire \/ Noteload \/ Futexsleep \/ Timeout \/ Interrupt \/ Awake
  \/ Tick

\* timerproc is a goroutine that is ready whenever it does not sleep, nothing
\* keeps timers.lock, and time passes.
Fairness == WF_vars(Timerproc) /\ WF_vars(Tick)

Spec == Init /\ [][Next]_vars /\ Fairness

----------------------------------------------------------------------------
(* Properties *)

\* Where timerproc sleeps, or will unless the note wakes it, no timer of the
\* heap is due before the instant it aims at: its deadline, less the time it
\* lost between reading the clock and going to sleep.  A timer that became
\* the first one in between has woken the note (addtimerLocked), and the
\* kernel keeps nobody asleep on a note that was woken (futexsleep); a parked
\* timerproc has no timers.
NoOversleep ==
  \A k \in DOMAIN heap :
    /\ pc = "note" /\ key = 0 => left[heap[k]] >= delta - age
    /\ pc \in {"call", "awake"} /\ key = 0 => left[heap[k]] >= deadline - age
    /\ pc = "futex" => left[heap[k]] >= deadline - age
    /\ pc # "idle"

\* notewakeup never throws "double wakeup": one wakeup per noteclear, also
\* when timerproc returned by timeout and is woken before it has the lock.
WakeOnce == ~thrown

\* A timer does not stay due for ever without being run or stopped.  (A timer
\* with a period may be due again as soon as it has run: timerproc is late,
\* and sets its next time from the now it read before the callbacks.)
DueFires ==
  \A t \in Timer :
    \/ []<>~(InHeap(t) /\ left[t] <= 0)
    \/ []<><<left'[t] > left[t]>>_vars

=============================================================================
