# A verification project for the Go runtime's concurrency core (linux/mips32)

The repository is the Go 1.4 tree with a MIPS32 port. Its own core logic that is
hardest to get right, and hardest to test, is the concurrency core of the runtime
and the `sync` package built on it: locks over the kernel's futex, semaphores,
mutexes, wait groups, the lock-free run queues of the scheduler, channels and
`select`, the network poller, timers and signals. This directory holds TLA+
modules for those parts, TLC configurations that model-check them on small
instances, and TLAPS proofs for every size of the instance. The paths below are
relative to `src/src/`.

## 1. The system: inventory

Each entry gives the state a part keeps, its operations, whom it calls, what is
hard about it, and what makes it correct.

| part | state | operations | interacts with | hard behaviour | correct when |
|---|---|---|---|---|---|
| futex mutex, `runtime/lock_futex.go` | `mutex.key` in {unlocked, locked, sleeping}; lock's locals `wait`, `i` | `lock`, `unlock` | `futexsleep`, `futexwakeup` (`os_linux.c`); everything in the runtime | the key is overwritten by threads that have not got the lock; spurious wakeups | exclusion, no sleeper forgotten |
| note, `runtime/lock_futex.go` | `note.key` | `noteclear`, `notewakeup`, `notesleep`, `notetsleep`, `notetsleepg` | scheduler, timers, signals | timeout racing a wakeup; double wakeup throws | a wakeup is never lost, one per clear |
| 32- and 64-bit atomics, `runtime/atomic_mips32x.go`, `sync/atomic/asm_mips32x.s` | the word; `locktab` for 64-bit words | `xadd`, `xchg`, `cas64`, `xadd64` ... | LL/SC; the futex mutex | CAS retry loops; 64-bit operations under a lock | each is one atomic step |
| semaphore, `runtime/sema.go` | the count `*addr`; `semaRoot{lock, queue, nwait}` shared by hash | `semacquire`, `semrelease`, `cansemacquire` | futex mutex; `gopark`, `goready`; `sync` | `nwait` is read without the lock; a woken waiter competes again | no missed wakeup, count never negative |
| `sync.Mutex`, `sync/mutex.go` | `state` (locked, woken, waiter count), `sema` | `Lock`, `Unlock` | semaphore | the woken flag; barging; wakeups handed to late arrivals | exclusion, no waiter forgotten |
| `sync.RWMutex`, `sync/rwmutex.go` | `w`, `readerCount`, `readerWait`, two semaphores | `RLock`, `RUnlock`, `Lock`, `Unlock` | `Mutex`, semaphore | readers and a writer adjusting two counters in two steps | readers and writers exclude, nobody is stuck |
| `sync.WaitGroup`, `sync/waitgroup.go` | `counter`, `waiters`, `sema` | `Add`, `Done`, `Wait` | semaphore | reuse while waiters of the last round still wake | `Wait` returns only after the counter was 0 |
| `sync.Once`, `sync/once.go` | `done`, `m` | `Do` | `Mutex` | fast path reads `done` without the lock | `f` runs once, and `Do` returns after it |
| `sync.Cond` and the synchronous semaphore, `sync/cond.go`, `runtime/sema.go` | `waiters`; queue of `sudog` with `nrelease` | `Wait`, `Signal`, `Broadcast`; `syncsemacquire`, `syncsemrelease` | `L`, park/ready | signal arrives between the waiter count and the acquire | every signal wakes a goroutine that waited before it |
| run queues, `runtime/proc.c` | `P.runqhead`, `runqtail`, `runq[256]`; `sched.runq` | `runqput`, `runqputslow`, `runqget`, `runqgrab`, `runqsteal`, `globrunqput`, `globrunqget` | the scheduler | one producer, many lock-free consumers, stale head and tail | no goroutine lost or run twice |
| scheduler, `runtime/proc.c` | M, P, `sched` (idle lists, `nmspinning`, `gcwaiting`, `stopwait`) | `ready`, `wakep`, `findrunnable`, `handoffp`, `entersyscall`, `exitsyscall`, `retake`, `stoptheworld`, `starttheworld` | all of the above | spinning Ms and new work miss each other; syscall exit races retake and stop-the-world | work never sits beside an idle P; the world stops |
| preemption, `runtime/proc.c`, `stack.c`, `lock_futex.go` | `gp.preempt`, `stackguard0`, `m.locks` | `preemptone`, `newstack`, `lock`, `unlock` | scheduler | a request arriving while locks are held | a request is not lost |
| channels, `runtime/chan.go` | `buf`, `qcount`, `sendx`, `recvx`, `recvq`, `sendq`, `closed` | `chansend`, `chanrecv`, `closechan`, `len`, `cap` | futex mutex, park/ready, select | close against parked goroutines; retry after wakeup of buffered channels | FIFO, nothing lost or duplicated, close wakes all |
| select, `runtime/select.go` | cases, `pollorder`, `lockorder`, `selectdone` | `selectgo` | several channels | locking many channels; two channels signalling one select | no deadlock, one case fires |
| network poller, `runtime/netpoll.go` | `pollDesc{rg, wg, rd, wd, seq, closing}` | `Open`, `Close`, `Reset`, `Wait`, `SetDeadline`, `Unblock`, `netpollready` | timers, `net` | readiness arriving between the check and the park; stale timers | no lost readiness, no stale timeout |
| timers, `runtime/time.go` | 4-ary heap, `sleeping`, `rescheduling`, `waitnote` | `addtimer`, `deltimer`, `timerproc` | notes | timer added while timerproc goes to sleep | heap order; due timers fire |
| signal queue, `runtime/sigqueue.go` | `mask`, `state`, `note` | `sigsend`, `signal_recv`, enable, disable | signal handlers, notes | handler may not lock; three-state handshake | a signal sent is received |
| lock-free stack, `runtime/lfstack.c` | head (pointer, push count) | `lfstackpush`, `lfstackpop` | GC work buffers | ABA | no node lost or popped twice |
| parallel for, `runtime/parfor.c` | per-thread ranges | `parforsetup`, `parfordo` | GC | stealing half of another's range | each iteration runs once |

The rest of the tree (compilers and linkers under `cmd/`, the standard library
above `sync`, documentation, tests, editor support) is listed in `PROJECT.json`
as not modelled, with the reason.

## 2. The plan

Modules are ordered by how much of the system stands on them. Done:

1. `AbstractLock`, `FutexLock`, `FutexLockProofs` - the lock everything else uses.
2. `SyncMutex`, `WaitGroup`, `Cond` - package `sync`, over the same `Goroutines`;
   `SyncProofs` is about the three.
3. `Sema`, and `RWMutex` over it - one run of the lock together with the runtime's
   semaphores it sleeps on; `RWMutexProofs` is about the two together.
4. `RunQueue`, `RunQueueProofs` - the lock-free queues of the scheduler.
5. `Chan`, and `Select` which extends it - one specification of both, since a
   select parks in the queues of several channels; `SelectProofs` is about both.
6. `PollDesc`, `PollDescProofs` - the network poller with its deadline timers and
   package `net` as its caller.
7. `Sched`, `SchedProofs` - Ms, Ps, spinning, system calls, `sysmon`, stop-the-world
   and `GOMAXPROCS`.
8. `Timers`, `TimersProofs` - the heap, `timerproc`, and the note it sleeps on.

What remains, in this order:

9. In `Sched`: goroutines locked to their thread (`stoplockedm`,
   `startlockedm`), `sysmon`'s deep sleep, and the poller inside `findrunnable`.
10. `Atomics` of the port (64-bit operations under `locktab`) refining atomic
   registers, `LFStack` on top of it, `SigQueue`, `ParFor`.

The abstract specification stated so far is `AbstractLock`; `FutexLock` and
`SyncMutex` both implement it. `RWMutex` uses a mutex as `AbstractLock` describes
it and `Chan` uses locks the same way, so the refinements are what lets those
modules be coarse. `RWMutex` instantiates `Sema` for its two semaphores, on one
root as if their addresses had the same hash. In `SyncMutex` and `WaitGroup` they
appear as `Sema` promises them: an acquire takes one from the count, or sleeps
until it can.

## 3. The modules and the code

One action stands for one access to shared memory, or for a stretch of code under
a lock that nobody can look into. Local computation is folded into the access
before it. Loops that load a word and `cas` it stay two actions wherever something
is decided between the two; where the outcome depends on nothing but the value
the `cas` saw, they are one (each module's header says where). Memory is taken
to be sequentially consistent; the port's `cas` (`runtime/asm_mips32x.s:396`) is
LL/SC without a `SYNC`, so this is an assumption about the machine, listed as a hazard.

| module | state | actions |
|---|---|---|
| `FutexLock` | `key` is `l.key`; `wait`, `i` the locals of `lock`; where each thread is, asleep in the futex among others | `Lock`, `SpinLoad`, `SpinCas`, `SleepXchg`, `FutexSleep`, `SpuriousWakeup`, `Unlock`, `FutexWakeup` |
| `Sema` | `*addr` per semaphore, one `semaRoot` shared by them (`nwait`, queue, lock) | the fast and slow path of `semacquire`, `semrelease`, park and ready |
| `SyncMutex` | `state` as the record (locked, woken, waiters); each goroutine's `old`, `awoke` | `Lock`, `LockLoad`, `LockCas`, `Semacquire`, `Unlock`, `UnlockCas`, `UnlockLoad`, `Semrelease` |
| `RWMutex` | `readerCount`, `readerWait`, `w`; an instance of `Sema` with `writerSem` and `readerSem` | the steps of `RLock`, `RUnlock`, `Lock`, `Unlock`, each `runtime_Semacquire` and `runtime_Semrelease` in the steps of `Sema` |
| `WaitGroup` | `counter`, `waiters` as `wgWaiters`, `sema` as `wgSema` (a fresh one per generation), `m` | the steps of `Add`, `Wait` |
| `Cond` | `waiters` of the copy-checked `Cond`; the queue of the synchronous semaphore with `nrelease` | the steps of `Wait` and of `Signal`, `Broadcast` (`SignalImpl`) over `syncsemacquire`, `syncsemrelease` |
| `RunQueue` | `runqhead`, `runqtail`, `runq` per P, indices modulo `Wrap`; `sched.runq` and its lock | put, overflow to the global queue, get, grab, steal, global get, each load, store and cas apart |
| `Chan` | `hchan` per channel: buffer with `sendx`, `recvx`, `qcount`, the two queues of sudogs, `closed`, lock; `param`, `selectdone` per goroutine | `chansend`, `chanrecv`, blocking and not, `closechan` |
| `Select` | extends `Chan`; the heap sort of `lockorder` by its result, the least channel not locked yet | `Sellock`, pass 1 served or closed or default, pass 2 enqueue, pass 3 |
| `PollDesc` | `pollDesc` with `rg`, `wg` as `gpp`, `rd`, `wd` as `dl`, its timers and which of them are in the heap; the socket's readiness and epoll's event | `netFD.Read` around `netpollReset`, `netpollWait`; `SetDeadline`; `Close`; timerproc; the poller |
| `Sched` | `sched` with its lock, idle Ps, `nmspinning`, `gcwaiting`, `stopwait`, `stopnote`; each P's status and the length of its queue; each M's place, P and `spinning`; how many goroutines wait | `schedule`, `findrunnable` (ten steps), `stopm`, `wakep`, `resetspinning`, `ready`, `park_m`, `gosched_m`, `entersyscall`, `entersyscallblock`, `exitsyscall`, `handoffp`, `retake`, `stoptheworld`, `starttheworld` with `procresize` |
| `Timers` | `timers.t`, `sleeping`, `rescheduling`, the note's key; `when` as the time left; timerproc's `now` as its age, its `delta` and the note's deadline | `addtimer`, `deltimer`, timerproc's critical section (park, sleep, run a timer), each access of `notetsleep_internal`, the kernel's wakeups, the clock |

`PROJECT.json` maps each definition to its lines. External, modelled from their
use: the futex system call (it compares the word and sleeps atomically; it may
return for no reason), edge-triggered epoll, and the clock.

Left out on purpose: preemption bookkeeping in `lock` and `unlock`, the race
detector, block profiling, `sudog` caching, nil channels (they park for ever).
In `PollDesc` time is nondeterministic: a deadline that is "to come" may pass at any
moment, also out of order with others, which only adds behaviours. In `Timers`
a clock ticks, and all times are relative to it, so that it ticks for ever.

`Sched` counts goroutines instead of naming them: `RunQueue` shows that its
queues keep them apart. A goroutine that runs may do anything at any time -
ready another, park, yield (which is also what a noticed preemption request does),
call the system in either way, stop the world. An M that is wanted and does not
exist is created. A local queue has room for `Size` goroutines; where the code moves
at most half a queue, or half a queue overflows to the global one, so does the
model. `checkdead` is there with its counts, since a wrong count
reports a deadlock that is none; so are the checks of `acquirep`, `releasep`,
`startm`, `stopm`, `findrunnable`, `resetspinning`, `stoptheworld` and
`starttheworld` on the state of an M and its P. `p->m` is not kept: that a P has one M
is `OneOwner`. Left out are threads locked to a goroutine,
helpers of the garbage collector, cgo, the finalizer's wakeup, and ready
goroutines from the poller. `handed`, which is not in the code, marks a P that
`handoffp` put on the idle list beside work; the mark stays until the P is taken
again, so `WorkConserving` exempts the P for that long, which is longer than the race
of section 6 alone would need.

Smaller liberties. Two loads of which the code uses only the outcome of both, and which
a later `cas` or locked section checks again, are one step: `nmspinning` and `npidle` in
`findrunnable` and `handoffp`, the failed `cas` and the look at `pidle` in `exitsyscall`,
`findrunnable`'s first look at `gcwaiting` and the queues, a note's key and
`nanotime` in `notetsleep`. `gcstopm` is one step with its `xadd` and `releasep`, which
come before the lock while the world is stopping anyway. A timer callback sets `rd` and `wd` together, both
under `pd.lock`. Callers are well-behaved: `RUnlock` and
`Unlock` are called by holders, so the panics for misuse are not modelled, a timer's
delay is not negative, and `netpollopen` succeeds. A system call that reads or
writes drains the socket.

## 4. The runs

| run | instance | distinct states | shows |
|---|---|---|---|
| `futex_lock` | 4 threads, 1 active spin round | 36 494 | exclusion, no sleeper forgotten, refinement, everybody is served |
| `sync_mutex` | 3 goroutines | 47 006 | exclusion, no waiter forgotten, refinement, everybody is served |
| `rwmutex` | 4 goroutines, both semaphores on one root | 142 507 | a writer is alone, an idle lock has nothing left over, the semaphores miss no wakeup and ready a sleeper once, a pending writer is served, everybody is served |
| `waitgroup` | 4 goroutines | 191 004 | a `Wait` saw zero since it began, whatever the last round left behind; all are released |
| `cond` | 3 goroutines | 12 084 | signals and waiters match, `Signal` returns |
| `runq` | 2 Ps with rings of 4, 6 goroutines, indices wrapping at 32 | 1 897 787 | one place per goroutine, nothing overflows, no self-deadlock |
| `select` | 3 goroutines, a synchronous channel and one of capacity 2, 3 values | 1 667 100 | exactly once, FIFO, no double wakeup, close reaches all, no circle of locks, honest fast path |
| `netpoll` | a reader or a writer, 1 caller, 3 deadlines, `seq` up to 4 | 1 065 697 | no throw, nobody sleeps through readiness, deadline or close, no stale timeout, close ends |
| `sched` | 2 Ps at most, queues of 2, 3 threads and sysmon, 2 goroutines | 514 839 | no check of the scheduler fails, a P is in one place, a stop reaches every P, no goroutine is left on a queue unnoticed, none beside an idle P when `ready` and a thief cross |
| `timers` | 3 timers with or without a period, up to 2 ticks late; heaps of up to 10 in the check of the heap itself | 203 376 | timerproc never oversleeps, its note is woken once, the heap is in order, due timers run |
| `cond_broadcast` | as `cond` | violated | see section 6 |
| `select_available` | as `select` | violated | see section 6 |

Why the bounds are enough for what they show. The lock protocols need a holder,
a sleeper, a woken thread and a latecomer: four, or three where a goroutine
that unlocks may be the latecomer. Two semaphores on one root are what makes a
wrong wakeup possible. A ring of 4 with half-batches of 2 has every boundary of
the ring of 256 (empty, one, half, full), and the indices start just below
their wrap. Capacity 2 tells a FIFO from a bag and lets `sendx` and `recvx`
wrap with 3 values. Two channels are the least for a lock circle or two
signals to one select. A descriptor whose `seq` reaches 4 is opened, given a
deadline, closed and opened again while a timer of its first life is under way;
two different deadlines to come make one common timer or one per mode. Two
goroutines and three threads are the least for one goroutine to be queued while
another runs, enters or leaves a system call or stops the world, with a thread to
spare that spins and parks; two Ps let the world be shrunk and grown again,
and leave one P idle, handed off or in a system call beside one that runs (with
`NP = 3` the same properties hold over 4 448 091 states, too long for every run).
Two goroutines never fill a queue of 2 while one of them runs; with 4 goroutines and
5 threads on one P they do, and the properties hold over 2 390 978 states. The proofs
cover the overflow for every `Size`.
Three timers give a first one, one that is added before it and one that is stopped
or due with it; a 4-ary heap of 10 is the smallest in which the timer that fills a
gap must move up.

**Fairness.** Weak fairness on the steps of a call that has begun: a runnable
thread is run by the kernel, a runnable goroutine by the scheduler. Beginning a
call is never fair: nobody has to call. A futex wakeup and `goready` are steps of
the thread that issues them. The poller is polled again and again, by idle threads
and by `sysmon`. Neither `lock` nor `sync.Mutex` nor the semaphore is fair to a
waiter while others keep barging in, so `AllServed` and `AllReleased` are stated
for when new calls have stopped; `WriterServed` is not,
since a pending writer turns away new readers. timerproc
is weakly fair, since it is ready whenever it does not sleep and nothing keeps
`timers.lock`, and so is the clock; the timeout of a futex comes once it is due. `Sched`
states no fairness: its properties are about what is set up, not what the
kernel then runs. `CHECK_DEADLOCK FALSE` stands
where the program may really stop: goroutines parked for ever on a channel or a
condition, or a scheduler that has reported that all goroutines are asleep.

Type invariants are stated in the modules that are proved about, where they are
part of the induction; the runs spend their properties elsewhere.

## 5. What is proved

Each theorem holds for every value of the constants that satisfies the
assumptions named in the module: any set of threads, goroutines or timers, any
spin count, any number of Ps and Ms. What the assumptions ask beyond kinds (and
that the value for "nobody" is not a thread): `RWMutex` has finitely many goroutines,
fewer than `rwmutexMaxReaders`, as the code presumes; a `RunQueue` ring has an even
size that divides `Wrap` (256 and 2^32 in the code), there are finitely many Ps, and
the puts on a queue are bounded so that its 32-bit indices do not come all the way
round while a thief sleeps (a thief that did see the same head again after 2^32 puts
would be fooled; the code accepts that). `Sched` has finitely many threads, more
than goroutines, and local queues of two or more. A step that
would create a thread beyond those is disabled; as the theorems hold for any finite
number of threads, and a behaviour has created finitely many at each moment, they
cover code that creates as many as it wants. `Goroutines` are finitely many, which only the
proofs about `WaitGroup` and `Cond` use, since their properties count them.

- **Runtime lock.** `MutualExclusion` is not inductive: it needs the fact that the
  key is `mutex_unlocked` exactly while nobody holds the lock (`KeyHeld`, which is
  also why `unlock` never throws), and `NoLostWakeup` needs that a thread which
  has slept, or is about to, has `mutex_sleeping` in its local `wait` (`WaitSet`). `IndInv` is their
  conjunction with `TypeOK`. From it: `LockExcludes`, `UnlockNeverThrows`,
  `SleepersAreWoken`, and `LockRefines` - every step is a step of `AbstractLock`
  or a stutter, with the holder as the abstract owner.
- **`sync.Mutex`.** `IndInv` joins `TypeOK`, exclusion, `LockedHeld` (the locked bit
  is set exactly while somebody holds the mutex) and `NoLostWakeup`: a free
  mutex with waiters and no wakeup under way is being unlocked by a goroutine
  whose `old` is the current state, so that its `cas` succeeds. From it:
  `MutexExcludes`, `MutexWakes`, `MutexRefines`.
- **`sync.WaitGroup`.** `GroupWaitSawZero`. What could go wrong is that a wakeup of one round
  is taken by a waiter of the next, so `GroupCounts` accounts for the semaphores one by
  one: one that was dropped holds a wakeup for each of its waiters; the current one holds
  none and `wg.waiters` is the number of goroutines on it or about to be, except while
  a `Done` releases them, and then its count and what is `left` add up to them.
  `GroupZeros` then says that whoever is on a dropped semaphore, or on the current one during a release,
  has seen the counter at 0. A new semaphore is unreferenced because there is one
  more than there are goroutines.
- **`sync.Cond` with the synchronous semaphore.** `CondSignalsMatched`. The account is itself
  inductive (`CondMatched`) once each goroutine in the queue is there once and parked, an acquirer in
  `Wait` and a releaser in `Signal` (`CondQueue`), and only a signaller on its way to the
  semaphore carries wakeups (`CondCalls`). The wakeups are counted as a set of pairs
  (signaller, number) rather than as a sum, so that a step adds or removes pairs: a successful `cas`
  takes as many pairs as it takes waiters off the count, an acquire removes one of the
  releaser at the head, and a release wakes the prefix of acquirers at the head and
  leaves the rest of its pairs in the queue.
- **Timers.** `WakesOnce`: `notewakeup` never throws in `addtimer`, whatever the heap
  does. `NoteInv` adds to `WakeOnce` that the note is clear while `sleeping` is
  set; timerproc sets the two together, and `addtimer` gives up both.
  `TimersInOrder` and `RemovedKeeps` are about the heap, of any size. The functions that
  give the way up or down from a place (`Above`, `Below`) are recursive; that the
  definitions have a solution, and that a sift rotates the timers on this way and nothing
  else, is shown by least counterexample (`WaysExist`, `Rotates`). A sift up
  restores the order of a heap that is in order *around* one place (`UpOrders`), and
  likewise down (`DownOrders`); in `deltimer` the timer that fills the gap does at most one
  of the two. `TimersNeverOversleep` rests on it, since timerproc looks at the first timer
  only: `SleepInv` says that from the moment it has decided until its note is woken
  `sleeping` is set and no timer is due before the instant it aims at, as `addtimer` wakes the note for
  an earlier one, and that an idle timerproc has an empty heap.
- **`sync.RWMutex` with the runtime's semaphores.** `RWMutexExcludes`, `RWMutexDrains`,
  `RWMutexMissesNoWakeup`, `RWMutexReadiesOnce`. Nothing here follows from the lock or the semaphore
  alone, so `IndInv` has a part for each. `SemaInv`: who may be in which call and
  hold the root's lock, a parked goroutine is on the queue once or in the hands of
  one `semrelease`, `nwait` is the number of goroutines under the lock or queued
  (so that a release which reads 0 without the lock misses nobody), and while
  somebody waits, the count is at most the number of calls that still owe an
  attempt (`WakeupInv`, which is what makes `NoMissedWakeup` inductive). The lock's part is an
  account: `CountInv` says that `readerCount` is the readers inside and blocked, less the
  writer's offset, and `StageInv` what `readerWait` and the two semaphores
  must be at each stage of the writer - between its two adjustments `readerWait`
  may be negative, and the sum with the `r` it is about to add is what counts.
- **Network poller.** `PollerNeverThrows`, `PollerForgetsNobody`, `PollerTimeoutHonest`.
  `SemaphoreInv` says where a goroutine is for each value of `rg` and `wg`, and that a parked
  one is in its semaphore or with exactly one thread; `TimersInv` that a timer, or a
  callback under way, whose `seq` is current carries the deadline that is set, so
  that a stale one is recognised; `WakeupInv` that a goroutine past its recheck is
  awaited by every thread that has since made it fail, and that readiness which came
  after its last system call is in epoll, with the poller or in the semaphore.
  `ThreadsInv` and `LifeInv` (`pd.lock` excludes; nobody is in a free descriptor)
  hold the induction up.
- **Scheduler.** `SchedOneOwner`: a P that runs or idles is with one thread or on
  `pidle`. `SchedStopReaches`: stopping the world never waits for a P that nobody
  will stop. They need what each M's P is to it at each place (`PlaceInv`), and of
  the world (`WorldInv`) that `stopwait` is the number of Ps not yet stopped, and
  that a P in a system call is still to be swept by the stopper or has a thread that
  will look at `gcwaiting` - the race between `entersyscall` and `stoptheworld`.
  Both are about Ps only, so the lengths of queues play no part in them.
  `SchedStrandsNothing`, `SchedConservesWork` and `SchedNeverThrows` do depend on the queues;
  `LoadInv` is what they add to the induction. `CountInv`: every goroutine waits, is on a
  queue or has a thread, which makes the counts of `checkdead` mean something.
  `EmptyInv`: an idle or dead P has an empty queue, and so has the P of a thread that spins
  or is giving its P up. `GlobalInv`: the global queue is empty while all Ps idle.
  `SpinInv`: `nmspinning` is the number of threads that spin or are about to start one
  that will. And `WorkInv`: while a P idles that `handoffp` did not put there, every
  queue with more than its own thread is about to run is *watched* - by a thread that
  still looks for work, or will have somebody look, or is rechecking the queues and
  has not come to this one yet. That is the argument of the comment in
  `findrunnable` and `resetspinning`, made for every interleaving. `NeverThrows` needs three
  more facts: a P in a system call was left there by some thread (`AwayInv`, so that
  somebody counts as running), `stopnote` is woken once (`NoteInv`), and sysmon counts as
  running from `retake`'s first step to its last (`LockedInv`). The checks on an M and the
  P it takes, gives up or is started with follow from `PlaceInv`, `OwnerInv` and `SpinInv`.
- **Run queues.** `RunqNeverOverflows` (with the check of `runqputslow` that half a
  queue is what it moves), `RunqNeverLocksTwice`, `RunqOnePlace`. Indices are counted from
  where they started (`Pos`), since modulo `Wrap` they have no order. `IndexInv` bounds
  them with what the owner is still going to put; `CallInv` says for each place what
  the P knows: an old head is at most the head, a tail it reads as owner is the
  tail, and a thief's copies are what the queue holds *if the head has not moved* -
  that is, unless its `cas` is going to fail. `OnePlace` is stated as the set of places
  a goroutine is in having one element; it is proved from `PlaceInv` (there is a place
  `x` such that the goroutine is in `x` and in no other), action by action, a batch
  of copies being no place until the `cas` has succeeded.
- **Channels and select.** `SelectNeverThrows`, `SelectForgetsNobody`, `SelectNoLockCircle`,
  `SelectIsFifo`, `SelectFastPathHonest`, `SelectExactlyOnce`, for any number of goroutines,
  channels, capacities and cases. `CallsInv` says what kind of call can be where, `LocksInv` that a select which is taking locks holds the lowest of those it wants
  (from which `NoLockCircle` follows: the next lock a goroutine waits for is greater than
  all it holds, so of goroutines that wait for each other the one holding the greatest
  channel waited for would wait for a greater one). That nobody is woken twice is about who may signal a goroutine: a sudog
  on a queue belongs to a case of a goroutine that is parked, or of a select already
  signalled (`QueuedInv`); only a select is on a queue twice (`OnceInv`); a sudog taken
  off to be signalled after the unlock is parked, with one goroutine only, and can be
  signalled by no channel any more, since it is on no queue or `selectdone` is set
  (`WakeInv`); and `param` tells a woken goroutine what happened, so that nil means closed,
  or a buffer that moved (`ParamInv`). `WaitersInv` is `NobodyForgotten` for whoever holds the lock, except
  the goroutine that is closing. The steps fall into five kinds (go on, claim, release, signal,
  park); each kind is shown to keep the invariant, and each action to be of a
  kind. The assumptions: finitely many channels, and calls as the compiler makes them (a plain
  call has one case, a select neither closes nor is empty). The two action
  properties rest on one lemma about all the actions (`StepMoves`): a step keeps a
  buffer, puts one element or gets one, and never opens a channel. With it the buffer
  always ends where the next element goes (`BufferInv`, `sendx` is `recvx + qcount`
  wrapped once), so a put is an append and a get a tail; and a receive between its
  two unlocked reads has seen an open channel with nothing to receive, or the channel
  is closed (`FastInv`). That values are handed over exactly once is about where each
  value is (`ValueInv`): in one slot of one buffer, or with one goroutine, or received
  once, if it has been *given*, and in no such place otherwise (`PlaceInv`). A value is given
  when its send has returned, and already while the sender is on its way back, served by a
  receiver that came later (`param`) or about to ready one (`wake`). This needs that
  every send has a value of its own, unsent until it returns (`NumberInv`); that a goroutine
  holds a value only after it was served, and `param` is set by synchronous channels only
  (`HandInv`); that the two sides of a rendezvous have opposite cases (`PeerInv`); and
  that the slots outside the buffer's content are cleared (`ClearInv`), so that counting
  slots is counting positions of the content.

Every safety property of a passing run is the statement of a theorem. Only
model-checked: liveness (`AllServed`, `WriterServed`, `AllReleased`, `SignalReturns`, `DueFires`
and the others stated with `~>` or `<>`), which is out of the prover's reach. The
library's induction theorems are as well, so where a proof needs an induction (the
heap, a batch of copies, a prefix of a queue) it takes a least counterexample instead, which
well-foundedness of `<` on the naturals provides.

## 6. Where the code and its documentation differ

- `cond_broadcast`: `Broadcast` "wakes all goroutines waiting on c"
  (`sync/cond.go:74`), but hands out as many wakeups as there were waiters, to
  whoever reaches the semaphore first. A goroutine that called `Wait` after the
  broadcast can take one that was meant for a goroutine that called before it.
- `select_available`: a receive "blocks until a value is available" (language
  specification), but a select woken for a value in a buffer may take another
  case; the wakeup is spent, and a receiver queued behind it stays parked
  beside the value.
- Noted while modelling, without a run. `handoffp` says of a P without local work that
  "our help is not required" when there are spinning Ms or idle Ps
  (`runtime/proc.c:1249`). The idle P it saw may be taken, and its new M find
  work and queue more, before `handoffp` puts its own P on the idle list: the work
  then waits beside an idle P until something else wakes an M. The same holds for a
  goroutine that `gosched_m` puts on the global queue, which wakes nobody.
  `WorkConserving` therefore exempts Ps put there by `handoffp`, and speaks of local
  queues; `NoStranded` has neither exception. The comment at `runtime/chan.go:105-113` argues
  that a closed channel cannot go from ready for sending to not ready; for a
  synchronous channel it can, since `closechan` removes the waiting
  receivers, so a non-blocking send may return false where no moment of the
  call had an open channel that was not ready. `FastPathHonest` therefore
  speaks of receives. And `runtime/netpoll.go:53,68` say that `seq` protects from
  stale ready notifications; `netpollready` does not look at `seq`, a stale
  event makes the new owner's wait return once for nothing, and package `net`
  retries. `runtime·atomicstoreuintptr` of the port (`asm_mips32x.s:423`) jumps to
  `atomicload`; nothing on Linux calls it.

## 7. What is not modelled

- The port's atomics, the lock-free stack, the signal queue and the parallel for
  (item 10 of the plan). Every other module takes an atomic operation as one step.
- Of the scheduler, what section 3 names; of preemption, when a request is
  sent and how `stackguard0` carries it; of notes, `notesleep`, which `Sched` has
  by its effect; of the timers, the fake time of the playground.
- `sync.Once` and `sync.Pool`: a mutex and a flag, and a cache that may drop
  anything at any time.
- The allocator and the collector, whose state is the heap; stacks, panics,
  maps and strings, which are sequential; compilers, linkers, the rest of the
  library, documents and tests. This is by far the largest part of the tree
  by lines, and it has none of the interleavings the modules here are about.

`PROJECT.json` lists each with its reason.
