--------------------------- MODULE PollDescProofs ---------------------------
(***************************************************************************)
(* For every set of callers, deadlines and users, and every bound on seq:  *)
(* the poller never throws, forgets no goroutine it has parked, and a      *)
(* timer expires no deadline but its own.                                  *)
(***************************************************************************)
EXTENDS PollDesc, TLAPS

Places == {"none", "idle", "reset", "clear", "io", "wait", "block", "take",
           "recheck", "park", "parked", "swap", "recheckerr"}

ThreadState ==
  [pc: {"idle", "set", "evict", "unblock", "ready", "fire"},
   todo: SUBSET Modes, rdy: SUBSET Modes, d: Int, seq: Nat, modes: SUBSET Modes]

TypeOK ==
  /\ life \in {"open", "closed", "free"}
  /\ closing \in BOOLEAN
  /\ seq \in Nat
  /\ gpp \in [Modes -> {nil, pdReady, pdWait, G}]
  /\ dl \in [Modes -> Int]
  /\ timer \in [Modes -> [f: SUBSET Modes, when: Int, seq: Nat]]
  /\ armed \subseteq Modes
  /\ pc \in [Modes -> Places]
  /\ io \in [Modes -> BOOLEAN]
  /\ ev \in [Modes -> BOOLEAN]
  /\ thr \in [Threads -> ThreadState]
  /\ bad \in BOOLEAN

\* Where each thread may be, what it holds there, and that pd.lock excludes.
ThreadsInv ==
  /\ thr[Poller].pc \in {"idle", "unblock", "ready"}
  /\ thr[Timerproc].pc \in {"idle", "fire", "unblock", "ready"}
  /\ \A t \in Callers : thr[t].pc # "fire"
  /\ \A t \in Threads :
       /\ thr[t].pc = "idle" => thr[t] = Idle
       /\ thr[t].pc # "unblock" => thr[t].todo = {}
       /\ thr[t].pc \notin {"unblock", "ready"} => thr[t].rdy = {}
       /\ thr[t].pc = "ready" => thr[t].rdy # {}
  /\ \A t, u \in Threads \ {Poller} :
       thr[t].pc = "unblock" /\ thr[u].pc = "unblock" => t = u

\* A semaphore says that its goroutine waits only where it does; a parked
\* goroutine is in its semaphore or in the hands of exactly one thread.
SemaphoreInv ==
  \A m \in Modes :
    /\ gpp[m] = pdWait => pc[m] \in {"recheck", "park", "swap"}
    /\ gpp[m] = G => pc[m] = "parked"
    /\ pc[m] = "parked" => gpp[m] = G \/ \E t \in Threads : m \in thr[t].rdy
    /\ \A t \in Threads : m \in thr[t].rdy => pc[m] = "parked" /\ gpp[m] # G
    /\ \A t, u \in Threads : m \in thr[t].rdy /\ m \in thr[u].rdy => t = u

\* An open descriptor is not closing, a closed one is closing or has its
\* evicter still to come, and nobody is in a free one.
LifeInv ==
  /\ life = "open" => ~closing
  /\ \A t \in Callers : thr[t].pc = "evict" => life = "closed" /\ ~closing
  /\ \A t, u \in Callers : thr[t].pc = "evict" /\ thr[u].pc = "evict" => t = u
  /\ life = "closed" /\ ~closing => \E t \in Callers : thr[t].pc = "evict"
  /\ life = "free" => \A m \in Modes : pc[m] \in {"idle", "none"}
  /\ life = "free" => \A t \in Callers : thr[t].pc = "idle"

\* A timer with an f and the current seq carries the deadline of the modes it
\* expires, and a callback under way with the current seq is that of such a
\* timer, no longer in the heap.
TimersInv ==
  /\ \A m \in armed : timer[m].f # {}
  /\ \A m \in Modes : timer[m].f # {} =>
       /\ \/ timer[m].f = {m}
          \/ m = "r" /\ timer[m].f = Modes /\ timer["w"].f = {}
       /\ timer[m].when > 0
       /\ timer[m].seq <= seq
       /\ timer[m].seq = seq => \A k \in timer[m].f : dl[k] = timer[m].when
  /\ thr[Timerproc].pc = "fire" =>
       /\ thr[Timerproc].seq <= seq
       /\ thr[Timerproc].modes # {}
       /\ thr[Timerproc].seq = seq =>
            LET m == Next1(thr[Timerproc].modes) IN
            /\ timer[m].f = thr[Timerproc].modes
            /\ timer[m].seq = seq
            /\ timer[m].when = thr[Timerproc].d
            /\ m \notin armed

\* A goroutine that has announced itself past its recheck is awaited by every
\* thread that makes it fail; and readiness that came after its last system
\* call is in epoll, with the poller or in the semaphore.
WakeupInv ==
  \A m \in Modes :
    /\ gpp[m] = G \/ (pc[m] = "park" /\ gpp[m] = pdWait) =>
         (checkerr(m) => \E t \in Threads : m \in thr[t].todo)
    /\ /\ pc[m] \in {"wait", "block", "recheck", "park", "parked", "swap",
                     "recheckerr"}
       /\ io[m]
       => gpp[m] = pdReady \/ ev[m] \/ m \in thr[Poller].todo

IndInv ==
  /\ TypeOK /\ ~bad
  /\ ThreadsInv /\ SemaphoreInv /\ LifeInv /\ TimersInv /\ WakeupInv

USE PollAssumption
    DEF Modes, nil, pdReady, pdWait, G, Timerproc, Poller, Threads, desc, Goto

----------------------------------------------------------------------------
(* What the helpers return *)

LEMMA IdleType == Idle \in ThreadState
  BY DEF Idle, ThreadState

\* What the threads do to their states keeps the type.
LEMMA UpdateType ==
  ASSUME NEW x \in ThreadState, NEW ms \in SUBSET Modes
  PROVE  /\ [x EXCEPT !.pc = "ready", !.rdy = ms] \in ThreadState
         /\ [x EXCEPT !.pc = "unblock", !.todo = ms] \in ThreadState
         /\ [x EXCEPT !.rdy = ms] \in ThreadState
         /\ \A n \in Nat, d \in Int :
              [x EXCEPT !.pc = "fire", !.modes = ms, !.seq = n, !.d = d]
                \in ThreadState
  BY DEF ThreadState

\* A thread that takes on the unblocking of ms.
LEMMA TodoType ==
  ASSUME TypeOK, NEW t \in Threads, NEW ms \in SUBSET Modes,
         thr' = [thr EXCEPT ![t].pc = "unblock", ![t].todo = ms]
  PROVE  thr' \in [Threads -> ThreadState]
  BY DEF TypeOK, ThreadState

\* A thread that is set to a state of its type.
LEMMA SetType ==
  ASSUME TypeOK, NEW t \in Threads, NEW x \in ThreadState,
         thr' = [thr EXCEPT ![t] = x]
  PROVE  thr' \in [Threads -> ThreadState]
  BY DEF TypeOK

\* What the timers of netpollSetDeadline are: each has the new seq and the
\* new deadline of every mode it expires, and a common timer is the reader's.
TimersFor(tms, newdl, newseq) ==
  /\ tms \in [Modes -> [f: SUBSET Modes, when: Int, seq: Nat]]
  /\ \A m \in Modes : tms[m].f # {} =>
       /\ \/ tms[m].f = {m}
          \/ m = "r" /\ tms[m].f = Modes /\ tms["w"].f = {}
       /\ tms[m].when > 0
       /\ tms[m].seq = newseq
       /\ \A k \in tms[m].f : newdl[k] = tms[m].when

LEMMA TimersFacts ==
  ASSUME NEW newdl \in [Modes -> Int], NEW newseq \in Nat
  PROVE  TimersFor(Timers(newdl, newseq), newdl, newseq)
  <1> DEFINE both == newdl["r"] > 0 /\ newdl["r"] = newdl["w"]
             f(m) == IF both THEN IF m = "r" THEN Modes ELSE {}
                     ELSE IF newdl[m] > 0 THEN {m} ELSE {}
             tm(m) == IF f(m) = {} THEN NoTimer
                      ELSE [f |-> f(m), when |-> newdl[m], seq |-> newseq]
  <1>1. Timers(newdl, newseq) = [m \in Modes |-> tm(m)]
    BY DEF Timers
  <1>2. \A m \in Modes : f(m) \in SUBSET Modes
    OBVIOUS
  <1>3. \A m \in Modes : tm(m) \in [f: SUBSET Modes, when: Int, seq: Nat]
    BY <1>2 DEF NoTimer
  <1>4. \A m \in Modes : tm(m).f = f(m)
    BY DEF NoTimer
  <1>5. \A m \in Modes : f(m) # {} => tm(m).when = newdl[m] /\ tm(m).seq = newseq
    OBVIOUS
  <1> HIDE DEF tm
  <1>6. ASSUME NEW m \in Modes, tm(m).f # {}
        PROVE  /\ tm(m).f = {m} \/ (m = "r" /\ tm(m).f = Modes /\ tm("w").f = {})
               /\ tm(m).when > 0
               /\ tm(m).seq = newseq
               /\ \A k \in tm(m).f : newdl[k] = tm(m).when
    BY <1>4, <1>5, <1>6
  <1> QED
    BY <1>1, <1>3, <1>6 DEF TimersFor

----------------------------------------------------------------------------
(* The initial states *)

LEMMA InitInv == Init => IndInv
  <1> SUFFICES ASSUME Init PROVE IndInv
    OBVIOUS
  <1>1. TypeOK
    <2>1. pc \in [Modes -> Places] /\ thr \in [Threads -> ThreadState]
      BY IdleType DEF Init, Places
    <2>2. NoTimer \in [f: SUBSET Modes, when: Int, seq: Nat]
      BY DEF NoTimer
    <2>3. timer \in [Modes -> [f: SUBSET Modes, when: Int, seq: Nat]]
      BY <2>2 DEF Init
    <2>4. io \in [Modes -> BOOLEAN] /\ ev \in [Modes -> BOOLEAN]
      BY Zenon DEF Init
    <2>5. gpp \in [Modes -> {nil, pdReady, pdWait, G}] /\ dl \in [Modes -> Int]
      BY DEF Init
    <2>6. /\ life \in {"open", "closed", "free"} /\ closing \in BOOLEAN
          /\ seq \in Nat /\ armed \subseteq Modes /\ bad \in BOOLEAN
      BY DEF Init
    <2> QED
      BY <2>1, <2>3, <2>4, <2>5, <2>6 DEF TypeOK
  <1>2. \A t \in Threads : thr[t] = Idle
    BY DEF Init
  <1>3. ThreadsInv /\ SemaphoreInv /\ LifeInv /\ TimersInv /\ WakeupInv /\ ~bad
    BY <1>2 DEF Init, ThreadsInv, SemaphoreInv, LifeInv, TimersInv, WakeupInv,
                Idle, NoTimer
  <1> QED
    BY <1>1, <1>3 DEF IndInv

----------------------------------------------------------------------------
(* The steps *)

LEMMA NextType == IndInv /\ [Next]_vars => TypeOK'
  <1> SUFFICES ASSUME IndInv, [Next]_vars PROVE TypeOK'
    OBVIOUS
  <1> USE DEF IndInv, TypeOK
  <1>1. ASSUME NEW m \in Modes, ReadLock(m) \/ GStep(m) \/ Arrive(m)
        PROVE  TypeOK'
    <2>1. CASE ReadLock(m) \/ Reset(m) \/ Wait(m) \/ Recheck(m) \/ WaitAgain(m)
      <3>1. pc' \in [Modes -> Places]
        BY <2>1 DEF ReadLock, Reset, Wait, Recheck, WaitAgain, Places
      <3> QED
        BY <2>1, <3>1 DEF ReadLock, Reset, Wait, Recheck, WaitAgain
    <2>2. CASE ResetStore(m)
      BY <2>2 DEF ResetStore, Places
    <2>3. CASE Syscall(m)
      BY <2>3 DEF Syscall, Places
    <2>4. CASE Block(m)
      BY <2>4 DEF Block, Places
    <2>5. CASE Take(m)
      BY <2>5 DEF Take, Places
    <2>6. CASE BlockCommit(m)
      BY <2>6 DEF BlockCommit, Places
    <2>7. CASE Swap(m)
      BY <2>7 DEF Swap, Places
    <2>8. CASE Arrive(m)
      BY <2>8 DEF Arrive, Places
    <2> QED
      BY <1>1, <2>1, <2>2, <2>3, <2>4, <2>5, <2>6, <2>7, <2>8 DEF GStep
  <1>2. ASSUME NEW t \in Threads, netpollunblock(t)
        PROVE  TypeOK'
    BY <1>2 DEF netpollunblock, Next1, ThreadState
  <1>3. ASSUME NEW t \in Threads, Unlock(t)
        PROVE  TypeOK'
    <2>1. thr[t].rdy \in SUBSET Modes
      BY DEF ThreadState
    <2>2. [Idle EXCEPT !.pc = "ready", !.rdy = thr[t].rdy] \in ThreadState
      BY <2>1, IdleType, UpdateType
    <2> QED
      BY <1>3, <2>2, IdleType DEF Unlock
  <1>4. ASSUME NEW t \in Threads, Goready(t)
        PROVE  TypeOK'
    <2> DEFINE m == Next1(thr[t].rdy)
    <2>1. m \in Modes /\ thr[t].rdy \ {m} \in SUBSET Modes
      BY DEF ThreadState, Next1
    <2>2. [thr[t] EXCEPT !.rdy = thr[t].rdy \ {m}] \in ThreadState
      BY <2>1, UpdateType
    <2> HIDE DEF m
    <2>3. thr' \in [Threads -> ThreadState]
      <3> DEFINE x == IF thr[t].rdy = {m} THEN Idle
                      ELSE [thr[t] EXCEPT !.rdy = thr[t].rdy \ {m}]
      <3>1. x \in ThreadState
        BY <2>2, IdleType
      <3>2. thr' = [thr EXCEPT ![t] = x]
        BY <1>4 DEF Goready, m
      <3> QED
        BY <3>1, <3>2, SetType
    <2>4. pc' \in [Modes -> Places]
      BY <1>4, <2>1 DEF Goready, Places, m
    <2> QED
      BY <1>4, <2>3, <2>4 DEF Goready
  <1>5. ASSUME NEW t \in Callers, SetDeadlineCall(t) \/ Close(t)
        PROVE  TypeOK'
    BY <1>5 DEF SetDeadlineCall, Close, ThreadState
  <1>6. ASSUME NEW t \in Callers, SetDeadline(t)
        PROVE  TypeOK'
    <2>1. CASE closing
      BY <1>6, <2>1, IdleType DEF SetDeadline
    <2>2. CASE ~closing
      <3>1. dl' \in [Modes -> Int] /\ seq' \in Nat
        BY <1>6, <2>2 DEF SetDeadline
      <3>2. timer' \in [Modes -> [f: SUBSET Modes, when: Int, seq: Nat]]
        BY <1>6, <2>2, <3>1, TimersFacts DEF SetDeadline, TimersFor
      <3>3. thr' \in [Threads -> ThreadState]
        BY <1>6, <2>2 DEF SetDeadline, ThreadState
      <3> QED
        BY <1>6, <2>2, <3>1, <3>2, <3>3 DEF SetDeadline, deltimers
    <2> QED
      BY <2>1, <2>2
  <1>7. ASSUME NEW t \in Callers, Evict(t)
        PROVE  TypeOK'
    <2>1. thr' \in [Threads -> ThreadState]
      BY <1>7, UpdateType DEF Evict, Evicting
    <2>2. timer' \in [Modes -> [f: SUBSET Modes, when: Int, seq: Nat]]
      BY <1>7 DEF Evict, Evicting, NoTimer
    <2> QED
      BY <1>7, <2>1, <2>2 DEF Evict, Evicting, deltimers
  <1>8. CASE NetpollClose
    BY <1>8 DEF NetpollClose
  <1>9. CASE NetpollOpen
    <2>1. io' \in [Modes -> BOOLEAN] /\ ev' \in [Modes -> BOOLEAN]
      BY <1>9, Zenon DEF NetpollOpen
    <2>2. gpp' \in [Modes -> {nil, pdReady, pdWait, G}] /\ dl' \in [Modes -> Int]
      BY <1>9 DEF NetpollOpen
    <2>3. seq' \in Nat /\ bad' \in BOOLEAN
      BY <1>9 DEF NetpollOpen
    <2>4. /\ life' = "open" /\ closing' = FALSE
          /\ UNCHANGED <<timer, armed, pc, thr>>
      BY <1>9 DEF NetpollOpen
    <2> QED
      BY <2>1, <2>2, <2>3, <2>4
  <1>10. CASE TimerFires
    <2>1. PICK m \in armed :
            thr' = [thr EXCEPT ![Timerproc] =
                      [Idle EXCEPT !.pc = "fire", !.modes = timer[m].f,
                                   !.seq = timer[m].seq, !.d = timer[m].when]]
      BY <1>10 DEF TimerFires
    <2>2. timer[m].f \in SUBSET Modes /\ timer[m].seq \in Nat /\ timer[m].when \in Int
      OBVIOUS
    <2>3. thr' \in [Threads -> ThreadState]
      <3> DEFINE x == [Idle EXCEPT !.pc = "fire", !.modes = timer[m].f,
                                   !.seq = timer[m].seq, !.d = timer[m].when]
      <3>1. x \in ThreadState
        BY ONLY <2>2, IdleType, UpdateType
      <3> HIDE DEF x
      <3>2. thr' = [thr EXCEPT ![Timerproc] = x]
        BY <2>1 DEF x
      <3> QED
        BY <3>1, <3>2
    <2> QED
      BY <1>10, <2>3 DEF TimerFires
  <1>11. CASE DeadlineImpl
    <2> DEFINE ms == thr[Timerproc].modes
    <2>1. ms \in SUBSET Modes
      BY DEF ThreadState
    <2>2. [Idle EXCEPT !.pc = "unblock", !.todo = ms] \in ThreadState
      BY <2>1, IdleType, UpdateType
    <2>3. CASE thr[Timerproc].seq # seq
      BY <1>11, <2>3, IdleType DEF DeadlineImpl
    <2>4. CASE thr[Timerproc].seq = seq
      <3>1. thr' \in [Threads -> ThreadState]
        <4>1. thr' = [thr EXCEPT ![Timerproc] = [Idle EXCEPT !.pc = "unblock",
                                                             !.todo = ms]]
          BY <1>11, <2>4, Zenon DEF DeadlineImpl, Expire
        <4> QED
          BY <2>2, <4>1, SetType
      <3>2. timer' \in [Modes -> [f: SUBSET Modes, when: Int, seq: Nat]]
        BY <1>11, <2>4 DEF DeadlineImpl, Expire, NoTimer
      <3>3. dl' \in [Modes -> Int]
        BY <1>11, <2>4 DEF DeadlineImpl, Expire
      <3>4. bad' \in BOOLEAN
        BY <1>11, <2>4, Zenon DEF DeadlineImpl, Expire
      <3> QED
        BY <1>11, <3>1, <3>2, <3>3, <3>4 DEF DeadlineImpl
    <2> QED
      BY <2>3, <2>4
  <1>12. CASE Poll
    <2> DEFINE ms == {m \in Modes : ev[m]}
    <2>1. ms \in SUBSET Modes /\ Poller \in Threads
      OBVIOUS
    <2>2. thr' \in [Threads -> ThreadState]
      <3>1. thr' = [thr EXCEPT ![Poller].pc = "unblock", ![Poller].todo = ms]
        BY <1>12 DEF Poll
      <3> HIDE DEF ms
      <3> QED
        BY <2>1, <3>1, TodoType, Zenon
    <2> QED
      BY <1>12, <2>2 DEF Poll
  <1>13. CASE UNCHANGED vars
    BY <1>13 DEF vars
  <1> QED
    BY <1>1, <1>2, <1>3, <1>4, <1>5, <1>6, <1>7, <1>8, <1>9, <1>10, <1>11, <1>12,
       <1>13
       DEF Next, TStep, CStep

\* What timerproc's callback does: nothing if seq has moved on, else it expires
\* the deadlines its timer was set for and has their goroutines to unblock.
LEMMA CallbackStep ==
  ASSUME IndInv, DeadlineImpl
  PROVE  /\ thr[Timerproc].pc = "fire" /\ ~Locked
         /\ \A t \in Threads \ {Timerproc} : thr'[t] = thr[t]
         /\ \/ /\ thr'[Timerproc] = Idle
               /\ UNCHANGED <<dl, timer, bad>>
            \/ /\ thr[Timerproc].seq = seq
               /\ thr'[Timerproc].pc = "unblock"
               /\ thr'[Timerproc].todo = thr[Timerproc].modes
               /\ thr'[Timerproc].rdy = {}
               /\ Expire
  <1> USE DEF IndInv, TypeOK
  <1> DEFINE x == [Idle EXCEPT !.pc = "unblock", !.todo = thr[Timerproc].modes]
  <1>1. x.pc = "unblock" /\ x.todo = thr[Timerproc].modes /\ x.rdy = {}
    BY DEF Idle
  <1> HIDE DEF x
  <1>2. CASE thr[Timerproc].seq # seq
    BY <1>2 DEF DeadlineImpl
  <1>3. CASE thr[Timerproc].seq = seq
    <2>1. Expire
      BY <1>3 DEF DeadlineImpl
    <2>2. thr' = [thr EXCEPT ![Timerproc] = x]
      BY <2>1, Zenon DEF Expire, x
    <2> QED
      BY <1>1, <1>3, <2>1, <2>2 DEF DeadlineImpl
  <1> QED
    BY <1>2, <1>3

LEMMA NextThreads == IndInv /\ [Next]_vars => ThreadsInv'
  <1> SUFFICES ASSUME IndInv, [Next]_vars PROVE ThreadsInv'
    OBVIOUS
  <1> USE DEF IndInv, TypeOK, ThreadsInv
  <1>1. CASE UNCHANGED thr
    BY <1>1
  <1>2. ASSUME NEW t \in Threads, netpollunblock(t)
        PROVE  ThreadsInv'
    BY <1>2 DEF netpollunblock, ThreadState
  <1>3. ASSUME NEW t \in Threads, Unlock(t)
        PROVE  ThreadsInv'
    BY <1>3 DEF Unlock, Idle, ThreadState
  <1>4. ASSUME NEW t \in Threads, Goready(t)
        PROVE  ThreadsInv'
    BY <1>4 DEF Goready, Idle, Next1, ThreadState
  <1>5. ASSUME NEW t \in Callers, SetDeadlineCall(t) \/ Close(t)
        PROVE  ThreadsInv'
    BY <1>5 DEF SetDeadlineCall, Close, Idle, ThreadState
  <1>6. ASSUME NEW t \in Callers, SetDeadline(t)
        PROVE  ThreadsInv'
    <2>1. CASE closing
      <3>1. thr' = [thr EXCEPT ![t] = Idle]
        BY <1>6, <2>1 DEF SetDeadline
      <3> QED
        BY <3>1 DEF Idle
    <2>2. CASE ~closing
      BY <1>6, <2>2 DEF SetDeadline, Locked, ThreadState
    <2> QED
      BY <2>1, <2>2
  <1>7. ASSUME NEW t \in Callers, Evict(t)
        PROVE  ThreadsInv'
    BY <1>7 DEF Evict, Evicting, Locked, ThreadState
  <1>8. CASE TimerFires
    BY <1>8 DEF TimerFires, Idle, ThreadState
  <1>9. CASE DeadlineImpl
    BY <1>9, CallbackStep DEF Locked, Idle, ThreadState
  <1>10. CASE Poll
    BY <1>10 DEF Poll, Idle, ThreadState
  <1> QED
    BY <1>1, <1>2, <1>3, <1>4, <1>5, <1>6, <1>7, <1>8, <1>9, <1>10
       DEF Next, GStep, TStep, CStep, ReadLock, Reset, ResetStore, Syscall, Wait,
           Block, Take, Recheck, BlockCommit, Swap, WaitAgain, Arrive,
           NetpollClose, NetpollOpen, vars

LEMMA NextLife == IndInv /\ [Next]_vars => LifeInv'
  <1> SUFFICES ASSUME IndInv, [Next]_vars PROVE LifeInv'
    OBVIOUS
  <1> USE DEF IndInv, TypeOK, ThreadsInv, LifeInv
  <1>1. ASSUME NEW m \in Modes, ReadLock(m) \/ GStep(m) \/ Arrive(m)
        PROVE  LifeInv'
    <2>1. UNCHANGED <<life, closing, thr>>
      BY <1>1 DEF GStep, ReadLock, Reset, ResetStore, Syscall, Wait, Block, Take,
                  Recheck, BlockCommit, Swap, WaitAgain, Arrive
    <2>2. life = "free" => UNCHANGED pc
      BY <1>1 DEF GStep, ReadLock, Reset, ResetStore, Syscall, Wait, Block, Take,
                  Recheck, BlockCommit, Swap, WaitAgain, Arrive
    <2> QED
      BY <2>1, <2>2
  <1>2. ASSUME NEW t \in Threads, TStep(t)
        PROVE  LifeInv'
    <2>1. netpollunblock(t) => LifeInv'
      BY DEF netpollunblock, ThreadState
    <2>2. Unlock(t) => LifeInv'
      BY DEF Unlock, Idle, ThreadState
    <2>3. Goready(t) => LifeInv'
      BY DEF Goready, Idle, Next1, ThreadState, SemaphoreInv
    <2> QED
      BY <1>2, <2>1, <2>2, <2>3 DEF TStep
  <1>3. ASSUME NEW t \in Callers, SetDeadlineCall(t) \/ Close(t)
        PROVE  LifeInv'
    BY <1>3 DEF SetDeadlineCall, Close, Idle, ThreadState
  <1>4. ASSUME NEW t \in Callers, SetDeadline(t)
        PROVE  LifeInv'
    BY <1>4 DEF SetDeadline, Idle, ThreadState
  <1>5. ASSUME NEW t \in Callers, Evict(t)
        PROVE  LifeInv'
    BY <1>5 DEF Evict, Evicting, ThreadState
  <1>6. CASE NetpollClose
    BY <1>6 DEF NetpollClose, Idle
  <1>7. CASE NetpollOpen
    BY <1>7 DEF NetpollOpen
  <1>8. CASE TimerFires
    BY <1>8 DEF TimerFires
  <1>9. CASE DeadlineImpl
    BY <1>9, CallbackStep DEF DeadlineImpl
  <1>10. CASE Poll
    BY <1>10 DEF Poll
  <1>11. CASE UNCHANGED vars
    BY <1>11 DEF vars
  <1> QED
    BY <1>1, <1>2, <1>3, <1>4, <1>5, <1>6, <1>7, <1>8, <1>9, <1>10, <1>11
       DEF Next, CStep

LEMMA NextSemaphore == IndInv /\ [Next]_vars => SemaphoreInv'
  <1> SUFFICES ASSUME IndInv, [Next]_vars PROVE SemaphoreInv'
    OBVIOUS
  <1> USE DEF IndInv, TypeOK, ThreadsInv, SemaphoreInv
  <1>1. ASSUME NEW m \in Modes, ReadLock(m) \/ GStep(m) \/ Arrive(m)
        PROVE  SemaphoreInv'
    <2>1. CASE ReadLock(m) \/ Reset(m) \/ Wait(m) \/ Recheck(m) \/ WaitAgain(m)
      BY <2>1 DEF ReadLock, Reset, Wait, Recheck, WaitAgain
    <2>2. CASE Syscall(m) \/ Arrive(m)
      BY <2>2 DEF Syscall, Arrive
    <2>3. CASE ResetStore(m) \/ Take(m)
      BY <2>3 DEF ResetStore, Take
    <2>4. CASE Block(m)
      BY <2>4 DEF Block
    <2>5. CASE BlockCommit(m)
      BY <2>5 DEF BlockCommit
    <2>6. CASE Swap(m)
      BY <2>6 DEF Swap
    <2> QED
      BY <1>1, <2>1, <2>2, <2>3, <2>4, <2>5, <2>6 DEF GStep
  <1>2. ASSUME NEW t \in Threads, netpollunblock(t)
        PROVE  SemaphoreInv'
    BY <1>2 DEF netpollunblock, Next1, ThreadState
  <1>3. ASSUME NEW t \in Threads, Unlock(t)
        PROVE  SemaphoreInv'
    BY <1>3 DEF Unlock, Idle, ThreadState
  <1>4. ASSUME NEW t \in Threads, Goready(t)
        PROVE  SemaphoreInv'
    BY <1>4 DEF Goready, Idle, Next1, ThreadState
  <1>5. ASSUME NEW t \in Callers, SetDeadlineCall(t) \/ Close(t)
        PROVE  SemaphoreInv'
    BY <1>5 DEF SetDeadlineCall, Close, Idle, ThreadState
  <1>6. ASSUME NEW t \in Callers, SetDeadline(t)
        PROVE  SemaphoreInv'
    BY <1>6 DEF SetDeadline, Idle, ThreadState
  <1>7. ASSUME NEW t \in Callers, Evict(t)
        PROVE  SemaphoreInv'
    BY <1>7 DEF Evict, Evicting, ThreadState
  <1>8. CASE NetpollClose
    BY <1>8 DEF NetpollClose
  <1>9. CASE NetpollOpen
    BY <1>9 DEF NetpollOpen, LifeInv
  <1>10. CASE TimerFires
    BY <1>10 DEF TimerFires, Idle
  <1>11. CASE DeadlineImpl
    BY <1>11, CallbackStep DEF DeadlineImpl, Idle
  <1>12. CASE Poll
    BY <1>12 DEF Poll, ThreadState
  <1>13. CASE UNCHANGED vars
    BY <1>13 DEF vars
  <1> QED
    BY <1>1, <1>2, <1>3, <1>4, <1>5, <1>6, <1>7, <1>8, <1>9, <1>10, <1>11, <1>12,
       <1>13 DEF Next, TStep, CStep

LEMMA NextTimers == IndInv /\ [Next]_vars => TimersInv'
  <1> SUFFICES ASSUME IndInv, [Next]_vars PROVE TimersInv'
    OBVIOUS
  <1> USE DEF IndInv, TypeOK, TimersInv
  <1>0. thr[Timerproc].seq \in Nat
    BY DEF ThreadState
  <1>1. CASE UNCHANGED <<seq, dl, timer, armed>> /\ thr'[Timerproc] = thr[Timerproc]
    BY <1>1
  <1>2. ASSUME NEW t \in Threads, TStep(t)
        PROVE  TimersInv'
    <2>1. UNCHANGED <<seq, dl, timer, armed>>
      BY <1>2 DEF TStep, netpollunblock, Unlock, Goready
    <2>2. thr'[Timerproc] = thr[Timerproc] \/ thr'[Timerproc].pc # "fire"
      <3>1. netpollunblock(t) => thr'[t].pc = "unblock"
        BY DEF netpollunblock, ThreadState
      <3>2. Unlock(t) => thr'[t].pc # "fire"
        BY DEF Unlock, Idle
      <3>3. Goready(t) => thr'[t].pc # "fire"
        BY DEF Goready, Idle, ThreadState
      <3>4. t # Timerproc => thr'[Timerproc] = thr[Timerproc]
        BY <1>2 DEF TStep, netpollunblock, Unlock, Goready
      <3> QED
        BY <1>2, <3>1, <3>2, <3>3, <3>4 DEF TStep
    <2> QED
      BY <2>1, <2>2
  <1>3. ASSUME NEW t \in Callers, SetDeadline(t)
        PROVE  TimersInv'
    <2>1. thr'[Timerproc] = thr[Timerproc]
      BY <1>3 DEF SetDeadline
    <2>2. CASE closing
      BY <1>3, <2>1, <2>2 DEF SetDeadline
    <2>3. CASE ~closing
      <3>1. /\ dl' \in [Modes -> Int] /\ seq' = seq + 1 /\ seq' \in Nat
            /\ timer' = Timers(dl', seq')
        BY <1>3, <2>3 DEF SetDeadline
      <3>2. armed' = {m \in Modes : timer'[m].f # {}}
        BY <1>3, <2>3 DEF SetDeadline, deltimers
      <3>3. TimersFor(timer', dl', seq')
        <4>1. TimersFor(Timers(dl', seq'), dl', seq')
          BY <3>1, TimersFacts
        <4> QED
          BY <3>1, <4>1
      <3>4. thr'[Timerproc].pc = "fire" => thr'[Timerproc].seq < seq'
        BY <1>0, <2>1, <3>1
      <3> QED
        BY <1>0, <2>1, <3>1, <3>2, <3>3, <3>4 DEF TimersFor
    <2> QED
      BY <2>2, <2>3
  <1>4. ASSUME NEW t \in Callers, Evict(t)
        PROVE  TimersInv'
    <2>1. \A m \in Modes : timer'[m].f = {}
      BY <1>4 DEF Evict, Evicting, NoTimer
    <2>2. armed' = {} /\ seq' = seq + 1
      BY <1>4 DEF Evict, Evicting, deltimers
    <2>3. thr'[Timerproc] = thr[Timerproc]
      BY <1>4 DEF Evict, Evicting
    <2> QED
      BY <1>0, <2>1, <2>2, <2>3
  <1>5. CASE NetpollOpen
    BY <1>0, <1>5 DEF NetpollOpen
  <1>6. CASE TimerFires
    BY <1>6 DEF TimerFires, Idle, Next1
  <1>7. CASE DeadlineImpl
    <2>1. CASE thr'[Timerproc] = Idle /\ UNCHANGED <<dl, timer>>
      BY <1>7, <2>1 DEF DeadlineImpl, Idle
    <2>2. CASE Expire /\ thr[Timerproc].seq = seq /\ thr'[Timerproc].pc = "unblock"
      <3> DEFINE ms == thr[Timerproc].modes
      <3>1. /\ timer' = [m \in Modes |-> IF m \in ms THEN NoTimer ELSE timer[m]]
            /\ dl' = [m \in Modes |-> IF m \in ms THEN -1 ELSE dl[m]]
        BY <2>2 DEF Expire
      <3>2. UNCHANGED <<seq, armed>>
        BY <1>7 DEF DeadlineImpl
      <3>3. /\ ms # {} /\ ms \in SUBSET Modes
            /\ timer[Next1(ms)].f = ms /\ Next1(ms) \notin armed
        BY <1>7, <2>2 DEF DeadlineImpl, ThreadState
      <3> HIDE DEF ms
      <3>4. \A m \in ms : m \notin armed
        BY <3>3 DEF Next1
      <3>5. \A m \in Modes \ ms : timer[m].f \cap ms = {}
        BY <3>3 DEF Next1
      <3> QED
        BY <2>2, <3>1, <3>2, <3>4, <3>5 DEF NoTimer
    <2> QED
      BY <1>7, <2>1, <2>2, CallbackStep
  <1>8. ASSUME NEW m \in Modes, ReadLock(m) \/ GStep(m) \/ Arrive(m)
        PROVE  UNCHANGED <<seq, dl, timer, armed, thr>>
    BY <1>8 DEF GStep, ReadLock, Reset, ResetStore, Syscall, Wait, Block,
                Take, Recheck, BlockCommit, Swap, WaitAgain, Arrive
  <1>9. ASSUME NEW t \in Callers, SetDeadlineCall(t) \/ Close(t)
        PROVE  UNCHANGED <<seq, dl, timer, armed>> /\ thr'[Timerproc] = thr[Timerproc]
    BY <1>9 DEF SetDeadlineCall, Close
  <1>10. ASSUME NetpollClose \/ Poll \/ UNCHANGED vars
         PROVE  UNCHANGED <<seq, dl, timer, armed>> /\ thr'[Timerproc] = thr[Timerproc]
    BY <1>10 DEF NetpollClose, Poll, vars
  <1> QED
    <2> USE <1>1, <1>2, <1>3, <1>4, <1>5, <1>6, <1>7, <1>8, <1>9, <1>10
    <2> HIDE DEF IndInv, TypeOK, ThreadsInv, TimersInv
    <2> QED
      BY DEF Next, CStep

LEMMA NextWakeup == IndInv /\ [Next]_vars => WakeupInv'
  <1> SUFFICES ASSUME IndInv, [Next]_vars PROVE WakeupInv'
    OBVIOUS
  <1> USE DEF IndInv, TypeOK, ThreadsInv, SemaphoreInv, WakeupInv, checkerr
  <1>1. ASSUME NEW m \in Modes, ReadLock(m) \/ GStep(m) \/ Arrive(m)
        PROVE  WakeupInv'
    <2>1. CASE ReadLock(m) \/ Reset(m) \/ Wait(m) \/ Recheck(m) \/ WaitAgain(m)
      BY <2>1 DEF ReadLock, Reset, Wait, Recheck, WaitAgain
    <2>2. CASE Syscall(m)
      BY <2>2 DEF Syscall
    <2>3. CASE ResetStore(m) \/ Take(m)
      BY <2>3 DEF ResetStore, Take
    <2>4. CASE Block(m)
      BY <2>4 DEF Block
    <2>5. CASE BlockCommit(m)
      BY <2>5 DEF BlockCommit
    <2>6. CASE Swap(m)
      BY <2>6 DEF Swap
    <2>7. CASE Arrive(m)
      BY <2>7 DEF Arrive
    <2> QED
      BY <1>1, <2>1, <2>2, <2>3, <2>4, <2>5, <2>6, <2>7 DEF GStep
  <1>2. ASSUME NEW t \in Threads, netpollunblock(t)
        PROVE  WakeupInv'
    BY <1>2 DEF netpollunblock, Next1, ThreadState
  <1>3. ASSUME NEW t \in Threads, Unlock(t)
        PROVE  WakeupInv'
    BY <1>3 DEF Unlock, Idle, ThreadState
  <1>4. ASSUME NEW t \in Threads, Goready(t)
        PROVE  WakeupInv'
    BY <1>4 DEF Goready, Idle, Next1, ThreadState
  <1>5. ASSUME NEW t \in Callers, SetDeadlineCall(t) \/ Close(t)
        PROVE  WakeupInv'
    BY <1>5 DEF SetDeadlineCall, Close, Idle, ThreadState
  <1>6. ASSUME NEW t \in Callers, SetDeadline(t)
        PROVE  WakeupInv'
    BY <1>6 DEF SetDeadline, Idle, ThreadState
  <1>7. ASSUME NEW t \in Callers, Evict(t)
        PROVE  WakeupInv'
    BY <1>7 DEF Evict, Evicting, ThreadState
  <1>8. CASE NetpollClose
    BY <1>8 DEF NetpollClose
  <1>9. CASE NetpollOpen
    BY <1>9 DEF NetpollOpen, LifeInv
  <1>10. CASE TimerFires
    BY <1>10 DEF TimerFires, Idle
  <1>11. CASE DeadlineImpl
    <2>1. CASE thr'[Timerproc] = Idle /\ UNCHANGED dl
      BY <1>11, <2>1, CallbackStep DEF DeadlineImpl, Idle
    <2>2. CASE Expire /\ thr'[Timerproc].todo = thr[Timerproc].modes
      BY <1>11, <2>2, CallbackStep DEF DeadlineImpl, Expire
    <2> QED
      BY <1>11, <2>1, <2>2, CallbackStep
  <1>12. CASE Poll
    BY <1>12 DEF Poll, Idle, ThreadState
  <1>13. CASE UNCHANGED vars
    BY <1>13 DEF vars
  <1> QED
    BY <1>1, <1>2, <1>3, <1>4, <1>5, <1>6, <1>7, <1>8, <1>9, <1>10, <1>11, <1>12,
       <1>13 DEF Next, TStep, CStep

LEMMA NextBad == IndInv /\ [Next]_vars => ~bad'
  <1> SUFFICES ASSUME IndInv, [Next]_vars PROVE ~bad'
    OBVIOUS
  <1> USE DEF IndInv, TypeOK
  <1>1. CASE UNCHANGED bad
    BY <1>1
  <1>2. ASSUME NEW m \in Modes, Block(m) \/ Swap(m)
        PROVE  ~bad'
    BY <1>2 DEF Block, Swap, SemaphoreInv
  <1>3. ASSUME NEW t \in Threads, Goready(t)
        PROVE  ~bad'
    BY <1>3 DEF Goready, Next1, ThreadState, ThreadsInv, SemaphoreInv
  <1>4. ASSUME NEW t \in Callers, SetDeadline(t)
        PROVE  ~bad'
    <2>1. deltimers = {}
      BY DEF deltimers, TimersInv
    <2> QED
      BY <1>4, <2>1 DEF SetDeadline
  <1>5. ASSUME NEW t \in Callers, Evict(t)
        PROVE  ~bad'
    BY <1>5 DEF Evict, Evicting, LifeInv
  <1>6. CASE NetpollClose
    BY <1>6 DEF NetpollClose, LifeInv, SemaphoreInv, Idle
  <1>7. CASE NetpollOpen
    BY <1>7 DEF NetpollOpen, LifeInv, SemaphoreInv
  <1>8. CASE DeadlineImpl
    <2>1. CASE UNCHANGED bad
      BY <2>1
    <2>2. CASE Expire /\ thr[Timerproc].seq = seq
      <3> DEFINE ms == thr[Timerproc].modes
      <3>1. /\ ms # {} /\ ms \in SUBSET Modes
            /\ timer[Next1(ms)].f = ms /\ timer[Next1(ms)].seq = seq
        BY <1>8, <2>2 DEF DeadlineImpl, ThreadState, TimersInv
      <3>2. \A m \in ms : dl[m] > 0
        BY <3>1 DEF TimersInv, Next1
      <3> QED
        BY <2>2, <3>1, <3>2 DEF Expire
    <2> QED
      BY <1>8, <2>1, <2>2, CallbackStep
  <1> QED
    BY <1>1, <1>2, <1>3, <1>4, <1>5, <1>6, <1>7, <1>8
       DEF Next, GStep, TStep, CStep, ReadLock, Reset, ResetStore, Syscall, Wait,
           Take, Recheck, BlockCommit, WaitAgain, Arrive, netpollunblock, Unlock,
           SetDeadlineCall, Close, TimerFires, Poll, vars

LEMMA NextInv == IndInv /\ [Next]_vars => IndInv'
  BY NextType, NextThreads, NextSemaphore, NextLife, NextTimers, NextWakeup, NextBad
     DEF IndInv

----------------------------------------------------------------------------
(* The theorems *)

\* No gothrow of the poller or of ready is reached, whatever deadlines are
\* set and however closes, reopens, late timers and late events cross.
THEOREM PollerNeverThrows == Spec => []NeverThrows
  <1>1. IndInv => NeverThrows
    BY DEF IndInv, NeverThrows
  <1> QED
    BY InitInv, NextInv, <1>1, PTL DEF Spec

\* A goroutine parked by netpollblock with its socket ready, its deadline past
\* or its descriptor closing is about to be readied.
THEOREM PollerForgetsNobody == Spec => []NoForgottenWaiter
  <1>1. IndInv => NoForgottenWaiter
    BY DEF IndInv, SemaphoreInv, WakeupInv, NoForgottenWaiter, Coming
  <1> QED
    BY InitInv, NextInv, <1>1, PTL DEF Spec

\* netpolldeadlineimpl changes a deadline only if it is the one its timer was
\* set for, however the descriptor was used since the timer left the heap.
THEOREM PollerTimeoutHonest == Spec => TimeoutHonest
  <1>1. ASSUME IndInv, [Next]_vars
        PROVE  [\A m \in Modes : DeadlineImpl /\ dl'[m] # dl[m] =>
                  dl[m] = thr[Timerproc].d]_vars
    <2> SUFFICES ASSUME NEW m \in Modes, DeadlineImpl, dl'[m] # dl[m]
                 PROVE  dl[m] = thr[Timerproc].d
      OBVIOUS
    <2> DEFINE ms == thr[Timerproc].modes
    <2>1. Expire /\ thr[Timerproc].seq = seq /\ thr[Timerproc].pc = "fire"
      BY <1>1, CallbackStep
    <2>2. m \in ms
      BY <1>1, <2>1 DEF Expire, IndInv, TypeOK
    <2>3. Next1(ms) \in Modes /\ timer[Next1(ms)].f = ms
          /\ timer[Next1(ms)].seq = seq /\ timer[Next1(ms)].when = thr[Timerproc].d
      BY <1>1, <2>1 DEF IndInv, TimersInv, Next1
    <2> QED
      BY <1>1, <2>2, <2>3 DEF IndInv, TimersInv
  <1> QED
    BY InitInv, NextInv, <1>1, PTL DEF Spec, TimeoutHonest
=============================================================================
