-------------------------------- MODULE Sched --------------------------------
(***************************************************************************)
(* runtime/proc.c: the scheduler.  Ms (threads) need a P to run            *)
(* goroutines; they spin for work, give their P up and park, are woken     *)
(* again, leave their P behind in system calls where sysmon retakes it,    *)
(* and all stop when the world stops.                                      *)
(*                                                                         *)
(* Goroutines are counted, not named: how many wait, are on each queue, or *)
(* are held by an M (RunQueue has the queues themselves).  Each lock-free  *)
(* load, store, cas or xadd the protocol relies on is a step; so is a      *)
(* stretch under sched.lock.  The network poller is not in use: netpoll    *)
(* returns nil at once.                                                    *)
(***************************************************************************)
EXTENDS Integers, FiniteSets, FiniteSetsExt, Functions

CONSTANTS Ms,       \* threads, some of them not yet created
          Sysmon,   \* the thread without a P
          NP,       \* the most Ps there may be
          NG,       \* goroutines
          Size      \* nelem(p->runq), 256 in the code

NoM == "nobody"    \* sched.lock is free

ASSUME SizesAssumption ==
  /\ NP \in Nat \ {0} /\ NG \in Nat \ {0} /\ Size \in Nat \ {0, 1}
  /\ Sysmon \notin Ms /\ NoM \notin Ms /\ IsFiniteSet(Ms)
  /\ Cardinality(Ms) > NG   \* so that an M without a goroutine exists

VARIABLES
  sched,     \* the fields of runtime.sched, the holder of its lock, and for the
             \* properties handed: the Ps handoffp put on pidle beside work
  status,    \* p->status
  runq,      \* the length of each local run queue
  m,         \* each thread: where it is, its P, m->spinning
  waiting,   \* goroutines in Gwaiting
  fate       \* "ok", or how the program ended: "deadlock" or "throw"

vars == <<sched, status, runq, m, waiting, fate>>

Ps == 0..NP-1
NoP == NP          \* nil
Threads == Ms \cup {Sysmon}

(***************************************************************************)
(* none parked woken    not created; on sched.midle; has nextp             *)
(* schedule find        the tops of schedule and findrunnable              *)
(* busy spin steal stop unspin recheck grab poll polled   in findrunnable  *)
(* stopm                about to park                                      *)
(* reset idle cas start in resetspinning, then wakep                       *)
(* ridle                ready: about to load npidle                        *)
(* run                  executes a goroutine                               *)
(* enter gcwait syscall in entersyscall; outside                           *)
(* recas repidle exit0  in exitsyscall                                     *)
(* hand1 hand2 handcas handspin hand3 handstart   in handoffp with P m.p   *)
(* stopcas stopidle stopwait stopcheck stopped    in stoptheworld; after it *)
(* mon retake monend    sysmon                                             *)
(***************************************************************************)
Init ==
  /\ sched = [lock |-> NoM, gomaxprocs |-> NP, runqsize |-> 0, pidle |-> Ps \ {0},
              nmspinning |-> 0, nmidlelocked |-> 0, polling |-> FALSE,
              gcwaiting |-> FALSE, stopwait |-> 0, stopnote |-> FALSE,
              handed |-> {}]
  /\ status = [p \in Ps |-> IF p = 0 THEN "Prunning" ELSE "Pidle"]
  /\ runq = [p \in Ps |-> 0]
  /\ \E m0 \in Ms :
       m = [a \in Threads |-> [pc |-> CASE a = m0 -> "run" [] a = Sysmon -> "mon"
                                        [] OTHER -> "none",
                               p |-> IF a = m0 THEN 0 ELSE NoP,
                               spinning |-> FALSE, ret |-> "schedule", i |-> 0]]
  /\ waiting = NG - 1
  /\ fate = "ok"

At(a, l) == fate = "ok" /\ m[a].pc = l
Goto(a, l) == m' = [m EXCEPT ![a].pc = l]
\* Go to l with P p.
With(a, p, l) == m' = [m EXCEPT ![a].pc = l, ![a].p = p]
\* runtime.throw ends the program when a check fails.
ThrowUnless(ok) == fate' = IF ok THEN fate ELSE "throw"
\* The lock is free: the step is one critical section.
Locked == sched.lock = NoM
gomaxprocs == sched.gomaxprocs
npidle == Cardinality(sched.pidle)
\* The places of local run queues of lengths r.
Queued(r) == UNION {{p} \X (1..r[p]) : p \in Ps}

\* sched after pidleget has returned p.
pidleget(p) == [sched EXCEPT !.pidle = @ \ {p}, !.handed = @ \ {p}]

\* mput's and incidlelocked's check, with the idle Ms and nmidlelocked as
\* the step leaves them.
checkdead ==
  LET mcount == Cardinality({a \in Ms : m'[a].pc # "none"})
      nmidle == Cardinality({a \in Ms : m'[a].pc = "parked"})
      run == mcount - nmidle - sched'.nmidlelocked
  IN  fate' = IF run > 0 THEN fate
              ELSE IF run < 0 \/ waiting < NG THEN "throw" ELSE "deadlock"

\* The checks of acquirep and releasep.
CanAcquire(a, p) == m[a].p = NoP /\ status[p] = "Pidle"
CanRelease(a) == m[a].p # NoP /\ status[m[a].p] = "Prunning"

\* startm with a P: wake an idle M, which must neither spin nor have a P, or
\* create one, with nextp = p.
startm(a, p, spinning, l) ==
  \E b \in Ms :
    /\ \/ m[b].pc = "parked"
       \/ m[b].pc = "none" /\ \A c \in Ms : m[c].pc # "parked"
    /\ ThrowUnless(m[b].pc = "parked" => ~m[b].spinning /\ m[b].p = NoP)
    /\ m' = [m EXCEPT ![a].pc = l, ![a].p = IF @ = p THEN NoP ELSE @,
                      ![b].pc = "woken", ![b].p = p, ![b].spinning = spinning]

\* p stops for stoptheworld, whose note is woken when p was the last.  unspin:
\* the M was spinning.
StopP(p, unspin) ==
  /\ status' = [status EXCEPT ![p] = "Pgcstop"]
  /\ sched' = [sched EXCEPT !.stopwait = @ - 1, !.stopnote = @ \/ sched.stopwait = 1,
                            !.nmspinning = IF unspin THEN @ - 1 ELSE @]

\* A second wakeup of the note throws.
StopnoteClear == sched.stopwait = 1 => ~sched.stopnote

----------------------------------------------------------------------------
(* schedule and findrunnable *)

\* gcstopm up to stopm.
gcstopm(a, l) ==
  /\ sched.gcwaiting /\ Locked
  /\ StopP(m[a].p, m[a].spinning)
  /\ ThrowUnless(CanRelease(a) /\ StopnoteClear)
  /\ m' = [m EXCEPT ![a].pc = "stopm", ![a].p = NoP, ![a].spinning = FALSE, ![a].ret = l]
  /\ UNCHANGED <<runq, waiting>>

\* globrunqget: one goroutine to run, the rest of its share to the local queue.
globrunqget(a, max) ==
  LET share == Min({sched.runqsize, sched.runqsize \div gomaxprocs + 1})
      n == Min({IF max > 0 THEN Min({share, max}) ELSE share, Size \div 2})
  IN  /\ sched.runqsize > 0 /\ Locked
      /\ sched' = [sched EXCEPT !.runqsize = @ - n]
      /\ runq' = [runq EXCEPT ![m[a].p] = @ + n - 1]
      /\ Goto(a, "reset")
      /\ UNCHANGED <<status, waiting, fate>>

Schedule(a) ==
  /\ At(a, "schedule")
  /\ \/ gcstopm(a, "schedule")
     \/ /\ ~sched.gcwaiting      \* tick % 61 = 0
        /\ globrunqget(a, 1)
     \/ /\ ~sched.gcwaiting
        /\ runq[m[a].p] > 0
        /\ runq' = [runq EXCEPT ![m[a].p] = @ - 1]
        /\ ThrowUnless(~m[a].spinning)
        /\ Goto(a, "run")
        /\ UNCHANGED <<sched, status, waiting>>
     \/ /\ ~sched.gcwaiting
        /\ runq[m[a].p] = 0
        /\ Goto(a, "find")
        /\ UNCHANGED <<sched, status, runq, waiting, fate>>

Findrunnable(a) ==
  /\ At(a, "find")
  /\ \/ gcstopm(a, "find")
     \/ /\ ~sched.gcwaiting
        /\ runq[m[a].p] > 0
        /\ runq' = [runq EXCEPT ![m[a].p] = @ - 1]
        /\ Goto(a, "reset")
        /\ UNCHANGED <<sched, status, waiting, fate>>
     \/ ~sched.gcwaiting /\ runq[m[a].p] = 0 /\ globrunqget(a, 0)
     \/ /\ ~sched.gcwaiting
        /\ runq[m[a].p] = 0 /\ sched.runqsize = 0
        /\ Goto(a, IF m[a].spinning THEN "steal" ELSE "busy")
        /\ UNCHANGED <<sched, status, runq, waiting, fate>>

\* Block if there are enough spinning Ms, else spin.
FindBusy(a) ==
  /\ At(a, "busy")
  /\ Goto(a, IF 2 * sched.nmspinning >= gomaxprocs - npidle THEN "stop" ELSE "spin")
  /\ UNCHANGED <<sched, status, runq, waiting, fate>>

FindSpin(a) ==
  /\ At(a, "spin")
  /\ sched' = [sched EXCEPT !.nmspinning = @ + 1]
  /\ m' = [m EXCEPT ![a].pc = "steal", ![a].spinning = TRUE]
  /\ UNCHANGED <<status, runq, waiting, fate>>

\* Random victims: one that has work may or may not be among them.
FindSteal(a) ==
  /\ At(a, "steal")
  /\ \/ sched.gcwaiting /\ Goto(a, "find") /\ UNCHANGED runq
     \/ /\ ~sched.gcwaiting
        /\ \E v \in Ps :
             /\ runq[v] > 0
             /\ runq' = IF v = m[a].p THEN [runq EXCEPT ![v] = @ - 1]
                        ELSE LET n == runq[v] - runq[v] \div 2
                             IN  [runq EXCEPT ![v] = @ - n, ![m[a].p] = @ + n - 1]
             /\ Goto(a, "reset")
     \/ Goto(a, "stop") /\ UNCHANGED runq
  /\ UNCHANGED <<sched, status, waiting, fate>>

\* Return P and block, unless something came up.
FindStop(a) ==
  /\ At(a, "stop")
  /\ Locked
  /\ \/ /\ sched.gcwaiting
        /\ Goto(a, "find")
        /\ UNCHANGED <<sched, status, runq, waiting, fate>>
     \/ ~sched.gcwaiting /\ globrunqget(a, 0)
     \/ /\ ~sched.gcwaiting /\ sched.runqsize = 0
        /\ status' = [status EXCEPT ![m[a].p] = "Pidle"]
        /\ sched' = [sched EXCEPT !.pidle = @ \cup {m[a].p}]
        /\ With(a, NoP, IF m[a].spinning THEN "unspin" ELSE "recheck")
        /\ ThrowUnless(CanRelease(a))
        /\ UNCHANGED <<runq, waiting>>

FindUnspin(a) ==
  /\ At(a, "unspin")
  /\ sched' = [sched EXCEPT !.nmspinning = @ - 1]
  /\ m' = [m EXCEPT ![a].pc = "recheck", ![a].spinning = FALSE]
  /\ UNCHANGED <<status, runq, waiting, fate>>

\* Mutant of FindRecheck: parks without looking at the queues again.
FindNoRecheck(a) ==
  /\ At(a, "recheck")
  /\ Goto(a, "poll")
  /\ UNCHANGED <<sched, status, runq, waiting, fate>>

\* Check all runqueues once again, allp[i] at a time.
FindRecheck(a) ==
  /\ At(a, "recheck")
  /\ LET i == m[a].i IN
     IF i >= gomaxprocs THEN m' = [m EXCEPT ![a].pc = "poll", ![a].i = 0]
     ELSE IF runq[i] > 0 THEN m' = [m EXCEPT ![a].pc = "grab", ![a].i = 0]
     ELSE m' = [m EXCEPT ![a].i = i + 1]
  /\ UNCHANGED <<sched, status, runq, waiting, fate>>

\* pidleget and acquirep, then go to l; or else to l2.
TakeIdle(a, l, l2) ==
  /\ Locked
  /\ \/ \E p \in sched.pidle :
          /\ sched' = pidleget(p)
          /\ status' = [status EXCEPT ![p] = "Prunning"]
          /\ With(a, p, l)
          /\ ThrowUnless(CanAcquire(a, p))
     \/ /\ sched.pidle = {}
        /\ Goto(a, l2)
        /\ UNCHANGED <<sched, status, fate>>

FindGrab(a) ==
  /\ At(a, "grab")
  /\ TakeIdle(a, "find", "poll")
  /\ UNCHANGED <<runq, waiting>>

\* xchg64(&lastpoll, 0); netpoll(true) has nothing to wait for.
FindPoll(a) ==
  /\ At(a, "poll")
  /\ sched' = [sched EXCEPT !.polling = TRUE]
  /\ m' = [m EXCEPT ![a].pc = IF sched.polling THEN "stopm" ELSE "polled",
                    ![a].ret = "find"]
  /\ ThrowUnless(sched.polling \/ (m[a].p = NoP /\ ~m[a].spinning))
  /\ UNCHANGED <<status, runq, waiting>>

FindPolled(a) ==
  /\ At(a, "polled")
  /\ sched' = [sched EXCEPT !.polling = FALSE]
  /\ Goto(a, "stopm")
  /\ UNCHANGED <<status, runq, waiting, fate>>

\* Stops execution of the M until it is woken with a P.
stopm(a) ==
  /\ At(a, "stopm")
  /\ Locked
  /\ sched' = [sched EXCEPT !.nmspinning = IF m[a].spinning THEN @ - 1 ELSE @]
  /\ m' = [m EXCEPT ![a].pc = "parked", ![a].spinning = FALSE]
  /\ IF m[a].p = NoP THEN checkdead ELSE fate' = "throw"
  /\ UNCHANGED <<status, runq, waiting>>

\* acquirep(nextp), in stopm and in mstart.
Acquirep(a) ==
  /\ At(a, "woken")
  /\ ThrowUnless(status[m[a].p] = "Pidle")
  /\ status' = [status EXCEPT ![m[a].p] = "Prunning"]
  /\ m' = [m EXCEPT ![a].pc = m[a].ret, ![a].ret = "schedule"]
  /\ UNCHANGED <<sched, runq, waiting>>

----------------------------------------------------------------------------
(* Waking other Ms: resetspinning, ready and wakep *)

\* nmspinning after it stopped spinning, or as it is.
Resetspinning(a) ==
  /\ At(a, "reset")
  /\ LET n == IF m[a].spinning THEN sched.nmspinning - 1 ELSE sched.nmspinning IN
       /\ sched' = [sched EXCEPT !.nmspinning = n]
       /\ ThrowUnless(n >= 0)
       /\ m' = [m EXCEPT ![a].pc = IF n = 0 THEN "idle" ELSE "run",
                         ![a].spinning = FALSE]
  /\ UNCHANGED <<status, runq, waiting>>

ResetIdle(a) ==
  /\ At(a, "idle")
  /\ Goto(a, IF npidle > 0 THEN "cas" ELSE "run")
  /\ UNCHANGED <<sched, status, runq, waiting, fate>>

\* ready's own load of nmspinning tells no more than the cas of wakep.
ReadyIdle(a) ==
  /\ At(a, "ridle")
  /\ Goto(a, IF npidle # 0 THEN "cas" ELSE "run")
  /\ UNCHANGED <<sched, status, runq, waiting, fate>>

\* wakep: be conservative about spinning threads.
WakepCas(a) ==
  /\ At(a, "cas")
  /\ \/ /\ sched.nmspinning = 0
        /\ sched' = [sched EXCEPT !.nmspinning = 1]
        /\ Goto(a, "start")
     \/ /\ sched.nmspinning # 0
        /\ Goto(a, "run")
        /\ UNCHANGED sched
  /\ UNCHANGED <<status, runq, waiting, fate>>

\* wakep: startm(nil, true).
WakepStart(a) ==
  /\ At(a, "start")
  /\ Locked
  /\ \/ \E p \in sched.pidle :
          /\ sched' = pidleget(p)
          /\ startm(a, p, TRUE, "run")
     \/ /\ sched.pidle = {}
        /\ sched' = [sched EXCEPT !.nmspinning = @ - 1]
        /\ Goto(a, "run")
        /\ UNCHANGED fate
  /\ UNCHANGED <<status, runq, waiting>>

----------------------------------------------------------------------------
(* What a running goroutine does *)

\* ready (and newproc1, which puts a goroutine on the queue the same way).  A
\* full queue passes half of itself on with the goroutine.
Ready(a) ==
  /\ At(a, "run")
  /\ waiting > 0
  /\ waiting' = waiting - 1
  /\ IF runq[m[a].p] < Size
     THEN runq' = [runq EXCEPT ![m[a].p] = @ + 1] /\ UNCHANGED sched
     ELSE /\ Locked
          /\ runq' = [runq EXCEPT ![m[a].p] = @ - Size \div 2]
          /\ sched' = [sched EXCEPT !.runqsize = @ + Size \div 2 + 1]
  /\ Goto(a, "ridle")
  /\ UNCHANGED <<status, fate>>

\* park_m.
Park(a) ==
  /\ At(a, "run")
  /\ waiting' = waiting + 1
  /\ Goto(a, "schedule")
  /\ UNCHANGED <<sched, status, runq, fate>>

\* gosched_m: Gosched, or a preemption request noticed.
Gosched(a) ==
  /\ At(a, "run")
  /\ Locked
  /\ sched' = [sched EXCEPT !.runqsize = @ + 1]
  /\ Goto(a, "schedule")
  /\ UNCHANGED <<status, runq, waiting, fate>>

\* entersyscall: the P stays in m.p, up for grabs.
Entersyscall(a) ==
  /\ At(a, "run")
  /\ status' = [status EXCEPT ![m[a].p] = "Psyscall"]
  /\ Goto(a, "enter")
  /\ UNCHANGED <<sched, runq, waiting, fate>>

\* Mutant of EntersyscallLoad: does not look at gcwaiting.
EntersyscallBlind(a) ==
  /\ At(a, "enter")
  /\ Goto(a, "syscall")
  /\ UNCHANGED <<sched, status, runq, waiting, fate>>

EntersyscallLoad(a) ==
  /\ At(a, "enter")
  /\ Goto(a, IF sched.gcwaiting THEN "gcwait" ELSE "syscall")
  /\ UNCHANGED <<sched, status, runq, waiting, fate>>

EntersyscallGcwait(a) ==
  /\ At(a, "gcwait")
  /\ Locked
  /\ IF sched.stopwait > 0 /\ status[m[a].p] = "Psyscall"
     THEN StopP(m[a].p, FALSE) /\ ThrowUnless(StopnoteClear)
     ELSE UNCHANGED <<sched, status, fate>>
  /\ Goto(a, "syscall")
  /\ UNCHANGED <<runq, waiting>>

\* entersyscallblock: handoffp(releasep()).
Entersyscallblock(a) ==
  /\ At(a, "run")
  /\ status' = [status EXCEPT ![m[a].p] = "Pidle"]
  /\ Goto(a, "hand1")
  /\ ThrowUnless(CanRelease(a))
  /\ UNCHANGED <<sched, runq, waiting>>

\* exitsyscallfast: stoptheworld and freezetheworld set stopwait.
Exitsyscall(a) ==
  /\ At(a, "syscall")
  /\ IF sched.stopwait # 0 THEN With(a, NoP, "exit0") ELSE Goto(a, "recas")
  /\ UNCHANGED <<sched, status, runq, waiting, fate>>

\* Mutant of ExitsyscallCas: takes its last P back whoever has it.
ExitsyscallStore(a) ==
  /\ At(a, "recas")
  /\ \/ /\ m[a].p # NoP /\ status[m[a].p] # "Pgcstop"
        /\ status' = [status EXCEPT ![m[a].p] = "Prunning"]
        /\ Goto(a, "run")
     \/ /\ ~(m[a].p # NoP /\ status[m[a].p] # "Pgcstop")
        /\ With(a, NoP, IF sched.pidle # {} THEN "repidle" ELSE "exit0")
        /\ UNCHANGED status
  /\ UNCHANGED <<sched, runq, waiting, fate>>

\* Try to re-acquire the last P, or else to get any other idle P.
ExitsyscallCas(a) ==
  /\ At(a, "recas")
  /\ \/ /\ m[a].p # NoP /\ status[m[a].p] = "Psyscall"
        /\ status' = [status EXCEPT ![m[a].p] = "Prunning"]
        /\ Goto(a, "run")
     \/ /\ ~(m[a].p # NoP /\ status[m[a].p] = "Psyscall")
        /\ With(a, NoP, IF sched.pidle # {} THEN "repidle" ELSE "exit0")
        /\ UNCHANGED status
  /\ UNCHANGED <<sched, runq, waiting, fate>>

ExitsyscallPidle(a) ==
  /\ At(a, "repidle")
  /\ TakeIdle(a, "run", "exit0")
  /\ UNCHANGED <<runq, waiting>>

\* Mutant of Exitsyscall0: does not look for an idle P under the lock.
Exitsyscall0Blind(a) ==
  /\ At(a, "exit0")
  /\ Locked
  /\ sched' = [sched EXCEPT !.runqsize = @ + 1]
  /\ Goto(a, "stopm")
  /\ UNCHANGED <<status, runq, waiting, fate>>

\* The slow path: an idle P to execute on, or the global queue.
Exitsyscall0(a) ==
  /\ At(a, "exit0")
  /\ Locked
  /\ \/ sched.pidle # {} /\ TakeIdle(a, "run", "exit0")
     \/ /\ sched.pidle = {}
        /\ sched' = [sched EXCEPT !.runqsize = @ + 1]
        /\ Goto(a, "stopm")
        /\ UNCHANGED <<status, fate>>
  /\ UNCHANGED <<runq, waiting>>

----------------------------------------------------------------------------
(* handoffp(m.p), by an M entering a system call or by sysmon *)

Back(a) == IF a = Sysmon THEN "monend" ELSE "syscall"

Handoff1(a) ==
  /\ At(a, "hand1")
  /\ Goto(a, IF runq[m[a].p] > 0 \/ sched.runqsize > 0 THEN "handstart" ELSE "hand2")
  /\ UNCHANGED <<sched, status, runq, waiting, fate>>

\* Are there spinning Ms or idle Ps?
Handoff2(a) ==
  /\ At(a, "hand2")
  /\ Goto(a, IF sched.nmspinning + npidle = 0 THEN "handcas" ELSE "hand3")
  /\ UNCHANGED <<sched, status, runq, waiting, fate>>

HandoffCas(a) ==
  /\ At(a, "handcas")
  /\ \/ /\ sched.nmspinning = 0
        /\ sched' = [sched EXCEPT !.nmspinning = 1]
        /\ Goto(a, "handspin")
     \/ /\ sched.nmspinning # 0
        /\ Goto(a, "hand3")
        /\ UNCHANGED sched
  /\ UNCHANGED <<status, runq, waiting, fate>>

\* startm(p, spinning).
HandoffStart(a) ==
  /\ At(a, "handstart") \/ At(a, "handspin")
  /\ Locked
  /\ startm(a, m[a].p, m[a].pc = "handspin", Back(a))
  /\ UNCHANGED <<sched, status, runq, waiting>>

Handoff3(a) ==
  /\ At(a, "hand3")
  /\ Locked
  /\ \/ /\ sched.gcwaiting
        /\ StopP(m[a].p, FALSE)
        /\ ThrowUnless(StopnoteClear)
        /\ With(a, NoP, Back(a))
     \/ /\ ~sched.gcwaiting
        /\ sched.runqsize > 0 \/ (npidle = gomaxprocs - 1 /\ ~sched.polling)
        /\ Goto(a, "handstart")
        /\ UNCHANGED <<sched, status, fate>>
     \/ /\ ~sched.gcwaiting
        /\ sched.runqsize = 0 /\ (npidle # gomaxprocs - 1 \/ sched.polling)
        /\ sched' = [sched EXCEPT !.pidle = @ \cup {m[a].p},
                                  !.handed = IF \E p \in Ps : runq[p] > 0
                                             THEN @ \cup {m[a].p} ELSE @]
        /\ With(a, NoP, Back(a))
        /\ UNCHANGED <<status, fate>>
  /\ UNCHANGED <<runq, waiting>>

----------------------------------------------------------------------------
(* sysmon: retake *)

\* Mutant of incidlelocked: sysmon is not counted as running.
incidlelockedNot(v) == UNCHANGED sched

\* Pretend that one more M runs, or one less again.
incidlelocked(v) == sched' = [sched EXCEPT !.nmidlelocked = @ + v]

\* A P that has been in Psyscall for long enough; incidlelocked(-1).
Retake(a) ==
  /\ At(a, "mon")
  /\ Locked
  /\ \E p \in Ps :
       /\ status[p] = "Psyscall"
       /\ With(a, p, "retake")
  /\ incidlelocked(-1)
  /\ UNCHANGED <<status, runq, waiting, fate>>

RetakeCas(a) ==
  /\ At(a, "retake")
  /\ \/ /\ status[m[a].p] = "Psyscall"
        /\ status' = [status EXCEPT ![m[a].p] = "Pidle"]
        /\ Goto(a, "hand1")
     \/ /\ status[m[a].p] # "Psyscall"
        /\ With(a, NoP, "monend")
        /\ UNCHANGED status
  /\ UNCHANGED <<sched, runq, waiting, fate>>

\* incidlelocked(1).
RetakeEnd(a) ==
  /\ At(a, "monend")
  /\ Locked
  /\ incidlelocked(1)
  /\ Goto(a, "mon")
  /\ checkdead
  /\ UNCHANGED <<status, runq, waiting>>

----------------------------------------------------------------------------
(* stoptheworld and starttheworld, by a running goroutine *)

Stopping == {"stopcas", "stopidle", "stopwait", "stopcheck", "stopped"}

\* worldsema lets one goroutine in.  The lock is kept until StopIdle.
Stoptheworld(a) ==
  /\ At(a, "run")
  /\ \A b \in Ms : m[b].pc \notin Stopping
  /\ Locked
  /\ sched' = [sched EXCEPT !.lock = a, !.stopwait = gomaxprocs - 1, !.gcwaiting = TRUE]
  /\ status' = [status EXCEPT ![m[a].p] = "Pgcstop"]
  /\ Goto(a, "stopcas")
  /\ UNCHANGED <<runq, waiting, fate>>

\* Try to retake the Ps in Psyscall, allp[i] at a time.
StopCas(a) ==
  /\ At(a, "stopcas")
  /\ LET i == m[a].i IN
     \/ /\ i < gomaxprocs /\ status[i] = "Psyscall"
        /\ status' = [status EXCEPT ![i] = "Pgcstop"]
        /\ sched' = [sched EXCEPT !.stopwait = @ - 1]
        /\ m' = [m EXCEPT ![a].i = i + 1]
     \/ /\ i < gomaxprocs /\ status[i] # "Psyscall"
        /\ m' = [m EXCEPT ![a].i = i + 1]
        /\ UNCHANGED <<sched, status>>
     \/ /\ i = gomaxprocs
        /\ m' = [m EXCEPT ![a].pc = "stopidle", ![a].i = 0]
        /\ UNCHANGED <<sched, status>>
  /\ UNCHANGED <<runq, waiting, fate>>

\* Stop idle Ps; then wait only if some P is left.
StopIdle(a) ==
  /\ At(a, "stopidle")
  /\ status' = [p \in Ps |-> IF p \in sched.pidle THEN "Pgcstop" ELSE status[p]]
  /\ sched' = [sched EXCEPT !.stopwait = @ - npidle, !.pidle = {}, !.handed = {},
                            !.lock = NoM]
  /\ Goto(a, IF sched.stopwait > npidle THEN "stopwait" ELSE "stopcheck")
  /\ UNCHANGED <<runq, waiting, fate>>

\* notetsleep(&stopnote) until it is woken.
StopWait(a) ==
  /\ At(a, "stopwait")
  /\ sched.stopnote
  /\ sched' = [sched EXCEPT !.stopnote = FALSE]
  /\ Goto(a, "stopcheck")
  /\ UNCHANGED <<status, runq, waiting, fate>>

StopCheck(a) ==
  /\ At(a, "stopcheck")
  /\ ThrowUnless(sched.stopwait = 0 /\ \A p \in 0..gomaxprocs-1 : status[p] = "Pgcstop")
  /\ Goto(a, "stopped")
  /\ UNCHANGED <<sched, status, runq, waiting>>

\* procresize to new Ps (GOMAXPROCS, or the number there was) deals the queued
\* goroutines to allp[i % new] from i = 1, at most half a queue each; others
\* stay on the global queue.  The caller gets allp[0]; Ps with work get an M,
\* idle or created; the rest idles, or is dead.
Starttheworld(a, new) ==
  LET total == sched.runqsize + Cardinality(Queued(runq))
      dealt == Min({total, (new * Size) \div 2 - 1})
      deal == [p \in Ps |-> Cardinality({i \in 1..dealt : i % new = p})]
      work == {p \in Ps \ {0} : deal[p] > 0}
      idle == {b \in Ms : m[b].pc = "parked"}
      uncreated == {b \in Ms : m[b].pc = "none"}
  IN  /\ At(a, "stopped")
      /\ Locked
      /\ runq' = deal
      /\ sched' = [sched EXCEPT !.runqsize = total - dealt, !.gcwaiting = FALSE,
                                !.pidle = 1..new-1 \ work,
                                !.gomaxprocs = new]
      /\ status' = [p \in Ps |-> CASE p = 0 -> "Prunning" [] p \in 1..new-1 -> "Pidle"
                                   [] OTHER -> "Pdead"]
      /\ \E next \in Injection(work, idle \cup uncreated) :
           /\ Range(next) \subseteq idle \/ idle \subseteq Range(next)
           /\ m' = [b \in Threads |->
                IF b = a THEN [m[b] EXCEPT !.pc = "run", !.p = 0]
                ELSE IF b \in Range(next)
                THEN [m[b] EXCEPT !.pc = "woken", !.p = CHOOSE p \in work : next[p] = b]
                ELSE m[b]]
           /\ ThrowUnless(\A b \in Range(next) \cap idle : m[b].p = NoP)
      /\ UNCHANGED waiting

----------------------------------------------------------------------------
MNext(a) ==
  \/ Schedule(a) \/ Findrunnable(a) \/ FindBusy(a) \/ FindSpin(a) \/ FindSteal(a)
  \/ FindStop(a) \/ FindUnspin(a) \/ FindRecheck(a) \/ FindGrab(a)
  \/ FindPoll(a) \/ FindPolled(a)
  \/ stopm(a) \/ Acquirep(a)
  \/ Resetspinning(a) \/ ResetIdle(a) \/ ReadyIdle(a)
  \/ WakepCas(a) \/ WakepStart(a)
  \/ Ready(a) \/ Park(a) \/ Gosched(a)
  \/ Entersyscall(a) \/ EntersyscallLoad(a) \/ EntersyscallGcwait(a)
  \/ Entersyscallblock(a)
  \/ Exitsyscall(a) \/ ExitsyscallCas(a) \/ ExitsyscallPidle(a) \/ Exitsyscall0(a)
  \/ Stoptheworld(a) \/ StopCas(a) \/ StopIdle(a) \/ StopWait(a) \/ StopCheck(a)
  \/ \E new \in 1..NP : Starttheworld(a, new)

Handoff(a) ==
  Handoff1(a) \/ Handoff2(a) \/ HandoffCas(a) \/ HandoffStart(a) \/ Handoff3(a)

Next ==
  \/ \E a \in Ms : MNext(a)
  \/ \E a \in Threads : Handoff(a)
  \/ Retake(Sysmon) \/ RetakeCas(Sysmon) \/ RetakeEnd(Sysmon)

Spec == Init /\ [][Next]_vars

----------------------------------------------------------------------------
(* Properties *)

(***************************************************************************)
(* None of these checks of the scheduler on itself fails: checkdead        *)
(* reports no deadlock while a goroutine can run, and its counts agree;    *)
(* stoptheworld finds all Ps stopped and its note is woken once; acquirep  *)
(* gets an idle P for an M without one, releasep a running one; an M that  *)
(* is started neither spins nor has a P, one that parks or polls has none; *)
(* a spinning M has no local work, and nmspinning is not negative.         *)
(***************************************************************************)
NeverThrows == fate # "throw"

\* The thread has p to run on, to acquire or to hand off.
Owns(a, p) ==
  m[a].p = p /\ m[a].pc \notin {"enter", "gcwait", "syscall", "recas", "retake"}

\* A P is in one place: with one thread, on pidle, up for grabs in Psyscall,
\* or stopped; a system call's stale m.p and sysmon's stale reading of the
\* status give it to nobody else.
OneOwner ==
  fate = "ok" =>
    \A p \in Ps :
      LET owners == {a \in Threads : Owns(a, p)} IN
      /\ Cardinality(owners) + (IF p \in sched.pidle THEN 1 ELSE 0) <= 1
      /\ status[p] = "Psyscall" => owners = {} /\ p \notin sched.pidle
      /\ status[p] \in {"Pidle", "Prunning"} => owners # {} \/ p \in sched.pidle

\* While the world stops, stopwait counts the Ps that have not stopped, and
\* each of them is with a thread that will see gcwaiting: a P left behind in
\* a system call, or on pidle, would keep stoptheworld waiting for ever.
StopReaches ==
  sched.gcwaiting /\ Locked /\ fate = "ok" =>
    /\ sched.stopwait = Cardinality({p \in Ps : status[p] \notin {"Pgcstop", "Pdead"}})
    /\ sched.pidle = {}
    /\ \A p \in Ps : status[p] = "Psyscall" =>
         \E a \in Ms : m[a].p = p /\ m[a].pc \in {"enter", "gcwait"}

\* A goroutine on a queue is never left there with every M parked or away in
\* a system call and no P for sysmon to retake: whoever queued it, or whoever
\* gave up its P at that moment, noticed.
NoStranded ==
  sched.runqsize > 0 \/ (\E p \in Ps : runq[p] > 0) =>
    \/ \E a \in Threads : m[a].pc \notin {"none", "parked", "syscall", "mon"}
    \/ \E p \in Ps : status[p] = "Psyscall"

Quiet == \A a \in Threads : m[a].pc \in {"none", "parked", "run", "syscall", "mon"}

\* A spinning M that gives up and a ready that sees it spinning never leave
\* work in a local queue beside an idle P.  (handoffp may: it looks for
\* spinning Ms and idle Ps, and puts its P on pidle later, when a queue may
\* have work: sched.handed.)
WorkConserving ==
  Quiet /\ (\E p \in Ps : runq[p] > 0) => sched.pidle \subseteq sched.handed
=============================================================================
