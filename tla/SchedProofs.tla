----------------------------- MODULE SchedProofs -----------------------------
(***************************************************************************)
(* For any threads, any number of Ps and of goroutines: a P has one owner, *)
(* while the world stops no P is left behind, work on a queue is neither   *)
(* stranded nor left beside an idle P, and no check of the scheduler on    *)
(* itself fails.                                                           *)
(***************************************************************************)
EXTENDS Sched, FiniteSetTheorems, FunctionTheorems, NaturalsInduction, TLAPS

\* The places of a thread, by what it has to do with the P in m.p: it runs on
\* it; it hands it off; it stops the world with it; it left it behind, or
\* only looks at it; it has none.
Running == {"schedule", "find", "busy", "spin", "steal", "stop", "reset",
            "idle", "cas", "start", "ridle", "run"}
Handing == {"hand1", "hand2", "handcas", "handspin", "hand3", "handstart"}
Away == {"enter", "gcwait", "syscall", "recas", "retake"}
Without == {"none", "parked", "unspin", "recheck", "grab", "poll", "polled",
            "stopm", "repidle", "exit0", "mon", "monend"}

SchedType ==
  sched \in [lock: Ms \cup {NoM}, gomaxprocs: 1..NP, runqsize: Int,
             pidle: SUBSET Ps, nmspinning: Int, nmidlelocked: Int,
             polling: BOOLEAN, gcwaiting: BOOLEAN, stopwait: Int,
             stopnote: BOOLEAN, handed: SUBSET Ps]

Statuses == {"Pidle", "Prunning", "Psyscall", "Pgcstop", "Pdead"}

ThreadType ==
  [pc: Running \cup Handing \cup Stopping \cup Away \cup Without \cup {"woken"},
   p: Ps \cup {NoP}, spinning: BOOLEAN, ret: {"schedule", "find"}, i: Nat]

TypeOK ==
  /\ SchedType
  /\ status \in [Ps -> Statuses]
  /\ m \in [Threads -> ThreadType]

\* What the thread's P is to it.
Placed(a) ==
  /\ m[a].pc \in Without => m[a].p = NoP
  /\ m[a].pc \in Running => m[a].p \in Ps /\ status[m[a].p] = "Prunning"
  /\ m[a].pc \in Handing \cup {"woken"} => m[a].p \in Ps /\ status[m[a].p] = "Pidle"
  /\ m[a].pc \in Stopping => m[a].p \in Ps /\ status[m[a].p] = "Pgcstop"
  /\ m[a].pc \in {"enter", "gcwait", "retake"} => m[a].p \in Ps
  /\ m[a].pc \notin {"recheck", "stopcas"} => m[a].i = 0

PlaceInv ==
  /\ \A a \in Threads : Placed(a)
  /\ \A a \in Ms : m[a].pc \notin {"mon", "retake", "monend"}
  /\ m[Sysmon].pc \in Handing \cup {"mon", "retake", "monend"}

\* Each P that runs or idles is with one thread or on pidle.
OwnerInv ==
  /\ \A a, b \in Threads, p \in Ps : Owns(a, p) /\ Owns(b, p) => a = b
  /\ \A p \in sched.pidle : status[p] = "Pidle" /\ \A a \in Threads : ~Owns(a, p)
  /\ \A p \in Ps : status[p] \in {"Pidle", "Prunning"} =>
       p \in sched.pidle \/ \E a \in Threads : Owns(a, p)

\* The Ps that have not stopped.
Live == {p \in Ps : status[p] \notin {"Pgcstop", "Pdead"}}

\* One thread at a time stops the world, and the lock is its only while it
\* goes over the Ps; stopwait counts the Ps still to stop; a P in a system
\* call is still to be swept or has a thread that will look at gcwaiting.
WorldInv ==
  /\ \A a, b \in Ms : m[a].pc \in Stopping /\ m[b].pc \in Stopping => a = b
  /\ sched.gcwaiting <=> \E a \in Ms : m[a].pc \in Stopping
  /\ \A a \in Ms : sched.lock = a <=> m[a].pc \in {"stopcas", "stopidle"}
  /\ \A p \in Ps : status[p] = "Pdead" <=> p >= sched.gomaxprocs
  /\ ~sched.gcwaiting =>
       sched.stopwait = 0 /\ \A p \in Ps : status[p] # "Pgcstop"
  /\ sched.gcwaiting => sched.stopwait = Cardinality(Live)
  /\ sched.gcwaiting /\ sched.lock = NoM => sched.pidle = {}
  /\ sched.gcwaiting => \A p \in Ps : status[p] = "Psyscall" =>
       \/ \E a \in Ms : m[a].p = p /\ m[a].pc \in {"enter", "gcwait"}
       \/ \E a \in Ms : m[a].pc = "stopcas" /\ m[a].i <= p
  /\ fate = "ok" /\ (\E a \in Ms : m[a].pc = "stopped") => Live = {}

LenInv == runq \in [Ps -> Nat]

IndInv == TypeOK /\ LenInv /\ PlaceInv /\ OwnerInv /\ WorldInv

LEMMA LiveFinite == IsFiniteSet(Ps) /\ IsFiniteSet(Live)
<1>1. IsFiniteSet(Ps)
  BY SizesAssumption, FS_Interval DEF Ps
<1>2. Live \in SUBSET Ps
  BY DEF Live
<1> QED  BY <1>1, <1>2, FS_Subset

----------------------------------------------------------------------------
(* Types *)

\* The lesser of two numbers, which globrunqget takes.
Lesser(x, y) == Min({x, y})

LEMMA LesserOf ==
  ASSUME NEW x \in Int, NEW y \in Int
  PROVE  Lesser(x, y) = IF x <= y THEN x ELSE y
<1> DEFINE Least(v) == v \in {x, y} /\ \A w \in {x, y} : v <= w
<1>1. \E v : Least(v)
  <2>1. CASE x <= y
    BY <2>1
  <2>2. CASE ~(x <= y)
    BY <2>2
  <2> QED  BY <2>1, <2>2
<1>2. Min({x, y}) = CHOOSE v : Least(v)
  BY DEF Min
<1> HIDE DEF Least
<1>3. Least(Min({x, y}))
  BY <1>1, <1>2
<1> QED  BY <1>3 DEF Least, Lesser

\* What the two steps that several actions share do to the types.
LEMMA StopPType ==
  ASSUME TypeOK, NEW p \in Ps, NEW unspin \in BOOLEAN, StopP(p, unspin)
  PROVE  SchedType' /\ status' \in [Ps -> Statuses]
<1> DEFINE note == sched.stopnote \/ sched.stopwait = 1
           n == IF unspin THEN sched.nmspinning - 1 ELSE sched.nmspinning
           k == sched.stopwait - 1
<1>1. note \in BOOLEAN /\ n \in Int /\ k \in Int
  BY DEF TypeOK, SchedType
<1>2. sched' = [sched EXCEPT !.stopwait = k, !.stopnote = note, !.nmspinning = n]
  BY Zenon DEF StopP
<1> HIDE DEF note, n, k
<1>3. SchedType'
  BY <1>1, <1>2 DEF TypeOK, SchedType
<1>4. status' \in [Ps -> Statuses]
  BY DEF StopP, TypeOK, Statuses
<1> QED  BY <1>3, <1>4

\* globrunqget takes a goroutine or more, of those there are.
LEMMA GlobTakes ==
  ASSUME TypeOK, NEW a \in Threads, NEW max \in Nat, globrunqget(a, max)
  PROVE  \E n \in 1..sched.runqsize :
           /\ sched' = [sched EXCEPT !.runqsize = @ - n]
           /\ runq' = [runq EXCEPT ![m[a].p] = @ + n - 1]
<1> DEFINE share == Lesser(sched.runqsize, sched.runqsize \div gomaxprocs + 1)
           some == IF max > 0 THEN Lesser(share, max) ELSE share
           n == Lesser(some, Size \div 2)
<1>1. PICK z \in Int : z = sched.runqsize /\ z > 0
  BY DEF TypeOK, SchedType, globrunqget
<1>2. PICK g \in Nat : g = gomaxprocs /\ g > 0
  BY SizesAssumption DEF TypeOK, SchedType, gomaxprocs
<1>3. z \div g \in Nat /\ Size \div 2 \in Nat \ {0}
  BY <1>1, <1>2, SizesAssumption
<1>4. share \in 1..z
  <2>1. share = Lesser(z, z \div g + 1)
    BY <1>1, <1>2
  <2> HIDE DEF share
  <2>2. share = IF z <= z \div g + 1 THEN z ELSE z \div g + 1
    BY <1>3, <2>1, LesserOf
  <2> QED  BY <1>1, <1>3, <2>2
<1>5. /\ sched' = [sched EXCEPT !.runqsize = @ - n]
      /\ runq' = [runq EXCEPT ![m[a].p] = @ + n - 1]
  BY Zenon DEF globrunqget, Lesser
<1>6. some \in 1..z
  <2> HIDE DEF share
  <2>1. max > 0 => Lesser(share, max) \in 1..z
    BY <1>4, LesserOf
  <2> QED  BY <1>4, <2>1
<1>7. n \in 1..z
  <2> HIDE DEF some
  <2> QED  BY <1>3, <1>6, LesserOf
<1> HIDE DEF n
<1> QED  BY <1>1, <1>5, <1>7

LEMMA GlobType ==
  ASSUME TypeOK, NEW a \in Threads, NEW max \in Nat, globrunqget(a, max)
  PROVE  SchedType'
<1>1. PICK n \in 1..sched.runqsize : sched' = [sched EXCEPT !.runqsize = @ - n]
  BY GlobTakes
<1>2. n \in Int
  BY <1>1 DEF TypeOK, SchedType
<1> QED  BY <1>1, <1>2 DEF TypeOK, SchedType

----------------------------------------------------------------------------
(* What the actions do, as far as the invariant can tell *)

\* The places where a thread without a P is not sysmon's.
Idling == Without \ {"mon", "monend"}

\* What the invariant says of sched is as it was.
Same ==
  /\ sched'.lock = sched.lock /\ sched'.gomaxprocs = sched.gomaxprocs
  /\ sched'.pidle = sched.pidle /\ sched'.gcwaiting = sched.gcwaiting
  /\ sched'.stopwait = sched.stopwait

Only(a) == \A b \in Threads \ {a} : m'[b] = m[b]

\* The thread goes on with the P it has, or without one.
Keep(a) ==
  /\ Same /\ status' = status /\ Only(a)
  /\ m'[a].pc # "recheck" => m'[a].i = 0
  /\ m'[a].p = m[a].p
  /\ \/ m[a].pc \in Running /\ m'[a].pc \in Running
     \/ m[a].pc \in Handing /\ m'[a].pc \in Handing
     \/ m[a].pc \in Idling /\ m'[a].pc \in Idling
     \/ m[a].pc = "monend" /\ m'[a].pc = "mon"

\* Goto, for a thread that goes on.
LEMMA GotoKeep ==
  ASSUME TypeOK, PlaceInv, NEW a \in Threads, NEW l, Goto(a, l),
         m[a].pc # "recheck", l # "recheck",
         Same, SchedType', status' = status,
         \/ m[a].pc \in Running /\ l \in Running
         \/ m[a].pc \in Handing /\ l \in Handing
         \/ m[a].pc \in Idling /\ l \in Idling
         \/ m[a].pc = "monend" /\ l = "mon"
  PROVE  TypeOK' /\ Keep(a)
<1>1. m' \in [Threads -> ThreadType]
  BY DEF TypeOK, ThreadType, Goto, Idling, Without
<1>2. /\ m'[a].pc = l /\ m'[a].p = m[a].p /\ m'[a].i = m[a].i
      /\ Only(a)
  BY DEF TypeOK, ThreadType, Goto, Only
<1>3. m[a].i = 0
  BY DEF PlaceInv, Placed, Running, Handing, Idling, Without
<1> QED  BY <1>1, <1>2, <1>3 DEF Keep, TypeOK

\* globrunqget leaves the thread its P.
LEMMA GlobKeep ==
  ASSUME TypeOK, PlaceInv, NEW a \in Threads, m[a].pc \in Running,
         NEW max \in Nat, globrunqget(a, max)
  PROVE  TypeOK' /\ Keep(a)
<1>1. SchedType'
  BY GlobType
<1>2. Same
  BY DEF globrunqget, Same, TypeOK, SchedType
<1>3. Goto(a, "reset") /\ status' = status
  BY DEF globrunqget
<1> QED  BY <1>1, <1>2, <1>3, GotoKeep DEF Running

Change(p, s) == \A q \in Ps : status'[q] = IF q = p THEN s ELSE status[q]

\* What a step may not do to a thread's role.
Role(a) ==
  /\ m'[a].i = 0
  /\ m'[a].pc \in Handing \cup {"mon", "retake", "monend"} \/ a # Sysmon
  /\ m'[a].pc \notin {"mon", "retake", "monend"} \/ a = Sysmon

\* The thread stops its P, or the one it has left behind.
StopsP(a) ==
  /\ sched.gcwaiting /\ sched.lock = NoM
  /\ m[a].p \in Ps /\ Change(m[a].p, "Pgcstop")
  /\ sched'.lock = sched.lock /\ sched'.gomaxprocs = sched.gomaxprocs
  /\ sched'.pidle = sched.pidle /\ sched'.gcwaiting = sched.gcwaiting
  /\ sched'.stopwait = sched.stopwait - 1
  /\ Only(a) /\ Role(a)
  /\ \/ /\ m[a].pc \in Running \cup Handing
        /\ m'[a].p = NoP /\ m'[a].pc \in {"stopm", "syscall", "monend"}
     \/ /\ m[a].pc = "gcwait" /\ status[m[a].p] = "Psyscall"
        /\ m'[a].p = m[a].p /\ m'[a].pc = "syscall"

\* StopP, whoever calls it.
LEMMA StopPEffect ==
  ASSUME TypeOK, NEW p \in Ps, NEW unspin \in BOOLEAN, StopP(p, unspin)
  PROVE  /\ Change(p, "Pgcstop")
         /\ sched'.lock = sched.lock /\ sched'.gomaxprocs = sched.gomaxprocs
         /\ sched'.pidle = sched.pidle /\ sched'.gcwaiting = sched.gcwaiting
         /\ sched'.stopwait = sched.stopwait - 1
<1>1. Change(p, "Pgcstop")
  BY DEF StopP, Change, TypeOK
<1>2. /\ sched'.lock = sched.lock /\ sched'.gomaxprocs = sched.gomaxprocs
      /\ sched'.pidle = sched.pidle
      /\ sched'.stopwait = sched.stopwait - 1
  BY DEF StopP, TypeOK, SchedType
<1>3. sched'.gcwaiting = sched.gcwaiting
  BY DEF StopP, TypeOK, SchedType
<1> QED  BY <1>1, <1>2, <1>3

LEMMA GcstopEffect ==
  ASSUME TypeOK, PlaceInv, NEW a \in Ms, NEW l \in {"schedule", "find"},
         m[a].pc \in Running, gcstopm(a, l)
  PROVE  TypeOK' /\ StopsP(a)
<1>1. a \in Threads /\ m[a].p \in Ps /\ m[a].spinning \in BOOLEAN
  BY DEF PlaceInv, Placed, Threads, TypeOK, ThreadType
<1>2. StopP(m[a].p, m[a].spinning)
  BY DEF gcstopm
<1>3. SchedType' /\ status' \in [Ps -> Statuses]
  BY <1>1, <1>2, StopPType
<1>4. m' \in [Threads -> ThreadType]
  <2>1. m' = [m EXCEPT ![a].pc = "stopm", ![a].p = NoP, ![a].spinning = FALSE,
                       ![a].ret = l]
    BY DEF gcstopm
  <2>2. [m[a] EXCEPT !.pc = "stopm", !.p = NoP, !.spinning = FALSE, !.ret = l]
          \in ThreadType
    BY <1>1 DEF TypeOK, ThreadType, Without
  <2> QED  BY <1>1, <2>1, <2>2 DEF TypeOK
<1>5. /\ m'[a].pc = "stopm" /\ m'[a].p = NoP /\ m'[a].i = m[a].i
      /\ Only(a)
  BY <1>1 DEF gcstopm, TypeOK, ThreadType, Only
<1>6. m[a].i = 0 /\ a # Sysmon
  BY <1>1, SizesAssumption DEF PlaceInv, Placed, Running
<1>7. sched.gcwaiting /\ sched.lock = NoM
  BY DEF gcstopm, Locked
<1>8. Role(a)
  BY <1>5, <1>6 DEF Role
<1> QED  BY <1>1, <1>2, <1>3, <1>4, <1>5, <1>7, <1>8, StopPEffect DEF StopsP, TypeOK

\* The thread puts its P on pidle.
PutsIdle(a) ==
  /\ ~sched.gcwaiting /\ sched'.gcwaiting = sched.gcwaiting
  /\ sched'.lock = sched.lock /\ sched'.gomaxprocs = sched.gomaxprocs
  /\ sched'.pidle = sched.pidle \cup {m[a].p}
  /\ sched'.stopwait = sched.stopwait
  /\ m[a].pc \in Running \cup Handing
  /\ Change(m[a].p, "Pidle")
  /\ Only(a) /\ m'[a].p = NoP
  /\ m'[a].pc \in {"unspin", "recheck", "syscall", "monend"}
  /\ Role(a)

LEMMA FindEffect ==
  ASSUME TypeOK, PlaceInv, NEW a \in Ms,
         \/ Schedule(a) \/ Findrunnable(a) \/ FindBusy(a) \/ FindSpin(a)
         \/ FindSteal(a) \/ FindStop(a) \/ FindUnspin(a) \/ FindRecheck(a)
         \/ FindPoll(a) \/ FindPolled(a) \/ stopm(a)
  PROVE  TypeOK' /\ (Keep(a) \/ StopsP(a) \/ PutsIdle(a))
<1> DEFINE Only1 == sched' = sched /\ status' = status
<1>1. Only1 => Same /\ SchedType' /\ status' = status
  BY DEF Same, TypeOK, SchedType
<1>2. a \in Threads /\ a # Sysmon
  BY SizesAssumption DEF Threads
<1> HIDE DEF Only1
<1>3. CASE Schedule(a)
  <2>1. m[a].pc = "schedule"
    BY <1>3 DEF Schedule, At
  <2>2. CASE gcstopm(a, "schedule")
    BY <2>1, <2>2, GcstopEffect DEF Running
  <2>3. CASE globrunqget(a, 1)
    BY <2>1, <2>3, <1>2, GlobKeep DEF Running
  <2>4. CASE Goto(a, "run") /\ Only1
    BY <2>1, <2>4, <1>1, <1>2, GotoKeep DEF Running
  <2>5. CASE Goto(a, "find") /\ Only1
    BY <2>1, <2>5, <1>1, <1>2, GotoKeep DEF Running
  <2> QED  BY <1>3, <2>2, <2>3, <2>4, <2>5 DEF Schedule, Only1
<1>4. CASE Findrunnable(a)
  <2>1. m[a].pc = "find"
    BY <1>4 DEF Findrunnable, At
  <2>2. CASE gcstopm(a, "find")
    BY <2>1, <2>2, GcstopEffect DEF Running
  <2>3. CASE globrunqget(a, 0)
    BY <2>1, <2>3, <1>2, GlobKeep DEF Running
  <2>4. CASE Goto(a, "reset") /\ Only1
    BY <2>1, <2>4, <1>1, <1>2, GotoKeep DEF Running
  <2>5. CASE Goto(a, IF m[a].spinning THEN "steal" ELSE "busy") /\ Only1
    BY <2>1, <2>5, <1>1, <1>2, GotoKeep DEF Running
  <2> QED  BY <1>4, <2>2, <2>3, <2>4, <2>5 DEF Findrunnable, Only1
<1>5. CASE FindBusy(a)
  BY <1>5, <1>1, <1>2, GotoKeep DEF FindBusy, At, Running, Only1
<1>6. CASE FindSpin(a)
  <2>1. SchedType' /\ Same
    BY <1>6 DEF FindSpin, TypeOK, SchedType, Same
  <2>2. m' \in [Threads -> ThreadType]
    BY <1>6, ZenonT(60) DEF FindSpin, TypeOK, ThreadType, Running
  <2>3. /\ m[a].pc = "spin" /\ m'[a].pc = "steal" /\ m'[a].p = m[a].p
        /\ m'[a].i = m[a].i /\ Only(a) /\ status' = status
    BY <1>6, <1>2 DEF FindSpin, At, TypeOK, ThreadType, Only
  <2>4. m[a].i = 0
    BY <2>3, <1>2 DEF PlaceInv, Placed
  <2> QED  BY <2>1, <2>2, <2>3, <2>4 DEF Keep, TypeOK, Running
<1>7. CASE FindSteal(a)
  <2>1. m[a].pc = "steal" /\ Only1
    BY <1>7 DEF FindSteal, At, Only1
  <2>2. Goto(a, "find") \/ Goto(a, "reset") \/ Goto(a, "stop")
    BY <1>7 DEF FindSteal
  <2> QED  BY <2>1, <2>2, <1>1, <1>2, GotoKeep DEF Running
<1>8. CASE FindStop(a)
  <2>1. m[a].pc = "stop"
    BY <1>8 DEF FindStop, At
  <2>2. CASE Goto(a, "find") /\ Only1
    BY <2>1, <2>2, <1>1, <1>2, GotoKeep DEF Running
  <2>3. CASE globrunqget(a, 0)
    BY <2>1, <2>3, <1>2, GlobKeep DEF Running
  <2>4. CASE /\ ~sched.gcwaiting
             /\ status' = [status EXCEPT ![m[a].p] = "Pidle"]
             /\ sched' = [sched EXCEPT !.pidle = @ \cup {m[a].p}]
             /\ With(a, NoP, IF m[a].spinning THEN "unspin" ELSE "recheck")
    <3>1. m[a].p \in Ps /\ m[a].i = 0
      BY <2>1, <1>2 DEF PlaceInv, Placed, Running
    <3>2. SchedType'
      BY <2>4, <3>1 DEF TypeOK, SchedType
    <3>3. status' \in [Ps -> Statuses] /\ Change(m[a].p, "Pidle")
      BY <2>4, <3>1 DEF TypeOK, Statuses, Change
    <3>4. m' \in [Threads -> ThreadType]
      <4> DEFINE l == IF m[a].spinning THEN "unspin" ELSE "recheck"
      <4>1. l \in Without /\ With(a, NoP, l)
        BY <2>4 DEF Without
      <4> HIDE DEF l
      <4> QED  BY <4>1, ZenonT(60) DEF With, TypeOK, ThreadType
    <3>5. /\ m'[a].pc \in {"unspin", "recheck"} /\ m'[a].p = NoP
          /\ m'[a].i = m[a].i /\ Only(a)
      BY <2>4, <1>2 DEF With, TypeOK, ThreadType, Only
    <3>6. /\ sched'.lock = sched.lock /\ sched'.gomaxprocs = sched.gomaxprocs
          /\ sched'.pidle = sched.pidle \cup {m[a].p}
          /\ sched'.stopwait = sched.stopwait
          /\ sched'.gcwaiting = sched.gcwaiting
      BY <2>4, <3>1 DEF TypeOK, SchedType
    <3>7. Role(a)
      BY <3>1, <3>5, <1>2 DEF Role
    <3> QED  BY <2>1, <2>4, <3>2, <3>3, <3>4, <3>5, <3>6, <3>7 DEF PutsIdle, TypeOK, Running
  <2> QED  BY <1>8, <2>2, <2>3, <2>4 DEF FindStop, Only1
<1>9. CASE FindUnspin(a)
  <2>1. SchedType' /\ Same
    BY <1>9 DEF FindUnspin, TypeOK, SchedType, Same
  <2>2. m' \in [Threads -> ThreadType]
    <3>1. m' = [m EXCEPT ![a].pc = "recheck", ![a].spinning = FALSE]
      BY <1>9 DEF FindUnspin
    <3>2. "recheck" \in Without
      BY DEF Without
    <3> QED  BY <1>2, <3>1, <3>2, ZenonT(60) DEF TypeOK, ThreadType
  <2>3. /\ m[a].pc = "unspin" /\ m'[a].pc = "recheck" /\ m'[a].p = m[a].p
        /\ m'[a].i = m[a].i /\ Only(a) /\ status' = status
    BY <1>9, <1>2 DEF FindUnspin, At, TypeOK, ThreadType, Only
  <2> QED  BY <2>1, <2>2, <2>3 DEF Keep, TypeOK, Idling, Without
<1>10. CASE FindRecheck(a)
  <2>1. m[a].pc = "recheck" /\ Only1 /\ m[a].i \in Nat
    BY <1>10, <1>2 DEF FindRecheck, At, Only1, TypeOK, ThreadType
  <2>2. CASE m' = [m EXCEPT ![a].pc = "poll", ![a].i = 0]
    BY <2>1, <2>2, <1>1, <1>2 DEF TypeOK, ThreadType, Keep, Only, Idling, Without
  <2>3. CASE m' = [m EXCEPT ![a].pc = "grab", ![a].i = 0]
    BY <2>1, <2>3, <1>1, <1>2 DEF TypeOK, ThreadType, Keep, Only, Idling, Without
  <2>4. CASE m' = [m EXCEPT ![a].i = m[a].i + 1]
    BY <2>1, <2>4, <1>1, <1>2 DEF TypeOK, ThreadType, Keep, Only, Idling, Without
  <2> QED  BY <1>10, <2>2, <2>3, <2>4 DEF FindRecheck
<1>11. CASE FindPoll(a)
  <2>1. SchedType' /\ Same
    BY <1>11 DEF FindPoll, TypeOK, SchedType, Same
  <2>2. m' \in [Threads -> ThreadType]
    <3> DEFINE l == IF sched.polling THEN "stopm" ELSE "polled"
    <3>1. l \in Without /\ m' = [m EXCEPT ![a].pc = l, ![a].ret = "find"]
      BY <1>11 DEF FindPoll, Without
    <3> HIDE DEF l
    <3> QED  BY <3>1, ZenonT(60) DEF TypeOK, ThreadType
  <2>3. /\ m[a].pc = "poll" /\ m'[a].pc \in {"stopm", "polled"} /\ m'[a].p = m[a].p
        /\ m'[a].i = m[a].i /\ Only(a) /\ status' = status
    BY <1>11, <1>2 DEF FindPoll, At, TypeOK, ThreadType, Only
  <2>4. m[a].i = 0
    BY <2>3, <1>2 DEF PlaceInv, Placed
  <2> QED  BY <2>1, <2>2, <2>3, <2>4 DEF Keep, TypeOK, Idling, Without
<1>12. CASE FindPolled(a)
  <2>1. SchedType' /\ Same
    BY <1>12 DEF FindPolled, TypeOK, SchedType, Same
  <2> QED  BY <1>12, <2>1, <1>2, GotoKeep DEF FindPolled, At, Idling, Without
<1>13. CASE stopm(a)
  <2>1. SchedType' /\ Same
    BY <1>13 DEF stopm, TypeOK, SchedType, Same
  <2>2. m' \in [Threads -> ThreadType]
    <3>1. m' = [m EXCEPT ![a].pc = "parked", ![a].spinning = FALSE]
      BY <1>13 DEF stopm
    <3>2. "parked" \in Without
      BY DEF Without
    <3> QED  BY <1>2, <3>1, <3>2, ZenonT(60) DEF TypeOK, ThreadType
  <2>3. /\ m[a].pc = "stopm" /\ m'[a].pc = "parked" /\ m'[a].p = m[a].p
        /\ m'[a].i = m[a].i /\ Only(a) /\ status' = status
    BY <1>13, <1>2 DEF stopm, At, TypeOK, ThreadType, Only
  <2>4. m[a].i = 0
    BY <2>3, <1>2 DEF PlaceInv, Placed
  <2> QED  BY <2>1, <2>2, <2>3, <2>4 DEF Keep, TypeOK, Idling, Without
<1> QED  BY <1>3, <1>4, <1>5, <1>6, <1>7, <1>8, <1>9, <1>10, <1>11, <1>12, <1>13

\* The thread takes a P from pidle.
TakesIdle(a) ==
  /\ sched.lock = NoM /\ sched'.lock = sched.lock
  /\ sched'.gomaxprocs = sched.gomaxprocs
  /\ sched'.gcwaiting = sched.gcwaiting /\ sched'.stopwait = sched.stopwait
  /\ m[a].pc \in Idling /\ m'[a].pc \in Running
  /\ m'[a].p \in sched.pidle /\ sched'.pidle = sched.pidle \ {m'[a].p}
  /\ Change(m'[a].p, "Prunning")
  /\ Only(a) /\ Role(a)

LEMMA PidlegetType ==
  ASSUME TypeOK, NEW p \in sched.pidle, sched' = pidleget(p)
  PROVE  /\ SchedType'
         /\ sched'.lock = sched.lock /\ sched'.gomaxprocs = sched.gomaxprocs
         /\ sched'.gcwaiting = sched.gcwaiting /\ sched'.stopwait = sched.stopwait
         /\ sched'.pidle = sched.pidle \ {p}
<1> DEFINE S == sched.pidle \ {p}
           H == sched.handed \ {p}
<1>1. S \in SUBSET Ps /\ H \in SUBSET Ps /\ sched' = [sched EXCEPT !.pidle = S, !.handed = H]
  BY DEF pidleget, TypeOK, SchedType
<1>2. sched'.pidle = S
  BY <1>1 DEF TypeOK, SchedType
<1> HIDE DEF S, H
<1>3. SchedType'
  BY <1>1 DEF TypeOK, SchedType
<1>4. /\ sched'.lock = sched.lock /\ sched'.gomaxprocs = sched.gomaxprocs
      /\ sched'.gcwaiting = sched.gcwaiting /\ sched'.stopwait = sched.stopwait
  BY <1>1 DEF TypeOK, SchedType
<1> QED  BY <1>2, <1>3, <1>4 DEF S

LEMMA TakeIdleEffect ==
  ASSUME TypeOK, PlaceInv, NEW a \in Ms, m[a].pc \in Idling \ {"recheck"},
         NEW l \in Running, NEW l2 \in Idling \ {"recheck"}, TakeIdle(a, l, l2)
  PROVE  TypeOK' /\ (Keep(a) \/ TakesIdle(a))
<1>1. a \in Threads /\ a # Sysmon /\ m[a].i = 0 /\ sched.lock = NoM
  BY SizesAssumption DEF Threads, PlaceInv, Placed, Idling, Without, TakeIdle, Locked
<1>2. ASSUME NEW p \in sched.pidle,
             sched' = pidleget(p), status' = [status EXCEPT ![p] = "Prunning"],
             With(a, p, l)
      PROVE  TypeOK' /\ TakesIdle(a)
  <2>1. p \in Ps
    BY DEF TypeOK, SchedType
  <2>2. status' \in [Ps -> Statuses] /\ Change(p, "Prunning")
    BY <1>2, <2>1 DEF TypeOK, Statuses, Change
  <2>3. m' \in [Threads -> ThreadType]
    BY <1>2, <2>1, ZenonT(60) DEF With, TypeOK, ThreadType
  <2>4. m'[a].pc = l /\ m'[a].p = p /\ m'[a].i = m[a].i /\ Only(a)
    BY <1>1, <1>2 DEF With, TypeOK, ThreadType, Only
  <2>5. Role(a)
    BY <1>1, <2>4 DEF Role, Running
  <2>6. /\ SchedType'
        /\ sched'.lock = sched.lock /\ sched'.gomaxprocs = sched.gomaxprocs
        /\ sched'.gcwaiting = sched.gcwaiting /\ sched'.stopwait = sched.stopwait
        /\ sched'.pidle = sched.pidle \ {p}
    BY <1>2, PidlegetType
  <2> QED  BY <1>1, <2>2, <2>3, <2>4, <2>5, <2>6 DEF TakesIdle, TypeOK
<1>3. CASE Goto(a, l2) /\ UNCHANGED <<sched, status>>
  <2>1. Same /\ SchedType' /\ status' = status
    BY <1>3 DEF Same, TypeOK, SchedType
  <2>2. m[a].pc \in Idling /\ m[a].pc # "recheck" /\ l2 \in Idling /\ l2 # "recheck"
    OBVIOUS
  <2> QED  BY <1>1, <1>3, <2>1, <2>2, GotoKeep
<1> QED  BY <1>2, <1>3 DEF TakeIdle

\* The thread acquires the P it was woken with.
GetsP(a) ==
  /\ Same
  /\ m[a].pc = "woken" /\ m'[a].pc \in Running
  /\ m'[a].p = m[a].p /\ m[a].p \in Ps /\ Change(m[a].p, "Prunning")
  /\ Only(a) /\ Role(a)

LEMMA AcquireEffect ==
  ASSUME TypeOK, PlaceInv, NEW a \in Ms, Acquirep(a)
  PROVE  TypeOK' /\ GetsP(a)
<1>1. a \in Threads /\ a # Sysmon /\ m[a].pc = "woken" /\ m[a].i = 0 /\ m[a].p \in Ps
  BY SizesAssumption DEF Threads, PlaceInv, Placed, Acquirep, At
<1>2. Same /\ SchedType'
  BY DEF Acquirep, Same, TypeOK, SchedType
<1>3. status' \in [Ps -> Statuses] /\ Change(m[a].p, "Prunning")
  BY <1>1 DEF Acquirep, TypeOK, Statuses, Change
<1>4. m[a].ret \in Running /\ m' = [m EXCEPT ![a].pc = m[a].ret, ![a].ret = "schedule"]
  BY <1>1 DEF Acquirep, TypeOK, ThreadType, Running
<1>5. m' \in [Threads -> ThreadType]
  BY <1>4, ZenonT(60) DEF TypeOK, ThreadType
<1>6. m'[a].pc = m[a].ret /\ m'[a].p = m[a].p /\ m'[a].i = m[a].i /\ Only(a)
  BY <1>1, <1>4 DEF TypeOK, ThreadType, Only
<1>7. Role(a)
  BY <1>1, <1>4, <1>6 DEF Role, Running
<1> QED  BY <1>1, <1>2, <1>3, <1>4, <1>5, <1>6, <1>7 DEF GetsP, TypeOK

\* A thread is started with a P from pidle.
StartsIdle(a) ==
  /\ sched.lock = NoM /\ sched'.lock = sched.lock
  /\ sched'.gomaxprocs = sched.gomaxprocs
  /\ sched'.gcwaiting = sched.gcwaiting /\ sched'.stopwait = sched.stopwait
  /\ status' = status
  /\ m[a].pc \in Running /\ m'[a].pc \in Running /\ m'[a].p = m[a].p /\ m'[a].i = 0
  /\ \E b \in Ms :
       /\ m[b].pc \in {"parked", "none"} /\ m'[b].pc = "woken" /\ m'[b].i = 0
       /\ m'[b].p \in sched.pidle /\ sched'.pidle = sched.pidle \ {m'[b].p}
       /\ \A c \in Threads \ {a, b} : m'[c] = m[c]

\* What startm does to the threads.
LEMMA StartmEffect ==
  ASSUME TypeOK, PlaceInv, NEW a \in Threads, NEW p \in Ps, NEW s \in BOOLEAN,
         NEW l \in Running \cup Away \cup Without, m[a].pc \notin Idling,
         startm(a, p, s, l)
  PROVE  /\ m' \in [Threads -> ThreadType]
         /\ \E b \in Ms \ {a} :
              /\ m[b].pc \in {"parked", "none"} /\ m'[b].pc = "woken" /\ m'[b].i = 0
              /\ m'[b].p = p /\ m'[b].spinning = s
              /\ \A c \in Threads \ {a, b} : m'[c] = m[c]
         /\ m'[a].pc = l /\ m'[a].i = m[a].i /\ m'[a].spinning = m[a].spinning
         /\ m'[a].p = IF m[a].p = p THEN NoP ELSE m[a].p
<1> DEFINE q == IF m[a].p = p THEN NoP ELSE m[a].p
<1>1. PICK b \in Ms :
        /\ m[b].pc \in {"parked", "none"}
        /\ m' = [m EXCEPT ![a].pc = l, ![a].p = q,
                          ![b].pc = "woken", ![b].p = p, ![b].spinning = s]
  BY DEF startm
<1>2. q \in Ps \cup {NoP}
  BY DEF TypeOK, ThreadType
<1>3. b # a /\ b \in Threads /\ m[b].i = 0
  BY <1>1 DEF Idling, Without, Threads, PlaceInv, Placed
<1> HIDE DEF q
<1>8. m'[a] = [m[a] EXCEPT !.pc = l, !.p = q]
  BY <1>1, <1>3 DEF TypeOK
<1>9. m'[b] = [m[b] EXCEPT !.pc = "woken", !.p = p, !.spinning = s]
  BY <1>1, <1>3 DEF TypeOK
<1>4. /\ \A c \in Threads \ {a, b} : m'[c] = m[c]
      /\ m' = [c \in Threads |-> m'[c]]
  BY <1>1, <1>3 DEF TypeOK
<1>5. /\ m'[a] \in ThreadType /\ m'[a].pc = l /\ m'[a].i = m[a].i /\ m'[a].p = q
      /\ m'[a].spinning = m[a].spinning
  <2> DEFINE t == m[a]
             u == m'[a]
  <2>1. t \in ThreadType /\ u = [t EXCEPT !.pc = l, !.p = q]
    BY <1>8 DEF TypeOK
  <2> HIDE DEF t, u
  <2>2. u \in ThreadType /\ u.pc = l /\ u.i = t.i /\ u.p = q /\ u.spinning = t.spinning
    BY <1>2, <2>1 DEF ThreadType
  <2> QED  BY <2>2 DEF t, u
<1>6. /\ m'[b] \in ThreadType /\ m'[b].pc = "woken" /\ m'[b].i = m[b].i /\ m'[b].p = p
      /\ m'[b].spinning = s
  <2> DEFINE t == m[b]
             u == m'[b]
  <2>1. t \in ThreadType /\ u = [t EXCEPT !.pc = "woken", !.p = p, !.spinning = s]
    BY <1>3, <1>9 DEF TypeOK
  <2> HIDE DEF t, u
  <2>2. u \in ThreadType /\ u.pc = "woken" /\ u.i = t.i /\ u.p = p /\ u.spinning = s
    BY <2>1 DEF ThreadType
  <2> QED  BY <2>2 DEF t, u
<1>7. m' \in [Threads -> ThreadType]
  BY <1>4, <1>5, <1>6 DEF TypeOK
<1> QED  BY <1>1, <1>3, <1>4, <1>5, <1>6, <1>7 DEF q

LEMMA WakeEffect ==
  ASSUME TypeOK, PlaceInv, OwnerInv, NEW a \in Ms,
         \/ Resetspinning(a) \/ ResetIdle(a) \/ ReadyIdle(a) \/ WakepCas(a)
         \/ WakepStart(a) \/ Ready(a) \/ Park(a) \/ Gosched(a)
  PROVE  TypeOK' /\ (Keep(a) \/ StartsIdle(a))
<1> DEFINE Only1 == sched' = sched /\ status' = status
<1>1. Only1 => Same /\ SchedType' /\ status' = status
  BY DEF Same, TypeOK, SchedType
<1>2. a \in Threads /\ a # Sysmon
  BY SizesAssumption DEF Threads
<1> HIDE DEF Only1
<1>3. CASE Resetspinning(a)
  <2> DEFINE n == IF m[a].spinning THEN sched.nmspinning - 1 ELSE sched.nmspinning
             l == IF n = 0 THEN "idle" ELSE "run"
  <2>1. n \in Int /\ sched' = [sched EXCEPT !.nmspinning = n]
    BY <1>3 DEF Resetspinning, TypeOK, SchedType
  <2>2. l \in Running /\ m' = [m EXCEPT ![a].pc = l, ![a].spinning = FALSE]
    BY <1>3 DEF Resetspinning, Running
  <2> HIDE DEF n, l
  <2>3. SchedType' /\ Same
    BY <2>1 DEF TypeOK, SchedType, Same
  <2>4. m' \in [Threads -> ThreadType]
    BY <2>2, ZenonT(60) DEF TypeOK, ThreadType
  <2>5. /\ m[a].pc = "reset" /\ m'[a].pc = l /\ m'[a].p = m[a].p
        /\ m'[a].i = m[a].i /\ Only(a) /\ status' = status
    BY <1>3, <2>2, <1>2 DEF Resetspinning, At, TypeOK, ThreadType, Only
  <2>6. m[a].i = 0
    BY <2>5, <1>2 DEF PlaceInv, Placed
  <2> QED  BY <2>2, <2>3, <2>4, <2>5, <2>6 DEF Keep, TypeOK, Running
<1>4. CASE ResetIdle(a)
  BY <1>4, <1>1, <1>2, GotoKeep DEF ResetIdle, At, Running, Only1
<1>5. CASE ReadyIdle(a)
  BY <1>5, <1>1, <1>2, GotoKeep DEF ReadyIdle, At, Running, Only1
<1>6. CASE WakepCas(a)
  <2>1. m[a].pc = "cas" /\ (Goto(a, "start") \/ Goto(a, "run")) /\ status' = status
    BY <1>6 DEF WakepCas, At
  <2>2. SchedType' /\ Same
    BY <1>6 DEF WakepCas, TypeOK, SchedType, Same
  <2> QED  BY <2>1, <2>2, <1>2, GotoKeep DEF Running
<1>7. CASE WakepStart(a)
  <2>1. m[a].pc = "start" /\ status' = status /\ sched.lock = NoM /\ m[a].i = 0
    BY <1>7, <1>2 DEF WakepStart, At, Locked, PlaceInv, Placed
  <2>2. ASSUME NEW p \in sched.pidle, sched' = pidleget(p), startm(a, p, TRUE, "run")
        PROVE  TypeOK' /\ StartsIdle(a)
    <3>1. p \in Ps /\ m[a].p # p
      BY <1>2, <2>1 DEF TypeOK, SchedType, OwnerInv, Owns
    <3>2. /\ m' \in [Threads -> ThreadType]
          /\ \E b \in Ms \ {a} :
              /\ m[b].pc \in {"parked", "none"} /\ m'[b].pc = "woken" /\ m'[b].i = 0
              /\ m'[b].p = p
              /\ \A c \in Threads \ {a, b} : m'[c] = m[c]
          /\ m'[a].pc = "run" /\ m'[a].i = m[a].i
          /\ m'[a].p = IF m[a].p = p THEN NoP ELSE m[a].p
      <4>1. PICK s \in BOOLEAN : startm(a, p, s, "run")
        BY <2>2
      <4>2. m[a].pc \notin Idling /\ "run" \in Running \cup Away \cup Without
        BY <2>1 DEF Idling, Without, Running
      <4> QED  BY <1>2, <3>1, <4>1, <4>2, StartmEffect
    <3>3. /\ SchedType'
          /\ sched'.lock = sched.lock /\ sched'.gomaxprocs = sched.gomaxprocs
          /\ sched'.gcwaiting = sched.gcwaiting /\ sched'.stopwait = sched.stopwait
          /\ sched'.pidle = sched.pidle \ {p}
      BY <2>2, PidlegetType
    <3> QED  BY <2>1, <3>1, <3>2, <3>3 DEF StartsIdle, TypeOK, Running
  <2>3. CASE Goto(a, "run") /\ sched' = [sched EXCEPT !.nmspinning = @ - 1]
    <3>1. SchedType' /\ Same
      BY <2>3 DEF TypeOK, SchedType, Same
    <3> QED  BY <2>1, <2>3, <3>1, <1>2, GotoKeep DEF Running
  <2> QED  BY <1>7, <2>2, <2>3 DEF WakepStart
<1>8. CASE Ready(a)
  <2>1. m[a].pc = "run" /\ Goto(a, "ridle") /\ status' = status
    BY <1>8 DEF Ready, At
  <2>2. SchedType' /\ Same
    <3>1. CASE sched' = sched
      BY <3>1 DEF TypeOK, SchedType, Same
    <3>2. CASE sched' = [sched EXCEPT !.runqsize = @ + Size \div 2 + 1]
      <4>1. PICK n \in Nat : n = Size \div 2
        BY SizesAssumption
      <4>2. PICK z \in Int : z = sched.runqsize + n + 1
        BY DEF TypeOK, SchedType
      <4>3. sched' = [sched EXCEPT !.runqsize = z]
        BY <3>2, <4>1, <4>2
      <4> QED  BY <4>3 DEF TypeOK, SchedType, Same
    <3> QED  BY <1>8, <3>1, <3>2 DEF Ready
  <2> QED  BY <2>1, <2>2, <1>2, GotoKeep DEF Running
<1>9. CASE Park(a)
  BY <1>9, <1>1, <1>2, GotoKeep DEF Park, At, Running, Only1
<1>10. CASE Gosched(a)
  <2>1. SchedType' /\ Same
    BY <1>10 DEF Gosched, TypeOK, SchedType, Same
  <2> QED  BY <1>10, <2>1, <1>2, GotoKeep DEF Gosched, At, Running
<1> QED  BY <1>3, <1>4, <1>5, <1>6, <1>7, <1>8, <1>9, <1>10

\* The thread leaves its P behind in a system call, or releases it to hand it
\* off.
LeavesP(a) ==
  /\ Same
  /\ m[a].pc \in Running /\ m'[a].p = m[a].p /\ m[a].p \in Ps
  /\ \/ m'[a].pc = "enter" /\ Change(m[a].p, "Psyscall")
     \/ m'[a].pc = "hand1" /\ Change(m[a].p, "Pidle")
  /\ Only(a) /\ Role(a)

\* A P left behind goes back to its thread, or to sysmon.
GrabsP(a) ==
  /\ Same
  /\ m'[a].p = m[a].p /\ m[a].p \in Ps /\ status[m[a].p] = "Psyscall"
  /\ \/ m[a].pc = "recas" /\ m'[a].pc = "run" /\ Change(m[a].p, "Prunning")
     \/ m[a].pc = "retake" /\ m'[a].pc = "hand1" /\ Change(m[a].p, "Pidle")
  /\ Only(a) /\ Role(a)

\* A thread without a P of its own looks at the one it left behind, or, if it
\* is sysmon, at any.
Looks(a) ==
  /\ Same /\ status' = status /\ Only(a) /\ Role(a)
  /\ m[a].pc \in Away \cup {"mon"}
  /\ \/ m'[a].pc \in Without /\ m'[a].p = NoP
     \/ m'[a].pc = "retake" /\ m'[a].p \in Ps
     \/ m'[a].pc \in {"gcwait", "syscall", "recas"} /\ m'[a].p = m[a].p
  /\ m[a].pc \in {"enter", "gcwait"} /\ sched.gcwaiting /\ status[m[a].p] = "Psyscall" =>
       m'[a].pc = "gcwait" /\ m'[a].p = m[a].p
  /\ m'[a].pc = "gcwait" => m[a].pc = "enter"

LEMMA LookEffect ==
  ASSUME TypeOK, PlaceInv, NEW a \in Threads, NEW l, NEW q \in Ps \cup {NoP},
         m[a].pc \in Away \cup {"mon"},
         (Goto(a, l) /\ q = m[a].p) \/ With(a, q, l), SchedType', Same, status' = status,
         \/ l \in Without \ {"recheck"} /\ q = NoP
         \/ l = "retake" /\ q \in Ps
         \/ l \in {"gcwait", "syscall", "recas"} /\ q = m[a].p,
         m[a].pc \in {"enter", "gcwait"} /\ sched.gcwaiting /\ status[m[a].p] = "Psyscall"
           => l = "gcwait",
         l = "gcwait" => m[a].pc = "enter",
         l \in {"mon", "retake", "monend"} <=> a = Sysmon
  PROVE  TypeOK' /\ Looks(a)
<1>1. l \in Away \cup Without
  BY DEF Away
<1>2. m' \in [Threads -> ThreadType]
  BY <1>1 DEF TypeOK, ThreadType, Goto, With
<1>3. m'[a].pc = l /\ m'[a].p = q /\ m'[a].i = m[a].i /\ Only(a)
  BY DEF TypeOK, ThreadType, Goto, With, Only
<1>4. m[a].i = 0
  BY DEF PlaceInv, Placed, Away
<1>5. Role(a)
  BY <1>3, <1>4 DEF Role
<1> QED  BY <1>2, <1>3, <1>5 DEF Looks, TypeOK, Without

LEMMA SyscallEffect ==
  ASSUME TypeOK, PlaceInv, WorldInv, NEW a \in Ms,
         \/ Entersyscall(a) \/ EntersyscallLoad(a) \/ EntersyscallGcwait(a)
         \/ Entersyscallblock(a) \/ Exitsyscall(a) \/ ExitsyscallCas(a)
         \/ ExitsyscallPidle(a) \/ Exitsyscall0(a) \/ FindGrab(a)
  PROVE  TypeOK' /\ (LeavesP(a) \/ Looks(a) \/ StopsP(a) \/ GrabsP(a)
                      \/ TakesIdle(a) \/ Keep(a))
<1> DEFINE Only1 == sched' = sched /\ status' = status
<1>1. Only1 => Same /\ SchedType' /\ status' = status
  BY DEF Same, TypeOK, SchedType
<1>2. a \in Threads /\ a # Sysmon /\ m[a].p \in Ps \cup {NoP}
  BY SizesAssumption DEF Threads, TypeOK, ThreadType
<1>3. sched' = sched => Same /\ SchedType'
  BY DEF Same, TypeOK, SchedType
<1> HIDE DEF Only1
<1>4. CASE Entersyscall(a) \/ Entersyscallblock(a)
  <2>1. m[a].pc = "run" /\ m[a].p \in Ps /\ m[a].i = 0 /\ sched' = sched
    BY <1>2, <1>4 DEF Entersyscall, Entersyscallblock, At, PlaceInv, Placed, Running
  <2>2. \/ Goto(a, "enter") /\ status' = [status EXCEPT ![m[a].p] = "Psyscall"]
        \/ Goto(a, "hand1") /\ status' = [status EXCEPT ![m[a].p] = "Pidle"]
    BY <1>4 DEF Entersyscall, Entersyscallblock
  <2>3. status' \in [Ps -> Statuses]
    BY <2>1, <2>2 DEF TypeOK, Statuses
  <2>4. m' \in [Threads -> ThreadType]
    BY <2>2 DEF TypeOK, ThreadType, Goto, Away, Handing
  <2>5. /\ m'[a].p = m[a].p /\ m'[a].i = m[a].i /\ Only(a)
        /\ \/ m'[a].pc = "enter" /\ Change(m[a].p, "Psyscall")
           \/ m'[a].pc = "hand1" /\ Change(m[a].p, "Pidle")
    BY <1>2, <2>1, <2>2 DEF TypeOK, ThreadType, Goto, Only, Change
  <2>6. Role(a)
    BY <1>2, <2>1, <2>5 DEF Role
  <2> QED  BY <1>3, <2>1, <2>3, <2>4, <2>5, <2>6 DEF LeavesP, TypeOK, Running
<1>5. CASE EntersyscallLoad(a)
  <2>1. m[a].pc = "enter" /\ Only1
    BY <1>5 DEF EntersyscallLoad, At, Only1
  <2>2. CASE sched.gcwaiting /\ Goto(a, "gcwait")
    BY <1>1, <1>2, <2>1, <2>2, LookEffect DEF Away
  <2>3. CASE ~sched.gcwaiting /\ Goto(a, "syscall")
    BY <1>1, <1>2, <2>1, <2>3, LookEffect DEF Away
  <2> QED  BY <1>5, <2>2, <2>3 DEF EntersyscallLoad
<1>6. CASE EntersyscallGcwait(a)
  <2>1. m[a].pc = "gcwait" /\ m[a].p \in Ps /\ m[a].i = 0 /\ sched.lock = NoM
        /\ Goto(a, "syscall")
    BY <1>6, <1>2 DEF EntersyscallGcwait, At, PlaceInv, Placed, Locked
  <2>2. CASE sched.stopwait > 0 /\ status[m[a].p] = "Psyscall" /\ StopP(m[a].p, FALSE)
    <3>1. SchedType' /\ status' \in [Ps -> Statuses]
      BY <2>1, <2>2, StopPType
    <3>2. m' \in [Threads -> ThreadType]
      BY <2>1 DEF TypeOK, ThreadType, Goto, Away
    <3>3. m'[a].pc = "syscall" /\ m'[a].p = m[a].p /\ m'[a].i = m[a].i /\ Only(a)
      BY <1>2, <2>1 DEF TypeOK, ThreadType, Goto, Only
    <3>4. Role(a)
      BY <1>2, <2>1, <3>3 DEF Role
    <3>5. sched.gcwaiting
      BY <2>2 DEF WorldInv
    <3> QED  BY <2>1, <2>2, <3>1, <3>2, <3>3, <3>4, <3>5, StopPEffect DEF StopsP, TypeOK
  <2>3. CASE ~(sched.stopwait > 0 /\ status[m[a].p] = "Psyscall") /\ Only1
    <3>1. ~(sched.gcwaiting /\ status[m[a].p] = "Psyscall")
      <4>1. SUFFICES ASSUME sched.gcwaiting, status[m[a].p] = "Psyscall" PROVE FALSE
        OBVIOUS
      <4>2. m[a].p \in Live /\ IsFiniteSet(Live) /\ sched.stopwait = Cardinality(Live)
        BY <2>1, <4>1, LiveFinite DEF Live, WorldInv
      <4>3. Cardinality(Live) \in Nat /\ Cardinality(Live) # 0
        BY <4>2, FS_CardinalityType, FS_EmptySet
      <4> QED  BY <2>3, <4>1, <4>2, <4>3
    <3> QED  BY <1>1, <1>2, <2>1, <2>3, <3>1, LookEffect DEF Away
  <2> QED  BY <1>6, <2>2, <2>3 DEF EntersyscallGcwait, Only1
<1>7. CASE Exitsyscall(a)
  <2>1. m[a].pc = "syscall" /\ Only1
    BY <1>7 DEF Exitsyscall, At, Only1
  <2>2. CASE With(a, NoP, "exit0")
    BY <1>1, <1>2, <2>1, <2>2, LookEffect DEF Away, Without
  <2>3. CASE Goto(a, "recas")
    BY <1>1, <1>2, <2>1, <2>3, LookEffect DEF Away
  <2> QED  BY <1>7, <2>2, <2>3 DEF Exitsyscall
<1>8. CASE ExitsyscallCas(a)
  <2>1. m[a].pc = "recas" /\ sched' = sched /\ m[a].i = 0
    BY <1>2, <1>8 DEF ExitsyscallCas, At, PlaceInv, Placed
  <2>2. CASE /\ m[a].p # NoP /\ status[m[a].p] = "Psyscall"
             /\ status' = [status EXCEPT ![m[a].p] = "Prunning"]
             /\ Goto(a, "run")
    <3>1. m[a].p \in Ps
      BY <1>2, <2>2
    <3>2. status' \in [Ps -> Statuses] /\ Change(m[a].p, "Prunning")
      BY <2>2, <3>1 DEF TypeOK, Statuses, Change
    <3>3. m' \in [Threads -> ThreadType]
      BY <2>2, ZenonT(60) DEF TypeOK, ThreadType, Goto, Running
    <3>4. m'[a].pc = "run" /\ m'[a].p = m[a].p /\ m'[a].i = m[a].i /\ Only(a)
      BY <1>2, <2>2 DEF TypeOK, ThreadType, Goto, Only
    <3>5. Role(a)
      BY <1>2, <2>1, <3>4 DEF Role
    <3> QED  BY <1>3, <2>1, <2>2, <3>1, <3>2, <3>3, <3>4, <3>5 DEF GrabsP, TypeOK
  <2>3. CASE /\ With(a, NoP, IF sched.pidle # {} THEN "repidle" ELSE "exit0")
             /\ UNCHANGED status
    <3>1. With(a, NoP, "repidle") \/ With(a, NoP, "exit0")
      BY <2>3
    <3> QED  BY <1>2, <1>3, <2>1, <2>3, <3>1, LookEffect DEF Away, Without
  <2> QED  BY <1>8, <2>2, <2>3 DEF ExitsyscallCas
<1>9. CASE ExitsyscallPidle(a)
  BY <1>9, TakeIdleEffect DEF ExitsyscallPidle, At, Idling, Without, Running
<1>10. CASE Exitsyscall0(a)
  <2>1. m[a].pc = "exit0"
    BY <1>10 DEF Exitsyscall0, At
  <2>2. CASE TakeIdle(a, "run", "exit0")
    BY <2>1, <2>2, TakeIdleEffect DEF Idling, Without, Running
  <2>3. CASE /\ sched' = [sched EXCEPT !.runqsize = @ + 1]
             /\ Goto(a, "stopm")
             /\ UNCHANGED status
    <3>1. SchedType' /\ Same
      BY <2>3 DEF TypeOK, SchedType, Same
    <3> QED  BY <1>2, <2>1, <2>3, <3>1, GotoKeep DEF Idling, Without
  <2> QED  BY <1>10, <2>2, <2>3 DEF Exitsyscall0
<1>11. CASE FindGrab(a)
  BY <1>11, TakeIdleEffect DEF FindGrab, At, Idling, Without, Running
<1> QED  BY <1>4, <1>5, <1>6, <1>7, <1>8, <1>9, <1>10, <1>11

\* A thread is started with the P of this one.
HandsOn(a) ==
  /\ Same /\ status' = status
  /\ m[a].pc \in Handing /\ m'[a].p = NoP /\ m'[a].pc \in {"syscall", "monend"}
  /\ Role(a)
  /\ \E b \in Ms \ {a} :
       /\ m[b].pc \in {"parked", "none"} /\ m'[b].pc = "woken" /\ m'[b].i = 0
       /\ m'[b].p = m[a].p
       /\ \A c \in Threads \ {a, b} : m'[c] = m[c]

LEMMA HandoffEffect ==
  ASSUME TypeOK, PlaceInv, NEW a \in Threads, Handoff(a)
  PROVE  TypeOK' /\ (Keep(a) \/ StopsP(a) \/ PutsIdle(a) \/ HandsOn(a))
<1> DEFINE Only1 == sched' = sched /\ status' = status
<1>1. Only1 => Same /\ SchedType' /\ status' = status
  BY DEF Same, TypeOK, SchedType
<1> HIDE DEF Only1
<1>2. Back(a) \in {"syscall", "monend"} /\ (Back(a) = "monend" <=> a = Sysmon)
  BY DEF Back
<1>3. CASE Handoff1(a)
  BY <1>3, <1>1, GotoKeep DEF Handoff1, At, Handing, Only1
<1>4. CASE Handoff2(a)
  BY <1>4, <1>1, GotoKeep DEF Handoff2, At, Handing, Only1
<1>5. CASE HandoffCas(a)
  <2>1. m[a].pc = "handcas" /\ (Goto(a, "handspin") \/ Goto(a, "hand3")) /\ status' = status
    BY <1>5 DEF HandoffCas, At
  <2>2. SchedType' /\ Same
    BY <1>5 DEF HandoffCas, TypeOK, SchedType, Same
  <2> QED  BY <2>1, <2>2, GotoKeep DEF Handing
<1>6. CASE HandoffStart(a)
  <2>1. m[a].pc \in Handing /\ m[a].p \in Ps /\ m[a].i = 0 /\ m[a].pc \notin Idling /\ Only1
    BY <1>6 DEF HandoffStart, At, Handing, PlaceInv, Placed, Idling, Without, Only1
  <2> DEFINE s == m[a].pc = "handspin"
             p == m[a].p
             l == Back(a)
  <2>2. s \in BOOLEAN
    OBVIOUS
  <2>3. startm(a, p, s, l)
    BY <1>6 DEF HandoffStart
  <2>4. l \in Running \cup Away \cup Without /\ p = m[a].p /\ l = Back(a)
    BY <1>2 DEF Away, Without
  <2> HIDE DEF s, p, l
  <2>5. /\ m' \in [Threads -> ThreadType]
        /\ \E b \in Ms \ {a} :
             /\ m[b].pc \in {"parked", "none"} /\ m'[b].pc = "woken" /\ m'[b].i = 0
             /\ m'[b].p = p
             /\ \A c \in Threads \ {a, b} : m'[c] = m[c]
        /\ m'[a].pc = l /\ m'[a].i = m[a].i
        /\ m'[a].p = IF m[a].p = p THEN NoP ELSE m[a].p
    BY <2>1, <2>2, <2>3, <2>4, StartmEffect
  <2>6. Role(a)
    BY <1>2, <2>1, <2>4, <2>5 DEF Role
  <2> QED  BY <1>1, <1>2, <2>1, <2>4, <2>5, <2>6 DEF HandsOn, TypeOK
<1>7. CASE Handoff3(a)
  <2>1. /\ m[a].pc = "hand3" /\ m[a].pc \in Handing /\ m[a].p \in Ps /\ m[a].i = 0
        /\ sched.lock = NoM /\ status[m[a].p] = "Pidle"
    BY <1>7 DEF Handoff3, At, Handing, PlaceInv, Placed, Locked
  <2>2. CASE Goto(a, "handstart") /\ Only1
    BY <1>1, <2>1, <2>2, GotoKeep DEF Handing
  <2>3. ASSUME With(a, NoP, Back(a))
        PROVE  /\ m' \in [Threads -> ThreadType]
               /\ m'[a].pc = Back(a) /\ m'[a].p = NoP /\ Only(a) /\ Role(a)
    <3>1. m' \in [Threads -> ThreadType]
      <4> DEFINE l == Back(a)
      <4>1. l \in Away \cup Without /\ With(a, NoP, l)
        BY <1>2, <2>3 DEF Away, Without
      <4> HIDE DEF l
      <4> QED  BY <4>1, ZenonT(60) DEF With, TypeOK, ThreadType
    <3>2. m'[a].pc = Back(a) /\ m'[a].p = NoP /\ m'[a].i = m[a].i /\ Only(a)
      BY <2>3 DEF With, TypeOK, ThreadType, Only
    <3>3. Role(a)
      BY <1>2, <2>1, <3>2 DEF Role
    <3> QED  BY <3>1, <3>2, <3>3
  <2>4. CASE sched.gcwaiting /\ StopP(m[a].p, FALSE) /\ With(a, NoP, Back(a))
    <3>1. SchedType' /\ status' \in [Ps -> Statuses]
      BY <2>1, <2>4, StopPType
    <3> QED  BY <1>2, <2>1, <2>3, <2>4, <3>1, StopPEffect DEF StopsP, TypeOK
  <2>5. CASE /\ ~sched.gcwaiting
             /\ sched' = [sched EXCEPT !.pidle = @ \cup {m[a].p},
                                       !.handed = IF \E p \in Ps : runq[p] > 0
                                                  THEN @ \cup {m[a].p} ELSE @]
             /\ With(a, NoP, Back(a)) /\ status' = status
    <3> DEFINE S == sched.pidle \cup {m[a].p}
               H == IF \E p \in Ps : runq[p] > 0 THEN sched.handed \cup {m[a].p}
                    ELSE sched.handed
    <3>1. S \in SUBSET Ps /\ H \in SUBSET Ps
      BY <2>1 DEF TypeOK, SchedType
    <3>2. sched' = [sched EXCEPT !.pidle = S, !.handed = H]
      BY <2>5, Zenon
    <3> HIDE DEF S, H
    <3>3. SchedType'
      BY <3>1, <3>2 DEF TypeOK, SchedType
    <3>4. /\ sched'.lock = sched.lock /\ sched'.gomaxprocs = sched.gomaxprocs
          /\ sched'.pidle = S /\ sched'.stopwait = sched.stopwait
          /\ sched'.gcwaiting = sched.gcwaiting
      BY <3>2 DEF TypeOK, SchedType
    <3>5. Change(m[a].p, "Pidle")
      BY <2>1, <2>5 DEF Change
    <3> QED  BY <1>2, <2>1, <2>3, <2>5, <3>3, <3>4, <3>5 DEF PutsIdle, TypeOK, S
  <2> QED  BY <1>7, <2>2, <2>4, <2>5 DEF Handoff3, Only1
<1> QED  BY <1>3, <1>4, <1>5, <1>6, <1>7 DEF Handoff

LEMMA SysmonEffect ==
  ASSUME TypeOK, PlaceInv, Retake(Sysmon) \/ RetakeCas(Sysmon) \/ RetakeEnd(Sysmon)
  PROVE  TypeOK' /\ (Looks(Sysmon) \/ GrabsP(Sysmon) \/ Keep(Sysmon))
<1>1. Sysmon \in Threads /\ m[Sysmon].p \in Ps \cup {NoP}
  BY DEF Threads, TypeOK, ThreadType
<1>2. CASE Retake(Sysmon)
  <2>1. m[Sysmon].pc = "mon" /\ status' = status
    BY <1>2 DEF Retake, At
  <2>2. SchedType' /\ Same
    BY <1>2 DEF Retake, incidlelocked, TypeOK, SchedType, Same
  <2>3. PICK p \in Ps : With(Sysmon, p, "retake")
    BY <1>2 DEF Retake
  <2> QED  BY <1>1, <2>1, <2>2, <2>3, LookEffect
<1>3. CASE RetakeCas(Sysmon)
  <2>1. m[Sysmon].pc = "retake" /\ sched' = sched /\ m[Sysmon].i = 0 /\ m[Sysmon].p \in Ps
    BY <1>1, <1>3 DEF RetakeCas, At, PlaceInv, Placed
  <2>2. Same /\ SchedType'
    BY <2>1 DEF Same, TypeOK, SchedType
  <2>3. CASE /\ status[m[Sysmon].p] = "Psyscall"
             /\ status' = [status EXCEPT ![m[Sysmon].p] = "Pidle"]
             /\ Goto(Sysmon, "hand1")
    <3>1. status' \in [Ps -> Statuses] /\ Change(m[Sysmon].p, "Pidle")
      BY <2>1, <2>3 DEF TypeOK, Statuses, Change
    <3>2. m' \in [Threads -> ThreadType]
      BY <2>3 DEF TypeOK, ThreadType, Goto, Handing
    <3>3. /\ m'[Sysmon].pc = "hand1" /\ m'[Sysmon].p = m[Sysmon].p
          /\ m'[Sysmon].i = m[Sysmon].i /\ Only(Sysmon)
      BY <1>1, <2>3 DEF TypeOK, ThreadType, Goto, Only
    <3>4. Role(Sysmon)
      BY <2>1, <3>3 DEF Role, Handing
    <3> QED  BY <2>1, <2>2, <2>3, <3>1, <3>2, <3>3, <3>4 DEF GrabsP, TypeOK
  <2>4. CASE With(Sysmon, NoP, "monend") /\ UNCHANGED status
    BY <1>1, <2>1, <2>2, <2>4, LookEffect DEF Away, Without
  <2> QED  BY <1>3, <2>3, <2>4 DEF RetakeCas
<1>4. CASE RetakeEnd(Sysmon)
  <2>1. SchedType' /\ Same
    BY <1>4 DEF RetakeEnd, incidlelocked, TypeOK, SchedType, Same
  <2> QED  BY <1>1, <1>4, <2>1, GotoKeep DEF RetakeEnd, At
<1> QED  BY <1>2, <1>3, <1>4

----------------------------------------------------------------------------
(* What they do keeps the invariant *)

Held == PlaceInv /\ OwnerInv /\ WorldInv

\* Who owns a P is at a place that says so.
LEMMA OwnerPlace ==
  ASSUME TypeOK, PlaceInv, NEW a \in Threads, NEW p \in Ps
  PROVE  /\ Owns(a, p) => m[a].p = p /\ m[a].pc \in Running \cup Handing \cup Stopping \cup {"woken"}
         /\ Owns(a, p) => status[p] \in {"Prunning", "Pidle", "Pgcstop"}
         /\ m[a].pc \in Running \cup Handing \cup Stopping \cup {"woken"} => Owns(a, m[a].p)
<1>1. p # NoP
  BY SizesAssumption DEF Ps, NoP
<1>2. Owns(a, p) => m[a].p = p /\ m[a].pc \in Running \cup Handing \cup Stopping \cup {"woken"}
  BY <1>1 DEF TypeOK, ThreadType, PlaceInv, Placed, Owns, Away
<1>3. Owns(a, p) => status[p] \in {"Prunning", "Pidle", "Pgcstop"}
  BY <1>2 DEF PlaceInv, Placed
<1>4. m[a].pc \in Running \cup Handing \cup Stopping \cup {"woken"} => Owns(a, m[a].p)
  BY DEF Owns, Running, Handing, Stopping
<1> QED  BY <1>2, <1>3, <1>4

\* A thread keeps its place when neither it nor the status of its P changes.
LEMMA PlaceKept ==
  ASSUME TypeOK, PlaceInv, NEW a \in Threads, m'[a] = m[a],
         \A q \in Ps : Owns(a, q) => status'[q] = status[q]
  PROVE  Placed(a)'
<1>1. m[a].pc \in Running \cup Handing \cup Stopping \cup {"woken"} =>
        status'[m[a].p] = status[m[a].p]
  <2>1. m[a].pc \in Running \cup Handing \cup Stopping \cup {"woken"} =>
          m[a].p \in Ps /\ Owns(a, m[a].p)
    BY DEF PlaceInv, Placed, Owns, Running, Handing, Stopping
  <2> QED  BY <2>1
<1> QED  BY <1>1 DEF PlaceInv, Placed

LEMMA RoleKept ==
  ASSUME PlaceInv, NEW a \in Threads, Only(a), Role(a)
  PROVE  /\ \A b \in Ms : m'[b].pc \notin {"mon", "retake", "monend"}
         /\ m'[Sysmon].pc \in Handing \cup {"mon", "retake", "monend"}
BY SizesAssumption DEF PlaceInv, Only, Role, Threads

\* The world stops, or not, as before.
LEMMA WorldKept ==
  ASSUME TypeOK, WorldInv, fate = "ok",
         \A b \in Ms : /\ m'[b].pc \in Stopping <=> m[b].pc \in Stopping
                       /\ m[b].pc \in Stopping => m'[b] = m[b],
         Live' = Live,
         sched'.lock = sched.lock, sched'.gomaxprocs = sched.gomaxprocs,
         sched'.gcwaiting = sched.gcwaiting, sched'.stopwait = sched.stopwait,
         sched.gcwaiting /\ sched.lock = NoM => sched'.pidle = {},
         \A q \in Ps : /\ status'[q] = "Pdead" <=> status[q] = "Pdead"
                       /\ status'[q] = "Pgcstop" => status[q] = "Pgcstop",
         sched.gcwaiting => \A q \in Ps : status'[q] = "Psyscall" =>
           \/ \E b \in Ms : m'[b].p = q /\ m'[b].pc \in {"enter", "gcwait"}
           \/ \E b \in Ms : m'[b].pc = "stopcas" /\ m'[b].i <= q
  PROVE  WorldInv'
<1>1. (\A b, c \in Ms : m[b].pc \in Stopping /\ m[c].pc \in Stopping => b = c)'
  BY DEF WorldInv
<1>2. (sched.gcwaiting <=> \E b \in Ms : m[b].pc \in Stopping)'
  BY DEF WorldInv
<1>3. (\A b \in Ms : sched.lock = b <=> m[b].pc \in {"stopcas", "stopidle"})'
  BY DEF WorldInv, Stopping
<1>4. (\A q \in Ps : status[q] = "Pdead" <=> q >= sched.gomaxprocs)'
  BY DEF WorldInv
<1>5. (~sched.gcwaiting => sched.stopwait = 0 /\ \A q \in Ps : status[q] # "Pgcstop")'
  BY DEF WorldInv
<1>6. (sched.gcwaiting => sched.stopwait = Cardinality(Live))'
  BY DEF WorldInv
<1>7. (fate = "ok" /\ (\E b \in Ms : m[b].pc = "stopped") => Live = {})'
  BY DEF WorldInv, Stopping
<1> QED  BY <1>1, <1>2, <1>3, <1>4, <1>5, <1>6, <1>7 DEF WorldInv

LEMMA KeepHolds ==
  ASSUME IndInv, TypeOK', fate = "ok", NEW a \in Threads, Keep(a)
  PROVE  Held'
<1> USE DEF IndInv
<1>1. PlaceInv'
  BY SizesAssumption DEF PlaceInv, Placed, Keep, Only, Running, Handing, Idling, Without,
                         Stopping, Threads
<1>2. OwnerInv'
  <2>1. \A b \in Threads, p \in Ps : Owns(b, p)' <=> Owns(b, p)
    BY DEF Keep, Only, Owns, Running, Handing, Idling, Without
  <2>2. status' = status /\ sched'.pidle = sched.pidle
    BY DEF Keep, Same
  <2>3. (\A b, c \in Threads, p \in Ps : Owns(b, p) /\ Owns(c, p) => b = c)'
    BY <2>1 DEF OwnerInv
  <2>4. (\A p \in sched.pidle : status[p] = "Pidle" /\ \A b \in Threads : ~Owns(b, p))'
    BY <2>1, <2>2 DEF OwnerInv, TypeOK, SchedType
  <2>5. (\A p \in Ps : status[p] \in {"Pidle", "Prunning"} =>
          p \in sched.pidle \/ \E b \in Threads : Owns(b, p))'
    BY <2>1, <2>2 DEF OwnerInv
  <2> QED  BY <2>3, <2>4, <2>5 DEF OwnerInv
<1>3. WorldInv'
  <2>1. \A b \in Ms : /\ m'[b].pc \in Stopping <=> m[b].pc \in Stopping
                      /\ m[b].pc \in Stopping => m'[b] = m[b]
                      /\ m[b].pc \in {"enter", "gcwait"} => m'[b] = m[b]
    BY DEF Keep, Only, Running, Handing, Idling, Without, Stopping, Threads
  <2>2. Live' = Live
    BY DEF Live, Keep
  <2>3. sched.gcwaiting => \A q \in Ps : status'[q] = "Psyscall" =>
          \/ \E b \in Ms : m'[b].p = q /\ m'[b].pc \in {"enter", "gcwait"}
          \/ \E b \in Ms : m'[b].pc = "stopcas" /\ m'[b].i <= q
    BY <2>1 DEF WorldInv, Keep, Stopping
  <2>4. sched.gcwaiting /\ sched.lock = NoM => sched'.pidle = {}
    BY DEF WorldInv, Keep, Same
  <2>5. status' = status /\ Same
    BY DEF Keep
  <2> QED  BY <2>1, <2>2, <2>3, <2>4, <2>5, WorldKept DEF Same
<1> QED  BY <1>1, <1>2, <1>3 DEF Held

\* The Ps that have not stopped, when the status of one changes.
LEMMA LiveChange ==
  ASSUME TypeOK, NEW p \in Ps, NEW s, Change(p, s), p \in Live
  PROVE  /\ s \notin {"Pgcstop", "Pdead"} => Live' = Live
         /\ s = "Pgcstop" =>
              Live' = Live \ {p} /\ Cardinality(Live') = Cardinality(Live) - 1
<1>1. s \notin {"Pgcstop", "Pdead"} => Live' = Live
  BY DEF Live, Change
<1>2. s = "Pgcstop" => Live' = Live \ {p}
  BY DEF Live, Change
<1>3. IsFiniteSet(Live)
  BY LiveFinite
<1>4. Cardinality(Live \ {p}) = Cardinality(Live) - 1
  BY <1>3, FS_RemoveElement
<1> QED  BY <1>1, <1>2, <1>4

LEMMA StopsHolds ==
  ASSUME IndInv, TypeOK', fate = "ok", NEW a \in Threads, StopsP(a)
  PROVE  Held'
<1> USE DEF IndInv
<1> DEFINE p == m[a].p
<1>1. p \in Ps /\ status[p] \in {"Prunning", "Pidle", "Psyscall"}
  BY DEF StopsP, PlaceInv, Placed
<1>2. \A b \in Threads \ {a} : ~Owns(b, p)
  <2>1. CASE m[a].pc \in Running \cup Handing
    BY <1>1, <2>1, OwnerPlace DEF OwnerInv
  <2>2. CASE status[p] = "Psyscall"
    BY <1>1, <2>2, OwnerPlace
  <2> QED  BY <2>1, <2>2 DEF StopsP
<1>3. /\ \A b \in Threads \ {a} : m'[b] = m[b]
      /\ \A q \in Ps : status'[q] = IF q = p THEN "Pgcstop" ELSE status[q]
  BY DEF StopsP, Only, Change
<1>4. PlaceInv'
  <2>1. \A b \in Threads \ {a} : Placed(b)'
    BY <1>2, <1>3, PlaceKept
  <2>2. Placed(a)'
    BY DEF Placed, StopsP, Role, Running, Handing, Stopping, Without
  <2> QED  BY <2>1, <2>2, RoleKept DEF PlaceInv, StopsP
<1>5. OwnerInv'
  <2>1. \A q \in Ps : /\ ~Owns(a, q)'
                      /\ \A b \in Threads \ {a} : Owns(b, q)' <=> Owns(b, q)
    BY <1>3 DEF StopsP, Owns, NoP, Ps
  <2>2. sched'.pidle = sched.pidle /\ p \notin sched.pidle
    <3>1. sched.pidle = {}
      BY DEF StopsP, WorldInv
    <3> QED  BY <3>1 DEF StopsP
  <2>3. (\A b, c \in Threads, q \in Ps : Owns(b, q) /\ Owns(c, q) => b = c)'
    BY <2>1 DEF OwnerInv
  <2>4. (\A q \in sched.pidle : status[q] = "Pidle" /\ \A b \in Threads : ~Owns(b, q))'
    BY <1>3, <2>1, <2>2 DEF OwnerInv, TypeOK, SchedType
  <2>5. (\A q \in Ps : status[q] \in {"Pidle", "Prunning"} =>
          q \in sched.pidle \/ \E b \in Threads : Owns(b, q))'
    <3>1. \A q \in Ps \ {p} : Owns(a, q) => FALSE
      BY DEF Owns
    <3> QED  BY <1>3, <2>1, <2>2, <3>1 DEF OwnerInv
  <2> QED  BY <2>3, <2>4, <2>5 DEF OwnerInv
<1>6. WorldInv'
  <2>1. \A b \in Ms : /\ m'[b].pc \in Stopping <=> m[b].pc \in Stopping
                      /\ m'[b].pc \in Stopping => m'[b] = m[b]
    BY <1>3 DEF StopsP, Running, Handing, Stopping, Threads
  <2>2. Live' = Live \ {p} /\ Cardinality(Live') = Cardinality(Live) - 1
    BY <1>1, LiveChange DEF StopsP, Live
  <2>3. /\ sched.gcwaiting /\ sched'.gcwaiting /\ sched.lock = NoM /\ sched'.lock = NoM
        /\ sched'.pidle = sched.pidle
        /\ sched'.gomaxprocs = sched.gomaxprocs
        /\ sched'.stopwait = sched.stopwait - 1
    BY DEF StopsP
  <2>4. \A q \in Ps : status'[q] = "Psyscall" =>
          \E b \in Ms : m'[b].p = q /\ m'[b].pc \in {"enter", "gcwait"}
    <3> SUFFICES ASSUME NEW q \in Ps, status'[q] = "Psyscall"
                 PROVE  \E b \in Ms : m'[b].p = q /\ m'[b].pc \in {"enter", "gcwait"}
      OBVIOUS
    <3>1. q # p /\ status[q] = "Psyscall"
      BY <1>3
    <3>2. PICK b \in Ms : m[b].p = q /\ m[b].pc \in {"enter", "gcwait"}
      BY <2>3, <3>1, SizesAssumption DEF WorldInv
    <3> QED  BY <1>3, <3>1, <3>2 DEF Threads
  <2>5. (\A b, c \in Ms : m[b].pc \in Stopping /\ m[c].pc \in Stopping => b = c)'
    BY <2>1 DEF WorldInv
  <2>6. (sched.gcwaiting <=> \E b \in Ms : m[b].pc \in Stopping)'
    BY <2>1, <2>3 DEF WorldInv
  <2>7. (\A b \in Ms : sched.lock = b <=> m[b].pc \in {"stopcas", "stopidle"})'
    BY <2>1, <2>3 DEF WorldInv, Stopping
  <2>8. (\A q \in Ps : status[q] = "Pdead" <=> q >= sched.gomaxprocs)'
    BY <1>1, <1>3, <2>3 DEF WorldInv
  <2>9. (sched.gcwaiting => sched.stopwait = Cardinality(Live))'
    BY <2>2, <2>3 DEF WorldInv
  <2>10. (fate = "ok" /\ (\E b \in Ms : m[b].pc = "stopped") => Live = {})'
    BY <2>1, <2>2 DEF WorldInv, Stopping
  <2>11. (sched.gcwaiting /\ sched.lock = NoM => sched.pidle = {})'
    BY <2>3 DEF WorldInv
  <2> QED  BY <2>3, <2>4, <2>5, <2>6, <2>7, <2>8, <2>9, <2>10, <2>11 DEF WorldInv
<1> QED  BY <1>4, <1>5, <1>6 DEF Held

\* One P changes its status and its place, by a step of the one thread that
\* may own it.
LEMMA OwnerMoves ==
  ASSUME TypeOK, OwnerInv, TypeOK', NEW a \in Threads, NEW p \in Ps, NEW s,
         Only(a), Change(p, s),
         \A b \in Threads \ {a} : ~Owns(b, p),
         \A q \in Ps \ {p} : /\ Owns(a, q)' <=> Owns(a, q)
                             /\ q \in sched'.pidle <=> q \in sched.pidle,
         p \in sched'.pidle => s = "Pidle" /\ ~Owns(a, p)',
         s \in {"Pidle", "Prunning"} => Owns(a, p)' \/ p \in sched'.pidle
  PROVE  OwnerInv'
<1>1. \A q \in Ps, b \in Threads \ {a} : Owns(b, q)' <=> Owns(b, q)
  BY DEF Only, Owns
<1>2. \A q \in Ps \ {p} : status'[q] = status[q]
  BY DEF Change
<1>3. status'[p] = s
  BY DEF Change
<1>4. sched.pidle \subseteq Ps /\ sched'.pidle \subseteq Ps
  BY DEF TypeOK, SchedType
<1>5. (\A b, c \in Threads, q \in Ps : Owns(b, q) /\ Owns(c, q) => b = c)'
  <2> SUFFICES ASSUME NEW b \in Threads, NEW c \in Threads, NEW q \in Ps,
                      Owns(b, q)', Owns(c, q)'
               PROVE  b = c
    OBVIOUS
  <2>1. CASE q = p
    BY <1>1, <2>1
  <2>2. CASE q # p
    <3>1. Owns(b, q) /\ Owns(c, q)
      BY <1>1, <2>2
    <3> QED  BY <3>1 DEF OwnerInv
  <2> QED  BY <2>1, <2>2
<1>6. (\A q \in sched.pidle : status[q] = "Pidle" /\ \A b \in Threads : ~Owns(b, q))'
  <2> SUFFICES ASSUME NEW q \in sched'.pidle
               PROVE  status'[q] = "Pidle" /\ \A b \in Threads : ~Owns(b, q)'
    OBVIOUS
  <2>1. CASE q = p
    BY <1>1, <1>3, <2>1
  <2>2. CASE q # p
    <3>1. q \in Ps /\ q \in sched.pidle
      BY <1>4, <2>2
    <3>2. status[q] = "Pidle" /\ \A b \in Threads : ~Owns(b, q)
      BY <3>1 DEF OwnerInv
    <3> QED  BY <1>1, <1>2, <2>2, <3>1, <3>2
  <2> QED  BY <2>1, <2>2
<1>7. (\A q \in Ps : status[q] \in {"Pidle", "Prunning"} =>
        q \in sched.pidle \/ \E b \in Threads : Owns(b, q))'
  <2> SUFFICES ASSUME NEW q \in Ps, status'[q] \in {"Pidle", "Prunning"}
               PROVE  q \in sched'.pidle \/ \E b \in Threads : Owns(b, q)'
    OBVIOUS
  <2>1. CASE q = p
    BY <1>3, <2>1
  <2>2. CASE q # p
    <3>1. q \in sched.pidle \/ \E b \in Threads : Owns(b, q)
      BY <1>2, <2>2 DEF OwnerInv
    <3> QED  BY <1>1, <2>2, <3>1
  <2> QED  BY <2>1, <2>2
<1> QED  BY <1>5, <1>6, <1>7 DEF OwnerInv

\* The others keep their places when the P that changes is none of theirs.
LEMMA PlaceMoves ==
  ASSUME TypeOK, PlaceInv, NEW a \in Threads, NEW p \in Ps, NEW s,
         Only(a), Change(p, s), Role(a),
         \A b \in Threads \ {a} : ~Owns(b, p),
         Placed(a)'
  PROVE  PlaceInv'
<1>1. \A b \in Threads \ {a} : Placed(b)'
  <2> SUFFICES ASSUME NEW b \in Threads \ {a} PROVE Placed(b)'
    OBVIOUS
  <2>1. m'[b] = m[b] /\ \A q \in Ps : Owns(b, q) => status'[q] = status[q]
    BY DEF Only, Change
  <2> QED  BY <2>1, PlaceKept
<1> QED  BY <1>1, RoleKept DEF PlaceInv

LEMMA PutsHolds ==
  ASSUME IndInv, TypeOK', fate = "ok", NEW a \in Threads, PutsIdle(a)
  PROVE  Held'
<1> USE DEF IndInv
<1> DEFINE p == m[a].p
<1>1. p \in Ps /\ status[p] \in {"Prunning", "Pidle"} /\ Owns(a, p)
  BY DEF PutsIdle, PlaceInv, Placed, Owns, Running, Handing
<1>2. \A b \in Threads \ {a} : ~Owns(b, p)
  BY <1>1 DEF OwnerInv
<1>3. /\ Only(a) /\ Change(p, "Pidle") /\ Role(a)
      /\ m'[a].p = NoP /\ m'[a].pc \in {"unspin", "recheck", "syscall", "monend"}
      /\ sched'.pidle = sched.pidle \cup {p}
  BY DEF PutsIdle
<1>4. \A q \in Ps : ~Owns(a, q)'
  BY <1>3, SizesAssumption DEF Owns, NoP, Ps
<1>5. PlaceInv'
  <2>1. Placed(a)'
    BY <1>3 DEF Placed, Role, Running, Handing, Stopping
  <2> QED  BY <1>1, <1>2, <1>3, <2>1, PlaceMoves
<1>6. OwnerInv'
  <2>1. \A q \in Ps \ {p} : Owns(a, q)' <=> Owns(a, q)
    BY <1>4 DEF Owns
  <2>2. \A q \in Ps \ {p} : q \in sched'.pidle <=> q \in sched.pidle
    BY <1>3
  <2> QED  BY <1>1, <1>2, <1>3, <1>4, <2>1, <2>2, OwnerMoves
<1>7. WorldInv'
  <2>1. \A b \in Ms : /\ m'[b].pc \in Stopping <=> m[b].pc \in Stopping
                      /\ m[b].pc \in Stopping => m'[b] = m[b]
    BY <1>3 DEF PutsIdle, Only, Running, Handing, Stopping, Threads
  <2>2. Live' = Live
    <3>1. p \in Live
      BY <1>1 DEF Live
    <3> QED  BY <1>1, <1>3, <3>1, LiveChange
  <2>3. \A q \in Ps : /\ status'[q] = "Pdead" <=> status[q] = "Pdead"
                      /\ status'[q] = "Pgcstop" => status[q] = "Pgcstop"
    BY <1>1, <1>3 DEF Change
  <2> QED  BY <2>1, <2>2, <2>3, WorldKept DEF PutsIdle
<1> QED  BY <1>5, <1>6, <1>7 DEF Held

LEMMA TakesHolds ==
  ASSUME IndInv, TypeOK', fate = "ok", NEW a \in Threads, TakesIdle(a)
  PROVE  Held'
<1> USE DEF IndInv
<1>0. PICK p \in sched.pidle : m'[a].p = p
  BY DEF TakesIdle
<1>1. p \in Ps /\ status[p] = "Pidle" /\ p \in sched.pidle
  BY DEF OwnerInv, TypeOK, SchedType
<1>2. \A b \in Threads : ~Owns(b, p)
  BY <1>1 DEF OwnerInv
<1>3. /\ Only(a) /\ Change(p, "Prunning") /\ Role(a)
      /\ m'[a].pc \in Running /\ sched'.pidle = sched.pidle \ {p}
      /\ m'[a].p = p
  BY <1>0 DEF TakesIdle
<1>4. Owns(a, p)' /\ \A q \in Ps \ {p} : ~Owns(a, q)'
  BY <1>3 DEF Owns, Running
<1>5. \A q \in Ps : ~Owns(a, q)
  BY OwnerPlace DEF TakesIdle, Idling, Without, Running, Handing, Stopping
<1>6. PlaceInv'
  <2>1. Placed(a)'
    BY <1>1, <1>3 DEF Placed, Role, Running, Handing, Stopping, Without, Change
  <2> QED  BY <1>1, <1>2, <1>3, <2>1, PlaceMoves
<1>7. OwnerInv'
  <2>1. \A q \in Ps \ {p} : q \in sched'.pidle <=> q \in sched.pidle
    BY <1>3
  <2>2. p \notin sched'.pidle
    BY <1>3
  <2> QED  BY <1>1, <1>2, <1>3, <1>4, <1>5, <2>1, <2>2, OwnerMoves
<1>8. WorldInv'
  <2>1. \A b \in Ms : /\ m'[b].pc \in Stopping <=> m[b].pc \in Stopping
                      /\ m[b].pc \in Stopping => m'[b] = m[b]
    BY <1>3 DEF TakesIdle, Only, Running, Idling, Without, Stopping, Threads
  <2>2. Live' = Live
    <3>1. p \in Live
      BY <1>1 DEF Live
    <3> QED  BY <1>1, <1>3, <3>1, LiveChange
  <2>3. \A q \in Ps : /\ status'[q] = "Pdead" <=> status[q] = "Pdead"
                      /\ status'[q] = "Pgcstop" => status[q] = "Pgcstop"
    BY <1>1, <1>3 DEF Change
  <2>4. ~sched.gcwaiting
    BY <1>1 DEF WorldInv, TakesIdle
  <2> QED  BY <2>1, <2>2, <2>3, <2>4, WorldKept DEF TakesIdle
<1> QED  BY <1>6, <1>7, <1>8 DEF Held

\* A P that changes with its owner: acquired, left behind, handed off or
\* grabbed back.
LEMMA ChangesHolds ==
  ASSUME IndInv, TypeOK', fate = "ok", NEW a \in Threads,
         GetsP(a) \/ LeavesP(a) \/ GrabsP(a)
  PROVE  Held'
<1> USE DEF IndInv
<1> DEFINE p == m[a].p
<1>1. p \in Ps /\ status[p] \in {"Pidle", "Prunning", "Psyscall"}
  BY DEF GetsP, LeavesP, GrabsP, PlaceInv, Placed
<1>2. \A b \in Threads \ {a} : ~Owns(b, p)
  <2>1. CASE GetsP(a) \/ LeavesP(a)
    BY <1>1, <2>1, OwnerPlace DEF GetsP, LeavesP, OwnerInv
  <2>2. CASE GrabsP(a)
    BY <1>1, <2>2, OwnerPlace DEF GrabsP
  <2> QED  BY <2>1, <2>2
<1>3. p \notin sched.pidle
  <2>1. CASE GetsP(a) \/ LeavesP(a)
    BY <1>1, <2>1, OwnerPlace DEF GetsP, LeavesP, OwnerInv
  <2>2. CASE GrabsP(a)
    BY <1>1, <2>2 DEF GrabsP, OwnerInv
  <2> QED  BY <2>1, <2>2
<1>4. PICK s \in {"Pidle", "Prunning", "Psyscall"} :
        /\ Change(p, s)
        /\ \/ s = "Prunning" /\ m'[a].pc \in Running
           \/ s = "Pidle" /\ m'[a].pc = "hand1"
           \/ s = "Psyscall" /\ m'[a].pc = "enter"
  BY DEF GetsP, LeavesP, GrabsP, Running
<1>5. Only(a) /\ Role(a) /\ Same /\ m'[a].p = p
  BY DEF GetsP, LeavesP, GrabsP
<1>6. m[a].pc \in Running \cup {"woken", "recas", "retake"}
  BY DEF GetsP, LeavesP, GrabsP
<1>7. \A q \in Ps \ {p} : ~Owns(a, q)' /\ ~Owns(a, q)
  BY <1>5 DEF Owns
<1>8. s \in {"Pidle", "Prunning"} => Owns(a, p)'
  BY <1>4, <1>5 DEF Owns, Running
<1>9. PlaceInv'
  <2>1. Placed(a)'
    BY <1>1, <1>4, <1>5 DEF Placed, Role, Running, Handing, Stopping, Without, Change
  <2> QED  BY <1>1, <1>2, <1>4, <1>5, <2>1, PlaceMoves
<1>10. OwnerInv'
  BY <1>1, <1>2, <1>3, <1>4, <1>5, <1>7, <1>8, OwnerMoves DEF Same
<1>11. WorldInv'
  <2>1. \A b \in Ms : /\ m'[b].pc \in Stopping <=> m[b].pc \in Stopping
                      /\ m[b].pc \in Stopping => m'[b] = m[b]
                      /\ m[b].pc \in {"enter", "gcwait"} => m'[b] = m[b]
    BY <1>4, <1>5, <1>6 DEF Only, Running, Stopping, Threads
  <2>2. Live' = Live
    <3>1. p \in Live
      BY <1>1 DEF Live
    <3> QED  BY <1>1, <1>4, <3>1, LiveChange
  <2>3. \A q \in Ps : /\ status'[q] = "Pdead" <=> status[q] = "Pdead"
                      /\ status'[q] = "Pgcstop" => status[q] = "Pgcstop"
    BY <1>1, <1>4 DEF Change
  <2>4. sched.gcwaiting => \A q \in Ps : status'[q] = "Psyscall" =>
          \/ \E b \in Ms : m'[b].p = q /\ m'[b].pc \in {"enter", "gcwait"}
          \/ \E b \in Ms : m'[b].pc = "stopcas" /\ m'[b].i <= q
    <3> SUFFICES ASSUME sched.gcwaiting, NEW q \in Ps, status'[q] = "Psyscall"
                 PROVE  \/ \E b \in Ms : m'[b].p = q /\ m'[b].pc \in {"enter", "gcwait"}
                        \/ \E b \in Ms : m'[b].pc = "stopcas" /\ m'[b].i <= q
      OBVIOUS
    <3>1. CASE q = p
      <4>1. m'[a].pc = "enter"
        BY <1>4, <3>1 DEF Change
      <4>2. a \in Ms
        BY <1>5, <4>1 DEF Role, Threads, Handing
      <4> QED  BY <1>5, <3>1, <4>1, <4>2
    <3>2. CASE q # p
      <4>1. status[q] = "Psyscall"
        BY <1>4, <3>2 DEF Change
      <4> QED  BY <2>1, <4>1 DEF WorldInv, Stopping
    <3> QED  BY <3>1, <3>2
  <2>5. sched.gcwaiting /\ sched.lock = NoM => sched'.pidle = {}
    BY <1>5 DEF WorldInv, Same
  <2> QED  BY <1>5, <2>1, <2>2, <2>3, <2>4, <2>5, WorldKept DEF Same
<1> QED  BY <1>9, <1>10, <1>11 DEF Held

LEMMA LooksHolds ==
  ASSUME IndInv, TypeOK', fate = "ok", NEW a \in Threads, Looks(a)
  PROVE  Held'
<1> USE DEF IndInv
<1>1. Only(a) /\ Role(a) /\ Same /\ status' = status
  BY DEF Looks
<1>2. \A q \in Ps : ~Owns(a, q)
  BY OwnerPlace DEF Looks, Away, Running, Handing, Stopping
<1>3. \A q \in Ps : ~Owns(a, q)'
  <2>1. NoP \notin Ps
    BY SizesAssumption DEF NoP, Ps
  <2> QED  BY <2>1 DEF Looks, Owns
<1>4. PlaceInv'
  <2>1. \A b \in Threads \ {a} : Placed(b)'
    BY <1>1, PlaceKept DEF Only
  <2>2. Placed(a)'
    <3>1. m'[a].pc \in {"gcwait"} => m'[a].p \in Ps
      BY DEF Looks, PlaceInv, Placed, Without
    <3> QED  BY <1>1, <3>1 DEF Placed, Looks, Role, Running, Handing, Stopping, Without
  <2> QED  BY <1>1, <2>1, <2>2, RoleKept DEF PlaceInv
<1>5. OwnerInv'
  <2>1. \A b \in Threads, q \in Ps : Owns(b, q)' <=> Owns(b, q)
    <3>1. \A b \in Threads \ {a}, q \in Ps : Owns(b, q)' <=> Owns(b, q)
      BY <1>1 DEF Only, Owns
    <3> QED  BY <1>2, <1>3, <3>1
  <2>2. status' = status /\ sched'.pidle = sched.pidle
    BY <1>1 DEF Same
  <2>3. (\A b, c \in Threads, p \in Ps : Owns(b, p) /\ Owns(c, p) => b = c)'
    BY <2>1 DEF OwnerInv
  <2>4. (\A p \in sched.pidle : status[p] = "Pidle" /\ \A b \in Threads : ~Owns(b, p))'
    BY <2>1, <2>2 DEF OwnerInv, TypeOK, SchedType
  <2>5. (\A p \in Ps : status[p] \in {"Pidle", "Prunning"} =>
          p \in sched.pidle \/ \E b \in Threads : Owns(b, p))'
    BY <2>1, <2>2 DEF OwnerInv
  <2> QED  BY <2>3, <2>4, <2>5 DEF OwnerInv
<1>6. WorldInv'
  <2>1. \A b \in Ms : /\ m'[b].pc \in Stopping <=> m[b].pc \in Stopping
                      /\ m[b].pc \in Stopping => m'[b] = m[b]
    BY <1>1 DEF Looks, Only, Away, Without, Stopping, Threads
  <2>2. Live' = Live
    BY <1>1 DEF Live
  <2>3. sched.gcwaiting => \A q \in Ps : status'[q] = "Psyscall" =>
          \/ \E b \in Ms : m'[b].p = q /\ m'[b].pc \in {"enter", "gcwait"}
          \/ \E b \in Ms : m'[b].pc = "stopcas" /\ m'[b].i <= q
    <3> SUFFICES ASSUME sched.gcwaiting, NEW q \in Ps, status[q] = "Psyscall"
                 PROVE  \/ \E b \in Ms : m'[b].p = q /\ m'[b].pc \in {"enter", "gcwait"}
                        \/ \E b \in Ms : m'[b].pc = "stopcas" /\ m'[b].i <= q
      BY <1>1
    <3>1. \A b \in Ms : m[b].p = q /\ m[b].pc \in {"enter", "gcwait"} =>
            m'[b].p = q /\ m'[b].pc \in {"enter", "gcwait"}
      BY <1>1 DEF Looks, Only, Threads
    <3> QED  BY <2>1, <3>1 DEF WorldInv, Stopping
  <2>4. sched.gcwaiting /\ sched.lock = NoM => sched'.pidle = {}
    BY <1>1 DEF WorldInv, Same
  <2> QED  BY <1>1, <2>1, <2>2, <2>3, <2>4, WorldKept DEF Same
<1> QED  BY <1>4, <1>5, <1>6 DEF Held

\* A thread is started: the P goes to it from pidle or from the other.
LEMMA StartHolds ==
  ASSUME IndInv, TypeOK', fate = "ok", NEW a \in Threads, StartsIdle(a) \/ HandsOn(a)
  PROVE  Held'
<1> USE DEF IndInv
<1>1. PICK b \in Ms :
        /\ m[b].pc \in {"parked", "none"} /\ m'[b].pc = "woken" /\ m'[b].i = 0
        /\ \A c \in Threads \ {a, b} : m'[c] = m[c]
        /\ StartsIdle(a) => m'[b].p \in sched.pidle /\ sched'.pidle = sched.pidle \ {m'[b].p}
        /\ HandsOn(a) => m'[b].p = m[a].p /\ sched'.pidle = sched.pidle
  BY DEF StartsIdle, HandsOn, Same
<1>2. b \in Threads /\ a # b
  BY <1>1 DEF Threads, StartsIdle, HandsOn, Running, Handing
<1>3. PICK p \in Ps : m'[b].p = p
  <2>1. m'[b].p \in Ps
    BY <1>1 DEF HandsOn, PlaceInv, Placed, TypeOK, SchedType
  <2> QED  BY <2>1
<1>4. /\ status' = status
      /\ sched'.lock = sched.lock /\ sched'.gomaxprocs = sched.gomaxprocs
      /\ sched'.gcwaiting = sched.gcwaiting /\ sched'.stopwait = sched.stopwait
      /\ sched'.pidle = sched.pidle \ {p}
  <2>1. CASE StartsIdle(a)
    BY <1>1, <1>3, <2>1 DEF StartsIdle
  <2>2. CASE HandsOn(a)
    <3>1. Owns(a, p)
      BY <1>1, <1>3, <2>2 DEF HandsOn, Owns, Handing
    <3>2. p \notin sched.pidle
      BY <3>1 DEF OwnerInv
    <3> QED  BY <1>1, <2>2, <3>2 DEF HandsOn, Same
  <2> QED  BY <2>1, <2>2
<1>5. status[p] = "Pidle" /\ \A c \in Threads \ {a} : ~Owns(c, p)
  <2>1. CASE StartsIdle(a)
    BY <1>1, <1>3, <2>1 DEF OwnerInv
  <2>2. CASE HandsOn(a)
    <3>1. Owns(a, p) /\ status[p] = "Pidle"
      BY <1>1, <1>3, <2>2 DEF HandsOn, Owns, Handing, PlaceInv, Placed
    <3> QED  BY <3>1 DEF OwnerInv
  <2> QED  BY <2>1, <2>2
<1>6. \A q \in Ps : /\ Owns(b, q)' <=> q = p
                    /\ ~Owns(b, q)
                    /\ Owns(a, q)' <=> Owns(a, q) /\ q # p
  <2>1. \A q \in Ps : (Owns(b, q)' <=> q = p) /\ ~Owns(b, q)
    BY <1>1, <1>2, <1>3, OwnerPlace DEF Owns, Running, Handing, Stopping
  <2>2. CASE StartsIdle(a)
    <3>1. ~Owns(a, p)
      BY <1>1, <1>3, <2>2 DEF OwnerInv
    <3>2. \A q \in Ps : Owns(a, q)' <=> Owns(a, q)
      BY <2>2 DEF StartsIdle, Owns, Running
    <3> QED  BY <2>1, <3>1, <3>2
  <2>3. CASE HandsOn(a)
    <3>1. m[a].p = p /\ m'[a].p = NoP /\ NoP \notin Ps
      BY <1>1, <1>3, <2>3, SizesAssumption DEF HandsOn, NoP, Ps
    <3> QED  BY <2>1, <3>1 DEF Owns
  <2> QED  BY <2>2, <2>3
<1>7. PlaceInv'
  <2>1. \A c \in Threads \ {a, b} : Placed(c)'
    BY <1>1, <1>4, PlaceKept
  <2>2. Placed(b)'
    BY <1>1, <1>3, <1>4, <1>5 DEF Placed, Running, Stopping, Without
  <2>3. Placed(a)'
    <3>1. CASE StartsIdle(a)
      BY <3>1 DEF StartsIdle, PlaceInv, Placed, Running, Handing, Stopping, Without
    <3>2. CASE HandsOn(a)
      BY <3>2 DEF HandsOn, Role, Placed, Running, Handing, Stopping, Without
    <3> QED  BY <3>1, <3>2
  <2>4. \A c \in Ms : m'[c].pc \notin {"mon", "retake", "monend"}
    <3>1. a \in Ms => m'[a].pc \notin {"mon", "retake", "monend"}
      BY SizesAssumption DEF StartsIdle, HandsOn, Role, Running
    <3> QED  BY <1>1, <3>1 DEF PlaceInv, Threads
  <2>5. m'[Sysmon].pc \in Handing \cup {"mon", "retake", "monend"}
    <3>1. CASE a = Sysmon
      BY <3>1 DEF StartsIdle, HandsOn, Role, PlaceInv, Running, Handing
    <3>2. CASE a # Sysmon
      BY <1>1, <3>2, SizesAssumption DEF PlaceInv, Threads
    <3> QED  BY <3>1, <3>2
  <2> QED  BY <2>1, <2>2, <2>3, <2>4, <2>5 DEF PlaceInv
<1>8. OwnerInv'
  <2>1. \A c \in Threads \ {a, b}, q \in Ps : Owns(c, q)' <=> Owns(c, q)
    BY <1>1 DEF Owns
  <2>2. (\A c, d \in Threads, q \in Ps : Owns(c, q) /\ Owns(d, q) => c = d)'
    <3> SUFFICES ASSUME NEW c \in Threads, NEW d \in Threads, NEW q \in Ps,
                        Owns(c, q)', Owns(d, q)'
                 PROVE  c = d
      OBVIOUS
    <3>1. CASE q = p
      BY <1>5, <1>6, <2>1, <3>1
    <3>2. CASE q # p
      <4>1. Owns(c, q) /\ Owns(d, q)
        BY <1>6, <2>1, <3>2
      <4> QED  BY <4>1 DEF OwnerInv
    <3> QED  BY <3>1, <3>2
  <2>3. (\A q \in sched.pidle : status[q] = "Pidle" /\ \A c \in Threads : ~Owns(c, q))'
    <3> SUFFICES ASSUME NEW q \in sched'.pidle
                 PROVE  status'[q] = "Pidle" /\ \A c \in Threads : ~Owns(c, q)'
      OBVIOUS
    <3>1. q \in Ps /\ q # p /\ q \in sched.pidle
      BY <1>4 DEF TypeOK, SchedType
    <3>2. status[q] = "Pidle" /\ \A c \in Threads : ~Owns(c, q)
      BY <3>1 DEF OwnerInv
    <3> QED  BY <1>4, <1>6, <2>1, <3>1, <3>2
  <2>4. (\A q \in Ps : status[q] \in {"Pidle", "Prunning"} =>
          q \in sched.pidle \/ \E c \in Threads : Owns(c, q))'
    <3> SUFFICES ASSUME NEW q \in Ps, status[q] \in {"Pidle", "Prunning"}
                 PROVE  q \in sched'.pidle \/ \E c \in Threads : Owns(c, q)'
      BY <1>4
    <3>1. CASE q = p
      BY <1>2, <1>6, <3>1
    <3>2. CASE q # p
      <4>1. q \in sched.pidle \/ \E c \in Threads : Owns(c, q)
        BY DEF OwnerInv
      <4> QED  BY <1>4, <1>6, <2>1, <3>2, <4>1
    <3> QED  BY <3>1, <3>2
  <2> QED  BY <2>2, <2>3, <2>4 DEF OwnerInv
<1>9. WorldInv'
  <2>1. \A c \in Ms : /\ m'[c].pc \in Stopping <=> m[c].pc \in Stopping
                      /\ m[c].pc \in Stopping => m'[c] = m[c]
                      /\ m[c].pc \in {"enter", "gcwait"} => m'[c] = m[c]
    <3>1. m[a].pc \in Running \cup Handing /\ m'[a].pc \in Running \cup {"syscall", "monend"}
      BY DEF StartsIdle, HandsOn
    <3> QED  BY <1>1, <3>1 DEF Running, Handing, Stopping, Threads
  <2>2. Live' = Live
    BY <1>4 DEF Live
  <2>3. sched.gcwaiting => \A q \in Ps : status'[q] = "Psyscall" =>
          \/ \E c \in Ms : m'[c].p = q /\ m'[c].pc \in {"enter", "gcwait"}
          \/ \E c \in Ms : m'[c].pc = "stopcas" /\ m'[c].i <= q
    BY <1>4, <2>1 DEF WorldInv, Stopping
  <2>4. sched.gcwaiting /\ sched.lock = NoM => sched'.pidle = {}
    BY <1>4 DEF WorldInv
  <2> QED  BY <1>4, <2>1, <2>2, <2>3, <2>4, WorldKept
<1> QED  BY <1>7, <1>8, <1>9 DEF Held

----------------------------------------------------------------------------
(* Stopping and starting the world *)

\* Before the world stops, the Ps that have not stopped are all there are.
LEMMA LiveAll ==
  ASSUME TypeOK, WorldInv, ~sched.gcwaiting
  PROVE  Live = 0..sched.gomaxprocs-1 /\ Cardinality(Live) = sched.gomaxprocs
<1>1. sched.gomaxprocs \in 1..NP
  BY DEF TypeOK, SchedType
<1>2. Live = 0..sched.gomaxprocs-1
  BY <1>1, SizesAssumption DEF Live, WorldInv, Ps
<1>3. Cardinality(0..sched.gomaxprocs-1) = sched.gomaxprocs
  BY <1>1, SizesAssumption, FS_Interval, SMTT(40)
<1> QED  BY <1>2, <1>3

LEMMA StoptheworldHolds ==
  ASSUME IndInv, NEW a \in Ms, Stoptheworld(a)
  PROVE  TypeOK' /\ Held'
<1> USE DEF IndInv
<1> DEFINE p == m[a].p
<1>1. /\ a \in Threads /\ a # Sysmon /\ a # NoM
      /\ m[a].pc = "run" /\ p \in Ps /\ status[p] = "Prunning" /\ m[a].i = 0
      /\ fate = "ok" /\ sched.lock = NoM
      /\ \A b \in Ms : m[b].pc \notin Stopping
  BY SizesAssumption DEF Threads, Stoptheworld, At, PlaceInv, Placed, Running, Locked
<1>2. /\ sched' = [sched EXCEPT !.lock = a, !.stopwait = sched.gomaxprocs - 1,
                                !.gcwaiting = TRUE]
      /\ status' = [status EXCEPT ![p] = "Pgcstop"]
      /\ Goto(a, "stopcas")
  BY DEF Stoptheworld, gomaxprocs
<1>3. SchedType'
  <2> DEFINE k == sched.gomaxprocs - 1
  <2>1. k \in Int /\ sched' = [sched EXCEPT !.lock = a, !.stopwait = k, !.gcwaiting = TRUE]
    BY <1>2, SizesAssumption DEF TypeOK, SchedType
  <2> HIDE DEF k
  <2> QED  BY <2>1 DEF TypeOK, SchedType
<1>4. /\ sched'.lock = a /\ sched'.gomaxprocs = sched.gomaxprocs
      /\ sched'.pidle = sched.pidle /\ sched'.gcwaiting = TRUE
      /\ sched'.stopwait = sched.gomaxprocs - 1
  BY <1>2 DEF TypeOK, SchedType
<1>5. status' \in [Ps -> Statuses] /\ Change(p, "Pgcstop")
  BY <1>1, <1>2 DEF TypeOK, Statuses, Change
<1>6. m' \in [Threads -> ThreadType]
  BY <1>2 DEF Goto, TypeOK, ThreadType, Stopping
<1>7. m'[a].pc = "stopcas" /\ m'[a].p = p /\ m'[a].i = 0 /\ Only(a)
  BY <1>1, <1>2 DEF Goto, TypeOK, ThreadType, Only
<1>8. TypeOK'
  BY <1>3, <1>5, <1>6 DEF TypeOK
<1>9. Role(a)
  BY <1>1, <1>7 DEF Role
<1>10. Owns(a, p) /\ Owns(a, p)' /\ \A q \in Ps \ {p} : ~Owns(a, q) /\ ~Owns(a, q)'
  BY <1>1, <1>7 DEF Owns
<1>11. p \notin sched.pidle /\ \A b \in Threads \ {a} : ~Owns(b, p)
  BY <1>1, <1>10 DEF OwnerInv
<1>12. PlaceInv'
  <2>1. Placed(a)'
    BY <1>1, <1>5, <1>7 DEF Placed, Running, Handing, Stopping, Without, Change
  <2> QED  BY <1>1, <1>5, <1>7, <1>9, <1>11, <2>1, PlaceMoves
<1>13. OwnerInv'
  BY <1>1, <1>4, <1>5, <1>7, <1>8, <1>10, <1>11, OwnerMoves
<1>14. WorldInv'
  <2>1. ~sched.gcwaiting
    BY <1>1 DEF WorldInv
  <2>2. Cardinality(Live') = sched.gomaxprocs - 1
    <3>1. p \in Live
      BY <1>1 DEF Live
    <3> QED  BY <1>1, <1>5, <2>1, <3>1, LiveAll, LiveChange
  <2>3. \A b \in Ms : m'[b].pc \in Stopping <=> b = a
    BY <1>1, <1>7 DEF Only, Stopping, Threads
  <2>4. \A b \in Ms : m'[b].pc \in {"stopcas", "stopidle"} <=> b = a
    BY <1>7, <2>3 DEF Stopping
  <2>5. \A q \in Ps : status'[q] = "Pdead" <=> q >= sched.gomaxprocs
    BY <1>1, <1>5 DEF Change, WorldInv
  <2>6. \A q \in Ps : 0 <= q
    BY SizesAssumption DEF Ps
  <2>7. ~\E b \in Ms : m'[b].pc = "stopped"
    BY <1>7, <2>3 DEF Stopping
  <2> QED  BY <1>1, <1>4, <1>7, <2>2, <2>3, <2>4, <2>5, <2>6, <2>7 DEF WorldInv
<1> QED  BY <1>8, <1>12, <1>13, <1>14 DEF Held

LEMMA StopCasHolds ==
  ASSUME IndInv, NEW a \in Ms, StopCas(a)
  PROVE  TypeOK' /\ Held'
<1> USE DEF IndInv
<1> DEFINE i == m[a].i
           p == m[a].p
<1>1. /\ a \in Threads /\ a # Sysmon /\ a # NoM
      /\ m[a].pc = "stopcas" /\ p \in Ps /\ status[p] = "Pgcstop" /\ i \in Nat
      /\ fate = "ok" /\ sched.lock = a /\ sched.gcwaiting
      /\ sched.gomaxprocs \in 1..NP
      /\ \A b \in Ms : m[b].pc \in Stopping <=> b = a
  BY SizesAssumption DEF Threads, StopCas, At, PlaceInv, Placed, Stopping, TypeOK, ThreadType,
                         SchedType, WorldInv
<1>2. \A q \in Ps : q \in Int /\ 0 <= q /\ q < NP
  BY SizesAssumption DEF Ps
<1>3. ASSUME i < sched.gomaxprocs, status[i] = "Psyscall",
             status' = [status EXCEPT ![i] = "Pgcstop"],
             sched' = [sched EXCEPT !.stopwait = @ - 1],
             m' = [m EXCEPT ![a].i = i + 1]
      PROVE  TypeOK' /\ Held'
  <2>1. PICK q \in Ps : q = i
    BY <1>1, <1>3, SizesAssumption DEF Ps
  <2>2. /\ SchedType' /\ sched'.stopwait = sched.stopwait - 1
        /\ sched'.lock = sched.lock /\ sched'.gomaxprocs = sched.gomaxprocs
        /\ sched'.pidle = sched.pidle /\ sched'.gcwaiting = sched.gcwaiting
    BY <1>3 DEF TypeOK, SchedType
  <2>3. status' \in [Ps -> Statuses] /\ Change(q, "Pgcstop")
    BY <1>3, <2>1 DEF TypeOK, Statuses, Change
  <2>4. m' \in [Threads -> ThreadType]
    BY <1>1, <1>3 DEF TypeOK, ThreadType
  <2>5. m'[a].pc = "stopcas" /\ m'[a].p = p /\ m'[a].i = i + 1 /\ Only(a)
    BY <1>1, <1>3 DEF TypeOK, ThreadType, Only
  <2>6. TypeOK'
    BY <2>2, <2>3, <2>4 DEF TypeOK
  <2>7. \A b \in Threads : ~Owns(b, q)
    BY <1>3, <2>1, OwnerPlace
  <2>8. q \notin sched.pidle /\ q # p
    BY <1>1, <1>3, <2>1 DEF OwnerInv
  <2>9. \A b \in Threads, r \in Ps : Owns(b, r)' <=> Owns(b, r)
    BY <1>1, <2>5 DEF Only, Owns
  <2>10. PlaceInv'
    <3>1. \A b \in Threads \ {a} : Placed(b)'
      <4> SUFFICES ASSUME NEW b \in Threads \ {a} PROVE Placed(b)'
        OBVIOUS
      <4>1. m'[b] = m[b] /\ \A r \in Ps : Owns(b, r) => status'[r] = status[r]
        BY <2>3, <2>5, <2>7 DEF Only, Change
      <4> QED  BY <4>1, PlaceKept
    <3>2. Placed(a)'
      BY <1>1, <2>3, <2>5, <2>8 DEF Placed, Running, Handing, Stopping, Without, Change
    <3> QED  BY <1>1, <2>5, <3>1, <3>2 DEF PlaceInv, Only, Threads
  <2>11. OwnerInv'
    BY <1>1, <2>2, <2>3, <2>5, <2>6, <2>7, <2>8, <2>9, OwnerMoves
  <2>12. WorldInv'
    <3>1. Cardinality(Live') = Cardinality(Live) - 1
      <4>1. q \in Live
        BY <1>3, <2>1 DEF Live
      <4> QED  BY <2>3, <4>1, LiveChange
    <3>2. \A b \in Ms : m'[b].pc = m[b].pc /\ m'[b].p = m[b].p
      BY <1>1, <2>5 DEF Only, Threads
    <3>3. \A r \in Ps : status'[r] = "Pdead" <=> r >= sched.gomaxprocs
      BY <1>3, <2>1, <2>3 DEF Change, WorldInv
    <3>4. \A r \in Ps : status'[r] = "Psyscall" =>
            \/ \E b \in Ms : m'[b].p = r /\ m'[b].pc \in {"enter", "gcwait"}
            \/ \E b \in Ms : m'[b].pc = "stopcas" /\ m'[b].i <= r
      <4> SUFFICES ASSUME NEW r \in Ps, status'[r] = "Psyscall",
                          ~\E b \in Ms : m'[b].p = r /\ m'[b].pc \in {"enter", "gcwait"}
                   PROVE  i + 1 <= r
        BY <2>5
      <4>1. r # i /\ status[r] = "Psyscall"
        BY <2>1, <2>3 DEF Change
      <4>2. PICK b \in Ms : m[b].pc = "stopcas" /\ m[b].i <= r
        BY <1>1, <3>2, <4>1 DEF WorldInv
      <4>3. b = a
        BY <1>1, <4>2 DEF Stopping
      <4> QED  BY <1>1, <1>2, <4>1, <4>2, <4>3
    <3>5. sched.stopwait = Cardinality(Live)
      BY <1>1 DEF WorldInv
    <3>6. (\A b \in Ms : m'[b].pc \in Stopping <=> b = a) /\ m'[a].pc = "stopcas"
      BY <1>1, <2>5, <3>2
    <3>7. \A b \in Ms : b = a <=> m'[b].pc \in {"stopcas", "stopidle"}
      BY <3>6 DEF Stopping
    <3>8. ~\E b \in Ms : m'[b].pc = "stopped"
      BY <3>6 DEF Stopping
    <3> QED  BY <1>1, <2>2, <3>1, <3>3, <3>4, <3>5, <3>6, <3>7, <3>8 DEF WorldInv
  <2> QED  BY <2>6, <2>10, <2>11, <2>12 DEF Held
<1>4. ASSUME sched' = sched, status' = status,
             \/ i < sched.gomaxprocs /\ status[i] # "Psyscall" /\ m' = [m EXCEPT ![a].i = i + 1]
             \/ i = sched.gomaxprocs /\ m' = [m EXCEPT ![a].pc = "stopidle", ![a].i = 0]
      PROVE  TypeOK' /\ Held'
  <2>1. m' \in [Threads -> ThreadType]
    BY <1>1, <1>4 DEF TypeOK, ThreadType, Stopping
  <2>2. /\ m'[a].pc \in {"stopcas", "stopidle"} /\ m'[a].p = p /\ Only(a)
        /\ m'[a].pc = "stopidle" => m'[a].i = 0 /\ i = sched.gomaxprocs
        /\ m'[a].pc = "stopcas" => m'[a].i = i + 1 /\ status[i] # "Psyscall"
    BY <1>1, <1>4 DEF TypeOK, ThreadType, Only
  <2>3. TypeOK'
    BY <1>4, <2>1 DEF TypeOK, SchedType
  <2>4. \A b \in Threads, r \in Ps : Owns(b, r)' <=> Owns(b, r)
    BY <1>1, <2>2 DEF Only, Owns
  <2>5. PlaceInv'
    <3>1. \A b \in Threads \ {a} : Placed(b)'
      BY <1>4, <2>2, PlaceKept DEF Only
    <3>2. Placed(a)'
      BY <1>1, <1>4, <2>2 DEF Placed, Running, Handing, Stopping, Without
    <3> QED  BY <1>1, <2>2, <3>1, <3>2 DEF PlaceInv, Only, Threads
  <2>6. OwnerInv'
    <3>1. (\A b, c \in Threads, r \in Ps : Owns(b, r) /\ Owns(c, r) => b = c)'
      BY <2>4 DEF OwnerInv
    <3>2. (\A r \in sched.pidle : status[r] = "Pidle" /\ \A b \in Threads : ~Owns(b, r))'
      BY <1>4, <2>4 DEF OwnerInv, TypeOK, SchedType
    <3>3. (\A r \in Ps : status[r] \in {"Pidle", "Prunning"} =>
            r \in sched.pidle \/ \E b \in Threads : Owns(b, r))'
      BY <1>4, <2>4 DEF OwnerInv
    <3> QED  BY <3>1, <3>2, <3>3 DEF OwnerInv
  <2>7. WorldInv'
    <3>1. Live' = Live
      BY <1>4 DEF Live
    <3>2. \A b \in Ms \ {a} : m'[b] = m[b]
      BY <2>2 DEF Only, Threads
    <3>3. \A r \in Ps : status[r] = "Psyscall" =>
            \/ \E b \in Ms : m'[b].p = r /\ m'[b].pc \in {"enter", "gcwait"}
            \/ \E b \in Ms : m'[b].pc = "stopcas" /\ m'[b].i <= r
      <4> SUFFICES ASSUME NEW r \in Ps, status[r] = "Psyscall",
                          ~\E b \in Ms : m'[b].p = r /\ m'[b].pc \in {"enter", "gcwait"}
                   PROVE  m'[a].pc = "stopcas" /\ m'[a].i <= r
        OBVIOUS
      <4>1. PICK b \in Ms : m[b].pc = "stopcas" /\ m[b].i <= r
        BY <1>1, <3>2 DEF WorldInv
      <4>2. b = a
        BY <1>1, <4>1 DEF Stopping
      <4>3. r < sched.gomaxprocs
        BY <1>1, <1>2 DEF WorldInv
      <4>4. m'[a].pc = "stopcas"
        BY <1>1, <1>2, <2>2, <4>1, <4>2, <4>3
      <4> QED  BY <1>1, <1>2, <2>2, <4>1, <4>2, <4>4
    <3>4. \A b \in Ms : m'[b].pc \in Stopping <=> b = a
      BY <1>1, <2>2, <3>2 DEF Stopping
    <3>5. \A b \in Ms : b = a <=> m'[b].pc \in {"stopcas", "stopidle"}
      BY <2>2, <3>4 DEF Stopping
    <3>6. ~\E b \in Ms : m'[b].pc = "stopped"
      BY <2>2, <3>4 DEF Stopping
    <3> QED  BY <1>1, <1>4, <3>1, <3>3, <3>4, <3>5, <3>6 DEF WorldInv
  <2> QED  BY <2>3, <2>5, <2>6, <2>7 DEF Held
<1> QED  BY <1>3, <1>4 DEF StopCas, gomaxprocs

LEMMA StopIdleHolds ==
  ASSUME IndInv, NEW a \in Ms, StopIdle(a)
  PROVE  TypeOK' /\ Held'
<1> USE DEF IndInv
<1>1. /\ a \in Threads /\ a # Sysmon
      /\ m[a].pc = "stopidle" /\ m[a].p \in Ps /\ status[m[a].p] = "Pgcstop" /\ m[a].i = 0
      /\ fate = "ok" /\ sched.gcwaiting
      /\ \A b \in Ms : m[b].pc \in Stopping <=> b = a
  BY SizesAssumption DEF Threads, StopIdle, At, PlaceInv, Placed, Stopping, WorldInv
<1>2. sched.pidle \subseteq Ps /\ \A q \in sched.pidle : status[q] = "Pidle"
  BY DEF TypeOK, SchedType, OwnerInv
<1>3. /\ Cardinality(Live) \in Nat /\ npidle \in Nat
      /\ Live' = Live \ sched.pidle
      /\ Cardinality(Live') = Cardinality(Live) - npidle
  <2>1. IsFiniteSet(Live) /\ IsFiniteSet(sched.pidle)
    BY <1>2, LiveFinite, FS_Subset
  <2>2. Live' = Live \ sched.pidle
    BY DEF Live, StopIdle
  <2>3. Live \cap sched.pidle = sched.pidle
    BY <1>2 DEF Live
  <2>4. Cardinality(Live) \in Nat /\ npidle \in Nat
    BY <2>1, FS_CardinalityType DEF npidle
  <2>5. Cardinality(Live \ sched.pidle) = Cardinality(Live) - Cardinality(Live \cap sched.pidle)
    BY <2>1, FS_Difference
  <2> QED  BY <2>2, <2>3, <2>4, <2>5 DEF npidle
<1>4. /\ SchedType' /\ sched'.stopwait = sched.stopwait - npidle
      /\ sched'.lock = NoM /\ sched'.gomaxprocs = sched.gomaxprocs
      /\ sched'.pidle = {} /\ sched'.gcwaiting = sched.gcwaiting
  <2> DEFINE k == sched.stopwait - npidle
  <2>1. k \in Int
    BY <1>3 DEF TypeOK, SchedType
  <2>2. sched' = [sched EXCEPT !.stopwait = k, !.pidle = {}, !.handed = {}, !.lock = NoM]
    BY DEF StopIdle
  <2> HIDE DEF k
  <2>3. SchedType'
    BY <2>1, <2>2 DEF TypeOK, SchedType
  <2>4. /\ sched'.stopwait = k
        /\ sched'.lock = NoM /\ sched'.gomaxprocs = sched.gomaxprocs
        /\ sched'.pidle = {} /\ sched'.gcwaiting = sched.gcwaiting
    BY <2>2 DEF TypeOK, SchedType
  <2> QED  BY <2>3, <2>4 DEF k
<1>5. \A q \in Ps : status'[q] = IF q \in sched.pidle THEN "Pgcstop" ELSE status[q]
  BY DEF StopIdle
<1>6. status' \in [Ps -> Statuses]
  BY DEF StopIdle, TypeOK, Statuses
<1>7. PICK l \in {"stopwait", "stopcheck"} : Goto(a, l)
  BY DEF StopIdle
<1>8. m' \in [Threads -> ThreadType]
  BY <1>7 DEF Goto, TypeOK, ThreadType, Stopping
<1>9. m'[a].pc = l /\ m'[a].p = m[a].p /\ m'[a].i = 0 /\ Only(a)
  BY <1>1, <1>7 DEF Goto, TypeOK, ThreadType, Only
<1>10. \A b \in Threads, r \in Ps : Owns(b, r)' <=> Owns(b, r)
  BY <1>1, <1>9 DEF Only, Owns
<1>11. PlaceInv'
  <2>1. \A b \in Threads \ {a} : Placed(b)'
    <3> SUFFICES ASSUME NEW b \in Threads \ {a} PROVE Placed(b)'
      OBVIOUS
    <3>1. m'[b] = m[b] /\ \A r \in Ps : Owns(b, r) => status'[r] = status[r]
      BY <1>5, <1>9 DEF Only, OwnerInv
    <3> QED  BY <3>1, PlaceKept
  <2>2. Placed(a)'
    BY <1>1, <1>5, <1>9 DEF Placed, Running, Handing, Stopping, Without
  <2> QED  BY <1>1, <1>9, <2>1, <2>2 DEF PlaceInv, Only, Threads
<1>12. OwnerInv'
  <2>1. (\A b, c \in Threads, r \in Ps : Owns(b, r) /\ Owns(c, r) => b = c)'
    BY <1>10 DEF OwnerInv
  <2>2. (\A r \in sched.pidle : status[r] = "Pidle" /\ \A b \in Threads : ~Owns(b, r))'
    BY <1>4
  <2>3. (\A r \in Ps : status[r] \in {"Pidle", "Prunning"} =>
          r \in sched.pidle \/ \E b \in Threads : Owns(b, r))'
    BY <1>5, <1>10 DEF OwnerInv
  <2> QED  BY <2>1, <2>2, <2>3 DEF OwnerInv
<1>13. WorldInv'
  <2>1. \A b \in Ms \ {a} : m'[b] = m[b]
    BY <1>9 DEF Only, Threads
  <2>2. \A b \in Ms : m'[b].pc \in Stopping <=> b = a
    BY <1>1, <1>9, <2>1 DEF Stopping
  <2>3. \A b \in Ms : m'[b].pc \notin {"stopcas", "stopidle", "stopped"} /\ b # NoM
    BY <1>9, <2>2, SizesAssumption DEF Stopping
  <2>4. \A r \in Ps : status'[r] = "Pdead" <=> r >= sched.gomaxprocs
    BY <1>2, <1>5 DEF WorldInv
  <2>5. \A r \in Ps : status'[r] = "Psyscall" =>
          \E b \in Ms : m'[b].p = r /\ m'[b].pc \in {"enter", "gcwait"}
    <3> SUFFICES ASSUME NEW r \in Ps, status'[r] = "Psyscall"
                 PROVE  \E b \in Ms : m'[b].p = r /\ m'[b].pc \in {"enter", "gcwait"}
      OBVIOUS
    <3>1. status[r] = "Psyscall"
      BY <1>5
    <3>2. ~\E b \in Ms : m[b].pc = "stopcas"
      BY <1>1 DEF Stopping
    <3>3. PICK b \in Ms : m[b].p = r /\ m[b].pc \in {"enter", "gcwait"}
      BY <1>1, <3>1, <3>2 DEF WorldInv
    <3> QED  BY <1>1, <2>1, <3>3
  <2>6. sched.stopwait = Cardinality(Live)
    BY <1>1 DEF WorldInv
  <2> QED  BY <1>1, <1>3, <1>4, <2>2, <2>3, <2>4, <2>5, <2>6 DEF WorldInv
<1> QED  BY <1>4, <1>6, <1>8, <1>11, <1>12, <1>13 DEF Held, TypeOK

LEMMA StopWaitHolds ==
  ASSUME IndInv, NEW a \in Ms, StopWait(a) \/ StopCheck(a)
  PROVE  TypeOK' /\ Held'
<1> USE DEF IndInv
<1>1. /\ a \in Threads /\ a # Sysmon
      /\ m[a].pc \in {"stopwait", "stopcheck"} /\ m[a].p \in Ps
      /\ status[m[a].p] = "Pgcstop" /\ m[a].i = 0
      /\ fate = "ok" /\ sched.gcwaiting /\ status' = status
      /\ \A b \in Ms : m[b].pc \in Stopping <=> b = a
  BY SizesAssumption DEF Threads, StopWait, StopCheck, At, PlaceInv, Placed, Stopping, WorldInv
<1>2. SchedType' /\ Same
  BY DEF StopWait, StopCheck, TypeOK, SchedType, Same
<1>3. PICK l \in {"stopcheck", "stopped"} :
        Goto(a, l) /\ (l = "stopped" /\ fate' = "ok" => sched.stopwait = 0)
  <2>1. CASE StopWait(a)
    BY <2>1 DEF StopWait
  <2>2. CASE StopCheck(a)
    BY <2>2 DEF StopCheck, ThrowUnless
  <2> QED  BY <2>1, <2>2
<1>4. m' \in [Threads -> ThreadType]
  BY <1>3 DEF Goto, TypeOK, ThreadType, Stopping
<1>5. m'[a].pc = l /\ m'[a].p = m[a].p /\ m'[a].i = 0 /\ Only(a)
  BY <1>1, <1>3 DEF Goto, TypeOK, ThreadType, Only
<1>6. \A b \in Threads, r \in Ps : Owns(b, r)' <=> Owns(b, r)
  BY <1>1, <1>5 DEF Only, Owns
<1>7. PlaceInv'
  <2>1. \A b \in Threads \ {a} : Placed(b)'
    BY <1>1, <1>5, PlaceKept DEF Only
  <2>2. Placed(a)'
    BY <1>1, <1>5 DEF Placed, Running, Handing, Stopping, Without
  <2> QED  BY <1>1, <1>5, <2>1, <2>2 DEF PlaceInv, Only, Threads
<1>8. OwnerInv'
  <2>1. (\A b, c \in Threads, r \in Ps : Owns(b, r) /\ Owns(c, r) => b = c)'
    BY <1>6 DEF OwnerInv
  <2>2. (\A r \in sched.pidle : status[r] = "Pidle" /\ \A b \in Threads : ~Owns(b, r))'
    BY <1>1, <1>2, <1>6 DEF OwnerInv, TypeOK, SchedType, Same
  <2>3. (\A r \in Ps : status[r] \in {"Pidle", "Prunning"} =>
          r \in sched.pidle \/ \E b \in Threads : Owns(b, r))'
    BY <1>1, <1>2, <1>6 DEF OwnerInv, Same
  <2> QED  BY <2>1, <2>2, <2>3 DEF OwnerInv
<1>9. WorldInv'
  <2>1. \A b \in Ms \ {a} : m'[b] = m[b]
    BY <1>5 DEF Only, Threads
  <2>2. \A b \in Ms : m'[b].pc \in Stopping <=> b = a
    BY <1>1, <1>5, <2>1 DEF Stopping
  <2>3. \A b \in Ms : m'[b].pc \notin {"stopcas", "stopidle"} /\ sched.lock # b
    BY <1>1, <1>5, <2>2 DEF Stopping, WorldInv
  <2>4. Live' = Live
    BY <1>1 DEF Live
  <2>5. fate' = "ok" /\ (\E b \in Ms : m'[b].pc = "stopped") => Live = {}
    <3>1. (\E b \in Ms : m'[b].pc = "stopped") => l = "stopped"
      BY <1>5, <2>2 DEF Stopping
    <3>2. sched.stopwait = Cardinality(Live)
      BY <1>1 DEF WorldInv
    <3>3. Cardinality(Live) = 0 => Live = {}
      BY LiveFinite, FS_EmptySet
    <3> QED  BY <1>3, <3>1, <3>2, <3>3
  <2>6. \A r \in Ps : status[r] = "Psyscall" =>
          \E b \in Ms : m'[b].p = r /\ m'[b].pc \in {"enter", "gcwait"}
    <3>1. ~\E b \in Ms : m[b].pc = "stopcas"
      BY <1>1 DEF Stopping
    <3> QED  BY <1>1, <2>1, <3>1 DEF WorldInv
  <2> QED  BY <1>1, <1>2, <2>2, <2>3, <2>4, <2>5, <2>6 DEF WorldInv, Same
<1> QED  BY <1>1, <1>2, <1>4, <1>7, <1>8, <1>9 DEF Held, TypeOK

\* Ps without a goroutine dealt to them are not among the Ps with work.
LEMMA DealtBelow ==
  ASSUME NEW total, NEW new \in Nat \ {0}, NEW p \in Ps,
         Cardinality({i \in 1..total : i % new = p}) > 0
  PROVE  p < new
<1>1. SUFFICES ASSUME ~(p < new) PROVE FALSE
  OBVIOUS
<1>2. \A i \in 1..total : i % new # p
  <2>1. \A i \in 1..total : i % new \in 0..new-1
    OBVIOUS
  <2> QED  BY <1>1, <2>1, SizesAssumption DEF Ps
<1>3. {i \in 1..total : i % new = p} = {}
  BY <1>2
<1> QED  BY <1>3, FS_EmptySet

LEMMA QueuedFinite ==
  ASSUME NEW r \in [Ps -> Nat]
  PROVE  IsFiniteSet(Queued(r)) /\ Cardinality(Queued(r)) \in Nat
<1> DEFINE S == {{p} \X (1..r[p]) : p \in Ps}
           f == [p \in Ps |-> {p} \X (1..r[p])]
<1>1. IsFiniteSet(S)
  <2>1. f \in Surjection(Ps, S)
    BY DEF Surjection
  <2> QED  BY <2>1, LiveFinite, FS_Surjection
<1>2. \A T \in S : IsFiniteSet(T)
  <2> SUFFICES ASSUME NEW p \in Ps PROVE IsFiniteSet({p} \X (1..r[p]))
    OBVIOUS
  <2>1. r[p] \in Nat /\ 1 \in Int /\ r[p] \in Int
    OBVIOUS
  <2>2. IsFiniteSet({p}) /\ IsFiniteSet(1..r[p])
    BY <2>1, FS_Singleton, FS_Interval
  <2> QED  BY <2>2, FS_Product
<1>3. IsFiniteSet(UNION S)
  BY <1>1, <1>2, FS_UNION
<1> QED  BY <1>3, FS_CardinalityType DEF Queued

\* What starttheworld leaves: one thread on allp[0], the Ps with work with a
\* thread each, the rest on pidle.
Started(a, new, work, next) ==
  /\ At(a, "stopped") /\ sched.lock = NoM
  /\ work \subseteq 1..new-1
  /\ \E rest \in Int :
       sched' = [sched EXCEPT !.runqsize = rest, !.gcwaiting = FALSE,
                              !.pidle = 1..new-1 \ work, !.gomaxprocs = new]
  /\ status' = [p \in Ps |-> CASE p = 0 -> "Prunning" [] p \in 1..new-1 -> "Pidle"
                               [] OTHER -> "Pdead"]
  /\ next \in [work -> {b \in Ms : m[b].pc \in {"parked", "none"}}]
  /\ \A p, q \in work : next[p] = next[q] => p = q
  /\ m' = [b \in Threads |->
             IF b = a THEN [m[b] EXCEPT !.pc = "run", !.p = 0]
             ELSE IF b \in Range(next)
             THEN [m[b] EXCEPT !.pc = "woken", !.p = CHOOSE p \in work : next[p] = b]
             ELSE m[b]]

LEMMA StartEffect ==
  ASSUME LenInv, TypeOK, NEW a \in Ms, NEW new \in 1..NP, Starttheworld(a, new)
  PROVE  \E work : \E next :
           Started(a, new, work, next) /\ work = {p \in Ps \ {0} : runq'[p] > 0}
<1> DEFINE total == sched.runqsize + Cardinality(Queued(runq))
           dealt == Lesser(total, (new * Size) \div 2 - 1)
           rest == total - dealt
           deal == [p \in Ps |-> Cardinality({i \in 1..dealt : i % new = p})]
           work == {p \in Ps \ {0} : deal[p] > 0}
           idle == {b \in Ms : m[b].pc = "parked"}
           uncreated == {b \in Ms : m[b].pc = "none"}
<1> USE DEF Lesser
<1>1. /\ At(a, "stopped") /\ sched.lock = NoM
      /\ sched' = [sched EXCEPT !.runqsize = rest, !.gcwaiting = FALSE,
                                !.pidle = 1..new-1 \ work, !.gomaxprocs = new]
      /\ status' = [p \in Ps |-> CASE p = 0 -> "Prunning" [] p \in 1..new-1 -> "Pidle"
                                   [] OTHER -> "Pdead"]
  BY Zenon DEF Starttheworld, Locked
<1>2. PICK next \in Injection(work, idle \cup uncreated) :
        m' = [b \in Threads |->
                IF b = a THEN [m[b] EXCEPT !.pc = "run", !.p = 0]
                ELSE IF b \in Range(next)
                THEN [m[b] EXCEPT !.pc = "woken", !.p = CHOOSE p \in work : next[p] = b]
                ELSE m[b]]
  BY Zenon DEF Starttheworld
<1>3. runq' = deal
  BY Zenon DEF Starttheworld
<1>4. dealt \in Int /\ rest \in Int
  <2> HIDE DEF Lesser
  <2>1. total \in Int
    BY QueuedFinite DEF LenInv, TypeOK, SchedType
  <2>2. PICK y \in Int : y = (new * Size) \div 2 - 1
    BY SizesAssumption
  <2> HIDE DEF total
  <2>3. dealt \in Int
    BY <2>1, <2>2, LesserOf
  <2> HIDE DEF dealt
  <2> QED  BY <2>1, <2>3
<1> HIDE DEF total, dealt, rest, Lesser
<1>5. work \subseteq 1..new-1
  <2> SUFFICES ASSUME NEW p \in work PROVE p \in 1..new-1
    OBVIOUS
  <2>1. p \in Ps /\ p # 0 /\ Cardinality({i \in 1..dealt : i % new = p}) > 0
    OBVIOUS
  <2>2. new \in Nat \ {0} /\ p \in Nat
    BY <2>1, SizesAssumption DEF Ps
  <2>3. p < new
    BY <2>1, <2>2, DealtBelow
  <2> QED  BY <2>1, <2>2, <2>3
<1> HIDE DEF work
<1>6. /\ next \in [work -> {b \in Ms : m[b].pc \in {"parked", "none"}}]
      /\ \A p, q \in work : next[p] = next[q] => p = q
  BY <1>2 DEF Injection, IsInjective
<1>7. Started(a, new, work, next)
  BY <1>1, <1>2, <1>4, <1>5, <1>6, Zenon DEF Started
<1> HIDE DEF deal
<1>8. work = {p \in Ps \ {0} : runq'[p] > 0}
  BY <1>3, Zenon DEF work
<1> QED  BY <1>7, <1>8

LEMMA StarttheworldHolds ==
  ASSUME IndInv, NEW a \in Ms, NEW new \in 1..NP, Starttheworld(a, new)
  PROVE  TypeOK' /\ Held'
<1> USE DEF IndInv
<1>1. PICK work, next : Started(a, new, work, next)
  BY StartEffect
<1>2. /\ a \in Threads /\ a # Sysmon /\ m[a].pc = "stopped" /\ m[a].i = 0
      /\ fate = "ok" /\ sched.lock = NoM /\ sched.gcwaiting
      /\ \A b \in Ms : m[b].pc \in Stopping <=> b = a
  BY <1>1, SizesAssumption, ZenonT(60) DEF Threads, Started, At, PlaceInv, Placed, Stopping, WorldInv
<1>3. Live = {}
  BY <1>2 DEF WorldInv
<1>4. \A b \in Threads \ {a}, q \in Ps : ~Owns(b, q)
  <2> SUFFICES ASSUME NEW b \in Threads \ {a}, NEW q \in Ps, Owns(b, q) PROVE FALSE
    OBVIOUS
  <2>1. m[b].p = q /\ m[b].pc \in Running \cup Handing \cup Stopping \cup {"woken"}
        /\ status[q] \in {"Prunning", "Pidle", "Pgcstop"}
    BY OwnerPlace
  <2>2. status[q] = "Pgcstop"
    BY <1>3, <2>1 DEF Live
  <2>3. m[b].pc \in Stopping
    BY <2>1, <2>2 DEF PlaceInv, Placed
  <2>4. m[Sysmon].pc \notin Stopping
    BY DEF PlaceInv, Handing, Stopping
  <2> QED  BY <1>2, <2>3, <2>4 DEF Threads
<1>5. /\ work \subseteq Ps /\ 0 \in Ps /\ 0 \notin work /\ NoP \notin Ps
      /\ \A q \in Ps : q # 0 /\ q < new <=> q \in 1..new-1
      /\ 1..new-1 \subseteq Ps
  <2>1. work \subseteq 1..new-1
    BY <1>1 DEF Started
  <2>2. 1..new-1 \subseteq Ps /\ 0 \in Ps /\ NoP \notin Ps
    BY SizesAssumption DEF Ps, NoP
  <2>3. \A q \in Ps : q # 0 /\ q < new <=> q \in 1..new-1
    BY SizesAssumption DEF Ps
  <2> QED  BY <2>1, <2>2, <2>3
<1>6. /\ SchedType'
      /\ sched'.lock = NoM /\ sched'.gomaxprocs = new /\ sched'.gcwaiting = FALSE
      /\ sched'.pidle = 1..new-1 \ work /\ sched'.stopwait = sched.stopwait
  <2> DEFINE S == 1..new-1 \ work
  <2>1. S \in SUBSET Ps
    BY <1>5
  <2>2. PICK n \in Int : sched' = [sched EXCEPT !.runqsize = n, !.gcwaiting = FALSE,
                                                !.pidle = S, !.gomaxprocs = new]
    BY <1>1 DEF Started
  <2> HIDE DEF S
  <2>3. SchedType'
    <3> DEFINE G == 1..NP
    <3>1. n \in Int /\ new \in G
      OBVIOUS
    <3>2. sched' = [sched EXCEPT !.runqsize = n, !.gcwaiting = FALSE, !.pidle = S,
                                 !.gomaxprocs = new]
      BY <2>2
    <3>3. sched \in [lock: Ms \cup {NoM}, gomaxprocs: G, runqsize: Int,
                     pidle: SUBSET Ps, nmspinning: Int, nmidlelocked: Int,
                     polling: BOOLEAN, gcwaiting: BOOLEAN, stopwait: Int,
                     stopnote: BOOLEAN, handed: SUBSET Ps]
      BY DEF TypeOK, SchedType
    <3> HIDE DEF G
    <3>4. sched' \in [lock: Ms \cup {NoM}, gomaxprocs: G, runqsize: Int,
                      pidle: SUBSET Ps, nmspinning: Int, nmidlelocked: Int,
                      polling: BOOLEAN, gcwaiting: BOOLEAN, stopwait: Int,
                      stopnote: BOOLEAN, handed: SUBSET Ps]
      BY <2>1, <3>1, <3>2, <3>3
    <3> QED  BY <3>4 DEF SchedType, G
  <2>4. /\ sched'.lock = sched.lock /\ sched'.gomaxprocs = new /\ sched'.gcwaiting = FALSE
        /\ sched'.pidle = S /\ sched'.stopwait = sched.stopwait
    BY <2>2 DEF TypeOK, SchedType
  <2> QED  BY <1>2, <2>3, <2>4 DEF S
<1>7. sched.stopwait = 0
  BY <1>2, <1>3, FS_EmptySet DEF WorldInv
<1>8. \A q \in Ps : status'[q] = IF q = 0 THEN "Prunning" ELSE IF q < new THEN "Pidle"
                                 ELSE "Pdead"
  BY <1>1, <1>5 DEF Started
<1>9. status' \in [Ps -> Statuses]
  BY <1>1 DEF Started, Statuses
<1>10. \A b \in Range(next) :
         /\ b \in Ms \ {a} /\ m[b].pc \in {"parked", "none"}
         /\ \E p \in work : next[p] = b
  <2>1. next \in [work -> {b \in Ms : m[b].pc \in {"parked", "none"}}]
    BY <1>1, Zenon DEF Started
  <2> QED  BY <1>2, <2>1 DEF Range
<1>11. \A p \in work : next[p] \in Range(next)
  BY <1>1 DEF Started, Range
<1>12. \A b \in Threads :
         m'[b] = IF b = a THEN [m[b] EXCEPT !.pc = "run", !.p = 0]
                 ELSE IF b \in Range(next)
                 THEN [m[b] EXCEPT !.pc = "woken", !.p = CHOOSE p \in work : next[p] = b]
                 ELSE m[b]
  BY <1>1 DEF Started
<1>13. m'[a] \in ThreadType /\ m'[a].pc = "run" /\ m'[a].p = 0 /\ m'[a].i = 0
  <2> DEFINE t == m[a]
             u == m'[a]
  <2>1. t \in ThreadType /\ u = [t EXCEPT !.pc = "run", !.p = 0] /\ t.i = 0
    BY <1>2, <1>12 DEF TypeOK
  <2> HIDE DEF t, u
  <2>2. u \in ThreadType /\ u.pc = "run" /\ u.i = t.i /\ u.p = 0
    BY <1>5, <2>1 DEF ThreadType, Running
  <2> QED  BY <2>1, <2>2 DEF t, u
<1>14. \A b \in Range(next) :
         /\ m'[b] \in ThreadType /\ m'[b].pc = "woken" /\ m'[b].i = 0
         /\ m'[b].p \in work /\ next[m'[b].p] = b
  <2> SUFFICES ASSUME NEW b \in Range(next)
               PROVE  /\ m'[b] \in ThreadType /\ m'[b].pc = "woken" /\ m'[b].i = 0
                      /\ m'[b].p \in work /\ next[m'[b].p] = b
    OBVIOUS
  <2> DEFINE t == m[b]
             u == m'[b]
             c == CHOOSE p \in work : next[p] = b
  <2>1. c \in work /\ next[c] = b
    BY <1>10
  <2>2. b \in Threads /\ b # a /\ t.i = 0
    BY <1>10 DEF Threads, PlaceInv, Placed
  <2>3. t \in ThreadType /\ u = [t EXCEPT !.pc = "woken", !.p = c]
    BY <1>12, <2>2 DEF TypeOK
  <2> HIDE DEF t, u, c
  <2>4. u \in ThreadType /\ u.pc = "woken" /\ u.i = t.i /\ u.p = c
    BY <1>5, <2>1, <2>3 DEF ThreadType
  <2> QED  BY <2>1, <2>2, <2>4 DEF u
<1>15. \A b \in Threads \ ({a} \cup Range(next)) : m'[b] = m[b]
  BY <1>12
<1>16. m' \in [Threads -> ThreadType]
  <2>1. \A b \in Threads : m'[b] \in ThreadType
    BY <1>13, <1>14, <1>15 DEF TypeOK
  <2> DEFINE F(b) == IF b = a THEN [m[b] EXCEPT !.pc = "run", !.p = 0]
                     ELSE IF b \in Range(next)
                     THEN [m[b] EXCEPT !.pc = "woken", !.p = CHOOSE p \in work : next[p] = b]
                     ELSE m[b]
  <2>2. m' = [b \in Threads |-> F(b)]
    BY <1>1, Zenon DEF Started
  <2> HIDE DEF F
  <2> QED  BY <2>1, <2>2
<1>17. TypeOK'
  BY <1>6, <1>9, <1>16 DEF TypeOK
<1>18. \A b \in Threads, q \in Ps :
         Owns(b, q)' <=> (b = a /\ q = 0) \/ (q \in work /\ next[q] = b)
  <2> SUFFICES ASSUME NEW b \in Threads, NEW q \in Ps
               PROVE  Owns(b, q)' <=> (b = a /\ q = 0) \/ (q \in work /\ next[q] = b)
    OBVIOUS
  <2>1. CASE b = a
    BY <1>10, <1>11, <1>13, <2>1 DEF Owns
  <2>2. CASE b \in Range(next)
    <3>1. m'[b].p \in work /\ next[m'[b].p] = b /\ b # a
      BY <1>10, <1>14, <2>2
    <3>2. \A r \in work : next[r] = b => r = m'[b].p
      BY <1>1, <3>1 DEF Started
    <3> QED  BY <1>14, <2>2, <3>1, <3>2 DEF Owns
  <2>3. CASE b # a /\ b \notin Range(next)
    BY <1>4, <1>11, <1>15, <2>3 DEF Owns
  <2> QED  BY <2>1, <2>2, <2>3
<1>19. PlaceInv'
  <2>1. Placed(a)'
    BY <1>5, <1>8, <1>13 DEF Placed, Running, Handing, Stopping, Without
  <2>2. \A b \in Range(next) : Placed(b)'
    <3> SUFFICES ASSUME NEW b \in Range(next) PROVE Placed(b)'
      OBVIOUS
    <3>1. m'[b].p \in Ps /\ status'[m'[b].p] = "Pidle"
      BY <1>1, <1>5, <1>8, <1>14 DEF Started
    <3> QED  BY <1>14, <3>1 DEF Placed, Running, Stopping, Without
  <2>3. \A b \in Threads \ ({a} \cup Range(next)) : Placed(b)'
    BY <1>4, <1>15, PlaceKept
  <2>4. \A b \in Ms : m'[b].pc \notin {"mon", "retake", "monend"}
    BY <1>13, <1>14, <1>15 DEF PlaceInv, Threads
  <2>5. m'[Sysmon] = m[Sysmon]
    BY <1>2, <1>10, <1>15, SizesAssumption DEF Threads
  <2> QED  BY <2>1, <2>2, <2>3, <2>4, <2>5 DEF PlaceInv
<1>20. OwnerInv'
  <2>1. (\A b, c \in Threads, q \in Ps : Owns(b, q) /\ Owns(c, q) => b = c)'
    BY <1>5, <1>18
  <2>2. (\A q \in sched.pidle : status[q] = "Pidle" /\ \A b \in Threads : ~Owns(b, q))'
    BY <1>5, <1>6, <1>8, <1>18
  <2>3. (\A q \in Ps : status[q] \in {"Pidle", "Prunning"} =>
          q \in sched.pidle \/ \E b \in Threads : Owns(b, q))'
    <3> SUFFICES ASSUME NEW q \in Ps, status'[q] \in {"Pidle", "Prunning"}
                 PROVE  q \in sched'.pidle \/ \E b \in Threads : Owns(b, q)'
      OBVIOUS
    <3>1. CASE q = 0
      BY <1>2, <1>18, <3>1
    <3>2. CASE q \in work
      <4>1. next[q] \in Threads
        BY <1>10, <1>11, <3>2 DEF Threads
      <4> QED  BY <1>18, <3>2, <4>1
    <3>3. CASE q # 0 /\ q \notin work
      BY <1>5, <1>6, <1>8, <3>3
    <3> QED  BY <3>1, <3>2, <3>3
  <2> QED  BY <2>1, <2>2, <2>3 DEF OwnerInv
<1>21. WorldInv'
  <2>1. \A b \in Ms : m'[b].pc \notin Stopping
    <3>1. \A b \in Ms \ ({a} \cup Range(next)) : m'[b].pc \notin Stopping
      BY <1>2, <1>15 DEF Threads
    <3> QED  BY <1>13, <1>14, <3>1 DEF Stopping
  <2>2. \A b \in Ms : sched'.lock # b /\ m'[b].pc \notin {"stopcas", "stopidle", "stopped"}
    BY <1>6, <2>1, SizesAssumption DEF Stopping
  <2>3. \A q \in Ps : (status'[q] = "Pdead" <=> q >= new) /\ status'[q] # "Pgcstop"
    BY <1>8, SizesAssumption DEF Ps
  <2> QED  BY <1>6, <1>7, <2>1, <2>2, <2>3 DEF WorldInv
<1> QED  BY <1>17, <1>19, <1>20, <1>21 DEF Held

----------------------------------------------------------------------------
(* The theorems *)

LEMMA InitHolds == Init => IndInv
<1> SUFFICES ASSUME Init PROVE IndInv
  OBVIOUS
<1>1. PICK m0 \in Ms :
        m = [a \in Threads |-> [pc |-> CASE a = m0 -> "run" [] a = Sysmon -> "mon"
                                         [] OTHER -> "none",
                                p |-> IF a = m0 THEN 0 ELSE NoP,
                                spinning |-> FALSE, ret |-> "schedule", i |-> 0]]
  BY DEF Init
<1>2. 0 \in Ps /\ NoP \notin Ps /\ m0 \in Threads /\ m0 # Sysmon /\ Sysmon \in Threads
      /\ NP \in 1..NP
  BY SizesAssumption DEF Ps, NoP, Threads
<1>3. \A a \in Threads :
        /\ m[a].pc = IF a = m0 THEN "run" ELSE IF a = Sysmon THEN "mon" ELSE "none"
        /\ m[a].p = IF a = m0 THEN 0 ELSE NoP
        /\ m[a].i = 0
  <2> SUFFICES ASSUME NEW a \in Threads
               PROVE  /\ m[a].pc = IF a = m0 THEN "run" ELSE IF a = Sysmon THEN "mon" ELSE "none"
                      /\ m[a].p = IF a = m0 THEN 0 ELSE NoP
                      /\ m[a].i = 0
    OBVIOUS
  <2> DEFINE l == CASE a = m0 -> "run" [] a = Sysmon -> "mon" [] OTHER -> "none"
  <2>1. l = IF a = m0 THEN "run" ELSE IF a = Sysmon THEN "mon" ELSE "none"
    BY <1>2
  <2>2. m[a].pc = l /\ m[a].p = (IF a = m0 THEN 0 ELSE NoP) /\ m[a].i = 0
    BY <1>1
  <2> QED  BY <2>1, <2>2
<1>4. \A p \in Ps : status[p] = IF p = 0 THEN "Prunning" ELSE "Pidle"
  BY DEF Init
<1>5. /\ sched.lock = NoM /\ sched.gomaxprocs = NP /\ sched.pidle = Ps \ {0}
      /\ sched.gcwaiting = FALSE /\ sched.stopwait = 0
  BY DEF Init
<1>6. TypeOK
  <2>1. SchedType
    BY <1>2 DEF Init, SchedType
  <2>2. status \in [Ps -> Statuses]
    BY DEF Init, Statuses
  <2>3. m \in [Threads -> ThreadType]
    BY <1>1, <1>2 DEF ThreadType, Running, Without
  <2> QED  BY <2>1, <2>2, <2>3 DEF TypeOK
<1>7. PlaceInv
  <2>1. \A a \in Threads : Placed(a)
    BY <1>2, <1>3, <1>4 DEF Placed, Running, Handing, Stopping, Without
  <2>2. m[Sysmon].pc = "mon" /\ \A a \in Ms : m[a].pc \in {"run", "none"}
    BY <1>2, <1>3, SizesAssumption DEF Threads
  <2> QED  BY <2>1, <2>2 DEF PlaceInv
<1>8. \A a \in Threads, p \in Ps : Owns(a, p) <=> a = m0 /\ p = 0
  BY <1>2, <1>3 DEF Owns
<1>9. OwnerInv
  BY <1>2, <1>4, <1>5, <1>8 DEF OwnerInv
<1>10. WorldInv
  <2>1. \A a \in Ms : m[a].pc \notin Stopping /\ a # NoM /\ m[a].pc \notin {"stopcas", "stopidle", "stopped"}
    BY <1>3, SizesAssumption DEF Threads, Stopping
  <2>2. \A p \in Ps : p < NP /\ p \in Int
    BY SizesAssumption DEF Ps
  <2> QED  BY <1>4, <1>5, <2>1, <2>2, SizesAssumption DEF WorldInv
<1>11. LenInv
  BY DEF Init, LenInv
<1> QED  BY <1>6, <1>7, <1>9, <1>10, <1>11 DEF IndInv

\* The lengths of the queues are never negative.
LEMMA NextLen == IndInv /\ Next => LenInv'
<1> SUFFICES ASSUME IndInv, Next PROVE LenInv'
  OBVIOUS
<1>1. TypeOK /\ runq \in [Ps -> Nat] /\ \A a \in Ms : a \in Threads
  BY DEF IndInv, LenInv, Threads
<1>2. UNCHANGED runq => LenInv'
  BY <1>1 DEF LenInv
<1>3. ASSUME NEW a \in Ms, m[a].pc \in Running PROVE m[a].p \in Ps
  BY <1>1, <1>3 DEF IndInv, PlaceInv, Placed
<1>4. ASSUME NEW a \in Ms, NEW max \in Nat, globrunqget(a, max), m[a].pc \in Running
      PROVE  LenInv'
  <2>1. PICK n \in 1..sched.runqsize : runq' = [runq EXCEPT ![m[a].p] = @ + n - 1]
    BY <1>1, <1>4, GlobTakes
  <2>2. n \in Nat \ {0}
    BY <1>1, <2>1 DEF TypeOK, SchedType
  <2> QED  BY <1>1, <1>3, <1>4, <2>1, <2>2 DEF LenInv
<1>5. ASSUME NEW v \in Ps, runq[v] > 0, runq' = [runq EXCEPT ![v] = @ - 1]
      PROVE  LenInv'
  BY <1>1, <1>5 DEF LenInv
<1>6. ASSUME NEW a \in Ms, Schedule(a) \/ Findrunnable(a) \/ FindStop(a)
      PROVE  LenInv'
  <2>1. m[a].pc \in Running
    BY <1>6 DEF Schedule, Findrunnable, FindStop, At, Running
  <2>2. \/ UNCHANGED runq
        \/ globrunqget(a, 1) \/ globrunqget(a, 0)
        \/ runq[m[a].p] > 0 /\ runq' = [runq EXCEPT ![m[a].p] = @ - 1]
    <3>1. CASE Schedule(a)
      BY <3>1, Zenon DEF Schedule, gcstopm
    <3>2. CASE Findrunnable(a)
      BY <3>2, Zenon DEF Findrunnable, gcstopm
    <3>3. CASE FindStop(a)
      BY <3>3, Zenon DEF FindStop
    <3> QED  BY <1>6, <3>1, <3>2, <3>3
  <2> QED  BY <1>2, <1>3, <1>4, <1>5, <2>1, <2>2
<1>7. ASSUME NEW a \in Ms, FindSteal(a) PROVE LenInv'
  <2>1. m[a].p \in Ps
    BY <1>3, <1>7 DEF FindSteal, At, Running
  <2>2. CASE UNCHANGED runq
    BY <1>2, <2>2
  <2>3. ASSUME NEW v \in Ps, runq[v] > 0,
               runq' = IF v = m[a].p THEN [runq EXCEPT ![v] = @ - 1]
                       ELSE [runq EXCEPT ![v] = @ - (runq[v] - runq[v] \div 2),
                                         ![m[a].p] = @ + (runq[v] - runq[v] \div 2) - 1]
        PROVE  LenInv'
    <3>1. CASE v = m[a].p
      BY <1>5, <2>3, <3>1
    <3>2. CASE v # m[a].p
      <4>1. PICK k \in Nat : k = runq[v] /\ k > 0
        BY <1>1, <2>3
      <4>2. PICK n \in 1..k : n = k - k \div 2
        BY <4>1
      <4>3. PICK x \in Nat : x = runq[m[a].p]
        BY <1>1, <2>1
      <4>4. runq' = [runq EXCEPT ![v] = k - n, ![m[a].p] = x + n - 1]
        BY <2>3, <3>2, <4>1, <4>2, <4>3
      <4>5. k - n \in Nat /\ x + n - 1 \in Nat
        BY <4>2, <4>3
      <4> QED  BY <1>1, <2>1, <4>4, <4>5 DEF LenInv
    <3> QED  BY <3>1, <3>2
  <2> QED  BY <1>7, <2>2, <2>3, Zenon DEF FindSteal
<1>8. ASSUME NEW a \in Ms, Ready(a) PROVE LenInv'
  <2>1. m[a].p \in Ps
    BY <1>3, <1>8 DEF Ready, At, Running
  <2>2. PICK x \in Nat : x = runq[m[a].p]
    BY <1>1, <2>1
  <2>3. PICK n \in Nat : n = Size \div 2 /\ n <= Size
    BY SizesAssumption
  <2>4. PICK y \in Nat : runq' = [runq EXCEPT ![m[a].p] = y]
    <3>1. CASE x < Size
      <4>1. runq' = [runq EXCEPT ![m[a].p] = x + 1]
        BY <1>8, <2>2, <3>1 DEF Ready
      <4>2. x + 1 \in Nat
        OBVIOUS
      <4> QED  BY <4>1, <4>2
    <3>2. CASE ~(x < Size)
      <4>1. runq' = [runq EXCEPT ![m[a].p] = x - n]
        BY <1>8, <2>2, <2>3, <3>2 DEF Ready
      <4>2. x - n \in Nat
        BY <2>3, <3>2, SizesAssumption
      <4> QED  BY <4>1, <4>2
    <3> QED  BY <3>1, <3>2
  <2> QED  BY <1>1, <2>4 DEF LenInv
<1>9. ASSUME NEW a \in Ms, NEW new \in 1..NP, Starttheworld(a, new) PROVE LenInv'
  <2>1. PICK t : runq' = [p \in Ps |-> Cardinality({i \in 1..t : i % new = p})] /\ t \in Int
    <3> DEFINE total == sched.runqsize + Cardinality(Queued(runq))
               dealt == Lesser(total, (new * Size) \div 2 - 1)
    <3>1. runq' = [p \in Ps |-> Cardinality({i \in 1..dealt : i % new = p})]
      BY <1>9, Zenon DEF Starttheworld, Lesser
    <3>2. total \in Int
      BY <1>1, QueuedFinite DEF TypeOK, SchedType
    <3>3. PICK y \in Int : y = (new * Size) \div 2 - 1
      BY SizesAssumption
    <3> HIDE DEF total
    <3>4. dealt \in Int
      BY <3>2, <3>3, LesserOf
    <3> HIDE DEF dealt
    <3> QED  BY <3>1, <3>4
  <2>2. ASSUME NEW p \in Ps PROVE Cardinality({i \in 1..t : i % new = p}) \in Nat
    <3>1. IsFiniteSet(1..t)
      BY <2>1, FS_Interval
    <3>2. {i \in 1..t : i % new = p} \subseteq 1..t
      OBVIOUS
    <3> QED  BY <3>1, <3>2, FS_Subset, FS_CardinalityType
  <2> QED  BY <2>1, <2>2 DEF LenInv
<1>10. ASSUME NEW a \in Ms,
              \/ FindBusy(a) \/ FindSpin(a) \/ FindUnspin(a) \/ FindRecheck(a) \/ FindGrab(a)
              \/ FindPoll(a) \/ FindPolled(a) \/ stopm(a) \/ Acquirep(a) \/ Resetspinning(a)
              \/ ResetIdle(a) \/ ReadyIdle(a) \/ WakepCas(a) \/ WakepStart(a)
              \/ Park(a) \/ Gosched(a) \/ Entersyscall(a) \/ EntersyscallLoad(a)
              \/ EntersyscallGcwait(a) \/ Entersyscallblock(a) \/ Exitsyscall(a)
              \/ ExitsyscallCas(a) \/ ExitsyscallPidle(a) \/ Exitsyscall0(a)
              \/ Stoptheworld(a) \/ StopCas(a) \/ StopIdle(a) \/ StopWait(a) \/ StopCheck(a)
      PROVE  UNCHANGED runq
  BY <1>10, Zenon DEF FindBusy, FindSpin, FindUnspin, FindRecheck, FindGrab, FindPoll,
     FindPolled, stopm, Acquirep, Resetspinning, ResetIdle, ReadyIdle, WakepCas, WakepStart,
     Park, Gosched, Entersyscall, EntersyscallLoad, EntersyscallGcwait, Entersyscallblock,
     Exitsyscall, ExitsyscallCas, ExitsyscallPidle, Exitsyscall0, Stoptheworld, StopCas,
     StopIdle, StopWait, StopCheck
<1>11. ASSUME NEW a \in Threads, Handoff(a) PROVE UNCHANGED runq
  BY <1>11, Zenon DEF Handoff, Handoff1, Handoff2, HandoffCas, HandoffStart, Handoff3
<1>12. CASE Retake(Sysmon) \/ RetakeCas(Sysmon) \/ RetakeEnd(Sysmon)
  BY <1>2, <1>12 DEF Retake, RetakeCas, RetakeEnd
<1>13. ASSUME NEW a \in Ms, MNext(a) PROVE LenInv'
  BY <1>2, <1>6, <1>7, <1>8, <1>9, <1>10, <1>13 DEF MNext
<1> QED  BY <1>2, <1>11, <1>12, <1>13 DEF Next

\* Every step of a thread keeps the invariant.
LEMMA NextHolds == IndInv /\ Next => IndInv'
<1> SUFFICES ASSUME IndInv, Next PROVE TypeOK' /\ Held'
  BY NextLen DEF IndInv, Held
<1> USE DEF IndInv
<1>1. ASSUME NEW a \in Ms,
             \/ Schedule(a) \/ Findrunnable(a) \/ FindBusy(a) \/ FindSpin(a)
             \/ FindSteal(a) \/ FindStop(a) \/ FindUnspin(a) \/ FindRecheck(a)
             \/ FindPoll(a) \/ FindPolled(a) \/ stopm(a)
      PROVE  TypeOK' /\ Held'
  <2>1. fate = "ok" /\ a \in Threads
    BY <1>1 DEF Schedule, Findrunnable, FindBusy, FindSpin, FindSteal, FindStop, FindUnspin,
                FindRecheck, FindPoll, FindPolled, stopm, At, Threads
  <2>2. TypeOK' /\ (Keep(a) \/ StopsP(a) \/ PutsIdle(a))
    BY <1>1, FindEffect
  <2> QED  BY <2>1, <2>2, KeepHolds, StopsHolds, PutsHolds
<1>2. ASSUME NEW a \in Ms,
             \/ Resetspinning(a) \/ ResetIdle(a) \/ ReadyIdle(a) \/ WakepCas(a)
             \/ WakepStart(a) \/ Ready(a) \/ Park(a) \/ Gosched(a)
      PROVE  TypeOK' /\ Held'
  <2>1. fate = "ok" /\ a \in Threads
    BY <1>2 DEF Resetspinning, ResetIdle, ReadyIdle, WakepCas, WakepStart, Ready, Park, Gosched,
                At, Threads
  <2>2. TypeOK' /\ (Keep(a) \/ StartsIdle(a))
    BY <1>2, WakeEffect
  <2> QED  BY <2>1, <2>2, KeepHolds, StartHolds
<1>3. ASSUME NEW a \in Ms, Acquirep(a) PROVE TypeOK' /\ Held'
  <2>1. fate = "ok" /\ a \in Threads
    BY <1>3 DEF Acquirep, At, Threads
  <2> QED  BY <1>3, <2>1, AcquireEffect, ChangesHolds
<1>4. ASSUME NEW a \in Ms,
             \/ Entersyscall(a) \/ EntersyscallLoad(a) \/ EntersyscallGcwait(a)
             \/ Entersyscallblock(a) \/ Exitsyscall(a) \/ ExitsyscallCas(a)
             \/ ExitsyscallPidle(a) \/ Exitsyscall0(a) \/ FindGrab(a)
      PROVE  TypeOK' /\ Held'
  <2>1. fate = "ok" /\ a \in Threads
    BY <1>4 DEF Entersyscall, EntersyscallLoad, EntersyscallGcwait, Entersyscallblock,
                Exitsyscall, ExitsyscallCas, ExitsyscallPidle, Exitsyscall0, FindGrab, At, Threads
  <2>2. TypeOK' /\ (LeavesP(a) \/ Looks(a) \/ StopsP(a) \/ GrabsP(a)
                     \/ TakesIdle(a) \/ Keep(a))
    BY <1>4, SyscallEffect
  <2> QED  BY <2>1, <2>2, ChangesHolds, LooksHolds, StopsHolds, TakesHolds, KeepHolds
<1>5. ASSUME NEW a \in Threads, Handoff(a) PROVE TypeOK' /\ Held'
  <2>1. fate = "ok"
    BY <1>5 DEF Handoff, Handoff1, Handoff2, HandoffCas, HandoffStart, Handoff3, At
  <2>2. TypeOK' /\ (Keep(a) \/ StopsP(a) \/ PutsIdle(a) \/ HandsOn(a))
    BY <1>5, HandoffEffect
  <2> QED  BY <2>1, <2>2, KeepHolds, StopsHolds, PutsHolds, StartHolds
<1>6. CASE Retake(Sysmon) \/ RetakeCas(Sysmon) \/ RetakeEnd(Sysmon)
  <2>1. fate = "ok" /\ Sysmon \in Threads
    BY <1>6 DEF Retake, RetakeCas, RetakeEnd, At, Threads
  <2>2. TypeOK' /\ (Looks(Sysmon) \/ GrabsP(Sysmon) \/ Keep(Sysmon))
    BY <1>6, SysmonEffect
  <2> QED  BY <2>1, <2>2, LooksHolds, ChangesHolds, KeepHolds
<1>7. ASSUME NEW a \in Ms,
             \/ Stoptheworld(a) \/ StopCas(a) \/ StopIdle(a) \/ StopWait(a) \/ StopCheck(a)
             \/ \E new \in 1..NP : Starttheworld(a, new)
      PROVE  TypeOK' /\ Held'
  BY <1>7, StoptheworldHolds, StopCasHolds, StopIdleHolds, StopWaitHolds, StarttheworldHolds
<1>8. ASSUME NEW a \in Ms, MNext(a) PROVE TypeOK' /\ Held'
  BY <1>1, <1>2, <1>3, <1>4, <1>7, <1>8 DEF MNext
<1> QED  BY <1>5, <1>6, <1>8 DEF Next

\* The invariant holds for ever.
LEMMA Invariance == Spec => []IndInv
<1>1. IndInv /\ UNCHANGED vars => IndInv'
  BY DEF vars, IndInv, LenInv, TypeOK, SchedType, PlaceInv, Placed, OwnerInv, Owns, WorldInv, Live
<1> QED  BY <1>1, InitHolds, NextHolds, PTL DEF Spec

\* No P is ever with two threads, or with one and on pidle too, nor is a P
\* that runs or idles lost: not by findrunnable giving its P up, startm and
\* handoffp passing it on, a system call finding its stale P again, sysmon
\* retaking it or stoptheworld sweeping it (acquirep's checks in proc.c would
\* throw).
THEOREM SchedOneOwner == Spec => []OneOwner
<1>1. IndInv => OneOwner
  <2> SUFFICES ASSUME IndInv, NEW p \in Ps
               PROVE  LET owners == {a \in Threads : Owns(a, p)} IN
                      /\ Cardinality(owners) + (IF p \in sched.pidle THEN 1 ELSE 0) <= 1
                      /\ status[p] = "Psyscall" => owners = {} /\ p \notin sched.pidle
                      /\ status[p] \in {"Pidle", "Prunning"} => owners # {} \/ p \in sched.pidle
    BY DEF OneOwner
  <2> USE DEF IndInv
  <2> DEFINE owners == {a \in Threads : Owns(a, p)}
  <2>1. Cardinality(owners) + (IF p \in sched.pidle THEN 1 ELSE 0) <= 1
    <3>1. CASE owners = {}
      BY <3>1, FS_EmptySet
    <3>2. CASE owners # {}
      <4>1. PICK a \in Threads : Owns(a, p)
        BY <3>2
      <4>2. owners = {a}
        BY <4>1 DEF OwnerInv
      <4>3. p \notin sched.pidle
        BY <4>1 DEF OwnerInv
      <4> HIDE DEF owners
      <4> QED  BY <4>2, <4>3, FS_Singleton
    <3> QED  BY <3>1, <3>2
  <2>2. status[p] = "Psyscall" => owners = {} /\ p \notin sched.pidle
    BY OwnerPlace DEF OwnerInv
  <2>3. status[p] \in {"Pidle", "Prunning"} => owners # {} \/ p \in sched.pidle
    BY DEF OwnerInv
  <2> QED  BY <2>1, <2>2, <2>3
<1> QED  BY <1>1, Invariance, PTL

\* While stoptheworld waits, stopwait is the number of Ps that have not
\* stopped, none of them is on pidle, and a P in a system call has a thread
\* that will look at gcwaiting: entersyscall's store of the status before its
\* load of gcwaiting, against stoptheworld's store of gcwaiting before its cas
\* of the status, leave no P behind.
THEOREM SchedStopReaches == Spec => []StopReaches
<1>1. IndInv => StopReaches
  <2> SUFFICES ASSUME IndInv, sched.gcwaiting, sched.lock = NoM
               PROVE  /\ sched.stopwait = Cardinality(Live)
                      /\ sched.pidle = {}
                      /\ \A p \in Ps : status[p] = "Psyscall" =>
                           \E a \in Ms : m[a].p = p /\ m[a].pc \in {"enter", "gcwait"}
    BY DEF StopReaches, Locked, Live
  <2>1. ~\E a \in Ms : m[a].pc = "stopcas"
    BY SizesAssumption DEF IndInv, WorldInv
  <2> QED  BY <2>1 DEF IndInv, WorldInv
<1> QED  BY <1>1, Invariance, PTL

----------------------------------------------------------------------------
(* The run queues, the spinning threads and the work they look for *)

\* Places where the thread has found the queue of its P empty.
Emptied == {"busy", "spin", "steal", "stop", "hand2", "handcas", "handspin", "hand3"}

EmptyAt(a) ==
  \/ m[a].pc \in Emptied
  \/ m[a].spinning /\ m[a].pc \in {"woken", "schedule"}
  => runq[m[a].p] = 0

\* Idle and dead Ps have no work.
EmptyInv ==
  /\ \A p \in Ps : p \in sched.pidle \/ p >= sched.gomaxprocs => runq[p] = 0
  /\ \A a \in Threads : EmptyAt(a)

\* Nor is there work for all when all Ps idle.
GlobalInv == sched.runqsize > 0 => sched.pidle # 0..sched.gomaxprocs-1

QueueType == runq \in [Ps -> Nat] /\ sched.runqsize \in Nat /\ waiting \in Nat

\* nmspinning counts the threads that spin, and those about to start one that
\* will.
Spins(a) == m[a].spinning \/ m[a].pc \in {"start", "handspin"}
SpinAt(a) ==
  /\ m[a].spinning =>
       m[a].pc \in {"woken", "schedule", "find", "steal", "stop", "unspin", "reset"}
  /\ m[a].pc = "unspin" => m[a].spinning

SpinInv ==
  /\ sched.nmspinning = Cardinality({a \in Threads : Spins(a)})
  /\ \A a \in Threads : SpinAt(a)

\* Every goroutine waits, is on a queue or has a thread.
Holding == {"reset", "idle", "cas", "start", "ridle", "run", "enter", "gcwait", "syscall",
            "recas", "repidle", "exit0"} \cup Handing \cup Stopping
Holds(a) == m[a].pc \in Holding
Total == waiting + sched.runqsize + Cardinality(Queued(runq))

CountInv == Total + Cardinality({a \in Ms : Holds(a)}) = NG

\* The queue of q holds more than what its thread is about to run.
Spare(q) ==
  /\ runq[q] > 0
  /\ ~\E a \in Ms : m[a].p = q /\ m[a].pc \in {"woken", "schedule"} /\ runq[q] = 1

\* A thread that will look for work, or has someone look for it.
AlertPlaces == {"find", "busy", "spin", "steal", "stop", "unspin", "reset", "idle", "cas",
                "start", "ridle", "grab", "handspin"}
Alert(a) == m[a].spinning \/ m[a].pc \in AlertPlaces
Watches(a, q) == Alert(a) \/ (m[a].pc = "recheck" /\ m[a].i <= q)

\* A P idles, and not because handoffp put it there.
Loose == ~(sched.pidle \subseteq sched.handed)

\* While a P idles, somebody watches every queue that has work to spare.
WorkInv == \A q \in Ps : Spare(q) /\ Loose => \E a \in Threads : Watches(a, q)

LoadInv == QueueType /\ EmptyInv /\ GlobalInv /\ SpinInv /\ CountInv /\ WorkInv

----------------------------------------------------------------------------
(* How many goroutines are on the local queues *)

LEMMA QueuedIn ==
  ASSUME NEW r \in [Ps -> Nat], NEW x
  PROVE  x \in Queued(r) <=> \E p \in Ps : \E i \in 1..r[p] : x = <<p, i>>
BY DEF Queued

\* One queue gets another length.
LEMMA QueuedChange ==
  ASSUME NEW r \in [Ps -> Nat], NEW r2 \in [Ps -> Nat], NEW p \in Ps,
         \A q \in Ps \ {p} : r2[q] = r[q]
  PROVE  Cardinality(Queued(r2)) = Cardinality(Queued(r)) - r[p] + r2[p]
<1> DEFINE Part(s) == {p} \X (1..s[p])
<1>1. ASSUME NEW s \in [Ps -> Nat]
      PROVE  /\ Cardinality(Queued(s) \ Part(s)) = Cardinality(Queued(s)) - s[p]
             /\ \A x : x \in Queued(s) \ Part(s) <=>
                         \E q \in Ps \ {p} : \E i \in 1..s[q] : x = <<q, i>>
  <2>1. Queued(s) \cap Part(s) = Part(s)
    BY DEF Queued
  <2>2. Cardinality(Part(s)) = s[p]
    <3>1. IsFiniteSet({p}) /\ Cardinality({p}) = 1
      BY FS_Singleton
    <3>2. IsFiniteSet(1..s[p]) /\ Cardinality(1..s[p]) = s[p]
      <4>1. PICK k \in Nat : k = s[p]
        OBVIOUS
      <4>2. 1 \in Int /\ k \in Int
        BY <4>1
      <4>3. IsFiniteSet(1..k) /\ Cardinality(1..k) = IF 1 > k THEN 0 ELSE k - 1 + 1
        BY <4>2, FS_Interval
      <4>4. Cardinality(1..k) = k
        BY <4>1, <4>3
      <4> QED  BY <4>1, <4>3, <4>4
    <3>3. Cardinality({p} \X (1..s[p])) = Cardinality({p}) * Cardinality(1..s[p])
      BY <3>1, <3>2, FS_Product
    <3>4. s[p] \in Nat /\ 1 * s[p] = s[p]
      OBVIOUS
    <3> QED  BY <3>1, <3>2, <3>3, <3>4
  <2>3. Cardinality(Queued(s) \ Part(s)) = Cardinality(Queued(s)) - Cardinality(Queued(s) \cap Part(s))
    BY QueuedFinite, FS_Difference
  <2>4. \A x : x \in Queued(s) \ Part(s) <=>
                \E q \in Ps \ {p} : \E i \in 1..s[q] : x = <<q, i>>
    BY QueuedIn
  <2> QED  BY <2>1, <2>2, <2>3, <2>4
<1> HIDE DEF Part
<1>2. Queued(r2) \ Part(r2) = Queued(r) \ Part(r)
  <2> DEFINE In(s, x) == \E q \in Ps \ {p} : \E i \in 1..s[q] : x = <<q, i>>
  <2>1. \A x : In(r2, x) <=> In(r, x)
    OBVIOUS
  <2>2. ASSUME NEW s \in {r, r2}
        PROVE  \A x : x \in Queued(s) \ Part(s) <=> In(s, x)
    BY <1>1, ZenonT(60)
  <2> HIDE DEF In
  <2> QED  BY <2>1, <2>2
<1>3. Cardinality(Queued(r2)) \in Nat /\ Cardinality(Queued(r)) \in Nat /\ r[p] \in Nat /\ r2[p] \in Nat
  BY QueuedFinite
<1>4. Cardinality(Queued(r2)) - r2[p] = Cardinality(Queued(r)) - r[p]
  BY <1>1, <1>2
<1> QED  BY <1>3, <1>4

LEMMA QueuedNone ==
  ASSUME NEW r \in [Ps -> Nat], \A p \in Ps : r[p] = 0
  PROVE  Cardinality(Queued(r)) = 0
<1>1. Queued(r) = {}
  BY QueuedIn
<1> QED  BY <1>1, FS_EmptySet

\* procresize deals out all goroutines, and to the first Ps first.
Deal(t, n) == [p \in Ps |-> Cardinality({i \in 1..t : i % n = p})]

LEMMA DealSome ==
  ASSUME NEW t \in Nat, NEW n \in 1..NP, NEW p
  PROVE  /\ IsFiniteSet({i \in 1..t : i % n = p})
         /\ Cardinality({i \in 1..t : i % n = p}) \in Nat
<1>1. IsFiniteSet(1..t)
  BY FS_Interval
<1>2. IsFiniteSet({i \in 1..t : i % n = p})
  BY <1>1, FS_Subset
<1> QED  BY <1>2, FS_CardinalityType

LEMMA DealOne ==
  ASSUME NEW t \in Nat, NEW n \in 1..NP
  PROVE  \A p \in Ps : Deal(t + 1, n)[p] = Deal(t, n)[p] + (IF p = (t + 1) % n THEN 1 ELSE 0)
<1> TAKE p \in Ps
<1> DEFINE S == {i \in 1..t : i % n = p}
           T == {i \in 1..t+1 : i % n = p}
<1>1. IsFiniteSet(S) /\ Cardinality(S) \in Nat
  BY DealSome
<1>2. 1..t+1 = (1..t) \cup {t + 1} /\ t + 1 \notin 1..t
  OBVIOUS
<1>3. CASE p = (t + 1) % n
  <2>1. T = S \cup {t + 1} /\ t + 1 \notin S
    BY <1>2, <1>3
  <2> HIDE DEF S, T
  <2>2. Cardinality(T) = Cardinality(S) + 1
    BY <1>1, <2>1, FS_AddElement
  <2> QED  BY <1>3, <2>2 DEF Deal, S, T
<1>4. CASE p # (t + 1) % n
  <2>1. T = S
    BY <1>2, <1>4
  <2> HIDE DEF S, T
  <2>2. Cardinality(T) = Cardinality(S) + 0
    BY <1>1, <2>1
  <2> QED  BY <1>4, <2>2 DEF Deal, S, T
<1> QED  BY <1>3, <1>4

LEMMA DealType ==
  ASSUME NEW t \in Nat, NEW n \in 1..NP
  PROVE  Deal(t, n) \in [Ps -> Nat]
BY DealSome DEF Deal

LEMMA DealAll ==
  ASSUME NEW t \in Nat, NEW n \in 1..NP
  PROVE  Cardinality(Queued(Deal(t, n))) = t
<1> DEFINE Bad == {k \in Nat : Cardinality(Queued(Deal(k, n))) # k}
<1> SUFFICES ASSUME Bad # {} PROVE FALSE
  OBVIOUS
<1>1. PICK k \in Bad : \A y \in Bad : <<y, k>> \notin OpToRel(<, Nat)
  BY NatLessThanWellFounded, WFMin, Zenon
<1>2. \A y \in Bad : ~(y < k)
  BY <1>1, Zenon DEF OpToRel
<1>3. k # 0
  <2>1. \A p \in Ps : {i \in 1..0 : i % n = p} = {}
    OBVIOUS
  <2>2. \A p \in Ps : Deal(0, n)[p] = 0
    BY <2>1, FS_EmptySet DEF Deal
  <2>3. Cardinality(Queued(Deal(0, n))) = 0
    BY <2>2, DealType, QueuedNone
  <2> QED  BY <2>3
<1>4. PICK j \in Nat : k = j + 1 /\ j \notin Bad
  <2>1. k - 1 \in Nat /\ k = (k - 1) + 1 /\ k - 1 < k
    BY <1>3
  <2> QED  BY <1>2, <2>1
<1>5. PICK q \in Ps : q = (j + 1) % n
  <2>1. (j + 1) % n \in 0..n-1
    BY SizesAssumption
  <2> QED  BY <2>1, SizesAssumption DEF Ps
<1>6. /\ \A p \in Ps \ {q} : Deal(k, n)[p] = Deal(j, n)[p]
      /\ Deal(k, n)[q] = Deal(j, n)[q] + 1
  <2>1. Deal(j, n) \in [Ps -> Nat]
    BY DealType
  <2>2. \A p \in Ps : Deal(k, n)[p] = Deal(j, n)[p] + (IF p = q THEN 1 ELSE 0)
    BY <1>4, <1>5, DealOne
  <2> HIDE DEF Bad
  <2> QED  BY <2>1, <2>2
<1>7. PICK r, r2 \in [Ps -> Nat] : r = Deal(j, n) /\ r2 = Deal(k, n)
  BY DealType
<1>8. Cardinality(Queued(r2)) = Cardinality(Queued(r)) - r[q] + r2[q]
  BY <1>6, <1>7, QueuedChange
<1>9. Cardinality(Queued(r)) = j
  BY <1>4, <1>7
<1>10. r[q] \in Nat /\ r2[q] = r[q] + 1
  BY <1>6, <1>7
<1>11. Cardinality(Queued(r2)) = j + 1
  BY <1>8, <1>9, <1>10
<1> QED  BY <1>1, <1>4, <1>7, <1>11

\* If some P other than the first gets nothing, no P gets more than one and
\* the first gets none.
LEMMA DealFew ==
  ASSUME NEW t \in Nat, NEW n \in 1..NP, NEW p \in 1..n-1, Deal(t, n)[p] = 0
  PROVE  \A q \in Ps : Deal(t, n)[q] <= 1 /\ (q = 0 => Deal(t, n)[q] = 0)
<1>1. p \in Ps /\ n \in Nat
  BY SizesAssumption DEF Ps
<1>2. t < p
  <2> SUFFICES ASSUME p \in 1..t PROVE FALSE
    BY <1>1
  <2>1. p % n = p
    BY <1>1
  <2>2. p \in {i \in 1..t : i % n = p}
    BY <2>1
  <2>3. {i \in 1..t : i % n = p} = {}
    BY <1>1, DealSome, FS_EmptySet DEF Deal
  <2> QED  BY <2>2, <2>3
<1>3. \A i \in 1..t : i % n = i
  BY <1>1, <1>2
<1> TAKE q \in Ps
<1> DEFINE S == {i \in 1..t : i % n = q}
<1>4. S \subseteq {q} /\ (q = 0 => S = {})
  BY <1>3
<1>5. IsFiniteSet({q}) /\ Cardinality({q}) = 1 /\ Cardinality({}) = 0
  BY FS_Singleton, FS_EmptySet
<1>6. Deal(t, n)[q] = Cardinality(S)
  BY DEF Deal
<1> HIDE DEF S
<1>7. Cardinality(S) <= 1
  BY <1>4, <1>5, FS_Subset
<1> QED  BY <1>4, <1>5, <1>6, <1>7

LEMMA TotalType ==
  ASSUME QueueType PROVE Total \in Nat
BY QueuedFinite DEF QueueType, Total

----------------------------------------------------------------------------
(* What a step may do to them *)

LEMMA ThreadsFinite == IsFiniteSet(Threads) /\ IsFiniteSet(Ms)
<1>1. IsFiniteSet(Ms)
  BY SizesAssumption
<1>2. IsFiniteSet(Ms \cup {Sysmon})
  BY <1>1, FS_AddElement
<1> QED  BY <1>1, <1>2 DEF Threads

\* A thread that has found its queue empty owns it.
LEMMA EmptyOwns ==
  ASSUME IndInv, NEW a \in Threads,
         m[a].pc \in Emptied \cup Running \cup Handing \cup Stopping \cup {"woken"}
  PROVE  Owns(a, m[a].p) /\ m[a].p \in Ps
<1>1. m[a].p \in Ps
  BY DEF IndInv, PlaceInv, Placed, Emptied, Running, Handing
<1> QED  BY <1>1 DEF Owns, Emptied, Running, Handing, Stopping

\* Only the queue of the P that a runs on gets longer.
Grows(a) ==
  \A p \in Ps : runq'[p] <= runq[p] \/ (p = m[a].p /\ m[a].pc \in Running)

LEMMA EmptyKept ==
  ASSUME IndInv, QueueType, EmptyInv, NEW a \in Threads, Grows(a), QueueType',
         sched'.gomaxprocs = sched.gomaxprocs,
         \A p \in sched'.pidle : p \in sched.pidle \/ runq'[p] = 0,
         EmptyAt(a)', \A x \in Threads \ {a} : m'[x] = m[x] \/ EmptyAt(x)'
  PROVE  EmptyInv'
<1>1. \A p \in Ps : runq[p] \in Nat /\ runq'[p] \in Nat
  BY DEF QueueType
<1>2. \A p \in Ps : runq[p] = 0 /\ runq'[p] # 0 => p = m[a].p /\ m[a].pc \in Running
  BY <1>1 DEF Grows
<1>3. ASSUME m[a].pc \in Running
      PROVE  /\ Owns(a, m[a].p) /\ m[a].p \in Ps
             /\ m[a].p \notin sched.pidle /\ ~(m[a].p >= sched.gomaxprocs)
  <2>1. Owns(a, m[a].p) /\ m[a].p \in Ps /\ status[m[a].p] = "Prunning"
    BY <1>3, EmptyOwns DEF IndInv, PlaceInv, Placed
  <2>2. m[a].p \notin sched.pidle
    BY <2>1 DEF IndInv, OwnerInv
  <2>3. ~(m[a].p >= sched.gomaxprocs)
    BY <2>1 DEF IndInv, WorldInv
  <2> QED  BY <2>1, <2>2, <2>3
<1>4. ASSUME NEW p \in Ps, p \in sched'.pidle \/ p >= sched'.gomaxprocs
      PROVE  runq'[p] = 0
  <2>1. CASE runq[p] = 0
    BY <1>2, <1>3, <1>4, <2>1
  <2>2. CASE runq[p] # 0
    BY <1>4, <2>2 DEF EmptyInv
  <2> QED  BY <2>1, <2>2
<1>5. ASSUME NEW x \in Threads \ {a}, m'[x] = m[x]
      PROVE  EmptyAt(x)'
  <2> SUFFICES ASSUME m[x].pc \in Emptied \/ (m[x].spinning /\ m[x].pc \in {"woken", "schedule"})
               PROVE  runq'[m[x].p] = 0
    BY <1>5 DEF EmptyAt
  <2>1. runq[m[x].p] = 0
    BY DEF EmptyInv, EmptyAt
  <2>2. Owns(x, m[x].p) /\ m[x].p \in Ps
    BY EmptyOwns DEF Running
  <2>3. ASSUME m[x].p = m[a].p, m[a].pc \in Running PROVE FALSE
    <3>1. Owns(a, m[x].p) /\ x # a
      BY <1>3, <2>3
    <3> QED  BY <2>2, <3>1 DEF IndInv, OwnerInv
  <2> QED  BY <1>2, <2>1, <2>2, <2>3
<1>6. \A x \in Threads : EmptyAt(x)'
  BY <1>5
<1> QED  BY <1>4, <1>6 DEF EmptyInv

\* Idle Ps are not dead.
LEMMA IdleBelow ==
  ASSUME IndInv
  PROVE  sched.pidle \subseteq 0..sched.gomaxprocs-1
<1>1. \A p \in sched.pidle : p \in Ps /\ status[p] # "Pdead"
  BY DEF IndInv, OwnerInv, TypeOK, SchedType
<1>2. \A p \in sched.pidle : p \in Nat /\ ~(p >= sched.gomaxprocs)
  BY <1>1, SizesAssumption DEF IndInv, WorldInv, Ps
<1>3. sched.gomaxprocs \in Nat
  BY SizesAssumption DEF IndInv, TypeOK, SchedType
<1> QED  BY <1>2, <1>3

LEMMA GlobalKept ==
  ASSUME IndInv, GlobalInv, sched'.gomaxprocs = sched.gomaxprocs, QueueType, QueueType',
         \/ sched'.runqsize <= sched.runqsize /\ sched'.pidle \subseteq sched.pidle
         \/ sched'.runqsize = 0
         \/ \E p \in 0..sched.gomaxprocs-1 : p \notin sched'.pidle
  PROVE  GlobalInv'
<1>1. sched.pidle \subseteq 0..sched.gomaxprocs-1
  BY IdleBelow
<1>2. sched.runqsize \in Nat /\ sched'.runqsize \in Nat
  BY DEF QueueType
<1>3. CASE sched'.runqsize <= sched.runqsize /\ sched'.pidle \subseteq sched.pidle
  <2> SUFFICES ASSUME sched'.runqsize > 0, sched'.pidle = 0..sched.gomaxprocs-1 PROVE FALSE
    BY DEF GlobalInv
  <2>1. sched.runqsize > 0
    BY <1>2, <1>3
  <2>2. sched.pidle = 0..sched.gomaxprocs-1
    BY <1>1, <1>3
  <2> QED  BY <2>1, <2>2 DEF GlobalInv
<1>4. CASE sched'.runqsize = 0 \/ \E p \in 0..sched.gomaxprocs-1 : p \notin sched'.pidle
  <2>1. CASE sched'.runqsize = 0
    BY <2>1 DEF GlobalInv
  <2>2. CASE \E p \in 0..sched.gomaxprocs-1 : p \notin sched'.pidle
    BY <2>2, Zenon DEF GlobalInv
  <2> QED  BY <1>4, <2>1, <2>2
<1> QED  BY <1>3, <1>4

\* How the threads that spin may change.
SpinSame ==
  sched'.nmspinning = sched.nmspinning /\ \A x \in Threads : Spins(x)' = Spins(x)
SpinMore(a) ==
  /\ sched'.nmspinning = sched.nmspinning + 1
  /\ ~Spins(a) /\ Spins(a)' /\ \A x \in Threads \ {a} : Spins(x)' = Spins(x)
SpinLess(a) ==
  /\ sched'.nmspinning = sched.nmspinning - 1
  /\ Spins(a) /\ ~Spins(a)' /\ \A x \in Threads \ {a} : Spins(x)' = Spins(x)
SpinPass(a, b) ==
  /\ sched'.nmspinning = sched.nmspinning
  /\ a # b /\ Spins(a) /\ ~Spins(a)' /\ ~Spins(b) /\ Spins(b)'
  /\ \A x \in Threads \ {a, b} : Spins(x)' = Spins(x)

LEMMA SpinKept ==
  ASSUME SpinInv, \A x \in Threads : m'[x] = m[x] \/ SpinAt(x)',
         NEW a \in Threads, NEW b \in Threads,
         SpinSame \/ SpinMore(a) \/ SpinLess(a) \/ SpinPass(a, b)
  PROVE  SpinInv'
<1> DEFINE S == {x \in Threads : Spins(x)}
           T == {x \in Threads : Spins(x)'}
<1>1. IsFiniteSet(S) /\ Cardinality(S) \in Nat /\ sched.nmspinning = Cardinality(S)
  <2>1. S \subseteq Threads
    OBVIOUS
  <2> QED  BY <2>1, ThreadsFinite, FS_Subset, FS_CardinalityType DEF SpinInv
<1>2. \A x \in Threads : SpinAt(x)'
  BY DEF SpinInv, SpinAt
<1>3. sched'.nmspinning = Cardinality(T)
  <2>1. CASE SpinSame
    <3>1. T = S
      BY <2>1 DEF SpinSame
    <3> HIDE DEF S, T
    <3> QED  BY <1>1, <2>1, <3>1 DEF SpinSame
  <2>2. CASE SpinMore(a)
    <3>1. T = S \cup {a} /\ a \notin S
      BY <2>2 DEF SpinMore
    <3> HIDE DEF S, T
    <3> QED  BY <1>1, <2>2, <3>1, FS_AddElement, SMTT(40) DEF SpinMore
  <2>3. CASE SpinLess(a)
    <3>1. T = S \ {a} /\ a \in S
      BY <2>3 DEF SpinLess
    <3> HIDE DEF S, T
    <3> QED  BY <1>1, <2>3, <3>1, FS_RemoveElement DEF SpinLess
  <2>4. CASE SpinPass(a, b)
    <3>1. T = (S \ {a}) \cup {b} /\ a \in S /\ b \notin S \ {a}
      BY <2>4 DEF SpinPass
    <3> HIDE DEF S, T
    <3>2. IsFiniteSet(S \ {a}) /\ Cardinality(S \ {a}) = Cardinality(S) - 1
      BY <1>1, <3>1, FS_RemoveElement
    <3>3. Cardinality(T) = Cardinality(S \ {a}) + 1
      BY <3>1, <3>2, FS_AddElement
    <3> QED  BY <1>1, <2>4, <3>2, <3>3 DEF SpinPass
  <2> QED  BY <2>1, <2>2, <2>3, <2>4
<1> QED  BY <1>2, <1>3 DEF SpinInv

\* The count of the spinning threads is zero if and only if there are none.
LEMMA SpinCount ==
  ASSUME SpinInv
  PROVE  /\ sched.nmspinning \in Nat
         /\ sched.nmspinning # 0 => \E a \in Threads : Spins(a)
         /\ \A a \in Threads : Spins(a) => sched.nmspinning > 0
<1> DEFINE S == {x \in Threads : Spins(x)}
<1>1. IsFiniteSet(S) /\ sched.nmspinning = Cardinality(S)
  <2>1. S \subseteq Threads
    OBVIOUS
  <2> QED  BY <2>1, ThreadsFinite, FS_Subset DEF SpinInv
<1>2. Cardinality(S) \in Nat /\ (Cardinality(S) = 0 <=> S = {})
  BY <1>1, FS_CardinalityType, FS_EmptySet
<1> QED  BY <1>1, <1>2

\* A goroutine passes between a thread and the queues.
CountSame(a) == (a \notin Ms \/ Holds(a)' = Holds(a)) /\ Total' = Total
CountPut(a) == a \in Ms /\ Holds(a) /\ ~Holds(a)' /\ Total' = Total + 1
CountGet(a) == a \in Ms /\ ~Holds(a) /\ Holds(a)' /\ Total' = Total - 1

LEMMA CountKept ==
  ASSUME QueueType, CountInv, NEW a \in Threads, \A x \in Ms \ {a} : Holds(x)' = Holds(x),
         CountSame(a) \/ CountPut(a) \/ CountGet(a)
  PROVE  CountInv'
<1> DEFINE S == {x \in Ms : Holds(x)}
           T == {x \in Ms : Holds(x)'}
<1>1. IsFiniteSet(S) /\ Cardinality(S) \in Nat
  <2>1. S \subseteq Ms
    OBVIOUS
  <2> QED  BY <2>1, ThreadsFinite, FS_Subset, FS_CardinalityType
<1>2. PICK k, n \in Nat : k = Cardinality(S) /\ n = Total /\ n + k = NG
  BY <1>1, TotalType DEF CountInv
<1>3. Total' + Cardinality(T) = n + k => CountInv'
  BY <1>2 DEF CountInv
<1>4. CASE CountSame(a)
  <2>1. T = S /\ Total' = n
    BY <1>2, <1>4 DEF CountSame
  <2> HIDE DEF S, T
  <2> QED  BY <1>2, <1>3, <2>1
<1>5. CASE CountPut(a)
  <2>1. T = S \ {a} /\ a \in S /\ Total' = n + 1
    BY <1>2, <1>5 DEF CountPut
  <2> HIDE DEF S, T
  <2>2. Cardinality(T) = k - 1
    BY <1>1, <1>2, <2>1, FS_RemoveElement
  <2> QED  BY <1>2, <1>3, <2>1, <2>2
<1>6. CASE CountGet(a)
  <2>1. T = S \cup {a} /\ a \notin S /\ Total' = n - 1
    BY <1>2, <1>6 DEF CountGet
  <2> HIDE DEF S, T
  <2>2. Cardinality(T) = k + 1
    BY <1>1, <1>2, <2>1, FS_AddElement
  <2> QED  BY <1>2, <1>3, <2>1, <2>2
<1> QED  BY <1>4, <1>5, <1>6

LEMMA WorkKept ==
  ASSUME WorkInv, NEW a \in Threads,
         \A q \in Ps : \A x \in Threads \ {a} : Watches(x, q) => Watches(x, q)',
         \A q \in Ps : Spare(q)' /\ Loose' =>
           \/ \E x \in Threads : Watches(x, q)'
           \/ Spare(q) /\ Loose /\ (Watches(a, q) => Watches(a, q)')
  PROVE  WorkInv'
<1> SUFFICES ASSUME NEW q \in Ps, Spare(q)', Loose' PROVE \E x \in Threads : Watches(x, q)'
  BY DEF WorkInv
<1>1. CASE Spare(q) /\ Loose /\ (Watches(a, q) => Watches(a, q)')
  <2>1. PICK x \in Threads : Watches(x, q)
    BY <1>1 DEF WorkInv
  <2> QED  BY <1>1, <2>1
<1> QED  BY <1>1

----------------------------------------------------------------------------
(* Steps that leave the queues alone *)

SpinPlaces == {"start", "handspin"}
Fresh == {"woken", "schedule"}

\* No goroutine moves, and no P goes idle.
Calm ==
  /\ runq' = runq /\ waiting' = waiting /\ sched'.runqsize = sched.runqsize
  /\ sched'.gomaxprocs = sched.gomaxprocs
  /\ sched'.pidle \subseteq sched.pidle /\ (Loose' => Loose)

LEMMA CalmQueues ==
  ASSUME IndInv, LoadInv, NEW a \in Threads, Calm,
         EmptyAt(a)', \A x \in Threads \ {a} : m'[x] = m[x] \/ EmptyAt(x)'
  PROVE  QueueType' /\ EmptyInv' /\ GlobalInv' /\ Total' = Total
<1>1. QueueType' /\ Total' = Total
  BY DEF LoadInv, QueueType, Calm, Total
<1>2. Grows(a)
  BY DEF LoadInv, QueueType, Calm, Grows
<1>3. EmptyInv'
  BY <1>1, <1>2, EmptyKept DEF LoadInv, Calm
<1>4. sched'.runqsize <= sched.runqsize
  BY DEF LoadInv, QueueType, Calm
<1>5. GlobalInv'
  BY <1>1, <1>4, GlobalKept DEF LoadInv, Calm
<1> QED  BY <1>1, <1>3, <1>5

\* What is to spare was to spare, unless a was about to run it.
LEMMA SpareCalm ==
  ASSUME NEW a \in Threads, runq' = runq,
         \A x \in Threads \ {a} : m[x].pc \in Fresh => m'[x] = m[x],
         NEW q, Spare(q)', m[a].pc \in Fresh => m[a].p # q
  PROVE  Spare(q)
<1>1. SUFFICES ASSUME NEW x \in Ms, m[x].p = q, m[x].pc \in Fresh, runq[q] = 1
               PROVE  FALSE
  BY DEF Spare, Fresh
<1>2. x \in Threads \ {a}
  BY <1>1 DEF Threads
<1>3. m'[x] = m[x]
  BY <1>1, <1>2
<1> QED  BY <1>1, <1>3 DEF Spare, Fresh

\* One thread goes on and nothing else happens.
QuietMove(a, l) ==
  /\ Only(a) /\ m'[a].pc = l /\ m'[a].spinning = m[a].spinning
  /\ sched'.nmspinning = sched.nmspinning
  /\ m[a].pc \notin Fresh \cup SpinPlaces /\ l \notin Fresh \cup SpinPlaces /\ l # "unspin"

LEMMA QuietLoad ==
  ASSUME IndInv, LoadInv, NEW a \in Threads, NEW l, Calm, QuietMove(a, l),
         SpinAt(a)', l \in Emptied => runq[m'[a].p] = 0,
         a \in Ms => (l \in Holding <=> m[a].pc \in Holding),
         \A q \in Ps : Watches(a, q) /\ Spare(q) /\ Loose' => \E x \in Threads : Watches(x, q)'
  PROVE  LoadInv'
<1>1. EmptyAt(a)' /\ \A x \in Threads \ {a} : m'[x] = m[x]
  BY DEF EmptyAt, QuietMove, Only, Calm, Fresh
<1>2. QueueType' /\ EmptyInv' /\ GlobalInv' /\ Total' = Total
  BY <1>1, CalmQueues
<1>3. SpinInv'
  <2>1. \A x \in Threads : Spins(x)' = Spins(x)
    BY <1>1 DEF Spins, QuietMove, SpinPlaces
  <2>2. SpinSame
    BY <2>1 DEF SpinSame, QuietMove
  <2> QED  BY <1>1, <2>2, SpinKept DEF LoadInv
<1>4. CountInv'
  <2>1. CountSame(a) /\ \A x \in Ms \ {a} : Holds(x)' = Holds(x)
    BY <1>1, <1>2 DEF CountSame, Holds, QuietMove, Threads
  <2> QED  BY <2>1, CountKept DEF LoadInv
<1>5. WorkInv'
  <2>1. \A q \in Ps : \A x \in Threads \ {a} : Watches(x, q) => Watches(x, q)'
    BY <1>1 DEF Watches, Alert
  <2>2. ASSUME NEW q \in Ps, Spare(q)', Loose' PROVE Spare(q) /\ Loose
    BY <1>1, <2>2, SpareCalm DEF Calm, QuietMove
  <2> QED  BY <2>1, <2>2, WorkKept DEF LoadInv
<1> QED  BY <1>2, <1>3, <1>4, <1>5 DEF LoadInv

\* Goto and With, field by field.
LEMMA GotoFields ==
  ASSUME TypeOK, NEW a \in Threads, NEW l, Goto(a, l)
  PROVE  /\ Only(a) /\ m'[a].pc = l /\ m'[a].p = m[a].p
         /\ m'[a].spinning = m[a].spinning /\ m'[a].i = m[a].i /\ m'[a].ret = m[a].ret
BY DEF Goto, TypeOK, ThreadType, Only

LEMMA WithFields ==
  ASSUME TypeOK, NEW a \in Threads, NEW p, NEW l, With(a, p, l)
  PROVE  /\ Only(a) /\ m'[a].pc = l /\ m'[a].p = p
         /\ m'[a].spinning = m[a].spinning /\ m'[a].i = m[a].i /\ m'[a].ret = m[a].ret
BY DEF With, TypeOK, ThreadType, Only

\* A thread that nobody relies on goes on.
LEMMA DullLoad ==
  ASSUME IndInv, LoadInv, NEW a \in Threads, NEW l, Calm, QuietMove(a, l),
         ~m[a].spinning, l \in Emptied => runq[m'[a].p] = 0,
         a \in Ms => (l \in Holding <=> m[a].pc \in Holding),
         ~Alert(a) \/ Alert(a)' \/ ~Loose', m[a].pc # "recheck"
  PROVE  LoadInv'
<1>1. SpinAt(a)'
  BY DEF SpinAt, QuietMove
<1>2. \A q \in Ps : Watches(a, q) /\ Loose' => Watches(a, q)'
  BY DEF Watches
<1> QED  BY <1>1, <1>2, QuietLoad

LEMMA SameCalm ==
  ASSUME LoadInv, runq' = runq, waiting' = waiting, sched'.runqsize = sched.runqsize,
         sched'.gomaxprocs = sched.gomaxprocs, sched'.handed = sched.handed,
         sched'.pidle = sched.pidle
  PROVE  Calm
BY DEF Calm, Loose

\* The fields of sched that matter here are as they were.
SchedStill ==
  /\ sched'.runqsize = sched.runqsize /\ sched'.gomaxprocs = sched.gomaxprocs
  /\ sched'.pidle = sched.pidle /\ sched'.handed = sched.handed
  /\ sched'.nmspinning = sched.nmspinning

Still == SchedStill /\ runq' = runq /\ waiting' = waiting

\* The thread goes to l, with the P it has or another.
StillLoad(a, l) ==
  /\ Still
  /\ Only(a) /\ m'[a].pc = l /\ m'[a].spinning = m[a].spinning
  /\ m[a].pc \notin Fresh \cup SpinPlaces \cup {"recheck"} /\ l \notin Fresh \cup SpinPlaces
  /\ ~m[a].spinning /\ l # "unspin"
  /\ l \in Emptied => runq[m'[a].p] = 0
  /\ a \in Ms => (l \in Holding <=> m[a].pc \in Holding)
  /\ m[a].pc \in AlertPlaces => l \in AlertPlaces \/ sched.pidle = {}

LEMMA StillHolds ==
  ASSUME IndInv, LoadInv, NEW a \in Threads, NEW l, StillLoad(a, l)
  PROVE  LoadInv'
<1>1. Calm
  BY SameCalm DEF StillLoad, Still, SchedStill
<1>2. QuietMove(a, l)
  BY DEF StillLoad, QuietMove, Still, SchedStill
<1>3. ~Alert(a) \/ Alert(a)' \/ ~Loose'
  BY DEF StillLoad, Still, SchedStill, Alert, Loose
<1> QED  BY <1>1, <1>2, <1>3, DullLoad DEF StillLoad

\* A thread spins only in these places.
LEMMA NotSpinning ==
  ASSUME LoadInv, NEW a \in Threads,
         m[a].pc \notin {"woken", "schedule", "find", "steal", "stop", "unspin", "reset"}
  PROVE  ~m[a].spinning
BY DEF LoadInv, SpinInv, SpinAt

LEMMA SchedUnchanged ==
  ASSUME sched' = sched
  PROVE  SchedStill
BY DEF SchedStill

LEMMA NoneIdle ==
  ASSUME IndInv, ~(npidle > 0)
  PROVE  sched.pidle = {}
<1>1. IsFiniteSet(sched.pidle)
  BY LiveFinite, FS_Subset DEF IndInv, TypeOK, SchedType
<1>2. Cardinality(sched.pidle) \in Nat
  BY <1>1, FS_CardinalityType
<1> QED  BY <1>1, <1>2, FS_EmptySet DEF npidle

\* A thread spins while nmspinning is not zero, and is alert.
LEMMA SomeoneAlert ==
  ASSUME LoadInv, sched.nmspinning # 0
  PROVE  \E x \in Threads : Spins(x) /\ Alert(x)
<1>1. PICK x \in Threads : Spins(x)
  BY SpinCount DEF LoadInv
<1> QED  BY <1>1 DEF Spins, Alert, AlertPlaces

LEMMA PlainLoad ==
  ASSUME IndInv, LoadInv, NEW a \in Ms,
         \/ FindBusy(a) \/ FindPoll(a) \/ FindPolled(a) \/ stopm(a) \/ ResetIdle(a) \/ ReadyIdle(a)
         \/ Entersyscall(a) \/ EntersyscallLoad(a) \/ Entersyscallblock(a) \/ Exitsyscall(a)
         \/ ExitsyscallCas(a)
  PROVE  LoadInv'
<1> USE DEF IndInv, At
<1>1. a \in Threads
  BY DEF Threads
<1> DEFINE Go(l) == Still /\ Goto(a, l)
<1>2. ASSUME NEW l, Go(l), m[a].pc \notin Fresh \cup SpinPlaces \cup {"recheck"},
             l \notin Fresh \cup SpinPlaces \cup {"unspin"}, ~m[a].spinning,
             l \in Emptied => runq[m[a].p] = 0, l \in Holding <=> m[a].pc \in Holding,
             m[a].pc \in AlertPlaces => l \in AlertPlaces \/ sched.pidle = {}
      PROVE  LoadInv'
  BY <1>1, <1>2, GotoFields, StillHolds DEF StillLoad
<1> HIDE DEF Go
<1>3. CASE FindBusy(a)
  <2>1. m[a].pc = "busy" /\ ~m[a].spinning
    BY <1>1, <1>3, NotSpinning DEF FindBusy
  <2>2. runq[m[a].p] = 0
    BY <1>1, <2>1 DEF LoadInv, EmptyInv, EmptyAt, Emptied
  <2>3. PICK l \in {"stop", "spin"} : Go(l)
    BY <1>3, SchedUnchanged DEF FindBusy, Go, Still
  <2> QED  BY <1>2, <2>1, <2>2, <2>3 DEF Fresh, SpinPlaces, Holding, AlertPlaces, Handing, Stopping
<1>4. CASE FindPoll(a)
  <2>1. m[a].pc = "poll" /\ ~m[a].spinning
    BY <1>1, <1>4, NotSpinning DEF FindPoll
  <2>2. Still
    BY <1>4 DEF FindPoll, Still, SchedStill, TypeOK, SchedType
  <2>3. PICK l \in {"stopm", "polled"} :
          Only(a) /\ m'[a].pc = l /\ m'[a].spinning = m[a].spinning
    BY <1>1, <1>4 DEF FindPoll, TypeOK, ThreadType, Only
  <2>4. StillLoad(a, l)
    BY <2>1, <2>2, <2>3 DEF StillLoad, Fresh, SpinPlaces, Holding, AlertPlaces, Handing, Stopping,
                            Emptied
  <2> QED  BY <1>1, <2>4, StillHolds
<1>5. CASE FindPolled(a)
  <2>1. m[a].pc = "polled" /\ ~m[a].spinning
    BY <1>1, <1>5, NotSpinning DEF FindPolled
  <2>2. Go("stopm")
    BY <1>5 DEF FindPolled, Go, Still, SchedStill, TypeOK, SchedType
  <2> QED  BY <1>2, <2>1, <2>2 DEF Fresh, SpinPlaces, Holding, AlertPlaces, Handing, Stopping, Emptied
<1>6. CASE stopm(a)
  <2>1. m[a].pc = "stopm" /\ ~m[a].spinning
    BY <1>1, <1>6, NotSpinning DEF stopm
  <2>2. sched' = [sched EXCEPT !.nmspinning = sched.nmspinning]
    BY <1>6, <2>1 DEF stopm
  <2>3. Still
    BY <1>6, <2>2 DEF stopm, Still, SchedStill, TypeOK, SchedType
  <2>4. Only(a) /\ m'[a].pc = "parked" /\ m'[a].spinning = m[a].spinning
    BY <1>1, <1>6, <2>1 DEF stopm, TypeOK, ThreadType, Only
  <2>5. StillLoad(a, "parked")
    BY <2>1, <2>3, <2>4 DEF StillLoad, Fresh, SpinPlaces, Holding, AlertPlaces, Handing, Stopping,
                            Emptied
  <2> QED  BY <1>1, <2>5, StillHolds
<1>7. CASE ResetIdle(a) \/ ReadyIdle(a)
  <2>1. m[a].pc \in {"idle", "ridle"} /\ ~m[a].spinning
    BY <1>1, <1>7, NotSpinning DEF ResetIdle, ReadyIdle
  <2>2. Go("cas") \/ (Go("run") /\ ~(npidle > 0))
    <3>1. npidle \in Nat
      BY LiveFinite, FS_Subset, FS_CardinalityType DEF TypeOK, SchedType, npidle
    <3> QED  BY <1>7, <3>1, SchedUnchanged DEF ResetIdle, ReadyIdle, Go, Still
  <2>3. Go("cas") \/ (Go("run") /\ sched.pidle = {})
    BY <2>2, NoneIdle
  <2> QED  BY <1>2, <2>1, <2>3 DEF Fresh, SpinPlaces, Holding, AlertPlaces, Handing, Stopping, Emptied
<1>8. CASE Entersyscall(a) \/ Entersyscallblock(a)
  <2>1. m[a].pc = "run" /\ ~m[a].spinning
    BY <1>1, <1>8, NotSpinning DEF Entersyscall, Entersyscallblock
  <2>2. Go("enter") \/ Go("hand1")
    BY <1>8, SchedUnchanged DEF Entersyscall, Entersyscallblock, Go, Still
  <2> QED  BY <1>2, <2>1, <2>2 DEF Fresh, SpinPlaces, Holding, AlertPlaces, Handing, Stopping, Emptied
<1>9. CASE EntersyscallLoad(a)
  <2>1. m[a].pc = "enter" /\ ~m[a].spinning
    BY <1>1, <1>9, NotSpinning DEF EntersyscallLoad
  <2>2. Go("gcwait") \/ Go("syscall")
    BY <1>9, SchedUnchanged DEF EntersyscallLoad, Go, Still
  <2> QED  BY <1>2, <2>1, <2>2 DEF Fresh, SpinPlaces, Holding, AlertPlaces, Handing, Stopping, Emptied
<1>10. CASE Exitsyscall(a) \/ ExitsyscallCas(a)
  <2>1. m[a].pc \in {"syscall", "recas"} /\ ~m[a].spinning
    BY <1>1, <1>10, NotSpinning DEF Exitsyscall, ExitsyscallCas
  <2>2. Still
    BY <1>10, SchedUnchanged DEF Exitsyscall, ExitsyscallCas, Still
  <2>3. \E l \in {"exit0", "recas", "run", "repidle"} : Goto(a, l) \/ With(a, NoP, l)
    BY <1>10 DEF Exitsyscall, ExitsyscallCas
  <2>4. PICK l \in {"exit0", "recas", "run", "repidle"} :
          Only(a) /\ m'[a].pc = l /\ m'[a].spinning = m[a].spinning
    BY <1>1, <2>3, GotoFields, WithFields
  <2>5. StillLoad(a, l)
    BY <2>1, <2>2, <2>4 DEF StillLoad, Fresh, SpinPlaces, Holding, AlertPlaces, Handing, Stopping,
                            Emptied
  <2> QED  BY <1>1, <2>5, StillHolds
<1> QED  BY <1>3, <1>4, <1>5, <1>6, <1>7, <1>8, <1>9, <1>10

\* The thread goes to l with its P.
LEMMA GoLoad ==
  ASSUME IndInv, LoadInv, NEW a \in Threads, NEW l, Still, Goto(a, l),
         m[a].pc \notin Fresh \cup SpinPlaces \cup {"recheck"},
         l \notin Fresh \cup SpinPlaces \cup {"unspin"}, ~m[a].spinning,
         l \in Emptied => runq[m[a].p] = 0, a \in Ms => (l \in Holding <=> m[a].pc \in Holding),
         m[a].pc \in AlertPlaces => l \in AlertPlaces \/ sched.pidle = {}
  PROVE  LoadInv'
<1>1. TypeOK
  BY DEF IndInv
<1> QED  BY <1>1, GotoFields, StillHolds DEF StillLoad

\* A P stops, and the thread was not spinning.
LEMMA StopPStill ==
  ASSUME TypeOK, NEW p, StopP(p, FALSE)
  PROVE  SchedStill
BY DEF StopP, SchedStill, TypeOK, SchedType

\* pidleget, field by field.
LEMMA PidlegetFields ==
  ASSUME TypeOK, NEW p \in sched.pidle, sched' = pidleget(p)
  PROVE  /\ sched'.runqsize = sched.runqsize /\ sched'.gomaxprocs = sched.gomaxprocs
         /\ sched'.nmspinning = sched.nmspinning
         /\ sched'.pidle = sched.pidle \ {p} /\ (Loose' => Loose)
<1> DEFINE S == sched.pidle \ {p}
           H == sched.handed \ {p}
<1>1. sched' = [sched EXCEPT !.pidle = S, !.handed = H]
  BY DEF pidleget, TypeOK, SchedType
<1>2. sched'.pidle = S /\ sched'.handed = H
  BY <1>1 DEF TypeOK, SchedType
<1> HIDE DEF S, H
<1>3. /\ sched'.runqsize = sched.runqsize /\ sched'.gomaxprocs = sched.gomaxprocs
      /\ sched'.nmspinning = sched.nmspinning
  BY <1>1 DEF TypeOK, SchedType
<1>4. Loose' => Loose
  BY <1>2 DEF Loose, S, H
<1> QED  BY <1>2, <1>3, <1>4 DEF S

LEMMA TakeLoad ==
  ASSUME IndInv, LoadInv, NEW a \in Ms, m[a].pc \in {"grab", "repidle", "exit0"},
         NEW l, NEW l2, TakeIdle(a, l, l2), runq' = runq, waiting' = waiting,
         \/ m[a].pc = "grab" /\ l = "find" /\ l2 = "poll"
         \/ m[a].pc = "repidle" /\ l = "run" /\ l2 = "exit0"
         \/ m[a].pc = "exit0" /\ l = "run" /\ l2 = "exit0"
  PROVE  LoadInv'
<1>1. a \in Threads /\ TypeOK
  BY DEF Threads, IndInv
<1>2. ~m[a].spinning
  BY <1>1, NotSpinning
<1>3. ASSUME NEW p \in sched.pidle, sched' = pidleget(p), With(a, p, l)
      PROVE  LoadInv'
  <2>1. /\ sched'.runqsize = sched.runqsize /\ sched'.gomaxprocs = sched.gomaxprocs
        /\ sched'.nmspinning = sched.nmspinning
        /\ sched'.pidle = sched.pidle \ {p} /\ (Loose' => Loose)
    BY <1>1, <1>3, PidlegetFields
  <2>2. Only(a) /\ m'[a].pc = l /\ m'[a].spinning = m[a].spinning
    BY <1>1, <1>3, WithFields
  <2>3. Calm
    BY <2>1 DEF Calm
  <2>4. QuietMove(a, l)
    BY <2>1, <2>2 DEF QuietMove, Fresh, SpinPlaces
  <2>5. ~Alert(a) \/ Alert(a)'
    BY <1>2, <2>2 DEF Alert, AlertPlaces
  <2>6. l \notin Emptied /\ (l \in Holding <=> m[a].pc \in Holding) /\ m[a].pc # "recheck"
    BY DEF Emptied, Holding, Handing, Stopping
  <2> QED  BY <1>1, <1>2, <2>3, <2>4, <2>5, <2>6, DullLoad
<1>4. CASE sched.pidle = {} /\ Goto(a, l2) /\ UNCHANGED sched
  <2>1. Still
    BY <1>4, SchedUnchanged DEF Still
  <2> QED  BY <1>1, <1>2, <1>4, <2>1, GoLoad DEF Fresh, SpinPlaces, Holding, AlertPlaces, Handing,
                                           Stopping, Emptied
<1> QED  BY <1>3, <1>4 DEF TakeIdle

LEMMA SyscallLoad ==
  ASSUME IndInv, LoadInv, NEW a \in Ms,
         \/ EntersyscallGcwait(a)
         \/ ExitsyscallPidle(a)
         \/ FindGrab(a)
         \/ Exitsyscall0(a) /\ sched.pidle # {}
  PROVE  LoadInv'
<1>1. a \in Threads /\ TypeOK
  BY DEF Threads, IndInv
<1>2. CASE EntersyscallGcwait(a)
  <2>1. m[a].pc = "gcwait" /\ ~m[a].spinning /\ Goto(a, "syscall")
    BY <1>1, <1>2, NotSpinning DEF EntersyscallGcwait, At
  <2>2. Still
    BY <1>1, <1>2, StopPStill, SchedUnchanged DEF EntersyscallGcwait, Still
  <2> QED  BY <1>1, <2>1, <2>2, GoLoad DEF Fresh, SpinPlaces, Holding, AlertPlaces, Handing,
                                           Stopping, Emptied
<1>3. CASE FindGrab(a)
  BY <1>3, TakeLoad DEF FindGrab, At
<1>4. CASE ExitsyscallPidle(a)
  BY <1>4, TakeLoad DEF ExitsyscallPidle, At
<1>5. CASE Exitsyscall0(a) /\ sched.pidle # {}
  BY <1>5, TakeLoad DEF Exitsyscall0, At
<1> QED  BY <1>2, <1>3, <1>4, <1>5

\* handoffp up to where it starts a thread or gives the P up.
LEMMA HandoffLoad ==
  ASSUME IndInv, LoadInv, NEW a \in Threads,
         \/ Handoff1(a)
         \/ Handoff2(a)
         \/ HandoffCas(a) /\ sched' = sched
         \/ Handoff3(a) /\ sched'.pidle = sched.pidle
  PROVE  LoadInv'
<1>1. TypeOK
  BY DEF IndInv
<1>2. a \in Ms => Back(a) \in Holding
  BY SizesAssumption DEF Back, Holding
<1>3. CASE Handoff1(a)
  <2>1. m[a].pc = "hand1" /\ ~m[a].spinning
    BY <1>3, NotSpinning DEF Handoff1, At
  <2>2. Still
    BY <1>3, SchedUnchanged DEF Handoff1, Still
  <2>3. m[a].p \in Ps /\ runq[m[a].p] \in Nat
    BY <2>1 DEF IndInv, PlaceInv, Placed, Handing, LoadInv, QueueType
  <2>4. Goto(a, "handstart") \/ (Goto(a, "hand2") /\ runq[m[a].p] = 0)
    BY <1>3, <2>3 DEF Handoff1
  <2> QED  BY <2>1, <2>2, <2>4, GoLoad DEF Fresh, SpinPlaces, Holding, AlertPlaces, Handing,
                                           Stopping, Emptied
<1>4. CASE Handoff2(a) \/ (HandoffCas(a) /\ sched' = sched)
  <2>1. m[a].pc \in {"hand2", "handcas"} /\ ~m[a].spinning
    BY <1>4, NotSpinning DEF Handoff2, HandoffCas, At
  <2>2. Still
    BY <1>4, SchedUnchanged DEF Handoff2, HandoffCas, Still
  <2>3. runq[m[a].p] = 0
    BY <2>1 DEF LoadInv, EmptyInv, EmptyAt, Emptied
  <2>4. Goto(a, "hand3") \/ Goto(a, "handcas")
    <3>1. CASE HandoffCas(a) /\ sched' = sched
      <4>1. ~(sched.nmspinning = 0 /\ sched' = [sched EXCEPT !.nmspinning = 1])
        BY <1>1, <3>1 DEF TypeOK, SchedType
      <4> QED  BY <3>1, <4>1 DEF HandoffCas
    <3> QED  BY <1>4, <3>1 DEF Handoff2
  <2> QED  BY <2>1, <2>2, <2>3, <2>4, GoLoad DEF Fresh, SpinPlaces, Holding, AlertPlaces, Handing,
                                           Stopping, Emptied
<1>5. CASE Handoff3(a) /\ sched'.pidle = sched.pidle
  <2>1. m[a].pc = "hand3" /\ ~m[a].spinning /\ runq' = runq /\ waiting' = waiting
    BY <1>5, NotSpinning DEF Handoff3, At
  <2>2. CASE StopP(m[a].p, FALSE) /\ With(a, NoP, Back(a))
    <3>1. Still
      BY <1>1, <2>1, <2>2, StopPStill DEF Still
    <3>2. Only(a) /\ m'[a].pc = Back(a) /\ m'[a].spinning = m[a].spinning
      BY <1>1, <2>2, WithFields
    <3>3. StillLoad(a, Back(a))
      BY <1>2, <2>1, <3>1, <3>2 DEF StillLoad, Back, Fresh, SpinPlaces, Holding, AlertPlaces,
                                    Handing, Stopping, Emptied
    <3> QED  BY <3>3, StillHolds
  <2>3. CASE Goto(a, "handstart") /\ UNCHANGED sched
    <3>1. Still
      BY <2>1, <2>3, SchedUnchanged DEF Still
    <3> QED  BY <2>1, <2>3, <3>1, GoLoad DEF Fresh, SpinPlaces, Holding, AlertPlaces, Handing,
                                             Stopping, Emptied
  <2>4. ASSUME sched' = [sched EXCEPT !.pidle = @ \cup {m[a].p},
                                  !.handed = IF \E p \in Ps : runq[p] > 0
                                             THEN @ \cup {m[a].p} ELSE @]
        PROVE  FALSE
    <3>1. m[a].p \in sched'.pidle
      BY <1>1, <2>4 DEF TypeOK, SchedType
    <3>2. m[a].p \notin sched.pidle
      BY <2>1, EmptyOwns DEF IndInv, OwnerInv, Emptied
    <3> QED  BY <1>5, <3>1, <3>2
  <2> QED  BY <1>5, <2>2, <2>3, <2>4 DEF Handoff3
<1> QED  BY <1>3, <1>4, <1>5

LEMMA SysmonLoad ==
  ASSUME IndInv, LoadInv, Retake(Sysmon) \/ RetakeCas(Sysmon) \/ RetakeEnd(Sysmon)
  PROVE  LoadInv'
<1>1. Sysmon \in Threads /\ Sysmon \notin Ms /\ TypeOK
  BY SizesAssumption DEF Threads, IndInv
<1>2. m[Sysmon].pc \in {"mon", "retake", "monend"} /\ ~m[Sysmon].spinning
  BY <1>1, NotSpinning DEF Retake, RetakeCas, RetakeEnd, At
<1>3. Still
  <2>1. SchedStill
    BY <1>1, SchedUnchanged DEF Retake, RetakeCas, RetakeEnd, incidlelocked, TypeOK, SchedType,
                                SchedStill
  <2> QED  BY <2>1 DEF Retake, RetakeCas, RetakeEnd, Still
<1>4. \E l \in {"mon", "retake", "monend", "hand1"} :
        Goto(Sysmon, l) \/ \E p \in Ps \cup {NoP} : With(Sysmon, p, l)
  BY DEF Retake, RetakeCas, RetakeEnd
<1>5. PICK l \in {"mon", "retake", "monend", "hand1"} :
        Only(Sysmon) /\ m'[Sysmon].pc = l /\ m'[Sysmon].spinning = m[Sysmon].spinning
  BY <1>1, <1>4, GotoFields, WithFields
<1>6. StillLoad(Sysmon, l)
  BY <1>1, <1>2, <1>3, <1>5 DEF StillLoad, Fresh, SpinPlaces, AlertPlaces, Emptied
<1> QED  BY <1>1, <1>6, StillHolds

LEMMA StopLoad ==
  ASSUME IndInv, LoadInv, NEW a \in Ms,
         Stoptheworld(a) \/ StopCas(a) \/ StopIdle(a) \/ StopWait(a) \/ StopCheck(a)
  PROVE  LoadInv'
<1>1. a \in Threads /\ TypeOK
  BY DEF Threads, IndInv
<1>2. /\ m[a].pc \in {"run", "stopcas", "stopidle", "stopwait", "stopcheck"} /\ ~m[a].spinning
      /\ runq' = runq /\ waiting' = waiting
  <2>1. /\ m[a].pc \in {"run", "stopcas", "stopidle", "stopwait", "stopcheck"}
        /\ runq' = runq /\ waiting' = waiting
    BY DEF Stoptheworld, StopCas, StopIdle, StopWait, StopCheck, At
  <2> QED  BY <1>1, <2>1, NotSpinning
<1>3. CASE Stoptheworld(a) \/ StopCas(a) \/ StopWait(a) \/ StopCheck(a)
  <2>1. SchedStill
    <3>1. CASE Stoptheworld(a)
      BY <1>1, <3>1 DEF Stoptheworld, SchedStill, TypeOK, SchedType
    <3>2. CASE StopCas(a)
      BY <1>1, <3>2 DEF StopCas, SchedStill, TypeOK, SchedType
    <3>3. CASE StopWait(a) \/ StopCheck(a)
      BY <1>1, <3>3 DEF StopWait, StopCheck, SchedStill, TypeOK, SchedType
    <3> QED  BY <1>3, <3>1, <3>2, <3>3
  <2>2. PICK l \in Stopping :
          Only(a) /\ m'[a].pc = l /\ m'[a].spinning = m[a].spinning
    <3>1. CASE Stoptheworld(a) \/ StopWait(a) \/ StopCheck(a)
      BY <1>1, <3>1, GotoFields DEF Stoptheworld, StopWait, StopCheck, Stopping
    <3>2. CASE StopCas(a)
      <4>1. Only(a) /\ m'[a].pc \in {"stopcas", "stopidle"} /\ m'[a].spinning = m[a].spinning
        BY <1>1, <3>2 DEF StopCas, At, Only, TypeOK, ThreadType
      <4> QED  BY <4>1 DEF Stopping
    <3> QED  BY <1>3, <3>1, <3>2
  <2>3. StillLoad(a, l)
    BY <1>2, <2>1, <2>2 DEF StillLoad, Still, Fresh, SpinPlaces, AlertPlaces, Emptied, Holding,
                            Stopping
  <2> QED  BY <1>1, <2>3, StillHolds
<1>4. CASE StopIdle(a)
  <2>1. PICK l \in Stopping :
          Only(a) /\ m'[a].pc = l /\ m'[a].spinning = m[a].spinning
    BY <1>1, <1>4, GotoFields DEF StopIdle, Stopping
  <2>2. /\ sched'.runqsize = sched.runqsize /\ sched'.gomaxprocs = sched.gomaxprocs
        /\ sched'.nmspinning = sched.nmspinning /\ sched'.pidle = {}
    BY <1>1, <1>4 DEF StopIdle, TypeOK, SchedType
  <2>3. Calm /\ ~Loose'
    BY <1>2, <2>2 DEF Calm, Loose
  <2>4. QuietMove(a, l)
    BY <1>2, <2>1, <2>2 DEF QuietMove, Fresh, SpinPlaces, Stopping
  <2>5. l \notin Emptied /\ (l \in Holding <=> m[a].pc \in Holding) /\ m[a].pc # "recheck"
    BY <1>2, <2>1 DEF Emptied, Holding, Stopping
  <2> QED  BY <1>1, <1>2, <2>3, <2>4, <2>5, DullLoad
<1> QED  BY <1>3, <1>4

\* A thread in findrunnable, spinning or not, goes on.
LEMMA FindGoLoad ==
  ASSUME IndInv, LoadInv, NEW a \in Ms, NEW l \in {"find", "steal", "busy", "stop"}, Still,
         Goto(a, l), m[a].pc \in {"find", "steal", "stop"},
         m[a].spinning => l # "busy", l # "find" => runq[m[a].p] = 0
  PROVE  LoadInv'
<1>1. a \in Threads /\ TypeOK
  BY DEF Threads, IndInv
<1>2. Only(a) /\ m'[a].pc = l /\ m'[a].p = m[a].p /\ m'[a].spinning = m[a].spinning
  BY <1>1, GotoFields
<1>3. Calm
  BY SameCalm DEF Still, SchedStill
<1>4. QuietMove(a, l)
  BY <1>2 DEF QuietMove, Still, SchedStill, Fresh, SpinPlaces
<1>5. SpinAt(a)'
  BY <1>2 DEF SpinAt
<1>6. \A q \in Ps : Watches(a, q)'
  BY <1>2 DEF Watches, Alert, AlertPlaces
<1>7. l \in Emptied => runq[m'[a].p] = 0
  BY <1>2 DEF Emptied
<1>8. l \notin Holding /\ m[a].pc \notin Holding
  BY DEF Holding, Handing, Stopping
<1> QED  BY <1>1, <1>3, <1>4, <1>5, <1>6, <1>7, <1>8, QuietLoad

\* wakep finds a thread spinning.
LEMMA WakepLoad ==
  ASSUME IndInv, LoadInv, NEW a \in Ms, WakepCas(a), sched.nmspinning # 0
  PROVE  LoadInv'
<1>1. a \in Threads /\ TypeOK
  BY DEF Threads, IndInv
<1>2. m[a].pc = "cas" /\ ~m[a].spinning /\ Goto(a, "run") /\ Still
  <2>1. m[a].pc = "cas" /\ Goto(a, "run") /\ sched' = sched /\ runq' = runq /\ waiting' = waiting
    BY DEF WakepCas, At
  <2> QED  BY <1>1, <2>1, NotSpinning, SchedUnchanged DEF Still
<1>3. Only(a) /\ m'[a].pc = "run" /\ m'[a].p = m[a].p /\ m'[a].spinning = m[a].spinning
  BY <1>1, <1>2, GotoFields
<1>4. PICK x \in Threads : Spins(x) /\ Alert(x)
  BY SomeoneAlert
<1>5. x # a /\ m'[x] = m[x]
  BY <1>2, <1>3, <1>4 DEF Spins, Only
<1>6. \A q \in Ps : Watches(x, q)'
  BY <1>4, <1>5 DEF Watches, Alert
<1>7. Calm
  BY <1>2, SameCalm DEF Still, SchedStill
<1>8. QuietMove(a, "run")
  BY <1>2, <1>3 DEF QuietMove, Still, SchedStill, Fresh, SpinPlaces
<1>9. SpinAt(a)' /\ "run" \notin Emptied /\ "run" \in Holding /\ m[a].pc \in Holding
  BY <1>2, <1>3 DEF SpinAt, Emptied, Holding
<1> QED  BY <1>1, <1>6, <1>7, <1>8, <1>9, QuietLoad

\* findrunnable looks at one queue again.
LEMMA RecheckLoad ==
  ASSUME IndInv, LoadInv, NEW a \in Ms, FindRecheck(a)
  PROVE  LoadInv'
<1>1. a \in Threads /\ TypeOK
  BY DEF Threads, IndInv
<1>2. m[a].pc = "recheck" /\ ~m[a].spinning /\ Still
  <2>1. m[a].pc = "recheck" /\ sched' = sched /\ runq' = runq /\ waiting' = waiting
    BY DEF FindRecheck, At
  <2> QED  BY <1>1, <2>1, NotSpinning, SchedUnchanged DEF Still
<1>3. Calm
  BY <1>2, SameCalm DEF Still, SchedStill
<1>4. PICK i \in Nat : i = m[a].i
  BY <1>1 DEF TypeOK, ThreadType
<1>5. Only(a) /\ m'[a].spinning = m[a].spinning /\ m'[a].pc \in {"poll", "grab", "recheck"}
  BY <1>1, <1>2 DEF FindRecheck, Only, TypeOK, ThreadType
<1>6. PICK l \in {"poll", "grab", "recheck"} : l = m'[a].pc
  BY <1>5
<1>7. QuietMove(a, l)
  BY <1>2, <1>5, <1>6 DEF QuietMove, Still, SchedStill, Fresh, SpinPlaces
<1>8. SpinAt(a)' /\ l \notin Emptied /\ (l \in Holding <=> m[a].pc \in Holding)
  BY <1>2, <1>5, <1>6 DEF SpinAt, Emptied, Holding, Handing, Stopping
<1>9. ASSUME NEW q \in Ps, Watches(a, q), Spare(q) PROVE Watches(a, q)'
  <2>1. i <= q /\ runq[q] > 0 /\ q \in Nat
    BY <1>2, <1>4, <1>9, SizesAssumption DEF Watches, Alert, AlertPlaces, Spare, Ps
  <2>2. q < sched.gomaxprocs /\ sched.gomaxprocs \in Nat
    <3>1. ~(q >= sched.gomaxprocs)
      BY <2>1 DEF LoadInv, EmptyInv
    <3>2. sched.gomaxprocs \in Nat
      BY <1>1, SizesAssumption DEF TypeOK, SchedType
    <3> QED  BY <2>1, <3>1, <3>2
  <2>3. ~(i >= gomaxprocs)
    BY <2>1, <2>2 DEF gomaxprocs
  <2>4. CASE runq[i] > 0
    <3>1. m'[a].pc = "grab"
      BY <1>1, <1>4, <2>3, <2>4 DEF FindRecheck, TypeOK, ThreadType
    <3> QED  BY <3>1 DEF Watches, Alert, AlertPlaces
  <2>5. CASE ~(runq[i] > 0)
    <3>1. m'[a].pc = "recheck" /\ m'[a].i = i + 1
      BY <1>1, <1>2, <1>4, <2>3, <2>5 DEF FindRecheck, TypeOK, ThreadType
    <3>2. i # q
      BY <2>1, <2>5
    <3> QED  BY <2>1, <3>1, <3>2 DEF Watches
  <2> QED  BY <2>4, <2>5
<1> QED  BY <1>1, <1>3, <1>6, <1>7, <1>8, <1>9, QuietLoad

----------------------------------------------------------------------------
(* Threads that begin to spin, or stop *)

\* Whatever one thread does that leaves the queues alone.
LEMMA CalmLoad ==
  ASSUME IndInv, LoadInv, NEW a \in Threads, Calm, Only(a), EmptyAt(a)', SpinAt(a)',
         a \in Ms => Holds(a)' = Holds(a), SpinSame \/ SpinMore(a) \/ SpinLess(a),
         \A q \in Ps : Spare(q)' /\ Loose' =>
           \/ \E x \in Threads : Watches(x, q)'
           \/ Spare(q) /\ (Watches(a, q) => Watches(a, q)')
  PROVE  LoadInv'
<1>1. \A x \in Threads \ {a} : m'[x] = m[x]
  BY DEF Only
<1>2. QueueType' /\ EmptyInv' /\ GlobalInv' /\ Total' = Total
  BY <1>1, CalmQueues
<1>3. SpinInv'
  <2>1. \A x \in Threads : m'[x] = m[x] \/ SpinAt(x)'
    BY <1>1
  <2> QED  BY <2>1, SpinKept DEF LoadInv
<1>4. CountInv'
  <2>1. CountSame(a) /\ \A x \in Ms \ {a} : Holds(x)' = Holds(x)
    BY <1>1, <1>2 DEF CountSame, Holds, Threads
  <2> QED  BY <2>1, CountKept DEF LoadInv
<1>5. WorkInv'
  <2>1. \A q \in Ps : \A x \in Threads \ {a} : Watches(x, q) => Watches(x, q)'
    BY <1>1 DEF Watches, Alert
  <2>2. Loose' => Loose
    BY DEF Calm
  <2> QED  BY <2>1, <2>2, WorkKept DEF LoadInv
<1> QED  BY <1>2, <1>3, <1>4, <1>5 DEF LoadInv

\* The others spin as they did.
LEMMA SpinOthers ==
  ASSUME NEW a \in Threads, Only(a)
  PROVE  \A x \in Threads \ {a} : Spins(x)' = Spins(x)
BY DEF Only, Spins

\* The fields of sched but nmspinning.
CalmSched ==
  /\ sched'.runqsize = sched.runqsize /\ sched'.gomaxprocs = sched.gomaxprocs
  /\ sched'.pidle = sched.pidle /\ sched'.handed = sched.handed
  /\ runq' = runq /\ waiting' = waiting

LEMMA CalmSchedCalm ==
  ASSUME LoadInv, CalmSched
  PROVE  Calm
BY SameCalm DEF CalmSched

\* schedule looks for work elsewhere; a woken thread goes on.
LEMMA FreshLoad ==
  ASSUME IndInv, LoadInv, NEW a \in Ms, Still, Only(a), m[a].pc \in Fresh,
         m'[a].pc \in {"schedule", "find"}, m'[a].p = m[a].p, m'[a].spinning = m[a].spinning
  PROVE  LoadInv'
<1>1. a \in Threads
  BY DEF Threads
<1>2. Calm
  BY SameCalm DEF Still, SchedStill
<1>3. EmptyAt(a)' /\ SpinAt(a)'
  <2>1. EmptyAt(a)
    BY <1>1 DEF LoadInv, EmptyInv
  <2> QED  BY <2>1 DEF EmptyAt, Still, Fresh, Emptied, SpinAt
<1>4. Holds(a)' = Holds(a)
  BY DEF Holds, Holding, Fresh, Handing, Stopping
<1>5. SpinSame
  <2>1. Spins(a)' = Spins(a)
    BY DEF Spins, Fresh
  <2> QED  BY <1>1, <2>1, SpinOthers DEF SpinSame, Still, SchedStill
<1>6. CASE m'[a].pc = "find"
  <2>1. \A q \in Ps : Watches(a, q)'
    BY <1>6 DEF Watches, Alert, AlertPlaces
  <2> QED  BY <1>1, <1>2, <1>3, <1>4, <1>5, <2>1, CalmLoad
<1>7. CASE m'[a].pc = "schedule"
  <2>1. \A q \in Ps : Watches(a, q) => Watches(a, q)'
    BY <1>7 DEF Watches, Alert, AlertPlaces, Fresh
  <2>2. ASSUME NEW q \in Ps, Spare(q)' PROVE Spare(q)
    <3>1. runq' = runq
      BY DEF Still
    <3>2. SUFFICES ASSUME NEW x \in Ms, m[x].p = q, m[x].pc \in Fresh, runq[q] = 1
                   PROVE  FALSE
      BY <2>2, <3>1 DEF Spare, Fresh
    <3>3. m'[x].p = q /\ m'[x].pc \in Fresh
      BY <1>7, <3>2 DEF Only, Fresh, Threads
    <3> QED  BY <2>2, <3>1, <3>2, <3>3 DEF Spare, Fresh
  <2> QED  BY <1>1, <1>2, <1>3, <1>4, <1>5, <2>1, <2>2, CalmLoad
<1> QED  BY <1>6, <1>7

LEMMA AcquireLoad ==
  ASSUME IndInv, LoadInv, NEW a \in Ms, Acquirep(a)
  PROVE  LoadInv'
<1>1. a \in Threads /\ TypeOK
  BY DEF Threads, IndInv
<1>2. Still /\ m[a].pc \in Fresh
  BY SchedUnchanged DEF Acquirep, Still, At, Fresh
<1>3. m[a].ret \in {"schedule", "find"}
  BY <1>1 DEF TypeOK, ThreadType
<1>4. Only(a) /\ m'[a].pc = m[a].ret /\ m'[a].p = m[a].p /\ m'[a].spinning = m[a].spinning
  BY <1>1 DEF Acquirep, TypeOK, ThreadType, Only
<1> QED  BY <1>2, <1>3, <1>4, FreshLoad

\* A thread begins to spin, or to start one that will.
LEMMA MoreLoad ==
  ASSUME IndInv, LoadInv, NEW a \in Threads, CalmSched, Only(a),
         sched'.nmspinning = sched.nmspinning + 1,
         \/ m[a].pc = "spin" /\ m'[a].pc = "steal" /\ m'[a].spinning
         \/ m[a].pc = "cas" /\ m'[a].pc = "start" /\ m'[a].spinning = m[a].spinning
         \/ m[a].pc = "handcas" /\ m'[a].pc = "handspin" /\ m'[a].spinning = m[a].spinning,
         m'[a].p = m[a].p
  PROVE  LoadInv'
<1>1. ~m[a].spinning
  BY NotSpinning
<1>2. Calm
  BY CalmSchedCalm
<1>3. EmptyAt(a)'
  <2>1. EmptyAt(a)
    BY DEF LoadInv, EmptyInv
  <2> QED  BY <1>1, <2>1 DEF EmptyAt, Emptied, CalmSched
<1>4. SpinAt(a)' /\ Holds(a)' = Holds(a)
  BY <1>1 DEF SpinAt, Holds, Holding, Handing, Stopping
<1>5. SpinMore(a)
  BY <1>1, SpinOthers DEF SpinMore, Spins
<1>6. \A q \in Ps : Watches(a, q)'
  BY DEF Watches, Alert, AlertPlaces
<1> QED  BY <1>2, <1>3, <1>4, <1>5, <1>6, CalmLoad

LEMMA SpinningLoad ==
  ASSUME IndInv, LoadInv, NEW a \in Threads,
         \/ a \in Ms /\ FindSpin(a)
         \/ a \in Ms /\ WakepCas(a) /\ sched.nmspinning = 0
         \/ HandoffCas(a) /\ sched.nmspinning = 0
  PROVE  LoadInv'
<1>1. TypeOK
  BY DEF IndInv
<1>2. CalmSched /\ sched'.nmspinning = sched.nmspinning + 1
  <2>1. sched' = [sched EXCEPT !.nmspinning = sched.nmspinning + 1]
    BY DEF FindSpin, WakepCas, HandoffCas
  <2>2. runq' = runq /\ waiting' = waiting
    BY DEF FindSpin, WakepCas, HandoffCas
  <2> QED  BY <1>1, <2>1, <2>2 DEF TypeOK, SchedType, CalmSched
<1>3. CASE FindSpin(a)
  <2>1. /\ m[a].pc = "spin" /\ Only(a) /\ m'[a].pc = "steal" /\ m'[a].spinning
        /\ m'[a].p = m[a].p
    BY <1>1, <1>3 DEF FindSpin, At, Only, TypeOK, ThreadType
  <2> QED  BY <1>2, <2>1, MoreLoad
<1>4. CASE WakepCas(a) /\ sched.nmspinning = 0
  <2>1. m[a].pc = "cas" /\ Goto(a, "start")
    BY <1>4 DEF WakepCas, At
  <2> QED  BY <1>1, <1>2, <2>1, GotoFields, MoreLoad
<1>5. CASE HandoffCas(a) /\ sched.nmspinning = 0
  <2>1. m[a].pc = "handcas" /\ Goto(a, "handspin")
    BY <1>5 DEF HandoffCas, At
  <2> QED  BY <1>1, <1>2, <2>1, GotoFields, MoreLoad
<1> QED  BY <1>3, <1>4, <1>5

\* findrunnable gives up spinning, with all queues still to look at.
LEMMA UnspinLoad ==
  ASSUME IndInv, LoadInv, NEW a \in Ms, FindUnspin(a)
  PROVE  LoadInv'
<1>1. a \in Threads /\ TypeOK
  BY DEF Threads, IndInv
<1>2. /\ m[a].pc = "unspin" /\ Only(a) /\ m'[a].pc = "recheck" /\ m'[a].spinning = FALSE
      /\ m'[a].i = m[a].i
  BY <1>1 DEF FindUnspin, At, Only, TypeOK, ThreadType
<1>3. m[a].spinning /\ m[a].i = 0
  <2>1. m[a].spinning
    BY <1>1, <1>2 DEF LoadInv, SpinInv, SpinAt
  <2>2. m[a].i = 0
    BY <1>1, <1>2 DEF IndInv, PlaceInv, Placed
  <2> QED  BY <2>1, <2>2
<1>4. Calm
  <2>1. CalmSched
    BY <1>1 DEF FindUnspin, TypeOK, SchedType, CalmSched
  <2> QED  BY <2>1, CalmSchedCalm
<1>5. EmptyAt(a)' /\ SpinAt(a)' /\ Holds(a)' = Holds(a)
  BY <1>2 DEF EmptyAt, SpinAt, Holds, Emptied, Holding, Handing, Stopping
<1>6. SpinLess(a)
  <2>1. sched'.nmspinning = sched.nmspinning - 1
    BY <1>1 DEF FindUnspin, TypeOK, SchedType
  <2> QED  BY <1>1, <1>2, <1>3, <2>1, SpinOthers DEF SpinLess, Spins
<1>7. \A q \in Ps : Watches(a, q)'
  <2>1. \A q \in Ps : q \in Nat
    BY SizesAssumption DEF Ps
  <2>2. \A q \in Ps : 0 <= q
    BY <2>1
  <2>3. m'[a].i = 0
    BY <1>2, <1>3
  <2>4. \A q \in Ps : m'[a].i <= q
    BY <2>2, <2>3
  <2> QED  BY <1>2, <2>4, Zenon DEF Watches
<1>8. \A q \in Ps : \E x \in Threads : Watches(x, q)'
  BY <1>1, <1>7
<1> QED  BY <1>1, <1>2, <1>4, <1>5, <1>6, <1>8, CalmLoad

\* A thread that was spinning does no more, or one that was not goes on, and
\* no P idles.
LEMMA NoneLoad ==
  ASSUME IndInv, LoadInv, NEW a \in Ms, CalmSched, sched.pidle = {}, Only(a),
         SpinSame \/ SpinLess(a), m'[a].spinning = FALSE,
         m'[a].pc \in {"run", "stopm"}, Holds(a)' = Holds(a)
  PROVE  LoadInv'
<1>1. a \in Threads
  BY DEF Threads
<1>2. Calm /\ ~Loose'
  BY CalmSchedCalm DEF CalmSched, Loose
<1>3. EmptyAt(a)' /\ SpinAt(a)'
  BY DEF EmptyAt, SpinAt, Emptied
<1> QED  BY <1>1, <1>2, <1>3, CalmLoad

LEMMA GcstopLoad ==
  ASSUME IndInv, LoadInv, NEW a \in Ms, NEW l, m[a].pc \in {"schedule", "find"}, gcstopm(a, l)
  PROVE  LoadInv'
<1>1. a \in Threads /\ TypeOK
  BY DEF Threads, IndInv
<1>2. sched.pidle = {}
  BY DEF gcstopm, Locked, IndInv, WorldInv
<1>3. m[a].spinning \in BOOLEAN
  BY <1>1 DEF TypeOK, ThreadType
<1>4. CalmSched /\ sched'.nmspinning = IF m[a].spinning THEN sched.nmspinning - 1 ELSE sched.nmspinning
  <2>1. CalmSched
    BY <1>1 DEF gcstopm, StopP, TypeOK, SchedType, CalmSched
  <2>2. sched'.nmspinning = IF m[a].spinning THEN sched.nmspinning - 1 ELSE sched.nmspinning
    BY <1>1, <1>3 DEF gcstopm, StopP, TypeOK, SchedType
  <2> QED  BY <2>1, <2>2
<1>5. Only(a) /\ m'[a].pc = "stopm" /\ m'[a].spinning = FALSE
  BY <1>1 DEF gcstopm, Only, TypeOK, ThreadType
<1>6. Holds(a)' = Holds(a)
  BY <1>5 DEF Holds, Holding, Handing, Stopping
<1>7. SpinSame \/ SpinLess(a)
  <2>1. Spins(a) <=> m[a].spinning
    BY DEF Spins
  <2>2. ~Spins(a)'
    BY <1>5 DEF Spins
  <2>3. CASE m[a].spinning
    BY <1>1, <1>4, <1>5, <2>1, <2>2, <2>3, SpinOthers DEF SpinLess
  <2>4. CASE ~m[a].spinning
    BY <1>1, <1>4, <1>5, <2>1, <2>2, <2>4, SpinOthers DEF SpinSame, Spins
  <2> QED  BY <2>3, <2>4
<1> QED  BY <1>2, <1>4, <1>5, <1>6, <1>7, NoneLoad

\* wakep finds no P to start a thread with.
LEMMA NoStartLoad ==
  ASSUME IndInv, LoadInv, NEW a \in Ms, WakepStart(a), sched.pidle = {}
  PROVE  LoadInv'
<1>1. a \in Threads /\ TypeOK
  BY DEF Threads, IndInv
<1>2. m[a].pc = "start" /\ ~m[a].spinning /\ Goto(a, "run")
  <2>1. m[a].pc = "start" /\ Goto(a, "run")
    BY DEF WakepStart, At
  <2> QED  BY <1>1, <2>1, NotSpinning
<1>3. Only(a) /\ m'[a].pc = "run" /\ m'[a].spinning = FALSE
  <2>1. Only(a) /\ m'[a].pc = "run" /\ m'[a].spinning = m[a].spinning
    BY <1>1, <1>2, GotoFields
  <2>2. m[a].spinning = FALSE
    BY <1>1, <1>2 DEF TypeOK, ThreadType
  <2> QED  BY <2>1, <2>2
<1>4. CalmSched /\ sched'.nmspinning = sched.nmspinning - 1
  <2>1. sched' = [sched EXCEPT !.nmspinning = @ - 1] /\ runq' = runq /\ waiting' = waiting
    BY DEF WakepStart
  <2> QED  BY <1>1, <2>1 DEF CalmSched, TypeOK, SchedType
<1>5. SpinLess(a) /\ Holds(a)' = Holds(a)
  BY <1>1, <1>2, <1>3, <1>4, SpinOthers DEF SpinLess, Spins, Holds, Holding
<1> QED  BY <1>3, <1>4, <1>5, NoneLoad

\* The thread has work, and has somebody look for more unless another spins.
LEMMA ResetLoad ==
  ASSUME IndInv, LoadInv, NEW a \in Ms, Resetspinning(a)
  PROVE  LoadInv'
<1>1. a \in Threads /\ TypeOK
  BY DEF Threads, IndInv
<1> DEFINE n == IF m[a].spinning THEN sched.nmspinning - 1 ELSE sched.nmspinning
<1>2. m[a].pc = "reset" /\ CalmSched /\ sched'.nmspinning = n
  BY <1>1 DEF Resetspinning, At, CalmSched, TypeOK, SchedType
<1>3. /\ Only(a) /\ m'[a].spinning = FALSE
      /\ m'[a].pc = IF n = 0 THEN "idle" ELSE "run"
  BY <1>1 DEF Resetspinning, TypeOK, ThreadType, Only
<1>4. m[a].spinning \in BOOLEAN
  BY <1>1 DEF TypeOK, ThreadType
<1>5. SpinSame \/ SpinLess(a)
  <2>1. Spins(a) <=> m[a].spinning
    BY <1>2 DEF Spins
  <2>2. ~Spins(a)'
    BY <1>3 DEF Spins
  <2>3. CASE m[a].spinning
    BY <1>1, <1>2, <1>3, <2>1, <2>2, <2>3, SpinOthers DEF SpinLess
  <2>4. CASE ~m[a].spinning
    BY <1>1, <1>2, <1>3, <2>1, <2>2, <2>4, SpinOthers DEF SpinSame, Spins
  <2> QED  BY <2>3, <2>4
<1>6. EmptyAt(a)' /\ SpinAt(a)' /\ Holds(a)' = Holds(a)
  BY <1>2, <1>3 DEF EmptyAt, SpinAt, Holds, Emptied, Holding
<1> HIDE DEF n
<1>7. \A q \in Ps : \E x \in Threads : Watches(x, q)'
  <2>1. CASE n = 0
    <3>1. m'[a].pc = "idle"
      BY <1>3, <2>1
    <3> QED  BY <1>1, <3>1 DEF Watches, Alert, AlertPlaces
  <2>2. CASE n # 0
    <3>1. SpinInv'
      <4>1. \A x \in Threads : m'[x] = m[x] \/ SpinAt(x)'
        BY <1>3, <1>6 DEF Only
      <4> QED  BY <1>1, <1>5, <4>1, SpinKept DEF LoadInv
    <3>2. {x \in Threads : Spins(x)'} # {}
      BY <1>2, <2>2, <3>1, FS_EmptySet DEF SpinInv
    <3>3. PICK x \in Threads : Spins(x)'
      BY <3>2
    <3>4. \A q \in Ps : Watches(x, q)'
      BY <3>3 DEF Spins, Watches, Alert, AlertPlaces
    <3> QED  BY <3>4
  <2> QED  BY <2>1, <2>2
<1>8. Calm
  BY <1>2, CalmSchedCalm
<1> QED  BY <1>1, <1>3, <1>5, <1>6, <1>7, <1>8, CalmLoad

----------------------------------------------------------------------------
(* startm *)

\* A thread is woken with a P whose queue is empty if it shall spin.
LEMMA StartLoad ==
  ASSUME IndInv, LoadInv, NEW a \in Threads, NEW b \in Ms \ {a}, NEW s \in BOOLEAN, Calm,
         m[b].pc \in {"parked", "none"}, m'[b].pc = "woken", m'[b].spinning = s,
         s => runq[m'[b].p] = 0, \A c \in Threads \ {a, b} : m'[c] = m[c],
         sched'.nmspinning = sched.nmspinning,
         m[a].pc \in {"start", "handspin", "handstart"}, s <=> m[a].pc # "handstart",
         m'[a].pc \in {"run", "syscall", "monend"}, a \in Ms => m'[a].pc # "monend",
         m'[a].spinning = m[a].spinning
  PROVE  LoadInv'
<1>1. b \in Threads /\ ~m[a].spinning /\ ~m[b].spinning
  <2>1. b \in Threads
    BY DEF Threads
  <2> QED  BY <2>1, NotSpinning
<1>2. EmptyAt(a)' /\ EmptyAt(b)' /\ SpinAt(a)' /\ SpinAt(b)'
  BY <1>1 DEF EmptyAt, SpinAt, Emptied, Calm
<1>3. QueueType' /\ EmptyInv' /\ GlobalInv' /\ Total' = Total
  <2>1. \A x \in Threads \ {a} : m'[x] = m[x] \/ EmptyAt(x)'
    BY <1>2
  <2> QED  BY <1>2, <2>1, CalmQueues
<1>4. SpinInv'
  <2>1. \A x \in Threads : m'[x] = m[x] \/ SpinAt(x)'
    BY <1>2
  <2>2. \A x \in Threads \ {a, b} : Spins(x)' = Spins(x)
    BY DEF Spins
  <2>3. ~Spins(a)' /\ ~Spins(b) /\ (Spins(b)' <=> s) /\ (Spins(a) <=> s)
    BY <1>1 DEF Spins
  <2>4. CASE s
    <3>1. SpinPass(a, b)
      BY <2>2, <2>3, <2>4 DEF SpinPass
    <3> QED  BY <1>1, <2>1, <3>1, SpinKept DEF LoadInv
  <2>5. CASE ~s
    <3>1. \A x \in Threads : Spins(x)' = Spins(x)
      BY <2>2, <2>3, <2>5 DEF Spins
    <3>2. SpinSame
      BY <3>1 DEF SpinSame
    <3> QED  BY <1>1, <2>1, <3>2, SpinKept DEF LoadInv
  <2> QED  BY <2>4, <2>5
<1>5. CountInv'
  <2>1. Holds(b)' = Holds(b)
    BY DEF Holds, Holding, Handing, Stopping
  <2>2. a \in Ms => Holds(a)' = Holds(a)
    BY DEF Holds, Holding, Handing, Stopping
  <2>3. \A x \in Ms \ {a} : Holds(x)' = Holds(x)
    BY <2>1 DEF Holds, Threads
  <2>4. CountSame(a)
    BY <1>3, <2>2 DEF CountSame
  <2> QED  BY <2>3, <2>4, CountKept DEF LoadInv
<1>6. WorkInv'
  <2>1. \A q \in Ps : ~Watches(b, q)
    BY <1>1 DEF Watches, Alert, AlertPlaces
  <2>2. \A q \in Ps : \A x \in Threads \ {a} : Watches(x, q) => Watches(x, q)'
    BY <2>1 DEF Watches, Alert
  <2>3. CASE s
    <3>1. \A q \in Ps : Watches(b, q)'
      BY <2>3 DEF Watches, Alert
    <3> QED  BY <1>1, <2>2, <3>1, WorkKept DEF LoadInv
  <2>4. CASE ~s
    <3>1. \A q \in Ps : ~Watches(a, q)
      BY <1>1, <2>4 DEF Watches, Alert, AlertPlaces
    <3>2. ASSUME NEW q \in Ps, Spare(q)', Loose' PROVE Spare(q) /\ Loose
      <4>1. \A x \in Threads \ {a} : m[x].pc \in Fresh => m'[x] = m[x]
        BY DEF Fresh
      <4>2. m[a].pc \notin Fresh /\ runq' = runq /\ Loose
        BY <3>2 DEF Fresh, Calm
      <4> QED  BY <3>2, <4>1, <4>2, SpareCalm
    <3> QED  BY <2>2, <3>1, <3>2, WorkKept DEF LoadInv
  <2> QED  BY <2>3, <2>4
<1> QED  BY <1>3, <1>4, <1>5, <1>6 DEF LoadInv

\* wakep and handoffp start a thread.
LEMMA StartmLoad ==
  ASSUME IndInv, LoadInv, NEW a \in Threads,
         (a \in Ms /\ WakepStart(a) /\ sched.pidle # {}) \/ HandoffStart(a)
  PROVE  LoadInv'
<1>1. TypeOK /\ PlaceInv
  BY DEF IndInv
<1>2. CASE a \in Ms /\ WakepStart(a) /\ sched.pidle # {}
  <2>1. PICK p \in sched.pidle : sched' = pidleget(p) /\ startm(a, p, TRUE, "run")
    BY <1>2 DEF WakepStart
  <2>2. m[a].pc = "start" /\ runq' = runq /\ waiting' = waiting
    BY <1>2 DEF WakepStart, At
  <2>3. p \in Ps /\ runq[p] = 0
    BY <1>1 DEF TypeOK, SchedType, LoadInv, EmptyInv
  <2>4. Calm /\ sched'.nmspinning = sched.nmspinning
    BY <1>1, <2>1, <2>2, PidlegetFields DEF Calm
  <2>4a. PICK s \in BOOLEAN : (s <=> m[a].pc = "start") /\ startm(a, p, s, "run")
    BY <2>1, <2>2
  <2>5. /\ \E b \in Ms \ {a} :
              /\ m[b].pc \in {"parked", "none"} /\ m'[b].pc = "woken"
              /\ m'[b].p = p /\ m'[b].spinning = s
              /\ \A c \in Threads \ {a, b} : m'[c] = m[c]
        /\ m'[a].pc = "run" /\ m'[a].spinning = m[a].spinning
    <3>1. m[a].pc \notin Idling /\ "run" \in Running \cup Away \cup Without
      BY <2>2 DEF Idling, Without, Running
    <3> QED  BY <1>1, <2>3, <2>4a, <3>1, StartmEffect
  <2> QED  BY <2>2, <2>3, <2>4, <2>4a, <2>5, StartLoad
<1>3. CASE HandoffStart(a)
  <2> DEFINE s == m[a].pc = "handspin"
  <2>1. startm(a, m[a].p, s, Back(a)) /\ m[a].pc \in {"handstart", "handspin"}
    BY <1>3 DEF HandoffStart, At
  <2>2. sched' = sched /\ runq' = runq /\ waiting' = waiting
    BY <1>3 DEF HandoffStart
  <2>3. m[a].p \in Ps /\ (s => runq[m[a].p] = 0)
    BY <1>1, <2>1 DEF PlaceInv, Placed, Handing, LoadInv, EmptyInv, EmptyAt, Emptied
  <2>4. Calm /\ sched'.nmspinning = sched.nmspinning
    BY <2>2, SameCalm
  <2>5. s \in BOOLEAN
    OBVIOUS
  <2>6. Back(a) \in {"syscall", "monend"} /\ (a \in Ms => Back(a) # "monend")
    BY SizesAssumption DEF Back
  <2>7. /\ \E b \in Ms \ {a} :
              /\ m[b].pc \in {"parked", "none"} /\ m'[b].pc = "woken"
              /\ m'[b].p = m[a].p /\ m'[b].spinning = s
              /\ \A c \in Threads \ {a, b} : m'[c] = m[c]
        /\ m'[a].pc = Back(a) /\ m'[a].spinning = m[a].spinning
    <3>1. m[a].pc \notin Idling /\ Back(a) \in Running \cup Away \cup Without
      BY <2>1, <2>6 DEF Idling, Without, Away
    <3> HIDE DEF s
    <3> QED  BY <1>1, <2>1, <2>3, <2>5, <3>1, StartmEffect
  <2>8. s <=> m[a].pc # "handstart"
    BY <2>1
  <2> HIDE DEF s
  <2> QED  BY <2>1, <2>3, <2>4, <2>5, <2>6, <2>7, <2>8, StartLoad
<1> QED  BY <1>2, <1>3

----------------------------------------------------------------------------
(* Goroutines move *)

\* What one thread does that may move a goroutine.
LEMMA MoveLoad ==
  ASSUME IndInv, LoadInv, NEW a \in Threads, Only(a), QueueType', Grows(a),
         sched'.gomaxprocs = sched.gomaxprocs,
         \A p \in sched'.pidle : p \in sched.pidle \/ runq'[p] = 0,
         EmptyAt(a)', SpinAt(a)', GlobalInv',
         sched'.nmspinning = sched.nmspinning, Spins(a)' = Spins(a),
         CountSame(a) \/ CountPut(a) \/ CountGet(a),
         \A q \in Ps : Spare(q)' /\ Loose' =>
           \/ \E x \in Threads : Watches(x, q)'
           \/ Spare(q) /\ Loose /\ (Watches(a, q) => Watches(a, q)')
  PROVE  LoadInv'
<1>1. \A x \in Threads \ {a} : m'[x] = m[x]
  BY DEF Only
<1>2. EmptyInv'
  BY <1>1, EmptyKept DEF LoadInv
<1>3. SpinInv'
  <2>1. \A x \in Threads : m'[x] = m[x] \/ SpinAt(x)'
    BY <1>1
  <2>2. SpinSame
    BY SpinOthers DEF SpinSame
  <2> QED  BY <2>1, <2>2, SpinKept DEF LoadInv
<1>4. CountInv'
  <2>1. \A x \in Ms \ {a} : Holds(x)' = Holds(x)
    BY <1>1 DEF Holds, Threads
  <2> QED  BY <2>1, CountKept DEF LoadInv
<1>5. WorkInv'
  <2>1. \A q \in Ps : \A x \in Threads \ {a} : Watches(x, q) => Watches(x, q)'
    BY <1>1 DEF Watches, Alert
  <2> QED  BY <2>1, WorkKept DEF LoadInv
<1> QED  BY <1>2, <1>3, <1>4, <1>5 DEF LoadInv

LEMMA TotalMove ==
  ASSUME QueueType, QueueType', NEW p \in Ps, \A q \in Ps \ {p} : runq'[q] = runq[q]
  PROVE  Total' = Total + (waiting' - waiting) + (sched'.runqsize - sched.runqsize)
                    + (runq'[p] - runq[p])
<1>1. /\ runq \in [Ps -> Nat] /\ runq' \in [Ps -> Nat]
      /\ waiting \in Nat /\ waiting' \in Nat /\ sched.runqsize \in Nat /\ sched'.runqsize \in Nat
  BY DEF QueueType
<1>2. PICK k, k2 \in Nat : k = Cardinality(Queued(runq)) /\ k2 = Cardinality(Queued(runq'))
  BY <1>1, QueuedFinite
<1>3. PICK x, x2 \in Nat : x = runq[p] /\ x2 = runq'[p]
  BY <1>1
<1>4. k2 = k - x + x2
  BY <1>1, <1>2, <1>3, QueuedChange
<1>5. Total = waiting + sched.runqsize + k /\ Total' = waiting' + sched'.runqsize + k2
  BY <1>2 DEF Total
<1> QED  BY <1>1, <1>3, <1>4, <1>5

\* A thread that found work is alert until it has run resetspinning.
LEMMA FoundLoad ==
  ASSUME IndInv, LoadInv, NEW a \in Ms, Goto(a, "reset"), QueueType', Grows(a),
         m[a].pc \in {"schedule", "find", "steal", "stop"},
         sched'.gomaxprocs = sched.gomaxprocs, sched'.pidle = sched.pidle,
         sched'.nmspinning = sched.nmspinning, sched'.runqsize <= sched.runqsize,
         Total' = Total - 1
  PROVE  LoadInv'
<1>1. a \in Threads /\ TypeOK
  BY DEF Threads, IndInv
<1>2. Only(a) /\ m'[a].pc = "reset" /\ m'[a].spinning = m[a].spinning
  BY <1>1, GotoFields
<1>3. EmptyAt(a)' /\ SpinAt(a)' /\ Spins(a)' = Spins(a)
  BY <1>2 DEF EmptyAt, SpinAt, Spins, Emptied
<1>4. GlobalInv'
  BY GlobalKept DEF LoadInv
<1>5. CountGet(a)
  BY <1>2 DEF CountGet, Holds, Holding, Handing, Stopping
<1>6. \A q \in Ps : \E x \in Threads : Watches(x, q)'
  BY <1>1, <1>2 DEF Watches, Alert, AlertPlaces
<1> QED  BY <1>1, <1>2, <1>3, <1>4, <1>5, <1>6, MoveLoad

LEMMA GlobLoad ==
  ASSUME IndInv, LoadInv, NEW a \in Ms, NEW max \in Nat, globrunqget(a, max),
         m[a].pc \in {"schedule", "find", "stop"}
  PROVE  LoadInv'
<1>1. a \in Threads /\ TypeOK /\ m[a].p \in Ps /\ m[a].pc \in Running
  BY DEF Threads, IndInv, PlaceInv, Placed, Running
<1>2. PICK z \in Nat : z = sched.runqsize /\ z > 0
  BY DEF LoadInv, QueueType, globrunqget
<1>3. PICK n \in 1..sched.runqsize :
        /\ sched' = [sched EXCEPT !.runqsize = @ - n]
        /\ runq' = [runq EXCEPT ![m[a].p] = @ + n - 1]
  BY <1>1, GlobTakes
<1>6. n \in 1..z
  BY <1>2, <1>3
<1>7. /\ sched' = [sched EXCEPT !.runqsize = @ - n] /\ runq' = [runq EXCEPT ![m[a].p] = @ + n - 1]
      /\ Goto(a, "reset") /\ waiting' = waiting
  BY <1>3, Zenon DEF globrunqget
<1>8. /\ sched'.runqsize = z - n /\ sched'.gomaxprocs = sched.gomaxprocs
      /\ sched'.pidle = sched.pidle /\ sched'.nmspinning = sched.nmspinning
  BY <1>1, <1>2, <1>7 DEF TypeOK, SchedType
<1>9. runq \in [Ps -> Nat] /\ waiting \in Nat
  BY DEF LoadInv, QueueType
<1>10. PICK x \in Nat : x = runq[m[a].p]
  BY <1>1, <1>9
<1>11. /\ runq' \in [Ps -> Nat] /\ runq'[m[a].p] = x + n - 1
       /\ \A q \in Ps \ {m[a].p} : runq'[q] = runq[q]
  BY <1>1, <1>6, <1>7, <1>9, <1>10
<1>12. QueueType'
  BY <1>6, <1>7, <1>8, <1>9, <1>11 DEF QueueType
<1>13. Grows(a)
  BY <1>1, <1>9, <1>11 DEF Grows
<1>14. Total' = Total - 1
  <2>1. Total \in Nat
    BY TotalType DEF LoadInv
  <2>2. Total' = Total + (waiting' - waiting) + (sched'.runqsize - sched.runqsize)
                   + (runq'[m[a].p] - runq[m[a].p])
    BY <1>1, <1>11, <1>12, TotalMove DEF LoadInv
  <2> QED  BY <1>2, <1>6, <1>7, <1>8, <1>9, <1>10, <1>11, <2>1, <2>2
<1>15. sched'.runqsize <= sched.runqsize
  BY <1>2, <1>6, <1>8
<1> QED  BY <1>7, <1>8, <1>12, <1>13, <1>14, <1>15, FoundLoad

\* One queue's length changes, and nothing else.
OneQueue(p, d) ==
  /\ waiting' = waiting /\ sched' = sched /\ runq' = [runq EXCEPT ![p] = @ + d]

LEMMA OneQueueTotal ==
  ASSUME LoadInv, NEW p \in Ps, NEW d \in Int, OneQueue(p, d), runq[p] + d \in Nat
  PROVE  /\ QueueType' /\ Total' = Total + d /\ runq'[p] = runq[p] + d
         /\ \A q \in Ps \ {p} : runq'[q] = runq[q]
<1>1. runq \in [Ps -> Nat] /\ waiting \in Nat /\ sched.runqsize \in Nat
  BY DEF LoadInv, QueueType
<1>2. PICK x \in Nat : x = runq[p]
  BY <1>1
<1>3. /\ runq' \in [Ps -> Nat] /\ runq'[p] = x + d
      /\ \A q \in Ps \ {p} : runq'[q] = runq[q]
  BY <1>1, <1>2 DEF OneQueue
<1>4. QueueType'
  BY <1>1, <1>3 DEF QueueType, OneQueue
<1>5. Total \in Nat
  BY TotalType DEF LoadInv
<1>6. Total' = Total + (waiting' - waiting) + (sched'.runqsize - sched.runqsize)
                 + (runq'[p] - runq[p])
  BY <1>3, <1>4, TotalMove DEF LoadInv
<1>7. waiting' - waiting = 0 /\ sched'.runqsize - sched.runqsize = 0 /\ runq'[p] - runq[p] = d
  BY <1>1, <1>2, <1>3 DEF OneQueue
<1> QED  BY <1>2, <1>3, <1>4, <1>5, <1>6, <1>7

\* runqget in findrunnable, and from the thread's own queue in steal.
LEMMA OwnLoad ==
  ASSUME IndInv, LoadInv, NEW a \in Ms, Goto(a, "reset"), m[a].pc \in {"find", "steal"},
         waiting' = waiting, sched' = sched, runq[m[a].p] > 0,
         runq' = [runq EXCEPT ![m[a].p] = @ - 1]
  PROVE  LoadInv'
<1>1. m[a].p \in Ps
  BY DEF Threads, IndInv, PlaceInv, Placed, Running
<1>2. PICK x \in Nat : x = runq[m[a].p] /\ x > 0
  BY <1>1 DEF LoadInv, QueueType
<1>3. OneQueue(m[a].p, -1)
  BY <1>1, <1>2 DEF OneQueue, LoadInv, QueueType
<1>4. QueueType' /\ Total' = Total + (-1) /\ runq'[m[a].p] = x - 1
      /\ \A q \in Ps \ {m[a].p} : runq'[q] = runq[q]
  <2>1. x + (-1) \in Nat /\ x + (-1) = x - 1
    BY <1>2
  <2> QED  BY <1>1, <1>2, <1>3, <2>1, OneQueueTotal
<1>5. \A q \in Ps : runq[q] \in Nat
  BY DEF LoadInv, QueueType
<1>6. Grows(a)
  BY <1>1, <1>2, <1>4, <1>5 DEF Grows
<1>7. Total' = Total - 1 /\ sched'.runqsize <= sched.runqsize
  <2>1. Total \in Nat
    BY TotalType DEF LoadInv
  <2> QED  BY <1>4, <2>1 DEF LoadInv, QueueType
<1> QED  BY <1>4, <1>6, <1>7, FoundLoad

\* runqsteal: half of another queue, one of them to run.
LEMMA StealLoad ==
  ASSUME IndInv, LoadInv, NEW a \in Ms, Goto(a, "reset"), m[a].pc = "steal",
         waiting' = waiting, sched' = sched, NEW v \in Ps, v # m[a].p, runq[v] > 0,
         runq' = LET n == runq[v] - runq[v] \div 2
                 IN  [runq EXCEPT ![v] = @ - n, ![m[a].p] = @ + n - 1]
  PROVE  LoadInv'
<1>1. m[a].p \in Ps /\ m[a].pc \in Running
  BY DEF Threads, IndInv, PlaceInv, Placed, Running
<1>2. runq \in [Ps -> Nat] /\ waiting \in Nat /\ sched.runqsize \in Nat
  BY DEF LoadInv, QueueType
<1>3. PICK x, y \in Nat : x = runq[v] /\ y = runq[m[a].p] /\ x > 0
  BY <1>1, <1>2
<1>4. PICK n \in 1..x : n = x - x \div 2
  BY <1>3
<1>5. runq' = [runq EXCEPT ![v] = @ - n, ![m[a].p] = @ + n - 1]
  BY <1>3, <1>4
<1>6. /\ runq' \in [Ps -> Nat] /\ runq'[v] = x - n /\ runq'[m[a].p] = y + n - 1
      /\ \A q \in Ps \ {v, m[a].p} : runq'[q] = runq[q]
  BY <1>1, <1>2, <1>3, <1>4, <1>5
<1>7. QueueType'
  BY <1>2, <1>6 DEF QueueType
<1>8. Grows(a)
  BY <1>1, <1>2, <1>3, <1>4, <1>6 DEF Grows
<1>9. PICK r \in [Ps -> Nat] : r = [runq EXCEPT ![v] = x - n]
  <2>1. x - n \in Nat
    BY <1>3, <1>4
  <2>2. [runq EXCEPT ![v] = x - n] \in [Ps -> Nat]
    BY <1>2, <2>1
  <2> QED  BY <2>2
<1>10. r[v] = x - n /\ r[m[a].p] = y /\ \A q \in Ps \ {v} : r[q] = runq[q]
  BY <1>1, <1>2, <1>3, <1>9
<1>11. \A q \in Ps \ {m[a].p} : runq'[q] = r[q]
  BY <1>1, <1>6, <1>10
<1>12. PICK k, k1, k2 \in Nat : /\ k = Cardinality(Queued(runq)) /\ k1 = Cardinality(Queued(r))
                                /\ k2 = Cardinality(Queued(runq'))
  BY <1>2, <1>6, QueuedFinite
<1>13. k1 = k - x + (x - n)
  BY <1>2, <1>3, <1>10, <1>12, QueuedChange
<1>14. k2 = k1 - y + (y + n - 1)
  <2>1. runq' \in [Ps -> Nat] /\ runq'[m[a].p] = y + n - 1 /\ r[m[a].p] = y
    BY <1>6, <1>10
  <2>2. Cardinality(Queued(runq')) = Cardinality(Queued(r)) - r[m[a].p] + runq'[m[a].p]
    BY <1>1, <1>11, <2>1, QueuedChange
  <2> QED  BY <1>12, <2>1, <2>2
<1>15. Total' = Total - 1
  <2>1. Total = waiting + sched.runqsize + k /\ Total' = waiting + sched.runqsize + k2
    BY <1>12 DEF Total
  <2> QED  BY <1>2, <1>3, <1>4, <1>12, <1>13, <1>14, <2>1
<1>16. sched'.runqsize <= sched.runqsize
  BY <1>2
<1> QED  BY <1>7, <1>8, <1>15, <1>16, FoundLoad

\* schedule takes from its own queue: what it leaves was to spare before.
LEMMA PopLoad ==
  ASSUME IndInv, LoadInv, NEW a \in Ms, Goto(a, "run"), m[a].pc = "schedule",
         waiting' = waiting, sched' = sched, runq[m[a].p] > 0,
         runq' = [runq EXCEPT ![m[a].p] = @ - 1]
  PROVE  LoadInv'
<1>1. m[a].p \in Ps /\ a \in Threads /\ TypeOK
  BY DEF Threads, IndInv, PlaceInv, Placed, Running
<1>2. PICK x \in Nat : x = runq[m[a].p] /\ x > 0
  BY <1>1 DEF LoadInv, QueueType
<1>3. OneQueue(m[a].p, -1)
  BY <1>1, <1>2 DEF OneQueue, LoadInv, QueueType
<1>4. QueueType' /\ Total' = Total + (-1) /\ runq'[m[a].p] = x - 1
      /\ \A q \in Ps \ {m[a].p} : runq'[q] = runq[q]
  <2>1. x + (-1) \in Nat /\ x + (-1) = x - 1
    BY <1>2
  <2> QED  BY <1>1, <1>2, <1>3, <2>1, OneQueueTotal
<1>5. \A q \in Ps : runq[q] \in Nat
  BY DEF LoadInv, QueueType
<1>6. Grows(a)
  BY <1>1, <1>2, <1>4, <1>5 DEF Grows
<1>7. Only(a) /\ m'[a].pc = "run" /\ m'[a].spinning = m[a].spinning
  BY <1>1, GotoFields
<1>8. ~m[a].spinning
  BY <1>1, <1>2 DEF LoadInv, EmptyInv, EmptyAt
<1>9. EmptyAt(a)' /\ SpinAt(a)' /\ Spins(a)' = Spins(a)
  BY <1>7, <1>8 DEF EmptyAt, SpinAt, Spins, Emptied
<1>10. CountGet(a)
  <2>1. Total' = Total - 1
    BY <1>4, TotalType DEF LoadInv
  <2> QED  BY <1>7, <2>1 DEF CountGet, Holds, Holding, Handing, Stopping
<1>11. GlobalInv'
  <2>1. sched'.runqsize <= sched.runqsize
    BY DEF LoadInv, QueueType
  <2> QED  BY <1>4, <2>1, GlobalKept DEF LoadInv
<1>12. ASSUME NEW q \in Ps, Spare(q)', Loose'
       PROVE  Spare(q) /\ Loose /\ (Watches(a, q) => Watches(a, q)')
  <2>1. ~Watches(a, q) /\ Loose
    BY <1>8, <1>12 DEF Watches, Alert, AlertPlaces, Loose
  <2>2. CASE q = m[a].p
    <3>1. x # 1
      BY <1>4, <1>12, <2>2 DEF Spare
    <3> QED  BY <1>2, <2>1, <2>2, <3>1 DEF Spare
  <2>3. CASE q # m[a].p
    <3>1. runq'[q] = runq[q]
      BY <1>4, <2>3
    <3>2. SUFFICES ASSUME NEW c \in Ms, m[c].p = q, m[c].pc \in Fresh, runq[q] = 1
                   PROVE  FALSE
      BY <1>12, <2>1, <3>1 DEF Spare, Fresh
    <3>3. m'[c] = m[c]
      BY <1>7, <2>3, <3>2 DEF Only, Threads
    <3> QED  BY <1>12, <3>1, <3>2, <3>3 DEF Spare, Fresh
  <2> QED  BY <2>2, <2>3
<1> QED  BY <1>1, <1>4, <1>6, <1>7, <1>9, <1>10, <1>11, <1>12, MoveLoad

\* The P of a thread that runs is not idle.
LEMMA RunningP ==
  ASSUME IndInv, NEW a \in Threads, m[a].pc \in Running
  PROVE  m[a].p \in Ps /\ m[a].p \notin sched.pidle /\ m[a].p \in 0..sched.gomaxprocs-1
<1>1. Owns(a, m[a].p) /\ m[a].p \in Ps /\ status[m[a].p] = "Prunning"
  BY EmptyOwns DEF IndInv, PlaceInv, Placed
<1>2. m[a].p \notin sched.pidle
  BY <1>1 DEF IndInv, OwnerInv
<1>3. ~(m[a].p >= sched.gomaxprocs)
  BY <1>1 DEF IndInv, WorldInv
<1>4. m[a].p \in Nat /\ sched.gomaxprocs \in Nat
  BY <1>1, SizesAssumption DEF IndInv, TypeOK, SchedType, Ps
<1> QED  BY <1>1, <1>2, <1>3, <1>4

\* ready: whoever readies a goroutine sees to it that somebody looks.
LEMMA ReadyLoad ==
  ASSUME IndInv, LoadInv, NEW a \in Ms, Ready(a)
  PROVE  LoadInv'
<1>1. /\ a \in Threads /\ TypeOK /\ m[a].pc = "run" /\ m[a].pc \in Running
      /\ Goto(a, "ridle")
  BY DEF Ready, At, Threads, IndInv, Running
<1>2. m[a].p \in Ps /\ m[a].p \notin sched.pidle /\ m[a].p \in 0..sched.gomaxprocs-1
  BY <1>1, RunningP
<1>3. runq \in [Ps -> Nat] /\ sched.runqsize \in Nat
  BY DEF LoadInv, QueueType
<1>4. PICK w \in Nat : w = waiting /\ w > 0
  BY DEF LoadInv, QueueType, Ready
<1>5. PICK x, z \in Nat : x = runq[m[a].p] /\ z = sched.runqsize
  BY <1>2, <1>3
<1>6. \E y, u \in Nat :
        /\ y + u = x + z + 1
        /\ runq' = [runq EXCEPT ![m[a].p] = y] /\ sched' = [sched EXCEPT !.runqsize = u]
  <2>1. CASE x < Size
    <3>1. runq' = [runq EXCEPT ![m[a].p] = x + 1] /\ sched' = sched
      BY <1>5, <2>1 DEF Ready
    <3>2. sched' = [sched EXCEPT !.runqsize = z]
      BY <1>1, <1>5, <3>1 DEF TypeOK, SchedType
    <3>3. x + 1 \in Nat /\ (x + 1) + z = x + z + 1
      OBVIOUS
    <3> QED  BY <3>1, <3>2, <3>3
  <2>2. CASE ~(x < Size)
    <3>1. PICK n \in Nat : n = Size \div 2 /\ n <= Size
      BY SizesAssumption
    <3>2. /\ runq' = [runq EXCEPT ![m[a].p] = x - n]
          /\ sched' = [sched EXCEPT !.runqsize = z + n + 1]
      BY <1>5, <2>2, <3>1 DEF Ready
    <3>3. x - n \in Nat /\ z + n + 1 \in Nat /\ (x - n) + (z + n + 1) = x + z + 1
      BY <2>2, <3>1, SizesAssumption
    <3> QED  BY <3>2, <3>3
  <2> QED  BY <2>1, <2>2
<1>7. PICK y, u \in Nat :
        /\ y + u = x + z + 1
        /\ runq' = [runq EXCEPT ![m[a].p] = y] /\ sched' = [sched EXCEPT !.runqsize = u]
  BY <1>6
<1>8. /\ runq' \in [Ps -> Nat] /\ runq'[m[a].p] = y /\ waiting' = w - 1
      /\ \A q \in Ps \ {m[a].p} : runq'[q] = runq[q]
  <2>1. waiting' = w - 1
    BY <1>4, Zenon DEF Ready
  <2> QED  BY <1>2, <1>3, <1>7, <2>1
<1>9. /\ sched'.runqsize = u /\ sched'.gomaxprocs = sched.gomaxprocs
      /\ sched'.pidle = sched.pidle /\ sched'.nmspinning = sched.nmspinning
      /\ sched'.handed = sched.handed
  BY <1>1, <1>7 DEF TypeOK, SchedType
<1>10. QueueType'
  <2>1. waiting' \in Nat /\ sched'.runqsize \in Nat
    BY <1>4, <1>8, <1>9
  <2> QED  BY <1>8, <2>1 DEF QueueType
<1>11. Grows(a)
  BY <1>1, <1>2, <1>3, <1>8 DEF Grows
<1>12. Only(a) /\ m'[a].pc = "ridle" /\ m'[a].spinning = m[a].spinning /\ ~m[a].spinning
  BY <1>1, GotoFields, NotSpinning
<1>13. EmptyAt(a)' /\ SpinAt(a)' /\ Spins(a)' = Spins(a)
  BY <1>1, <1>12 DEF EmptyAt, SpinAt, Spins, Emptied
<1>14. CountSame(a)
  <2>1. PICK t \in Nat : t = Total
    BY TotalType DEF LoadInv
  <2>2. Total' = Total + (waiting' - waiting) + (sched'.runqsize - sched.runqsize)
                   + (runq'[m[a].p] - runq[m[a].p])
    BY <1>2, <1>8, <1>10, TotalMove DEF LoadInv
  <2>3. Total' = t + ((w - 1) - w) + (u - z) + (y - x)
    BY <1>4, <1>5, <1>8, <1>9, <2>1, <2>2
  <2>4. y + u = x + z + 1
    BY <1>7
  <2>5. t + ((w - 1) - w) + (u - z) + (y - x) = t
    BY <2>4
  <2>6. Total' = Total
    BY <2>1, <2>3, <2>5
  <2> QED  BY <1>1, <1>12, <2>6 DEF CountSame, Holds, Holding
<1>15. GlobalInv'
  BY <1>2, <1>9, <1>10, GlobalKept DEF LoadInv
<1>16. \A q \in Ps : \E x1 \in Threads : Watches(x1, q)'
  BY <1>1, <1>12 DEF Watches, Alert, AlertPlaces
<1> QED  BY <1>1, <1>9, <1>10, <1>11, <1>12, <1>13, <1>14, <1>15, <1>16, MoveLoad

\* A thread puts its goroutine away, and has a P still or none idles.
LEMMA PutLoad ==
  ASSUME IndInv, LoadInv, NEW a \in Ms, NEW l, Goto(a, l), runq' = runq,
         \/ m[a].pc = "run" /\ l = "schedule"
         \/ m[a].pc = "exit0" /\ l = "stopm" /\ sched.pidle = {},
         \/ waiting' = waiting + 1 /\ sched'.runqsize = sched.runqsize
         \/ waiting' = waiting /\ sched'.runqsize = sched.runqsize + 1,
         sched'.gomaxprocs = sched.gomaxprocs, sched'.pidle = sched.pidle,
         sched'.nmspinning = sched.nmspinning, sched'.handed = sched.handed
  PROVE  LoadInv'
<1>1. a \in Threads /\ TypeOK
  BY DEF Threads, IndInv
<1>2. runq \in [Ps -> Nat] /\ sched.runqsize \in Nat /\ waiting \in Nat
  BY DEF LoadInv, QueueType
<1>3. QueueType' /\ Grows(a)
  BY <1>2 DEF QueueType, Grows
<1>4. Only(a) /\ m'[a].pc = l /\ m'[a].spinning = m[a].spinning /\ ~m[a].spinning
  BY <1>1, GotoFields, NotSpinning
<1>5. EmptyAt(a)' /\ SpinAt(a)' /\ Spins(a)' = Spins(a)
  BY <1>4 DEF EmptyAt, SpinAt, Spins, Emptied
<1>6. CountPut(a)
  <2>1. PICK k \in Nat : k = Cardinality(Queued(runq))
    BY <1>2, QueuedFinite
  <2>2. Total = waiting + sched.runqsize + k /\ Total' = waiting' + sched'.runqsize + k
    BY <2>1 DEF Total
  <2>3. Total' = Total + 1
    <3>1. PICK w, z \in Nat : w = waiting /\ z = sched.runqsize
      BY <1>2
    <3>2. CASE waiting' = waiting + 1 /\ sched'.runqsize = sched.runqsize
      BY <2>1, <2>2, <3>1, <3>2
    <3>3. CASE waiting' = waiting /\ sched'.runqsize = sched.runqsize + 1
      BY <2>1, <2>2, <3>1, <3>3
    <3> QED  BY <3>2, <3>3
  <2> QED  BY <1>4, <2>3 DEF CountPut, Holds, Holding, Handing, Stopping
<1>7. GlobalInv'
  <2>1. \E p \in 0..sched.gomaxprocs-1 : p \notin sched'.pidle
    <3>1. CASE m[a].pc = "run"
      BY <1>1, <3>1, RunningP DEF Running
    <3>2. CASE sched.pidle = {}
      <4>1. 0 \in 0..sched.gomaxprocs-1
        BY <1>1, SizesAssumption DEF TypeOK, SchedType
      <4> QED  BY <3>2, <4>1
    <3> QED  BY <3>1, <3>2
  <2> QED  BY <1>3, <2>1, GlobalKept DEF LoadInv
<1>8. ASSUME NEW q \in Ps, Spare(q)', Loose'
      PROVE  Spare(q) /\ Loose /\ (Watches(a, q) => Watches(a, q)')
  <2>1. ~Watches(a, q) /\ Loose
    BY <1>4, <1>8 DEF Watches, Alert, AlertPlaces, Loose
  <2>2. Spare(q)
    <3>1. m[a].pc \notin Fresh /\ \A x \in Threads \ {a} : m'[x] = m[x]
      BY <1>4 DEF Fresh, Only
    <3> QED  BY <1>1, <1>8, <3>1, SpareCalm
  <2> QED  BY <2>1, <2>2
<1> QED  BY <1>1, <1>3, <1>4, <1>5, <1>6, <1>7, <1>8, MoveLoad

LEMMA AwayLoad ==
  ASSUME IndInv, LoadInv, NEW a \in Ms,
         Park(a) \/ Gosched(a) \/ (Exitsyscall0(a) /\ sched.pidle = {})
  PROVE  LoadInv'
<1>1. TypeOK
  BY DEF IndInv
<1>2. CASE Park(a)
  BY <1>2, PutLoad DEF Park, At
<1>3. CASE Gosched(a)
  <2>1. /\ sched'.runqsize = sched.runqsize + 1
        /\ sched'.gomaxprocs = sched.gomaxprocs /\ sched'.pidle = sched.pidle
        /\ sched'.nmspinning = sched.nmspinning /\ sched'.handed = sched.handed
    BY <1>1, <1>3 DEF Gosched, TypeOK, SchedType
  <2> QED  BY <1>3, <2>1, PutLoad DEF Gosched, At
<1>4. CASE Exitsyscall0(a) /\ sched.pidle = {}
  <2>1. m[a].pc = "exit0" /\ Goto(a, "stopm") /\ runq' = runq /\ waiting' = waiting
        /\ sched' = [sched EXCEPT !.runqsize = @ + 1]
    BY <1>4 DEF Exitsyscall0, At
  <2>2. /\ sched'.runqsize = sched.runqsize + 1
        /\ sched'.gomaxprocs = sched.gomaxprocs /\ sched'.pidle = sched.pidle
        /\ sched'.nmspinning = sched.nmspinning /\ sched'.handed = sched.handed
    BY <1>1, <2>1 DEF TypeOK, SchedType
  <2> QED  BY <1>4, <2>1, <2>2, PutLoad
<1> QED  BY <1>2, <1>3, <1>4

----------------------------------------------------------------------------
(* Ps that go idle *)

\* findrunnable gives its P up and looks at all queues again.
LEMMA GiveUpLoad ==
  ASSUME IndInv, LoadInv, NEW a \in Ms, m[a].pc = "stop", sched.runqsize = 0,
         sched' = [sched EXCEPT !.pidle = @ \cup {m[a].p}],
         With(a, NoP, IF m[a].spinning THEN "unspin" ELSE "recheck"),
         runq' = runq, waiting' = waiting
  PROVE  LoadInv'
<1>1. a \in Threads /\ TypeOK /\ m[a].i = 0
  BY DEF Threads, IndInv, PlaceInv, Placed
<1>2. /\ sched'.runqsize = 0 /\ sched'.gomaxprocs = sched.gomaxprocs
      /\ sched'.pidle = sched.pidle \cup {m[a].p} /\ sched'.nmspinning = sched.nmspinning
  BY <1>1 DEF TypeOK, SchedType
<1>3. QueueType' /\ Grows(a) /\ Total' = Total
  BY <1>2 DEF LoadInv, QueueType, Grows, Total
<1>4. runq[m[a].p] = 0
  BY <1>1 DEF LoadInv, EmptyInv, EmptyAt, Emptied
<1>5. /\ Only(a) /\ m'[a].pc = (IF m[a].spinning THEN "unspin" ELSE "recheck")
      /\ m'[a].spinning = m[a].spinning /\ m'[a].i = 0
  <2>1. PICK l : l = IF m[a].spinning THEN "unspin" ELSE "recheck"
    OBVIOUS
  <2>2. With(a, NoP, l)
    BY <2>1
  <2> QED  BY <1>1, <2>1, <2>2, WithFields
<1>6. EmptyAt(a)' /\ SpinAt(a)' /\ Spins(a)' = Spins(a)
  BY <1>5 DEF EmptyAt, SpinAt, Spins, Emptied
<1>7. CountSame(a)
  BY <1>3, <1>5 DEF CountSame, Holds, Holding, Handing, Stopping
<1>8. GlobalInv'
  BY <1>2, <1>3, GlobalKept DEF LoadInv
<1>9. \A q \in Ps : Watches(a, q)'
  <2>1. \A q \in Ps : m'[a].i <= q
    <3>1. \A q \in Ps : 0 <= q
      BY SizesAssumption DEF Ps
    <3> QED  BY <1>5, <3>1
  <2> QED  BY <1>5, <2>1 DEF Watches, Alert, AlertPlaces
<1>10. \A q \in Ps : \E x \in Threads : Watches(x, q)'
  BY <1>1, <1>9
<1> QED  BY <1>1, <1>2, <1>3, <1>4, <1>5, <1>6, <1>7, <1>8, <1>10, MoveLoad

\* handoffp gives the P up, and marks it if there is work.
LEMMA HandedLoad ==
  ASSUME IndInv, LoadInv, NEW a \in Threads, m[a].pc = "hand3", sched.runqsize = 0,
         sched' = [sched EXCEPT !.pidle = @ \cup {m[a].p},
                                !.handed = IF \E p \in Ps : runq[p] > 0
                                           THEN @ \cup {m[a].p} ELSE @],
         With(a, NoP, Back(a)), runq' = runq, waiting' = waiting
  PROVE  LoadInv'
<1>1. TypeOK /\ Back(a) \in {"syscall", "monend"} /\ (a \in Ms => Back(a) = "syscall")
  BY SizesAssumption DEF IndInv, Back
<1>2. ~m[a].spinning /\ Only(a) /\ m'[a].pc = Back(a) /\ m'[a].spinning = m[a].spinning
  BY <1>1, WithFields, NotSpinning
<1> DEFINE H == IF \E p \in Ps : runq[p] > 0 THEN sched.handed \cup {m[a].p} ELSE sched.handed
<1>3. sched' = [sched EXCEPT !.pidle = @ \cup {m[a].p}, !.handed = H]
  BY Zenon
<1> HIDE DEF H
<1>4. /\ sched'.runqsize = 0 /\ sched'.gomaxprocs = sched.gomaxprocs
      /\ sched'.pidle = sched.pidle \cup {m[a].p} /\ sched'.nmspinning = sched.nmspinning
      /\ sched'.handed = H
  BY <1>1, <1>3 DEF TypeOK, SchedType
<1>5. QueueType' /\ Grows(a) /\ Total' = Total
  BY <1>4 DEF LoadInv, QueueType, Grows, Total
<1>6. runq[m[a].p] = 0
  BY DEF LoadInv, EmptyInv, EmptyAt, Emptied
<1>7. EmptyAt(a)' /\ SpinAt(a)' /\ Spins(a)' = Spins(a)
  BY <1>1, <1>2 DEF EmptyAt, SpinAt, Spins, Emptied
<1>8. CountSame(a)
  BY <1>1, <1>2, <1>5 DEF CountSame, Holds, Holding, Handing
<1>9. GlobalInv'
  BY <1>4, <1>5, GlobalKept DEF LoadInv
<1>10. ASSUME NEW q \in Ps, Spare(q)', Loose'
       PROVE  Spare(q) /\ Loose /\ (Watches(a, q) => Watches(a, q)')
  <2>1. ~Watches(a, q)
    BY <1>2 DEF Watches, Alert, AlertPlaces
  <2>2. Spare(q)
    <3>1. m[a].pc \notin Fresh /\ \A x \in Threads \ {a} : m'[x] = m[x]
      BY <1>2 DEF Fresh, Only
    <3> QED  BY <1>10, <3>1, SpareCalm
  <2>3. H = sched.handed \cup {m[a].p}
    BY <2>2 DEF H, Spare
  <2>4. Loose
    BY <1>4, <1>10, <2>3 DEF Loose
  <2> QED  BY <2>1, <2>2, <2>4
<1> QED  BY <1>2, <1>4, <1>5, <1>6, <1>7, <1>8, <1>9, <1>10, MoveLoad

----------------------------------------------------------------------------
(* All steps *)

LEMMA FindLoad ==
  ASSUME IndInv, LoadInv, NEW a \in Ms,
         Schedule(a) \/ Findrunnable(a) \/ FindSteal(a) \/ FindStop(a)
  PROVE  LoadInv'
<1>1. a \in Threads /\ TypeOK
  BY DEF Threads, IndInv
<1>2. CASE Schedule(a)
  <2>1. m[a].pc = "schedule"
    BY <1>2 DEF Schedule, At
  <2>2. CASE gcstopm(a, "schedule")
    BY <2>1, <2>2, GcstopLoad
  <2>3. CASE globrunqget(a, 1)
    BY <2>1, <2>3, GlobLoad
  <2>4. CASE /\ runq[m[a].p] > 0 /\ runq' = [runq EXCEPT ![m[a].p] = @ - 1]
             /\ Goto(a, "run") /\ UNCHANGED <<sched, status, waiting>>
    BY <2>1, <2>4, PopLoad
  <2>5. CASE Goto(a, "find") /\ UNCHANGED <<sched, status, runq, waiting, fate>>
    <3>1. Still
      BY <2>5, SchedUnchanged DEF Still
    <3>2. Only(a) /\ m'[a].pc = "find" /\ m'[a].p = m[a].p /\ m'[a].spinning = m[a].spinning
      BY <1>1, <2>5, GotoFields
    <3> QED  BY <2>1, <3>1, <3>2, FreshLoad DEF Fresh
  <2> QED  BY <1>2, <2>2, <2>3, <2>4, <2>5 DEF Schedule
<1>3. CASE Findrunnable(a)
  <2>1. m[a].pc = "find"
    BY <1>3 DEF Findrunnable, At
  <2>2. CASE gcstopm(a, "find")
    BY <2>1, <2>2, GcstopLoad
  <2>3. CASE globrunqget(a, 0)
    BY <2>1, <2>3, GlobLoad
  <2>4. CASE /\ runq[m[a].p] > 0 /\ runq' = [runq EXCEPT ![m[a].p] = @ - 1]
             /\ Goto(a, "reset") /\ UNCHANGED <<sched, status, waiting, fate>>
    BY <2>1, <2>4, OwnLoad
  <2>5. CASE /\ runq[m[a].p] = 0 /\ Goto(a, IF m[a].spinning THEN "steal" ELSE "busy")
             /\ UNCHANGED <<sched, status, runq, waiting, fate>>
    <3>1. Still
      BY <2>5, SchedUnchanged DEF Still
    <3>2. PICK l \in {"steal", "busy"} : Goto(a, l) /\ (m[a].spinning => l # "busy")
      BY <2>5
    <3> QED  BY <2>1, <2>5, <3>1, <3>2, FindGoLoad
  <2> QED  BY <1>3, <2>2, <2>3, <2>4, <2>5 DEF Findrunnable
<1>4. CASE FindSteal(a)
  <2>1. m[a].pc = "steal" /\ sched' = sched /\ waiting' = waiting
    BY <1>4 DEF FindSteal, At
  <2>2. CASE (Goto(a, "find") \/ Goto(a, "stop")) /\ runq' = runq
    <3>1. Still
      BY <2>1, <2>2, SchedUnchanged DEF Still
    <3>2. runq[m[a].p] = 0
      BY <1>1, <2>1 DEF LoadInv, EmptyInv, EmptyAt, Emptied
    <3> QED  BY <2>1, <2>2, <3>1, <3>2, FindGoLoad
  <2>3. ASSUME NEW v \in Ps, runq[v] > 0, Goto(a, "reset"),
               runq' = IF v = m[a].p THEN [runq EXCEPT ![v] = @ - 1]
                       ELSE LET n == runq[v] - runq[v] \div 2
                            IN  [runq EXCEPT ![v] = @ - n, ![m[a].p] = @ + n - 1]
        PROVE  LoadInv'
    <3>1. CASE v = m[a].p
      BY <2>1, <2>3, <3>1, OwnLoad
    <3>2. CASE v # m[a].p
      BY <2>1, <2>3, <3>2, StealLoad
    <3> QED  BY <3>1, <3>2
  <2> QED  BY <1>4, <2>2, <2>3 DEF FindSteal
<1>5. CASE FindStop(a)
  <2>1. m[a].pc = "stop"
    BY <1>5 DEF FindStop, At
  <2>2. CASE Goto(a, "find") /\ UNCHANGED <<sched, status, runq, waiting, fate>>
    <3>1. Still
      BY <2>2, SchedUnchanged DEF Still
    <3> QED  BY <2>1, <2>2, <3>1, FindGoLoad
  <2>3. CASE globrunqget(a, 0)
    BY <2>1, <2>3, GlobLoad
  <2>4. CASE /\ sched.runqsize = 0 /\ sched' = [sched EXCEPT !.pidle = @ \cup {m[a].p}]
             /\ With(a, NoP, IF m[a].spinning THEN "unspin" ELSE "recheck")
             /\ UNCHANGED <<runq, waiting>>
    BY <2>1, <2>4, GiveUpLoad
  <2> QED  BY <1>5, <2>2, <2>3, <2>4 DEF FindStop
<1> QED  BY <1>2, <1>3, <1>4, <1>5

\* starttheworld's caller and the threads it wakes.
LEMMA StartThreads ==
  ASSUME TypeOK, NEW a \in Ms, NEW new, NEW work, NEW next, Started(a, new, work, next)
  PROVE  /\ m[a].pc = "stopped" /\ m'[a].pc = "run" /\ m'[a].spinning = m[a].spinning
         /\ \A b \in Range(next) :
              /\ b \in Ms \ {a} /\ m[b].pc \in {"parked", "none"}
              /\ m'[b].pc = "woken" /\ m'[b].spinning = m[b].spinning
         /\ \A p \in work : next[p] \in Range(next) /\ m'[next[p]].p = p
         /\ \A b \in Threads \ {a} : b \notin Range(next) => m'[b] = m[b]
<1>1. a \in Threads /\ m[a].pc = "stopped"
  BY Zenon DEF Threads, Started, At
<1>2. \A b \in Threads :
         m'[b] = IF b = a THEN [m[b] EXCEPT !.pc = "run", !.p = 0]
                 ELSE IF b \in Range(next)
                 THEN [m[b] EXCEPT !.pc = "woken", !.p = CHOOSE p \in work : next[p] = b]
                 ELSE m[b]
  <2>1. m' = [b \in Threads |->
                IF b = a THEN [m[b] EXCEPT !.pc = "run", !.p = 0]
                ELSE IF b \in Range(next)
                THEN [m[b] EXCEPT !.pc = "woken", !.p = CHOOSE p \in work : next[p] = b]
                ELSE m[b]]
    BY Zenon DEF Started
  <2> QED  BY <2>1
<1>3. /\ \A b \in Range(next) : b \in Ms \ {a} /\ m[b].pc \in {"parked", "none"}
      /\ \A p \in work : next[p] \in Range(next)
  <2>1. next \in [work -> {b \in Ms : m[b].pc \in {"parked", "none"}}]
    BY Zenon DEF Started
  <2> QED  BY <1>1, <2>1 DEF Range
<1>4. m'[a].pc = "run" /\ m'[a].spinning = m[a].spinning
  BY <1>1, <1>2 DEF TypeOK, ThreadType
<1>5. ASSUME NEW b \in Range(next)
      PROVE  /\ m'[b].pc = "woken" /\ m'[b].spinning = m[b].spinning
             /\ m'[b].p = CHOOSE p \in work : next[p] = b
  <2> DEFINE r == CHOOSE p \in work : next[p] = b
  <2>1. b \in Threads /\ b # a
    BY <1>3, <1>5 DEF Threads
  <2>2. m'[b] = [m[b] EXCEPT !.pc = "woken", !.p = r] /\ m[b] \in ThreadType
    BY <1>2, <1>5, <2>1 DEF TypeOK
  <2> HIDE DEF r
  <2>3. m'[b].pc = "woken" /\ m'[b].spinning = m[b].spinning /\ m'[b].p = r
    BY <2>2 DEF ThreadType
  <2> QED  BY <2>3 DEF r
<1>6. ASSUME NEW p \in work PROVE m'[next[p]].p = p
  <2>1. (CHOOSE q \in work : next[q] = next[p]) = p
    <3>1. \A p1, q1 \in work : next[p1] = next[q1] => p1 = q1
      BY Zenon DEF Started
    <3> QED  BY <3>1
  <2> QED  BY <1>3, <1>5, <1>6, <2>1
<1>7. \A b \in Threads \ {a} : b \notin Range(next) => m'[b] = m[b]
  BY <1>2
<1> QED  BY <1>1, <1>3, <1>4, <1>5, <1>6, <1>7

\* While the world is stopped nobody but the caller has a P.
LEMMA StoppedAlone ==
  ASSUME IndInv, NEW a \in Ms, At(a, "stopped"), NEW b \in Threads \ {a}
  PROVE  m[b].pc \notin Emptied \cup Running \cup Handing \cup Stopping \cup Fresh
<1>1. Live = {} /\ m[a].pc \in Stopping
  BY DEF IndInv, WorldInv, At, Stopping
<1>2. SUFFICES ASSUME m[b].pc \in Emptied \cup Running \cup Handing \cup Stopping \cup Fresh
               PROVE  FALSE
  OBVIOUS
<1>3. Owns(b, m[b].p) /\ m[b].p \in Ps
  BY <1>2, EmptyOwns DEF Fresh, Running
<1>4. status[m[b].p] \in {"Prunning", "Pidle"} \/ m[b].pc \in Stopping
  BY <1>2 DEF IndInv, PlaceInv, Placed, Emptied, Running, Handing, Fresh
<1>5. m[b].pc \in Stopping
  BY <1>1, <1>3, <1>4 DEF Live
<1>6. b \in Ms
  BY <1>5 DEF Threads, IndInv, PlaceInv, Handing, Stopping
<1> QED  BY <1>1, <1>5, <1>6 DEF IndInv, WorldInv

LEMMA WorldLoad ==
  ASSUME IndInv, LoadInv, NEW a \in Ms, NEW new \in 1..NP, Starttheworld(a, new)
  PROVE  LoadInv'
<1>1. a \in Threads /\ TypeOK
  BY DEF Threads, IndInv
<1>2. PICK work, next :
        Started(a, new, work, next) /\ work = {p \in Ps \ {0} : runq'[p] > 0}
  BY <1>1, StartEffect DEF IndInv
<1>3. PICK t, rest \in Nat :
        /\ sched.runqsize + Cardinality(Queued(runq)) = t + rest
        /\ runq' = Deal(t, new)
        /\ sched' = [sched EXCEPT !.runqsize = rest, !.gcwaiting = FALSE,
                                  !.pidle = 1..new-1 \ work, !.gomaxprocs = new]
  <2> DEFINE total == sched.runqsize + Cardinality(Queued(runq))
             dealt == Lesser(total, (new * Size) \div 2 - 1)
             deal == [p \in Ps |-> Cardinality({i \in 1..dealt : i % new = p})]
             some == {p \in Ps \ {0} : deal[p] > 0}
  <2>1. total \in Nat
    BY QueuedFinite DEF LoadInv, QueueType
  <2>2. PICK y \in Nat : y = (new * Size) \div 2 - 1
    <3>1. PICK k \in Nat : k = new * Size /\ k >= 2
      BY SizesAssumption
    <3> QED  BY <3>1
  <2>3. /\ runq' = deal
        /\ sched' = [sched EXCEPT !.runqsize = total - dealt, !.gcwaiting = FALSE,
                                  !.pidle = 1..new-1 \ some, !.gomaxprocs = new]
    BY Zenon DEF Starttheworld, Lesser
  <2>4. some = work
    BY <1>2, <2>3, Zenon
  <2> HIDE DEF total, some
  <2>5. dealt \in Nat /\ total - dealt \in Nat /\ total = dealt + (total - dealt)
    <3>1. dealt = IF total <= y THEN total ELSE y
      BY <2>1, <2>2, LesserOf
    <3> HIDE DEF dealt
    <3> QED  BY <2>1, <3>1
  <2> HIDE DEF dealt
  <2>6. runq' = Deal(dealt, new)
    BY <2>3, Zenon DEF Deal
  <2> HIDE DEF deal
  <2>7. total = sched.runqsize + Cardinality(Queued(runq))
    BY DEF total
  <2> QED  BY <2>3, <2>4, <2>5, <2>6, <2>7
<1>4. runq' \in [Ps -> Nat] /\ waiting' = waiting
  <2>1. waiting' = waiting
    BY Zenon DEF Starttheworld
  <2> QED  BY <1>3, <2>1, DealType
<1>5. /\ sched'.runqsize = rest /\ sched'.gomaxprocs = new
      /\ sched'.pidle = 1..new-1 \ work /\ sched'.nmspinning = sched.nmspinning
  <2> DEFINE I == 1..new-1 \ work
  <2>1. sched' = [sched EXCEPT !.runqsize = rest, !.gcwaiting = FALSE, !.pidle = I,
                               !.gomaxprocs = new]
    BY <1>3
  <2> HIDE DEF I
  <2>2. /\ sched'.runqsize = rest /\ sched'.gomaxprocs = new
        /\ sched'.pidle = I /\ sched'.nmspinning = sched.nmspinning
    BY <1>1, <2>1 DEF TypeOK, SchedType
  <2> QED  BY <2>2 DEF I
<1>6. /\ m[a].pc = "stopped" /\ m'[a].pc = "run" /\ m'[a].spinning = m[a].spinning
      /\ \A b \in Range(next) :
           /\ b \in Ms \ {a} /\ m[b].pc \in {"parked", "none"}
           /\ m'[b].pc = "woken" /\ m'[b].spinning = m[b].spinning
      /\ \A p \in work : next[p] \in Range(next) /\ m'[next[p]].p = p
      /\ \A b \in Threads \ {a} : b \notin Range(next) => m'[b] = m[b]
  BY <1>1, <1>2, StartThreads
<1>7. ~m[a].spinning /\ \A b \in Range(next) : ~m[b].spinning /\ b \in Threads
  BY <1>1, <1>6, NotSpinning DEF Threads
<1>8. QueueType'
  BY <1>4, <1>5 DEF LoadInv, QueueType
<1>9. EmptyInv'
  <2>1. ASSUME NEW p \in Ps, p \in sched'.pidle \/ p >= sched'.gomaxprocs PROVE runq'[p] = 0
    <3>1. p \in Nat /\ new \in Nat \ {0} /\ runq'[p] \in Nat
      BY <1>4, SizesAssumption DEF Ps
    <3>2. CASE p \in sched'.pidle
      BY <1>2, <1>5, <3>1, <3>2
    <3>3. CASE p >= new
      <4>1. ~(Cardinality({i \in 1..t : i % new = p}) > 0)
        BY <3>1, <3>3, DealtBelow
      <4>2. runq'[p] = Cardinality({i \in 1..t : i % new = p})
        BY <1>3 DEF Deal
      <4> QED  BY <3>1, <4>1, <4>2
    <3> QED  BY <1>5, <2>1, <3>2, <3>3
  <2>2. ASSUME NEW b \in Threads PROVE EmptyAt(b)'
    <3>1. CASE b = a
      BY <1>6, <3>1 DEF EmptyAt, Emptied
    <3>2. CASE b \in Range(next)
      BY <1>6, <1>7, <3>2 DEF EmptyAt, Emptied
    <3>3. CASE b # a /\ b \notin Range(next)
      <4>1. m'[b] = m[b]
        BY <1>6, <3>3
      <4>2. m[b].pc \notin Emptied \cup Fresh
        <5>1. At(a, "stopped")
          BY <1>2, Zenon DEF Started
        <5> QED  BY <3>3, <5>1, StoppedAlone
      <4> QED  BY <4>1, <4>2 DEF EmptyAt, Fresh
    <3> QED  BY <3>1, <3>2, <3>3
  <2> QED  BY <2>1, <2>2 DEF EmptyInv
<1>10. GlobalInv'
  <2>1. 0 \in 0..new-1 /\ 0 \notin sched'.pidle
    BY <1>5
  <2> QED  BY <1>5, <2>1 DEF GlobalInv
<1>11. SpinInv'
  <2>1. \A x \in Threads : m'[x] = m[x] \/ SpinAt(x)'
    BY <1>6, <1>7 DEF SpinAt
  <2>2. \A x \in Threads : Spins(x)' = Spins(x)
    BY <1>6 DEF Spins
  <2>3. SpinSame
    BY <1>5, <2>2 DEF SpinSame
  <2> QED  BY <1>1, <2>1, <2>3, SpinKept DEF LoadInv
<1>12. CountInv'
  <2>1. \A x \in Ms \ {a} : Holds(x)' = Holds(x)
    BY <1>6 DEF Holds, Holding, Handing, Stopping, Threads
  <2>2. Holds(a)' = Holds(a)
    BY <1>6 DEF Holds, Holding, Stopping
  <2>3. Total' = Total
    <3>1. Cardinality(Queued(runq')) = t
      BY <1>3, DealAll
    <3>2. Total' = waiting + rest + t
      BY <1>4, <1>5, <3>1 DEF Total
    <3>3. Total = waiting + rest + t
      <4>1. PICK k, z, w \in Nat : k = Cardinality(Queued(runq)) /\ z = sched.runqsize /\ w = waiting
        BY QueuedFinite DEF LoadInv, QueueType
      <4> QED  BY <1>3, <4>1 DEF Total
    <3> QED  BY <3>2, <3>3 DEF LoadInv, QueueType
  <2>4. CountSame(a)
    BY <2>2, <2>3 DEF CountSame
  <2> QED  BY <1>1, <2>1, <2>4, CountKept DEF LoadInv
<1>13. WorkInv'
  <2> SUFFICES ASSUME NEW q \in Ps, Spare(q)', Loose' PROVE FALSE
    BY DEF WorkInv
  <2>1. PICK p \in 1..new-1 : p \notin work
    BY <1>5 DEF Loose
  <2>2. p \in Ps \ {0} /\ Deal(t, new)[p] = 0
    <3>1. p \in Ps \ {0}
      BY <2>1, SizesAssumption DEF Ps
    <3> QED  BY <1>2, <1>3, <1>4, <2>1, <3>1
  <2>3. runq'[q] <= 1 /\ (q = 0 => runq'[q] = 0)
    BY <1>3, <2>2, DealFew
  <2>4. runq'[q] > 0 /\ runq'[q] \in Nat
    BY <1>4 DEF Spare
  <2>5. runq'[q] = 1 /\ q # 0
    BY <2>3, <2>4
  <2>6. q \in work
    BY <1>2, <2>4, <2>5
  <2>7. next[q] \in Ms /\ m'[next[q]].p = q /\ m'[next[q]].pc = "woken"
    BY <1>6, <2>6
  <2> QED  BY <2>5, <2>7 DEF Spare
<1> QED  BY <1>8, <1>9, <1>10, <1>11, <1>12, <1>13 DEF LoadInv

LEMMA InitLoad == Init => LoadInv
<1> SUFFICES ASSUME Init PROVE LoadInv
  OBVIOUS
<1>1. PICK m0 \in Ms :
        m = [a \in Threads |-> [pc |-> CASE a = m0 -> "run" [] a = Sysmon -> "mon"
                                         [] OTHER -> "none",
                                p |-> IF a = m0 THEN 0 ELSE NoP,
                                spinning |-> FALSE, ret |-> "schedule", i |-> 0]]
  BY DEF Init
<1>2. m0 \in Threads /\ m0 # Sysmon
  BY SizesAssumption DEF Threads
<1>3. \A a \in Threads :
        /\ m[a].pc = IF a = m0 THEN "run" ELSE IF a = Sysmon THEN "mon" ELSE "none"
        /\ m[a].spinning = FALSE
  <2> TAKE a \in Threads
  <2> DEFINE l == CASE a = m0 -> "run" [] a = Sysmon -> "mon" [] OTHER -> "none"
  <2>1. l = IF a = m0 THEN "run" ELSE IF a = Sysmon THEN "mon" ELSE "none"
    BY <1>2
  <2>2. m[a].pc = l /\ m[a].spinning = FALSE
    BY <1>1
  <2> QED  BY <2>1, <2>2
<1>4. runq \in [Ps -> Nat] /\ \A p \in Ps : runq[p] = 0
  BY DEF Init
<1>5. sched.runqsize = 0 /\ sched.nmspinning = 0 /\ waiting = NG - 1 /\ waiting \in Nat
  BY SizesAssumption DEF Init
<1>6. QueueType
  BY <1>4, <1>5 DEF QueueType
<1>7. EmptyInv
  BY <1>3, <1>4 DEF EmptyInv, EmptyAt, Emptied
<1>8. GlobalInv
  BY <1>5 DEF GlobalInv
<1>9. SpinInv
  <2>1. {a \in Threads : Spins(a)} = {}
    BY <1>3 DEF Spins
  <2>2. \A a \in Threads : SpinAt(a)
    BY <1>3 DEF SpinAt
  <2> QED  BY <1>5, <2>1, <2>2, FS_EmptySet DEF SpinInv
<1>10. CountInv
  <2> DEFINE S == {a \in Ms : Holds(a)}
  <2>1. S = {m0}
    BY <1>3, SizesAssumption DEF Holds, Holding, Handing, Stopping, Threads
  <2>2. Cardinality(S) = 1
    BY <2>1, FS_Singleton
  <2> HIDE DEF S
  <2>3. Total = NG - 1
    <3>1. Cardinality(Queued(runq)) = 0
      BY <1>4, QueuedNone
    <3> QED  BY <1>5, <3>1, SizesAssumption DEF Total
  <2>4. Total + Cardinality(S) = NG
    BY <2>2, <2>3, SizesAssumption
  <2> QED  BY <2>4 DEF CountInv, S
<1>11. WorkInv
  BY <1>4 DEF WorkInv, Spare
<1> QED  BY <1>6, <1>7, <1>8, <1>9, <1>10, <1>11 DEF LoadInv

LEMMA NextLoad == IndInv /\ LoadInv /\ Next => LoadInv'
<1> SUFFICES ASSUME IndInv, LoadInv, Next PROVE LoadInv'
  OBVIOUS
<1>1. ASSUME NEW a \in Ms,
             \/ Schedule(a) \/ Findrunnable(a) \/ FindBusy(a) \/ FindSpin(a) \/ FindSteal(a)
             \/ FindStop(a) \/ FindUnspin(a) \/ FindRecheck(a) \/ FindGrab(a)
             \/ FindPoll(a) \/ FindPolled(a) \/ stopm(a) \/ Acquirep(a)
      PROVE  LoadInv'
  <2>1. a \in Threads
    BY DEF Threads
  <2>2. CASE Schedule(a) \/ Findrunnable(a) \/ FindSteal(a) \/ FindStop(a)
    BY <2>2, FindLoad
  <2>3. CASE FindBusy(a) \/ FindPoll(a) \/ FindPolled(a) \/ stopm(a)
    BY <2>3, PlainLoad
  <2>4. CASE FindSpin(a)
    BY <2>1, <2>4, SpinningLoad
  <2>5. CASE FindUnspin(a) \/ FindRecheck(a) \/ Acquirep(a)
    BY <2>5, UnspinLoad, RecheckLoad, AcquireLoad
  <2>6. CASE FindGrab(a)
    BY <2>6, SyscallLoad, Zenon
  <2> QED  BY <1>1, <2>2, <2>3, <2>4, <2>5, <2>6
<1>2. ASSUME NEW a \in Ms,
             \/ Resetspinning(a) \/ ResetIdle(a) \/ ReadyIdle(a) \/ WakepCas(a) \/ WakepStart(a)
             \/ Ready(a) \/ Park(a) \/ Gosched(a)
      PROVE  LoadInv'
  <2>1. a \in Threads
    BY DEF Threads
  <2>2. CASE WakepCas(a)
    BY <2>1, <2>2, SpinningLoad, WakepLoad
  <2>3. CASE WakepStart(a)
    BY <2>1, <2>3, StartmLoad, NoStartLoad
  <2> QED  BY <1>2, <2>2, <2>3, ResetLoad, PlainLoad, ReadyLoad, AwayLoad
<1>3. ASSUME NEW a \in Ms,
             \/ Entersyscall(a) \/ EntersyscallLoad(a) \/ EntersyscallGcwait(a)
             \/ Entersyscallblock(a)
             \/ Exitsyscall(a) \/ ExitsyscallCas(a) \/ ExitsyscallPidle(a) \/ Exitsyscall0(a)
      PROVE  LoadInv'
  BY <1>3, PlainLoad, SyscallLoad, AwayLoad
<1>4. ASSUME NEW a \in Ms,
             \/ Stoptheworld(a) \/ StopCas(a) \/ StopIdle(a) \/ StopWait(a) \/ StopCheck(a)
             \/ \E new \in 1..NP : Starttheworld(a, new)
      PROVE  LoadInv'
  BY <1>4, StopLoad, WorldLoad
<1>5. ASSUME NEW a \in Threads, Handoff(a) PROVE LoadInv'
  <2>1. CASE Handoff1(a) \/ Handoff2(a)
    BY <2>1, HandoffLoad, Zenon
  <2>2. CASE HandoffCas(a)
    <3>1. CASE sched.nmspinning = 0
      BY <2>2, <3>1, SpinningLoad
    <3>2. CASE sched.nmspinning # 0
      <4>1. sched' = sched
        BY <2>2, <3>2 DEF HandoffCas
      <4> QED  BY <2>2, <4>1, HandoffLoad
    <3> QED  BY <3>1, <3>2
  <2>3. CASE HandoffStart(a)
    BY <2>3, StartmLoad
  <2>4. CASE Handoff3(a)
    <3>1. m[a].pc = "hand3" /\ runq' = runq /\ waiting' = waiting /\ TypeOK
      BY <2>4 DEF Handoff3, At, IndInv
    <3>2. CASE StopP(m[a].p, FALSE) \/ sched' = sched
      <4>1. sched'.pidle = sched.pidle
        BY <3>1, <3>2, StopPStill DEF SchedStill
      <4> QED  BY <2>4, <4>1, HandoffLoad
    <3>3. CASE /\ sched.runqsize = 0
               /\ sched' = [sched EXCEPT !.pidle = @ \cup {m[a].p},
                                         !.handed = IF \E p \in Ps : runq[p] > 0
                                                    THEN @ \cup {m[a].p} ELSE @]
               /\ With(a, NoP, Back(a))
      BY <3>1, <3>3, HandedLoad, Zenon
    <3> QED  BY <2>4, <3>2, <3>3, Zenon DEF Handoff3
  <2> QED  BY <1>5, <2>1, <2>2, <2>3, <2>4 DEF Handoff
<1>6. CASE Retake(Sysmon) \/ RetakeCas(Sysmon) \/ RetakeEnd(Sysmon)
  BY <1>6, SysmonLoad
<1>7. ASSUME NEW a \in Ms, MNext(a) PROVE LoadInv'
  BY <1>1, <1>2, <1>3, <1>4, <1>7 DEF MNext
<1> QED  BY <1>5, <1>6, <1>7 DEF Next

LEMMA LoadInvariance == Spec => [](IndInv /\ LoadInv)
<1>1. LoadInv /\ UNCHANGED vars => LoadInv'
  BY DEF vars, LoadInv, QueueType, EmptyInv, EmptyAt, GlobalInv, SpinInv, Spins, SpinAt,
         CountInv, Total, Holds, WorkInv, Spare, Loose, Watches, Alert
<1> QED  BY <1>1, InitLoad, NextLoad, Invariance, PTL DEF Spec

\* A P that is neither idle nor dead is with a thread that acts, in a system
\* call, or stopped by a thread that stops the world.
LEMMA PAttended ==
  ASSUME IndInv, NEW p \in Ps, p \notin sched.pidle, ~(p >= sched.gomaxprocs)
  PROVE  \/ \E a \in Threads : m[a].pc \notin {"none", "parked", "syscall", "mon"}
         \/ \E q \in Ps : status[q] = "Psyscall"
<1>1. status[p] \in Statuses /\ status[p] # "Pdead"
  BY DEF IndInv, TypeOK, WorldInv
<1>2. CASE status[p] \in {"Pidle", "Prunning"}
  <2>1. PICK a \in Threads : Owns(a, p)
    BY <1>2 DEF IndInv, OwnerInv
  <2>2. m[a].pc \in Running \cup Handing \cup Stopping \cup {"woken"}
    BY <2>1, OwnerPlace DEF IndInv
  <2> QED  BY <2>2 DEF Running, Handing, Stopping
<1>3. CASE status[p] = "Pgcstop"
  <2>1. PICK a \in Ms : m[a].pc \in Stopping
    BY <1>3 DEF IndInv, WorldInv
  <2> QED  BY <2>1 DEF Threads, Stopping
<1> QED  BY <1>1, <1>2, <1>3 DEF Statuses

LEMMA NothingStranded == IndInv /\ LoadInv => NoStranded
<1> SUFFICES ASSUME IndInv, LoadInv, sched.runqsize > 0 \/ (\E p \in Ps : runq[p] > 0)
             PROVE  \/ \E a \in Threads : m[a].pc \notin {"none", "parked", "syscall", "mon"}
                    \/ \E p \in Ps : status[p] = "Psyscall"
  BY DEF NoStranded
<1>1. \E p \in Ps : p \notin sched.pidle /\ ~(p >= sched.gomaxprocs)
  <2>1. CASE \E p \in Ps : runq[p] > 0
    BY <2>1 DEF LoadInv, EmptyInv
  <2>2. CASE sched.runqsize > 0
    <3>1. sched.pidle # 0..sched.gomaxprocs-1
      BY <2>2 DEF LoadInv, GlobalInv
    <3>2. PICK p \in 0..sched.gomaxprocs-1 : p \notin sched.pidle
      BY <3>1, IdleBelow
    <3>3. sched.gomaxprocs \in 1..NP
      BY DEF IndInv, TypeOK, SchedType
    <3>4. p \in Ps /\ ~(p >= sched.gomaxprocs)
      BY <3>2, <3>3, SizesAssumption DEF Ps
    <3> QED  BY <3>2, <3>4
  <2> QED  BY <2>1, <2>2
<1> QED  BY <1>1, PAttended

\* Work on a local or on the global queue is never forgotten by all: ready
\* against an M that parks, handoffp against a queue that fills, exitsyscall
\* putting its goroutine on the global queue against the last P going idle,
\* starttheworld dealing the queues to fewer Ps.
THEOREM SchedStrandsNothing == Spec => []NoStranded
BY NothingStranded, LoadInvariance, PTL

\* Once every thread is past its decisions, no P idles beside a local queue
\* with work, unless handoffp put it there: the thread that gives up its P
\* looks at all queues after it has stopped spinning (or ready would have
\* relied on it), and resetspinning and wakep pass the search on.
THEOREM SchedConservesWork == Spec => []WorkConserving
<1>1. IndInv /\ LoadInv => WorkConserving
  <2> SUFFICES ASSUME IndInv, LoadInv, Quiet, NEW p \in Ps, runq[p] > 0, Loose
               PROVE  FALSE
    BY DEF WorkConserving, Loose
  <2>1. \A a \in Threads : m[a].pc \in {"none", "parked", "run", "syscall", "mon"}
    BY DEF Quiet
  <2>2. Spare(p)
    <3>1. \A a \in Ms : m[a].pc \notin {"woken", "schedule"}
      BY <2>1 DEF Threads
    <3> QED  BY <3>1 DEF Spare
  <2>3. PICK a \in Threads : Watches(a, p)
    BY <2>2 DEF LoadInv, WorkInv
  <2>4. ~m[a].spinning
    BY <2>1, NotSpinning
  <2> QED  BY <2>1, <2>3, <2>4 DEF Watches, Alert, AlertPlaces
<1> QED  BY <1>1, LoadInvariance, PTL

----------------------------------------------------------------------------
(* The scheduler's checks on itself *)

\* A P left behind in a system call has a thread that left it there, unless
\* the world stops.
LeftBy(a, p) == m[a].p = p /\ m[a].pc \in {"enter", "gcwait", "syscall", "recas"}

AwayInv ==
  ~sched.gcwaiting =>
    \A p \in Ps : status[p] = "Psyscall" => \E a \in Ms : LeftBy(a, p)

LEMMA AwayKept ==
  ASSUME AwayInv, sched'.gcwaiting = sched.gcwaiting,
         ~sched.gcwaiting =>
           \A p \in Ps : status'[p] = "Psyscall" =>
             \/ status[p] = "Psyscall" /\ \A x \in Ms : LeftBy(x, p) => LeftBy(x, p)'
             \/ \E x \in Ms : LeftBy(x, p)'
  PROVE  AwayInv'
<1> SUFFICES ASSUME ~sched.gcwaiting, NEW p \in Ps, status'[p] = "Psyscall"
             PROVE  \E a \in Ms : LeftBy(a, p)'
  BY DEF AwayInv
<1>1. CASE status[p] = "Psyscall" /\ \A x \in Ms : LeftBy(x, p) => LeftBy(x, p)'
  <2>1. PICK x \in Ms : LeftBy(x, p)
    BY <1>1 DEF AwayInv
  <2> QED  BY <1>1, <2>1
<1> QED  BY <1>1

\* The steps of a thread that has left no P behind, or takes it back.
LEMMA AwayOthers ==
  ASSUME IndInv, AwayInv, NEW a \in Threads,
         \/ Keep(a) \/ StopsP(a) \/ PutsIdle(a) \/ TakesIdle(a) \/ GetsP(a) \/ StartsIdle(a)
         \/ LeavesP(a) \/ GrabsP(a) \/ HandsOn(a)
  PROVE  AwayInv'
<1>1. \A x \in Ms : x \in Threads
  BY DEF Threads
<1> DEFINE Put == {"enter", "gcwait", "syscall", "recas"}
<1>2. ASSUME NEW b \in Threads, \A x \in Threads \ {a, b} : m'[x] = m[x],
             m[a].pc \notin Put, m[b].pc \notin Put
      PROVE  \A p \in Ps : \A x \in Ms : LeftBy(x, p) => LeftBy(x, p)'
  BY <1>1, <1>2 DEF LeftBy
<1>3. Put \cap (Running \cup Handing \cup Idling \cup {"woken", "monend", "parked", "none"}) = {}
  BY DEF Running, Handing, Idling, Without
<1> HIDE DEF Put
<1>4. CASE Keep(a)
  <2>1. m[a].pc \notin Put /\ \A x \in Threads \ {a} : m'[x] = m[x]
    BY <1>3, <1>4 DEF Keep, Only
  <2> QED  BY <1>2, <1>4, <2>1, AwayKept DEF Keep, Same
<1>5. CASE StopsP(a)
  BY <1>5 DEF StopsP, AwayInv
<1>6. CASE PutsIdle(a) \/ TakesIdle(a) \/ GetsP(a)
  <2>1. m[a].pc \notin Put /\ \A x \in Threads \ {a} : m'[x] = m[x]
    BY <1>3, <1>6 DEF PutsIdle, TakesIdle, GetsP, Only
  <2>2. sched'.gcwaiting = sched.gcwaiting
    BY <1>6 DEF PutsIdle, TakesIdle, GetsP, Same
  <2>3. \A p \in Ps : status'[p] = "Psyscall" => status[p] = "Psyscall"
    BY <1>6 DEF PutsIdle, TakesIdle, GetsP, Change
  <2> QED  BY <1>2, <2>1, <2>2, <2>3, AwayKept
<1>7. CASE StartsIdle(a) \/ HandsOn(a)
  <2>1. PICK b \in Ms : /\ m[b].pc \in {"parked", "none"}
                        /\ \A x \in Threads \ {a, b} : m'[x] = m[x]
    BY <1>7 DEF StartsIdle, HandsOn
  <2>2. m[a].pc \notin Put /\ m[b].pc \notin Put /\ b \in Threads
    BY <1>1, <1>3, <1>7, <2>1 DEF StartsIdle, HandsOn
  <2>3. sched'.gcwaiting = sched.gcwaiting /\ status' = status
    BY <1>7 DEF StartsIdle, HandsOn, Same
  <2> QED  BY <1>2, <2>1, <2>2, <2>3, AwayKept
<1>8. CASE LeavesP(a)
  <2>1. m[a].pc \notin Put /\ \A x \in Threads \ {a} : m'[x] = m[x]
    BY <1>3, <1>8 DEF LeavesP, Only
  <2>2. a \in Ms
    BY <1>8 DEF LeavesP, Threads, IndInv, PlaceInv, Running, Handing
  <2>3. \A p \in Ps : \A x \in Ms : LeftBy(x, p) => LeftBy(x, p)'
    BY <1>2, <2>1
  <2>4. ASSUME NEW p \in Ps, status'[p] = "Psyscall"
        PROVE  status[p] = "Psyscall" \/ LeftBy(a, p)'
    BY <1>8, <2>4 DEF LeavesP, Change, LeftBy
  <2> QED  BY <1>8, <2>2, <2>3, <2>4, AwayKept DEF LeavesP, Same
<1>9. CASE GrabsP(a)
  <2>1. ASSUME NEW p \in Ps, status'[p] = "Psyscall"
        PROVE  p # m[a].p /\ status[p] = "Psyscall"
    BY <1>9, <2>1 DEF GrabsP, Change
  <2>2. \A p \in Ps : p # m[a].p => \A x \in Ms : LeftBy(x, p) => LeftBy(x, p)'
    BY <1>1, <1>9 DEF GrabsP, Only, LeftBy
  <2> QED  BY <1>9, <2>1, <2>2, AwayKept DEF GrabsP, Same
<1> QED  BY <1>4, <1>5, <1>6, <1>7, <1>8, <1>9

\* A thread looks at the P it left behind, and leaves it for good only if it is
\* gone or the world stops.
LEMMA AwayLooks ==
  ASSUME IndInv, AwayInv, NEW a \in Ms,
         EntersyscallLoad(a) \/ EntersyscallGcwait(a) \/ Exitsyscall(a) \/ ExitsyscallCas(a)
  PROVE  AwayInv'
<1>1. a \in Threads /\ TypeOK /\ \A x \in Ms : x \in Threads
  BY DEF Threads, IndInv
<1>2. ASSUME sched' = sched, status' = status, NEW l \in {"gcwait", "syscall", "recas"}, Goto(a, l)
      PROVE  AwayInv'
  <2>1. Only(a) /\ m'[a].pc = l /\ m'[a].p = m[a].p
    BY <1>1, <1>2, GotoFields
  <2>2. \A p \in Ps : \A x \in Ms : LeftBy(x, p) => LeftBy(x, p)'
    BY <1>1, <2>1 DEF LeftBy, Only
  <2> QED  BY <1>2, <2>2, AwayKept
<1>3. ASSUME sched' = sched, status' = status, NEW l, With(a, NoP, l),
             sched.gcwaiting \/ ~(m[a].p # NoP /\ status[m[a].p] = "Psyscall")
      PROVE  AwayInv'
  <2>1. Only(a)
    BY <1>1, <1>3, WithFields
  <2>2. NoP \notin Ps
    BY SizesAssumption DEF NoP, Ps
  <2>3. ASSUME ~sched.gcwaiting, NEW p \in Ps, status[p] = "Psyscall", NEW x \in Ms, LeftBy(x, p)
        PROVE  LeftBy(x, p)'
    <3>1. x # a
      BY <1>3, <2>2, <2>3 DEF LeftBy
    <3> QED  BY <1>1, <2>1, <2>3, <3>1 DEF LeftBy, Only
  <2> QED  BY <1>3, <2>3, AwayKept
<1>4. CASE EntersyscallLoad(a)
  BY <1>2, <1>4 DEF EntersyscallLoad
<1>5. CASE EntersyscallGcwait(a)
  <2>1. sched.stopwait > 0 => sched.gcwaiting
    BY DEF IndInv, WorldInv
  <2>2. CASE sched.stopwait > 0 /\ status[m[a].p] = "Psyscall"
    <3>1. sched.gcwaiting /\ sched'.gcwaiting = sched.gcwaiting
      BY <1>1, <1>5, <2>1, <2>2 DEF EntersyscallGcwait, StopP, TypeOK, SchedType
    <3> QED  BY <3>1 DEF AwayInv
  <2>3. CASE ~(sched.stopwait > 0 /\ status[m[a].p] = "Psyscall")
    BY <1>2, <1>5, <2>3 DEF EntersyscallGcwait
  <2> QED  BY <2>2, <2>3
<1>6. CASE Exitsyscall(a)
  <2>1. sched.stopwait # 0 => sched.gcwaiting
    BY DEF IndInv, WorldInv
  <2> QED  BY <1>2, <1>3, <1>6, <2>1 DEF Exitsyscall
<1>7. CASE ExitsyscallCas(a)
  <2>1. CASE m[a].p # NoP /\ status[m[a].p] = "Psyscall"
    <3>1. Goto(a, "run") /\ sched' = sched /\ status' = [status EXCEPT ![m[a].p] = "Prunning"]
      BY <1>7, <2>1 DEF ExitsyscallCas
    <3>2. Only(a)
      BY <1>1, <3>1, GotoFields
    <3>3. m[a].p \in Ps
      BY <1>1, <2>1 DEF TypeOK, ThreadType
    <3>4. \A p \in Ps : status'[p] = "Psyscall" => status[p] = "Psyscall" /\ p # m[a].p
      BY <1>1, <3>1, <3>3 DEF TypeOK
    <3>5. \A p \in Ps : p # m[a].p => \A x \in Ms : LeftBy(x, p) => LeftBy(x, p)'
      BY <1>1, <3>2 DEF Only, LeftBy
    <3> QED  BY <3>1, <3>4, <3>5, AwayKept
  <2>2. CASE ~(m[a].p # NoP /\ status[m[a].p] = "Psyscall")
    BY <1>3, <1>7, <2>2 DEF ExitsyscallCas
  <2> QED  BY <2>1, <2>2
<1> QED  BY <1>4, <1>5, <1>6, <1>7

LEMMA NextAway == IndInv /\ AwayInv /\ Next => AwayInv'
<1> SUFFICES ASSUME IndInv, AwayInv, Next PROVE AwayInv'
  OBVIOUS
<1>1. ASSUME NEW a \in Ms,
             \/ Schedule(a) \/ Findrunnable(a) \/ FindBusy(a) \/ FindSpin(a)
             \/ FindSteal(a) \/ FindStop(a) \/ FindUnspin(a) \/ FindRecheck(a)
             \/ FindPoll(a) \/ FindPolled(a) \/ stopm(a)
      PROVE  AwayInv'
  <2>1. Keep(a) \/ StopsP(a) \/ PutsIdle(a)
    BY <1>1, FindEffect DEF IndInv
  <2> QED  BY <2>1, AwayOthers DEF Threads
<1>2. ASSUME NEW a \in Ms,
             \/ Resetspinning(a) \/ ResetIdle(a) \/ ReadyIdle(a) \/ WakepCas(a)
             \/ WakepStart(a) \/ Ready(a) \/ Park(a) \/ Gosched(a)
      PROVE  AwayInv'
  <2>1. Keep(a) \/ StartsIdle(a)
    BY <1>2, WakeEffect DEF IndInv
  <2> QED  BY <2>1, AwayOthers DEF Threads
<1>3. ASSUME NEW a \in Ms, Acquirep(a) PROVE AwayInv'
  <2>1. GetsP(a)
    BY <1>3, AcquireEffect DEF IndInv
  <2> QED  BY <2>1, AwayOthers DEF Threads
<1>4. ASSUME NEW a \in Ms,
             \/ Entersyscall(a) \/ Entersyscallblock(a) \/ ExitsyscallPidle(a) \/ Exitsyscall0(a)
             \/ FindGrab(a)
      PROVE  AwayInv'
  <2>1. m[a].pc \notin Away \cup {"mon"}
    BY <1>4 DEF Entersyscall, Entersyscallblock, ExitsyscallPidle, Exitsyscall0, FindGrab, At, Away
  <2>2. LeavesP(a) \/ Looks(a) \/ StopsP(a) \/ GrabsP(a) \/ TakesIdle(a) \/ Keep(a)
    BY <1>4, SyscallEffect DEF IndInv
  <2> QED  BY <2>1, <2>2, AwayOthers DEF Threads, Looks
<1>5. ASSUME NEW a \in Threads, Handoff(a) PROVE AwayInv'
  <2>1. Keep(a) \/ StopsP(a) \/ PutsIdle(a) \/ HandsOn(a)
    BY <1>5, HandoffEffect DEF IndInv
  <2> QED  BY <2>1, AwayOthers
<1>6. CASE Retake(Sysmon) \/ RetakeCas(Sysmon) \/ RetakeEnd(Sysmon)
  <2>1. Looks(Sysmon) \/ GrabsP(Sysmon) \/ Keep(Sysmon)
    BY <1>6, SysmonEffect DEF IndInv
  <2>2. CASE Looks(Sysmon)
    <3>1. \A x \in Ms : m'[x] = m[x]
      BY <2>2, SizesAssumption DEF Looks, Only, Threads
    <3>2. \A p \in Ps : \A x \in Ms : LeftBy(x, p) => LeftBy(x, p)'
      BY <3>1 DEF LeftBy
    <3> QED  BY <2>2, <3>2, AwayKept DEF Looks, Same
  <2> QED  BY <2>1, <2>2, AwayOthers DEF Threads
<1>7. ASSUME NEW a \in Ms,
             Stoptheworld(a) \/ StopCas(a) \/ StopIdle(a) \/ StopWait(a) \/ StopCheck(a)
      PROVE  AwayInv'
  <2>1. sched'.gcwaiting
    <3>1. CASE Stoptheworld(a)
      BY <3>1 DEF Stoptheworld, IndInv, TypeOK, SchedType
    <3>2. CASE StopCas(a) \/ StopIdle(a) \/ StopWait(a) \/ StopCheck(a)
      <4>1. sched.gcwaiting
        BY <3>2 DEF StopCas, StopIdle, StopWait, StopCheck, At, Stopping, IndInv, WorldInv
      <4>2. sched'.gcwaiting = sched.gcwaiting
        BY <3>2 DEF StopCas, StopIdle, StopWait, StopCheck, IndInv, TypeOK, SchedType
      <4> QED  BY <4>1, <4>2
    <3> QED  BY <1>7, <3>1, <3>2
  <2> QED  BY <2>1 DEF AwayInv
<1>8. ASSUME NEW a \in Ms, NEW new \in 1..NP, Starttheworld(a, new) PROVE AwayInv'
  <2>1. PICK work, next : Started(a, new, work, next)
    BY <1>8, StartEffect DEF IndInv
  <2>2. \A p \in Ps : status'[p] # "Psyscall"
    <3>1. status' = [p \in Ps |-> CASE p = 0 -> "Prunning" [] p \in 1..new-1 -> "Pidle"
                                    [] OTHER -> "Pdead"]
      BY <2>1, Zenon DEF Started
    <3> QED  BY <3>1
  <2> QED  BY <2>2 DEF AwayInv
<1>9. ASSUME NEW a \in Ms, MNext(a) PROVE AwayInv'
  BY <1>1, <1>2, <1>3, <1>4, <1>7, <1>8, <1>9, AwayLooks DEF MNext
<1> QED  BY <1>5, <1>6, <1>9 DEF Next

\* The note is woken once: by whoever stops the last P, while stoptheworld
\* waits for it.
NoteInv ==
  /\ sched.stopnote => sched.stopwait = 0 /\ \E a \in Ms : m[a].pc = "stopwait"
  /\ \A a \in Ms : m[a].pc \in {"stopcheck", "stopped"} => sched.stopwait = 0

\* Sysmon counts as running from retake's first step to its last.
LockedInv == sched.nmidlelocked = IF m[Sysmon].pc = "mon" THEN 0 ELSE -1

\* What the steps that neither stop a P nor the world leave alone.
Aside ==
  /\ sched'.stopnote = sched.stopnote /\ sched'.stopwait = sched.stopwait
  /\ sched'.nmidlelocked = sched.nmidlelocked

LEMMA AsideMs ==
  ASSUME IndInv, NEW a \in Ms,
         \/ FindBusy(a) \/ FindSpin(a) \/ FindSteal(a) \/ FindStop(a) \/ FindUnspin(a)
         \/ FindRecheck(a) \/ FindGrab(a) \/ FindPoll(a) \/ FindPolled(a) \/ stopm(a)
         \/ Acquirep(a) \/ Resetspinning(a) \/ ResetIdle(a) \/ ReadyIdle(a) \/ WakepCas(a)
         \/ WakepStart(a) \/ Ready(a) \/ Park(a) \/ Gosched(a) \/ Entersyscall(a)
         \/ EntersyscallLoad(a) \/ Entersyscallblock(a) \/ Exitsyscall(a) \/ ExitsyscallCas(a)
         \/ ExitsyscallPidle(a) \/ Exitsyscall0(a)
  PROVE  Aside
<1>1. sched' = sched => Aside
  BY DEF Aside
<1>2. TypeOK
  BY DEF IndInv
<1>3. ASSUME NEW p, sched' = pidleget(p) PROVE Aside
  <2> DEFINE S == sched.pidle \ {p}
             H == sched.handed \ {p}
  <2>1. sched' = [sched EXCEPT !.pidle = S, !.handed = H]
    BY <1>2, <1>3 DEF pidleget, TypeOK, SchedType
  <2> HIDE DEF S, H
  <2> QED  BY <1>2, <2>1 DEF TypeOK, SchedType, Aside
<1>4. ASSUME NEW max, globrunqget(a, max) PROVE Aside
  <2>1. PICK n : sched' = [sched EXCEPT !.runqsize = @ - n]
    BY <1>4 DEF globrunqget
  <2> QED  BY <1>2, <2>1 DEF TypeOK, SchedType, Aside
<1>5. CASE FindBusy(a) \/ FindSteal(a) \/ FindRecheck(a) \/ Acquirep(a)
           \/ ResetIdle(a) \/ ReadyIdle(a) \/ Park(a) \/ Entersyscall(a)
           \/ EntersyscallLoad(a) \/ Entersyscallblock(a) \/ Exitsyscall(a) \/ ExitsyscallCas(a)
  BY <1>1, <1>5, Zenon DEF FindBusy, FindSteal, FindRecheck, Acquirep, ResetIdle, ReadyIdle,
           Park, Entersyscall, EntersyscallLoad, Entersyscallblock, Exitsyscall,
           ExitsyscallCas
<1>6. CASE FindSpin(a) \/ FindUnspin(a) \/ FindPoll(a) \/ FindPolled(a)
  BY <1>2, <1>6 DEF FindSpin, FindUnspin, FindPoll, FindPolled, TypeOK, SchedType, Aside
<1>7. CASE FindStop(a)
  BY <1>1, <1>2, <1>4, <1>7 DEF FindStop, TypeOK, SchedType, Aside
<1>8. CASE FindGrab(a) \/ ExitsyscallPidle(a)
  BY <1>1, <1>3, <1>8 DEF FindGrab, ExitsyscallPidle, TakeIdle
<1>9. CASE Resetspinning(a) \/ stopm(a)
  <2>1. PICK n : sched' = [sched EXCEPT !.nmspinning = n]
    BY <1>9 DEF Resetspinning, stopm
  <2> QED  BY <1>2, <2>1 DEF TypeOK, SchedType, Aside
<1>10. CASE WakepCas(a) \/ Gosched(a)
  BY <1>1, <1>2, <1>10 DEF WakepCas, Gosched, TypeOK, SchedType, Aside
<1>11. CASE WakepStart(a)
  BY <1>2, <1>3, <1>11 DEF WakepStart, TypeOK, SchedType, Aside
<1>12. CASE Exitsyscall0(a)
  BY <1>1, <1>2, <1>3, <1>12 DEF Exitsyscall0, TakeIdle, TypeOK, SchedType, Aside
<1>13. CASE Ready(a)
  <2>1. CASE runq[m[a].p] < Size
    BY <1>1, <1>13, <2>1 DEF Ready
  <2>2. CASE ~(runq[m[a].p] < Size)
    <3>1. PICK n : sched' = [sched EXCEPT !.runqsize = n]
      BY <1>13, <2>2 DEF Ready
    <3> QED  BY <1>2, <3>1 DEF TypeOK, SchedType, Aside
  <2> QED  BY <2>1, <2>2
<1> QED  BY <1>5, <1>6, <1>7, <1>8, <1>9, <1>10, <1>11, <1>12, <1>13

\* A P stops, and the note is woken if it was the last.
Ends ==
  /\ sched.gcwaiting /\ sched.lock = NoM /\ Live # {}
  /\ sched'.stopwait = sched.stopwait - 1
  /\ sched'.stopnote <=> (sched.stopnote \/ sched.stopwait = 1)
  /\ sched'.nmidlelocked = sched.nmidlelocked

LEMMA StopPEnds ==
  ASSUME IndInv, NEW p \in Ps, NEW u \in BOOLEAN, StopP(p, u), sched.gcwaiting,
         sched.lock = NoM, status[p] \notin {"Pgcstop", "Pdead"}
  PROVE  Ends
<1> DEFINE note == sched.stopnote \/ sched.stopwait = 1
           n == IF u THEN sched.nmspinning - 1 ELSE sched.nmspinning
<1>1. sched' = [sched EXCEPT !.stopwait = @ - 1, !.stopnote = note, !.nmspinning = n]
  BY DEF StopP
<1>2. note \in BOOLEAN /\ sched.stopnote \in BOOLEAN /\ TypeOK
  BY DEF IndInv, TypeOK, SchedType
<1> HIDE DEF note, n
<1>3. /\ sched'.stopwait = sched.stopwait - 1 /\ sched'.stopnote = note
      /\ sched'.nmidlelocked = sched.nmidlelocked
  BY <1>1, <1>2 DEF TypeOK, SchedType
<1>4. Live # {}
  BY DEF Live
<1> QED  BY <1>2, <1>3, <1>4 DEF Ends, note

\* The steps that may stop a P.
LEMMA AsideOrEnds ==
  ASSUME IndInv, NEW a \in Threads,
         \/ a \in Ms /\ (Schedule(a) \/ Findrunnable(a) \/ EntersyscallGcwait(a))
         \/ Handoff(a)
  PROVE  Aside \/ Ends
<1>1. sched' = sched => Aside
  BY DEF Aside
<1>2. TypeOK
  BY DEF IndInv
<1>3. ASSUME NEW max, globrunqget(a, max) PROVE Aside
  <2>1. PICK n : sched' = [sched EXCEPT !.runqsize = @ - n]
    BY <1>3 DEF globrunqget
  <2> QED  BY <1>2, <2>1 DEF TypeOK, SchedType, Aside
<1>4. ASSUME NEW l, gcstopm(a, l), m[a].pc \in {"schedule", "find"} PROVE Ends
  <2>1. m[a].p \in Ps /\ status[m[a].p] = "Prunning" /\ m[a].spinning \in BOOLEAN
    BY <1>4 DEF IndInv, PlaceInv, Placed, Running, TypeOK, ThreadType
  <2> QED  BY <1>4, <2>1, StopPEnds DEF gcstopm, Locked
<1>5. CASE Schedule(a) \/ Findrunnable(a)
  BY <1>1, <1>3, <1>4, <1>5 DEF Schedule, Findrunnable, At
<1>6. CASE a \in Ms /\ EntersyscallGcwait(a)
  <2>1. m[a].p \in Ps /\ (sched.stopwait > 0 => sched.gcwaiting)
    BY <1>6 DEF IndInv, PlaceInv, Placed, WorldInv, EntersyscallGcwait, At, Threads
  <2>2. CASE sched.stopwait > 0 /\ status[m[a].p] = "Psyscall"
    BY <1>6, <2>1, <2>2, StopPEnds DEF EntersyscallGcwait, Locked
  <2> QED  BY <1>1, <1>6, <2>2 DEF EntersyscallGcwait
<1>7. CASE Handoff1(a) \/ Handoff2(a) \/ HandoffCas(a) \/ HandoffStart(a)
  BY <1>1, <1>2, <1>7 DEF Handoff1, Handoff2, HandoffCas, HandoffStart, TypeOK, SchedType, Aside
<1>8. CASE Handoff3(a)
  <2>1. m[a].p \in Ps /\ status[m[a].p] = "Pidle" /\ sched.lock = NoM
    BY <1>8 DEF Handoff3, At, Locked, IndInv, PlaceInv, Placed, Handing
  <2>2. CASE sched.gcwaiting /\ StopP(m[a].p, FALSE)
    BY <2>1, <2>2, StopPEnds
  <2> DEFINE H == IF \E p \in Ps : runq[p] > 0 THEN sched.handed \cup {m[a].p} ELSE sched.handed
  <2>3. CASE sched' = [sched EXCEPT !.pidle = @ \cup {m[a].p}, !.handed = H]
    <3> HIDE DEF H
    <3> QED  BY <1>2, <2>3 DEF TypeOK, SchedType, Aside
  <2> QED  BY <1>1, <1>8, <2>2, <2>3, Zenon DEF Handoff3
<1> QED  BY <1>5, <1>6, <1>7, <1>8 DEF Handoff

\* Nobody begins to stop the world, goes on with it or is done; sysmon does
\* not start or end its round.
Roles ==
  /\ \A x \in Ms : m[x].pc \in Stopping \/ m'[x].pc \in Stopping => m'[x].pc = m[x].pc
  /\ m'[Sysmon].pc = "mon" <=> m[Sysmon].pc = "mon"

LEMMA RolesKept ==
  ASSUME IndInv, NEW a \in Threads,
         \/ Keep(a) \/ StopsP(a) \/ PutsIdle(a) \/ TakesIdle(a) \/ GetsP(a) \/ StartsIdle(a)
         \/ LeavesP(a) \/ GrabsP(a) \/ HandsOn(a) \/ (a \in Ms /\ Looks(a)),
         m[a].pc \notin {"mon", "monend", "retake"}
  PROVE  Roles
<1> DEFINE Out == Running \cup Handing \cup Away \cup Idling \cup {"woken", "monend"}
<1>1. "mon" \notin Out /\ Out \cap Stopping = {}
  BY DEF Running, Handing, Away, Idling, Without, Stopping
<1>2. {"stopm", "syscall", "monend", "unspin", "recheck", "run", "enter", "hand1", "gcwait",
       "recas", "retake", "woken", "parked", "none"} \subseteq Out
  BY DEF Running, Handing, Away, Idling, Without
<1>3. \A x \in Ms : x \in Threads /\ x # Sysmon
  BY SizesAssumption DEF Threads
<1>4. Running \subseteq Out /\ Handing \subseteq Out /\ Idling \subseteq Out /\ Away \subseteq Out
  OBVIOUS
<1> HIDE DEF Out
<1>5. ASSUME NEW b \in Threads, \A x \in Threads \ {a, b} : m'[x] = m[x],
             m[a].pc \in Out, m'[a].pc \in Out, m[b].pc \in Out, m'[b].pc \in Out
      PROVE  Roles
  BY <1>1, <1>3, <1>5 DEF Roles, Threads
<1>6. CASE Keep(a) \/ StopsP(a) \/ PutsIdle(a) \/ TakesIdle(a) \/ GetsP(a) \/ LeavesP(a)
  <2>1. \A x \in Threads \ {a} : m'[x] = m[x]
    BY <1>6 DEF Keep, StopsP, PutsIdle, TakesIdle, GetsP, LeavesP, Only
  <2>2. m[a].pc \in Out /\ m'[a].pc \in Out
    <3>1. CASE Keep(a)
      BY <1>4, <3>1 DEF Keep
    <3>2. CASE StopsP(a) \/ PutsIdle(a)
      BY <1>2, <1>4, <3>2 DEF StopsP, PutsIdle
    <3>3. CASE TakesIdle(a) \/ GetsP(a) \/ LeavesP(a)
      BY <1>2, <1>4, <3>3 DEF TakesIdle, GetsP, LeavesP
    <3> QED  BY <1>6, <3>1, <3>2, <3>3
  <2> QED  BY <1>5, <2>1, <2>2
<1>7. CASE GrabsP(a) \/ (a \in Ms /\ Looks(a))
  <2>1. \A x \in Threads \ {a} : m'[x] = m[x]
    BY <1>7 DEF GrabsP, Looks, Only
  <2>2. m[a].pc \in Out /\ m'[a].pc \in Out
    <3>1. CASE GrabsP(a)
      BY <1>2, <3>1 DEF GrabsP
    <3>2. CASE a \in Ms /\ Looks(a)
      <4>1. m[a].pc \in Away
        BY <3>2 DEF Looks
      <4>2. m'[a].pc \notin {"mon", "monend"}
        BY <1>3, <3>2 DEF Looks, Role
      <4>3. m'[a].pc \in Idling \cup {"retake", "gcwait", "syscall", "recas"}
        BY <3>2, <4>2 DEF Looks, Idling
      <4> QED  BY <1>2, <1>4, <4>1, <4>3
    <3> QED  BY <1>7, <3>1, <3>2
  <2> QED  BY <1>5, <2>1, <2>2
<1>8. CASE StartsIdle(a) \/ HandsOn(a)
  <2>1. PICK b \in Ms : /\ m[b].pc \in {"parked", "none"} /\ m'[b].pc = "woken"
                        /\ \A x \in Threads \ {a, b} : m'[x] = m[x]
    BY <1>8 DEF StartsIdle, HandsOn
  <2>2. m[a].pc \in Out /\ m'[a].pc \in Out
    BY <1>2, <1>4, <1>8 DEF StartsIdle, HandsOn
  <2> QED  BY <1>2, <1>3, <1>5, <2>1, <2>2
<1> QED  BY <1>6, <1>7, <1>8

LEMMA NoteKept ==
  ASSUME NoteInv, LockedInv, Roles, Aside
  PROVE  NoteInv' /\ LockedInv'
<1>1. LockedInv'
  BY DEF LockedInv, Roles, Aside
<1>2. sched'.stopnote => sched'.stopwait = 0 /\ \E a \in Ms : m'[a].pc = "stopwait"
  BY DEF NoteInv, Roles, Aside, Stopping
<1>3. \A a \in Ms : m'[a].pc \in {"stopcheck", "stopped"} => sched'.stopwait = 0
  BY DEF NoteInv, Roles, Aside, Stopping
<1> QED  BY <1>1, <1>2, <1>3 DEF NoteInv

\* While a P is still to stop, stoptheworld waits, or still holds the lock, and
\* its note is not woken.
LEMMA NoteLive ==
  ASSUME IndInv, NoteInv, sched.gcwaiting, sched.lock = NoM, Live # {}
  PROVE  /\ sched.stopwait \in Nat \ {0} /\ ~sched.stopnote
         /\ \A a \in Ms : m[a].pc \notin {"stopcheck", "stopped"}
         /\ \E a \in Ms : m[a].pc = "stopwait"
<1>1. sched.stopwait = Cardinality(Live)
  BY DEF IndInv, WorldInv
<1>2. Cardinality(Live) \in Nat /\ Cardinality(Live) # 0
  BY LiveFinite, FS_CardinalityType, FS_EmptySet
<1>3. \A a \in Ms : m[a].pc \notin {"stopcheck", "stopped"}
  BY <1>1, <1>2 DEF NoteInv
<1>4. PICK a \in Ms : m[a].pc \in Stopping
  BY DEF IndInv, WorldInv
<1>5. m[a].pc \notin {"stopcas", "stopidle"}
  BY SizesAssumption DEF IndInv, WorldInv
<1> QED  BY <1>1, <1>2, <1>3, <1>4, <1>5 DEF NoteInv, Stopping

LEMMA NoteEnds ==
  ASSUME IndInv, NoteInv, LockedInv, Roles, Ends
  PROVE  NoteInv' /\ LockedInv'
<1>1. LockedInv'
  BY DEF LockedInv, Roles, Ends
<1>2. /\ sched.stopwait \in Nat \ {0} /\ ~sched.stopnote
      /\ \A a \in Ms : m[a].pc \notin {"stopcheck", "stopped"}
      /\ \E a \in Ms : m[a].pc = "stopwait"
  BY NoteLive DEF Ends
<1>3. \A a \in Ms : m'[a].pc \notin {"stopcheck", "stopped"}
  BY <1>2 DEF Roles, Stopping
<1>4. \E a \in Ms : m'[a].pc = "stopwait"
  BY <1>2 DEF Roles, Stopping
<1>5. sched'.stopnote => sched'.stopwait = 0
  BY <1>2 DEF Ends
<1> QED  BY <1>1, <1>3, <1>4, <1>5 DEF NoteInv

\* stoptheworld's own steps, up to the note.
LEMMA NoteStops ==
  ASSUME IndInv, IndInv', NoteInv, LockedInv, NEW a \in Ms,
         Stoptheworld(a) \/ StopCas(a) \/ StopIdle(a) \/ StopWait(a) \/ StopCheck(a)
  PROVE  NoteInv' /\ LockedInv'
<1>1. TypeOK /\ a \in Threads /\ a # Sysmon
  BY SizesAssumption DEF IndInv, Threads
<1>2. \A x \in Ms \ {a} : x \in Threads
  BY DEF Threads
<1>3. CASE Stoptheworld(a)
  <2>1. /\ sched'.stopnote = sched.stopnote /\ sched'.nmidlelocked = sched.nmidlelocked
        /\ Goto(a, "stopcas") /\ \A x \in Ms : m[x].pc \notin Stopping
    BY <1>1, <1>3 DEF Stoptheworld, TypeOK, SchedType
  <2>2. Only(a) /\ m'[a].pc = "stopcas"
    BY <1>1, <2>1, GotoFields
  <2>3. ~sched'.stopnote
    BY <2>1 DEF NoteInv, Stopping
  <2>4. \A x \in Ms : m'[x].pc \notin {"stopcheck", "stopped"}
    BY <1>2, <2>1, <2>2 DEF Only, Stopping
  <2>5. LockedInv'
    BY <1>1, <2>1, <2>2 DEF LockedInv, Only, Threads
  <2> QED  BY <2>3, <2>4, <2>5 DEF NoteInv
<1>4. CASE StopCas(a) \/ StopIdle(a) \/ StopWait(a) \/ StopCheck(a)
  <2>1. m[a].pc \in Stopping /\ \A x \in Ms \ {a} : m[x].pc \notin Stopping
    <3>1. m[a].pc \in Stopping
      BY <1>4 DEF StopCas, StopIdle, StopWait, StopCheck, At, Stopping
    <3> QED  BY <3>1 DEF IndInv, WorldInv
  <2>2. Only(a)
    <3>1. CASE StopCas(a)
      BY <1>1, <3>1 DEF StopCas, Only, TypeOK
    <3>2. CASE StopIdle(a) \/ StopWait(a) \/ StopCheck(a)
      <4>1. PICK l : Goto(a, l)
        BY <3>2 DEF StopIdle, StopWait, StopCheck
      <4> QED  BY <1>1, <4>1, GotoFields
    <3> QED  BY <1>4, <3>1, <3>2
  <2>3. \A x \in Ms \ {a} : m'[x].pc \notin Stopping
    BY <1>2, <2>1, <2>2 DEF Only
  <2>4. m'[Sysmon] = m[Sysmon]
    BY <1>1, <2>2 DEF Only, Threads
  <2>5. sched'.nmidlelocked = sched.nmidlelocked
    BY <1>1, <1>4 DEF StopCas, StopIdle, StopWait, StopCheck, TypeOK, SchedType
  <2>6. LockedInv'
    BY <2>4, <2>5 DEF LockedInv
  <2>7. ASSUME m'[a].pc \in {"stopcheck", "stopped"} => sched'.stopwait = 0,
               sched'.stopnote => FALSE
        PROVE  NoteInv'
    BY <2>3, <2>7 DEF NoteInv, Stopping
  <2>8. CASE StopCas(a)
    <3>1. m'[a].pc \in {"stopcas", "stopidle"}
      BY <1>1, <2>8 DEF StopCas, At, TypeOK, ThreadType
    <3>2. sched'.stopnote = sched.stopnote
      BY <1>1, <2>8 DEF StopCas, TypeOK, SchedType
    <3>3. ~sched.stopnote
      BY <2>1, <2>8 DEF StopCas, At, NoteInv, Stopping
    <3> QED  BY <2>6, <2>7, <3>1, <3>2, <3>3
  <2>9. CASE StopIdle(a)
    <3>1. ~sched'.stopnote
      <4>1. ~sched.stopnote
        BY <2>1, <2>9 DEF StopIdle, At, NoteInv, Stopping
      <4>2. sched'.stopnote = sched.stopnote
        BY <1>1, <2>9 DEF StopIdle, TypeOK, SchedType
      <4> QED  BY <4>1, <4>2
    <3>2. PICK n \in Nat : n = npidle
      BY <1>1, LiveFinite, FS_Subset, FS_CardinalityType DEF npidle, TypeOK, SchedType
    <3>3. sched'.stopwait = sched.stopwait - n /\ sched.stopwait \in Int
      BY <1>1, <2>9, <3>2 DEF StopIdle, TypeOK, SchedType
    <3>4. Goto(a, IF sched.stopwait > n THEN "stopwait" ELSE "stopcheck")
      BY <2>9, <3>2 DEF StopIdle
    <3>5. m'[a].pc = IF sched.stopwait > n THEN "stopwait" ELSE "stopcheck"
      BY <1>1, <3>4, GotoFields
    <3>6. sched'.stopwait >= 0
      <4>1. m'[a].pc \in Stopping
        BY <3>5 DEF Stopping
      <4>2. sched'.stopwait = Cardinality(Live')
        BY <4>1 DEF IndInv, WorldInv
      <4>3. IsFiniteSet(Live')
        <5>1. Live' \subseteq Ps
          BY DEF Live
        <5> QED  BY <5>1, LiveFinite, FS_Subset
      <4> QED  BY <4>2, <4>3, FS_CardinalityType
    <3> QED  BY <2>6, <2>7, <3>1, <3>3, <3>5, <3>6
  <2>10. CASE StopWait(a)
    <3>1. /\ sched.stopnote /\ ~sched'.stopnote
          /\ sched'.stopwait = sched.stopwait
      BY <1>1, <2>10 DEF StopWait, TypeOK, SchedType
    <3> QED  BY <2>6, <2>7, <3>1 DEF NoteInv
  <2>11. CASE StopCheck(a)
    <3>1. sched' = sched /\ sched.stopwait = 0 /\ ~sched.stopnote
      BY <2>1, <2>11 DEF StopCheck, At, NoteInv, Stopping
    <3> QED  BY <2>6, <2>7, <3>1
  <2> QED  BY <1>4, <2>8, <2>9, <2>10, <2>11
<1> QED  BY <1>3, <1>4

LEMMA NextNote == IndInv /\ NoteInv /\ LockedInv /\ Next => NoteInv' /\ LockedInv'
<1> SUFFICES ASSUME IndInv, NoteInv, LockedInv, Next PROVE NoteInv' /\ LockedInv'
  OBVIOUS
<1>1. IndInv' /\ TypeOK
  BY NextHolds DEF IndInv
<1>2. ASSUME Roles, Aside \/ Ends PROVE NoteInv' /\ LockedInv'
  BY <1>2, NoteKept, NoteEnds
<1>3. ASSUME NEW a \in Ms PROVE a \in Threads /\ m[a].pc \notin {"mon", "monend", "retake"}
  BY DEF Threads, IndInv, PlaceInv
<1>4. ASSUME NEW a \in Ms,
             \/ Schedule(a) \/ Findrunnable(a) \/ FindBusy(a) \/ FindSpin(a)
             \/ FindSteal(a) \/ FindStop(a) \/ FindUnspin(a) \/ FindRecheck(a)
             \/ FindPoll(a) \/ FindPolled(a) \/ stopm(a)
      PROVE  NoteInv' /\ LockedInv'
  <2>1. Keep(a) \/ StopsP(a) \/ PutsIdle(a)
    BY <1>4, FindEffect DEF IndInv
  <2>2. Roles
    BY <1>3, <2>1, RolesKept
  <2>3. Aside \/ Ends
    BY <1>3, <1>4, AsideMs, AsideOrEnds
  <2> QED  BY <1>2, <2>2, <2>3
<1>5. ASSUME NEW a \in Ms,
             \/ Resetspinning(a) \/ ResetIdle(a) \/ ReadyIdle(a) \/ WakepCas(a)
             \/ WakepStart(a) \/ Ready(a) \/ Park(a) \/ Gosched(a) \/ Acquirep(a)
      PROVE  NoteInv' /\ LockedInv'
  <2>1. Keep(a) \/ StartsIdle(a) \/ GetsP(a)
    BY <1>5, WakeEffect, AcquireEffect DEF IndInv
  <2>2. Roles
    BY <1>3, <2>1, RolesKept
  <2>3. Aside
    BY <1>5, AsideMs
  <2> QED  BY <1>2, <2>2, <2>3
<1>6. ASSUME NEW a \in Ms,
             \/ Entersyscall(a) \/ EntersyscallLoad(a) \/ EntersyscallGcwait(a)
             \/ Entersyscallblock(a) \/ Exitsyscall(a) \/ ExitsyscallCas(a)
             \/ ExitsyscallPidle(a) \/ Exitsyscall0(a) \/ FindGrab(a)
      PROVE  NoteInv' /\ LockedInv'
  <2>1. LeavesP(a) \/ Looks(a) \/ StopsP(a) \/ GrabsP(a) \/ TakesIdle(a) \/ Keep(a)
    BY <1>6, SyscallEffect DEF IndInv
  <2>2. Roles
    BY <1>3, <2>1, RolesKept
  <2>3. Aside \/ Ends
    BY <1>3, <1>6, AsideMs, AsideOrEnds
  <2> QED  BY <1>2, <2>2, <2>3
<1>7. ASSUME NEW a \in Threads, Handoff(a) PROVE NoteInv' /\ LockedInv'
  <2>1. Keep(a) \/ StopsP(a) \/ PutsIdle(a) \/ HandsOn(a)
    BY <1>7, HandoffEffect DEF IndInv
  <2>2. m[a].pc \notin {"mon", "monend", "retake"}
    BY <1>7 DEF Handoff, Handoff1, Handoff2, HandoffCas, HandoffStart, Handoff3, At
  <2>3. Roles
    BY <2>1, <2>2, RolesKept
  <2>4. Aside \/ Ends
    BY <1>7, AsideOrEnds
  <2> QED  BY <1>2, <2>3, <2>4
<1>8. CASE Retake(Sysmon) \/ RetakeCas(Sysmon) \/ RetakeEnd(Sysmon)
  <2>1. Sysmon \in Threads /\ Sysmon \notin Ms
    BY SizesAssumption DEF Threads
  <2>2. Only(Sysmon)
    <3>1. Looks(Sysmon) \/ GrabsP(Sysmon) \/ Keep(Sysmon)
      BY <1>8, SysmonEffect DEF IndInv
    <3> QED  BY <3>1 DEF Looks, GrabsP, Keep
  <2>3. \A x \in Ms : m'[x] = m[x]
    BY <2>1, <2>2 DEF Only, Threads
  <2>4. sched'.stopnote = sched.stopnote /\ sched'.stopwait = sched.stopwait
    BY <1>1, <1>8 DEF Retake, RetakeCas, RetakeEnd, incidlelocked, TypeOK, SchedType
  <2>5. NoteInv'
    BY <2>3, <2>4 DEF NoteInv
  <2>6. CASE Retake(Sysmon)
    <3>1. PICK p : With(Sysmon, p, "retake")
      BY <2>6 DEF Retake
    <3>2. m[Sysmon].pc = "mon" /\ m'[Sysmon].pc = "retake"
      BY <1>1, <2>1, <2>6, <3>1, WithFields DEF Retake, At
    <3>3. sched'.nmidlelocked = sched.nmidlelocked - 1
      BY <1>1, <2>6 DEF Retake, incidlelocked, TypeOK, SchedType
    <3> QED  BY <2>5, <3>2, <3>3 DEF LockedInv
  <2>7. CASE RetakeCas(Sysmon)
    <3>1. m[Sysmon].pc = "retake" /\ m'[Sysmon].pc \in {"hand1", "monend"}
      BY <1>1, <2>1, <2>7, WithFields, GotoFields DEF RetakeCas, At
    <3>2. sched' = sched
      BY <2>7 DEF RetakeCas
    <3> QED  BY <2>5, <3>1, <3>2 DEF LockedInv
  <2>8. CASE RetakeEnd(Sysmon)
    <3>1. m[Sysmon].pc = "monend" /\ m'[Sysmon].pc = "mon"
      BY <1>1, <2>1, <2>8, GotoFields DEF RetakeEnd, At
    <3>2. sched'.nmidlelocked = sched.nmidlelocked + 1
      BY <1>1, <2>8 DEF RetakeEnd, incidlelocked, TypeOK, SchedType
    <3> QED  BY <2>5, <3>1, <3>2 DEF LockedInv
  <2> QED  BY <1>8, <2>6, <2>7, <2>8
<1>9. ASSUME NEW a \in Ms, NEW new \in 1..NP, Starttheworld(a, new)
      PROVE  NoteInv' /\ LockedInv'
  <2>1. PICK work, next : Started(a, new, work, next)
    BY <1>9, StartEffect DEF IndInv
  <2>2. /\ sched'.stopnote = sched.stopnote /\ sched'.stopwait = sched.stopwait
        /\ sched'.nmidlelocked = sched.nmidlelocked
    <3> DEFINE I == 1..new-1 \ work
    <3>1. PICK rest \in Int :
            sched' = [sched EXCEPT !.runqsize = rest, !.gcwaiting = FALSE, !.pidle = I,
                                   !.gomaxprocs = new]
      BY <2>1, Zenon DEF Started
    <3> HIDE DEF I
    <3> QED  BY <1>1, <3>1 DEF TypeOK, SchedType
  <2>3. /\ m[a].pc = "stopped" /\ m'[a].pc = "run"
        /\ \A b \in Range(next) : b \in Ms /\ m'[b].pc = "woken"
        /\ \A b \in Threads \ {a} : b \notin Range(next) => m'[b] = m[b]
    BY <1>1, <2>1, StartThreads
  <2>4. \A x \in Ms \ {a} : m[x].pc \notin Stopping /\ x \in Threads
    BY <2>3 DEF IndInv, WorldInv, Stopping, Threads
  <2>5. \A x \in Ms : m'[x].pc \notin Stopping
    BY <2>3, <2>4 DEF Stopping
  <2>6. ~sched.stopnote
    BY <2>3, <2>4 DEF NoteInv, Stopping
  <2>7. m'[Sysmon] = m[Sysmon]
    BY <2>3, SizesAssumption DEF Threads
  <2>8. NoteInv'
    BY <2>2, <2>5, <2>6 DEF NoteInv, Stopping
  <2> QED  BY <2>2, <2>7, <2>8 DEF LockedInv
<1>10. ASSUME NEW a \in Ms, MNext(a) PROVE NoteInv' /\ LockedInv'
  BY <1>1, <1>4, <1>5, <1>6, <1>9, <1>10, NoteStops DEF MNext
<1> QED  BY <1>7, <1>8, <1>10 DEF Next

LEMMA InitChecks == Init => AwayInv /\ NoteInv /\ LockedInv
<1> SUFFICES ASSUME Init PROVE AwayInv /\ NoteInv /\ LockedInv
  OBVIOUS
<1>1. PICK m0 \in Ms :
        m = [a \in Threads |-> [pc |-> CASE a = m0 -> "run" [] a = Sysmon -> "mon"
                                         [] OTHER -> "none",
                                p |-> IF a = m0 THEN 0 ELSE NoP,
                                spinning |-> FALSE, ret |-> "schedule", i |-> 0]]
  BY DEF Init
<1>2. \A a \in Threads :
        m[a].pc = CASE a = m0 -> "run" [] a = Sysmon -> "mon" [] OTHER -> "none"
  BY <1>1
<1>3. m[Sysmon].pc = "mon"
  BY <1>2, SizesAssumption DEF Threads
<1>4. \A a \in Ms : m[a].pc \notin {"stopcheck", "stopped"}
  BY <1>2 DEF Threads
<1>5. sched.stopnote = FALSE /\ sched.nmidlelocked = 0
  BY DEF Init
<1>6. \A p \in Ps : status[p] # "Psyscall"
  BY DEF Init
<1> QED  BY <1>3, <1>4, <1>5, <1>6 DEF AwayInv, NoteInv, LockedInv

----------------------------------------------------------------------------
(* No check fails *)

\* All Ms are parked, or not there, and sysmon does not count as running.
Asleep ==
  (\A a \in Ms : m[a].pc \in {"none", "parked"}) /\ m[Sysmon].pc = "mon"

\* Then no goroutine can run: nobody holds one, and the queues are empty.
LEMMA AsleepIdle == IndInv /\ LoadInv /\ AwayInv /\ Asleep => waiting = NG
<1> SUFFICES ASSUME IndInv, LoadInv, AwayInv, Asleep PROVE waiting = NG
  OBVIOUS
<1>1. ~sched.gcwaiting
  BY DEF Asleep, IndInv, WorldInv, Stopping
<1>2. \A p \in Ps : status[p] # "Psyscall"
  BY <1>1 DEF Asleep, AwayInv, LeftBy
<1>3. \A a \in Threads : m[a].pc \in {"none", "parked", "syscall", "mon"}
  BY DEF Asleep, Threads
<1>4. ~(sched.runqsize > 0) /\ \A p \in Ps : ~(runq[p] > 0)
  BY <1>2, <1>3, NothingStranded DEF NoStranded
<1>5. runq \in [Ps -> Nat] /\ sched.runqsize = 0 /\ \A p \in Ps : runq[p] = 0
  BY <1>4 DEF LoadInv, QueueType
<1>6. Cardinality(Queued(runq)) = 0
  BY <1>5, QueuedNone
<1>7. Cardinality({a \in Ms : Holds(a)}) = 0
  <2>1. {a \in Ms : Holds(a)} = {}
    BY DEF Asleep, Holds, Holding, Handing, Stopping
  <2> QED  BY <2>1, FS_EmptySet
<1>8. waiting \in Nat
  BY DEF LoadInv, QueueType
<1> QED  BY <1>5, <1>6, <1>7, <1>8, SizesAssumption DEF LoadInv, CountInv, Total

LEMMA AsleepNext == (IndInv /\ LoadInv /\ AwayInv /\ Asleep)' => (waiting = NG)'
BY AsleepIdle, PTL

\* checkdead's count is right, and it reports a deadlock only then.
LEMMA CheckdeadHolds ==
  ASSUME IndInv', LoadInv', AwayInv', LockedInv', waiting' = waiting, checkdead,
         fate # "throw"
  PROVE  fate' # "throw"
<1> DEFINE S == {a \in Ms : m'[a].pc # "none"}
           T == {a \in Ms : m'[a].pc = "parked"}
           run == Cardinality(S) - Cardinality(T) - sched'.nmidlelocked
<1>1. fate' = IF run > 0 THEN fate
              ELSE IF run < 0 \/ waiting < NG THEN "throw" ELSE "deadlock"
  BY DEF checkdead
<1>2. T \subseteq S /\ S \subseteq Ms
  OBVIOUS
<1>3. IsFiniteSet(S) /\ IsFiniteSet(T)
  BY <1>2, ThreadsFinite, FS_Subset
<1>4. sched'.nmidlelocked = IF m'[Sysmon].pc = "mon" THEN 0 ELSE -1
  BY DEF LockedInv
<1>5. S = T /\ m'[Sysmon].pc = "mon" => Asleep'
  BY DEF Asleep
<1>6. Asleep' => waiting = NG
  BY AsleepNext
<1> HIDE DEF S, T
<1>7. PICK s, t \in Nat : s = Cardinality(S) /\ t = Cardinality(T) /\ t <= s
  BY <1>2, <1>3, FS_CardinalityType, FS_Subset
<1>8. s = t => S = T
  BY <1>2, <1>3, <1>7, FS_Subset
<1>9. run = s - t - sched'.nmidlelocked
  BY <1>7
<1> HIDE DEF run
<1>10. ~(run < 0) /\ (run > 0 \/ (s = t /\ m'[Sysmon].pc = "mon"))
  BY <1>4, <1>7, <1>9
<1>11. run > 0 \/ waiting = NG
  BY <1>5, <1>6, <1>8, <1>10
<1> QED  BY <1>1, <1>10, <1>11, SizesAssumption
CheckInv == IndInv /\ LoadInv /\ AwayInv /\ NoteInv /\ LockedInv

\* The note is not woken when the last P stops.
LEMMA StopPHolds ==
  ASSUME IndInv, NoteInv, NEW p \in Ps,
         sched.gcwaiting, sched.lock = NoM, status[p] \notin {"Pgcstop", "Pdead"}
  PROVE  StopnoteClear
<1>1. Live # {}
  BY DEF Live
<1>2. ~sched.stopnote
  BY <1>1, NoteLive
<1> QED  BY <1>2 DEF StopnoteClear

LEMMA CheckPasses ==
  ASSUME NEW ok, ok, ThrowUnless(ok), fate # "throw"
  PROVE  fate' # "throw"
BY DEF ThrowUnless

\* An M that gives up its P runs on it; one that takes a P has none.
LEMMA PChecks ==
  ASSUME IndInv, NEW a \in Ms
  PROVE  /\ m[a].pc \in Running => CanRelease(a)
         /\ m[a].pc \in Idling => \A p \in sched.pidle : CanAcquire(a, p)
<1>1. a \in Threads /\ NoP \notin Ps
  BY SizesAssumption DEF Threads, NoP, Ps
<1>2. ASSUME m[a].pc \in Running PROVE CanRelease(a)
  BY <1>1, <1>2 DEF IndInv, PlaceInv, Placed, CanRelease
<1>3. ASSUME m[a].pc \in Idling, NEW p \in sched.pidle PROVE CanAcquire(a, p)
  BY <1>1, <1>3 DEF IndInv, PlaceInv, Placed, Idling, CanAcquire, OwnerInv, TypeOK, SchedType
<1> QED  BY <1>2, <1>3

\* A parked M neither spins nor has a P.
LEMMA StartmHolds ==
  ASSUME IndInv, LoadInv, fate # "throw", NEW a, NEW p, NEW s, NEW l, startm(a, p, s, l)
  PROVE  fate' # "throw"
<1>1. PICK b \in Ms : ThrowUnless(m[b].pc = "parked" => ~m[b].spinning /\ m[b].p = NoP)
  BY DEF startm
<1>2. m[b].pc = "parked" => ~m[b].spinning /\ m[b].p = NoP
  BY NotSpinning DEF Threads, IndInv, PlaceInv, Placed, Without, At
<1> QED  BY <1>1, <1>2, CheckPasses

LEMMA NextFate == CheckInv /\ CheckInv' /\ fate # "throw" /\ Next => fate' # "throw"
<1> SUFFICES ASSUME CheckInv, CheckInv', fate # "throw", Next PROVE fate' # "throw"
  OBVIOUS
<1>1. IndInv /\ LoadInv /\ NoteInv /\ IndInv' /\ LoadInv' /\ AwayInv' /\ LockedInv'
  BY DEF CheckInv
<1>2. \A a \in Ms : a \in Threads
  BY DEF Threads
<1>3. ASSUME NEW a \in Ms, NEW l, gcstopm(a, l), m[a].pc \in {"schedule", "find"}
      PROVE  fate' # "throw"
  <2>1. m[a].p \in Ps /\ status[m[a].p] = "Prunning"
    BY <1>1, <1>2, <1>3 DEF IndInv, PlaceInv, Placed, Running
  <2>2. CanRelease(a) /\ StopnoteClear
    BY <1>1, <1>3, <2>1, StopPHolds, PChecks DEF gcstopm, Locked, Running
  <2> QED  BY <1>3, <2>2, CheckPasses DEF gcstopm
<1>4. ASSUME NEW a \in Ms, Schedule(a) PROVE fate' # "throw"
  <2>1. m[a].pc = "schedule" /\ EmptyAt(a)
    BY <1>1, <1>2, <1>4 DEF Schedule, At, LoadInv, EmptyInv
  <2>2. ASSUME runq[m[a].p] > 0 PROVE ~m[a].spinning
    BY <2>1, <2>2 DEF EmptyAt
  <2> QED  BY <1>3, <1>4, <2>1, <2>2, Zenon DEF Schedule, globrunqget, ThrowUnless
<1>5. ASSUME NEW a \in Ms, Findrunnable(a) PROVE fate' # "throw"
  BY <1>3, <1>5, Zenon DEF Findrunnable, globrunqget, At
<1>6. ASSUME NEW a \in Ms,
             \/ FindBusy(a) \/ FindSpin(a) \/ FindSteal(a) \/ FindStop(a) \/ FindUnspin(a)
             \/ FindRecheck(a) \/ FindGrab(a) \/ FindPoll(a) \/ FindPolled(a)
             \/ ResetIdle(a) \/ ReadyIdle(a) \/ WakepCas(a) \/ WakepStart(a) \/ Ready(a)
             \/ Park(a) \/ Gosched(a) \/ Entersyscall(a) \/ EntersyscallLoad(a)
             \/ Entersyscallblock(a) \/ Exitsyscall(a) \/ ExitsyscallCas(a)
             \/ ExitsyscallPidle(a) \/ Exitsyscall0(a)
             \/ Stoptheworld(a) \/ StopCas(a) \/ StopIdle(a) \/ StopWait(a)
             \/ \E new \in 1..NP : Starttheworld(a, new)
      PROVE  fate' # "throw"
  <2>1. CASE FindStop(a)
    <3>1. CanRelease(a)
      BY <1>1, <2>1, PChecks DEF FindStop, At, Running
    <3> QED  BY <2>1, <3>1, CheckPasses, Zenon DEF FindStop, globrunqget
  <2>2. ASSUME NEW new \in 1..NP, Starttheworld(a, new) PROVE fate' # "throw"
    <3>1. \A b \in Ms : m[b].pc = "parked" => m[b].p = NoP
      BY <1>1, <1>2 DEF IndInv, PlaceInv, Placed, Without
    <3>2. PICK next : ThrowUnless(\A b \in Range(next) \cap {c \in Ms : m[c].pc = "parked"} :
                                    m[b].p = NoP)
      BY <2>2, Zenon DEF Starttheworld
    <3> QED  BY <3>1, <3>2, CheckPasses
  <2>3. CASE \/ FindBusy(a) \/ FindSpin(a) \/ FindSteal(a) \/ FindUnspin(a)
             \/ FindRecheck(a) \/ FindPolled(a)
             \/ ResetIdle(a) \/ ReadyIdle(a) \/ WakepCas(a) \/ Ready(a)
             \/ Park(a) \/ Gosched(a)
    BY <2>3, Zenon DEF FindBusy, FindSpin, FindSteal, FindUnspin, FindRecheck,
       FindPolled, ResetIdle, ReadyIdle, WakepCas, Ready, Park, Gosched
  <2>4. CASE \/ Entersyscall(a) \/ EntersyscallLoad(a) \/ Exitsyscall(a) \/ ExitsyscallCas(a)
             \/ Stoptheworld(a) \/ StopCas(a) \/ StopIdle(a) \/ StopWait(a)
    BY <2>4, Zenon DEF Entersyscall, EntersyscallLoad, Exitsyscall, ExitsyscallCas,
       Stoptheworld, StopCas, StopIdle, StopWait
  <2>5. CASE FindGrab(a) \/ ExitsyscallPidle(a) \/ Exitsyscall0(a)
    <3>1. m[a].pc \in Idling
      BY <2>5 DEF FindGrab, ExitsyscallPidle, Exitsyscall0, At, Idling, Without
    <3>2. \A p \in sched.pidle : CanAcquire(a, p)
      BY <1>1, <3>1, PChecks
    <3>3. ASSUME NEW l, NEW l2, TakeIdle(a, l, l2) PROVE fate' # "throw"
      BY <3>2, <3>3, CheckPasses, Zenon DEF TakeIdle
    <3> QED  BY <2>5, <3>3, Zenon DEF FindGrab, ExitsyscallPidle, Exitsyscall0
  <2>6. CASE FindPoll(a)
    <3>1. m[a].p = NoP
      BY <1>1, <1>2, <2>6 DEF FindPoll, At, IndInv, PlaceInv, Placed, Without
    <3>2. ~m[a].spinning
      BY <1>1, <1>2, <2>6, NotSpinning DEF FindPoll, At
    <3> QED  BY <2>6, <3>1, <3>2, CheckPasses DEF FindPoll
  <2>7. CASE Entersyscallblock(a)
    <3>1. CanRelease(a)
      BY <1>1, <2>7, PChecks DEF Entersyscallblock, At, Running
    <3> QED  BY <2>7, <3>1, CheckPasses DEF Entersyscallblock
  <2>8. CASE WakepStart(a)
    BY <1>1, <2>8, StartmHolds, Zenon DEF WakepStart
  <2> QED  BY <1>6, <2>1, <2>2, <2>3, <2>4, <2>5, <2>6, <2>7, <2>8
<1>7. ASSUME NEW a \in Ms, stopm(a) PROVE fate' # "throw"
  <2>1. m[a].p = NoP
    BY <1>1, <1>2, <1>7 DEF stopm, At, IndInv, PlaceInv, Placed, Without
  <2>2. checkdead /\ waiting' = waiting
    BY <1>7, <2>1 DEF stopm
  <2> QED  BY <1>1, <2>2, CheckdeadHolds
<1>8. ASSUME NEW a \in Ms, Acquirep(a) PROVE fate' # "throw"
  <2>1. status[m[a].p] = "Pidle"
    BY <1>1, <1>2, <1>8 DEF Acquirep, At, IndInv, PlaceInv, Placed
  <2> QED  BY <1>8, <2>1 DEF Acquirep, ThrowUnless
<1>9. ASSUME NEW a \in Ms, Resetspinning(a) PROVE fate' # "throw"
  <2> DEFINE n == IF m[a].spinning THEN sched.nmspinning - 1 ELSE sched.nmspinning
  <2>1. sched.nmspinning \in Nat /\ (m[a].spinning => sched.nmspinning > 0)
    BY <1>1, <1>2, SpinCount DEF LoadInv, Spins
  <2>2. n >= 0
    BY <2>1
  <2>3. ThrowUnless(n >= 0)
    BY <1>9 DEF Resetspinning
  <2> HIDE DEF n
  <2> QED  BY <2>2, <2>3, CheckPasses
<1>10. ASSUME NEW a \in Ms, EntersyscallGcwait(a) PROVE fate' # "throw"
  <2>1. m[a].p \in Ps /\ (sched.stopwait > 0 => sched.gcwaiting) /\ sched.lock = NoM
    BY <1>1, <1>2, <1>10 DEF IndInv, PlaceInv, Placed, WorldInv, EntersyscallGcwait, At, Locked
  <2>2. CASE sched.stopwait > 0 /\ status[m[a].p] = "Psyscall"
    <3>1. ThrowUnless(StopnoteClear)
      BY <1>10, <2>2 DEF EntersyscallGcwait
    <3> QED  BY <1>1, <2>1, <2>2, <3>1, StopPHolds, CheckPasses
  <2> QED  BY <1>10, <2>2 DEF EntersyscallGcwait
<1>11. ASSUME NEW a \in Ms, StopCheck(a) PROVE fate' # "throw"
  <2>1. m[a].pc = "stopcheck" /\ sched.stopwait = 0
    BY <1>1, <1>11 DEF StopCheck, At, NoteInv
  <2>2. sched.gcwaiting
    BY <1>1, <2>1 DEF IndInv, WorldInv, Stopping
  <2>3. Live = {}
    BY <1>1, <2>1, <2>2, LiveFinite, FS_EmptySet DEF IndInv, WorldInv
  <2>4. ASSUME NEW p \in 0..gomaxprocs-1 PROVE status[p] = "Pgcstop"
    <3>1. gomaxprocs \in 1..NP
      BY <1>1 DEF gomaxprocs, IndInv, TypeOK, SchedType
    <3>2. p \in Ps /\ ~(p >= sched.gomaxprocs)
      BY <2>4, <3>1, SizesAssumption DEF Ps, gomaxprocs
    <3> QED  BY <1>1, <2>3, <3>2 DEF Live, IndInv, WorldInv
  <2> QED  BY <1>11, <2>1, <2>4 DEF StopCheck, ThrowUnless
<1>12. ASSUME NEW a \in Threads, Handoff(a) PROVE fate' # "throw"
  <2>1. CASE Handoff1(a) \/ Handoff2(a) \/ HandoffCas(a)
    BY <2>1, Zenon DEF Handoff1, Handoff2, HandoffCas
  <2>2. CASE Handoff3(a)
    <3>1. m[a].p \in Ps /\ status[m[a].p] = "Pidle" /\ sched.lock = NoM
      BY <1>1, <2>2 DEF Handoff3, At, Locked, IndInv, PlaceInv, Placed, Handing
    <3>2. CASE sched.gcwaiting /\ ThrowUnless(StopnoteClear)
      BY <1>1, <3>1, <3>2, StopPHolds, CheckPasses
    <3> QED  BY <2>2, <3>2, Zenon DEF Handoff3
  <2>3. CASE HandoffStart(a)
    BY <1>1, <2>3, StartmHolds, Zenon DEF HandoffStart
  <2> QED  BY <1>12, <2>1, <2>2, <2>3 DEF Handoff
<1>13. CASE Retake(Sysmon) \/ RetakeCas(Sysmon) \/ RetakeEnd(Sysmon)
  <2>1. CASE Retake(Sysmon) \/ RetakeCas(Sysmon)
    BY <2>1, Zenon DEF Retake, RetakeCas
  <2>2. CASE RetakeEnd(Sysmon)
    BY <1>1, <2>2, CheckdeadHolds DEF RetakeEnd
  <2> QED  BY <1>13, <2>1, <2>2
<1>14. ASSUME NEW a \in Ms, MNext(a) PROVE fate' # "throw"
  BY <1>4, <1>5, <1>6, <1>7, <1>8, <1>9, <1>10, <1>11, <1>14 DEF MNext
<1> QED  BY <1>12, <1>13, <1>14 DEF Next

(***************************************************************************)
(* The scheduler's checks on itself hold: checkdead never takes a program  *)
(* with a goroutine to run for a deadlock, nor finds its counts negative;  *)
(* the note of stoptheworld is woken once and all Ps are stopped then;     *)
(* acquirep gets an idle P for an M without one and releasep a running     *)
(* one; an M that is started neither spins nor has a P, one that parks or  *)
(* polls has none; no M leaves nmspinning negative or runs its queue       *)
(* spinning.                                                               *)
(***************************************************************************)
THEOREM SchedNeverThrows == Spec => []NeverThrows
<1>1. Spec => [](AwayInv /\ NoteInv /\ LockedInv)
  <2>1. UNCHANGED vars /\ AwayInv /\ NoteInv /\ LockedInv => AwayInv' /\ NoteInv' /\ LockedInv'
    BY DEF vars, AwayInv, LeftBy, NoteInv, LockedInv
  <2>2. IndInv /\ AwayInv /\ NoteInv /\ LockedInv /\ Next => AwayInv' /\ NoteInv' /\ LockedInv'
    BY NextAway, NextNote
  <2> QED  BY <2>1, <2>2, InitChecks, Invariance, PTL DEF Spec
<1>2. Spec => []CheckInv
  <2>1. IndInv /\ LoadInv /\ AwayInv /\ NoteInv /\ LockedInv => CheckInv
    BY DEF CheckInv
  <2> QED  BY <1>1, <2>1, LoadInvariance, PTL
<1>3. Init => NeverThrows
  BY DEF Init, NeverThrows
<1>4. CheckInv /\ CheckInv' /\ NeverThrows /\ Next => NeverThrows'
  BY NextFate DEF NeverThrows
<1>5. UNCHANGED vars /\ NeverThrows => NeverThrows'
  BY DEF vars, NeverThrows
<1> QED  BY <1>2, <1>3, <1>4, <1>5, PTL DEF Spec
=============================================================================
