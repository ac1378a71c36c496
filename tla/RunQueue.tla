------------------------------ MODULE RunQueue ------------------------------
(***************************************************************************)
(* runtime/proc.c: the lock-free local run queues of the Ps and the global *)
(* run queue under sched.lock.  Only the owner P puts on its queue; every  *)
(* P may take from it with a cas on runqhead.  Each load, store and cas    *)
(* that another P can race with is a step.                                 *)
(*                                                                         *)
(* runqhead and runqtail are unsigned words: all arithmetic on them wraps  *)
(* at Wrap (2^32 in the code), and Init puts them just below the wrap.     *)
(***************************************************************************)
EXTENDS Integers, Sequences, FiniteSets, SequencesExt, FiniteSetsExt

CONSTANTS Ps,        \* processors
          Gs,        \* goroutines
          NoG,       \* no goroutine
          Preload,   \* what is on the queue of each P at the start
          Size,      \* nelem(p->runq), 256 in the code
          Wrap,      \* 2^32
          MaxPuts,   \* bound on the puts on the queue of each P, for TLC
          MaxGlob    \* bound on the global queue for globrunqput, for TLC

ASSUME NoGAssumption == NoG \notin Gs /\ NoG \notin Ps /\ IsFiniteSet(Ps)
ASSUME SizeAssumption ==
  /\ Size \in Nat \ {0} /\ Size % 2 = 0
  /\ Wrap \in Nat /\ Wrap % Size = 0
  /\ MaxPuts \in [Ps -> Nat]
  /\ \A p \in Ps : MaxPuts[p] + 2 * Size < Wrap
  /\ MaxGlob \in Nat
ASSUME PreloadAssumption ==
  /\ Preload \in [Ps -> Seq(Gs)]
  /\ \A p \in Ps : Len(Preload[p]) <= Size /\ IsInjective(Preload[p])
  /\ \A p, q \in Ps : p # q => Range(Preload[p]) \cap Range(Preload[q]) = {}

VARIABLES
  head, tail, runq,   \* p->runqhead, p->runqtail, p->runq
  sched,              \* sched.runqhead .. sched.runqtail
  holder,             \* the P whose M holds sched.lock, or NoG
  out,                \* goroutines on no queue: running or blocked
  pc,                 \* where each P is
  h, t,               \* the locals h and t
  gp,                 \* the goroutine being put
  ret,                \* the goroutine to be returned
  batch,              \* the local array batch
  victim              \* runqsteal's p2

vars == <<head, tail, runq, sched, holder, out, pc, h, t, gp, ret, batch, victim>>

locals == <<h, t, gp, ret, batch, victim>>

(***************************************************************************)
(* idle      outside                                                       *)
(* put       runqput: about to load runqhead                               *)
(* write     runqput: there is room, about to store into runq              *)
(* publish   runqput: about to store runqtail                              *)
(* slow      runqputslow: about to cas runqhead                            *)
(* glob      runqputslow: batch taken, about to lock sched                 *)
(* get       runqget: about to cas runqhead                                *)
(* grab      runqgrab: loaded the victim's head, about to load its tail    *)
(* copy      runqgrab: copying the batch                                   *)
(* cas       runqgrab: about to cas the victim's runqhead                  *)
(* stolen    runqsteal: about to write the batch into the own runq         *)
(* spublish  runqsteal: about to store the own runqtail                    *)
(***************************************************************************)
Locations == {"idle", "put", "write", "publish", "slow", "glob", "get", "grab",
              "copy", "cas", "stolen", "spublish"}

Add(i, n) == (i + n) % Wrap
Sub(i, j) == (i - j) % Wrap
Half == Size \div 2
Start == Wrap - 2

Init ==
  /\ head = [p \in Ps |-> Start]
  /\ tail = [p \in Ps |-> Add(Start, Len(Preload[p]))]
  /\ runq = [p \in Ps |-> [k \in 0..Size-1 |->
       LET j == ((k - Start) % Size) + 1
       IN  IF j <= Len(Preload[p]) THEN Preload[p][j] ELSE NoG]]
  /\ sched = <<>>
  /\ holder = NoG
  /\ out = Gs \ UNION {Range(Preload[p]) : p \in Ps}
  /\ pc = [p \in Ps |-> "idle"]
  /\ h = [p \in Ps |-> 0]
  /\ t = [p \in Ps |-> 0]
  /\ gp = [p \in Ps |-> NoG]
  /\ ret = [p \in Ps |-> NoG]
  /\ batch = [p \in Ps |-> <<>>]
  /\ victim = [p \in Ps |-> p]

Goto(p, l) == pc' = [pc EXCEPT ![p] = l]

\* The bound on the number of puts, so that indices do not wrap all the way
\* round under a stalled thief (2^32 puts in the code).
MayPut(p) == Sub(tail[p], Start) < MaxPuts[p]

\* The outermost call returns: ret is run by this P, sched.lock is released.
Return(p) ==
  /\ out' = IF ret[p] = NoG THEN out ELSE out \cup {ret[p]}
  /\ holder' = IF holder = p THEN NoG ELSE holder
  /\ h' = [h EXCEPT ![p] = 0]
  /\ t' = [t EXCEPT ![p] = 0]
  /\ gp' = [gp EXCEPT ![p] = NoG]
  /\ ret' = [ret EXCEPT ![p] = NoG]
  /\ batch' = [batch EXCEPT ![p] = <<>>]
  /\ victim' = [victim EXCEPT ![p] = p]
  /\ Goto(p, "idle")

----------------------------------------------------------------------------
(* runqput and runqputslow, by the owner *)

\* A goroutine that became runnable is put on the queue of this P.
Runqput(p) ==
  /\ pc[p] = "idle"
  /\ MayPut(p)
  /\ \E g \in out :
       /\ gp' = [gp EXCEPT ![p] = g]
       /\ out' = out \ {g}
  /\ Goto(p, "put")
  /\ UNCHANGED <<head, tail, runq, sched, holder, h, t, ret, batch, victim>>

\* There is room for gp, or the queue is full.
RunqputLoad(p) ==
  /\ pc[p] = "put"
  /\ h' = [h EXCEPT ![p] = head[p]]
  /\ t' = [t EXCEPT ![p] = tail[p]]
  /\ Goto(p, IF Sub(tail[p], head[p]) < Size THEN "write" ELSE "slow")
  /\ UNCHANGED <<head, tail, runq, sched, holder, out, gp, ret, batch, victim>>

RunqputWrite(p) ==
  /\ pc[p] = "write"
  /\ runq' = [runq EXCEPT ![p][t[p] % Size] = gp[p]]
  /\ Goto(p, "publish")
  /\ UNCHANGED <<head, tail, sched, holder, out, locals>>

\* The item becomes available; inside globrunqget the next one follows.
RunqputPublish(p) ==
  /\ pc[p] = "publish"
  /\ tail' = [tail EXCEPT ![p] = Add(t[p], 1)]
  /\ \/ /\ batch[p] = <<>>
        /\ Return(p)
     \/ /\ batch[p] # <<>>
        /\ gp' = [gp EXCEPT ![p] = Head(batch[p])]
        /\ batch' = [batch EXCEPT ![p] = Tail(@)]
        /\ Goto(p, "put")
        /\ UNCHANGED <<holder, out, h, t, ret, victim>>
  /\ UNCHANGED <<head, runq, sched>>

\* The queue is full: half of it and gp go to the global queue, if no thief
\* moved the head meanwhile.  Only the owner writes runq, so reading the
\* batch and the cas are one step.
RunqputSlow(p) ==
  /\ pc[p] = "slow"
  /\ \/ /\ head[p] = h[p]
        /\ head' = [head EXCEPT ![p] = Add(h[p], Half)]
        /\ batch' = [batch EXCEPT ![p] =
                       Append([k \in 1..Half |-> runq[p][Add(h[p], k-1) % Size]], gp[p])]
        /\ gp' = [gp EXCEPT ![p] = NoG]
        /\ Goto(p, "glob")
     \/ /\ head[p] # h[p]
        /\ Goto(p, "put")
        /\ UNCHANGED <<head, batch, gp>>
  /\ UNCHANGED <<tail, runq, sched, holder, out, h, t, ret, victim>>

\* globrunqputbatch under sched.lock.
RunqputGlob(p) ==
  /\ pc[p] = "glob"
  /\ holder = NoG
  /\ sched' = sched \o batch[p]
  /\ Return(p)
  /\ UNCHANGED <<head, tail, runq>>

----------------------------------------------------------------------------
(* runqget, by the owner *)

\* An empty queue gives nil.  Only the owner writes runq and runqtail.
Runqget(p) ==
  /\ pc[p] = "idle"
  /\ \/ /\ tail[p] = head[p]
        /\ UNCHANGED <<h, pc>>
     \/ /\ tail[p] # head[p]
        /\ h' = [h EXCEPT ![p] = head[p]]
        /\ Goto(p, "get")
  /\ UNCHANGED <<head, tail, runq, sched, holder, out, t, gp, ret, batch, victim>>

\* Mutant of RunqgetCas: the owner takes its head without a cas.
RunqgetStore(p) ==
  /\ pc[p] = "get"
  /\ head' = [head EXCEPT ![p] = Add(h[p], 1)]
  /\ out' = out \cup {runq[p][h[p] % Size]}
  /\ h' = [h EXCEPT ![p] = 0]
  /\ Goto(p, "idle")
  /\ UNCHANGED <<tail, runq, sched, holder, t, gp, ret, batch, victim>>

\* The cas commits; if a thief was faster, look at the queue again.
RunqgetCas(p) ==
  /\ pc[p] = "get"
  /\ \/ /\ head[p] = h[p]
        /\ head' = [head EXCEPT ![p] = Add(h[p], 1)]
        /\ out' = out \cup {runq[p][h[p] % Size]}
        /\ h' = [h EXCEPT ![p] = 0]
        /\ Goto(p, "idle")
     \/ /\ head[p] # h[p] /\ tail[p] = head[p]
        /\ h' = [h EXCEPT ![p] = 0]
        /\ Goto(p, "idle")
        /\ UNCHANGED <<head, out>>
     \/ /\ head[p] # h[p] /\ tail[p] # head[p]
        /\ h' = [h EXCEPT ![p] = head[p]]
        /\ UNCHANGED <<head, out, pc>>
  /\ UNCHANGED <<tail, runq, sched, holder, t, gp, ret, batch, victim>>

----------------------------------------------------------------------------
(* runqgrab and runqsteal, by any P whose own queue is empty *)

\* findrunnable steals only after its own runqget returned nil.
Runqsteal(p) ==
  /\ pc[p] = "idle"
  /\ tail[p] = head[p]
  /\ MayPut(p)
  /\ \E q \in Ps \ {p} :
       /\ victim' = [victim EXCEPT ![p] = q]
       /\ h' = [h EXCEPT ![p] = head[q]]
  /\ Goto(p, "grab")
  /\ UNCHANGED <<head, tail, runq, sched, holder, out, t, gp, ret, batch>>

\* The size of the batch: half of the queue, rounded up.
GrabSize(hh, tt) == LET n == Sub(tt, hh) IN n - n \div 2

\* Mutant of GrabTail: believes whatever head and tail it read.
GrabTailTrusting(p) ==
  /\ pc[p] = "grab"
  /\ LET n == GrabSize(h[p], tail[victim[p]]) IN
     \/ /\ n = 0
        /\ victim' = [victim EXCEPT ![p] = p]
        /\ h' = [h EXCEPT ![p] = 0]
        /\ Goto(p, "idle")
        /\ UNCHANGED t
     \/ /\ n > 0
        /\ t' = [t EXCEPT ![p] = tail[victim[p]]]
        /\ Goto(p, "copy")
        /\ UNCHANGED <<h, victim>>
  /\ UNCHANGED <<head, tail, runq, sched, holder, out, gp, ret, batch>>

\* An empty queue gives nil; an inconsistent head and tail are read again.
GrabTail(p) ==
  /\ pc[p] = "grab"
  /\ LET n == GrabSize(h[p], tail[victim[p]]) IN
     \/ /\ n = 0
        /\ victim' = [victim EXCEPT ![p] = p]
        /\ h' = [h EXCEPT ![p] = 0]
        /\ Goto(p, "idle")
        /\ UNCHANGED t
     \/ /\ n > Half
        /\ h' = [h EXCEPT ![p] = head[victim[p]]]
        /\ UNCHANGED <<t, pc, victim>>
     \/ /\ n \in 1..Half
        /\ t' = [t EXCEPT ![p] = tail[victim[p]]]
        /\ Goto(p, "copy")
        /\ UNCHANGED <<h, victim>>
  /\ UNCHANGED <<head, tail, runq, sched, holder, out, gp, ret, batch>>

\* One element of the batch; the victim may be writing its queue.
GrabCopy(p) ==
  /\ pc[p] = "copy"
  /\ batch' = [batch EXCEPT ![p] =
                 Append(@, runq[victim[p]][Add(h[p], Len(@)) % Size])]
  /\ Goto(p, IF Len(batch'[p]) = GrabSize(h[p], t[p]) THEN "cas" ELSE "copy")
  /\ UNCHANGED <<head, tail, runq, sched, holder, out, h, t, gp, ret, victim>>

\* Mutant of GrabCas: does not notice that the head moved.
GrabStore(p) ==
  /\ pc[p] = "cas"
  /\ head' = [head EXCEPT ![victim[p]] = Add(h[p], Len(batch[p]))]
  /\ ret' = [ret EXCEPT ![p] = Last(batch[p])]
  /\ batch' = [batch EXCEPT ![p] = Front(@)]
  /\ Goto(p, "stolen")
  /\ UNCHANGED <<tail, runq, sched, holder, out, h, t, gp, victim>>

\* The cas commits the batch; the last element is the one returned.
GrabCas(p) ==
  /\ pc[p] = "cas"
  /\ \/ /\ head[victim[p]] = h[p]
        /\ head' = [head EXCEPT ![victim[p]] = Add(h[p], Len(batch[p]))]
        /\ ret' = [ret EXCEPT ![p] = Last(batch[p])]
        /\ batch' = [batch EXCEPT ![p] = Front(@)]
        /\ Goto(p, "stolen")
        /\ UNCHANGED h
     \/ /\ head[victim[p]] # h[p]
        /\ h' = [h EXCEPT ![p] = head[victim[p]]]
        /\ batch' = [batch EXCEPT ![p] = <<>>]
        /\ Goto(p, "grab")
        /\ UNCHANGED <<head, ret>>
  /\ UNCHANGED <<tail, runq, sched, holder, out, t, gp, victim>>

\* Write the rest of the batch to the own queue, which has room: NoOverflow.
StealWrite(p) ==
  /\ pc[p] = "stolen"
  /\ LET n == Len(batch[p]) IN
     \/ /\ n = 0
        /\ Return(p)
        /\ UNCHANGED runq
     \/ /\ n > 0
        /\ t' = [t EXCEPT ![p] = tail[p]]
        /\ runq' = [runq EXCEPT ![p] = [k \in DOMAIN @ |->
             IF \E j \in 1..n : k = Add(tail[p], j-1) % Size
             THEN batch[p][CHOOSE j \in 1..n : k = Add(tail[p], j-1) % Size]
             ELSE @[k]]]
        /\ Goto(p, "spublish")
        /\ UNCHANGED <<holder, out, h, gp, ret, batch, victim>>
  /\ UNCHANGED <<head, tail, sched>>

StealPublish(p) ==
  /\ pc[p] = "spublish"
  /\ tail' = [tail EXCEPT ![p] = Add(t[p], Len(batch[p]))]
  /\ Return(p)
  /\ UNCHANGED <<head, runq, sched>>

----------------------------------------------------------------------------
(* globrunqput and globrunqget, under sched.lock *)

Globrunqput(p) ==
  /\ pc[p] = "idle"
  /\ holder = NoG
  /\ Len(sched) < MaxGlob
  /\ \E g \in out :
       /\ sched' = Append(sched, g)
       /\ out' = out \ {g}
  /\ UNCHANGED <<head, tail, runq, holder, pc, locals>>

\* How many goroutines globrunqget takes.
GlobBatch(max) ==
  LET n == Min({Len(sched) \div Cardinality(Ps) + 1, Len(sched), Half})
  IN  IF max > 0 THEN Min({n, max}) ELSE n

\* Mutant of Globrunqget: takes a batch while its own queue is not empty.
GlobrunqgetBusy(p) ==
  /\ pc[p] = "idle"
  /\ holder = NoG
  /\ sched # <<>>
  /\ MayPut(p)
  /\ \E max \in {0, 1} :
       /\ LET n == GlobBatch(max) IN
            /\ sched' = SubSeq(sched, n + 1, Len(sched))
            /\ \/ /\ n = 1
                  /\ out' = out \cup {Head(sched)}
                  /\ UNCHANGED <<holder, pc, locals>>
               \/ /\ n > 1
                  /\ holder' = p
                  /\ ret' = [ret EXCEPT ![p] = Head(sched)]
                  /\ gp' = [gp EXCEPT ![p] = sched[2]]
                  /\ batch' = [batch EXCEPT ![p] = SubSeq(sched, 3, n)]
                  /\ Goto(p, "put")
                  /\ UNCHANGED <<out, h, t, victim>>
  /\ UNCHANGED <<head, tail, runq>>

\* schedule asks for one, findrunnable, whose own queue is empty, for a batch.
\* The first is returned, the others are runqput with sched.lock held.
Globrunqget(p) ==
  /\ pc[p] = "idle"
  /\ holder = NoG
  /\ sched # <<>>
  /\ MayPut(p)
  /\ \E max \in {0, 1} :
       /\ max = 0 => tail[p] = head[p]
       /\ LET n == GlobBatch(max) IN
            /\ sched' = SubSeq(sched, n + 1, Len(sched))
            /\ \/ /\ n = 1
                  /\ out' = out \cup {Head(sched)}
                  /\ UNCHANGED <<holder, pc, locals>>
               \/ /\ n > 1
                  /\ holder' = p
                  /\ ret' = [ret EXCEPT ![p] = Head(sched)]
                  /\ gp' = [gp EXCEPT ![p] = sched[2]]
                  /\ batch' = [batch EXCEPT ![p] = SubSeq(sched, 3, n)]
                  /\ Goto(p, "put")
                  /\ UNCHANGED <<out, h, t, victim>>
  /\ UNCHANGED <<head, tail, runq>>

Step(p) ==
  \/ RunqputLoad(p) \/ RunqputWrite(p) \/ RunqputPublish(p)
  \/ RunqputSlow(p) \/ RunqputGlob(p)
  \/ RunqgetCas(p)
  \/ GrabTail(p) \/ GrabCopy(p) \/ GrabCas(p) \/ StealWrite(p) \/ StealPublish(p)

Next ==
  \E p \in Ps :
    \/ Runqput(p) \/ Runqget(p) \/ Runqsteal(p)
    \/ Globrunqput(p) \/ Globrunqget(p)
    \/ Step(p)

Spec == Init /\ [][Next]_vars

----------------------------------------------------------------------------
(* Properties *)

\* Every variable has its type.
TypeOK ==
  /\ head \in [Ps -> 0..Wrap-1]
  /\ tail \in [Ps -> 0..Wrap-1]
  /\ runq \in [Ps -> [0..Size-1 -> Gs \cup {NoG}]]
  /\ sched \in Seq(Gs)
  /\ holder \in Ps \cup {NoG}
  /\ out \subseteq Gs
  /\ pc \in [Ps -> Locations]
  /\ h \in [Ps -> 0..Wrap-1]
  /\ t \in [Ps -> 0..Wrap-1]
  /\ gp \in [Ps -> Gs \cup {NoG}]
  /\ ret \in [Ps -> Gs \cup {NoG}]
  /\ batch \in [Ps -> Seq(Gs \cup {NoG})]
  /\ victim \in [Ps -> Ps]

\* The indices between the head and the tail of P p.
Indices(p) == {Add(head[p], k) : k \in 0..Sub(tail[p], head[p])-1}

\* A batch belongs to P p once it took it from a queue: not while it copies a
\* victim's queue and has not done its cas.
Taken(p) == pc[p] \notin {"copy", "cas"}

\* The places of P p that goroutine g is in: on its queue, being put, to be
\* returned, or in its batch.
PlacesAt(p, g) ==
  UNION {{<<"runq", p, i>> : i \in {i \in Indices(p) : runq[p][i % Size] = g}},
         {<<"gp", p, 0>> : x \in {gp[p]} \cap {g}},
         {<<"ret", p, 0>> : x \in {ret[p]} \cap {g}},
         {<<"batch", p, k>> : k \in {k \in DOMAIN batch[p] : Taken(p) /\ batch[p][k] = g}}}

\* All of its places.
Places(g) ==
  UNION {{<<"out", NoG, 0>> : x \in out \cap {g}},
         {<<"sched", NoG, k>> : k \in {k \in DOMAIN sched : sched[k] = g}},
         UNION {PlacesAt(p, g) : p \in Ps}}

(***************************************************************************)
(* Every goroutine is in exactly one place: on one queue once, or held by  *)
(* one P, or on no queue.  None is lost by a put, a steal, an overflow to  *)
(* the global queue or a failed cas, and none is taken by two Ps.          *)
(***************************************************************************)
OnePlace == \A g \in Gs : Cardinality(Places(g)) = 1

\* The local arrays called batch are never overrun, however inconsistent the
\* head and the tail are that runqgrab reads, and runqsteal never throws
\* "runqsteal: runq overflow": what it stole fits beside its own queue.  Nor
\* does runqputslow throw "queue is not full", although its head is old.
NoOverflow ==
  \A p \in Ps :
    /\ Len(batch[p]) <= IF pc[p] = "glob" THEN Half + 1 ELSE Half
    /\ pc[p] = "stolen" /\ batch[p] # <<>> =>
         Sub(tail[p], head[p]) + Len(batch[p]) < Size
    /\ pc[p] = "slow" => Sub(t[p], h[p]) \div 2 = Half

\* globrunqget puts its batch with sched.lock held: the puts never overflow
\* into runqputslow, which would lock sched.lock again and hang.
NoSelfDeadlock == \A p \in Ps : holder = p => pc[p] \notin {"slow", "glob"}
=============================================================================
