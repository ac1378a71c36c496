------------------------------- MODULE Select -------------------------------
(***************************************************************************)
(* runtime/select.go: selectgo on top of the channels of module Chan, with *)
(* the specification of both.  The cases of a call are in the order of     *)
(* pollorder, so that MayCall stands for the random choice.  sellock takes *)
(* the locks one by one; selunlock is part of the step before it, because  *)
(* the select touches no channel any more.                                 *)
(***************************************************************************)
EXTENDS Chan

\* The channels of the cases, those g holds, and those it has still to lock.
Wanted(g) == {Cases(g)[i].c : i \in DOMAIN Cases(g)}
Held(g) == {c \in Chans : hchan[c].lock = g}
ToLock(g) == Wanted(g) \ Held(g)

\* Mutant of NextLock: the order of the cases.
NextLockOfCases(g) ==
  Cases(g)[Min({i \in DOMAIN Cases(g) : Cases(g)[i].c \in ToLock(g)})].c

\* lockorder is sorted by address, and a channel met twice is locked once.
NextLock(g) == Min(ToLock(g))

\* sellock takes one lock after the other.
Sellock(g) ==
  /\ pc[g] = "sellock" \/ (pc[g] = "woken" /\ call[g].sel)
  /\ hchan[NextLock(g)].lock = NoG
  /\ hchan' = [hchan EXCEPT ![NextLock(g)].lock = g]
  /\ IF ToLock(g) # {NextLock(g)} THEN UNCHANGED pc
     ELSE Goto(g, IF pc[g] = "woken" THEN "pass3" ELSE "pass1")
  /\ UNCHANGED <<call, done, param, got, wake, nv, out, in>>

selunlock(g, h) ==
  [c \in Chans |-> IF h[c].lock = g THEN [h[c] EXCEPT !.lock = NoG] ELSE h[c]]

\* Case i fires in pass 1: it can be served, or its channel is closed.
Fires(g, i) ==
  LET k == Cases(g)[i] IN Able(hchan, k) \/ hchan[k.c].closed

\* The first case in pollorder that fires, 0 if there is none.
First(g) ==
  LET F == {i \in DOMAIN Cases(g) : Fires(g, i)} IN IF F = {} THEN 0 ELSE Min(F)

\* The channels once the first n cases have been polled in vain: as in Passed,
\* each synchronous one has emptied the queue of its peers.
Polled(g, n) ==
  LET emptied(c, dir) ==
        /\ Cap[c] = 0
        /\ \E i \in 1..n : Cases(g)[i].c = c /\ Other(Cases(g)[i].dir) = dir
  IN [c \in Chans |-> [hchan[c] EXCEPT !.q = [dir \in Dirs |->
        IF emptied(c, dir) THEN <<>> ELSE hchan[c].q[dir]]]]

\* syncsend, syncrecv, asyncsend and asyncrecv.
SelectServed(g) ==
  /\ pc[g] = "pass1"
  /\ LET i == First(g)
         k == Cases(g)[i]
         h == selunlock(g, Polled(g, i - 1))
     IN  /\ i # 0
         /\ Able(hchan, k)
         /\ k.dir = "send" => ~hchan[k.c].closed
         /\ Rendezvous(g, i, h) \/ Buffered(g, i, h)

\* sclose panics; rclose receives a zero value.
SelectClosed(g) ==
  /\ pc[g] = "pass1"
  /\ LET i == First(g)
         k == Cases(g)[i]
     IN  /\ i # 0
         /\ hchan[k.c].closed
         /\ k.dir = "recv" => ~Able(hchan, k)
         /\ hchan' = selunlock(g, Polled(g, IF k.dir = "send" THEN i - 1 ELSE i))
         /\ Return(g, IF k.dir = "send" THEN 0 ELSE i, 0)
  /\ UNCHANGED <<done, param, wake, nv>>

\* The elements of s at the positions in K.
Pick(s, K) ==
  [n \in 1..Cardinality(K) |-> s[CHOOSE j \in K : Cardinality({i \in K : i <= j}) = n]]

\* The sudogs of g for one queue of a channel, in the order of the cases.
Sudogs(g, c, dir) ==
  Pick([i \in DOMAIN Cases(g) |-> [g |-> g, i |-> i]],
       {i \in DOMAIN Cases(g) : Cases(g)[i].c = c /\ Cases(g)[i].dir = dir})

\* Pass 2 when no case fires: take the default, or enqueue on all channels and
\* park, which unlocks them.
SelectNotServed(g) ==
  /\ pc[g] = "pass1"
  /\ First(g) = 0
  /\ LET n == Len(Cases(g))
         h == selunlock(g, Polled(g, n))
     IN  IF call[g].block
         THEN /\ hchan' = [c \in Chans |-> [h[c] EXCEPT !.q =
                   [dir \in Dirs |-> h[c].q[dir] \o Sudogs(g, c, dir)]]]
              /\ done' = [done EXCEPT ![g] = 0]
              /\ param' = [param EXCEPT ![g] = 0]
              /\ Goto(g, "parked")
              /\ UNCHANGED <<call, out, in, got>>
         ELSE hchan' = h /\ Return(g, 0, 0) /\ UNCHANGED <<done, param>>
  /\ UNCHANGED <<wake, nv>>

\* Pass 3 takes the sudogs that were not signalled off their queues.
Dequeued(g) ==
  [c \in Chans |->
     [hchan[c] EXCEPT !.q = [dir \in Dirs |->
        Pick(hchan[c].q[dir],
             {j \in DOMAIN hchan[c].q[dir] : hchan[c].q[dir][j].g # g})]]]

(***************************************************************************)
(* After pass 3 the signalled case has been served, which only happens on  *)
(* synchronous channels; without one a buffer moved or a channel was       *)
(* closed, and selectgo polls again, in the same order.                    *)
(***************************************************************************)
Pass3(g) ==
  /\ pc[g] = "pass3"
  /\ param' = [param EXCEPT ![g] = 0]
  /\ done' = [done EXCEPT ![g] = 0]
  /\ IF param[g] = 0
     THEN /\ hchan' = Dequeued(g)
          /\ Goto(g, "pass1")
          /\ UNCHANGED <<call, out, in, got>>
     ELSE IF Cap[Cases(g)[param[g]].c] > 0
     THEN Goto(g, "throw") /\ UNCHANGED <<hchan, call, out, in, got>>
     ELSE hchan' = selunlock(g, Dequeued(g)) /\ Return(g, param[g], got[g])
  /\ UNCHANGED <<wake, nv>>

SelectStep(g) ==
  \/ Sellock(g) \/ SelectServed(g) \/ SelectClosed(g) \/ SelectNotServed(g)
  \/ Pass3(g)

----------------------------------------------------------------------------
(* The specification *)

\* A non-blocking receive of g finds an open channel with nothing to receive.
Unready(g) ==
  /\ ~call[g].sel /\ ~call[g].block
  /\ Cases(g)[1].dir = "recv"
  /\ ~hchan[Cases(g)[1].c].closed
  /\ ~Able(hchan, Cases(g)[1])

Observe ==
  seen' = [g \in Gs |-> IF pc'[g] \in {"idle", "throw"} THEN FALSE
                        ELSE seen[g] \/ Unready(g)']

Next == \E g \in Gs : (Call(g) \/ ChanStep(g) \/ SelectStep(g)) /\ Observe

Spec == Init /\ [][Next]_vars

----------------------------------------------------------------------------
(* Properties *)

\* The elements of the buffer, oldest first.
Content(c) ==
  [j \in 1..hchan[c].qcount |-> hchan[c].buf[(hchan[c].recvx + j - 1) % Cap[c]]]

\* How often v is on its way: in a buffer, or given to a receive.
Positions == UNION {{c} \X (1..hchan[c].qcount) : c \in Chans}
OnItsWay(v) ==
  Cardinality({x \in Positions : Content(x[1])[x[2]] = v})
  + Cardinality({g \in Gs : got[g] = v})

(***************************************************************************)
(* A value whose send returned is on its way or was received, exactly      *)
(* once; a value whose send panicked, failed or lost to another case of    *)
(* its select is never received.                                           *)
(***************************************************************************)
ExactlyOnce ==
  \A v \in Vals :
    /\ out[v] = "sent" => OnItsWay(v) + in[v] = 1
    /\ out[v] = "failed" => OnItsWay(v) + in[v] = 0

\* Buffers are first in, first out.
FifoBuffer ==
  [][\A c \in Chans :
       \/ Content(c)' = Content(c)
       \/ Content(c) # <<>> /\ Content(c)' = Tail(Content(c))
       \/ /\ Content(c)' # <<>>
          /\ Content(c) = SubSeq(Content(c)', 1, Len(Content(c)') - 1)]_vars

\* Nobody is woken twice or without reason: goready finds its goroutine
\* waiting, and no "spurious wakeup" or "shouldn't happen" is thrown.
NeverThrows == \A g \in Gs : pc[g] # "throw"

(***************************************************************************)
(* A free channel has no sender and receiver that wait for each other, and *)
(* a closed one has nobody waiting: close releases all of them, those in a *)
(* select that no other channel has signalled included.                    *)
(***************************************************************************)
Waiters(c, dir) ==
  {hchan[c].q[dir][j].g :
     j \in {j \in DOMAIN hchan[c].q[dir] : Unsignalled(hchan[c].q[dir][j])}}
NobodyForgotten ==
  \A c \in Chans : hchan[c].lock = NoG =>
    /\ hchan[c].closed => Waiters(c, "recv") \cup Waiters(c, "send") = {}
    /\ Cap[c] = 0 => \A s \in Waiters(c, "send"), r \in Waiters(c, "recv") : s = r

\* g is in sellock, and somebody has the lock it is to take next.
WaitsForLock(g) ==
  /\ pc[g] = "sellock" \/ (pc[g] = "woken" /\ call[g].sel)
  /\ hchan[NextLock(g)].lock # NoG

\* Selects that lock several channels never wait for each other in a circle:
\* there are no goroutines of which each waits for a lock that one of them has.
NoLockCircle ==
  \A S \in SUBSET Gs : S # {} =>
    \E g \in S : WaitsForLock(g) => hchan[NextLock(g)].lock \notin S

\* "The order of operations is important here": a receive that fails on the
\* unlocked fast path was, at some moment of the call, on an open channel
\* with nothing to receive; it never misses a close.
FastPathHonest ==
  [][\A g \in Gs : FastFail(g) /\ Cases(g)[1].dir = "recv" => seen[g]]_vars

\* "The expression blocks until a value is available": when everybody rests,
\* no receive is blocked on a channel that holds a value.
ReceivesAvailable ==
  (\A g \in Gs : pc[g] \in {"idle", "parked"}) =>
    \A c \in Chans : hchan[c].qcount > 0 => Waiters(c, "recv") = {}
=============================================================================
