-------------------------------- MODULE Chan --------------------------------
(***************************************************************************)
(* runtime/chan.go: chansend, chanrecv and closechan on a set of channels, *)
(* some with a buffer.  Module Select adds selectgo and the specification. *)
(*                                                                         *)
(* What runs between lock(&c.lock) and unlock is one step, because nobody  *)
(* else changes the channel meanwhile; what the code does after the unlock *)
(* (the memmove and goready of another goroutine) is a step of its own,    *)
(* and so are the unlocked reads of the fast paths and each goroutine that *)
(* closechan releases.  Channels are identified with their addresses, the  *)
(* sortkey of select.  Operations on nil channels, which do nothing or     *)
(* block forever, are left out, and so are profiling and race detection.   *)
(***************************************************************************)
EXTENDS Integers, Sequences, FiniteSets, SequencesExt, FiniteSetsExt

CONSTANTS Gs,        \* goroutines
          NoG,       \* the owner of a free lock
          Chans,     \* channels, by their addresses
          Cap,       \* dataqsiz of each channel
          MayCall,   \* the calls each goroutine makes: sets of
                     \* [sel, block, cases: sequence of [dir, c]]
          MaxVals    \* bound on the values sent

Dirs == {"recv", "send"}

ASSUME ChanAssumption ==
  /\ NoG \notin Gs
  /\ Chans \subseteq Nat /\ IsFiniteSet(Chans)
  /\ Cap \in [Chans -> Nat]
  /\ MaxVals \in Nat

\* A plain call has one case, and only a plain call may be a close.
ASSUME CallsAssumption ==
  \A g \in Gs : \A s \in MayCall[g] :
    /\ s \in [sel: BOOLEAN, block: BOOLEAN,
              cases: Seq([dir: Dirs \cup {"close"}, c: Chans])]
    /\ s.cases # <<>>
    /\ s.sel => \A i \in DOMAIN s.cases : s.cases[i].dir \in Dirs
    /\ ~s.sel => Len(s.cases) = 1
    /\ ~s.block => \A i \in DOMAIN s.cases : s.cases[i].dir \in Dirs

VARIABLES
  hchan,   \* struct hchan of each channel
  pc,      \* where each goroutine is
  call,    \* its call: a select or not, may block or not, cases [dir, c, val]
  done,    \* selectgo's local done, where selectdone points to
  param,   \* gp.param: the case whose sudog was signalled, 0 for nil
  got,     \* what a receive has been given
  wake,    \* the sudog to signal after the unlock, and the case it serves
  nv,      \* number of values handed to sends so far
  out,     \* history: what became of the send of each value
  in,      \* history: how many receives returned each value
  seen     \* history: a non-blocking receive met a moment at which the channel
           \* was open and had nothing to receive

vars == <<hchan, pc, call, done, param, got, wake, nv, out, in, seen>>

Vals == 1..MaxVals
NoCall == [sel |-> FALSE, block |-> FALSE, cases |-> <<>>]
NoSg == [g |-> NoG, i |-> 0]
NoWake == [sg |-> NoSg, i |-> 0]

(***************************************************************************)
(* idle     not in a channel operation                                     *)
(* fast     non-blocking, about to make the first unlocked read            *)
(* fastq    non-blocking, about to read the queue or qcount second         *)
(* fastc    non-blocking, about to read closed second                      *)
(* lock     in lock(&c.lock), or about to lock it again after a wakeup     *)
(* deliver  unlocked, about to hand the value to or take it from wake.sg   *)
(* ready    unlocked, about to ready wake.sg, which will try again         *)
(* closing  closechan: holds the lock, releasing waiters                   *)
(* parked   in gopark                                                      *)
(* woken    made runnable again                                            *)
(* throw    in gothrow                                                     *)
(* and in module Select                                                    *)
(* sellock  in sellock before pass 1                                       *)
(* pass1    holds all locks, about to poll the cases                       *)
(* pass3    holds all locks after a wakeup                                 *)
(***************************************************************************)
Init ==
  /\ hchan = [c \in Chans |->
       [lock |-> NoG, closed |-> FALSE, qcount |-> 0, sendx |-> 0, recvx |-> 0,
        buf |-> [k \in 0..Cap[c] - 1 |-> 0],
        q |-> [dir \in Dirs |-> <<>>]]]
  /\ pc = [g \in Gs |-> "idle"]
  /\ call = [g \in Gs |-> NoCall]
  /\ done = [g \in Gs |-> 0]
  /\ param = [g \in Gs |-> 0]
  /\ got = [g \in Gs |-> 0]
  /\ wake = [g \in Gs |-> NoWake]
  /\ nv = 0
  /\ out = [v \in Vals |-> "unsent"]
  /\ in = [v \in Vals |-> 0]
  /\ seen = [g \in Gs |-> FALSE]

Goto(g, l) == pc' = [pc EXCEPT ![g] = l]
Cases(g) == call[g].cases
Other(dir) == IF dir = "send" THEN "recv" ELSE "send"

----------------------------------------------------------------------------
(* What sends and receives, blocking, non-blocking or in a select, share *)

\* A sudog that no channel has signalled yet.
Unsignalled(sg) == ~call[sg.g].sel \/ done[sg.g] = 0

\* Mutant of dequeue: takes sudogs of selects that were already signalled.
dequeueAny(q) ==
  IF q = <<>> THEN [sg |-> NoSg, rest |-> <<>>]
  ELSE [sg |-> Head(q), rest |-> Tail(q)]

\* Drops the sudogs of selects already signalled, up to the one it returns.
dequeue(q) ==
  LET k == SelectInSeq(q, Unsignalled)
  IN IF k = 0 THEN [sg |-> NoSg, rest |-> <<>>]
     ELSE [sg |-> q[k], rest |-> SubSeq(q, k + 1, Len(q))]

\* The cas of *selectdone, which claims the right to signal.
Claim(sg) ==
  done' = [g \in Gs |-> IF g = sg.g /\ call[g].sel THEN 1 ELSE done[g]]

\* The peers a case would meet on its channel, given the channels h.
Peer(h, k) == dequeue(h[k.c].q[Other(k.dir)])

\* The buffer has room, or an element, for a case.
Room(h, k) ==
  IF k.dir = "send" THEN h[k.c].qcount < Cap[k.c] ELSE h[k.c].qcount > 0

Able(h, k) == IF Cap[k.c] = 0 THEN Peer(h, k).sg # NoSg ELSE Room(h, k)

\* The failed dequeue of a case that has to wait empties the peers' queue.
Passed(h, k) ==
  IF Cap[k.c] = 0 THEN [h EXCEPT ![k.c].q[Other(k.dir)] = <<>>] ELSE h

enqueue(h, k, sg) == [h EXCEPT ![k.c].q[k.dir] = Append(@, sg)]

Next1(c, x) == IF x + 1 = Cap[c] THEN 0 ELSE x + 1

\* Mutant of SendBuf: forgets to advance sendx.
SendBufStuck(h, k) == [h EXCEPT ![k.c].buf[h[k.c].sendx] = k.val, ![k.c].qcount = @ + 1]

SendBuf(h, k) ==
  [h EXCEPT ![k.c].buf[h[k.c].sendx] = k.val,
            ![k.c].sendx = Next1(k.c, @), ![k.c].qcount = @ + 1]

\* Mutant of RecvBuf: forgets to advance recvx.
RecvBufStuck(h, k) == [h EXCEPT ![k.c].buf[h[k.c].recvx] = 0, ![k.c].qcount = @ - 1]

RecvBuf(h, k) ==
  [h EXCEPT ![k.c].buf[h[k.c].recvx] = 0,
            ![k.c].recvx = Next1(k.c, @), ![k.c].qcount = @ - 1]

\* The call of g returns: case i was served (0 for none), a receive got v.
Result(g, i, v) ==
  /\ call' = [call EXCEPT ![g] = NoCall]
  /\ out' = [x \in Vals |->
       IF ~\E j \in DOMAIN Cases(g) : Cases(g)[j].val = x THEN out[x]
       ELSE IF i > 0 /\ Cases(g)[i].val = x THEN "sent" ELSE "failed"]
  /\ in' = [x \in Vals |-> IF x = v THEN in[x] + 1 ELSE in[x]]

\* A call that touches nobody else returns.
Return(g, i, v) ==
  Result(g, i, v) /\ got' = [got EXCEPT ![g] = 0] /\ Goto(g, "idle")

\* goready throws if the goroutine is not waiting; g goes on at l.
Goready(g, to, l) ==
  IF pc[to] = "parked" THEN pc' = [pc EXCEPT ![to] = "woken", ![g] = l]
  ELSE Goto(g, "throw")

\* Case i of g meets a goroutine waiting on a synchronous channel.
Rendezvous(g, i, h) ==
  LET k == Cases(g)[i] IN
  /\ Cap[k.c] = 0
  /\ Peer(h, k).sg # NoSg
  /\ hchan' = [h EXCEPT ![k.c].q[Other(k.dir)] = Peer(h, k).rest]
  /\ Claim(Peer(h, k).sg)
  /\ wake' = [wake EXCEPT ![g] = [sg |-> Peer(h, k).sg, i |-> i]]
  /\ Goto(g, "deliver")
  /\ UNCHANGED <<call, param, got, nv, out, in>>

\* Case i of g uses the buffer, and pings a goroutine on the other side.
Buffered(g, i, h) ==
  LET k == Cases(g)[i]
      p == Peer(h, k)
      v == IF k.dir = "recv" THEN h[k.c].buf[h[k.c].recvx] ELSE 0
      h1 == IF k.dir = "send" THEN SendBuf(h, k) ELSE RecvBuf(h, k)
  IN
  /\ Cap[k.c] > 0
  /\ Room(h, k)
  /\ hchan' = [h1 EXCEPT ![k.c].q[Other(k.dir)] = p.rest]
  /\ Claim(p.sg)
  /\ IF p.sg = NoSg
     THEN Return(g, i, v) /\ UNCHANGED wake
     ELSE /\ wake' = [wake EXCEPT ![g] = [sg |-> p.sg, i |-> i]]
          /\ got' = [got EXCEPT ![g] = v]
          /\ Goto(g, "ready")
          /\ UNCHANGED <<call, out, in>>
  /\ UNCHANGED <<param, nv>>

(***************************************************************************)
(* After the unlock of a rendezvous the value is copied between the two    *)
(* stacks, param is set and the other goroutine made runnable.             *)
(***************************************************************************)
Deliver(g) ==
  LET sg == wake[g].sg
      i == wake[g].i
      theirs == Cases(sg.g)[sg.i].val
  IN
  /\ pc[g] = "deliver"
  /\ param' = [param EXCEPT ![sg.g] = sg.i]
  /\ wake' = [wake EXCEPT ![g] = NoWake]
  /\ Goready(g, sg.g, "idle")
  /\ IF Cases(g)[i].dir = "send"
     THEN Result(g, i, 0) /\ got' = [got EXCEPT ![sg.g] = Cases(g)[i].val]
     ELSE Result(g, i, theirs) /\ UNCHANGED got
  /\ UNCHANGED <<hchan, done, nv>>

ReadyPeer(g) ==
  /\ pc[g] = "ready"
  /\ wake' = [wake EXCEPT ![g] = NoWake]
  /\ Goready(g, wake[g].sg.g, "idle")
  /\ Result(g, wake[g].i, got[g])
  /\ got' = [got EXCEPT ![g] = 0]
  /\ UNCHANGED <<hchan, done, param, nv>>

----------------------------------------------------------------------------
(* chansend and chanrecv *)

\* A goroutine enters a channel operation; every send gets a value of its own.
Call(g) ==
  /\ pc[g] = "idle"
  /\ \E s \in MayCall[g] :
       LET sends == {i \in DOMAIN s.cases : s.cases[i].dir = "send"}
           number(i) == nv + Cardinality({j \in sends : j <= i})
       IN
       /\ nv + Cardinality(sends) <= MaxVals
       /\ nv' = nv + Cardinality(sends)
       /\ call' = [call EXCEPT ![g] =
            [s EXCEPT !.cases = [i \in DOMAIN s.cases |->
               [dir |-> s.cases[i].dir, c |-> s.cases[i].c,
                val |-> IF i \in sends THEN number(i) ELSE 0]]]]
       /\ Goto(g, IF s.sel THEN "sellock" ELSE IF s.block THEN "lock" ELSE "fast")
  /\ UNCHANGED <<hchan, done, param, got, wake, out, in>>

\* The fast path's unlocked test: nobody waits, or no room in the buffer.
LooksUnready(k) ==
  IF Cap[k.c] = 0 THEN hchan[k.c].q[Other(k.dir)] = <<>> ELSE ~Room(hchan, k)

\* Mutant of FastFirst: chanrecv, too, may read closed first.
FastFirstAny(g) ==
  /\ pc[g] = "fast"
  /\ \/ Goto(g, IF LooksUnready(Cases(g)[1]) THEN "fastc" ELSE "lock")
     \/ Goto(g, IF hchan[Cases(g)[1].c].closed THEN "lock" ELSE "fastq")
  /\ UNCHANGED <<hchan, call, done, param, got, wake, nv, out, in>>

(***************************************************************************)
(* The first of two unlocked reads.  "It is okay if the reads are          *)
(* reordered" in chansend, where they are plain reads; in chanrecv "the    *)
(* order of operations is important", and the loads are atomic.            *)
(***************************************************************************)
FastFirst(g) ==
  /\ pc[g] = "fast"
  /\ \/ Goto(g, IF LooksUnready(Cases(g)[1]) THEN "fastc" ELSE "lock")
     \/ /\ Cases(g)[1].dir = "send"
        /\ Goto(g, IF hchan[Cases(g)[1].c].closed THEN "lock" ELSE "fastq")
  /\ UNCHANGED <<hchan, call, done, param, got, wake, nv, out, in>>

FastFail(g) ==
  /\ \/ pc[g] = "fastc" /\ ~hchan[Cases(g)[1].c].closed
     \/ pc[g] = "fastq" /\ LooksUnready(Cases(g)[1])
  /\ Return(g, 0, 0)
  /\ UNCHANGED <<hchan, done, param, wake, nv>>

FastSlow(g) ==
  /\ \/ pc[g] = "fastc" /\ hchan[Cases(g)[1].c].closed
     \/ pc[g] = "fastq" /\ ~LooksUnready(Cases(g)[1])
  /\ Goto(g, "lock")
  /\ UNCHANGED <<hchan, call, done, param, got, wake, nv, out, in>>

\* g gets the lock for its plain send, receive or close.
AtLock(g, dir) ==
  /\ pc[g] = "lock"
  /\ Cases(g)[1].dir = dir
  /\ hchan[Cases(g)[1].c].lock = NoG

\* Sending on a closed channel panics; receiving yields a zero value once the
\* buffer is empty (recvclosed).
MeetsClosed(g) ==
  LET k == Cases(g)[1] IN
  /\ pc[g] = "lock"
  /\ hchan[k.c].closed
  /\ \/ AtLock(g, "send") /\ Return(g, 0, 0)
     \/ AtLock(g, "recv") /\ (Cap[k.c] = 0 \/ ~Room(hchan, k)) /\ Return(g, 1, 0)
  /\ UNCHANGED <<hchan, done, param, wake, nv>>

\* A send, or a receive from an open or a non-empty channel, is served at once.
Served(g) ==
  LET k == Cases(g)[1] IN
  /\ \/ AtLock(g, "send") /\ ~hchan[k.c].closed
     \/ AtLock(g, "recv") /\ (hchan[k.c].closed => Cap[k.c] > 0)
  /\ \/ Rendezvous(g, 1, hchan)
     \/ Buffered(g, 1, hchan)

\* Nobody to meet and no room: the call fails, or joins the queue and parks.
NotServed(g) ==
  LET k == Cases(g)[1] IN
  /\ AtLock(g, "send") \/ AtLock(g, "recv")
  /\ ~hchan[k.c].closed
  /\ ~Able(hchan, k)
  /\ IF call[g].block
     THEN /\ hchan' = enqueue(Passed(hchan, k), k, [g |-> g, i |-> 1])
          /\ param' = [param EXCEPT ![g] = IF Cap[k.c] = 0 THEN 0 ELSE @]
          /\ Goto(g, "parked")
          /\ UNCHANGED <<call, out, in, got>>
     ELSE hchan' = Passed(hchan, k) /\ Return(g, 0, 0) /\ UNCHANGED param
  /\ UNCHANGED <<done, wake, nv>>

(***************************************************************************)
(* "someone woke us up": on a buffered channel try again; on a synchronous *)
(* one the other side has served us, or the channel was closed (chanrecv   *)
(* takes the lock before it looks), or it throws a spurious wakeup.        *)
(***************************************************************************)
Woken(g) ==
  LET k == Cases(g)[1] IN
  /\ pc[g] = "woken"
  /\ ~call[g].sel
  /\ param' = [param EXCEPT ![g] = IF Cap[k.c] = 0 THEN 0 ELSE @]
  /\ \/ /\ Cap[k.c] > 0
        /\ Goto(g, "lock")
        /\ UNCHANGED <<call, out, in, got>>
     \/ /\ Cap[k.c] = 0
        /\ param[g] # 0
        /\ Return(g, 1, got[g])
     \/ /\ Cap[k.c] = 0
        /\ param[g] = 0
        /\ k.dir = "recv" => hchan[k.c].lock = NoG
        /\ IF hchan[k.c].closed
           THEN Return(g, IF k.dir = "send" THEN 0 ELSE 1, 0)
           ELSE Goto(g, "throw") /\ UNCHANGED <<call, out, in, got>>
  /\ UNCHANGED <<hchan, done, wake, nv>>

----------------------------------------------------------------------------
(* closechan *)

Closechan(g) ==
  LET c == Cases(g)[1].c IN
  /\ AtLock(g, "close")
  /\ IF hchan[c].closed
     THEN Return(g, 0, 0) /\ UNCHANGED hchan
     ELSE /\ hchan' = [hchan EXCEPT ![c].closed = TRUE, ![c].lock = g]
          /\ Goto(g, "closing")
          /\ UNCHANGED <<call, out, in, got>>
  /\ UNCHANGED <<done, param, wake, nv>>

\* Mutant of CloseRelease: forgets the senders.
CloseReleaseReaders(g) ==
  LET c == Cases(g)[1].c
      p == dequeue(hchan[c].q.recv)
  IN
  /\ pc[g] = "closing"
  /\ Claim(p.sg)
  /\ IF p.sg # NoSg
     THEN /\ hchan' = [hchan EXCEPT ![c].q.recv = p.rest]
          /\ param' = [param EXCEPT ![p.sg.g] = 0]
          /\ Goready(g, p.sg.g, "closing")
          /\ UNCHANGED <<call, out, in, got>>
     ELSE /\ hchan' = [hchan EXCEPT ![c].q.recv = <<>>, ![c].lock = NoG]
          /\ Return(g, 0, 0)
          /\ UNCHANGED param
  /\ UNCHANGED <<wake, nv>>

\* Releases one reader, then one writer, and unlocks when nobody is left.
CloseRelease(g) ==
  LET c == Cases(g)[1].c
      dir == IF dequeue(hchan[c].q.recv).sg # NoSg THEN "recv" ELSE "send"
      p == dequeue(hchan[c].q[dir])
      h == IF dir = "send" THEN [hchan EXCEPT ![c].q.recv = <<>>] ELSE hchan
  IN
  /\ pc[g] = "closing"
  /\ Claim(p.sg)
  /\ IF p.sg # NoSg
     THEN /\ hchan' = [h EXCEPT ![c].q[dir] = p.rest]
          /\ param' = [param EXCEPT ![p.sg.g] = 0]
          /\ Goready(g, p.sg.g, "closing")
          /\ UNCHANGED <<call, out, in, got>>
     ELSE /\ hchan' = [h EXCEPT ![c].q.send = <<>>, ![c].lock = NoG]
          /\ Return(g, 0, 0)
          /\ UNCHANGED param
  /\ UNCHANGED <<wake, nv>>

ChanStep(g) ==
  \/ FastFirst(g) \/ FastFail(g) \/ FastSlow(g)
  \/ MeetsClosed(g) \/ Served(g) \/ NotServed(g) \/ Deliver(g) \/ ReadyPeer(g)
  \/ Woken(g) \/ Closechan(g) \/ CloseRelease(g)
=============================================================================
