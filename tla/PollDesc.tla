------------------------------ MODULE PollDesc ------------------------------
(***************************************************************************)
(* A descriptor of the network poller (runtime/netpoll.go), with the calls *)
(* package net makes on it (net/fd_unix.go, net/fd_poll_runtime.go).       *)
(*                                                                         *)
(* One goroutine reads and one writes, each under its half of the fdMutex; *)
(* they are named by their mode, "r" and "w".  Callers set deadlines and   *)
(* close the descriptor, timerproc runs its deadline timers, the poller    *)
(* delivers readiness.  A closed descriptor is reused by the next open,    *)
(* while calls of timerproc and of the poller for its former life may      *)
(* still be under way.                                                     *)
(*                                                                         *)
(* rg and wg are read and written without the lock.  The loop of           *)
(* netpollunblock (load, cas) is one step: what it does depends only on    *)
(* the value that the last load and the cas saw.  So is netpollcheckerr:   *)
(* no deadline changes after closing is set.                               *)
(***************************************************************************)
EXTENDS Integers, FiniteSets

CONSTANTS
  Callers,     \* goroutines that call SetDeadline and Close
  Deadlines,   \* the deadlines they set: 0 none, -1 past, > 0 to come
  Users,       \* the sets of modes that goroutines may be using it in
  MaxSeq       \* bound on seq, so on deadlines set, closes and opens

ASSUME PollAssumption ==
  /\ Deadlines \subseteq Int /\ \A d \in Deadlines : d >= -1
  /\ Users \subseteq SUBSET {"r", "w"}
  /\ MaxSeq \in Nat
  /\ {"timerproc", "poller"} \cap Callers = {}

Modes == {"r", "w"}
nil == 0
pdReady == 1
pdWait == 2
G == 3                        \* the pointer of the goroutine of that mode

VARIABLES
  life,      \* "open", "closed" (fdMutex closed), "free" (in pollcache)
  closing, seq,
  gpp,       \* rg and wg: nil, pdReady, pdWait or G
  dl,        \* rd and wd
  timer,     \* rt and wt: f is the modes it expires, {} for nil
  armed,     \* the timers in the heap
  pc,        \* where the reader and the writer are, "none" if there is none
  io,        \* the socket would not block
  ev,        \* epoll holds an event
  thr,       \* callers, timerproc and poller
  bad        \* a gothrow was reached

Timerproc == "timerproc"
Poller == "poller"
Threads == Callers \cup {Timerproc, Poller}

desc == <<closing, seq, dl, timer, armed>>
vars == <<life, closing, seq, gpp, dl, timer, armed, pc, io, ev, thr, bad>>

\* A thread: the modes it has still to unblock, those whose goroutine it
\* has taken off the semaphore and has still to ready, and its arguments.
Idle == [pc |-> "idle", todo |-> {}, rdy |-> {}, d |-> 0, seq |-> 0,
         modes |-> {}]

\* A timer without f; its other fields are not read before they are set.
NoTimer == [f |-> {}, when |-> 0, seq |-> 0]

Init ==
  /\ life = "free" /\ closing = FALSE /\ seq = 0
  /\ gpp = [m \in Modes |-> nil] /\ dl = [m \in Modes |-> 0]
  /\ timer = [m \in Modes |-> NoTimer]
  /\ armed = {}
  /\ \E u \in Users : pc = [m \in Modes |-> IF m \in u THEN "idle" ELSE "none"]
  /\ io = [m \in Modes |-> FALSE] /\ ev = [m \in Modes |-> FALSE]
  /\ thr = [t \in Threads |-> Idle]
  /\ bad = FALSE

Goto(m, l) == pc' = [pc EXCEPT ![m] = l]

checkerr(m) == closing \/ dl[m] < 0

\* The thread that holds pd.lock.
Locked == \E t \in Threads \ {Poller} : thr[t].pc = "unblock"

----------------------------------------------------------------------------
(* The reader and the writer: netFD.Read and Write *)

ReadLock(m) ==
  /\ pc[m] = "idle" /\ life = "open"
  /\ Goto(m, "reset")
  /\ UNCHANGED <<life, desc, gpp, io, ev, thr, bad>>

Reset(m) ==
  /\ pc[m] = "reset"
  /\ Goto(m, IF checkerr(m) THEN "idle" ELSE "clear")
  /\ UNCHANGED <<life, desc, gpp, io, ev, thr, bad>>

ResetStore(m) ==
  /\ pc[m] = "clear"
  /\ gpp' = [gpp EXCEPT ![m] = nil]
  /\ Goto(m, "io")
  /\ UNCHANGED <<life, desc, io, ev, thr, bad>>

\* The system call: EAGAIN unless the socket is ready.
Syscall(m) ==
  /\ pc[m] = "io"
  /\ io' = [io EXCEPT ![m] = FALSE]
  /\ Goto(m, IF io[m] THEN "idle" ELSE "wait")
  /\ UNCHANGED <<life, desc, gpp, ev, thr, bad>>

Wait(m) ==
  /\ pc[m] = "wait"
  /\ Goto(m, IF checkerr(m) THEN "idle" ELSE "block")
  /\ UNCHANGED <<life, desc, gpp, io, ev, thr, bad>>

\* netpollblock announces the goroutine, or finds a notification.
Block(m) ==
  /\ pc[m] = "block"
  /\ gpp' = [gpp EXCEPT ![m] = IF @ = nil THEN pdWait ELSE @]
  /\ Goto(m, IF gpp[m] = pdReady THEN "take" ELSE "recheck")
  /\ bad' = (bad \/ gpp[m] \notin {nil, pdReady})
  /\ UNCHANGED <<life, desc, io, ev, thr>>

\* The notification found is taken by a plain store.
Take(m) ==
  /\ pc[m] = "take"
  /\ gpp' = [gpp EXCEPT ![m] = nil]
  /\ Goto(m, "io")
  /\ UNCHANGED <<life, desc, io, ev, thr, bad>>

\* Parks without looking again at the errors.
RecheckNot(m) ==
  /\ pc[m] = "recheck"
  /\ Goto(m, "park")
  /\ UNCHANGED <<life, desc, gpp, io, ev, thr, bad>>

Recheck(m) ==
  /\ pc[m] = "recheck"
  /\ Goto(m, IF checkerr(m) THEN "swap" ELSE "park")
  /\ UNCHANGED <<life, desc, gpp, io, ev, thr, bad>>

\* gopark runs netpollblockcommit once the goroutine is off its thread.
BlockCommit(m) ==
  /\ pc[m] = "park"
  /\ gpp' = [gpp EXCEPT ![m] = IF @ = pdWait THEN G ELSE @]
  /\ Goto(m, IF gpp[m] = pdWait THEN "parked" ELSE "swap")
  /\ UNCHANGED <<life, desc, io, ev, thr, bad>>

\* Looks at the semaphore without taking it back.
SwapLoad(m) ==
  /\ pc[m] = "swap"
  /\ Goto(m, IF gpp[m] = pdReady THEN "io" ELSE "recheckerr")
  /\ UNCHANGED <<life, desc, gpp, io, ev, thr, bad>>

Swap(m) ==
  /\ pc[m] = "swap"
  /\ gpp' = [gpp EXCEPT ![m] = nil]
  /\ Goto(m, IF gpp[m] = pdReady THEN "io" ELSE "recheckerr")
  /\ bad' = (bad \/ gpp[m] = G)
  /\ UNCHANGED <<life, desc, io, ev, thr>>

\* Unblocked by a timeout or a close, or by a timeout since taken back.
WaitAgain(m) ==
  /\ pc[m] = "recheckerr"
  /\ Goto(m, IF checkerr(m) THEN "idle" ELSE "block")
  /\ UNCHANGED <<life, desc, gpp, io, ev, thr, bad>>

----------------------------------------------------------------------------
(* Unblocking, common to all threads *)

\* A thread's unblocking goes "r" first.
Next1(todo) == IF "r" \in todo THEN "r" ELSE "w"

\* netpollunblock, called by a thread t for the first mode it has to do.
netpollunblock(t) ==
  LET m == Next1(thr[t].todo)
      ioready == t = Poller
      stays == gpp[m] = pdReady \/ (gpp[m] = nil /\ ~ioready)
  IN /\ thr[t].pc = "unblock" /\ thr[t].todo # {}
     /\ gpp' = [gpp EXCEPT ![m] = IF stays THEN @
                                  ELSE IF ioready THEN pdReady ELSE nil]
     /\ thr' = [thr EXCEPT ![t].todo = @ \ {m},
                           ![t].rdy = IF gpp[m] = G THEN @ \cup {m} ELSE @]
     /\ UNCHANGED <<life, desc, pc, io, ev, bad>>

Unlock(t) ==
  /\ thr[t].pc = "unblock" /\ thr[t].todo = {}
  /\ thr' = [thr EXCEPT ![t] = IF @.rdy = {} THEN Idle
                               ELSE [Idle EXCEPT !.pc = "ready",
                                                 !.rdy = thr[t].rdy]]
  /\ UNCHANGED <<life, desc, gpp, pc, io, ev, bad>>

\* goready makes a parked goroutine runnable, and throws for any other.
Goready(t) ==
  LET m == Next1(thr[t].rdy)
  IN /\ thr[t].pc = "ready"
     /\ thr' = [thr EXCEPT ![t] = IF @.rdy = {m} THEN Idle
                                  ELSE [@ EXCEPT !.rdy = thr[t].rdy \ {m}]]
     /\ pc' = [pc EXCEPT ![m] = IF @ = "parked" THEN "swap" ELSE @]
     /\ bad' = (bad \/ pc[m] # "parked")
     /\ UNCHANGED <<life, desc, gpp, io, ev>>

----------------------------------------------------------------------------
(* Callers: deadlines, close, open *)

SetDeadlineCall(t) ==
  /\ thr[t] = Idle /\ life = "open" /\ seq < MaxSeq
  /\ thr' = [thr EXCEPT ![t].pc = "set"]
  /\ UNCHANGED <<life, desc, gpp, pc, io, ev, bad>>

\* The heap once the timers with an f are deleted from it.
deltimers == {m \in armed : timer[m].f = {}}

\* The timers of netpollSetDeadline: one for both modes, or one for each.
Timers(newdl, newseq) ==
  LET both == newdl["r"] > 0 /\ newdl["r"] = newdl["w"]
      f(m) == IF both THEN IF m = "r" THEN Modes ELSE {}
              ELSE IF newdl[m] > 0 THEN {m} ELSE {}
  IN [m \in Modes |->
        IF f(m) = {} THEN NoTimer
        ELSE [f |-> f(m), when |-> newdl[m], seq |-> newseq]]

\* The arguments are chosen once the lock is held: nobody sees them before.
SetDeadline(t) ==
  /\ thr[t].pc = "set" /\ ~Locked
  /\ IF closing
     THEN /\ thr' = [thr EXCEPT ![t] = Idle]
          /\ UNCHANGED <<seq, timer, armed, dl, bad>>
     ELSE /\ seq' = seq + 1
          /\ \E d \in Deadlines, mode \in SUBSET Modes \ {{}} :
               dl' = [m \in Modes |-> IF m \in mode THEN d ELSE dl[m]]
          /\ timer' = Timers(dl', seq')
          /\ armed' = deltimers \cup {m \in Modes : timer'[m].f # {}}
          /\ bad' = (bad \/ \E m \in deltimers : timer'[m].f # {})
          /\ thr' = [thr EXCEPT ![t].pc = "unblock",
                                ![t].todo = {m \in Modes : dl'[m] < 0}]
  /\ UNCHANGED <<life, closing, gpp, pc, io, ev>>

\* netFD.Close: IncrefAndClose lets nobody in after it.
Close(t) ==
  /\ thr[t] = Idle /\ life = "open"
  /\ life' = "closed"
  /\ thr' = [thr EXCEPT ![t].pc = "evict"]
  /\ UNCHANGED <<desc, gpp, pc, io, ev, bad>>

Evicting(t, ms) ==
  /\ thr[t].pc = "evict" /\ ~Locked
  /\ bad' = (bad \/ closing)
  /\ closing' = TRUE /\ seq' = seq + 1
  /\ timer' = [m \in Modes |-> NoTimer]
  /\ armed' = deltimers
  /\ thr' = [thr EXCEPT ![t].pc = "unblock", ![t].todo = ms]
  /\ UNCHANGED <<life, gpp, dl, pc, io, ev>>

\* Evicts the reader only.
EvictReader(t) == Evicting(t, {"r"})

\* netpollUnblock: the timers go after the goroutines, all under the lock
\* that timerproc needs before it looks at them.
Evict(t) == Evicting(t, Modes)

\* The last reference closes the descriptor and frees it.
NetpollClose ==
  /\ life = "closed"
  /\ \A m \in Modes : pc[m] \in {"idle", "none"}
  /\ \A t \in Callers : thr[t] = Idle
  /\ life' = "free"
  /\ bad' = (bad \/ ~closing \/ \E m \in Modes : gpp[m] \notin {nil, pdReady})
  /\ ev' = [m \in Modes |-> FALSE]
  /\ UNCHANGED <<desc, gpp, pc, io, thr>>

NetpollOpen ==
  /\ life = "free" /\ ~Locked /\ seq < MaxSeq
  /\ life' = "open"
  /\ closing' = FALSE /\ seq' = seq + 1
  /\ gpp' = [m \in Modes |-> nil] /\ dl' = [m \in Modes |-> 0]
  /\ io' = [m \in Modes |-> FALSE] /\ ev' = [m \in Modes |-> FALSE]
  /\ bad' = (bad \/ \E m \in Modes : gpp[m] \notin {nil, pdReady})
  /\ UNCHANGED <<timer, armed, pc, thr>>

----------------------------------------------------------------------------
(* timerproc and the poller *)

\* timerproc takes a timer that is due off the heap and calls its f.
TimerFires ==
  /\ thr[Timerproc] = Idle
  /\ \E m \in armed :
       /\ armed' = armed \ {m}
       /\ thr' = [thr EXCEPT ![Timerproc] =
                    [Idle EXCEPT !.pc = "fire", !.modes = timer[m].f,
                                 !.seq = timer[m].seq, !.d = timer[m].when]]
  /\ UNCHANGED <<life, closing, seq, gpp, dl, timer, pc, io, ev, bad>>

\* netpolldeadlineimpl past its check of seq.
Expire ==
  LET ms == thr[Timerproc].modes
  IN /\ bad' = \/ bad
                \/ \E m \in ms : dl[m] <= 0
                \/ timer[Next1(ms)].f = {}
     /\ dl' = [m \in Modes |-> IF m \in ms THEN -1 ELSE dl[m]]
     /\ timer' = [m \in Modes |-> IF m \in ms THEN NoTimer ELSE timer[m]]
     /\ thr' = [thr EXCEPT ![Timerproc] = [Idle EXCEPT !.pc = "unblock",
                                                      !.todo = ms]]

\* The check of seq forgotten.
DeadlineImplAny ==
  /\ thr[Timerproc].pc = "fire" /\ ~Locked
  /\ Expire
  /\ UNCHANGED <<life, closing, seq, gpp, armed, pc, io, ev>>

DeadlineImpl ==
  /\ thr[Timerproc].pc = "fire" /\ ~Locked
  /\ IF thr[Timerproc].seq # seq
     THEN thr' = [thr EXCEPT ![Timerproc] = Idle] /\ UNCHANGED <<dl, timer, bad>>
     ELSE Expire
  /\ UNCHANGED <<life, closing, seq, gpp, armed, pc, io, ev>>

\* External: the kernel makes the socket ready and epoll reports the edge.
Arrive(m) ==
  /\ life # "free" /\ pc[m] # "none" /\ ~io[m]
  /\ io' = [io EXCEPT ![m] = TRUE] /\ ev' = [ev EXCEPT ![m] = TRUE]
  /\ UNCHANGED <<life, desc, gpp, pc, thr, bad>>

\* epollwait fetches the event; netpollready acts on it.
Poll ==
  /\ thr[Poller] = Idle
  /\ \E m \in Modes : ev[m]
  /\ ev' = [m \in Modes |-> FALSE]
  /\ thr' = [thr EXCEPT ![Poller].pc = "unblock",
                        ![Poller].todo = {m \in Modes : ev[m]}]
  /\ UNCHANGED <<life, desc, gpp, pc, io, bad>>

----------------------------------------------------------------------------
(* The specification *)

GStep(m) ==
  \/ Reset(m) \/ ResetStore(m) \/ Syscall(m) \/ Wait(m) \/ Block(m)
  \/ Take(m) \/ Recheck(m) \/ BlockCommit(m) \/ Swap(m) \/ WaitAgain(m)

TStep(t) == netpollunblock(t) \/ Unlock(t) \/ Goready(t)

CStep(t) == SetDeadline(t) \/ Evict(t)

Next ==
  \/ \E m \in Modes : ReadLock(m) \/ GStep(m) \/ Arrive(m)
  \/ \E t \in Threads : TStep(t)
  \/ \E t \in Callers : SetDeadlineCall(t) \/ Close(t) \/ CStep(t)
  \/ NetpollClose \/ NetpollOpen \/ TimerFires \/ DeadlineImpl \/ Poll

(***************************************************************************)
(* Calls that have begun go on, the poller is called again and again (by   *)
(* idle threads and by sysmon) and timerproc runs; nobody has to call, and *)
(* the network has nothing to send.                                        *)
(***************************************************************************)
Fairness ==
  /\ \A m \in Modes : WF_vars(GStep(m))
  /\ \A t \in Threads : WF_vars(TStep(t))
  /\ \A t \in Callers : WF_vars(CStep(t))
  /\ WF_vars(DeadlineImpl)
  /\ WF_vars(Poll) /\ WF_vars(NetpollClose)

Spec == Init /\ [][Next]_vars /\ Fairness

----------------------------------------------------------------------------
(* Properties *)

(***************************************************************************)
(* No gothrow is reached: no double wait, no corrupted semaphore, nobody   *)
(* blocked on a descriptor being closed or opened, no timer callback       *)
(* without its deadline, no timer added to the heap twice, and no          *)
(* goroutine readied that is not parked (netpoll.go, ready in proc.c).     *)
(***************************************************************************)
NeverThrows == ~bad

\* A thread is about to wake the goroutine of mode m.
Coming(m) == \E t \in Threads : m \in thr[t].todo \cup thr[t].rdy

(***************************************************************************)
(* A parked goroutine that has a reason to run is on its way to run: its   *)
(* socket has become ready, and epoll or a thread in netpollready knows;   *)
(* or its deadline has passed or the descriptor is closing, and the        *)
(* thread that made it so has its semaphore still to do.  It needs the     *)
(* recheck of netpollblock and the order of stores in the unblockers.      *)
(***************************************************************************)
NoForgottenWaiter ==
  \A m \in Modes : pc[m] = "parked" =>
    /\ io[m] => ev[m] \/ Coming(m)
    /\ checkerr(m) => Coming(m)

(***************************************************************************)
(* A timer only ever expires the deadline it was set for: a timer popped   *)
(* before its deadline was changed, or before the descriptor was closed    *)
(* and opened again for another connection, changes nothing.               *)
(***************************************************************************)
TimeoutHonest ==
  [][\A m \in Modes : DeadlineImpl /\ dl'[m] # dl[m] =>
       dl[m] = thr[Timerproc].d]_vars

(***************************************************************************)
(* Close ends: whoever is blocked on the descriptor when it is closed      *)
(* leaves it, and the last one frees it ("This should happen fairly        *)
(* quickly", net/fd_unix.go).                                              *)
(***************************************************************************)
CloseCompletes == life = "closed" ~> life = "free"

=============================================================================
