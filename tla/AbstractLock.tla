---------------------------- MODULE AbstractLock ----------------------------
(***************************************************************************)
(* What a runtime mutex promises to its callers: at most one owner, handed *)
(* to a thread that asked for it.  FutexLock implements it.                *)
(***************************************************************************)
CONSTANTS Threads, NoOwner

VARIABLES owner,    \* the thread between lock's return and unlock
          want      \* the threads inside lock

vars == <<owner, want>>

Init == owner = NoOwner /\ want = {}

\* lock is called and does not return at once.
Request(t) ==
  /\ t # owner
  /\ t \notin want
  /\ want' = want \cup {t}
  /\ UNCHANGED owner

\* lock returns, at once or after having waited.
Acquire(t) ==
  /\ owner = NoOwner
  /\ owner' = t
  /\ want' = want \ {t}

\* unlock releases the mutex.
Release(t) ==
  /\ owner = t
  /\ owner' = NoOwner
  /\ UNCHANGED want

Next == \E t \in Threads : Request(t) \/ Acquire(t) \/ Release(t)

Spec == Init /\ [][Next]_vars
=============================================================================
