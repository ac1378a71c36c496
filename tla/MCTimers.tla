------------------------------ MODULE MCTimers ------------------------------
EXTENDS Timers

CONSTANTS MaxHeap, Whens

ASSUME MCTimersAssumption == MaxHeap \in Nat /\ Whens \subseteq Int

\* The operations on the heap keep its order and lose no timer, on every heap
\* of up to MaxHeap timers due at one of the times Whens: removing any of
\* them (deltimer, timerproc), and putting off the first one (a period).
HeapOps ==
  \A n \in 1..MaxHeap :
    LET h == [k \in 1..n |-> k]
    IN  \A w \in {v \in [1..n -> Whens] : Ordered(h, v)} :
          /\ \A k \in 1..n : LET r == Removed(h, w, k)
                            IN  Ordered(r, w) /\ ToSet(r) = (1..n) \ {k}
          /\ \A d \in Whens : LET v == [w EXCEPT ![1] = @ + d]
                                 r == siftdownTimer(h, v, 1)
                             IN  Ordered(r, v) /\ ToSet(r) = 1..n

\* timers.t is a heap in every state the program reaches, with few timers, and
\* siftupTimer and siftdownTimer keep larger ones in order too, where a timer
\* moved by deltimer must go up rather than down.
HeapOrdered == Ordered(heap, left) /\ HeapOps
=============================================================================
