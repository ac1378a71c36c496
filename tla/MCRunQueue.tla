---------------------------- MODULE MCRunQueue ------------------------------
EXTENDS RunQueue

CONSTANTS p1, p2, g1, g2, g3, g4, g5, g6

\* Two busy Ps, which overflow their queues of four, steal from each other and
\* share a short global queue.
Busy == p1 :> <<g1, g2, g3>> @@ p2 :> <<g4, g5, g6>>
BusyPuts == p1 :> 5 @@ p2 :> 4
=============================================================================
