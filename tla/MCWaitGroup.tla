----------------------------- MODULE MCWaitGroup ----------------------------
\* Four goroutines: two waiters of different rounds and two workers.
EXTENDS WaitGroup
=============================================================================
