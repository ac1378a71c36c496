------------------------------ MODULE MCRWMutex -----------------------------
\* Four goroutines: two writers, or a writer and readers that come and go.
EXTENDS RWMutex
=============================================================================
