----------------------------- MODULE MCSyncMutex ----------------------------
\* Three goroutines: a holder, a woken waiter and one that barges in.
EXTENDS SyncMutex
=============================================================================
