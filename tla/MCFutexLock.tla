----------------------------- MODULE MCFutexLock ----------------------------
\* Four threads, so that two can sleep while one holds the mutex and one
\* arrives; each polls once before it sleeps.
EXTENDS FutexLock
=============================================================================
