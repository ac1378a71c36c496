------------------------------- MODULE MCCond -------------------------------
\* Three goroutines: a waiter on its way, a signaller and a late waiter.
EXTENDS Cond
=============================================================================
