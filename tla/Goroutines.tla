----------------------------- MODULE Goroutines -----------------------------
(***************************************************************************)
(* The goroutines that use the primitives of package sync.                 *)
(***************************************************************************)
EXTENDS FiniteSets

CONSTANTS Gs,    \* goroutines
          NoG    \* the owner of a free mutex

ASSUME NoGAssumption == NoG \notin Gs
ASSUME GsAssumption == IsFiniteSet(Gs)
=============================================================================
