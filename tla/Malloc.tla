------------------------------- MODULE Malloc -------------------------------
(* What the arrays of the program meet when they are made and grow.        *)
EXTENDS Naturals

CONSTANTS
    SizeMax,        \* SIZE_MAX
    MallocMayFail   \* whether malloc and realloc may return NULL

ASSUME SizeMaxAssumption == SizeMax \in Nat

=============================================================================
