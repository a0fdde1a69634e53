----------------------------- MODULE MCSyscalls -----------------------------
EXTENDS Syscalls, TLC

CONSTANTS p1, p2, m1

\* p1 is the most urgent.
PrimeroUrgente == p1 :> 0 @@ p2 :> 1
DosVeces == [p \in Procesos |-> 2]
=============================================================================
