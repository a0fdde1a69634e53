--------------------------- MODULE MCPlanificador ---------------------------
(***************************************************************************)
(* Values of the constants of Planificador for TLC.                        *)
(***************************************************************************)
EXTENDS Planificador, TLC

CONSTANTS p1, p2, p3

\* p1 is urgent, the others are not.
PrioridadDosNiveles == [p \in Procesos |-> IF p = p1 THEN 0 ELSE 1]
PrioridadUnica      == [p \in Procesos |-> 0]

\* Processes of equal priority, and CPUs, are interchangeable (safety only).
Simetria == Permutations(Procesos) \cup Permutations(CPUs)
=============================================================================
