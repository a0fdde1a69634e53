--------------------------- MODULE MCCompactacion ---------------------------
(* Values of the constants of Compactacion for TLC. *)
EXTENDS Compactacion, TLC

CONSTANTS p1, p2

UnPedido == [p \in Procesos |-> IF p = p1 THEN 1 ELSE 0]
Simetria == Permutations(CPUs)
=============================================================================
