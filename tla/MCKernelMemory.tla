--------------------------- MODULE MCKernelMemory ---------------------------
(* Values of the constants of KernelMemory for TLC. *)
EXTENDS KernelMemory, TLC

DosSticks == <<3, 1>>
Simetria == Permutations(Procesos)
UnStick == <<3>>
=============================================================================
