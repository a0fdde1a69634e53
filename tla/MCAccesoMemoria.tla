-------------------------- MODULE MCAccesoMemoria --------------------------
(***************************************************************************)
(* Values of the constants of AccesoMemoria for TLC.                       *)
(***************************************************************************)
EXTENDS AccesoPrivado

CONSTANTS p1, p2, s1, s2, c1, c2

UnoYDos      == [s \in Sticks |-> IF s = s1 THEN 1 ELSE 2]
DosEscriben  == [p \in Procesos |-> IF p = p1 THEN <<1, 2>> ELSE <<2, 1>>]

\* p1 writes and then reads, with one byte; p2 does anything, with two.
EscribeYLee  == [p \in Procesos |-> IF p = p1 THEN <<{"MOV_OUT"}, {"MOV_IN"}>>
                                            ELSE <<{"MOV_IN", "MOV_OUT", "COPY_MEM", "SYSCALL"}>>]
UnoYDosBytes == [p \in Procesos |-> IF p = p1 THEN {1} ELSE {2}]

\* p1 executes two instructions and p2 one.
DosYUna      == LET Cualquiera == {"MOV_IN", "MOV_OUT", "SYSCALL"}
                IN [p \in Procesos |-> IF p = p1 THEN <<Cualquiera, Cualquiera>> ELSE <<Cualquiera>>]
UnoODos      == [p \in Procesos |-> 1 .. 2]
=============================================================================
