--------------------------- MODULE MCMedianoPlazo ---------------------------
(***************************************************************************)
(* Values of the constants of MedianoPlazo for TLC.                        *)
(***************************************************************************)
EXTENDS MedianoPlazo

CONSTANTS p1, p2

UnBloqueo         == [p \in Procesos |-> 1]
SoloP1DosVeces    == [p \in Procesos |-> IF p = p1 THEN 2 ELSE 1]
PrioridadDistinta == [p \in Procesos |-> IF p = p1 THEN 1 ELSE 0]
TodosSleep        == [p \in Procesos |-> {"SLEEP"}]
SoloP1Sleep       == [p \in Procesos |-> IF p = p1 THEN {"SLEEP"} ELSE {"STDIN", "MUTEX"}]
=============================================================================
