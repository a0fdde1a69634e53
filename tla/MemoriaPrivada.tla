--------------------------- MODULE MemoriaPrivada ---------------------------
(***************************************************************************)
(* What the MMU, the fragmentation of an access and the memory sticks      *)
(* promise together: each process has a memory of its own, which only its  *)
(* own instructions change, and a read or a write is one step however many *)
(* sticks it goes to.  There are no CPUs, physical addresses or sticks     *)
(* here.  AccesoMemoria implements it.                                     *)
(***************************************************************************)
EXTENDS Naturals, Sequences

CONSTANTS Procesos,
          Direcciones,   (* logical addresses: segment and offset           *)
          Tamanios,      (* sizes of an access                              *)
          Bytes,
          Valor,         (* the bytes each process writes                   *)
          Ninguna        (* no instruction in course                        *)

VARIABLES datos,         (* per process, the byte at each address it has    *)
          orden,         (* per process, its instruction in course          *)
          leido          (* per process, what its last read returned        *)
vars == <<datos, orden, leido>>

Tramo(d, n) == d .. d + n - 1
Orden(op, o, d, n) == [op |-> op, origen |-> o, destino |-> d, tam |-> n]
Ordenes == [op : {"MOV_IN", "MOV_OUT", "COPY_MEM"}, origen : Direcciones \cup {0},
            destino : Direcciones \cup {0}, tam : Tamanios]

\* Only p's value of f changes, to v.
Solo(f, p, v) == f' = [f EXCEPT ![p] = v]

\* p comes to have the addresses A, with the bytes it had except for those in D.
Cambiar(p, A, D) ==
  LET antes == datos[p]
      luego == datos'[p]
  IN /\ DOMAIN luego = A
     /\ \A a \in A : luego[a] \in IF a \in D THEN Bytes ELSE {antes[a]}
     /\ Solo(datos, p, luego)

Init == /\ datos = [p \in Procesos |-> <<>>]
        /\ orden = [p \in Procesos |-> Ninguna]
        /\ leido = [p \in Procesos |-> <<>>]

\* A new segment holds whatever its bytes held before.
Reservar(p, D) == /\ UNCHANGED <<orden, leido>>
                  /\ D \subseteq Direcciones \ DOMAIN datos[p]
                  /\ Cambiar(p, D \cup DOMAIN datos[p], D)

Devolver(p, D) == /\ UNCHANGED <<orden, leido>>
                  /\ D \subseteq DOMAIN datos[p]
                  /\ Cambiar(p, DOMAIN datos[p] \ D, {})

Empezar(p, i) == orden[p] = Ninguna /\ Solo(orden, p, i) /\ UNCHANGED leido
Terminar(p)   == orden[p] # Ninguna /\ Solo(orden, p, Ninguna)

\* The whole write is visible from its start.
Escribir(p, i) ==
  LET T == Tramo(i.destino, i.tam) IN
    /\ i.op = "MOV_OUT" /\ Empezar(p, i) /\ T \subseteq DOMAIN datos[p]
    /\ Solo(datos, p, [a \in DOMAIN datos[p] |->
                        IF a \in T THEN Valor[p][a - i.destino + 1] ELSE datos[p][a]])

Pedir(p, i) ==
  /\ i.op # "MOV_OUT" /\ Empezar(p, i) /\ UNCHANGED datos
  /\ i.op = "MOV_IN" => Tramo(i.origen, i.tam) \subseteq DOMAIN datos[p]

Leer(p) ==
  LET i == orden[p] IN
    /\ i.op = "MOV_IN" /\ Terminar(p) /\ UNCHANGED datos
    /\ Solo(leido, p, [k \in 1 .. i.tam |-> datos[p][i.origen + k - 1]])

\* Of what COPY_MEM leaves only the place is promised.
CambiarDestino(p) == Cambiar(p, DOMAIN datos[p], Tramo(orden[p].destino, orden[p].tam))
Copiar(p) == orden[p].op = "COPY_MEM" /\ CambiarDestino(p) /\ UNCHANGED <<orden, leido>>

\* The end of a write or a copy.  One cut by the fall of a stick leaves the
\* bytes it named as they may be.
Soltar(p) ==
  /\ Terminar(p) /\ UNCHANGED leido
  /\ UNCHANGED datos \/ (orden[p].op # "MOV_IN" /\ CambiarDestino(p))

\* Most steps of an implementation do not show here.
NoSeVe == UNCHANGED vars

\* What p gains, loses or starts is read off the step.
Next ==
  \/ NoSeVe
  \/ \E p \in Procesos :
       \/ Reservar(p, DOMAIN datos'[p] \ DOMAIN datos[p])
       \/ Devolver(p, DOMAIN datos[p] \ DOMAIN datos'[p])
       \/ orden'[p] \in Ordenes /\ (Escribir(p, orden'[p]) \/ Pedir(p, orden'[p]))
       \/ Leer(p) \/ Copiar(p) \/ Soltar(p)

Spec == Init /\ [][Next]_vars
=============================================================================
