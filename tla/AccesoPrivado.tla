---------------------------- MODULE AccesoPrivado ----------------------------
(***************************************************************************)
(* The private memory each process sees in the memory sticks: AccesoMemoria*)
(* implements MemoriaPrivada.                                              *)
(***************************************************************************)
EXTENDS AccesoMemoria

\* The bytes a write has still to send count as written from its start.
Globales(f)  == base[f.ms] + f.dir .. base[f.ms] + f.dir + f.tam - 1
Enviando(d)  == {c \in CPUs : cpu[c].fase = "escribe" /\ \E f \in Range(cpu[c].frags) : d \in Globales(f)}
Byte(d) ==
  IF Enviando(d) # {}
    THEN LET c == CHOOSE x \in Enviando(d) : TRUE
             f == CHOOSE x \in Range(cpu[c].frags) : d \in Globales(x)
         IN cpu[c].buf[f.offset + d - (base[f.ms] + f.dir) + 1]
    ELSE LET s == CHOOSE x \in Sticks : hiloMS[x] # "afuera" /\ d - base[x] \in DOMAIN memoria[x]
         IN memoria[s][d - base[s]]

Vista == [d \in 0 .. total - 1 |-> Byte(d)]

Logicas(g) == SegMax * g.id .. SegMax * g.id + g.limite - g.base
DatosDe(p) ==
  [a \in UNION {Logicas(g) : g \in tabla[p]} |->
     LET g == CHOOSE x \in tabla[p] : a \in Logicas(x) IN Vista[g.base + a - SegMax * g.id]]

OrdenDe(p) == LET C == {c \in CPUs : cpu[c].pid = p} IN
                IF C = {} THEN Ninguna ELSE cpu[CHOOSE c \in C : TRUE].ins

Datos   == [p \in Procesos |-> DatosDe(p)]
EnOrden == [p \in Procesos |-> OrdenDe(p)]

Privada == INSTANCE MemoriaPrivada WITH
  datos <- Datos,
  orden <- EnOrden,
  Tamanios <- Registros \cup Copias,
  Bytes <- Nat

\* With two CPUs writing at once, accesses cut where a stick ends, sticks that
\* connect or fall in the middle of an access and ranges that go from one
\* process to another, no process sees or changes a byte of another, and a
\* MOV_IN returns what one whole earlier write left (mmu_traducir_direccion,
\* fragmentar_acceso_memoria, procesar_lectura, procesar_escritura).
ImplementaMemoriaPrivada == Privada!Spec
=============================================================================
