---------------------------- MODULE KernelMemory ----------------------------
(***************************************************************************)
(* The memory of kernel_memory: the list of free holes, the segments of    *)
(* each process, compaction, and suspension to swap.  One thread serves    *)
(* the requests of kernel_scheduler one after the other; one thread for    *)
(* each memory stick adds memory meanwhile.                                *)
(*                                                                         *)
(* A step is one critical section.  Reads and writes of the sticks and of  *)
(* swap are synchronous round trips of the serving thread, and no other    *)
(* thread looks at what they touch: they are in the step that decides them.*)
(***************************************************************************)
EXTENDS Naturals, Sequences, FiniteSets, SequencesExt, FiniteSetsExt

CONSTANTS
  Procesos, Ninguno,
  Ids,          (* segment identifiers a program uses                       *)
  Tamanios,     (* segment sizes, in bytes                                  *)
  TamStick,     (* size of each memory stick that may connect               *)
  NumBloques,   (* whole blocks of the swap                                 *)
  PorByte,      (* bound: bits of a byte of bitmap_swap, 8 in the code      *)
  TamBloque,    (* swap_block_size                                          *)
  Estrategia    (* ALLOCATION_STRATEGY                                      *)

ASSUME KernelMemoryAssumption ==
  /\ Ninguno \notin Procesos
  /\ IsFiniteSet(Procesos) /\ IsFiniteSet(Ids)
  /\ Tamanios \subseteq Nat \ {0}
  /\ TamStick \in Seq(Nat \ {0})
  /\ NumBloques \in Nat /\ TamBloque \in Nat \ {0} /\ PorByte \in Nat \ {0}
  /\ Estrategia \in {"BEST", "WORST"}

VARIABLES
  total,        (* memoria_total                                            *)
  huecos,       (* lista_huecos_libres; limite is base + tam - 1            *)
  stick,        (* progress of the thread of each stick, and its base       *)
  procesos,     (* keys of the dictionary procesos                          *)
  suspendidos,  (* those with suspendido = true                             *)
  segs,         (* tabla_segmentos of each process                          *)
  bloques,      (* bits set in bitmap_swap                                  *)
  mem, disco,   (* what the bytes of the sticks and the swap blocks hold    *)
  pedidas,      (* INICIAR_COMPACTACION not yet answered by CPUS_DESALOJADAS*)
  ks,           (* program counter and locals of the serving thread         *)
  fugas,        (* bytes out of every list (segment of a missing process)   *)
  sinDuenio,    (* swap blocks of processes that ended while suspended      *)
  dobles,       (* bytes the code put in two lists                          *)
  caida         (* it dereferenced NULL, or left the bits of bitmap_swap    *)

historia == <<fugas, sinDuenio, dobles, caida>>
tablas   == <<procesos, suspendidos, segs>>
swap     == <<bloques, disco>>
vars == <<total, huecos, stick, tablas, swap, mem, pedidas, ks, historia>>

Sticks == DOMAIN TamStick
Capacidad(S) == Cardinality(UNION {{k} \X (1 .. TamStick[k]) : k \in S})
Tope   == Capacidad(Sticks)
\* SWAP_REQUEST rounds the bitmap up to whole bytes: its last bits are handed out too, and
\* the file behind the swap grows when a block past its end is written.
MaxBit == ((NumBloques + PorByte - 1) \div PorByte) * PorByte
Bits   == 0 .. MaxBit - 1
Nada   == <<>>                      \* contents nobody will read

Bytes(t)    == t.base .. t.base + t.tam - 1
Tramo(b, t) == [pid |-> Ninguno, i |-> 0, base |-> b, tam |-> t]
EnTabla     == UNION {{p} \X DOMAIN segs[p] : p \in Procesos}
Residentes  == {x \in EnTabla : ~segs[x[1]][x[2]].enSwap}

\* What byte j of segment id of p holds once the program has written it.
Marca(p, id, j) == <<p, id, j>>

Ocioso == [fase |-> "libre", pid |-> Ninguno, id |-> 0, tam |-> 0, base |-> 0, i |-> 0,
           cola |-> <<>>]

TramoTipo == [pid : Procesos \cup {Ninguno}, i : Nat, base : Nat, tam : Nat]
TypeOK ==
  /\ total \in 0 .. Tope
  /\ huecos \in Seq([base : Nat, tam : Nat \ {0}])
  /\ stick \in [Sticks -> [fase : {"no", "hueco", "posicion", "listo"}, base : Nat]]
  /\ procesos \subseteq Procesos /\ suspendidos \subseteq procesos
  /\ segs \in [Procesos -> Seq([id : Ids, base : Nat, tam : Tamanios, enSwap : BOOLEAN,
                                bloque : Bits \cup {MaxBit}])]
  /\ bloques \subseteq Bits /\ sinDuenio \subseteq Bits
  /\ DOMAIN mem = 0 .. Tope - 1 /\ DOMAIN disco = Bits
  /\ pedidas \in Seq([pid : Procesos, id : Ids, tam : Tamanios])
  /\ ks \in [fase : {"libre", "registrar", "devolver", "suspender", "reservar", "traer",
                     "trabado", "mover", "gran", "crear"},
             pid : Procesos \cup {Ninguno}, id : Ids \cup {0}, tam : Nat, base : Nat,
             i : Nat, cola : Seq(TramoTipo)]
  /\ fugas \subseteq Nat /\ dobles \subseteq Nat /\ caida \in BOOLEAN

\* kernel_memory has no memory until a stick connects.
Init ==
  /\ total = 0 /\ huecos = <<>>
  /\ stick = [k \in Sticks |-> [fase |-> "no", base |-> 0]]
  /\ procesos = {} /\ suspendidos = {} /\ segs = [p \in Procesos |-> <<>>]
  /\ bloques = {} /\ disco = [b \in Bits |-> Nada]
  /\ mem = [a \in 0 .. Tope - 1 |-> Nada]
  /\ pedidas = <<>> /\ ks = Ocioso
  /\ fugas = {} /\ sinDuenio = {} /\ dobles = {} /\ caida = FALSE

-----------------------------------------------------------------------------
(* The list of holes                                                       *)

Candidatos(tam) == {i \in DOMAIN huecos : huecos[i].tam >= tam}
Mejor(i, j) == IF Estrategia = "BEST" THEN huecos[i].tam < huecos[j].tam
                                      ELSE huecos[i].tam > huecos[j].tam
\* The first of the best: a later hole of the same size does not replace it.
HuecoElegido(tam) ==
  CHOOSE i \in Candidatos(tam) :
    \A j \in Candidatos(tam) \ {i} : Mejor(i, j) \/ (i < j /\ ~Mejor(j, i))

LibreTotal == MapThenSumSet(LAMBDA i : huecos[i].tam, DOMAIN huecos)

\* Mutant: a hole that is used up stays in the list.
ConsumirSinQuitar(i, tam) ==
  [huecos EXCEPT ![i] = [base |-> @.base + tam, tam |-> @.tam - tam]]

ConsumirHueco(i, tam) ==
  IF huecos[i].tam = tam THEN RemoveAt(huecos, i)
  ELSE [huecos EXCEPT ![i] = [base |-> @.base + tam, tam |-> @.tam - tam]]

AgregarHuecoLibre(b, t) == Append(huecos, [base |-> b, tam |-> t])

\* base - 1 wraps when base is 0, and then equals the limit of no hole.
AgregarHuecoMs(b, t) ==
  LET pegados == {i \in DOMAIN huecos : huecos[i].base + huecos[i].tam = b}
  IN IF pegados = {} THEN AgregarHuecoLibre(b, t)
     ELSE LET i == Min(pegados)
          IN Append(RemoveAt(huecos, i), [base |-> huecos[i].base, tam |-> huecos[i].tam + t])

-----------------------------------------------------------------------------
(* Contents.  A program fills a segment when it gets it; bytes that belong *)
(* to no segment are not told apart.                                       *)

Mapeado(t) == \A a \in Bytes(t) : \E k \in Sticks :
  stick[k].fase = "listo" /\ a \in stick[k].base .. stick[k].base + TamStick[k] - 1
LeerMem(t) == [j \in 1 .. t.tam |-> mem[t.base + j - 1]]
EscribirMem(m, b, contenido) ==
  [a \in DOMAIN m |-> IF a \in b .. b + Len(contenido) - 1 THEN contenido[a - b + 1] ELSE m[a]]
BorrarMem(m, borrados) == [a \in DOMAIN m |-> IF a \in borrados THEN Nada ELSE m[a]]

\* The tables once segment i of p is s.
ConSegmento(p, i, s) == [segs EXCEPT ![p] = [@ EXCEPT ![i] = s]]

BytesDe(p) == UNION {Bytes(segs[p][i]) : i \in {j \in DOMAIN segs[p] : ~segs[p][j].enSwap}}

BloquesNecesarios(tam) == (tam + TamBloque - 1) \div TamBloque
BloquesDe(s) == s.bloque .. s.bloque + BloquesNecesarios(s.tam) - 1
TrozoDe(contenido, n) ==
  SubSeq(contenido, n * TamBloque + 1, Min({(n + 1) * TamBloque, Len(contenido)}))
\* What leer_segmento_de_swap puts in its buffer, one block after the other.
LeerSwap(s) ==
  [j \in 1 .. s.tam |-> disco[s.bloque + (j - 1) \div TamBloque][((j - 1) % TamBloque) + 1]]
\* Mutant: only the first bit of the run is tested.
LibresSinMirarTodos(n) == {b \in 0 .. MaxBit - n : b \notin bloques}
LibresEnSwap(n) == {b \in 0 .. MaxBit - n : \A k \in b .. b + n - 1 : k \notin bloques}

-----------------------------------------------------------------------------
(* Segments                                                                *)

\* What kernel_scheduler may ask for p: it runs, and it does not wait for a compaction.
Esperando(p) == \E k \in DOMAIN pedidas : pedidas[k].pid = p
Corre(p) == p \in procesos \ suspendidos /\ ~Esperando(p)

\* The name of a process that ended is given to the next one.
CrearProceso(p) ==
  /\ ks.fase = "libre" /\ p \notin procesos /\ ~Esperando(p)
  /\ procesos' = procesos \cup {p} /\ segs' = [segs EXCEPT ![p] = <<>>]
  /\ UNCHANGED <<total, huecos, stick, suspendidos, swap, mem, pedidas, ks, historia>>

\* First section of crear_segmento: the bytes leave the list before the process is looked for.
TomarHueco(p, id, tam) ==
  /\ \/ /\ Candidatos(tam) # {}
        /\ LET i == HuecoElegido(tam) IN
           /\ huecos' = ConsumirHueco(i, tam)
           /\ ks' = [Ocioso EXCEPT !.fase = "registrar", !.pid = p, !.id = id, !.tam = tam,
                                   !.base = huecos[i].base]
        /\ UNCHANGED pedidas
     \/ /\ Candidatos(tam) = {}
        /\ pedidas' = IF LibreTotal >= tam
                        THEN Append(pedidas, [pid |-> p, id |-> id, tam |-> tam]) ELSE pedidas
        /\ ks' = Ocioso
        /\ UNCHANGED huecos
  /\ UNCHANGED <<total, stick, tablas, swap, mem, historia>>

\* A program does not use an identifier twice (the code does not look).
CrearSegmento(p, id, tam) ==
  /\ ks.fase = "libre" /\ Corre(p) /\ \A i \in DOMAIN segs[p] : segs[p][i].id # id
  /\ TomarHueco(p, id, tam)

\* Second section.  A process that is gone loses the bytes.
Registrar ==
  /\ ks.fase = "registrar" /\ ks' = Ocioso
  /\ IF ks.pid \in procesos
       THEN /\ segs' = [segs EXCEPT ![ks.pid] = Append(@,
                 [id |-> ks.id, base |-> ks.base, tam |-> ks.tam, enSwap |-> FALSE,
                  bloque |-> MaxBit])]
            /\ mem' = EscribirMem(mem, ks.base,
                                  [j \in 1 .. ks.tam |-> Marca(ks.pid, ks.id, j)])
            /\ UNCHANGED fugas
       ELSE /\ fugas' = fugas \cup Bytes(ks) /\ UNCHANGED <<segs, mem>>
  /\ UNCHANGED <<total, huecos, stick, procesos, suspendidos, swap, pedidas, sinDuenio, dobles,
                 caida>>

\* limite - base + 1, which is 1 for a segment in swap (base = limite = 0).
TramoDe(s) == IF s.enSwap THEN Tramo(0, 1) ELSE Tramo(s.base, s.tam)

EliminarSegmento(p, i) ==
  /\ ks.fase = "libre" /\ Corre(p) /\ i \in DOMAIN segs[p]
  /\ segs' = [segs EXCEPT ![p] = RemoveAt(@, i)]
  /\ mem' = BorrarMem(mem, Bytes(segs[p][i]))
  /\ ks' = [Ocioso EXCEPT !.fase = "devolver", !.cola = <<TramoDe(segs[p][i])>>]
  /\ UNCHANGED <<total, huecos, stick, procesos, suspendidos, swap, pedidas, historia>>

\* eliminar_proceso.  It ends on a CPU, or in BLOCK or BLOCK_SUSP when its I/O device leaves.
FinalizarProceso(p) ==
  /\ ks.fase = "libre" /\ p \in procesos
  /\ procesos' = procesos \ {p} /\ suspendidos' = suspendidos \ {p}
  /\ segs' = [segs EXCEPT ![p] = <<>>]
  /\ mem' = BorrarMem(mem, BytesDe(p))
  /\ LET cola == [i \in DOMAIN segs[p] |-> TramoDe(segs[p][i])]
         enSwap == {segs[p][i] : i \in {j \in DOMAIN segs[p] : segs[p][j].enSwap}}
     IN /\ ks' = IF cola = <<>> THEN Ocioso
                 ELSE [Ocioso EXCEPT !.fase = "devolver", !.cola = cola]
        /\ sinDuenio' = sinDuenio \cup UNION {BloquesDe(s) : s \in enSwap}
        /\ dobles' = IF enSwap = {} THEN dobles ELSE dobles \cup {0}
  /\ UNCHANGED <<total, huecos, stick, swap, pedidas, fugas, caida>>

\* agregar_hueco_libre, once for each piece that is given back.
Devolver ==
  /\ ks.fase = "devolver"
  /\ huecos' = AgregarHuecoLibre(Head(ks.cola).base, Head(ks.cola).tam)
  /\ ks' = [ks EXCEPT !.cola = Tail(@),
                      !.fase = IF Len(ks.cola) > 1 THEN "devolver"
                               ELSE IF ks.i = 0 THEN "libre" ELSE "suspender"]
  /\ UNCHANGED <<total, stick, tablas, swap, mem, pedidas, historia>>

-----------------------------------------------------------------------------
(* Compaction                                                              *)

TramosDe(claves) == {[pid |-> x[1], i |-> x[2], base |-> segs[x[1]][x[2]].base,
                      tam |-> segs[x[1]][x[2]].tam] : x \in claves}
\* Sorted by base, which no two of them share.
Ordenes(tramos) ==
  {s \in [1 .. Cardinality(tramos) -> tramos] :
     Range(s) = tramos /\ \A i, j \in DOMAIN s : i < j => s[i].base < s[j].base}
\* Mutant: sorted from the top.
SegmentosAlReves == {Reverse(s) : s \in Ordenes(TramosDe(Residentes))}
\* Mutant: it looks at the process, and a suspended one may keep a segment that swap refused.
SegmentosDeActivos == Ordenes(TramosDe({x \in Residentes : x[1] \notin suspendidos}))

\* obtener_lista_temp_ord: the resident segments by base.
SegmentosOrdenados == Ordenes(TramosDe(Residentes))

\* CPUS_DESALOJADAS: every CPU is idle.
Compactar ==
  /\ ks.fase = "libre" /\ pedidas # <<>>
  /\ \E cola \in SegmentosOrdenados :
       ks' = [Ocioso EXCEPT !.fase = "mover", !.pid = pedidas[1].pid, !.id = pedidas[1].id,
                            !.tam = pedidas[1].tam, !.cola = cola]
  /\ pedidas' = Tail(pedidas)
  /\ UNCHANGED <<total, huecos, stick, tablas, swap, mem, historia>>

\* One turn of the loop; ks.base is proxima_base_libre.
Mover ==
  /\ ks.fase = "mover" /\ ks.cola # <<>>
  /\ LET s == Head(ks.cola)
         accesible == \/ s.base = ks.base
                      \/ Mapeado(s) /\ Mapeado([s EXCEPT !.base = ks.base])
     IN \/ /\ accesible
           /\ segs' = ConSegmento(s.pid, s.i, [segs[s.pid][s.i] EXCEPT !.base = ks.base])
           /\ mem' = EscribirMem(BorrarMem(mem, Bytes(s)), ks.base, LeerMem(s))
           /\ ks' = [ks EXCEPT !.base = @ + s.tam, !.cola = Tail(@)]
           /\ UNCHANGED caida
        \/ /\ ~accesible
           /\ caida' = TRUE /\ UNCHANGED <<segs, mem, ks>>
  /\ UNCHANGED <<total, huecos, stick, procesos, suspendidos, swap, pedidas, fugas, sinDuenio,
                 dobles>>

VaciarHuecos ==
  /\ ks.fase = "mover" /\ ks.cola = <<>>
  /\ huecos' = <<>> /\ ks' = [ks EXCEPT !.fase = "gran"]
  /\ UNCHANGED <<total, stick, tablas, swap, mem, pedidas, historia>>

\* Bytes a connecting stick has added to memoria_total, and to the list or not yet.
DeSticks == UNION {stick[k].base .. stick[k].base + TamStick[k] - 1 :
                     k \in {j \in Sticks : stick[j].fase = "hueco"}}
EnHuecos == UNION {Bytes(huecos[i]) : i \in DOMAIN huecos}

\* memoria_total is read without its mutex: it may count a stick whose thread has put, or
\* will put, the same bytes in the list.
GranHueco ==
  /\ ks.fase = "gran" /\ ks' = [ks EXCEPT !.fase = "crear"]
  /\ huecos' = IF total > ks.base THEN AgregarHuecoLibre(ks.base, total - ks.base) ELSE huecos
  /\ dobles' = dobles \cup ((ks.base .. total - 1) \cap (DeSticks \cup EnHuecos))
  /\ fugas' = {}
  /\ UNCHANGED <<total, stick, tablas, swap, mem, pedidas, sinDuenio, caida>>

CrearTrasCompactar == ks.fase = "crear" /\ TomarHueco(ks.pid, ks.id, ks.tam)

-----------------------------------------------------------------------------
(* Suspension                                                              *)

Suspender(p) ==
  /\ ks.fase = "libre" /\ Corre(p)
  /\ ks' = [Ocioso EXCEPT !.fase = "suspender", !.pid = p, !.i = 1]
  /\ UNCHANGED <<total, huecos, stick, tablas, swap, mem, pedidas, historia>>

\* One turn of the loop of suspender_proceso_memoria.  Without room in swap the segment stays.
\* One that needs more blocks than there are bits makes max_bit - necesarios wrap: bits out of
\* the bitmap are read, and set, and the model stops there.
SuspenderSegmento ==
  /\ ks.fase = "suspender" /\ ks.i \in DOMAIN segs[ks.pid]
  /\ LET s == segs[ks.pid][ks.i]
         n == BloquesNecesarios(s.tam)
     IN
     \/ /\ s.enSwap \/ (Mapeado(s) /\ n <= MaxBit /\ LibresEnSwap(n) = {})
        /\ ks' = [ks EXCEPT !.i = @ + 1]
        /\ UNCHANGED <<segs, swap, mem, caida>>
     \/ /\ ~s.enSwap /\ Mapeado(s) /\ LibresEnSwap(n) # {}
        /\ LET b0 == Min(LibresEnSwap(n)) IN
           /\ bloques' = bloques \cup (b0 .. b0 + n - 1)
           /\ disco' = [b \in Bits |-> IF b \in b0 .. b0 + n - 1
                                         THEN TrozoDe(LeerMem(s), b - b0) ELSE disco[b]]
           /\ segs' = ConSegmento(ks.pid, ks.i, [s EXCEPT !.enSwap = TRUE, !.base = 0,
                                                          !.bloque = b0])
        /\ mem' = BorrarMem(mem, Bytes(s))
        /\ ks' = [ks EXCEPT !.fase = "devolver", !.i = @ + 1,
                            !.cola = <<Tramo(s.base, s.tam)>>]
        /\ UNCHANGED caida
     \/ /\ ~s.enSwap /\ (~Mapeado(s) \/ n > MaxBit)
        /\ caida' = TRUE /\ UNCHANGED <<ks, segs, swap, mem>>
  /\ UNCHANGED <<total, huecos, stick, procesos, suspendidos, pedidas, fugas, sinDuenio, dobles>>

SuspensionLista ==
  /\ ks.fase = "suspender" /\ ks.i > Len(segs[ks.pid])
  /\ suspendidos' = suspendidos \cup {ks.pid} /\ ks' = Ocioso
  /\ UNCHANGED <<total, huecos, stick, procesos, segs, swap, mem, pedidas, historia>>

Desuspender(p) ==
  /\ ks.fase = "libre" /\ p \in suspendidos
  /\ ks' = [Ocioso EXCEPT !.fase = "reservar", !.pid = p, !.i = 1]
  /\ UNCHANGED <<total, huecos, stick, tablas, swap, mem, pedidas, historia>>

\* Mutant: it goes on with the next segment.
NoEntraSigue == [ks EXCEPT !.i = @ + 1]

\* A segment does not fit: the holes taken so far must be given back.  agregar_hueco_libre locks
\* mutex_huecos, which the thread holds, and blocks for ever ("trabado").
NoEntra == IF ks.cola = <<>> THEN Ocioso ELSE [ks EXCEPT !.fase = "trabado"]

\* One turn of the PRE-CHECK loop.
Reservar ==
  /\ ks.fase = "reservar"
  /\ \/ /\ ks.i \in DOMAIN segs[ks.pid] /\ ~segs[ks.pid][ks.i].enSwap
        /\ ks' = [ks EXCEPT !.i = @ + 1] /\ UNCHANGED huecos
     \/ /\ ks.i \in DOMAIN segs[ks.pid] /\ segs[ks.pid][ks.i].enSwap
        /\ LET tam == segs[ks.pid][ks.i].tam IN
           IF Candidatos(tam) # {}
             THEN LET h == HuecoElegido(tam) IN
                  /\ huecos' = ConsumirHueco(h, tam)
                  /\ ks' = [ks EXCEPT !.i = @ + 1, !.cola = Append(@,
                              [pid |-> ks.pid, i |-> ks.i, base |-> huecos[h].base, tam |-> tam])]
             ELSE ks' = NoEntra /\ UNCHANGED huecos
     \/ /\ ks.i > Len(segs[ks.pid])
        /\ ks' = [ks EXCEPT !.fase = "traer"] /\ UNCHANGED huecos
  /\ UNCHANGED <<total, stick, tablas, swap, mem, pedidas, historia>>

\* Bring a reserved segment back, or end when there is none left.
Traer ==
  /\ ks.fase = "traer"
  /\ \/ /\ ks.cola # <<>> /\ Mapeado(Head(ks.cola))
        /\ LET r == Head(ks.cola)
               s == segs[r.pid][r.i]
           IN /\ mem' = EscribirMem(mem, r.base, LeerSwap(s))
              /\ segs' = ConSegmento(r.pid, r.i, [s EXCEPT !.enSwap = FALSE, !.base = r.base,
                                                           !.bloque = MaxBit])
              /\ bloques' = bloques \ BloquesDe(s)
              /\ disco' = [b \in Bits |-> IF b \in BloquesDe(s) THEN Nada ELSE disco[b]]
        /\ ks' = [ks EXCEPT !.cola = Tail(@)]
        /\ UNCHANGED <<suspendidos, caida>>
     \/ /\ ks.cola # <<>> /\ ~Mapeado(Head(ks.cola))
        /\ caida' = TRUE /\ UNCHANGED <<ks, segs, suspendidos, swap, mem>>
     \/ /\ ks.cola = <<>>
        /\ suspendidos' = suspendidos \ {ks.pid} /\ ks' = Ocioso
        /\ UNCHANGED <<segs, swap, mem, caida>>
  /\ UNCHANGED <<total, huecos, stick, procesos, pedidas, fugas, sinDuenio, dobles>>

-----------------------------------------------------------------------------
(* The thread of a memory stick: three sections of MEMORY_STICK_HANDSHAKE  *)

AumentarMemoriaTotal(k) ==
  /\ stick[k].fase = "no"
  /\ stick' = [stick EXCEPT ![k] = [fase |-> "hueco", base |-> total]]
  /\ total' = total + TamStick[k]
  /\ UNCHANGED <<huecos, tablas, swap, mem, pedidas, ks, historia>>

\* Mutant: the base is computed again from memoria_total.
AgregarHuecoDelFinal(k) ==
  /\ stick[k].fase = "hueco" /\ ks.fase # "trabado"
  /\ huecos' = AgregarHuecoMs(total - TamStick[k], TamStick[k])
  /\ stick' = [stick EXCEPT ![k].fase = "posicion"]
  /\ UNCHANGED <<total, tablas, swap, mem, pedidas, ks, historia>>

AgregarHuecoDeStick(k) ==
  /\ stick[k].fase = "hueco" /\ ks.fase # "trabado"
  /\ huecos' = AgregarHuecoMs(stick[k].base, TamStick[k])
  /\ stick' = [stick EXCEPT ![k].fase = "posicion"]
  /\ UNCHANGED <<total, tablas, swap, mem, pedidas, ks, historia>>

AgregarPosicion(k) ==
  /\ stick[k].fase = "posicion"
  /\ stick' = [stick EXCEPT ![k].fase = "listo"]
  /\ UNCHANGED <<total, huecos, tablas, swap, mem, pedidas, ks, historia>>

-----------------------------------------------------------------------------
Pedido ==
  \/ \E p \in Procesos :
       \/ CrearProceso(p) \/ FinalizarProceso(p) \/ Suspender(p) \/ Desuspender(p)
       \/ \E id \in Ids, tam \in Tamanios : CrearSegmento(p, id, tam)
       \/ \E i \in DOMAIN segs[p] : EliminarSegmento(p, i)
  \/ Compactar

PasoKS ==
  \/ Registrar \/ Devolver \/ Mover \/ VaciarHuecos \/ GranHueco \/ CrearTrasCompactar
  \/ SuspenderSegmento \/ SuspensionLista \/ Reservar \/ Traer

PasoStick(k) == AumentarMemoriaTotal(k) \/ AgregarHuecoDeStick(k) \/ AgregarPosicion(k)

\* Nothing is claimed of what follows undefined behaviour or a byte with two owners.
Parado == caida \/ dobles # {}

Next == ~Parado /\ (Pedido \/ PasoKS \/ \E k \in Sticks : PasoStick(k))

Spec == Init /\ [][Next]_vars

\* The serving thread goes on unless it is blocked.
Equidad == WF_vars(~Parado /\ PasoKS)
SpecEquidad == Spec /\ Equidad

-----------------------------------------------------------------------------
(* Properties                                                              *)

\* Who has byte a: a hole, a segment, the serving thread, the thread of a stick, or nobody
\* for good.  While compaction runs the list of holes is about to be rebuilt.
Compactando == ks.fase \in {"mover", "gran"}
Duenios(a) ==
  {<<"hueco", i>> : i \in {j \in DOMAIN huecos : ~Compactando /\ a \in Bytes(huecos[j])}}
  \cup {<<"segmento", x>> : x \in {y \in Residentes : a \in Bytes(segs[y[1]][y[2]])}}
  \cup (IF ks.fase = "registrar" /\ a \in Bytes(ks) THEN {<<"ks", 0>>} ELSE {})
  \cup {<<"ks", i>> : i \in {j \in DOMAIN ks.cola :
           ks.fase \in {"devolver", "reservar", "traer", "trabado"} /\ a \in Bytes(ks.cola[j])}}
  \cup {<<"stick", k>> : k \in {j \in Sticks :
           stick[j].fase = "hueco" /\ a \in stick[j].base .. stick[j].base + TamStick[j] - 1}}
  \cup (IF a \in fugas /\ ~Compactando THEN {<<"nadie", 0>>} ELSE {})

\* The free holes, the segments and what a thread is moving between them partition the memory:
\* no byte is lost or belongs to two of them, whatever the requests, the places where the
\* serving thread and the threads of the sticks interleave, and the failures in between
\* (crear_segmento, eliminar_proceso, suspender_ and desuspender_proceso_memoria, huecos.c).
ParticionDeMemoria ==
  \A a \in (0 .. Tope - 1) \ dobles :
    IF a >= total THEN Duenios(a) = {}
    ELSE IF Compactando THEN Cardinality(Duenios(a)) <= 1
    ELSE Cardinality(Duenios(a)) = 1

\* Every segment holds what its program wrote, byte by byte, wherever compaction or suspension
\* moved it: in the sticks, or in its blocks of swap (iniciar_compactacion,
\* escribir_segmento_en_swap, leer_segmento_de_swap).
ContenidoIntacto ==
  dobles = {} =>
  \A x \in EnTabla :
    LET s == segs[x[1]][x[2]]
        escrito == [j \in 1 .. s.tam |-> Marca(x[1], s.id, j)]
    IN IF s.enSwap
         THEN \A b \in BloquesDe(s) : disco[b] = TrozoDe(escrito, b - s.bloque)
         ELSE LeerMem(s) = escrito

\* A bit of bitmap_swap is set exactly when one segment in swap uses the block, or when the
\* process that used it ended there, which clears nothing (buscar_bloques_libres_swap,
\* leer_segmento_de_swap, eliminar_proceso).
BloquesDeUnSegmento ==
  LET usan(b) == {x \in EnTabla : segs[x[1]][x[2]].enSwap /\ b \in BloquesDe(segs[x[1]][x[2]])}
  IN \A b \in Bits : Cardinality(usan(b)) + (IF b \in sinDuenio THEN 1 ELSE 0)
                       = (IF b \in bloques THEN 1 ELSE 0)

\* Desuspension is all or nothing: a process that is not suspended, and is not being suspended
\* or brought back, has no segment in swap, and one that could not come back lost none
\* (desuspender_proceso_memoria).
MemoriaCompleta ==
  \A x \in EnTabla :
    x[1] \in procesos \ suspendidos /\ ~(ks.fase \in {"suspender", "devolver"} /\ ks.i > 0
                                         /\ ks.pid = x[1])
      => ~segs[x[1]][x[2]].enSwap

\* When compaction comes to create the segment it was asked for, every hole is above every
\* segment, those of suspended processes included (iniciar_compactacion).
SinHuecosIntermedios ==
  ks.fase = "crear" =>
    \A i \in DOMAIN huecos, x \in Residentes :
      huecos[i].base > Max(Bytes(segs[x[1]][x[2]]))

\* A desuspension that does not fit gives its reservations back and goes on with the next
\* request, as conexiones.c 396-398 and 789-790 say.
DesuspensionTermina == ks.fase = "reservar" ~> ks.fase = "libre" \/ Parado
=============================================================================
