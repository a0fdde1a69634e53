---------------------------- MODULE AccesoMemoria ----------------------------
(***************************************************************************)
(* How an instruction of a process reaches the bytes of the memory sticks. *)
(* kernel_memory gives each stick that connects a range of global          *)
(* addresses and announces it to the CPUs; each CPU keeps its own list of  *)
(* sticks, asks for the context of the process it was given, translates    *)
(* logical addresses with its table of segments, cuts the access where a   *)
(* stick ends and asks each stick for its part.                            *)
(*                                                                         *)
(* Threads: in kernel_memory one per stick and one per CPU, besides the    *)
(* one that serves kernel_scheduler; in a CPU the listener of              *)
(* kernel_memory and the instruction cycle; a stick has a thread per CPU.  *)
(* A step is one critical section, one message or one request to a stick.  *)
(* Registers are not kept: an instruction takes any addresses, and the PC  *)
(* stands for the rest of the context.                                     *)
(***************************************************************************)
EXTENDS Integers, Sequences, FiniteSets, SequencesExt, FiniteSetsExt

CONSTANTS
  CPUs, Procesos, Sticks, Ninguno,
  Presentes,         (* connected before the first step: at most one stick  *)
  Tamano,            (* bytes of each stick                                 *)
  SegMax,            (* SEGMENT_MAX_SIZE                                    *)
  Segmentos,         (* ids of segments                                     *)
  Registros,         (* widths in bytes of the registers (1 and 4)          *)
  Copias,            (* sizes COPY_MEM is asked for                         *)
  Modulo,            (* 2^32: a uint32_t is kept modulo it                  *)
  Valor,             (* the bytes each process writes                       *)
  Programa,          (* bound: what each instruction of a process may be    *)
  Pide,              (* bound: sizes of the segments each process asks for  *)
  Fragiles           (* bound: sticks that may fall                         *)

ASSUME AccesoMemoriaAssumption ==
  /\ Presentes \subseteq Sticks \cup CPUs
  /\ \A s, t \in Presentes \cap Sticks : s = t
  /\ IsFiniteSet(Sticks) /\ Tamano \in [Sticks -> Nat \ {0}]
  /\ Modulo \in Nat \ {0} /\ Modulo % 2 = 0
  /\ SegMax \in 1 .. Modulo \div 2 - 1 /\ Registros \subseteq 1 .. Modulo \div 2 - 1
  /\ IsFiniteSet(Segmentos) /\ Segmentos \subseteq Nat /\ Segmentos # {}
  /\ Copias \subseteq 0 .. Modulo - 1
  /\ Valor \in [Procesos -> Seq(Nat)]
  /\ \A p \in Procesos, n \in Registros : n <= Len(Valor[p])
  /\ Programa \in [Procesos -> Seq(SUBSET {"MOV_IN", "MOV_OUT", "COPY_MEM", "SYSCALL"})]
  /\ Pide \in [Procesos -> SUBSET (1 .. SegMax)]
  /\ Fragiles \subseteq Sticks /\ Ninguno \notin Procesos

VARIABLES
  total, huecos,     (* memoria_total and the free global addresses         *)
  posiciones,        (* lista_dir_global_ms                                 *)
  conectadas,        (* cpus_conectadas                                     *)
  hiloMS, base,      (* thread of each stick, and its base_nuevo_ms         *)
  hiloCPU,           (* thread of each CPU                                  *)
  tabla,             (* table of segments of each process                   *)
  pcGuardado,        (* registers.PC of its context                         *)
  pedidos, canal,    (* sockets from a CPU to kernel_memory and back        *)
  sticks, segMax,    (* sockets_memory_sticks, segment_max_size of each CPU *)
  cpu,               (* what the instruction cycle of each CPU is doing     *)
  memoria, vivo,     (* the bytes of each stick; whether it is up           *)
  estado,            (* where kernel_scheduler has each process             *)
  leido,             (* what the last MOV_IN of each process returned       *)
  avance             (* instructions each process has executed              *)

km      == <<total, huecos, posiciones, conectadas, hiloMS, base>>
kmCPU   == <<hiloCPU, pcGuardado>>
enCPU   == <<sticks, segMax, cpu>>
proceso == <<estado, leido, avance>>
ms      == <<memoria, vivo>>
vars    == <<km, kmCPU, tabla, pedidos, canal, enCPU, ms, proceso>>

Ins(op, o, d, n) == [op |-> op, origen |-> o, destino |-> d, tam |-> n]
Ninguna == Ins("-", 0, 0, 0)
Libre   == [fase |-> "libre", pid |-> Ninguno, pc |-> 0, tabla |-> {}, ins |-> Ninguna,
            frags |-> <<>>, buf |-> <<>>]
\* The bytes of some sticks.
Capacidad(S) == Cardinality(UNION {{s} \X (1 .. Tamano[s]) : s \in S})
Espacio    == Capacidad(Sticks)
Fragmentos == Seq([ms : Sticks, dir : Nat, tam : Nat \ {0}, offset : Nat])

TypeOK ==
  /\ total \in 0 .. Espacio /\ huecos \subseteq 0 .. total - 1
  /\ conectadas \subseteq CPUs
  /\ posiciones \subseteq [ms : Sticks, base : Nat, limite : Nat]
  /\ hiloMS \in [Sticks -> {"afuera", "posicion", "avisar", "listo"}]
  /\ base \in [Sticks -> 0 .. Espacio]
  /\ hiloCPU \in [CPUs -> {"conecta", "enviar", "atiende"}]
  /\ \A p \in Procesos : tabla[p] \subseteq [id : Segmentos, base : Nat, limite : Nat]
  /\ pcGuardado \in [Procesos -> Nat] /\ avance \in [Procesos -> Nat]
  /\ \A c \in CPUs : Range(sticks[c]) \subseteq posiciones /\ segMax[c] \in {0, SegMax}
  /\ \A c \in CPUs :
       /\ cpu[c].fase \in {"libre", "contexto", "busca", "revisa", "lee", "escribe", "fallo"}
       /\ cpu[c].frags \in Fragmentos
       /\ (cpu[c].fase = "libre") = (cpu[c] = Libre)
  /\ \A s \in Sticks : memoria[s] \in [0 .. Tamano[s] - 1 -> Nat]
  /\ estado \in [Procesos -> {"listo", "exec", "fin", "borrado"}]

Posicion(s) == [ms |-> s, base |-> base[s], limite |-> base[s] + Tamano[s] - 1]

\* The other CPUs and sticks connect at any time.
Init ==
  /\ base = [s \in Sticks |-> 0]
  /\ total = Capacidad(Presentes \cap Sticks)
  /\ huecos = 0 .. total - 1 /\ posiciones = {Posicion(s) : s \in Presentes \cap Sticks}
  /\ conectadas = Presentes \cap CPUs
  /\ hiloMS = [s \in Sticks |-> IF s \in Presentes THEN "listo" ELSE "afuera"]
  /\ hiloCPU = [c \in CPUs |-> IF c \in Presentes THEN "atiende" ELSE "conecta"]
  /\ segMax = [c \in CPUs |-> IF c \in Presentes THEN SegMax ELSE 0]
  /\ sticks = [c \in CPUs |-> IF c \in Presentes THEN SetToSeq(posiciones) ELSE <<>>]
  /\ tabla = [p \in Procesos |-> {}] /\ pcGuardado = [p \in Procesos |-> 0]
  /\ pedidos = [c \in CPUs |-> <<>>] /\ canal = [c \in CPUs |-> <<>>]
  /\ cpu = [c \in CPUs |-> Libre]
  /\ memoria = [s \in Sticks |-> [d \in 0 .. Tamano[s] - 1 |-> 0]]
  /\ vivo = [s \in Sticks |-> TRUE]
  /\ estado = [p \in Procesos |-> "listo"] /\ leido = [p \in Procesos |-> <<>>]
  /\ avance = [p \in Procesos |-> 0]

-----------------------------------------------------------------------------
(* kernel_memory, thread of a stick: MEMORY_STICK_HANDSHAKE                *)

Aviso(q)    == [op |-> "MS_NUEVO_CPU", ms |-> q]

HiloMS(s, de, a) == hiloMS[s] = de /\ hiloMS' = [hiloMS EXCEPT ![s] = a]
SoloHiloMS       == UNCHANGED <<kmCPU, tabla, pedidos, enCPU, ms, proceso>>

\* Mutant: the hole is one byte too long.
AgregarHuecoLargo(s) ==
  /\ HiloMS(s, "afuera", "posicion")
  /\ base' = [base EXCEPT ![s] = total] /\ total' = total + Tamano[s]
  /\ huecos' = huecos \cup (total .. total')
  /\ UNCHANGED <<posiciones, conectadas, canal>> /\ SoloHiloMS

\* aumentar_memoria_total and agregar_hueco_ms; KernelMemory has them apart.
AgregarHuecoMs(s) ==
  /\ HiloMS(s, "afuera", "posicion")
  /\ base' = [base EXCEPT ![s] = total] /\ total' = total + Tamano[s]
  /\ huecos' = huecos \cup (total .. total' - 1)
  /\ UNCHANGED <<posiciones, conectadas, canal>> /\ SoloHiloMS

AgregarPosicionMs(s) ==
  /\ HiloMS(s, "posicion", "avisar")
  /\ posiciones' = posiciones \cup {Posicion(s)}
  /\ UNCHANGED <<total, huecos, conectadas, base, canal>> /\ SoloHiloMS

AvisarCPUs(s) ==
  /\ HiloMS(s, "avisar", "listo")
  /\ canal' = [c \in CPUs |-> IF c \in conectadas THEN Append(canal[c], Aviso(Posicion(s)))
                                                  ELSE canal[c]]
  /\ UNCHANGED <<total, huecos, posiciones, conectadas, base>> /\ SoloHiloMS

Conectar(s) == AgregarHuecoMs(s) \/ AgregarPosicionMs(s) \/ AvisarCPUs(s)

\* Bound: in the middle of an access to it.  If it falls before, the next
\* access fails in the same way.
CaerStick(s) ==
  /\ s \in Fragiles /\ vivo[s] /\ \E c \in CPUs : \E f \in Range(cpu[c].frags) : f.ms = s
  /\ vivo' = [vivo EXCEPT ![s] = FALSE]
  /\ UNCHANGED <<km, kmCPU, tabla, pedidos, canal, enCPU, memoria, proceso>>

-----------------------------------------------------------------------------
(* kernel_memory, thread of a CPU                                          *)

HiloCPU(c, de, a) == hiloCPU[c] = de /\ hiloCPU' = [hiloCPU EXCEPT ![c] = a]
EnviarA(c, ms_)   == canal' = [canal EXCEPT ![c] = @ \o ms_]

\* A CPU is in the list before it is told of the sticks there are: a stick
\* that connects meanwhile may be announced twice, never missed.
AgregarCPU(c) ==
  /\ HiloCPU(c, "conecta", "enviar")
  /\ conectadas' = conectadas \cup {c}
  /\ UNCHANGED <<total, huecos, posiciones, hiloMS, base, tabla, pcGuardado, pedidos, canal,
                 enCPU, ms, proceso>>

\* Mutant: without SEG_MAX_SIZE.
EnviarSinMaximo(c) ==
  /\ HiloCPU(c, "enviar", "atiende")
  /\ EnviarA(c, SetToSeq({Aviso(q) : q \in posiciones}))
  /\ UNCHANGED <<km, tabla, pcGuardado, pedidos, enCPU, ms, proceso>>

EnviarMSaCPU(c) ==
  /\ HiloCPU(c, "enviar", "atiende")
  /\ EnviarA(c, Append(SetToSeq({Aviso(q) : q \in posiciones}),
                       [op |-> "SEG_MAX_SIZE", tam |-> SegMax]))
  /\ UNCHANGED <<km, tabla, pcGuardado, pedidos, enCPU, ms, proceso>>

\* solicitud_contexto, and actualizar_contexto, which drops a late context.
AtenderPedido(c) ==
  /\ hiloCPU[c] = "atiende" /\ pedidos[c] # <<>>
  /\ LET m == Head(pedidos[c]) IN
       \/ /\ m.op = "REQUEST_CONTEXTO"
          /\ EnviarA(c, <<[op |-> "CONTEXT_RESPONSE", pid |-> m.pid,
                           pc |-> pcGuardado[m.pid], tabla |-> tabla[m.pid]]>>)
          /\ UNCHANGED pcGuardado
       \/ /\ m.op = "ACTUALIZAR_CONTEXTO"
          /\ pcGuardado' = [pcGuardado EXCEPT ![m.pid] =
                              IF estado[m.pid] = "borrado" THEN @ ELSE m.pc]
          /\ UNCHANGED canal
  /\ pedidos' = [pedidos EXCEPT ![c] = Tail(@)]
  /\ UNCHANGED <<km, hiloCPU, tabla, enCPU, ms, proceso>>

AtenderCPU(c) == AgregarCPU(c) \/ EnviarMSaCPU(c) \/ AtenderPedido(c)

-----------------------------------------------------------------------------
(* kernel_memory for kernel_scheduler, of a process no CPU has.  Holes are *)
(* a list in KernelMemory; here only which bytes are free.                 *)

BytesDe(g) == g.base .. g.limite
SoloTablas == UNCHANGED <<total, posiciones, conectadas, hiloMS, base, kmCPU, pedidos, canal,
                          enCPU, ms, leido, avance>>

CrearSegmento(p) ==
  /\ estado[p] = "listo"
  /\ \E i \in Segmentos, b \in huecos, n \in Pide[p] :
       LET g == [id |-> i, base |-> b, limite |-> b + n - 1] IN
         /\ \A h \in tabla[p] : h.id # i
         /\ BytesDe(g) \subseteq huecos
         /\ huecos' = huecos \ BytesDe(g)
         /\ tabla' = [tabla EXCEPT ![p] = @ \cup {g}]
  /\ UNCHANGED estado /\ SoloTablas

EliminarSegmento(p) ==
  /\ estado[p] = "listo"
  /\ \E g \in tabla[p] : /\ huecos' = huecos \cup BytesDe(g)
                         /\ tabla' = [tabla EXCEPT ![p] = @ \ {g}]
  /\ UNCHANGED estado /\ SoloTablas

EliminarProceso(p) ==
  /\ estado[p] = "fin"
  /\ huecos' = huecos \cup UNION {BytesDe(g) : g \in tabla[p]}
  /\ tabla' = [tabla EXCEPT ![p] = {}]
  /\ estado' = [estado EXCEPT ![p] = "borrado"]
  /\ SoloTablas

\* What the next instruction of p may be; a program that is over stays ready.
Proxima(p) == IF avance[p] < Len(Programa[p]) THEN Programa[p][avance[p] + 1] ELSE {}

\* enviarPIDAcpu; the CPU asks for the context.
Despachar(c, p) ==
  /\ estado[p] = "listo" /\ cpu[c].fase = "libre" /\ Proxima(p) # {}
  /\ estado' = [estado EXCEPT ![p] = "exec"]
  /\ cpu' = [cpu EXCEPT ![c] = [Libre EXCEPT !.fase = "contexto", !.pid = p]]
  /\ pedidos' = [pedidos EXCEPT ![c] = Append(@, [op |-> "REQUEST_CONTEXTO", pid |-> p])]
  /\ UNCHANGED <<km, kmCPU, tabla, canal, sticks, segMax, ms, leido, avance>>

-----------------------------------------------------------------------------
(* A CPU: the listener of kernel_memory                                    *)

\* Mutant: without looking for the stick in the list.
ConectarSinMirar(c, q) ==
  /\ sticks' = [sticks EXCEPT ![c] = IF vivo[q.ms] THEN Append(@, q) ELSE @]
  /\ UNCHANGED <<segMax, cpu>>

\* A stick that is known is ignored; one that is gone refuses the connection.
ConectarMemoryStick(c, q) ==
  /\ sticks' = [sticks EXCEPT ![c] =
       IF vivo[q.ms] /\ \A r \in Range(@) : r.ms # q.ms THEN Append(@, q) ELSE @]
  /\ UNCHANGED <<segMax, cpu>>

RecibirContexto(c, m) ==
  /\ cpu' = [cpu EXCEPT ![c].fase = "busca", ![c].pc = m.pc, ![c].tabla = m.tabla]
  /\ UNCHANGED <<sticks, segMax>>

EscucharKM(c) ==
  /\ canal[c] # <<>>
  /\ LET m == Head(canal[c]) IN
       \/ m.op = "MS_NUEVO_CPU" /\ ConectarMemoryStick(c, m.ms)
       \/ m.op = "CONTEXT_RESPONSE" /\ RecibirContexto(c, m)
       \/ /\ m.op = "SEG_MAX_SIZE" /\ segMax' = [segMax EXCEPT ![c] = m.tam]
          /\ UNCHANGED <<sticks, cpu>>
  /\ canal' = [canal EXCEPT ![c] = Tail(@)]
  /\ UNCHANGED <<km, kmCPU, tabla, pedidos, ms, proceso>>

-----------------------------------------------------------------------------
(* A CPU: MMU and fragmentation                                            *)

Uint(n)      == n % Modulo
ConSigno(n)  == IF n < Modulo \div 2 THEN n ELSE n - Modulo
SegmentoDe(t, dir) == {g \in t : g.id = dir \div SegMax}

\* Mutant: only the first byte is compared with the limit.
TraduceInicio(t, dir, n) == \E g \in SegmentoDe(t, dir) :
                              dir % SegMax <= g.limite - g.base

\* mmu_traducir_direccion: the sum is that of two uint32_t.
Traduce(t, dir, n) == \E g \in SegmentoDe(t, dir) :
                        Uint((dir % SegMax) + n) <= g.limite - g.base + 1
Fisica(t, dir)     == (CHOOSE g \in SegmentoDe(t, dir) : TRUE).base + (dir % SegMax)

\* fragmentar_acceso_memoria: nothing when the size is negative as an int.
StickDe(c, d)      == {q \in Range(sticks[c]) : d \in q.base .. q.limite}
Cubierto(c, d, n)  == \A e \in d .. d + ConSigno(n) - 1 : StickDe(c, e) # {}
Pieza(c, d, n, resto) ==
  LET e    == d + n - resto
      q    == CHOOSE x \in StickDe(c, e) : TRUE
      cabe == q.limite - e + 1
  IN [ms |-> q.ms, dir |-> e - q.base, tam |-> IF resto < cabe THEN resto ELSE cabe,
      offset |-> n - resto]
Fragmentar(c, d, n) ==
  LET frags[resto \in 0 .. n] ==
        IF resto = 0 THEN <<>>
        ELSE LET f == Pieza(c, d, n, resto) IN <<f>> \o frags[resto - f.tam]
  IN IF ConSigno(n) <= 0 THEN <<>> ELSE frags[n]

-----------------------------------------------------------------------------
(* A CPU: the instruction cycle                                            *)

SoloCPU == UNCHANGED <<km, kmCPU, tabla, canal, sticks, segMax, vivo>>

\* The fetch leaves the PC on the next instruction; the SEG_FAULT of one that
\* cannot be translated, or reaches a stick the CPU does not know, ends it.
Ejecutar(c, resultado) ==
  /\ cpu[c].fase \in {"busca", "revisa"}
  /\ cpu' = [cpu EXCEPT ![c] = [resultado EXCEPT !.pc = @ + 1]]
  /\ avance' = [avance EXCEPT ![cpu[c].pid] = @ + 1]
  /\ UNCHANGED <<pedidos, memoria, estado, leido>> /\ SoloCPU

Fallo(k) == [Libre EXCEPT !.fase = "fallo", !.pid = k.pid, !.pc = k.pc]

Acceso(c, i, fase, dir, buf) ==
  LET t == cpu[c].tabla IN
    IF Traduce(t, dir, i.tam) /\ Cubierto(c, Fisica(t, dir), i.tam)
      THEN [cpu[c] EXCEPT !.fase = fase, !.ins = i, !.buf = buf,
                          !.frags = Fragmentar(c, Fisica(t, dir), i.tam)]
      ELSE Fallo(cpu[c])

Ceros(n) == [i \in 1 .. n |-> 0]

MovIn(c, si, n) ==
  /\ Ejecutar(c, Acceso(c, Ins("MOV_IN", si, 0, n), "lee", si, Ceros(n)))
  /\ "MOV_IN" \in Proxima(cpu[c].pid)

MovOut(c, di, n) ==
  /\ Ejecutar(c, Acceso(c, Ins("MOV_OUT", 0, di, n), "escribe", di,
                        SubSeq(Valor[cpu[c].pid], 1, n)))
  /\ "MOV_OUT" \in Proxima(cpu[c].pid)

CopyMem(c, si, di, n) ==
  /\ Ejecutar(c, IF Traduce(cpu[c].tabla, di, n)
                   THEN Acceso(c, Ins("COPY_MEM", si, di, n), "lee", si, Ceros(ConSigno(n)))
                   ELSE Fallo(cpu[c]))
  /\ "COPY_MEM" \in Proxima(cpu[c].pid)

\* An access is over when no fragment is left; then the CPU looks for
\* interrupts.
Seguir(k, frags) ==
  IF frags # <<>> THEN [k EXCEPT !.frags = frags]
  ELSE [k EXCEPT !.fase = "revisa", !.ins = Ninguna, !.frags = <<>>, !.buf = <<>>]

\* procesar_lectura answers the size and then the data; MOV_IN takes the data,
\* COPY_MEM the bytes of the size.  Out of the stick there is no data.
Respuesta(c, f) ==
  IF cpu[c].ins.op = "COPY_MEM" THEN [i \in 1 .. f.tam |-> IF i = 1 THEN f.tam ELSE 0]
                            ELSE [i \in 1 .. f.tam |-> memoria[f.ms][f.dir + i - 1]]
DentroDe(f) == Uint(f.dir + f.tam) <= Tamano[f.ms]
Leido(c, f) ==
  [i \in DOMAIN cpu[c].buf |->
     IF i \in f.offset + 1 .. f.offset + f.tam /\ DentroDe(f)
       THEN Respuesta(c, f)[i - f.offset] ELSE cpu[c].buf[i]]

\* Of a stick that is gone there is no answer, and the process has a SEG_FAULT.
\* A later send on that socket is a SIGPIPE (paquete.c:75, flags 0) and kills
\* the CPU: that is not here, and a dead CPU changes no byte.
FallarFragmento(c) ==
  /\ cpu[c].frags # <<>> /\ ~vivo[Head(cpu[c].frags).ms]
  /\ cpu' = [cpu EXCEPT ![c] = Fallo(@)]
  /\ UNCHANGED <<pedidos, memoria, proceso>> /\ SoloCPU

\* The last fragment of MOV_IN sets the register.
LeerFragmento(c) ==
  /\ cpu[c].fase = "lee" /\ cpu[c].frags # <<>> /\ vivo[Head(cpu[c].frags).ms]
  /\ LET k == [cpu[c] EXCEPT !.buf = Leido(c, Head(cpu[c].frags))]
         r == Tail(k.frags)
     IN /\ cpu' = [cpu EXCEPT ![c] = IF k.ins.op = "MOV_IN" THEN Seguir(k, r)
                                                        ELSE [k EXCEPT !.frags = r]]
        /\ leido' = [leido EXCEPT ![k.pid] = IF k.ins.op = "MOV_IN" /\ r = <<>> THEN k.buf ELSE @]
  /\ UNCHANGED <<pedidos, memoria, estado, avance>> /\ SoloCPU

\* COPY_MEM looks for the sticks of the destination after it has read.
EmpezarCopia(c) ==
  /\ cpu[c].fase = "lee" /\ cpu[c].frags = <<>>
  /\ LET k == cpu[c]
         d == Fisica(k.tabla, k.ins.destino)
     IN cpu' = [cpu EXCEPT ![c] =
          IF Cubierto(c, d, k.ins.tam)
            THEN Seguir([k EXCEPT !.fase = "escribe"], Fragmentar(c, d, k.ins.tam))
            ELSE Fallo(k)]
  /\ UNCHANGED <<pedidos, memoria, proceso>> /\ SoloCPU

EscribirFragmento(c) ==
  /\ cpu[c].fase = "escribe" /\ vivo[Head(cpu[c].frags).ms]
  /\ LET f == Head(cpu[c].frags) IN
       /\ cpu' = [cpu EXCEPT ![c] = Seguir(@, Tail(@.frags))]
       /\ memoria' = [memoria EXCEPT ![f.ms] =
            [d \in DOMAIN @ |-> IF DentroDe(f) /\ d \in f.dir .. f.dir + f.tam - 1
                                THEN cpu[c].buf[f.offset + d - f.dir + 1] ELSE @[d]]]
  /\ UNCHANGED <<pedidos, proceso>> /\ SoloCPU

\* enviar_contexto_a_memoria, which nobody acknowledges, and then the process
\* to kernel_scheduler.
Devolver(c, pc, e) ==
  LET p == cpu[c].pid IN
    /\ pedidos' = [pedidos EXCEPT ![c] =
         Append(@, [op |-> "ACTUALIZAR_CONTEXTO", pid |-> p, pc |-> pc])]
    /\ estado' = [estado EXCEPT ![p] = e]
    /\ cpu' = [cpu EXCEPT ![c] = Libre]
    /\ UNCHANGED <<memoria, leido>> /\ SoloCPU

DevolverInterrumpido(c) ==
  cpu[c].fase = "revisa" /\ Devolver(c, cpu[c].pc, "listo") /\ UNCHANGED avance

AvisarSegFault(c) ==
  cpu[c].fase = "fallo" /\ Devolver(c, cpu[c].pc, "fin") /\ UNCHANGED avance

PedirSyscall(c) ==
  /\ cpu[c].fase \in {"busca", "revisa"} /\ "SYSCALL" \in Proxima(cpu[c].pid)
  /\ Devolver(c, cpu[c].pc + 1, "listo")
  /\ avance' = [avance EXCEPT ![cpu[c].pid] = @ + 1]

Direcciones == 0 .. SegMax * (1 + Max(Segmentos)) - 1

Instruccion(c) ==
  \/ \E d \in Direcciones, n \in Registros : MovIn(c, d, n) \/ MovOut(c, d, n)
  \/ \E d, e \in Direcciones, n \in Copias : CopyMem(c, d, e, n)
  \/ LeerFragmento(c) \/ EmpezarCopia(c) \/ EscribirFragmento(c) \/ FallarFragmento(c)
  \/ DevolverInterrumpido(c) \/ AvisarSegFault(c) \/ PedirSyscall(c)

Next ==
  \/ \E s \in Sticks : Conectar(s) \/ CaerStick(s)
  \/ \E c \in CPUs : AtenderCPU(c) \/ EscucharKM(c) \/ Instruccion(c)
  \/ \E p \in Procesos :
       \/ CrearSegmento(p) \/ EliminarSegmento(p) \/ EliminarProceso(p)
       \/ \E c \in CPUs : Despachar(c, p)

Spec == Init /\ [][Next]_vars

-----------------------------------------------------------------------------
(* Properties                                                              *)

\* A CPU that has finished its handshake knows, or has on its way, the place
\* of every stick that has finished its own, whatever the order in which the
\* two threads of kernel_memory went (agregar_cpu_conectada, enviar_ms_a_cpu,
\* agregar_posicion_ms, avisar_cpus_conectadas), and knows it only once.
AnunciosAlcanzan ==
  \A c \in CPUs :
    /\ \A s \in Sticks :
         hiloCPU[c] = "atiende" /\ hiloMS[s] = "listo" /\ vivo[s] =>
           Posicion(s) \in Range(sticks[c]) \/ Aviso(Posicion(s)) \in Range(canal[c])
    /\ \A i, j \in DOMAIN sticks[c] : sticks[c][i].ms = sticks[c][j].ms => i = j

\* The MMU never divides by a SEGMENT_MAX_SIZE that has not arrived, although
\* kernel_scheduler can give the CPU a process before kernel_memory answers.
SegMaxConocido == \A c \in CPUs : cpu[c].fase \notin {"libre", "contexto"} => segMax[c] = SegMax

\* "Enviamos el contexto actualizado a memoria" (ejecutar_SYSCALL): a process
\* goes on from the instruction after the last one it executed.
RetomaDondeDejo ==
  \A c \in CPUs : cpu[c].fase \notin {"libre", "contexto"} => cpu[c].pc = avance[cpu[c].pid]
=============================================================================
