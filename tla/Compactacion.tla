---------------------------- MODULE Compactacion ----------------------------
(***************************************************************************)
(* The compaction handshake: kernel_memory, which cannot place a segment   *)
(* but has the bytes for it, asks kernel_scheduler to empty every CPU,     *)
(* moves the segments when told CPUS_DESALOJADAS, and says COMPACTACION_OK. *)
(*                                                                         *)
(* Threads of kernel_scheduler: atender_kernel_memory (oyente), one        *)
(* atender_cpu per CPU (atiende), loop_corto_plazo (despacho) and          *)
(* monitorPrioridades (monitor), reduced to its wait for the end of the    *)
(* compaction.  A step is one critical section or one send.  One READY     *)
(* queue; quantum, priorities, BLOCK and disconnections are in             *)
(* Planificador.  Whether a segment fits is a free choice (KernelMemory).  *)
(***************************************************************************)
EXTENDS Naturals, Sequences, FiniteSets, Functions

CONSTANTS
  Procesos, CPUs, Ninguno,
  Syscalls,     (* what the running programs may ask for                     *)
  HayMonitor,   (* the thread monitorPrioridades runs                        *)
  MaxPedidos    (* bound: MEM_ALLOC calls of each process                    *)

ASSUME CompactacionAssumption ==
  /\ Ninguno \notin Procesos /\ IsFiniteSet(Procesos) /\ IsFiniteSet(CPUs)
  /\ Syscalls \subseteq {"MEM_ALLOC", "SEGUIR", "EXIT_PROC"}
  /\ HayMonitor \in BOOLEAN /\ MaxPedidos \in [Procesos -> Nat]

VARIABLES
  ready, exec, terminados,  (* colasREADY[0], colaEXEC, freed PCBs             *)
  perdidos,      (* PCBs pasarProcesoReadyAExec dropped for want of a CPU      *)
  libre, asignado,          (* t_cpu_conectada.libre and .pidEjecutando        *)
  corre,         (* the process each CPU module executes                       *)
  aCPU, aKS,     (* sockets kernel -> CPU, CPU -> kernel                       *)
  atiende, despacho, monitor, oyente,   (* threads: program counter and locals *)
  compactando,   (* ~noHayCompactacion                                         *)
  hayCPU, hayReady, terminada,  (* semaphores; the last is sem_compactacionTerminada *)
  aKM, deKM,     (* sockets with kernel_memory                                 *)
  moviendo,      (* kernel_memory is inside iniciar_compactacion               *)
  pedidos,       (* MEM_ALLOC calls so far                                     *)
  caida          (* a handler dereferenced the PCB it did not find             *)

colas == <<ready, exec, terminados, perdidos>>
cpus  == <<libre, asignado, corre, aCPU, aKS>>
sems  == <<hayCPU, hayReady, terminada>>
km    == <<aKM, deKM, moviendo>>
hilos == <<atiende, despacho, monitor, oyente>>
vars  == <<colas, cpus, hilos, compactando, sems, km, pedidos, caida>>

Pid == Procesos \cup {Ninguno}
Llamadas == {"MEM_ALLOC", "SEGUIR", "EXIT_PROC"}   \* SEGUIR: MEM_FREE and INIT_PROC
AtencionOciosa == [fase |-> "recibir", pid |-> Ninguno]
DespachoOcioso == [fase |-> "esperar", pcb |-> Ninguno, cpu |-> Ninguno]
OyenteOcioso   == [fase |-> "recibir", pid |-> Ninguno, cpus |-> {}]

\* What a CPU sends: a call of the process it runs, or what it was sent.
Respuesta == [op : Llamadas, pid : Procesos] \cup [op : {"EJECUTAR", "COMPACTAR"}, pid : Pid]

Mensaje   == [op : {"EJECUTAR", "COMPACTAR"}, pid : Pid]
PedidoKM  == [op : {"CREAR", "MOVER"}, pid : Procesos]
AvisoKM   == [op : {"CREADO", "INICIAR", "COMPACTADO"}, pid : Procesos]

Atenciones == [fase : {"recibir", "liberarYSacar", "sacar", "encolar", "liberar"}, pid : Pid]
Despachos  == [fase : {"esperar", "mirar", "elegir", "elegirCPU", "asignar", "encolarExec",
                       "enviar", "dormir"},
               pcb : Pid, cpu : CPUs \cup {Ninguno}]
Oyentes    == [fase : {"recibir", "listar", "notificar", "vaciar", "responder"},
               pid : Pid, cpus : SUBSET CPUs]

TipoColas ==
  /\ ready \in Seq(Procesos)
  /\ exec \subseteq Procesos /\ terminados \subseteq Procesos /\ perdidos \subseteq Procesos
TipoCPUs ==
  /\ libre \in [CPUs -> BOOLEAN]
  /\ asignado \in [CPUs -> Pid] /\ corre \in [CPUs -> Pid]
  /\ aCPU \in [CPUs -> Seq(Mensaje)]
  /\ aKS \in [CPUs -> Seq(Respuesta)]
TipoHilos ==
  /\ atiende \in [CPUs -> Atenciones] /\ despacho \in Despachos
  /\ monitor \in {"vigilar", "dormir"} /\ oyente \in Oyentes
TipoSems == hayCPU \in Nat /\ hayReady \in Nat /\ terminada \in Nat
TipoKM ==
  /\ aKM \in Seq(PedidoKM) /\ deKM \in Seq(AvisoKM)
  /\ moviendo \in Pid /\ pedidos \in [Procesos -> Nat]
TypeOK == /\ TipoColas /\ TipoCPUs /\ TipoHilos /\ TipoSems /\ TipoKM
          /\ compactando \in BOOLEAN /\ caida \in BOOLEAN

\* Every process has been admitted and every CPU has connected.
Init ==
  /\ ready \in {s \in [1 .. Cardinality(Procesos) -> Procesos] : IsInjective(s)}
  /\ exec = {} /\ terminados = {} /\ perdidos = {}
  /\ libre = [c \in CPUs |-> TRUE]
  /\ asignado = [c \in CPUs |-> Ninguno] /\ corre = [c \in CPUs |-> Ninguno]
  /\ aCPU = [c \in CPUs |-> <<>>] /\ aKS = [c \in CPUs |-> <<>>]
  /\ atiende = [c \in CPUs |-> AtencionOciosa]
  /\ despacho = DespachoOcioso /\ monitor = "vigilar" /\ oyente = OyenteOcioso
  /\ compactando = FALSE
  /\ hayCPU = Cardinality(CPUs) /\ hayReady = Cardinality(Procesos) /\ terminada = 0
  /\ aKM = <<>> /\ deKM = <<>> /\ moviendo = Ninguno
  /\ pedidos = [p \in Procesos |-> 0] /\ caida = FALSE

Msj(o, p) == [op |-> o, pid |-> p]
Mandar(canal, c, o, p) == [canal EXCEPT ![c] = Append(@, Msj(o, p))]

-----------------------------------------------------------------------------
(* loop_corto_plazo                                                        *)

\* Mutant: no wait on sem_hayProcesosEnReady.
TomarFichaDeCPU ==
  /\ despacho.fase = "esperar" /\ hayCPU > 0
  /\ hayCPU' = hayCPU - 1 /\ hayReady' = hayReady - 1
  /\ despacho' = [despacho EXCEPT !.fase = "mirar"]
  /\ UNCHANGED <<colas, cpus, atiende, monitor, oyente, compactando, terminada, km, pedidos,
                 caida>>

TomarFichas ==
  /\ despacho.fase = "esperar" /\ hayCPU > 0 /\ hayReady > 0
  /\ hayCPU' = hayCPU - 1 /\ hayReady' = hayReady - 1
  /\ despacho' = [despacho EXCEPT !.fase = "mirar"]
  /\ UNCHANGED <<colas, cpus, atiende, monitor, oyente, compactando, terminada, km, pedidos,
                 caida>>

\* Mutant: the token of the CPU does not go back.
MirarSinDevolver ==
  /\ despacho.fase = "mirar"
  /\ hayReady' = IF compactando THEN hayReady + 1 ELSE hayReady
  /\ despacho' = [despacho EXCEPT !.fase = IF compactando THEN "dormir" ELSE "elegir"]
  /\ UNCHANGED <<colas, cpus, atiende, monitor, oyente, compactando, hayCPU, terminada, km,
                 pedidos, caida>>

\* With a compaction under way both tokens go back and the thread waits.
MirarBandera ==
  /\ despacho.fase = "mirar"
  /\ \/ /\ compactando
        /\ hayCPU' = hayCPU + 1 /\ hayReady' = hayReady + 1
        /\ despacho' = [despacho EXCEPT !.fase = "dormir"]
     \/ /\ ~compactando
        /\ despacho' = [despacho EXCEPT !.fase = "elegir"]
        /\ UNCHANGED <<hayCPU, hayReady>>
  /\ UNCHANGED <<colas, cpus, atiende, monitor, oyente, compactando, terminada, km, pedidos,
                 caida>>

Dormir ==
  /\ despacho.fase = "dormir" /\ terminada > 0
  /\ terminada' = terminada - 1
  /\ despacho' = DespachoOcioso
  /\ UNCHANGED <<colas, cpus, atiende, monitor, oyente, compactando, hayCPU, hayReady, km,
                 pedidos, caida>>

\* Mutant: queue_peek instead of queue_pop.
MirarPrimero ==
  /\ despacho.fase = "elegir" /\ ready # <<>>
  /\ despacho' = [despacho EXCEPT !.fase = "elegirCPU", !.pcb = Head(ready)]
  /\ UNCHANGED <<colas, cpus, atiende, monitor, oyente, compactando, sems, km, pedidos, caida>>

\* pasarProcesoReadyAExec from here on.  FichasDeReady: the queue is not empty.
ElegirProceso ==
  /\ despacho.fase = "elegir" /\ ready # <<>>
  /\ ready' = Tail(ready)
  /\ despacho' = [despacho EXCEPT !.fase = "elegirCPU", !.pcb = Head(ready)]
  /\ UNCHANGED <<exec, terminados, perdidos, cpus, atiende, monitor, oyente, compactando,
                 sems, km, pedidos, caida>>

Libres == {c \in CPUs : libre[c]}

ElegirCPU ==
  /\ despacho.fase = "elegirCPU"
  /\ \/ \E c \in Libres :
          /\ libre' = [libre EXCEPT ![c] = FALSE]
          /\ despacho' = [despacho EXCEPT !.fase = "asignar", !.cpu = c]
          /\ UNCHANGED perdidos
     \/ /\ Libres = {}
        /\ perdidos' = perdidos \cup {despacho.pcb}
        /\ despacho' = DespachoOcioso
        /\ UNCHANGED libre
  /\ UNCHANGED <<ready, exec, terminados, asignado, corre, aCPU, aKS, atiende, monitor,
                 oyente, compactando, sems, km, pedidos, caida>>

AsignarCPU ==
  /\ despacho.fase = "asignar"
  /\ asignado' = [asignado EXCEPT ![despacho.cpu] = despacho.pcb]
  /\ despacho' = [despacho EXCEPT !.fase = "encolarExec"]
  /\ UNCHANGED <<colas, libre, corre, aCPU, aKS, atiende, monitor, oyente, compactando, sems,
                 km, pedidos, caida>>

EncolarExec ==
  /\ despacho.fase = "encolarExec"
  /\ exec' = exec \cup {despacho.pcb}
  /\ despacho' = [despacho EXCEPT !.fase = "enviar"]
  /\ UNCHANGED <<ready, terminados, perdidos, cpus, atiende, monitor, oyente, compactando,
                 sems, km, pedidos, caida>>

EnviarProceso ==
  /\ despacho.fase = "enviar"
  /\ aCPU' = Mandar(aCPU, despacho.cpu, "EJECUTAR", despacho.pcb)
  /\ despacho' = DespachoOcioso
  /\ UNCHANGED <<colas, libre, asignado, corre, aKS, atiende, monitor, oyente, compactando,
                 sems, km, pedidos, caida>>

Despachar == TomarFichas \/ MirarBandera \/ Dormir \/ ElegirProceso \/ ElegirCPU
             \/ AsignarCPU \/ EncolarExec \/ EnviarProceso

\* monitorPrioridades looks at the flag each time a push to READY wakes it (the
\* pushes of other modules: at any time), and waits for the end of the compaction.
VerBandera ==
  /\ HayMonitor /\ monitor = "vigilar" /\ compactando
  /\ monitor' = "dormir"
  /\ UNCHANGED <<colas, cpus, atiende, despacho, oyente, compactando, sems, km, pedidos, caida>>

DespertarMonitor ==
  /\ monitor = "dormir" /\ terminada > 0
  /\ terminada' = terminada - 1 /\ monitor' = "vigilar"
  /\ UNCHANGED <<colas, cpus, atiende, despacho, oyente, compactando, hayCPU, hayReady, km,
                 pedidos, caida>>

-----------------------------------------------------------------------------
(* The CPU module.                                                         *)

\* esperar_proceso: idle, it answers a compaction with the pid it carries.
RecibirEnEspera(c) ==
  /\ corre[c] = Ninguno /\ aCPU[c] # <<>>
  /\ LET m == Head(aCPU[c]) IN
       \/ /\ m.op = "EJECUTAR"
          /\ corre' = [corre EXCEPT ![c] = m.pid]
          /\ UNCHANGED aKS
       \/ /\ m.op = "COMPACTAR"
          /\ aKS' = Mandar(aKS, c, m.op, m.pid)
          /\ UNCHANGED corre
  /\ aCPU' = [aCPU EXCEPT ![c] = Tail(@)]
  /\ UNCHANGED <<colas, libre, asignado, hilos, compactando, sems, km, pedidos, caida>>

\* ciclo_de_instruccion: one packet after an instruction that is no syscall;
\* whatever its code, it evicts the process it names.
AtenderInterrupcion(c) ==
  /\ corre[c] # Ninguno /\ aCPU[c] # <<>>
  /\ LET m == Head(aCPU[c]) IN
       \/ /\ m.pid = corre[c]
          /\ aKS' = Mandar(aKS, c, m.op, m.pid)
          /\ corre' = [corre EXCEPT ![c] = Ninguno]
       \/ m.pid # corre[c] /\ UNCHANGED <<aKS, corre>>
  /\ aCPU' = [aCPU EXCEPT ![c] = Tail(@)]
  /\ UNCHANGED <<colas, libre, asignado, hilos, compactando, sems, km, pedidos, caida>>

PedirSyscall(c, op) ==
  /\ corre[c] # Ninguno /\ op \in Syscalls
  /\ pedidos' = [pedidos EXCEPT ![corre[c]] = IF op = "MEM_ALLOC" THEN @ + 1 ELSE @]
  /\ pedidos'[corre[c]] <= MaxPedidos[corre[c]]
  /\ aKS' = Mandar(aKS, c, op, corre[c])
  /\ corre' = [corre EXCEPT ![c] = Ninguno]
  /\ UNCHANGED <<colas, libre, asignado, aCPU, hilos, compactando, sems, km, caida>>

-----------------------------------------------------------------------------
(* atender_cpu                                                             *)

Atencion(c, f, p) == atiende' = [atiende EXCEPT ![c] = [fase |-> f, pid |-> p]]

\* The packet and the first section of its case.  reencolarAlInicio(pid) of a
\* pid that is not in EXEC (-1 among them) dereferences NULL.
RecibirDeCPU(c) ==
  /\ atiende[c].fase = "recibir" /\ aKS[c] # <<>>
  /\ LET m == Head(aKS[c]) IN
       \/ /\ m.op = "MEM_ALLOC"
          /\ aKM' = Append(aKM, Msj("CREAR", m.pid))
          /\ UNCHANGED <<exec, aCPU, atiende, caida>>
       \/ /\ m.op = "SEGUIR"
          /\ aCPU' = Mandar(aCPU, c, "EJECUTAR", m.pid)
          /\ UNCHANGED <<exec, aKM, atiende, caida>>
       \/ /\ m.op = "EXIT_PROC"
          /\ Atencion(c, "liberarYSacar", m.pid)
          /\ UNCHANGED <<exec, aCPU, aKM, caida>>
       \/ /\ m.op = "COMPACTAR"
          /\ Atencion(c, "encolar", m.pid)
          /\ exec' = exec \ {m.pid}
          /\ caida' = (m.pid \notin exec)
          /\ UNCHANGED <<aCPU, aKM>>
       \/ /\ m.op = "EJECUTAR"             \* "Operacion desconocida"
          /\ UNCHANGED <<exec, aCPU, aKM, atiende, caida>>
  /\ aKS' = [aKS EXCEPT ![c] = Tail(@)]
  /\ UNCHANGED <<ready, terminados, perdidos, libre, asignado, corre, despacho, monitor,
                 oyente, compactando, sems, deKM, moviendo, pedidos>>

\* Mutant: no post of sem_hayProcesosEnReady.
EncolarSinAviso(c) ==
  /\ atiende[c].fase = "encolar"
  /\ ready' = <<atiende[c].pid>> \o ready
  /\ Atencion(c, "liberar", Ninguno)
  /\ UNCHANGED <<exec, terminados, perdidos, cpus, despacho, monitor, oyente, compactando,
                 sems, km, pedidos, caida>>

\* The rest of reencolarAlInicio.
EncolarAlInicio(c) ==
  /\ atiende[c].fase = "encolar"
  /\ ready' = <<atiende[c].pid>> \o ready
  /\ hayReady' = hayReady + 1
  /\ Atencion(c, "liberar", Ninguno)
  /\ UNCHANGED <<exec, terminados, perdidos, cpus, despacho, monitor, oyente, compactando,
                 hayCPU, terminada, km, pedidos, caida>>

LiberarCPU(c) ==
  /\ atiende[c].fase \in {"liberar", "liberarYSacar"}
  /\ libre' = [libre EXCEPT ![c] = TRUE]
  /\ asignado' = [asignado EXCEPT ![c] = Ninguno]
  /\ hayCPU' = hayCPU + 1
  /\ Atencion(c, IF atiende[c].fase = "liberar" THEN "recibir" ELSE "sacar", atiende[c].pid)
  /\ UNCHANGED <<colas, corre, aCPU, aKS, despacho, monitor, oyente, compactando, hayReady,
                 terminada, km, pedidos, caida>>

\* finalizarProceso: a PCB that is not in EXEC ends the kernel.
Finalizar(c) ==
  /\ atiende[c].fase = "sacar"
  /\ exec' = exec \ {atiende[c].pid}
  /\ caida' = (atiende[c].pid \notin exec)
  /\ terminados' = terminados \cup (exec \cap {atiende[c].pid})
  /\ Atencion(c, "recibir", Ninguno)
  /\ UNCHANGED <<ready, perdidos, cpus, despacho, monitor, oyente, compactando, sems, km,
                 pedidos>>

-----------------------------------------------------------------------------
(* atender_kernel_memory                                                   *)

OyenteSolo == UNCHANGED <<colas, libre, asignado, corre, aKS, atiende, despacho, monitor,
                          moviendo, pedidos, caida>>

Recibir(op) == oyente.fase = "recibir" /\ deKM # <<>> /\ Head(deKM).op = op /\ deKM' = Tail(deKM)

RecibirInicio ==
  /\ Recibir("INICIAR")
  /\ compactando' = TRUE
  /\ oyente' = [oyente EXCEPT !.fase = "listar", !.pid = Head(deKM).pid]
  /\ OyenteSolo /\ UNCHANGED <<aCPU, sems, aKM>>

\* Mutant: COMPACTACION_OK clears the flag and posts nothing.
RecibirFinMudo ==
  /\ Recibir("COMPACTADO")
  /\ compactando' = FALSE
  /\ OyenteSolo /\ UNCHANGED <<aCPU, sems, aKM, oyente>>

RecibirFin ==
  /\ Recibir("COMPACTADO")
  /\ compactando' = FALSE /\ terminada' = terminada + 1
  /\ OyenteSolo /\ UNCHANGED <<aCPU, hayCPU, hayReady, aKM, oyente>>

CPUsDe(p) == {c \in CPUs : asignado[c] = p}        \* buscarCPUSegunPID

\* CREACION_DE_SEGMENTO_OK looks for the CPU whose entry names the process; a
\* process without one (it was evicted) is only logged.
RecibirCreado ==
  /\ Recibir("CREADO")
  /\ LET p == Head(deKM).pid
     IN \/ \E c \in CPUsDe(p) :
             oyente' = [fase |-> "responder", pid |-> p, cpus |-> {c}]
        \/ CPUsDe(p) = {} /\ UNCHANGED oyente
  /\ OyenteSolo /\ UNCHANGED <<aCPU, compactando, sems, aKM>>

\* The process may have been evicted and its CPU freed since the search.
EnviarCreado ==
  /\ oyente.fase = "responder"
  /\ \E c \in oyente.cpus : aCPU' = Mandar(aCPU, c, "EJECUTAR", oyente.pid)
  /\ oyente' = OyenteOcioso
  /\ OyenteSolo /\ UNCHANGED <<compactando, sems, aKM, deKM>>

\* pedirDesalojoPorCompactacion: the CPUs are listed under the lock, and each is
\* sent the pid its entry has when its turn comes.
ListarOcupadas ==
  /\ oyente.fase = "listar"
  /\ oyente' = [oyente EXCEPT !.fase = "notificar", !.cpus = CPUs \ Libres]
  /\ OyenteSolo /\ UNCHANGED <<aCPU, compactando, sems, aKM, deKM>>

Desalojar ==
  /\ oyente.fase = "notificar"
  /\ \/ \E c \in oyente.cpus :
          /\ aCPU' = Mandar(aCPU, c, "COMPACTAR", asignado[c])
          /\ oyente' = [oyente EXCEPT !.cpus = @ \ {c}]
     \/ /\ oyente.cpus = {}
        /\ oyente' = [oyente EXCEPT !.fase = "vaciar"]
        /\ UNCHANGED aCPU
  /\ OyenteSolo /\ UNCHANGED <<compactando, sems, aKM, deKM>>

\* chequearCPUsDesalojadas spins until EXEC is empty; then CPUS_DESALOJADAS.
AvisarDesalojadas ==
  /\ oyente.fase = "vaciar" /\ exec = {}
  /\ aKM' = Append(aKM, Msj("MOVER", oyente.pid))
  /\ oyente' = OyenteOcioso
  /\ OyenteSolo /\ UNCHANGED <<aCPU, compactando, sems, deKM>>

Escuchar == RecibirInicio \/ RecibirFin \/ RecibirCreado \/ EnviarCreado \/ ListarOcupadas \/ Desalojar \/ AvisarDesalojadas

-----------------------------------------------------------------------------
(* The thread of kernel_memory that serves the scheduler.                  *)

AvisarCompactacion(p) == <<Msj("INICIAR", p)>>

\* crear_segmento and the answer.  A request that only compaction can serve is
\* announced with INICIAR_COMPACTACION and answered with the same OK.
AtenderCreacion ==
  /\ moviendo = Ninguno /\ aKM # <<>> /\ Head(aKM).op = "CREAR"
  /\ LET p == Head(aKM).pid IN
       deKM' \in {deKM \o <<Msj("CREADO", p)>>,
                  deKM \o AvisarCompactacion(p) \o <<Msj("CREADO", p)>>}
  /\ aKM' = Tail(aKM)
  /\ UNCHANGED <<colas, cpus, hilos, compactando, sems, moviendo, pedidos, caida>>

IniciarCompactacion ==
  /\ moviendo = Ninguno /\ aKM # <<>> /\ Head(aKM).op = "MOVER"
  /\ moviendo' = Head(aKM).pid
  /\ aKM' = Tail(aKM)
  /\ UNCHANGED <<colas, cpus, hilos, compactando, sems, deKM, pedidos, caida>>

TerminarCompactacion ==
  /\ moviendo # Ninguno
  /\ deKM' = Append(deKM, Msj("COMPACTADO", moviendo))
  /\ moviendo' = Ninguno
  /\ UNCHANGED <<colas, cpus, hilos, compactando, sems, aKM, pedidos, caida>>

AtenderKM == AtenderCreacion \/ IniciarCompactacion \/ TerminarCompactacion

-----------------------------------------------------------------------------
Atender(c) == RecibirDeCPU(c) \/ EncolarAlInicio(c) \/ LiberarCPU(c) \/ Finalizar(c)
Servir(c)  == RecibirEnEspera(c) \/ AtenderInterrupcion(c)

Next == /\ ~caida
        /\ \/ Despachar \/ VerBandera \/ DespertarMonitor \/ Escuchar \/ AtenderKM
           \/ \E c \in CPUs : \/ Atender(c) \/ Servir(c)
                              \/ \E op \in Llamadas : PedirSyscall(c, op)

Spec == Init /\ [][Next]_vars

\* Threads run, CPUs look at their socket between instructions, kernel_memory
\* answers.  Nothing makes a program call.
Vivo(A) == ~caida /\ A
SpecEquidad ==
  /\ Spec
  /\ WF_vars(Vivo(Despachar)) /\ WF_vars(Vivo(DespertarMonitor))
  /\ WF_vars(Vivo(Escuchar)) /\ WF_vars(Vivo(AtenderKM))
  /\ \A c \in CPUs : WF_vars(Vivo(Atender(c))) /\ WF_vars(Vivo(Servir(c)))

-----------------------------------------------------------------------------
(* Properties                                                              *)
EnManoDespacho == IF despacho.fase \in {"elegirCPU", "asignar", "encolarExec"}
                  THEN {despacho.pcb} ELSE {}
EnManoAtencion == {atiende[c].pid : c \in {d \in CPUs : atiende[d].fase = "encolar"}}

\* Eviction puts a PCB back in READY in two sections while the dispatcher may
\* be taking another out of it: a PCB is in one queue, once, or in one hand, even
\* when two CPUs were sent the same pid.
CadaPCBEnUnLugar ==
  /\ IsInjective(ready)
  /\ \A p \in Procesos :
       \/ caida
       \/ Cardinality({i \in 1 .. 6 : p \in <<Range(ready), exec, terminados, perdidos,
                                           EnManoDespacho, EnManoAtencion>>[i]}) = 1

\* sem_hayProcesosEnReady counts READY: what eviction puts back is announced, and
\* the dispatcher gives back the token it cannot use during a compaction.
FichasDeReady ==
  hayReady + (IF despacho.fase \in {"mirar", "elegir"} THEN 1 ELSE 0) = Len(ready)

\* No free CPU is forgotten: each has a post of sem_hayCPUdisponible, or the
\* dispatcher holds it.  (There may be posts too many: a CPU that ran a process
\* twice is freed twice.)
CPULibreAnunciada ==
  Cardinality(Libres) <= hayCPU + (IF despacho.fase \in {"mirar", "elegir", "elegirCPU"}
                                   THEN 1 ELSE 0)

\* The flag and the semaphore are read and written without a lock, and one
\* compaction gives one post to two threads that may wait for it.  Still, once none
\* is under way, they do not all wait for a post that is not coming.
Esperan == (IF despacho.fase = "dormir" THEN {"despacho"} ELSE {})
           \cup (IF monitor = "dormir" \/ ~HayMonitor THEN {"monitor"} ELSE {})
AlgunoDespierta == ~compactando /\ Cardinality(Esperan) = 2 => terminada > 0

\* Comments at COMPACTACION_OK (atencion_KM.c 105-106): it "reinicia planificador",
\* and its one post "despierta a monitorPrioridades (y a cualquier otro que espere
\* lo mismo)": a dispatcher that waits for the end of the compaction goes on.
PlanificadorReinicia == despacho.fase = "dormir" ~> (despacho.fase # "dormir" \/ caida)
=============================================================================
