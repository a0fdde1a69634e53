---------------------------- MODULE Planificador ----------------------------
(***************************************************************************)
(* The short-term scheduler of kernel_scheduler: the dispatcher thread     *)
(* (loop_corto_plazo), one thread atender_cpu per connected CPU, the       *)
(* round-robin timer threads and the thread monitorPrioridades, over the   *)
(* queues NEW, READY (one per level), EXEC and BLOCK and their semaphores. *)
(*                                                                         *)
(* A step is one critical section or one send of a thread.  The sem_post   *)
(* that follows a critical section belongs to its step (a post only        *)
(* enables other threads, so nothing is seen between the two), and so do   *)
(* the sem_waits before one.  A CPU is reduced to what the scheduler sees  *)
(* of it: the process it runs and the messages it exchanges.               *)
(* Suspension to swap, compaction and mutex ownership are not here.        *)
(***************************************************************************)
EXTENDS Naturals, Sequences, FiniteSets, Functions

CONSTANTS
  Procesos,          (* pids the system may ever create                      *)
  CPUs,              (* CPU modules that may connect                         *)
  Ninguno,           (* pid -1 / NULL pointer                                *)
  Algoritmo,         (* PLANIFICATION_ALGORITHM: "FIFO", "RR" or "CMN"       *)
  Niveles,           (* number of READY queues under CMN                     *)
  Prioridad,         (* priority of each process, 0 the most urgent          *)
  ColasRR,           (* levels whose QUEUES_ALGORITHMS entry is RR           *)
  Desalojo,          (* QUEUES_PREEMPTION                                    *)
  Syscalls,          (* what the running programs may ask for                *)
  MaxDesconexiones,  (* bound: CPU disconnections in a behaviour             *)
  MaxTemporizadores, (* bound: round-robin timer threads alive at once       *)
  MaxAvisos          (* bound: pending posts of each semaphore of the monitor *)

LiberaAntes == {"SLEEP", "EXIT_PROC"}       \* the handler frees the CPU first
Bloqueantes == {"SLEEP", "MUTEX_LOCK"}      \* SLEEP stands for the three I/O calls
Desalojos   == {"QUANTUM", "PRIORIDAD"}
Llamadas    == Bloqueantes \cup {"EXIT_PROC", "SEG_FAULT", "SEGUIR"}

ASSUME PlanificadorAssumption ==
  /\ Ninguno \notin Procesos
  /\ Algoritmo \in {"FIFO", "RR", "CMN"}
  /\ Niveles \in Nat \ {0}
  /\ Prioridad \in [Procesos -> 0 .. Niveles - 1]
  /\ ColasRR \subseteq 0 .. Niveles - 1
  /\ Desalojo \in BOOLEAN
  /\ Syscalls \subseteq Llamadas
  /\ MaxDesconexiones \in Nat /\ MaxTemporizadores \in Nat /\ MaxAvisos \in Nat

Nivel     == 0 .. Niveles - 1
ColaDe(p) == IF Algoritmo = "CMN" THEN Prioridad[p] ELSE 0
\* crear_PCB: does the process run with a quantum?
EjecutaPorRR(p) == Algoritmo = "RR" \/ (Algoritmo = "CMN" /\ Prioridad[p] \in ColasRR)
HayMonitor == Desalojo /\ Algoritmo = "CMN"

VARIABLES
  creados,       (* pids handed out by crear_PCB                             *)
  nuevos,        (* colaNEW                                                  *)
  ready,         (* colasREADY                                               *)
  exec,          (* colaEXEC                                                 *)
  block,         (* colaBLOCK                                                *)
  terminados,    (* PCBs freed by eliminarProceso                            *)
  perdidos,      (* PCBs the dispatcher dropped: in no queue, no thread      *)
  traslado,      (* progress of the thread taking a PCB from NEW or BLOCK    *)
  conectadas,    (* colaCPUs                                                 *)
  libre,         (* t_cpu_conectada.libre                                    *)
  asignado,      (* t_cpu_conectada.pidEjecutando / pcbEjecutando            *)
  viva,          (* the CPU process is up and its socket open                *)
  corre,         (* the process the CPU module is executing                  *)
  aCPU,          (* socket kernel -> CPU                                     *)
  aKS,           (* socket CPU -> kernel                                     *)
  atiende,       (* the atender_cpu thread of each CPU                       *)
  despacho,      (* the loop_corto_plazo thread                              *)
  monitor,       (* the monitorPrioridades thread                            *)
  temporizadores,(* sleeping iniciarTemporizadorRR threads per CPU           *)
  avisosQuantum, (* timer threads that decided to preempt, not yet sent      *)
  hayCPU, hayReady, readyPrioridad, desalojados,     (* semaphores           *)
  desconexiones, (* CPU disconnections so far                                *)
  fantasmas,     (* posts of hayCPU whose CPU left while it was free         *)
  caida          (* where the kernel process died, or "no"                   *)

colas == <<creados, nuevos, ready, exec, block, terminados, perdidos, traslado>>
cpus  == <<conectadas, libre, asignado, viva, corre, aCPU, aKS>>
hilos == <<atiende, despacho, monitor>>
reloj == <<temporizadores, avisosQuantum>>
sems  == <<hayCPU, hayReady, readyPrioridad, desalojados>>
otros == <<desconexiones, fantasmas, caida>>
vars  == <<colas, cpus, hilos, reloj, sems, otros>>

Pid == Procesos \cup {Ninguno}
Mensaje == [op : {"PROCESO_A_PROCESAR"} \cup Desalojos, pid : Pid]
Pedido  == [op : Llamadas \cup Desalojos, pid : Procesos]
Operaciones == Llamadas \cup Desalojos \cup {"CONECTAR", "DESCONEXION_CPU"}
FasesAtencion == {"afuera", "recibir", "liberar", "sacar", "encolar", "bloquear",
                  "terminar", "responder", "quitar"}
FasesDespacho == {"esperar", "elegir", "elegirCPU", "asignar", "encolarExec", "enviar",
                  "temporizar"}
FasesMonitor  == {"esperar", "mirar", "menor", "buscar", "ubicar", "enviar",
                  "comprobar", "esperarDesalojo"}

Caidas == {"no", "despacho", "atencion", "monitor", "envio"}
Atenciones == [fase : FasesAtencion, pid : Pid, op : Operaciones]
Despachos  == [fase : FasesDespacho, pcb : Pid, cpu : CPUs \cup {Ninguno}, nivel : Nivel]
Monitores  == [fase : FasesMonitor, victima : Pid, cpu : CPUs \cup {Ninguno},
               nivel : Nivel, otro : Pid]

TipoColas ==
  /\ creados \subseteq Procesos /\ exec \subseteq Procesos /\ block \subseteq Procesos
  /\ terminados \subseteq Procesos /\ perdidos \subseteq Procesos
  /\ nuevos \in Seq(Procesos) /\ ready \in [Nivel -> Seq(Procesos)]
  /\ traslado \in [Procesos -> {"nada", "admitiendo", "despertando"}]
TipoCPUs ==
  /\ conectadas \subseteq CPUs
  /\ libre \in [CPUs -> BOOLEAN] /\ viva \in [CPUs -> BOOLEAN]
  /\ asignado \in [CPUs -> Pid] /\ corre \in [CPUs -> Pid]
  /\ aCPU \in [CPUs -> Seq(Mensaje)] /\ aKS \in [CPUs -> Seq(Pedido)]
TipoHilos ==
  /\ atiende \in [CPUs -> Atenciones] /\ despacho \in Despachos /\ monitor \in Monitores
TipoReloj ==
  /\ temporizadores \in [CPUs -> [Pid -> Nat]]
  /\ avisosQuantum \in [CPUs -> Nat]
TipoSems  == /\ hayCPU \in Nat /\ hayReady \in Nat
             /\ readyPrioridad \in Nat /\ desalojados \in Nat
TipoOtros == /\ desconexiones \in Nat /\ fantasmas \in Nat
             /\ caida \in Caidas

TypeOK == TipoColas /\ TipoCPUs /\ TipoHilos /\ TipoReloj /\ TipoSems /\ TipoOtros

DespachoOcioso == [fase |-> "esperar", pcb |-> Ninguno, cpu |-> Ninguno, nivel |-> 0]
MonitorOcioso  == [fase |-> "esperar", victima |-> Ninguno, cpu |-> Ninguno,
                   nivel |-> 0, otro |-> Ninguno]

Init ==
  /\ creados = {} /\ nuevos = <<>> /\ ready = [i \in Nivel |-> <<>>]
  /\ exec = {} /\ block = {} /\ terminados = {} /\ perdidos = {}
  /\ traslado = [p \in Procesos |-> "nada"]
  /\ conectadas = {} /\ libre = [c \in CPUs |-> FALSE] /\ viva = [c \in CPUs |-> FALSE]
  /\ asignado = [c \in CPUs |-> Ninguno] /\ corre = [c \in CPUs |-> Ninguno]
  /\ aCPU = [c \in CPUs |-> <<>>] /\ aKS = [c \in CPUs |-> <<>>]
  /\ atiende = [c \in CPUs |-> [fase |-> "afuera", pid |-> Ninguno, op |-> "CONECTAR"]]
  /\ despacho = DespachoOcioso /\ monitor = MonitorOcioso
  /\ temporizadores = [c \in CPUs |-> [p \in Pid |-> 0]]
  /\ avisosQuantum = [c \in CPUs |-> 0]
  /\ hayCPU = 0 /\ hayReady = 0 /\ readyPrioridad = 0 /\ desalojados = 0
  /\ desconexiones = 0 /\ fantasmas = 0 /\ caida = "no"

Sumar(f, c) == [f EXCEPT ![c] = @ + 1]

-----------------------------------------------------------------------------
(* Sockets.  A send to a CPU that is gone is lost, or kills the kernel     *)
(* with SIGPIPE: enviar_paquete calls send without MSG_NOSIGNAL.           *)

EnviarACPU(c, m) ==
  \/ /\ viva[c]
     /\ aCPU' = [aCPU EXCEPT ![c] = Append(@, m)]
     /\ UNCHANGED caida
  \/ /\ ~viva[c]
     /\ caida' \in {"no", "envio"}
     /\ UNCHANGED aCPU

-----------------------------------------------------------------------------
(* Pushing a PCB to READY and posting the semaphores that announce it.     *)

\* Mutants: no post of sem_hayProcesosEnReady, push in front of the queue.
EncolarReadySinFicha(p) ==
  /\ HayMonitor => readyPrioridad < MaxAvisos
  /\ ready' = [ready EXCEPT ![ColaDe(p)] = Append(@, p)]
  /\ readyPrioridad' = IF HayMonitor THEN readyPrioridad + 1 ELSE readyPrioridad
  /\ UNCHANGED hayReady

EncolarReadyAlFrente(p) ==
  /\ HayMonitor => readyPrioridad < MaxAvisos
  /\ ready' = [ready EXCEPT ![ColaDe(p)] = <<p>> \o @]
  /\ hayReady' = hayReady + 1
  /\ readyPrioridad' = IF HayMonitor THEN readyPrioridad + 1 ELSE readyPrioridad

EncolarReady(p) ==
  /\ HayMonitor => readyPrioridad < MaxAvisos
  /\ ready' = [ready EXCEPT ![ColaDe(p)] = Append(@, p)]
  /\ hayReady' = hayReady + 1
  /\ readyPrioridad' = IF HayMonitor THEN readyPrioridad + 1 ELSE readyPrioridad

-----------------------------------------------------------------------------
(* NEW -> READY (CREACION_DE_PROCESO_OK, one kernel-memory thread) and     *)
(* BLOCK -> READY (I/O listeners and threads that unlock a mutex).         *)

CrearProceso(p) ==
  /\ p \notin creados
  /\ creados' = creados \cup {p}
  /\ nuevos' = Append(nuevos, p)
  /\ UNCHANGED <<ready, exec, block, terminados, perdidos, traslado, cpus, hilos, reloj,
                 sems, otros>>

\* pasarProcesoNewAReady, first critical section.  The listener of kernel
\* memory is one thread: it ends an admission before the next.
SacarDeNew ==
  /\ nuevos # <<>>
  /\ \A p \in Procesos : traslado[p] # "admitiendo"
  /\ traslado' = [traslado EXCEPT ![Head(nuevos)] = "admitiendo"]
  /\ nuevos' = Tail(nuevos)
  /\ UNCHANGED <<creados, ready, exec, block, terminados, perdidos, cpus, hilos, reloj,
                 sems, otros>>

\* Mutant: the PCB is found but not taken out of BLOCK.
MirarBlock(p) ==
  /\ p \in block
  /\ traslado[p] = "nada"
  /\ traslado' = [traslado EXCEPT ![p] = "despertando"]
  /\ UNCHANGED <<creados, nuevos, ready, exec, block, terminados, perdidos, cpus, hilos,
                 reloj, sems, otros>>

\* pasarProcesoBlockaReady, first critical section.
SacarDeBlock(p) ==
  /\ p \in block
  /\ block' = block \ {p}
  /\ traslado' = [traslado EXCEPT ![p] = "despertando"]
  /\ UNCHANGED <<creados, nuevos, ready, exec, terminados, perdidos, cpus, hilos, reloj,
                 sems, otros>>

\* The rest of both functions.
EncolarTraslado(p) ==
  /\ traslado[p] # "nada"
  /\ EncolarReady(p)
  /\ traslado' = [traslado EXCEPT ![p] = "nada"]
  /\ UNCHANGED <<creados, nuevos, exec, block, terminados, perdidos, cpus, hilos, reloj,
                 hayCPU, desalojados, otros>>

-----------------------------------------------------------------------------
(* loop_corto_plazo and pasarProcesoReadyAExec                             *)

\* Mutant: no wait on sem_hayProcesosEnReady.
TomarFichaDeCPU ==
  /\ despacho.fase = "esperar" /\ hayCPU > 0
  /\ hayCPU' = hayCPU - 1 /\ hayReady' = hayReady - 1
  /\ despacho' = [despacho EXCEPT !.fase = "elegir"]
  /\ UNCHANGED <<colas, cpus, atiende, monitor, reloj, readyPrioridad, desalojados, otros>>

\* Only this thread waits on the two semaphores.
TomarFichas ==
  /\ despacho.fase = "esperar" /\ hayCPU > 0 /\ hayReady > 0
  /\ hayCPU' = hayCPU - 1 /\ hayReady' = hayReady - 1
  /\ despacho' = [despacho EXCEPT !.fase = "elegir"]
  /\ UNCHANGED <<colas, cpus, atiende, monitor, reloj, readyPrioridad, desalojados, otros>>

\* Mutant: the scan of elegirPorCMN ends one level early.
PenultimoNivel == IF Algoritmo = "CMN" THEN Niveles - 2 ELSE 0

\* elegirPorFIFO and elegirPorRR look at queue 0; elegirPorCMN scans the
\* levels, taking the mutex of one level at a time.
UltimoNivel == IF Algoritmo = "CMN" THEN Niveles - 1 ELSE 0

ElegirProceso ==
  /\ despacho.fase = "elegir"
  /\ LET i == despacho.nivel IN
       \/ /\ ready[i] # <<>>
          /\ ready' = [ready EXCEPT ![i] = Tail(@)]
          /\ despacho' = [despacho EXCEPT !.fase = "elegirCPU", !.pcb = Head(ready[i])]
       \/ /\ ready[i] = <<>> /\ i < UltimoNivel
          /\ despacho' = [despacho EXCEPT !.nivel = i + 1]
          /\ UNCHANGED ready
       \/ /\ ready[i] = <<>> /\ i = UltimoNivel
          /\ despacho' = [despacho EXCEPT !.fase = "elegirCPU"]
          /\ UNCHANGED ready
  /\ UNCHANGED <<creados, nuevos, exec, block, terminados, perdidos, traslado, cpus,
                 atiende, monitor, reloj, sems, otros>>

Libres == {c \in conectadas : libre[c]}

\* elegirCPU and the early return of pasarProcesoReadyAExec: without a CPU
\* or without a PCB the function returns and keeps neither.
ElegirCPU ==
  /\ despacho.fase = "elegirCPU"
  /\ LET p == despacho.pcb IN
       \/ \E c \in Libres :
            /\ libre' = [libre EXCEPT ![c] = FALSE]
            /\ despacho' = IF p = Ninguno THEN DespachoOcioso
                           ELSE [despacho EXCEPT !.fase = "asignar", !.cpu = c]
            /\ UNCHANGED <<perdidos, fantasmas>>
       \/ /\ Libres = {}
          /\ perdidos' = perdidos \cup ({p} \ {Ninguno})
          /\ fantasmas' = IF fantasmas > 0 THEN fantasmas - 1 ELSE 0
          /\ despacho' = DespachoOcioso
          /\ UNCHANGED libre
  /\ UNCHANGED <<creados, nuevos, ready, exec, block, terminados, traslado, conectadas,
                 asignado, viva, corre, aCPU, aKS, atiende, monitor, reloj, sems,
                 desconexiones, caida>>

\* The dispatcher keeps a pointer to the CPU; atender_cpu may have freed it.
AsignarCPU ==
  /\ despacho.fase = "asignar"
  /\ asignado' = [asignado EXCEPT ![despacho.cpu] = despacho.pcb]
  /\ caida' \in IF despacho.cpu \in conectadas THEN {"no"} ELSE {"no", "despacho"}
  /\ despacho' = [despacho EXCEPT !.fase = "encolarExec"]
  /\ UNCHANGED <<colas, conectadas, libre, viva, corre, aCPU, aKS, atiende, monitor,
                 reloj, sems, desconexiones, fantasmas>>

EncolarExec ==
  /\ despacho.fase = "encolarExec"
  /\ exec' = exec \cup {despacho.pcb}
  /\ despacho' = [despacho EXCEPT !.fase = "enviar"]
  /\ UNCHANGED <<creados, nuevos, ready, block, terminados, perdidos, traslado, cpus,
                 atiende, monitor, reloj, sems, otros>>

EnviarProceso ==
  /\ despacho.fase = "enviar"
  /\ EnviarACPU(despacho.cpu, [op |-> "PROCESO_A_PROCESAR", pid |-> despacho.pcb])
  /\ despacho' = [despacho EXCEPT !.fase = "temporizar"]
  /\ UNCHANGED <<colas, conectadas, libre, asignado, viva, corre, aKS, atiende, monitor,
                 reloj, sems, desconexiones, fantasmas>>

\* buscarPCBPorPID(pid, colaEXEC)->ejecutaPorRR: a NULL dereference when the
\* process already left EXEC.  Otherwise a timer thread starts under RR.
Temporizar ==
  /\ despacho.fase = "temporizar"
  /\ \/ /\ despacho.pcb \notin exec
        /\ caida' = "despacho"
        /\ UNCHANGED temporizadores
     \/ /\ despacho.pcb \in exec /\ EjecutaPorRR(despacho.pcb)
        /\ temporizadores[despacho.cpu][despacho.pcb] < MaxTemporizadores
        /\ temporizadores[despacho.cpu][Ninguno] < MaxTemporizadores
        /\ temporizadores' = [temporizadores EXCEPT ![despacho.cpu][Ninguno] = @ + 1]
        /\ UNCHANGED caida
     \/ /\ despacho.pcb \in exec /\ ~EjecutaPorRR(despacho.pcb)
        /\ UNCHANGED <<caida, temporizadores>>
  /\ despacho' = DespachoOcioso
  /\ UNCHANGED <<colas, cpus, atiende, monitor, avisosQuantum, sems, desconexiones,
                 fantasmas>>

Despachar == TomarFichas \/ ElegirProceso \/ ElegirCPU \/ AsignarCPU
             \/ EncolarExec \/ EnviarProceso \/ Temporizar

-----------------------------------------------------------------------------
(* iniciarTemporizadorRR: the thread reads what the CPU runs when it       *)
(* starts, sleeps the quantum, compares, and sends what the CPU runs then. *)
(* It holds a pointer to a CPU that atender_cpu may have freed meanwhile.   *)

ArrancarTemporizador(c) ==
  /\ temporizadores[c][Ninguno] > 0
  /\ temporizadores' =
       [temporizadores EXCEPT ![c][Ninguno] = @ - 1,
                              ![c][asignado[c]] = IF asignado[c] = Ninguno THEN @ ELSE @ + 1]
  /\ UNCHANGED <<colas, cpus, hilos, avisosQuantum, sems, otros>>

\* Mutant: the timer finds the PCB in the wrong queue and never preempts.
VencerQuantumMudo(c, p) ==
  /\ temporizadores[c][p] > 0
  /\ temporizadores' = [temporizadores EXCEPT ![c][p] = @ - 1]
  /\ UNCHANGED <<colas, cpus, hilos, avisosQuantum, sems, otros>>

VencerQuantum(c, p) ==
  /\ temporizadores[c][p] > 0 /\ avisosQuantum[c] < MaxTemporizadores
  /\ temporizadores' = [temporizadores EXCEPT ![c][p] = @ - 1]
  /\ \/ /\ p \in exec /\ (asignado[c] = p \/ c \notin conectadas)
        /\ avisosQuantum' = Sumar(avisosQuantum, c)
     \/ /\ ~(p \in exec /\ asignado[c] = p /\ c \in conectadas)
        /\ UNCHANGED avisosQuantum
  /\ UNCHANGED <<colas, cpus, hilos, sems, otros>>

\* notificarDesalojo(cpu, NULL, PROCESO_DESALOJADO_QUANTUM)
NotificarQuantum(c) ==
  /\ avisosQuantum[c] > 0
  /\ avisosQuantum' = [avisosQuantum EXCEPT ![c] = @ - 1]
  /\ EnviarACPU(c, [op |-> "QUANTUM", pid |-> asignado[c]])
  /\ UNCHANGED <<colas, conectadas, libre, asignado, viva, corre, aKS, hilos,
                 temporizadores, sems, desconexiones, fantasmas>>

-----------------------------------------------------------------------------
(* The CPU module, as the kernel sees it.                                  *)

\* Mutant: an idle CPU answers the interrupts instead of dropping them.
RecibirTodo(c) ==
  /\ viva[c] /\ corre[c] = Ninguno /\ aCPU[c] # <<>>
  /\ LET m == Head(aCPU[c]) IN
       IF m.op = "PROCESO_A_PROCESAR" \/ m.pid = Ninguno
       THEN corre' = [corre EXCEPT ![c] = m.pid] /\ UNCHANGED aKS
       ELSE aKS' = [aKS EXCEPT ![c] = Append(@, m)] /\ UNCHANGED corre
  /\ aCPU' = [aCPU EXCEPT ![c] = Tail(@)]
  /\ UNCHANGED <<colas, conectadas, libre, asignado, viva, hilos, reloj, sems, otros>>

\* esperar_proceso: an idle CPU takes a process and drops interrupts.
RecibirProceso(c) ==
  /\ viva[c] /\ corre[c] = Ninguno /\ aCPU[c] # <<>>
  /\ LET m == Head(aCPU[c]) IN
       corre' = IF m.op = "PROCESO_A_PROCESAR" THEN [corre EXCEPT ![c] = m.pid] ELSE corre
  /\ aCPU' = [aCPU EXCEPT ![c] = Tail(@)]
  /\ UNCHANGED <<colas, conectadas, libre, asignado, viva, aKS, hilos, reloj, sems, otros>>

\* Mutant: the CPU goes on running the process it gave back.
AtenderSinSoltar(c) ==
  /\ viva[c] /\ corre[c] # Ninguno /\ aCPU[c] # <<>>
  /\ LET m == Head(aCPU[c]) IN
       /\ m.pid = corre[c] /\ m.op \in Desalojos
       /\ aKS' = [aKS EXCEPT ![c] = Append(@, [op |-> m.op, pid |-> m.pid])]
  /\ aCPU' = [aCPU EXCEPT ![c] = Tail(@)]
  /\ UNCHANGED <<colas, conectadas, libre, asignado, viva, corre, hilos, reloj, sems, otros>>

\* ciclo_de_instruccion after an instruction that is no syscall: one pending
\* packet is read; it counts only when it names the running process.
AtenderInterrupcion(c) ==
  /\ viva[c] /\ corre[c] # Ninguno /\ aCPU[c] # <<>>
  /\ LET m == Head(aCPU[c]) IN
       \/ /\ m.pid = corre[c] /\ m.op \in Desalojos
          /\ aKS' = [aKS EXCEPT ![c] = Append(@, [op |-> m.op, pid |-> m.pid])]
          /\ corre' = [corre EXCEPT ![c] = Ninguno]
       \/ /\ m.pid # corre[c]
          /\ UNCHANGED <<aKS, corre>>
  /\ aCPU' = [aCPU EXCEPT ![c] = Tail(@)]
  /\ UNCHANGED <<colas, conectadas, libre, asignado, viva, hilos, reloj, sems, otros>>

\* A syscall (or a segmentation fault) leaves the cycle without looking for
\* interrupts.
PedirSyscall(c, op) ==
  /\ viva[c] /\ corre[c] # Ninguno
  /\ aKS' = [aKS EXCEPT ![c] = Append(@, [op |-> op, pid |-> corre[c]])]
  /\ corre' = [corre EXCEPT ![c] = Ninguno]
  /\ UNCHANGED <<colas, conectadas, libre, asignado, viva, aCPU, hilos, reloj, sems, otros>>

CaerCPU(c) ==
  /\ viva[c] /\ desconexiones < MaxDesconexiones
  /\ desconexiones' = desconexiones + 1
  /\ viva' = [viva EXCEPT ![c] = FALSE]
  /\ corre' = [corre EXCEPT ![c] = Ninguno]
  /\ aCPU' = [aCPU EXCEPT ![c] = <<>>]
  /\ UNCHANGED <<colas, conectadas, libre, asignado, aKS, hilos, reloj, sems, fantasmas,
                 caida>>

-----------------------------------------------------------------------------
(* atender_cpu: a handler is a sequence of critical sections.              *)

AtencionOciosa == [fase |-> "recibir", pid |-> Ninguno, op |-> "CONECTAR"]
Fase(c, f) == atiende' = [atiende EXCEPT ![c] =
                            IF f = "recibir" THEN AtencionOciosa ELSE [@ EXCEPT !.fase = f]]

\* CPU_HANDSHAKE registers the CPU and starts its thread, which posts first.
ConectarCPU(c) ==
  /\ atiende[c].fase = "afuera" /\ atiende[c].op = "CONECTAR"
  /\ conectadas' = conectadas \cup {c}
  /\ libre' = [libre EXCEPT ![c] = TRUE]
  /\ viva' = [viva EXCEPT ![c] = TRUE]
  /\ hayCPU' = hayCPU + 1
  /\ Fase(c, "recibir")
  /\ UNCHANGED <<colas, asignado, corre, aCPU, aKS, despacho, monitor, reloj, hayReady,
                 readyPrioridad, desalojados, otros>>

PrimeraFase(op) == IF op = "SEGUIR" THEN "responder"
                   ELSE IF op \in LiberaAntes THEN "liberar" ELSE "sacar"

RecibirDeCPU(c) ==
  /\ atiende[c].fase = "recibir" /\ aKS[c] # <<>>
  /\ LET m == Head(aKS[c]) IN
       /\ m.op = "PRIORIDAD" => desalojados < MaxAvisos
       /\ atiende' = [atiende EXCEPT ![c] =
                        [fase |-> PrimeraFase(m.op), pid |-> m.pid, op |-> m.op]]
       /\ desalojados' = IF m.op = "PRIORIDAD" THEN desalojados + 1 ELSE desalojados
  /\ aKS' = [aKS EXCEPT ![c] = Tail(@)]
  /\ UNCHANGED <<colas, conectadas, libre, asignado, viva, corre, aCPU, despacho, monitor,
                 reloj, hayCPU, hayReady, readyPrioridad, otros>>

\* recibir_paquete returned NULL: the process the CPU had, if any, is
\* finished and the CPU forgotten.
DetectarDesconexion(c) ==
  /\ atiende[c].fase = "recibir" /\ aKS[c] = <<>> /\ ~viva[c]
  /\ atiende' = [atiende EXCEPT ![c] =
                   [fase |-> IF asignado[c] = Ninguno THEN "quitar" ELSE "sacar",
                    pid |-> asignado[c], op |-> "DESCONEXION_CPU"]]
  /\ UNCHANGED <<colas, cpus, despacho, monitor, reloj, sems, otros>>

\* Mutants: liberarCPU posts twice, or not at all.
LiberarDosVeces(c) ==
  /\ atiende[c].fase = "liberar"
  /\ libre' = [libre EXCEPT ![c] = TRUE]
  /\ asignado' = [asignado EXCEPT ![c] = Ninguno]
  /\ hayCPU' = hayCPU + 2
  /\ Fase(c, IF atiende[c].op \in LiberaAntes THEN "sacar" ELSE "recibir")
  /\ UNCHANGED <<colas, conectadas, viva, corre, aCPU, aKS, despacho, monitor, reloj,
                 hayReady, readyPrioridad, desalojados, otros>>

LiberarSinAviso(c) ==
  /\ atiende[c].fase = "liberar"
  /\ libre' = [libre EXCEPT ![c] = TRUE]
  /\ asignado' = [asignado EXCEPT ![c] = Ninguno]
  /\ Fase(c, IF atiende[c].op \in LiberaAntes THEN "sacar" ELSE "recibir")
  /\ UNCHANGED <<colas, conectadas, viva, corre, aCPU, aKS, despacho, monitor, reloj,
                 sems, otros>>

\* liberarCPU
LiberarCPU(c) ==
  /\ atiende[c].fase = "liberar"
  /\ libre' = [libre EXCEPT ![c] = TRUE]
  /\ asignado' = [asignado EXCEPT ![c] = Ninguno]
  /\ hayCPU' = hayCPU + 1
  /\ Fase(c, IF atiende[c].op \in LiberaAntes THEN "sacar" ELSE "recibir")
  /\ UNCHANGED <<colas, conectadas, viva, corre, aCPU, aKS, despacho, monitor, reloj,
                 hayReady, readyPrioridad, desalojados, otros>>

\* Mutant: the PCB is found but not taken out of EXEC.
MirarExec(c) ==
  /\ atiende[c].fase = "sacar" /\ atiende[c].pid \in exec
  /\ Fase(c, IF atiende[c].op \in Desalojos THEN "encolar"
             ELSE IF atiende[c].op \in Bloqueantes THEN "bloquear" ELSE "terminar")
  /\ UNCHANGED <<colas, cpus, despacho, monitor, reloj, sems, otros>>

\* The first critical section of pasarProcesoExecAReady, pasarProcesoExecABlock
\* and finalizarProceso.  A PCB that is not in EXEC is a NULL dereference in the
\* first two and exit(EXIT_FAILURE) in the third.
SacarDeExec(c) ==
  /\ atiende[c].fase = "sacar"
  /\ LET p == atiende[c].pid
         op == atiende[c].op IN
       \/ /\ p \in exec
          /\ exec' = exec \ {p}
          /\ Fase(c, IF op \in Desalojos THEN "encolar"
                     ELSE IF op \in Bloqueantes THEN "bloquear" ELSE "terminar")
          /\ UNCHANGED caida
       \/ /\ p \notin exec
          /\ caida' = "atencion"
          /\ UNCHANGED <<exec, atiende>>
  /\ UNCHANGED <<creados, nuevos, ready, block, terminados, perdidos, traslado, cpus,
                 despacho, monitor, reloj, sems, desconexiones, fantasmas>>

EncolarDesalojado(c) ==
  /\ atiende[c].fase = "encolar"
  /\ EncolarReady(atiende[c].pid)
  /\ Fase(c, "liberar")
  /\ UNCHANGED <<creados, nuevos, exec, block, terminados, perdidos, traslado, cpus,
                 despacho, monitor, reloj, hayCPU, desalojados, otros>>

\* Where a handler goes after it put the PCB away.
FaseFinal(op) == IF op = "DESCONEXION_CPU" THEN "quitar"
                 ELSE IF op \in LiberaAntes THEN "recibir" ELSE "liberar"

Bloquear(c) ==
  /\ atiende[c].fase = "bloquear"
  /\ block' = block \cup {atiende[c].pid}
  /\ Fase(c, FaseFinal(atiende[c].op))
  /\ UNCHANGED <<creados, nuevos, ready, exec, terminados, perdidos, traslado, cpus,
                 despacho, monitor, reloj, sems, otros>>

\* finalizarProceso after the search: EXIT, FINALIZAR_PROCESO to kernel
\* memory, eliminarProceso.
Terminar(c) ==
  /\ atiende[c].fase = "terminar"
  /\ terminados' = terminados \cup {atiende[c].pid}
  /\ Fase(c, FaseFinal(atiende[c].op))
  /\ UNCHANGED <<creados, nuevos, ready, exec, block, perdidos, traslado, cpus, despacho,
                 monitor, reloj, sems, otros>>

\* A syscall that does not block: the pid goes back to the same CPU.
Responder(c) ==
  /\ atiende[c].fase = "responder"
  /\ EnviarACPU(c, [op |-> "PROCESO_A_PROCESAR", pid |-> atiende[c].pid])
  /\ Fase(c, "recibir")
  /\ UNCHANGED <<colas, conectadas, libre, asignado, viva, corre, aKS, despacho, monitor,
                 reloj, sems, desconexiones, fantasmas>>

\* quitarCPU, free and the end of the thread.
QuitarCPU(c) ==
  /\ atiende[c].fase = "quitar"
  /\ conectadas' = conectadas \ {c}
  /\ fantasmas' = IF libre[c] THEN fantasmas + 1 ELSE fantasmas
  /\ Fase(c, "afuera")
  /\ UNCHANGED <<colas, libre, asignado, viva, corre, aCPU, aKS, despacho, monitor, reloj,
                 sems, desconexiones, caida>>

Atender(c) == RecibirDeCPU(c) \/ DetectarDesconexion(c) \/ LiberarCPU(c)
              \/ SacarDeExec(c) \/ EncolarDesalojado(c) \/ Bloquear(c) \/ Terminar(c) \/ Responder(c) \/ QuitarCPU(c)

-----------------------------------------------------------------------------
(* monitorPrioridades and notificarDesalojo(.., PROCESO_DESALOJADO_PRIORIDAD) *)

MonitorSolo == UNCHANGED <<colas, atiende, despacho, reloj>>

EsperarReadyPrioridad ==
  /\ monitor.fase = "esperar" /\ readyPrioridad > 0
  /\ readyPrioridad' = readyPrioridad - 1
  /\ monitor' = [monitor EXCEPT !.fase = "mirar"]
  /\ MonitorSolo /\ UNCHANGED <<cpus, hayCPU, hayReady, desalojados, otros>>

\* buscarCPULibre
MirarCPUs ==
  /\ monitor.fase = "mirar"
  /\ monitor' = [monitor EXCEPT !.fase = IF Libres = {} THEN "menor" ELSE "esperar"]
  /\ MonitorSolo /\ UNCHANGED <<cpus, sems, otros>>

\* buscarMenorPrioridad: among those in EXEC with a priority above 0.
MenorPrioridad == {p \in exec : /\ Prioridad[p] > 0
                                /\ \A q \in exec : Prioridad[q] <= Prioridad[p]}

ElegirVictima ==
  /\ monitor.fase = "menor"
  /\ \/ /\ MenorPrioridad = {}
        /\ monitor' = MonitorOcioso
     \/ \E p \in MenorPrioridad :
          monitor' = [monitor EXCEPT !.fase = "buscar", !.victima = p, !.nivel = 0]
  /\ MonitorSolo /\ UNCHANGED <<cpus, sems, otros>>

\* procesoMasPrioritario, one level per step.
BuscarMasPrioritario ==
  /\ monitor.fase = "buscar"
  /\ LET i == monitor.nivel IN
       \/ /\ i = Prioridad[monitor.victima]
          /\ monitor' = MonitorOcioso
       \/ /\ i < Prioridad[monitor.victima] /\ ready[i] # <<>>
          /\ monitor' = [monitor EXCEPT !.fase = "ubicar"]
       \/ /\ i < Prioridad[monitor.victima] /\ ready[i] = <<>>
          /\ monitor' = [monitor EXCEPT !.nivel = i + 1]
  /\ MonitorSolo /\ UNCHANGED <<cpus, sems, otros>>

\* buscarCPUSegunPID and buscarPCBenReadyConPrioridad; notificarDesalojo
\* dereferences the CPU at once.
UbicarVictima ==
  /\ monitor.fase = "ubicar"
  /\ LET duenios == {c \in conectadas : asignado[c] = monitor.victima}
         otro    == IF ready[monitor.nivel] = <<>> THEN Ninguno ELSE Head(ready[monitor.nivel])
     IN \/ \E c \in duenios :
             /\ monitor' = [monitor EXCEPT !.fase = "enviar", !.cpu = c, !.otro = otro]
             /\ UNCHANGED caida
        \/ /\ duenios = {}
           /\ caida' = "monitor"
           /\ UNCHANGED monitor
  /\ MonitorSolo /\ UNCHANGED <<cpus, sems, desconexiones, fantasmas>>

NotificarPrioridad ==
  /\ monitor.fase = "enviar"
  /\ EnviarACPU(monitor.cpu, [op |-> "PRIORIDAD", pid |-> asignado[monitor.cpu]])
  /\ monitor' = [monitor EXCEPT !.fase = "comprobar"]
  /\ MonitorSolo
  /\ UNCHANGED <<conectadas, libre, asignado, viva, corre, aKS, sems, desconexiones, fantasmas>>

ComprobarEnExec ==
  /\ monitor.fase = "comprobar"
  /\ monitor' = IF asignado[monitor.cpu] \in exec
                THEN [monitor EXCEPT !.fase = "esperarDesalojo"] ELSE MonitorOcioso
  /\ MonitorSolo /\ UNCHANGED <<cpus, sems, otros>>

\* The log line after the wait reads pcbOtroProceso, NULL when the level
\* had emptied before it was looked up.
EsperarDesalojo ==
  /\ monitor.fase = "esperarDesalojo" /\ desalojados > 0
  /\ desalojados' = desalojados - 1
  /\ caida' = IF monitor.otro = Ninguno THEN "monitor" ELSE "no"
  /\ monitor' = MonitorOcioso
  /\ MonitorSolo /\ UNCHANGED <<cpus, hayCPU, hayReady, readyPrioridad, desconexiones, fantasmas>>

Monitorear == /\ HayMonitor
              /\ EsperarReadyPrioridad \/ MirarCPUs \/ ElegirVictima \/ BuscarMasPrioritario
                 \/ UbicarVictima \/ NotificarPrioridad \/ ComprobarEnExec \/ EsperarDesalojo

-----------------------------------------------------------------------------
Trasladar == \/ \E p \in Procesos : CrearProceso(p) \/ SacarDeBlock(p)
                                    \/ EncolarTraslado(p)
             \/ SacarDeNew

EjecutarCPU(c) == \/ ConectarCPU(c) \/ RecibirProceso(c) \/ AtenderInterrupcion(c) \/ CaerCPU(c)
                  \/ \E op \in Syscalls : PedirSyscall(c, op)

Reloj(c) == \/ ArrancarTemporizador(c) \/ NotificarQuantum(c)
            \/ \E p \in Procesos : VencerQuantum(c, p)

Next == /\ caida = "no"
        /\ \/ Trasladar \/ Despachar \/ Monitorear
           \/ \E c \in CPUs : Atender(c) \/ EjecutarCPU(c) \/ Reloj(c)

Spec == Init /\ [][Next]_vars

(* Every thread of the kernel keeps running and every CPU keeps serving its *)
(* socket.  Nothing makes a program issue a call or a CPU leave.            *)
Vivo(A) == caida = "no" /\ A

Equidad ==
  /\ WF_vars(Vivo(Despachar))
  /\ WF_vars(Vivo(SacarDeNew))
  /\ WF_vars(Vivo(Monitorear))
  /\ \A p \in Procesos : WF_vars(Vivo(EncolarTraslado(p)))
  /\ \A c \in CPUs : /\ WF_vars(Vivo(ConectarCPU(c)))
                      /\ WF_vars(Vivo(Atender(c)))
                      /\ WF_vars(Vivo(RecibirProceso(c)))
                      /\ WF_vars(Vivo(AtenderInterrupcion(c)))
                      /\ WF_vars(Vivo(Reloj(c)))

SpecEquidad == Spec /\ Equidad

-----------------------------------------------------------------------------
(* Properties                                                              *)

\* PCBs a thread took out of a queue and has not put in the next one.
EnManoDespacho == IF despacho.fase \in {"elegirCPU", "asignar", "encolarExec"}
                  THEN {despacho.pcb} \ {Ninguno} ELSE {}
EnManoAtencion(c) == IF atiende[c].fase \in {"encolar", "bloquear", "terminar"}
                     THEN {atiende[c].pid} ELSE {}

\* Every queue and every thread that has p.
Lugares(p) ==
  {<<"NEW", 0>> : x \in Range(nuevos) \cap {p}}
  \cup {<<"READY", n>> : n \in {i \in Nivel : p \in Range(ready[i])}}
  \cup {<<"EXEC", 0>> : x \in exec \cap {p}}
  \cup {<<"BLOCK", 0>> : x \in block \cap {p}}
  \cup {<<"EXIT", 0>> : x \in terminados \cap {p}}
  \cup {<<"PERDIDO", 0>> : x \in perdidos \cap {p}}
  \cup {<<"TRASLADO", 0>> : x \in {q \in {p} : traslado[q] # "nada"}}
  \cup {<<"DESPACHO", 0>> : x \in EnManoDespacho \cap {p}}
  \cup {<<"ATENCION", c>> : c \in {d \in CPUs : p \in EnManoAtencion(d)}}

\* A PCB is in exactly one queue, once, or in the hands of exactly one thread:
\* every pasarProceso.. function pops under the lock of one queue and pushes
\* under the lock of another, with no lock held across the two.
CadaPCBEnUnLugar ==
  /\ IsInjective(nuevos) /\ \A n \in Nivel : IsInjective(ready[n])
  /\ \A p \in Procesos : /\ p \in creados <=> Lugares(p) # {}
                         /\ \A l, m \in Lugares(p) : l = m

EnReady == UNION {Range(ready[n]) : n \in Nivel}

\* sem_hayProcesosEnReady counts the PCBs in the READY queues that the
\* dispatcher has not been told of: none waits there unannounced, and no post
\* announces a PCB that is not there.
FichasDeReady ==
  hayReady + (IF despacho.fase = "elegir" THEN 1 ELSE 0) = Cardinality(EnReady)

\* sem_hayCPUdisponible counts the free CPUs of colaCPUs, plus those that
\* left while they were free (their post is never taken back).
FichasDeCPU ==
  hayCPU + (IF despacho.fase \in {"elegir", "elegirCPU"} THEN 1 ELSE 0)
    = Cardinality(Libres) + fantasmas

\* The dispatcher scans the levels with one lock at a time and other threads
\* push meanwhile, yet it never comes back empty-handed: pasarProcesoReadyAExec
\* never takes its return for pcbAEjecutar == NULL.
EleccionNoVacia == despacho.fase = "elegirCPU" => despacho.pcb # Ninguno

\* pasarProcesoReadyAExec drops the PCB it popped when it finds no CPU; that
\* costs a process only for a CPU that disconnected while it was free.
PerdidosAcotados == Cardinality(perdidos) + fantasmas <= desconexiones

\* Where the right to run process p is: in a packet to a CPU, on a CPU, in the
\* packet with which the CPU gave it back, or with the thread that answers a
\* syscall that does not block.
Turnos(p) ==
  (UNION {{<<c, "envio", i>> : i \in {j \in DOMAIN aCPU[c] :
             aCPU[c][j] = [op |-> "PROCESO_A_PROCESAR", pid |-> p]}} : c \in CPUs})
  \cup (UNION {{<<c, "vuelta", i>> : i \in {j \in DOMAIN aKS[c] : aKS[c][j].pid = p}} : c \in CPUs})
  \cup {<<c, "corre", 0>> : c \in {d \in CPUs : corre[d] = p}}
  \cup {<<c, "respuesta", 0>> : c \in {d \in CPUs : atiende[d].fase = "responder"
                                                     /\ atiende[d].pid = p}}

\* No process is ever run by two CPUs, nor sent twice to one, whatever stale
\* timers and interrupts are still around.
TurnoUnico == \A p \in Procesos : \A t, u \in Turnos(p) : t = u

\* While a CPU has a process, its PCB is in EXEC and the CPU's entry names it:
\* what the handlers of that CPU search for is there.
EjecutaEnExec == \A p \in Procesos : \A t \in Turnos(p) : p \in exec /\ asignado[t[1]] = p

\* A handler always finds the PCB its packet names in EXEC, so its unchecked
\* lookup (a NULL dereference, or exit in finalizarProceso) never fails, even
\* where the CPU was freed before the search and runs another process already.
AtencionEncuentra == caida # "atencion"

-----------------------------------------------------------------------------
(* The abstract scheduler: a PCB in the hands of a thread is still where it *)
(* was taken from, except that the dispatcher's choice already counts as    *)
(* running.  A PCB dropped because its CPU left stays chosen and never runs *)
(* (PerdidosAcotados counts those).                                         *)

EnAdmision == {p \in Procesos : traslado[p] = "admitiendo"}
Cola == [p \in Procesos |-> ColaDe(p)]

Abs == INSTANCE CortoPlazo WITH
         colas      <- ready,
         nuevos     <- IF EnAdmision = {} THEN nuevos
                       ELSE <<CHOOSE p \in EnAdmision : TRUE>> \o nuevos,
         enCPU      <- exec \cup EnManoDespacho \cup perdidos
                       \cup UNION {EnManoAtencion(c) : c \in CPUs},
         bloqueados <- block \cup {p \in Procesos : traslado[p] = "despertando"}

\* The threads together do what the abstract scheduler promises: every PCB goes
\* from queue to queue along its life cycle, and READY is first-in first-out.
ImplementaCortoPlazo == Abs!Spec

-----------------------------------------------------------------------------
(* Liveness                                                                *)

\* A process that reaches READY eventually runs (unless the kernel dies).
TodosEjecutan == \A p \in Procesos : p \in EnReady ~> (p \in exec \/ caida # "no")
=============================================================================
