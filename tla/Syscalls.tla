------------------------------ MODULE Syscalls ------------------------------
(***************************************************************************)
(* The blocking system calls together: the same processes take mutexes and *)
(* ask for I/O, and both components move their PCBs between EXEC, BLOCK    *)
(* and READY.                                                              *)
(***************************************************************************)
EXTENDS Mutexes, EntradaSalida

\* A mutex is not named like a type of device: the object of a thread says which call it
\* attends.
ASSUME SyscallsAssumption == Mutexes \cap Tipos = {}

vars == <<proceso, mutexes, io>>

Init == InitProcesos /\ InitMutexes /\ InitIO

PasoProcesos ==
  /\ \E p \in Procesos : Despachar(p) \/ Salir(p)
  /\ UNCHANGED <<mutexes, io>>

Next ==
  /\ muerto = "no"
  /\ \/ PasoProcesos
     \/ PasoMutexes /\ UNCHANGED io
     \/ PasoIO /\ UNCHANGED mutexes

Spec == Init /\ [][Next]_vars

TypeOK == TipoProcesos(Mutexes \cup Tipos) /\ TipoMutexes /\ TipoIO

-----------------------------------------------------------------------------

Pide(p, t) == \E i \in DOMAIN pedidos[t] : pedidos[t][i].pid = p
Aguarda(p, m) == \E i \in DOMAIN espera[m] : espera[m][i] = p

\* A device that disconnects leaves its request in the queue, and the one that connects
\* later may be sent it twice: the second answer retires the request of another process, or
\* wakes one that waits for something else.  Some of what follows holds until then.
SinReconexiones == \A t \in Tipos : conexiones[t] <= 1

\* Mutual exclusion, as the programs see it: a mutex that a program was told it holds is
\* still assigned to it (tomarMutex and liberarMutex decide under mutex_diccionario; the
\* new owner learns it only when it runs again).  A stray answer of a device lets the new
\* owner run, release it and block again before the thread of the old one wakes it.
ExclusionMutua ==
  SinReconexiones =>
  \A p \in Procesos : \A m \in tiene[p] : lugar[p] # "EXIT" => duenio[m] = p

\* The owner of m ended, and nobody gives its mutexes back (finalizarProceso); m was handed
\* to p by a liberarMutex that did not find it in BLOCK yet, and nobody tells it.
Abandonado(m) == duenio[m] # Ninguno /\ lugar[duenio[m]] = "EXIT"
EntregadoAntes(p, m) == duenio[m] = p /\ m \notin tomados[p] \cup tiene[p]

\* Who is to take p out of BLOCK: the owner of the mutex it waits for, which has not ended;
\* the thread that handed it one; or the threads that serve the request it made, and those
\* that took the request out and have not moved the PCB yet.
Despierta(p) ==
  \/ \E m \in Mutexes : Aguarda(p, m) /\ duenio[m] # Ninguno /\ ~Abandonado(m)
  \/ \E q \in Procesos : EnFase(q, "despertar") /\ hilo[q].otro = p
  \/ \E t \in Tipos : \/ Pide(p, t)
                      \/ oyente[t].pid = p /\ oyente[t].fase = "buscar"
                      \/ servicio[t].pid = p /\ servicio[t].fase = "buscar"

\* A process that stays in BLOCK has somebody to wake it, with two exceptions and no more: it
\* is in the queue of a mutex whose owner ended, or its mutex was handed to it before it got
\* to BLOCK.  It is not said that it will be woken: the owner may in turn be blocked, or be the
\* process itself (a deadlock of the programs), and a type may have no device.
BloqueadoConMotivo ==
  SinReconexiones => \A p \in Procesos : (lugar[p] = "BLOCK" /\ EnFase(p, "programa")) =>
    \/ Despierta(p)
    \/ \E m \in Mutexes : (Aguarda(p, m) /\ Abandonado(m)) \/ EntregadoAntes(p, m)

\* A process that runs its program, or is ready to, has nothing pending: no request in the
\* queue of a device and no place in the queue of a mutex, or the end of the old wait would
\* be taken for the end of its next one.
SinPendientesAlCorrer ==
  SinReconexiones =>
  \A p \in Procesos : (lugar[p] \in {"READY", "EXEC"} /\ EnFase(p, "programa")) =>
    /\ \A m \in Mutexes : ~Aguarda(p, m)
    /\ \A t \in Tipos : ~Pide(p, t)

\* A token of sem_haySolicitudIO, and the service that took one, has its request in the
\* queue, also after a disconnection: queue_peek and queue_pop do not look.
FichasDePedidos ==
  \A t \in Tipos :
    hayPedido[t] + (IF servicio[t].fase \in {"revisar", "esperarKM"} THEN 1 ELSE 0)
      <= Len(pedidos[t])

\* The bytes are in the request when they are sent on: STDOUT writes what kernel_memory
\* answered for that process, STDIN stores what its own device read (enviarAIO and
\* enviarAKMSolicitudIO copy from solicitud->leido).
DatosEnMano ==
  SinReconexiones => \A t \in Tipos :
    (t = "STDOUT" /\ servicio[t].fase = "enviar") \/ servicio[t].fase = "esperarEscritura" =>
      /\ pedidos[t] # <<>>
      /\ Head(pedidos[t]).pid = servicio[t].pid /\ Head(pedidos[t]).leido

\* The disconnection of a device ends the process it serves, and finds it in BLOCK:
\* finalizarProceso does not exit(), and no answer finds the queue empty.
DesconexionEncuentra == SinReconexiones => muerto \notin {"sin PCB", "sin pedido"}
=============================================================================
