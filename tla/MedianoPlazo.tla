---------------------------- MODULE MedianoPlazo ----------------------------
(***************************************************************************)
(* The medium-term scheduler of kernel_scheduler: a process that stays in  *)
(* BLOCK longer than SUSPENSION_TIMEOUT goes to BLOCK_SUSP while           *)
(* kernel_memory moves it to swap, and comes back through READY_SUSP.  The *)
(* suspension timers (one per block), the threads that end an I/O or unlock*)
(* a mutex, and the listener of kernel_memory act on the same PCBs.        *)
(*                                                                         *)
(* A step is one critical section or one send.  Who runs and in which      *)
(* order READY is served is the matter of Planificador: here they are sets.*)
(***************************************************************************)
EXTENDS Naturals, Sequences, FiniteSets, SequencesExt

CONSTANTS
  Procesos, Ninguno,
  Prioridad,      (* priority of each process, 0 the most urgent            *)
  Usa,            (* what the program of each process may block on          *)
  MaxBloqueos,    (* bound: blocks of each process                          *)
  MaxAumentos     (* bound: AUMENTO_DE_MEMORIA messages                     *)

ASSUME MedianoPlazoAssumption ==
  /\ Ninguno \notin Procesos /\ IsFiniteSet(Procesos)
  /\ Prioridad \in [Procesos -> Nat]
  /\ \A p \in Procesos :
       Usa[p] \subseteq {"SLEEP", "STDIN", "MUTEX"}   \* SLEEP: also STDOUT, same code
  /\ MaxBloqueos \in [Procesos -> Nat] /\ MaxAumentos \in Nat

VARIABLES
  ready, exec, block, blockSusp, (* the queues searched by pid               *)
  readySusp,     (* colaREADY_SUSP                                           *)
  idBloqueo,     (* pcb.idBloqueoActual                                      *)
  enCurso,       (* pcb.suspensionEnCurso                                    *)
  enTransito,    (* pcb.ioCompletadaEnTransito                               *)
  temporizador,  (* iniciarTemporizadorSuspendido of each block of a process *)
  hilo,          (* per type the thread that ends the block; listener of KM  *)
  pedidos,       (* requests of each I/O type / waiters of the mutex         *)
  suspensionOk,  (* sem_suspension_ok                                        *)
  aKM, deKM,     (* sockets with kernel_memory                               *)
  suspendido,    (* t_proceso.suspendido in kernel_memory                    *)
  aumentos,      (* AUMENTO_DE_MEMORIA sent so far                           *)
  trabada,       (* the thread that serves this socket blocked for ever      *)
  perdidos,      (* processes whose I/O ended when no queue had them         *)
  caida          (* the kernel dereferenced a PCB it did not find            *)

colas == <<ready, exec, block, blockSusp, readySusp>>
pcbs  == <<idBloqueo, enCurso, enTransito>>
km    == <<aKM, deKM, suspendido, aumentos, trabada>>
vars  == <<colas, pcbs, temporizador, hilo, pedidos, suspensionOk, km, perdidos, caida>>

Tipos   == UNION {Usa[p] : p \in Procesos}
Hilos   == Tipos \cup {"KM"}
Bloqueo == UNION {1 .. MaxBloqueos[p] : p \in Procesos}
Fases   == {"esperar", "enBlock", "enBlockSusp", "leer", "marcar", "aReady", "aReadySusp",
            "ordenar", "mirar", "pedir", "trabado"}
Ocioso  == [fase |-> "esperar", pid |-> Ninguno]

TypeOK ==
  /\ ready \subseteq Procesos /\ exec \subseteq Procesos
  /\ block \subseteq Procesos /\ blockSusp \subseteq Procesos
  /\ readySusp \in Seq(Procesos)
  /\ idBloqueo \in [Procesos -> Nat]
  /\ enCurso \in [Procesos -> BOOLEAN] /\ enTransito \in [Procesos -> BOOLEAN]
  /\ temporizador \in [Procesos -> [Bloqueo ->
       {"no", "duerme", "sacar", "encolar", "enviar", "confirmar", "mover", "pedir"}]]
  /\ hilo \in [Hilos -> [fase : Fases, pid : Procesos \cup {Ninguno}]]
  /\ pedidos \in [Tipos -> Seq(Procesos)]
  /\ suspensionOk \in Nat /\ aumentos \in Nat
  /\ aKM \in Seq([op : {"SUSPENSION", "DESUSPENSION"}, pid : Procesos])
  /\ deKM \in Seq([op : {"SUSPENSION_OK", "DESUSPENSION_OK", "AUMENTO"},
                   pid : Procesos \cup {Ninguno}])
  /\ suspendido \in [Procesos -> BOOLEAN]
  /\ perdidos \subseteq Procesos /\ trabada \in BOOLEAN /\ caida \in BOOLEAN

\* Every process has been admitted.
Init ==
  /\ ready = Procesos /\ exec = {} /\ block = {} /\ blockSusp = {} /\ readySusp = <<>>
  /\ idBloqueo = [p \in Procesos |-> 0]
  /\ enCurso = [p \in Procesos |-> FALSE] /\ enTransito = [p \in Procesos |-> FALSE]
  /\ temporizador = [p \in Procesos |-> [i \in Bloqueo |-> "no"]]
  /\ hilo = [h \in Hilos |-> Ocioso] /\ pedidos = [t \in Tipos |-> <<>>]
  /\ suspensionOk = 0 /\ aKM = <<>> /\ deKM = <<>>
  /\ suspendido = [p \in Procesos |-> FALSE]
  /\ aumentos = 0 /\ trabada = FALSE /\ perdidos = {} /\ caida = FALSE

AKM(o, p) == aKM' = Append(aKM, [op |-> o, pid |-> p])

-----------------------------------------------------------------------------
(* The short-term scheduler, as seen from here.                            *)

Ejecutar(p) ==
  /\ p \in ready
  /\ ready' = ready \ {p} /\ exec' = exec \cup {p}
  /\ UNCHANGED <<block, blockSusp, readySusp, pcbs, temporizador, hilo, pedidos,
                 suspensionOk, km, perdidos, caida>>

\* pasarProcesoExecABlock starts the timer of this block; then the request
\* is queued.  (Who looks for a PCB in EXEC is the matter of Planificador.)
Bloquear(p, t) ==
  /\ p \in exec /\ idBloqueo[p] < MaxBloqueos[p]
  /\ exec' = exec \ {p} /\ block' = block \cup {p}
  /\ idBloqueo' = [idBloqueo EXCEPT ![p] = @ + 1]
  /\ temporizador' = [temporizador EXCEPT ![p][idBloqueo'[p]] = "duerme"]
  /\ pedidos' = [pedidos EXCEPT ![t] = Append(@, p)]
  /\ UNCHANGED <<ready, blockSusp, readySusp, enCurso, enTransito, hilo, suspensionOk, km,
                 perdidos, caida>>

-----------------------------------------------------------------------------
(* iniciarTemporizadorSuspendido and pasarProcesoBlockABlockSusp           *)

TimerA(p, i, f) == temporizador' = [temporizador EXCEPT ![p][i] = f]

Vencer(p, i) ==
  /\ temporizador[p][i] = "duerme"
  /\ TimerA(p, i, IF p \in block /\ idBloqueo[p] = i THEN "sacar" ELSE "no")
  /\ UNCHANGED <<colas, pcbs, hilo, pedidos, suspensionOk, km, perdidos, caida>>

\* Mutant: the PCB is found but not taken out of BLOCK.
MirarBlock(p, i) ==
  /\ temporizador[p][i] = "sacar"
  /\ TimerA(p, i, IF p \in block THEN "encolar" ELSE "no")
  /\ UNCHANGED <<colas, pcbs, hilo, pedidos, suspensionOk, km, perdidos, caida>>

SacarDeBlock(p, i) ==
  /\ temporizador[p][i] = "sacar"
  /\ block' = block \ {p}
  /\ TimerA(p, i, IF p \in block THEN "encolar" ELSE "no")
  /\ UNCHANGED <<ready, exec, blockSusp, readySusp, pcbs, hilo, pedidos, suspensionOk, km,
                 perdidos, caida>>

EncolarEnBlockSusp(p, i) ==
  /\ temporizador[p][i] = "encolar"
  /\ enCurso' = [enCurso EXCEPT ![p] = TRUE]
  /\ blockSusp' = blockSusp \cup {p}
  /\ TimerA(p, i, "enviar")
  /\ UNCHANGED <<ready, exec, block, readySusp, idBloqueo, enTransito, hilo, pedidos,
                 suspensionOk, km, perdidos, caida>>

PedirSuspension(p, i) ==
  /\ temporizador[p][i] = "enviar"
  /\ AKM("SUSPENSION", p)
  /\ TimerA(p, i, "confirmar")
  /\ UNCHANGED <<colas, pcbs, hilo, pedidos, suspensionOk, deKM, suspendido, aumentos,
                 trabada, perdidos, caida>>

\* Mutant: the timer does not wait (sem_trywait).
ConfirmarSinEsperar(p, i) ==
  /\ temporizador[p][i] = "confirmar"
  /\ suspensionOk' = suspensionOk - 1
  /\ enCurso' = [enCurso EXCEPT ![p] = FALSE]
  /\ enTransito' = [enTransito EXCEPT ![p] = FALSE]
  /\ TimerA(p, i, IF enTransito[p] THEN "mover" ELSE "no")
  /\ UNCHANGED <<colas, idBloqueo, hilo, pedidos, km, perdidos, caida>>

\* Any waiting timer takes the token, whichever process was confirmed; then
\* both flags are read and cleared under the lock of BLOCK_SUSP.
ConfirmarSuspension(p, i) ==
  /\ temporizador[p][i] = "confirmar" /\ suspensionOk > 0
  /\ suspensionOk' = suspensionOk - 1
  /\ enCurso' = [enCurso EXCEPT ![p] = FALSE]
  /\ enTransito' = [enTransito EXCEPT ![p] = FALSE]
  /\ TimerA(p, i, IF enTransito[p] THEN "mover" ELSE "no")
  /\ UNCHANGED <<colas, idBloqueo, hilo, pedidos, km, perdidos, caida>>

\* pasarProcesoBlockSuspAReadySusp: an unchecked search, and nobody else
\* looks for the PCB between the two queues.
ABlockSuspAReadySusp(p) ==
  /\ blockSusp' = blockSusp \ {p}
  /\ readySusp' = IF p \in blockSusp THEN Append(readySusp, p) ELSE readySusp
  /\ caida' = (p \notin blockSusp)

Diferida(p, i) ==
  /\ temporizador[p][i] = "mover"
  /\ ABlockSuspAReadySusp(p)
  /\ TimerA(p, i, "pedir")
  /\ UNCHANGED <<ready, exec, block, pcbs, hilo, pedidos, suspensionOk, km, perdidos>>

\* solicitarDesuspenderProceso(pid)
PedirDesuspension(p, i) ==
  /\ temporizador[p][i] = "pedir"
  /\ AKM("DESUSPENSION", p)
  /\ TimerA(p, i, "no")
  /\ UNCHANGED <<colas, pcbs, hilo, pedidos, suspensionOk, deKM, suspendido, aumentos,
                 trabada, perdidos, caida>>

Temporizar(p, i) == \/ Vencer(p, i) \/ SacarDeBlock(p, i) \/ EncolarEnBlockSusp(p, i)
                    \/ PedirSuspension(p, i) \/ ConfirmarSuspension(p, i)
                    \/ Diferida(p, i) \/ PedirDesuspension(p, i)

-----------------------------------------------------------------------------
(* The end of a block: IO_OK of SLEEP and STDOUT in atender_io, hacerSTDIN *)
(* for STDIN, liberarMutex for a mutex.                                    *)

\* The thread that ends a block waits again after liberarIO.
Fase(h, f) == hilo' = [hilo EXCEPT ![h] =
                [fase |-> f, pid |-> IF f = "esperar" THEN Ninguno ELSE @.pid]]

\* One request of each type is served at a time; the answer may come any time.
TerminarPedido(t) ==
  /\ hilo[t].fase = "esperar" /\ pedidos[t] # <<>>
  /\ hilo' = [hilo EXCEPT ![t] = [fase |-> "enBlock", pid |-> Head(pedidos[t])]]
  /\ pedidos' = [pedidos EXCEPT ![t] = Tail(@)]
  /\ UNCHANGED <<colas, pcbs, temporizador, suspensionOk, km, perdidos, caida>>

BuscarEnBlock(t) ==
  /\ hilo[t].fase = "enBlock"
  /\ Fase(t, IF hilo[t].pid \notin block THEN "enBlockSusp"
             ELSE IF t = "MUTEX" THEN "leer" ELSE "aReady")
  /\ UNCHANGED <<colas, pcbs, temporizador, pedidos, suspensionOk, km, perdidos, caida>>

\* When BLOCK_SUSP does not have it either an error is logged, the process
\* stays blocked, and SLEEP leaves without freeing its device.
BuscarEnBlockSusp(t) ==
  LET p == hilo[t].pid IN
  /\ hilo[t].fase = "enBlockSusp"
  /\ Fase(t, IF p \in blockSusp THEN "leer"
             ELSE IF t = "SLEEP" THEN "trabado" ELSE "esperar")
  /\ perdidos' = IF p \in blockSusp THEN perdidos ELSE perdidos \cup {p}
  /\ UNCHANGED <<colas, pcbs, temporizador, pedidos, suspensionOk, km, caida>>

\* SLEEP reads suspensionEnCurso with no lock and writes
\* ioCompletadaEnTransito in a later step.
LeerSinLock ==
  /\ hilo["SLEEP"].fase = "leer"
  /\ Fase("SLEEP", IF enCurso[hilo["SLEEP"].pid] THEN "marcar" ELSE "aReadySusp")
  /\ UNCHANGED <<colas, pcbs, temporizador, pedidos, suspensionOk, km, perdidos, caida>>

Marcar ==
  /\ hilo["SLEEP"].fase = "marcar"
  /\ enTransito' = [enTransito EXCEPT ![hilo["SLEEP"].pid] = TRUE]
  /\ Fase("SLEEP", "esperar")
  /\ UNCHANGED <<colas, idBloqueo, enCurso, temporizador, pedidos, suspensionOk, km,
                 perdidos, caida>>

\* Mutant: STDIN writes the flag whatever it read.
LeerYMarcar ==
  LET p == hilo["STDIN"].pid IN
  /\ hilo["STDIN"].fase = "leer"
  /\ enTransito' = [enTransito EXCEPT ![p] = TRUE]
  /\ Fase("STDIN", IF enCurso[p] THEN "esperar" ELSE "aReadySusp")
  /\ UNCHANGED <<colas, idBloqueo, enCurso, temporizador, pedidos, suspensionOk, km,
                 perdidos, caida>>

\* STDIN does both under the lock of BLOCK_SUSP.
LeerConLock ==
  LET p == hilo["STDIN"].pid IN
  /\ hilo["STDIN"].fase = "leer"
  /\ enTransito' = [enTransito EXCEPT ![p] = @ \/ enCurso[p]]
  /\ Fase("STDIN", IF enCurso[p] THEN "esperar" ELSE "aReadySusp")
  /\ UNCHANGED <<colas, idBloqueo, enCurso, temporizador, pedidos, suspensionOk, km,
                 perdidos, caida>>

\* liberarMutex goes by the state of the PCB, not by where it found it; a timer that has the
\* PCB between the two queues may have changed it already or not.
LeerEstado ==
  LET p == hilo["MUTEX"].pid IN
  /\ hilo["MUTEX"].fase = "leer"
  /\ \E f \in {"aReady", "aReadySusp"} :
       /\ p \in block => f = "aReady"
       /\ p \in blockSusp => f = "aReadySusp"
       /\ Fase("MUTEX", f)
  /\ UNCHANGED <<colas, pcbs, temporizador, pedidos, suspensionOk, km, perdidos, caida>>

\* pasarProcesoBlockaReady
PasarAReady(t) ==
  LET p == hilo[t].pid IN
  /\ hilo[t].fase = "aReady"
  /\ block' = block \ {p}
  /\ ready' = IF p \in block THEN ready \cup {p} ELSE ready
  /\ caida' = (p \notin block)
  /\ Fase(t, "esperar")
  /\ UNCHANGED <<exec, blockSusp, readySusp, pcbs, temporizador, pedidos, suspensionOk, km,
                 perdidos>>

\* Only the I/O threads ask for a desuspension afterwards.
PasarAReadySusp(t) ==
  /\ hilo[t].fase = "aReadySusp"
  /\ ABlockSuspAReadySusp(hilo[t].pid)
  /\ Fase(t, IF t = "MUTEX" THEN "esperar" ELSE "ordenar")
  /\ UNCHANGED <<ready, exec, block, pcbs, temporizador, pedidos, suspensionOk, km, perdidos>>

-----------------------------------------------------------------------------
(* solicitarDesuspenderProceso(-1): sort, look at the head, send.          *)

\* ordenarSuspReadySegunPrioridad keeps the order within a priority: position k of the
\* sorted queue is for the PCB that was at f[k].
Antes(i, j) ==
  LET a == Prioridad[readySusp[i]]
      b == Prioridad[readySusp[j]]
  IN a < b \/ (a = b /\ i < j)

OrdenarSuspReady(h) ==
  /\ hilo[h].fase = "ordenar"
  /\ \E f \in Bijection(DOMAIN readySusp, DOMAIN readySusp) :
       /\ \A k, l \in DOMAIN readySusp : k < l => Antes(f[k], f[l])
       /\ readySusp' = [k \in DOMAIN readySusp |-> readySusp[f[k]]]
  /\ Fase(h, "mirar")
  /\ UNCHANGED <<ready, exec, block, blockSusp, pcbs, temporizador, pedidos, suspensionOk,
                 km, perdidos, caida>>

ElegirSuspendido(h) ==
  /\ hilo[h].fase = "mirar"
  /\ hilo' = [hilo EXCEPT ![h] =
       IF readySusp = <<>> THEN Ocioso
       ELSE [fase |-> "pedir", pid |-> Head(readySusp)]]
  /\ UNCHANGED <<colas, pcbs, temporizador, pedidos, suspensionOk, km, perdidos, caida>>

PedirElegido(h) ==
  /\ hilo[h].fase = "pedir"
  /\ AKM("DESUSPENSION", hilo[h].pid)
  /\ Fase(h, "esperar")
  /\ UNCHANGED <<colas, pcbs, temporizador, pedidos, suspensionOk, deKM, suspendido,
                 aumentos, trabada, perdidos, caida>>

Solicitar(h) == OrdenarSuspReady(h) \/ ElegirSuspendido(h) \/ PedirElegido(h)

-----------------------------------------------------------------------------
(* The listener of kernel_memory (atender_kernel_memory)                   *)

\* DESUSPENSION_OK: pasarProcesoReadySuspAReady, an unchecked search.
RecibirDeKM ==
  /\ hilo["KM"].fase = "esperar" /\ deKM # <<>>
  /\ LET m == Head(deKM)
         p == m.pid
     IN \/ /\ m.op = "SUSPENSION_OK"
           /\ suspensionOk' = suspensionOk + 1
           /\ UNCHANGED <<ready, readySusp, hilo, caida>>
        \/ /\ m.op = "AUMENTO"
           /\ Fase("KM", "ordenar")
           /\ UNCHANGED <<ready, readySusp, suspensionOk, caida>>
        \/ /\ m.op = "DESUSPENSION_OK"
           /\ \/ \E i \in DOMAIN readySusp :
                   /\ readySusp[i] = p /\ \A j \in 1 .. i - 1 : readySusp[j] # p
                   /\ readySusp' = RemoveAt(readySusp, i) /\ ready' = ready \cup {p}
                   /\ UNCHANGED caida
              \/ p \notin Range(readySusp) /\ caida' = TRUE /\ UNCHANGED <<ready, readySusp>>
           /\ Fase("KM", "ordenar")
           /\ UNCHANGED suspensionOk
  /\ deKM' = Tail(deKM)
  /\ UNCHANGED <<exec, block, blockSusp, pcbs, temporizador, pedidos, aKM, suspendido,
                 aumentos, trabada, perdidos>>

-----------------------------------------------------------------------------
(* kernel_memory: one thread serves the scheduler's socket in order.       *)

\* Mutants: a process that does not fit in memory is confirmed all the same;
\* a suspension that finds no room in swap is not answered.
AtenderSinLugar ==
  /\ ~trabada /\ aKM # <<>>
  /\ LET m == Head(aKM) IN
       \/ /\ m.op = "SUSPENSION" /\ ~suspendido[m.pid]
          /\ suspendido' = [suspendido EXCEPT ![m.pid] = TRUE]
          /\ deKM' = Append(deKM, [op |-> "SUSPENSION_OK", pid |-> m.pid])
       \/ /\ m.op = "DESUSPENSION" /\ suspendido[m.pid]
          /\ suspendido' \in {suspendido, [suspendido EXCEPT ![m.pid] = FALSE]}
          /\ deKM' = Append(deKM, [op |-> "DESUSPENSION_OK", pid |-> m.pid])
       \/ (m.op = "SUSPENSION") = suspendido[m.pid] /\ UNCHANGED <<suspendido, deKM>>
  /\ aKM' = Tail(aKM)
  /\ UNCHANGED <<colas, pcbs, temporizador, hilo, pedidos, suspensionOk, aumentos, trabada,
                 perdidos, caida>>

AtenderEnSilencio ==
  /\ ~trabada /\ aKM # <<>>
  /\ LET m == Head(aKM)
         o == IF suspendido[m.pid] THEN "DESUSPENSION_OK" ELSE "SUSPENSION_OK"
     IN \/ /\ (m.op = "SUSPENSION") # suspendido[m.pid]
           /\ suspendido' = [suspendido EXCEPT ![m.pid] = ~@]
           /\ deKM' = Append(deKM, [op |-> o, pid |-> m.pid])
        \/ UNCHANGED <<suspendido, deKM>>
  /\ aKM' = Tail(aKM)
  /\ UNCHANGED <<colas, pcbs, temporizador, hilo, pedidos, suspensionOk, aumentos, trabada,
                 perdidos, caida>>

\* A request that does not fit the state of the process has no answer.  A DESUSPENSION that
\* finds no room: for its first segment, DESUSPENSION_ERROR, which the scheduler ignores; for
\* a later one, the rollback locks mutex_huecos twice and the thread never comes back
\* (NoEntra of KernelMemory).
AtenderPedidoKM ==
  /\ ~trabada /\ aKM # <<>>
  /\ LET m == Head(aKM)
         Confirmar(o) ==
           /\ suspendido' = [suspendido EXCEPT ![m.pid] = ~@]
           /\ deKM' = Append(deKM, [op |-> o, pid |-> m.pid])
           /\ UNCHANGED trabada
     IN \/ m.op = "SUSPENSION" /\ ~suspendido[m.pid] /\ Confirmar("SUSPENSION_OK")
        \/ m.op = "DESUSPENSION" /\ suspendido[m.pid] /\ Confirmar("DESUSPENSION_OK")
        \/ /\ (m.op = "SUSPENSION") = suspendido[m.pid]
           /\ UNCHANGED <<suspendido, deKM, trabada>>
        \/ /\ m.op = "DESUSPENSION" /\ suspendido[m.pid]
           /\ trabada' \in BOOLEAN /\ UNCHANGED <<suspendido, deKM>>
  /\ aKM' = Tail(aKM)
  /\ UNCHANGED <<colas, pcbs, temporizador, hilo, pedidos, suspensionOk, aumentos, perdidos,
                 caida>>

\* A memory stick connected or a segment was freed.  The thread of a stick may be past the
\* list of holes when the serving thread blocks.
Aumentar ==
  /\ aumentos < MaxAumentos
  /\ aumentos' = aumentos + 1
  /\ deKM' = Append(deKM, [op |-> "AUMENTO", pid |-> Ninguno])
  /\ UNCHANGED <<colas, pcbs, temporizador, hilo, pedidos, suspensionOk, aKM, suspendido,
                 trabada, perdidos, caida>>

-----------------------------------------------------------------------------
Leer(t) == \/ t = "SLEEP" /\ (LeerSinLock \/ Marcar)
           \/ t = "STDIN" /\ LeerConLock
           \/ t = "MUTEX" /\ LeerEstado

Desbloquear(t) == \/ TerminarPedido(t) \/ BuscarEnBlock(t) \/ BuscarEnBlockSusp(t)
                  \/ Leer(t) \/ PasarAReady(t) \/ PasarAReadySusp(t)

Next ==
  /\ ~caida
  /\ \/ \E p \in Procesos : \/ Ejecutar(p) \/ \E t \in Usa[p] : Bloquear(p, t)
                            \/ \E i \in Bloqueo : Temporizar(p, i)
     \/ \E t \in Tipos : Desbloquear(t)
     \/ \E h \in Hilos : Solicitar(h)
     \/ RecibirDeKM \/ AtenderPedidoKM \/ Aumentar

Spec == Init /\ [][Next]_vars

\* Timers expire and threads run; the thread of kernel_memory goes on unless it is blocked.
SpecEquidad ==
  /\ Spec
  /\ \A p \in Procesos : \A i \in 1 .. MaxBloqueos[p] : WF_vars(~caida /\ Temporizar(p, i))
  /\ \A t \in Tipos \ {"MUTEX"} : WF_vars(~caida /\ Solicitar(t))
  /\ WF_vars(~caida /\ (Solicitar("KM") \/ RecibirDeKM))
  /\ WF_vars(~caida /\ AtenderPedidoKM)

-----------------------------------------------------------------------------
(* Properties                                                              *)

\* A process that is ready or running has its memory loaded: whatever the
\* order of timers, answers and repeated requests, the scheduler never runs
\* one that kernel_memory keeps in swap.
MemoriaPresente == \A p \in ready \cup exec : ~suspendido[p]

\* sem_suspension_ok is shared by every timer, and a post may go to another
\* process' timer; still, there is a token, an answer or a request for each timer that waits
\* (that kernel_memory goes on serving the requests is another matter: SuspensionTermina).
Esperan == {e \in Procesos \X Bloqueo : temporizador[e[1]][e[2]] = "confirmar"}
EnCamino(s, o) == {i \in DOMAIN s : s[i].op = o}
RespuestasAlcanzan ==
  Cardinality(Esperan) = suspensionOk + Cardinality(EnCamino(aKM, "SUSPENSION"))
                         + Cardinality(EnCamino(deKM, "SUSPENSION_OK"))

\* An I/O that ends during the transfer to swap is recorded ("se difiere", log of
\* hacerSTDIN): the record is only there while the timer that will read it is
\* still to do so.  SLEEP and STDOUT record it outside the lock, perhaps after
\* the last reading, and it is forgotten: nothing is claimed of a process that
\* uses them.
DiferidaSeAtiende ==
  \A p \in Procesos : "SLEEP" \notin Usa[p] /\ enTransito[p] => enCurso[p]

\* Comment of pasarProcesoBlockABlockSusp: the PCB "nunca deje de estar en
\* alguna cola", so that the end of an I/O always finds its process.
FinDeIOEncuentra == perdidos = {}

\* A PCB is in one queue, once, unless a timer is moving it.
EnMano == {p \in Procesos : \E i \in Bloqueo : temporizador[p][i] = "encolar"}
CadaPCBEnUnaCola ==
  /\ IsInjective(readySusp)
  /\ \A p \in Procesos :
       Cardinality({c \in 1 .. 6 :
         p \in <<ready, exec, block, blockSusp, Range(readySusp), EnMano>>[c]}) = 1
     \/ caida

\* A suspension that was started comes to its end, unless the kernel falls or the only thread
\* of kernel_memory that could confirm it blocks in the rollback of a desuspension: those two
\* are the only ways to lose one, however the shared semaphore deals the tokens.
SuspensionTermina ==
  \A p \in Procesos : enCurso[p] ~> (~enCurso[p] \/ caida \/ trabada)
=============================================================================
