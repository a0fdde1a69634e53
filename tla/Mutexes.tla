------------------------------ MODULE Mutexes -------------------------------
(***************************************************************************)
(* MUTEX_CREATE, MUTEX_LOCK and MUTEX_UNLOCK (syscall.c) with the          *)
(* inheritance of priorities.  A step is one critical section under        *)
(* mutex_diccionario, one look at a queue, or one access to a priority,    *)
(* which no lock protects.                                                 *)
(***************************************************************************)
EXTENDS Bloqueos, FiniteSetsExt

CONSTANTS
  Mutexes,
  Base              (* prioridadBase of each process; 0 is the most urgent   *)

ASSUME MutexesAssumption == Base \in [Procesos -> Nat] /\ Ninguno \notin Mutexes

VARIABLES
  existe,      (* the keys of diccionario_mutex                              *)
  duenio,      (* pidAsignado; bloqueado is duenio # Ninguno                 *)
  espera,      (* cola_bloqueados                                            *)
  tomados,     (* mutexTomados of each PCB                                   *)
  prioridad,   (* prioridad of each PCB                                      *)
  tiene        (* the mutexes each program was told it holds, and has not released *)

mutexes == <<existe, duenio, espera, tomados, prioridad, tiene>>

TipoMutexes ==
  /\ existe \subseteq Mutexes
  /\ duenio \in [Mutexes -> Pid] /\ espera \in [Mutexes -> Seq(Procesos)]
  /\ tomados \in [Procesos -> SUBSET Mutexes] /\ tiene \in [Procesos -> SUBSET Mutexes]
  /\ prioridad \in [Procesos -> Nat]

\* Processes that ended may have created any of the mutexes.
InitMutexes ==
  /\ existe \in SUBSET Mutexes
  /\ duenio = [m \in Mutexes |-> Ninguno] /\ espera = [m \in Mutexes |-> <<>>]
  /\ tomados = [p \in Procesos |-> {}] /\ tiene = [p \in Procesos |-> {}]
  /\ prioridad = Base

-----------------------------------------------------------------------------

CrearMutex(p, m) ==
  /\ Corre(p) /\ llamadas[p] < MaxLlamadas[p]
  /\ existe' = existe \cup {m}
  /\ llamadas' = [llamadas EXCEPT ![p] = @ + 1]
  /\ UNCHANGED <<lugar, hilo, duenio, espera, tomados, prioridad, tiene>>

PedirMutex(p, m) ==
  /\ \E f \in {"lock", "unlock"} : Pedir(p, f, m)
  /\ UNCHANGED mutexes

\* tomarMutex.  A mutex that does not exist gets no answer.  The one that is taken
\* free does not go to mutexTomados.  The caller queues before it is in BLOCK.
TomarMutex(p) ==
  LET m == hilo[p].objeto IN
  /\ EnFase(p, "lock")
  /\ \/ /\ m \notin existe
        /\ hilo' = A(p, "mudo")
        /\ UNCHANGED <<duenio, espera, tiene>>
     \/ /\ m \in existe /\ duenio[m] = Ninguno
        /\ duenio' = [duenio EXCEPT ![m] = p] /\ tiene' = [tiene EXCEPT ![p] = @ \cup {m}]
        /\ hilo' = Responder(p)
        /\ UNCHANGED espera
     \/ /\ m \in existe /\ duenio[m] # Ninguno
        /\ espera' = [espera EXCEPT ![m] = Append(@, p)]
        /\ hilo' = [hilo EXCEPT ![p].fase = "buscar", ![p].otro = duenio[m]]
        /\ UNCHANGED <<duenio, tiene>>
  /\ UNCHANGED <<lugar, llamadas, existe, tomados, prioridad>>

\* buscarPCBEnCualquierEstado(pidDuenio): one queue after another, so a PCB that moves
\* from READY to EXEC meanwhile is not found and inherits nothing.
BuscarDuenio(p) ==
  /\ EnFase(p, "buscar")
  /\ hilo' = A(p, IF lugar[hilo[p].otro] \in {"EXEC", "BLOCK"} THEN "comparar" ELSE "buscarReady")
  /\ UNCHANGED <<lugar, llamadas, mutexes>>

BuscarDuenioEnReady(p) ==
  /\ EnFase(p, "buscarReady")
  /\ hilo' = A(p, IF lugar[hilo[p].otro] = "READY" THEN "comparar" ELSE "bloquear")
  /\ UNCHANGED <<lugar, llamadas, mutexes>>

\* The owner may have ended since: what the comparison then reads is freed memory.
Comparar(p) ==
  LET q == hilo[p].otro IN
  /\ EnFase(p, "comparar")
  /\ \/ (prioridad[p] < prioridad[q] \/ lugar[q] = "EXIT") /\ hilo' = A(p, "prestar")
     \/ (prioridad[p] >= prioridad[q] \/ lugar[q] = "EXIT") /\ hilo' = A(p, "bloquear")
  /\ UNCHANGED <<lugar, llamadas, mutexes>>

\* The PCB of the owner stays in the READY level of its old priority.
Prestar(p) ==
  /\ EnFase(p, "prestar")
  /\ prioridad' = [prioridad EXCEPT ![hilo[p].otro] = prioridad[p]]
  /\ hilo' = A(p, "bloquear")
  /\ UNCHANGED <<lugar, llamadas, existe, duenio, espera, tomados, tiene>>

BloquearPorMutex(p) ==
  /\ hilo[p].objeto \in Mutexes
  /\ SacarDeExec(p) \/ EncolarEnBlock(p, HiloOcioso)
  /\ UNCHANGED mutexes

-----------------------------------------------------------------------------

\* Mutant: no look at pidAsignado.
LiberarDeCualquiera(p) ==
  LET m == hilo[p].objeto IN
  /\ EnFase(p, "unlock") /\ espera[m] = <<>>
  /\ duenio' = [duenio EXCEPT ![m] = Ninguno]
  /\ tomados' = [tomados EXCEPT ![p] = @ \ {m}] /\ tiene' = [tiene EXCEPT ![p] = @ \ {m}]
  /\ hilo' = A(p, "recalcular")
  /\ UNCHANGED <<lugar, llamadas, existe, prioridad, espera>>

\* Mutant: huboCambioDeDuenio is not set.
LiberarSinDespertar(p) ==
  LET m == hilo[p].objeto
      q == Head(espera[m])
  IN
  /\ EnFase(p, "unlock") /\ duenio[m] = p /\ espera[m] # <<>>
  /\ duenio' = [duenio EXCEPT ![m] = q] /\ espera' = [espera EXCEPT ![m] = Tail(@)]
  /\ tomados' = [tomados EXCEPT ![p] = @ \ {m}, ![q] = @ \cup {m}]
  /\ tiene' = [tiene EXCEPT ![p] = @ \ {m}]
  /\ hilo' = A(p, "recalcular")
  /\ UNCHANGED <<lugar, llamadas, existe, prioridad>>

\* liberarMutex, under mutex_diccionario.  The mutex goes to the first that waits.  One
\* that has not reached BLOCK yet is only logged: it is the owner and nobody wakes it.
LiberarMutex(p) ==
  LET m == hilo[p].objeto
      q == Head(espera[m])
  IN
  /\ EnFase(p, "unlock")
  /\ \/ /\ duenio[m] # p
        /\ hilo' = Responder(p)
        /\ UNCHANGED <<duenio, espera, tomados, tiene>>
     \/ /\ duenio[m] = p
        /\ tiene' = [tiene EXCEPT ![p] = @ \ {m}]
        /\ \/ /\ espera[m] = <<>>
              /\ duenio' = [duenio EXCEPT ![m] = Ninguno]
              /\ tomados' = [tomados EXCEPT ![p] = @ \ {m}]
              /\ hilo' = A(p, "recalcular")
              /\ UNCHANGED espera
           \/ /\ espera[m] # <<>>
              /\ duenio' = [duenio EXCEPT ![m] = q]
              /\ espera' = [espera EXCEPT ![m] = Tail(@)]
              /\ IF lugar[q] = "BLOCK"
                   THEN /\ tomados' = [tomados EXCEPT ![p] = @ \ {m}, ![q] = @ \cup {m}]
                        /\ hilo' = [hilo EXCEPT ![p].fase = "despertar", ![p].otro = q]
                   ELSE /\ tomados' = [tomados EXCEPT ![p] = @ \ {m}]
                        /\ hilo' = A(p, "recalcular")
  /\ UNCHANGED <<lugar, llamadas, existe, prioridad>>

\* pasarProcesoBlockaReady(pcbADesbloquear->pid).  Only a stray answer of a device can take
\* q out of BLOCK meanwhile: the thread, which would dereference NULL, stops here.
SacarAlQueEspera(p) ==
  /\ EnFase(p, "despertar")
  /\ SacarDeBlock(hilo[p].otro) /\ hilo' = A(p, "aReady")
  /\ UNCHANGED <<llamadas, mutexes>>

EncolarAlQueEspera(p) ==
  LET q == hilo[p].otro IN
  /\ EnFase(p, "aReady")
  /\ EncolarEnReady(q) /\ hilo' = A(p, "recalcular")
  /\ tiene' = [tiene EXCEPT ![q] = @ \cup {hilo[p].objeto}]
  /\ UNCHANGED <<llamadas, existe, duenio, espera, tomados, prioridad>>

\* recalcularPrioridad: under mutex_diccionario it takes the most urgent of those that
\* wait for a mutex of mutexTomados (and are in a queue); it writes after the unlock.
Recalcular(p) ==
  LET esperan == {q \in Procesos : /\ lugar[q] # "transito"
                                   /\ \E m \in tomados[p] : \E i \in DOMAIN espera[m] :
                                        espera[m][i] = q}
  IN
  /\ EnFase(p, "recalcular")
  /\ hilo' = [hilo EXCEPT ![p].fase = "restituir",
                          ![p].valor = Min({Base[p]} \cup {prioridad[q] : q \in esperan})]
  /\ UNCHANGED <<lugar, llamadas, mutexes>>

Restituir(p) ==
  /\ EnFase(p, "restituir")
  /\ prioridad' = [prioridad EXCEPT ![p] = hilo[p].valor]
  /\ hilo' = Responder(p)
  /\ UNCHANGED <<lugar, llamadas, existe, duenio, espera, tomados, tiene>>

PasoMutexes ==
  \E p \in Procesos :
    \/ \E m \in Mutexes : CrearMutex(p, m) \/ PedirMutex(p, m)
    \/ TomarMutex(p) \/ BuscarDuenio(p) \/ BuscarDuenioEnReady(p) \/ Comparar(p)
    \/ Prestar(p) \/ BloquearPorMutex(p) \/ LiberarMutex(p) \/ SacarAlQueEspera(p)
    \/ EncolarAlQueEspera(p) \/ Recalcular(p) \/ Restituir(p)
=============================================================================
