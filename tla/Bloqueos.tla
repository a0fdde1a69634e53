------------------------------ MODULE Bloqueos ------------------------------
(***************************************************************************)
(* What the system calls that block share (Mutexes and EntradaSalida): the *)
(* queue each PCB is in, the thread that attends the CPU it runs on, and   *)
(* its moves between EXEC, BLOCK and READY, each in two critical sections. *)
(*                                                                         *)
(* There is a CPU for every process, so a thread atender_cpu is named by   *)
(* the process whose call it attends; quantum and preemption are in        *)
(* Planificador, and SUSPENSION_TIME (MedianoPlazo) is longer than any     *)
(* wait.                                                                   *)
(***************************************************************************)
EXTENDS Naturals, Sequences, FiniteSets

CONSTANTS
  Procesos, Ninguno,
  MaxLlamadas       (* bound: system calls of each process                   *)

ASSUME BloqueosAssumption ==
  Ninguno \notin Procesos /\ IsFiniteSet(Procesos) /\ MaxLlamadas \in [Procesos -> Nat]

VARIABLES
  lugar,       (* the queue each PCB is in; "transito": popped, not yet pushed *)
  hilo,        (* the thread that attends its call: program counter and locals *)
  llamadas     (* calls so far                                               *)

proceso == <<lugar, hilo, llamadas>>

Pid == Procesos \cup {Ninguno}
HiloOcioso == [fase |-> "programa", objeto |-> Ninguno, otro |-> Ninguno, valor |-> 0]

Fases == {"programa", "mudo", "lock", "buscar", "buscarReady", "comparar", "prestar",
          "bloquear", "aBlock", "unlock", "despertar", "aReady", "recalcular", "restituir",
          "encolarPedido", "avisar"}

TipoProcesos(Objetos) ==
  /\ lugar \in [Procesos -> {"READY", "EXEC", "BLOCK", "EXIT", "transito"}]
  /\ hilo \in [Procesos -> [fase : Fases, objeto : Objetos \cup {Ninguno}, otro : Pid,
                            valor : Nat]]
  /\ llamadas \in [Procesos -> Nat]

InitProcesos ==
  /\ lugar = [p \in Procesos |-> "READY"]
  /\ hilo = [p \in Procesos |-> HiloOcioso]
  /\ llamadas = [p \in Procesos |-> 0]

Corre(p) == lugar[p] = "EXEC" /\ hilo[p].fase = "programa"
EnFase(p, f) == hilo[p].fase = f
A(p, f) == [hilo EXCEPT ![p].fase = f]          \* its thread goes on to f
Responder(p) == [hilo EXCEPT ![p] = HiloOcioso]  \* enviarPIDAcpu, or the call is over

\* The CPU of p sends the call f on o, and atender_cpu takes it from the socket.
Pedir(p, f, o) ==
  /\ Corre(p) /\ llamadas[p] < MaxLlamadas[p]
  /\ llamadas' = [llamadas EXCEPT ![p] = @ + 1]
  /\ hilo' = [hilo EXCEPT ![p] = [HiloOcioso EXCEPT !.fase = f, !.objeto = o]]
  /\ UNCHANGED lugar

Despachar(p) ==
  /\ lugar[p] = "READY"
  /\ lugar' = [lugar EXCEPT ![p] = "EXEC"]
  /\ UNCHANGED <<hilo, llamadas>>

\* pasarProcesoExecABlock, in two critical sections.
SacarDeExec(p) ==
  /\ EnFase(p, "bloquear")
  /\ lugar' = [lugar EXCEPT ![p] = "transito"] /\ hilo' = A(p, "aBlock")
  /\ UNCHANGED llamadas

EncolarEnBlock(p, sigue) ==
  /\ EnFase(p, "aBlock")
  /\ lugar' = [lugar EXCEPT ![p] = "BLOCK"] /\ hilo' = [hilo EXCEPT ![p] = sigue]
  /\ UNCHANGED llamadas

\* EXIT_PROC: finalizarProceso looks in EXEC only, and gives back none of its mutexes.
Salir(p) ==
  /\ Corre(p)
  /\ lugar' = [lugar EXCEPT ![p] = "EXIT"]
  /\ UNCHANGED <<hilo, llamadas>>

\* pasarProcesoBlockaReady, in the two critical sections of whoever calls it.
SacarDeBlock(q) == lugar[q] = "BLOCK" /\ lugar' = [lugar EXCEPT ![q] = "transito"]
EncolarEnReady(q) == lugar' = [lugar EXCEPT ![q] = "READY"]
=============================================================================
