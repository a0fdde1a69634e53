------------------------- MODULE MedianoPlazo_proofs -------------------------
(***************************************************************************)
(* Proofs about the medium-term scheduler: a PCB is always in one place,   *)
(* the suspension of a process is always in one stage, and every timer     *)
(* that waits for an answer of kernel_memory has one on its way.           *)
(***************************************************************************)
EXTENDS MedianoPlazo, ColasPCB, FiniteSetTheorems

FasesTimer == {"no", "duerme", "sacar", "encolar", "enviar", "confirmar", "mover", "pedir"}
PedidoKM   == [op : {"SUSPENSION", "DESUSPENSION"}, pid : Procesos]
AvisoKM    == [op : {"SUSPENSION_OK", "DESUSPENSION_OK", "AUMENTO"},
               pid : Procesos \cup {Ninguno}]

\* The phases in which a thread has a process in hand, and those in which it
\* still holds the process whose request it took.
ConProceso == {"enBlock", "enBlockSusp", "leer", "marcar", "aReady", "aReadySusp", "pedir"}
Termina    == {"enBlock", "enBlockSusp", "leer", "marcar"}

HilosOK == \A h \in Hilos : hilo[h].fase \in ConProceso => hilo[h].pid \in Procesos

\* A thread serves the processes that use what it serves.
UsuariosOK == \A t \in Tipos :
  /\ \A i \in DOMAIN pedidos[t] : t \in Usa[pedidos[t][i]]
  /\ hilo[t].fase \in Termina => t \in Usa[hilo[t].pid]

\* The timers of the blocks a process has not reached have not started.
TemporizadoresOK == \A p \in Procesos :
  /\ idBloqueo[p] <= MaxBloqueos[p]
  /\ \A i \in Bloqueo : idBloqueo[p] < i => temporizador[p][i] = "no"

Tipado == TypeOK /\ HilosOK /\ UsuariosOK /\ TemporizadoresOK

-----------------------------------------------------------------------------
(* The constants and the two ways a step writes a thread or a timer.       *)

LEMMA Nombres ==
  /\ Tipos \subseteq {"SLEEP", "STDIN", "MUTEX"}
  /\ Tipos \subseteq Hilos /\ "KM" \in Hilos /\ "KM" \notin Tipos
  /\ \A p \in Procesos : Usa[p] \subseteq Tipos
  /\ Bloqueo \subseteq Nat
  /\ \A p \in Procesos : \A i \in Nat : i < MaxBloqueos[p] => i + 1 \in Bloqueo
<1>1. ASSUME NEW p \in Procesos, NEW i \in Nat, i < MaxBloqueos[p]
      PROVE  i + 1 \in 1 .. MaxBloqueos[p]
  <2>1. MaxBloqueos[p] \in Nat BY MedianoPlazoAssumption
  <2> QED BY <1>1, <2>1
<1>2. \A p \in Procesos : 1 .. MaxBloqueos[p] \subseteq Nat
  OBVIOUS
<1>3. Tipos \subseteq {"SLEEP", "STDIN", "MUTEX"}
  BY MedianoPlazoAssumption DEF Tipos
<1> QED BY <1>1, <1>2, <1>3 DEF Tipos, Hilos, Bloqueo

LEMMA TimerPone ==
  ASSUME NEW p \in Procesos, NEW i \in Bloqueo, NEW f \in FasesTimer, TypeOK, TimerA(p, i, f)
  PROVE  /\ temporizador' \in [Procesos -> [Bloqueo -> FasesTimer]]
         /\ \A q \in Procesos, j \in Bloqueo :
              temporizador'[q][j] = IF q = p /\ j = i THEN f ELSE temporizador[q][j]
<1>1. temporizador \in [Procesos -> [Bloqueo -> FasesTimer]]
  BY DEF TypeOK, FasesTimer
<1>2. temporizador' = [temporizador EXCEPT ![p] = [temporizador[p] EXCEPT ![i] = f]]
  BY DEF TimerA
<1> HIDE DEF FasesTimer
<1> QED BY <1>1, <1>2

LEMMA FasePone ==
  ASSUME NEW h \in Hilos, NEW f \in Fases, TypeOK, Fase(h, f)
  PROVE  /\ hilo' \in [Hilos -> [fase : Fases, pid : Procesos \cup {Ninguno}]]
         /\ \A g \in Hilos : g # h => hilo'[g] = hilo[g]
         /\ hilo'[h].fase = f
         /\ f # "esperar" => hilo'[h].pid = hilo[h].pid
<1> DEFINE R == [fase : Fases, pid : Procesos \cup {Ninguno}]
           r == [fase |-> f, pid |-> IF f = "esperar" THEN Ninguno ELSE hilo[h].pid]
<1>1. hilo \in [Hilos -> R]
  BY DEF TypeOK
<1>2. hilo' = [hilo EXCEPT ![h] = r]
  BY DEF Fase
<1>3. /\ r \in R /\ r.fase = f /\ (f # "esperar" => r.pid = hilo[h].pid)
  BY <1>1
<1> HIDE DEF R, r
<1>4. /\ hilo' \in [Hilos -> R] /\ hilo'[h] = r
      /\ \A g \in Hilos : g # h => hilo'[g] = hilo[g]
  BY <1>1, <1>2, <1>3
<1> QED BY <1>3, <1>4 DEF R

LEMMA MensajePone ==
  ASSUME NEW o \in {"SUSPENSION", "DESUSPENSION"}, NEW p \in Procesos, TypeOK, AKM(o, p)
  PROVE  /\ aKM' \in Seq(PedidoKM)
         /\ aKM' = Append(aKM, [op |-> o, pid |-> p]) /\ [op |-> o, pid |-> p] \in PedidoKM
BY DEF AKM, TypeOK, PedidoKM

-----------------------------------------------------------------------------
(* Types                                                                   *)

LEMMA Mensajes ==
  TypeOK => /\ aKM \in Seq(PedidoKM) /\ deKM \in Seq(AvisoKM)
            /\ \A t \in Tipos : pedidos[t] \in Seq(Procesos)
BY DEF TypeOK, PedidoKM, AvisoKM

\* What ABlockSuspAReadySusp does to the queues.
LEMMA ColasDeSuspendidos ==
  ASSUME NEW p \in Procesos, TypeOK, ABlockSuspAReadySusp(p)
  PROVE  /\ blockSusp' = blockSusp \ {p} /\ readySusp' \in Seq(Procesos)
         /\ caida' \in BOOLEAN /\ (caida' <=> p \notin blockSusp)
         /\ Range(readySusp') = Range(readySusp) \cup (IF p \in blockSusp THEN {p} ELSE {})
         /\ IsInjective(readySusp) /\ (p \in blockSusp => p \notin Range(readySusp))
              => IsInjective(readySusp')
<1>1. readySusp \in Seq(Procesos)
  BY DEF TypeOK
<1>2. caida' \in BOOLEAN /\ (caida' <=> p \notin blockSusp)
  BY Zenon DEF ABlockSuspAReadySusp
<1> QED BY <1>1, <1>2, AgregarAlFinal DEF ABlockSuspAReadySusp

LEMMA PasoTypeOK ==
  ASSUME Tipado, [Next]_vars
  PROVE  TypeOK'
<1> USE DEF Tipado, colas, pcbs, km
<1>1. ASSUME NEW p \in Procesos, Ejecutar(p) PROVE TypeOK'
  BY <1>1 DEF Ejecutar, TypeOK
<1>2. ASSUME NEW p \in Procesos, NEW t \in Usa[p], Bloquear(p, t) PROVE TypeOK'
  <2>1. idBloqueo[p] \in Nat /\ idBloqueo[p] + 1 \in Bloqueo /\ t \in Tipos
    BY <1>2, Nombres DEF Bloquear, TypeOK
  <2>2. idBloqueo' \in [Procesos -> Nat] /\ idBloqueo'[p] = idBloqueo[p] + 1
    BY <1>2, <2>1 DEF Bloquear, TypeOK
  <2>3. temporizador' \in [Procesos -> [Bloqueo -> FasesTimer]]
    <3>1. PICK n \in Bloqueo : n = idBloqueo[p] + 1 BY <2>1
    <3>2. TimerA(p, n, "duerme") BY <1>2, <2>2, <3>1 DEF Bloquear, TimerA
    <3>3. "duerme" \in FasesTimer BY DEF FasesTimer
    <3> QED BY <3>2, <3>3, TimerPone
  <2>4. pedidos' \in [Tipos -> Seq(Procesos)]
    BY <1>2, <2>1 DEF Bloquear, TypeOK
  <2> QED BY <1>2, <2>2, <2>3, <2>4 DEF Bloquear, TypeOK, FasesTimer
<1>3. ASSUME NEW p \in Procesos, NEW i \in Bloqueo, Temporizar(p, i) PROVE TypeOK'
  <2>1. CASE Vencer(p, i)
    BY <2>1, <1>3, TimerPone DEF Vencer, TypeOK, FasesTimer
  <2>2. CASE SacarDeBlock(p, i)
    BY <2>2, <1>3, TimerPone DEF SacarDeBlock, TypeOK, FasesTimer
  <2>3. CASE EncolarEnBlockSusp(p, i)
    BY <2>3, <1>3, TimerPone DEF EncolarEnBlockSusp, TypeOK, FasesTimer
  <2>4. CASE PedirSuspension(p, i)
    BY <2>4, <1>3, TimerPone, MensajePone DEF PedirSuspension, TypeOK, FasesTimer, PedidoKM
  <2>5. CASE ConfirmarSuspension(p, i)
    <3>1. suspensionOk' \in Nat
      BY <2>5 DEF ConfirmarSuspension, TypeOK
    <3> QED BY <3>1, <2>5, <1>3, TimerPone DEF ConfirmarSuspension, TypeOK, FasesTimer
  <2>6. CASE Diferida(p, i)
    <3>1. ABlockSuspAReadySusp(p) BY <2>6 DEF Diferida
    <3>2. /\ blockSusp' = blockSusp \ {p} /\ readySusp' \in Seq(Procesos)
          /\ caida' \in BOOLEAN
      BY <3>1, ColasDeSuspendidos
    <3>3. temporizador' \in [Procesos -> [Bloqueo -> FasesTimer]]
      BY <2>6, <1>3, TimerPone DEF Diferida, FasesTimer
    <3> QED BY <2>6, <3>2, <3>3 DEF Diferida, TypeOK, FasesTimer
  <2>7. CASE PedirDesuspension(p, i)
    BY <2>7, <1>3, TimerPone, MensajePone DEF PedirDesuspension, TypeOK, FasesTimer, PedidoKM
  <2> QED BY <1>3, <2>1, <2>2, <2>3, <2>4, <2>5, <2>6, <2>7 DEF Temporizar
<1>4. ASSUME NEW t \in Tipos, TerminarPedido(t) PROVE TypeOK'
  <2>1. Tail(pedidos[t]) \in Seq(Procesos) /\ Head(pedidos[t]) \in Procesos
    BY <1>4, Mensajes DEF TerminarPedido
  <2>2. pedidos' \in [Tipos -> Seq(Procesos)]
    BY <1>4, <2>1 DEF TerminarPedido, TypeOK
  <2>3. hilo' \in [Hilos -> [fase : Fases, pid : Procesos \cup {Ninguno}]]
    BY <1>4, <2>1 DEF TerminarPedido, TypeOK, Fases
  <2> QED BY <1>4, <2>2, <2>3 DEF TerminarPedido, TypeOK
<1>5. ASSUME NEW t \in Tipos, BuscarEnBlock(t) PROVE TypeOK'
  BY <1>5, Nombres, FasePone DEF BuscarEnBlock, TypeOK, Fases
<1>6. ASSUME NEW t \in Tipos, BuscarEnBlockSusp(t) PROVE TypeOK'
  <2>1. hilo[t].pid \in Procesos
    BY <1>6, Nombres DEF BuscarEnBlockSusp, HilosOK, ConProceso
  <2>2. hilo' \in [Hilos -> [fase : Fases, pid : Procesos \cup {Ninguno}]]
    <3>1. PICK f \in Fases : Fase(t, f)
      BY <1>6 DEF BuscarEnBlockSusp, Fases
    <3> QED BY <3>1, Nombres, FasePone
  <2>3. perdidos' \subseteq Procesos
    BY <1>6, <2>1 DEF BuscarEnBlockSusp, TypeOK
  <2> QED BY <1>6, <2>2, <2>3 DEF BuscarEnBlockSusp, TypeOK
<1>7. ASSUME NEW t \in Tipos, Leer(t) PROVE TypeOK'
  <2>1. CASE LeerSinLock /\ t = "SLEEP"
    BY <1>7, <2>1, Nombres, FasePone DEF LeerSinLock, TypeOK, Fases
  <2>2. CASE Marcar /\ t = "SLEEP"
    BY <1>7, <2>2, Nombres, FasePone DEF Marcar, TypeOK, Fases
  <2>3. CASE LeerConLock /\ t = "STDIN"
    BY <1>7, <2>3, Nombres, FasePone DEF LeerConLock, TypeOK, Fases
  <2>4. CASE LeerEstado /\ t = "MUTEX"
    <3>1. PICK f \in {"aReady", "aReadySusp"} : Fase("MUTEX", f)
      BY <2>4 DEF LeerEstado
    <3>2. "MUTEX" \in Hilos /\ f \in Fases
      BY <1>7, <2>4, Nombres DEF Fases
    <3>3. hilo' \in [Hilos -> [fase : Fases, pid : Procesos \cup {Ninguno}]]
      BY <3>1, <3>2, FasePone
    <3> QED BY <2>4, <3>3 DEF LeerEstado, TypeOK
  <2> QED BY <1>7, <2>1, <2>2, <2>3, <2>4 DEF Leer
<1>8. ASSUME NEW t \in Tipos, PasarAReady(t) PROVE TypeOK'
  <2>1. hilo[t].pid \in Procesos
    BY <1>8, Nombres DEF PasarAReady, HilosOK, ConProceso
  <2>2. hilo' \in [Hilos -> [fase : Fases, pid : Procesos \cup {Ninguno}]]
    BY <1>8, Nombres, FasePone DEF PasarAReady, Fases
  <2>3. caida' \in BOOLEAN
    BY <1>8 DEF PasarAReady
  <2> QED BY <1>8, <2>1, <2>2, <2>3 DEF PasarAReady, TypeOK
<1>9. ASSUME NEW t \in Tipos, PasarAReadySusp(t) PROVE TypeOK'
  <2>1. hilo[t].pid \in Procesos /\ ABlockSuspAReadySusp(hilo[t].pid)
    BY <1>9, Nombres DEF PasarAReadySusp, HilosOK, ConProceso
  <2>2. hilo' \in [Hilos -> [fase : Fases, pid : Procesos \cup {Ninguno}]]
    <3>1. PICK f \in Fases : Fase(t, f)
      BY <1>9 DEF PasarAReadySusp, Fases
    <3> QED BY <3>1, Nombres, FasePone
  <2> QED BY <1>9, <2>1, <2>2, ColasDeSuspendidos DEF PasarAReadySusp, TypeOK
<1>10. ASSUME NEW h \in Hilos, OrdenarSuspReady(h) PROVE TypeOK'
  <2>1. readySusp' \in Seq(Procesos)
    <3>1. PICK f \in Bijection(DOMAIN readySusp, DOMAIN readySusp) :
               readySusp' = [k \in DOMAIN readySusp |-> readySusp[f[k]]]
      BY <1>10 DEF OrdenarSuspReady
    <3>2. readySusp \in Seq(Procesos) BY DEF TypeOK
    <3> QED BY <3>1, <3>2, Reordenar
  <2> QED BY <1>10, <2>1, FasePone DEF OrdenarSuspReady, TypeOK, Fases
<1>11. ASSUME NEW h \in Hilos, ElegirSuspendido(h) PROVE TypeOK'
  <2>1. hilo' \in [Hilos -> [fase : Fases, pid : Procesos \cup {Ninguno}]]
    BY <1>11 DEF ElegirSuspendido, TypeOK, Fases, Ocioso
  <2> QED BY <1>11, <2>1 DEF ElegirSuspendido, TypeOK
<1>12. ASSUME NEW h \in Hilos, PedirElegido(h) PROVE TypeOK'
  BY <1>12, FasePone, MensajePone DEF PedirElegido, TypeOK, Fases, PedidoKM, HilosOK, ConProceso
<1>13. ASSUME RecibirDeKM PROVE TypeOK'
  <2>1. /\ Head(deKM) \in AvisoKM /\ Tail(deKM) \in Seq(AvisoKM)
        /\ "KM" \in Hilos /\ "ordenar" \in Fases
    BY <1>13, Mensajes, Nombres DEF RecibirDeKM, Fases
  <2>2. CASE UNCHANGED <<ready, readySusp, hilo, caida>> /\ suspensionOk' = suspensionOk + 1
    BY <1>13, <2>1, <2>2 DEF RecibirDeKM, TypeOK, AvisoKM
  <2>3. CASE UNCHANGED <<ready, readySusp, suspensionOk, caida>> /\ Fase("KM", "ordenar")
    BY <1>13, <2>1, <2>3, FasePone DEF RecibirDeKM, TypeOK, AvisoKM
  <2>4. CASE /\ Fase("KM", "ordenar") /\ UNCHANGED suspensionOk
             /\ caida' = TRUE /\ UNCHANGED <<ready, readySusp>>
    BY <1>13, <2>1, <2>4, FasePone DEF RecibirDeKM, TypeOK, AvisoKM
  <2>5. ASSUME NEW i \in DOMAIN readySusp, Fase("KM", "ordenar"), UNCHANGED suspensionOk,
               readySusp[i] = Head(deKM).pid, readySusp' = RemoveAt(readySusp, i),
               ready' = ready \cup {Head(deKM).pid}, UNCHANGED caida
        PROVE  TypeOK'
    <3>1. readySusp \in Seq(Procesos) BY DEF TypeOK
    <3>2. readySusp' \in Seq(Procesos) BY <2>5, <3>1, SacarDelMedio
    <3>3. Head(deKM).pid \in Procesos BY <2>5, <3>1
    <3> QED BY <1>13, <2>1, <2>5, <3>2, <3>3, FasePone DEF RecibirDeKM, TypeOK, AvisoKM
  <2> QED BY <1>13, <2>2, <2>3, <2>4, <2>5 DEF RecibirDeKM
<1>14. ASSUME AtenderPedidoKM PROVE TypeOK'
  <2>1. Head(aKM) \in PedidoKM /\ Tail(aKM) \in Seq(PedidoKM)
    BY <1>14, Mensajes DEF AtenderPedidoKM
  <2>2. deKM' \in Seq(AvisoKM) /\ suspendido' \in [Procesos -> BOOLEAN]
    <3> DEFINE m == Head(aKM)
    <3>1. /\ m.pid \in Procesos /\ deKM \in Seq(AvisoKM)
          /\ [op |-> "SUSPENSION_OK", pid |-> m.pid] \in AvisoKM
          /\ [op |-> "DESUSPENSION_OK", pid |-> m.pid] \in AvisoKM
      BY <2>1, Mensajes DEF PedidoKM, AvisoKM
    <3>2. \/ \E o \in {"SUSPENSION_OK", "DESUSPENSION_OK"} :
                /\ deKM' = Append(deKM, [op |-> o, pid |-> m.pid])
                /\ suspendido' = [suspendido EXCEPT ![m.pid] = ~@]
          \/ UNCHANGED <<suspendido, deKM>>
      BY <1>14 DEF AtenderPedidoKM
    <3>3. suspendido \in [Procesos -> BOOLEAN] BY DEF TypeOK
    <3> HIDE DEF m
    <3>4. ASSUME NEW o \in {"SUSPENSION_OK", "DESUSPENSION_OK"},
                 deKM' = Append(deKM, [op |-> o, pid |-> m.pid])
          PROVE  deKM' \in Seq(AvisoKM)
      BY <3>1, <3>4
    <3>5. suspendido' = [suspendido EXCEPT ![m.pid] = ~@] => suspendido' \in [Procesos -> BOOLEAN]
      BY <3>1, <3>3
    <3> QED BY <3>1, <3>2, <3>3, <3>4, <3>5
  <2> QED BY <1>14, <2>1, <2>2 DEF AtenderPedidoKM, TypeOK, AvisoKM, PedidoKM
<1>15. ASSUME Aumentar PROVE TypeOK'
  <2>1. deKM' \in Seq(AvisoKM) /\ aumentos' \in Nat
    BY <1>15, Mensajes DEF Aumentar, TypeOK, AvisoKM
  <2> QED BY <1>15, <2>1 DEF Aumentar, TypeOK, AvisoKM
<1>16. ASSUME UNCHANGED vars PROVE TypeOK'
  BY <1>16 DEF vars, TypeOK
<1> QED
  BY <1>1, <1>2, <1>3, <1>4, <1>5, <1>6, <1>7, <1>8, <1>9, <1>10, <1>11, <1>12, <1>13, <1>14,
     <1>15, <1>16 DEF Next, Desbloquear, Solicitar

LEMMA PasoHilosOK ==
  ASSUME Tipado, [Next]_vars
  PROVE  HilosOK'
<1> USE DEF Tipado
<1>1. ASSUME UNCHANGED hilo PROVE HilosOK'
  BY <1>1 DEF HilosOK
<1>2. ASSUME NEW h \in Hilos, NEW f \in Fases, Fase(h, f),
             f \in ConProceso => hilo[h].fase \in ConProceso
      PROVE  HilosOK'
  <2>1. \A g \in Hilos : hilo'[g].fase \in ConProceso => hilo'[g].pid \in Procesos
    BY <1>2, FasePone DEF HilosOK, ConProceso
  <2> QED BY <2>1 DEF HilosOK
<1>3. ASSUME NEW t \in Tipos, TerminarPedido(t) PROVE HilosOK'
  <2>1. Head(pedidos[t]) \in Procesos
    BY <1>3, Mensajes DEF TerminarPedido
  <2>2. \A g \in Hilos : hilo'[g].fase \in ConProceso => hilo'[g].pid \in Procesos
    BY <1>3, <2>1 DEF TerminarPedido, TypeOK, HilosOK
  <2> QED BY <2>2 DEF HilosOK
<1>4. ASSUME NEW h \in Hilos, ElegirSuspendido(h) PROVE HilosOK'
  <2>1. readySusp # <<>> => Head(readySusp) \in Procesos
    BY DEF TypeOK
  <2>2. \A g \in Hilos : hilo'[g].fase \in ConProceso => hilo'[g].pid \in Procesos
    BY <1>4, <2>1 DEF ElegirSuspendido, TypeOK, HilosOK, Ocioso, ConProceso
  <2> QED BY <2>2 DEF HilosOK
<1>5. ASSUME NEW t \in Tipos, BuscarEnBlock(t) \/ BuscarEnBlockSusp(t) \/ Leer(t)
                               \/ PasarAReady(t) \/ PasarAReadySusp(t)
      PROVE  HilosOK'
  <2>1. \E f \in Fases : Fase(t, f) /\ hilo[t].fase \in ConProceso
    BY <1>5 DEF BuscarEnBlock, BuscarEnBlockSusp, Leer, LeerSinLock, Marcar, LeerConLock,
       LeerEstado, PasarAReady, PasarAReadySusp, Fases, ConProceso
  <2> QED BY <1>2, <2>1, Nombres
<1>6. ASSUME NEW h \in Hilos, OrdenarSuspReady(h) \/ PedirElegido(h) PROVE HilosOK'
  <2>1. \E f \in Fases : Fase(h, f) /\ f \notin ConProceso
    BY <1>6 DEF OrdenarSuspReady, PedirElegido, Fases, ConProceso
  <2> QED BY <1>2, <2>1
<1>7. ASSUME RecibirDeKM PROVE HilosOK'
  <2>1. UNCHANGED hilo \/ Fase("KM", "ordenar")
    BY <1>7 DEF RecibirDeKM
  <2> QED BY <1>1, <1>2, <2>1, Nombres DEF Fases, ConProceso
<1>8. ASSUME NEW p \in Procesos, Ejecutar(p) PROVE HilosOK'
  BY <1>1, <1>8 DEF Ejecutar
<1>9. ASSUME NEW p \in Procesos, NEW t \in Usa[p], Bloquear(p, t) PROVE HilosOK'
  BY <1>1, <1>9 DEF Bloquear
<1>10. ASSUME NEW p \in Procesos, NEW i \in Bloqueo, Temporizar(p, i) PROVE HilosOK'
  <2>1. UNCHANGED hilo
    BY <1>10 DEF Temporizar, Vencer, SacarDeBlock, EncolarEnBlockSusp, PedirSuspension,
       ConfirmarSuspension, Diferida, PedirDesuspension
  <2> QED BY <1>1, <2>1
<1>11. ASSUME AtenderPedidoKM \/ Aumentar \/ UNCHANGED vars PROVE HilosOK'
  BY <1>1, <1>11 DEF AtenderPedidoKM, Aumentar, vars
<1> QED
  BY <1>3, <1>4, <1>5, <1>6, <1>7, <1>8, <1>9, <1>10, <1>11 DEF Next, Desbloquear, Solicitar

LEMMA PasoUsuariosOK ==
  ASSUME Tipado, [Next]_vars
  PROVE  UsuariosOK'
<1> USE DEF Tipado
<1>1. ASSUME UNCHANGED <<hilo, pedidos>> PROVE UsuariosOK'
  BY <1>1 DEF UsuariosOK
<1>2. ASSUME NEW h \in Hilos, NEW f \in Fases, Fase(h, f), UNCHANGED pedidos,
             f \in Termina => hilo[h].fase \in Termina
      PROVE  UsuariosOK'
  <2>1. \A t \in Tipos : hilo'[t].fase \in Termina => t \in Usa[hilo'[t].pid]
    BY <1>2, FasePone, Nombres DEF UsuariosOK, Termina
  <2> QED BY <1>2, <2>1 DEF UsuariosOK
<1>3. ASSUME NEW t \in Tipos, TerminarPedido(t) PROVE UsuariosOK'
  <2> DEFINE s == pedidos[t]
  <2>1. /\ s \in Seq(Procesos) /\ Tail(s) \in Seq(Procesos) /\ s # <<>>
        /\ Head(s) = s[1] /\ 1 \in DOMAIN s
        /\ \A i \in DOMAIN Tail(s) : i + 1 \in DOMAIN s /\ Tail(s)[i] = s[i + 1]
    BY <1>3, Mensajes DEF TerminarPedido
  <2>2. \A u \in Tipos : pedidos'[u] = IF u = t THEN Tail(s) ELSE pedidos[u]
    BY <1>3 DEF TerminarPedido, TypeOK
  <2>3. \A u \in Tipos : hilo'[u] = IF u = t THEN [fase |-> "enBlock", pid |-> Head(s)]
                                              ELSE hilo[u]
    BY <1>3, Nombres DEF TerminarPedido, TypeOK
  <2> HIDE DEF s
  <2>4. ASSUME NEW u \in Tipos, NEW i \in DOMAIN pedidos'[u] PROVE u \in Usa[pedidos'[u][i]]
    <3>1. CASE u = t
      <4>1. i + 1 \in DOMAIN s /\ pedidos'[u][i] = s[i + 1] BY <2>1, <2>2, <2>4, <3>1
      <4>2. \A j \in DOMAIN s : t \in Usa[s[j]] BY DEF UsuariosOK, s
      <4> QED BY <3>1, <4>1, <4>2
    <3>2. CASE u # t BY <2>2, <2>4, <3>2 DEF UsuariosOK
    <3> QED BY <3>1, <3>2
  <2>5. ASSUME NEW u \in Tipos, hilo'[u].fase \in Termina PROVE u \in Usa[hilo'[u].pid]
    BY <2>1, <2>3, <2>5 DEF UsuariosOK, s
  <2> QED BY <2>4, <2>5 DEF UsuariosOK
<1>4. ASSUME NEW p \in Procesos, NEW t \in Usa[p], Bloquear(p, t) PROVE UsuariosOK'
  <2> DEFINE s == pedidos[t]
  <2>1. t \in Tipos /\ s \in Seq(Procesos)
    BY <1>4, Nombres, Mensajes
  <2>2. \A i \in DOMAIN Append(s, p) : (i \in DOMAIN s /\ Append(s, p)[i] = s[i])
                                       \/ Append(s, p)[i] = p
    BY <2>1
  <2>3. \A u \in Tipos : pedidos'[u] = IF u = t THEN Append(s, p) ELSE pedidos[u]
    BY <1>4, <2>1 DEF Bloquear, TypeOK
  <2> HIDE DEF s
  <2>4. ASSUME NEW u \in Tipos, NEW i \in DOMAIN pedidos'[u] PROVE u \in Usa[pedidos'[u][i]]
    BY <2>1, <2>2, <2>3, <2>4 DEF UsuariosOK, s
  <2> QED BY <1>4, <2>4 DEF UsuariosOK, Bloquear
<1>5. ASSUME NEW h \in Hilos, ElegirSuspendido(h) PROVE UsuariosOK'
  <2>1. \A t \in Tipos : hilo'[t].fase \in Termina => t \in Usa[hilo'[t].pid]
    BY <1>5, Nombres DEF ElegirSuspendido, TypeOK, UsuariosOK, Ocioso, Termina
  <2> QED BY <1>5, <2>1 DEF UsuariosOK, ElegirSuspendido
<1>6. ASSUME NEW t \in Tipos, BuscarEnBlock(t) \/ BuscarEnBlockSusp(t) \/ Leer(t)
                               \/ PasarAReady(t) \/ PasarAReadySusp(t)
      PROVE  UsuariosOK'
  <2>1. UNCHANGED pedidos /\ \E f \in Fases : Fase(t, f) /\ (f \in Termina => hilo[t].fase \in Termina)
    BY <1>6 DEF BuscarEnBlock, BuscarEnBlockSusp, Leer, LeerSinLock, Marcar, LeerConLock,
       LeerEstado, PasarAReady, PasarAReadySusp, Fases, Termina
  <2> QED BY <1>2, <2>1, Nombres
<1>7. ASSUME NEW h \in Hilos, OrdenarSuspReady(h) \/ PedirElegido(h) PROVE UsuariosOK'
  <2>1. UNCHANGED pedidos /\ \E f \in Fases : Fase(h, f) /\ f \notin Termina
    BY <1>7 DEF OrdenarSuspReady, PedirElegido, Fases, Termina
  <2> QED BY <1>2, <2>1
<1>8. ASSUME RecibirDeKM PROVE UsuariosOK'
  <2>1. UNCHANGED pedidos /\ (UNCHANGED hilo \/ Fase("KM", "ordenar"))
    BY <1>8 DEF RecibirDeKM
  <2> QED BY <1>1, <1>2, <2>1, Nombres DEF Fases, Termina
<1>9. ASSUME NEW p \in Procesos, Ejecutar(p) PROVE UsuariosOK'
  BY <1>1, <1>9 DEF Ejecutar
<1>10. ASSUME NEW p \in Procesos, NEW i \in Bloqueo, Temporizar(p, i) PROVE UsuariosOK'
  <2>1. UNCHANGED <<hilo, pedidos>>
    BY <1>10 DEF Temporizar, Vencer, SacarDeBlock, EncolarEnBlockSusp, PedirSuspension,
       ConfirmarSuspension, Diferida, PedirDesuspension
  <2> QED BY <1>1, <2>1
<1>11. ASSUME AtenderPedidoKM \/ Aumentar \/ UNCHANGED vars PROVE UsuariosOK'
  BY <1>1, <1>11 DEF AtenderPedidoKM, Aumentar, vars
<1> QED
  BY <1>3, <1>4, <1>5, <1>6, <1>7, <1>8, <1>9, <1>10, <1>11 DEF Next, Desbloquear, Solicitar

LEMMA PasoTemporizadoresOK ==
  ASSUME Tipado, [Next]_vars
  PROVE  TemporizadoresOK'
<1> USE DEF Tipado
<1>1. ASSUME UNCHANGED <<idBloqueo, temporizador>> PROVE TemporizadoresOK'
  BY <1>1 DEF TemporizadoresOK
<1>2. ASSUME NEW p \in Procesos, NEW t \in Usa[p], Bloquear(p, t) PROVE TemporizadoresOK'
  <2>1. idBloqueo[p] \in Nat /\ idBloqueo[p] + 1 \in Bloqueo /\ Bloqueo \subseteq Nat
    BY <1>2, Nombres DEF Bloquear, TypeOK
  <2>2. /\ idBloqueo \in [Procesos -> Nat] /\ MaxBloqueos \in [Procesos -> Nat]
        /\ \A q \in Procesos : idBloqueo'[q] = IF q = p THEN idBloqueo[p] + 1 ELSE idBloqueo[q]
    BY <1>2, <2>1, MedianoPlazoAssumption DEF Bloquear, TypeOK
  <2>3. \A q \in Procesos, j \in Bloqueo :
          temporizador'[q][j] = IF q = p /\ j = idBloqueo[p] + 1 THEN "duerme" ELSE temporizador[q][j]
    <3>1. PICK n \in Bloqueo : n = idBloqueo[p] + 1 BY <2>1
    <3>2. TimerA(p, n, "duerme") BY <1>2, <2>2, <3>1 DEF Bloquear, TimerA
    <3>3. "duerme" \in FasesTimer BY DEF FasesTimer
    <3>4. \A q \in Procesos, j \in Bloqueo :
            temporizador'[q][j] = IF q = p /\ j = n THEN "duerme" ELSE temporizador[q][j]
      BY <3>2, <3>3, TimerPone
    <3> QED BY <3>1, <3>4
  <2>4. ASSUME NEW q \in Procesos, NEW j \in Bloqueo, idBloqueo'[q] < j
        PROVE  temporizador'[q][j] = "no"
    <3>1. idBloqueo[q] \in Nat /\ j \in Nat BY <2>1, <2>2
    <3>2. idBloqueo[q] < j /\ ~(q = p /\ j = idBloqueo[p] + 1) BY <2>2, <2>4, <3>1
    <3> QED BY <2>3, <3>2 DEF TemporizadoresOK
  <2>5. ASSUME NEW q \in Procesos PROVE idBloqueo'[q] <= MaxBloqueos[q]
    <3>1. idBloqueo[q] \in Nat /\ MaxBloqueos[q] \in Nat BY <2>2
    <3>2. idBloqueo[p] < MaxBloqueos[p] BY <1>2 DEF Bloquear
    <3> QED BY <2>2, <3>1, <3>2 DEF TemporizadoresOK
  <2> QED BY <2>4, <2>5 DEF TemporizadoresOK
<1>3. ASSUME NEW p \in Procesos, NEW i \in Bloqueo, Temporizar(p, i) PROVE TemporizadoresOK'
  <2>1. /\ UNCHANGED idBloqueo /\ temporizador[p][i] # "no"
        /\ \E f \in FasesTimer : TimerA(p, i, f)
    BY <1>3 DEF Temporizar, Vencer, SacarDeBlock, EncolarEnBlockSusp, PedirSuspension,
       ConfirmarSuspension, Diferida, PedirDesuspension, pcbs, FasesTimer
  <2>2. \A q \in Procesos, j \in Bloqueo :
          ~(q = p /\ j = i) => temporizador'[q][j] = temporizador[q][j]
    BY <2>1, TimerPone
  <2>3. ~(idBloqueo[p] < i)
    BY <2>1 DEF TemporizadoresOK
  <2> QED BY <2>1, <2>2, <2>3 DEF TemporizadoresOK
<1>4. ASSUME NEW t \in Tipos, Desbloquear(t) PROVE TemporizadoresOK'
  BY <1>1, <1>4 DEF Desbloquear, TerminarPedido, BuscarEnBlock, BuscarEnBlockSusp, Leer, LeerSinLock,
     Marcar, LeerConLock, LeerEstado, PasarAReady, PasarAReadySusp, pcbs
<1>5. ASSUME NEW h \in Hilos, Solicitar(h) PROVE TemporizadoresOK'
  BY <1>1, <1>5 DEF Solicitar, OrdenarSuspReady, ElegirSuspendido, PedirElegido, pcbs
<1>6. ASSUME NEW p \in Procesos, Ejecutar(p) PROVE TemporizadoresOK'
  BY <1>1, <1>6 DEF Ejecutar, pcbs
<1>7. ASSUME RecibirDeKM \/ AtenderPedidoKM \/ Aumentar \/ UNCHANGED vars
      PROVE  TemporizadoresOK'
  BY <1>1, <1>7 DEF RecibirDeKM, AtenderPedidoKM, Aumentar, vars, pcbs
<1> QED BY <1>2, <1>3, <1>4, <1>5, <1>6, <1>7 DEF Next

LEMMA InicioTipado ==
  ASSUME Init
  PROVE  Tipado
<1>1. TypeOK
  <2>1. hilo \in [Hilos -> [fase : Fases, pid : Procesos \cup {Ninguno}]]
    BY DEF Init, Ocioso, Fases
  <2>2. /\ \A S : <<>> \in Seq(S)
        /\ readySusp = <<>> /\ aKM = <<>> /\ deKM = <<>> /\ pedidos = [t \in Tipos |-> <<>>]
    BY DEF Init
  <2>3. pedidos \in [Tipos -> Seq(Procesos)]
    BY <2>2
  <2>4. /\ readySusp \in Seq(Procesos)
        /\ aKM \in Seq([op : {"SUSPENSION", "DESUSPENSION"}, pid : Procesos])
        /\ deKM \in Seq([op : {"SUSPENSION_OK", "DESUSPENSION_OK", "AUMENTO"},
                         pid : Procesos \cup {Ninguno}])
    BY <2>2
  <2>5. /\ temporizador \in [Procesos -> [Bloqueo -> {"no", "duerme", "sacar", "encolar", "enviar",
                                                     "confirmar", "mover", "pedir"}]]
        /\ idBloqueo \in [Procesos -> Nat] /\ enCurso \in [Procesos -> BOOLEAN]
        /\ enTransito \in [Procesos -> BOOLEAN] /\ suspendido \in [Procesos -> BOOLEAN]
    BY DEF Init
  <2> QED BY <2>1, <2>3, <2>4, <2>5 DEF Init, TypeOK
<1>2. HilosOK
  BY DEF Init, HilosOK, Ocioso, ConProceso
<1>3. UsuariosOK
  <2>1. \A t \in Tipos : DOMAIN pedidos[t] = {} /\ hilo[t].fase \notin Termina
    BY Nombres DEF Init, Ocioso, Termina
  <2> QED BY <2>1 DEF UsuariosOK
<1>4. TemporizadoresOK
  BY MedianoPlazoAssumption DEF Init, TemporizadoresOK
<1> QED BY <1>1, <1>2, <1>3, <1>4 DEF Tipado

LEMMA SiempreTipado == Spec => []Tipado
<1>1. Tipado /\ [Next]_vars => Tipado'
  BY PasoTypeOK, PasoHilosOK, PasoUsuariosOK, PasoTemporizadoresOK DEF Tipado
<1> QED BY <1>1, InicioTipado, PTL DEF Spec

\* Every variable keeps its type; every message to kernel_memory names a process.
THEOREM TiposDeMedianoPlazo == Spec => []TypeOK
<1>1. Tipado => TypeOK
  BY DEF Tipado
<1> QED BY <1>1, SiempreTipado, PTL

LEMMA BloquearPone ==
  ASSUME NEW p \in Procesos, NEW t \in Usa[p], Tipado, Bloquear(p, t)
  PROVE  \E n \in Bloqueo : /\ temporizador[p][n] = "no" /\ TimerA(p, n, "duerme")
<1>1. idBloqueo[p] \in Nat /\ idBloqueo[p] + 1 \in Bloqueo
  BY Nombres DEF Tipado, Bloquear, TypeOK
<1>2. idBloqueo'[p] = idBloqueo[p] + 1
  BY DEF Tipado, Bloquear, TypeOK
<1>3. PICK n \in Bloqueo : n = idBloqueo[p] + 1
  BY <1>1
<1>4. idBloqueo[p] < n
  BY <1>1, <1>3
<1> QED BY <1>2, <1>3, <1>4 DEF Bloquear, TimerA, Tipado, TemporizadoresOK

-----------------------------------------------------------------------------
(* The end of an I/O that is put off                                       *)

\* Outside the lock only the thread of SLEEP writes the record, and only for a
\* process that uses it.
LEMMA PasoDiferida ==
  ASSUME Tipado, DiferidaSeAtiende, [Next]_vars
  PROVE  DiferidaSeAtiende'
<1> USE DEF Tipado
<1>0. enCurso \in [Procesos -> BOOLEAN] /\ enTransito \in [Procesos -> BOOLEAN]
  BY DEF TypeOK
<1>1. ASSUME UNCHANGED <<enCurso, enTransito>> PROVE DiferidaSeAtiende'
  BY <1>1 DEF DiferidaSeAtiende
<1>2. ASSUME NEW p \in Procesos, NEW i \in Bloqueo, EncolarEnBlockSusp(p, i)
      PROVE  DiferidaSeAtiende'
  BY <1>0, <1>2 DEF EncolarEnBlockSusp, DiferidaSeAtiende
<1>3. ASSUME NEW p \in Procesos, NEW i \in Bloqueo, ConfirmarSuspension(p, i)
      PROVE  DiferidaSeAtiende'
  BY <1>0, <1>3 DEF ConfirmarSuspension, DiferidaSeAtiende
<1>4. ASSUME "SLEEP" \in Tipos, Marcar PROVE DiferidaSeAtiende'
  <2>1. "SLEEP" \in Usa[hilo["SLEEP"].pid]
    BY <1>4 DEF Marcar, UsuariosOK, Termina
  <2> QED BY <1>0, <1>4, <2>1 DEF Marcar, DiferidaSeAtiende
<1>5. ASSUME LeerConLock PROVE DiferidaSeAtiende'
  BY <1>0, <1>5 DEF LeerConLock, DiferidaSeAtiende
<1>6. ASSUME NEW p \in Procesos, NEW i \in Bloqueo, Temporizar(p, i) PROVE DiferidaSeAtiende'
  BY <1>1, <1>2, <1>3, <1>6 DEF Temporizar, Vencer, SacarDeBlock, PedirSuspension, Diferida,
     PedirDesuspension, pcbs
<1>7. ASSUME NEW t \in Tipos, Desbloquear(t) PROVE DiferidaSeAtiende'
  BY <1>1, <1>4, <1>5, <1>7 DEF Desbloquear, TerminarPedido, BuscarEnBlock, BuscarEnBlockSusp,
     Leer, LeerSinLock, LeerEstado, PasarAReady, PasarAReadySusp, pcbs
<1>8. ASSUME NEW h \in Hilos, Solicitar(h) PROVE DiferidaSeAtiende'
  BY <1>1, <1>8 DEF Solicitar, OrdenarSuspReady, ElegirSuspendido, PedirElegido, pcbs
<1>9. ASSUME NEW p \in Procesos, Ejecutar(p) \/ \E t \in Usa[p] : Bloquear(p, t)
      PROVE  DiferidaSeAtiende'
  BY <1>1, <1>9 DEF Ejecutar, Bloquear, pcbs
<1>10. ASSUME RecibirDeKM \/ AtenderPedidoKM \/ Aumentar \/ UNCHANGED vars
       PROVE  DiferidaSeAtiende'
  BY <1>1, <1>10 DEF RecibirDeKM, AtenderPedidoKM, Aumentar, vars, pcbs
<1> QED BY <1>6, <1>7, <1>8, <1>9, <1>10 DEF Next

\* The record of an I/O that ended during the transfer is there only while the
\* timer that reads it is still to do so, for a process that does not use SLEEP.
THEOREM ElRegistroSeLee == Spec => []DiferidaSeAtiende
<1>1. Init => DiferidaSeAtiende
  BY DEF Init, DiferidaSeAtiende
<1>2. Tipado /\ DiferidaSeAtiende /\ [Next]_vars => DiferidaSeAtiende'
  BY PasoDiferida
<1> QED BY <1>1, <1>2, SiempreTipado, PTL DEF Spec

-----------------------------------------------------------------------------
(* The place of a PCB and the stage of its suspension                      *)

\* Exactly one of six.
UnoSolo(a, b, c, d, e, f) ==
  /\ a \/ b \/ c \/ d \/ e \/ f
  /\ a => ~(b \/ c \/ d \/ e \/ f)
  /\ b => ~(c \/ d \/ e \/ f)
  /\ c => ~(d \/ e \/ f)
  /\ d => ~(e \/ f)
  /\ e => ~f

ConTimer(p, f)  == \E i \in Bloqueo : temporizador[p][i] = f
UnTimer(p, f)   == \A i, j \in Bloqueo : temporizador[p][i] = f /\ temporizador[p][j] = f => i = j
Suspension(p)   == [op |-> "SUSPENSION", pid |-> p]
Desuspendido(p) == [op |-> "DESUSPENSION_OK", pid |-> p]

\* Two timers of a process never hold it at once, nor is a request repeated.
SinDobles(p) ==
  /\ UnTimer(p, "encolar") /\ UnTimer(p, "enviar")
  /\ SinRepetir(aKM, Suspension(p)) /\ SinRepetir(deKM, Desuspendido(p))

\* The PCB is in one queue or in the hands of one timer.
EnUnLugar(p) ==
  UnoSolo(p \in ready, p \in exec, p \in block, p \in blockSusp, p \in Range(readySusp),
          ConTimer(p, "encolar"))

\* In memory, in a queue of suspended processes with its request to be sent, the
\* request sent, in swap, and back in memory with the answer on its way.
EnUnaEtapa(p) ==
  UnoSolo(p \notin blockSusp /\ p \notin Range(readySusp), ConTimer(p, "enviar"),
          Una(aKM, Suspension(p)), suspendido[p], Una(deKM, Desuspendido(p)), FALSE)

Ciclo(p) == SinDobles(p) /\ EnUnLugar(p) /\ EnUnaEtapa(p)

\* Once the kernel fell nothing is claimed of the queues, except what the last
\* step could not disturb.
Ordenado == /\ IsInjective(readySusp)
            /\ MemoriaPresente
            /\ ~caida => \A p \in Procesos : Ciclo(p)

\* What a step of a timer from phase f to phase g does to the timers that count.
LEMMA TimerPasa ==
  ASSUME NEW p \in Procesos, NEW i \in Bloqueo, NEW g \in FasesTimer, TypeOK, TimerA(p, i, g),
         NEW x, NEW q \in Procesos
  PROVE  LET f == temporizador[p][i] IN
         /\ q # p \/ (x # f /\ x # g) \/ f = g =>
              (ConTimer(q, x)' <=> ConTimer(q, x)) /\ (UnTimer(q, x)' <=> UnTimer(q, x))
         /\ x = g /\ f # g /\ ~ConTimer(p, x) => ConTimer(p, x)' /\ UnTimer(p, x)'
         /\ x = f /\ f # g /\ UnTimer(p, x) => ~ConTimer(p, x)' /\ UnTimer(p, x)'
         /\ temporizador[p][i] = x => ConTimer(p, x)
<1> DEFINE f == temporizador[p][i]
<1>1. \A r \in Procesos, j \in Bloqueo :
        temporizador'[r][j] = IF r = p /\ j = i THEN g ELSE temporizador[r][j]
  BY TimerPone
<1> HIDE DEF f
<1>2. f = temporizador[p][i]
  BY DEF f
<1>3. q # p \/ (x # f /\ x # g) \/ f = g =>
         (ConTimer(q, x)' <=> ConTimer(q, x)) /\ (UnTimer(q, x)' <=> UnTimer(q, x))
  <2> SUFFICES ASSUME q # p \/ (x # f /\ x # g) \/ f = g
               PROVE  \A j \in Bloqueo : temporizador'[q][j] = x <=> temporizador[q][j] = x
    BY DEF ConTimer, UnTimer
  <2> QED BY <1>1, <1>2
<1>4. x = g /\ f # g /\ ~ConTimer(p, x) => ConTimer(p, x)' /\ UnTimer(p, x)'
  BY <1>1, <1>2 DEF ConTimer, UnTimer
<1>5. x = f /\ f # g /\ UnTimer(p, x) => ~ConTimer(p, x)' /\ UnTimer(p, x)'
  BY <1>1, <1>2 DEF ConTimer, UnTimer
<1>6. f = x => ConTimer(p, x)
  BY <1>2 DEF ConTimer
<1> QED BY <1>3, <1>4, <1>5, <1>6 DEF f

\* A step that leaves alone what the invariant is about.
LEMMA SinCambioDeCiclo ==
  ASSUME Ordenado, UNCHANGED <<colas, temporizador, aKM, deKM, suspendido, caida>>
  PROVE  Ordenado'
BY DEF Ordenado, MemoriaPresente, colas, Ciclo, SinDobles, EnUnLugar, EnUnaEtapa, UnoSolo,
   ConTimer, UnTimer, Suspension, Desuspendido, Una, SinRepetir, Range, IsInjective

\* In memory: ready or running, if the kernel did not fall.

LEMMA CicloDaMemoriaPrima ==
  ASSUME \A p \in Procesos : Ciclo(p)', TypeOK'
  PROVE  MemoriaPresente'
BY DEF MemoriaPresente, Ciclo, EnUnLugar, EnUnaEtapa, UnoSolo, TypeOK

\* The timers that run, read or wait do not count for the invariant.
LEMMA TimerNeutro ==
  ASSUME Tipado, Ordenado, NEW p \in Procesos, NEW i \in Bloqueo, NEW g \in FasesTimer,
         TimerA(p, i, g), temporizador[p][i] \notin {"encolar", "enviar"},
         g \notin {"encolar", "enviar"}, UNCHANGED <<caida, suspendido, deKM>>,
         UNCHANGED <<block, blockSusp, readySusp>>,
         \A q \in Procesos : /\ Una(aKM, Suspension(q))' <=> Una(aKM, Suspension(q))
                             /\ SinRepetir(aKM, Suspension(q)) => SinRepetir(aKM, Suspension(q))',
         UNCHANGED <<ready, exec>>
  PROVE  Ordenado'
<1>1. \A q \in Procesos : \A x \in {"encolar", "enviar"} :
        (ConTimer(q, x)' <=> ConTimer(q, x)) /\ (UnTimer(q, x)' <=> UnTimer(q, x))
  BY TimerPasa DEF Tipado
<1>2. ASSUME NEW q \in Procesos, Ciclo(q) PROVE Ciclo(q)'
  <2>1. SinDobles(q)' BY <1>1, <1>2 DEF Ciclo, SinDobles, SinRepetir
  <2>2. EnUnLugar(q)' BY <1>1, <1>2 DEF Ciclo, EnUnLugar, UnoSolo
  <2>3. EnUnaEtapa(q)' BY <1>1, <1>2 DEF Ciclo, EnUnaEtapa, UnoSolo, Una
  <2> QED BY <2>1, <2>2, <2>3 DEF Ciclo
<1> QED BY <1>2 DEF Ordenado, MemoriaPresente

\* The short-term scheduler takes a PCB from READY, or from EXEC to BLOCK.
LEMMA OrdenadoEjecutar ==
  ASSUME Tipado, TypeOK', Ordenado, ~caida, NEW p \in Procesos, Ejecutar(p)
  PROVE  Ordenado'
<1>1. ASSUME NEW q \in Procesos, Ciclo(q) PROVE Ciclo(q)'
  <2>1. SinDobles(q)' BY <1>1
    DEF Ejecutar, Ciclo, SinDobles, km, UnTimer, SinRepetir, Suspension, Desuspendido
  <2>2. EnUnLugar(q)' BY <1>1 DEF Ejecutar, Ciclo, EnUnLugar, UnoSolo, ConTimer
  <2>3. EnUnaEtapa(q)' BY <1>1
    DEF Ejecutar, Ciclo, EnUnaEtapa, UnoSolo, ConTimer, Una, km, Suspension, Desuspendido
  <2> QED BY <2>1, <2>2, <2>3 DEF Ciclo
<1>2. \A q \in Procesos : Ciclo(q)'
  BY <1>1 DEF Ordenado
<1> QED BY <1>2, CicloDaMemoriaPrima DEF Ordenado, Ejecutar

LEMMA OrdenadoBloquear ==
  ASSUME Tipado, TypeOK', Ordenado, ~caida, NEW p \in Procesos, NEW t \in Usa[p], Bloquear(p, t)
  PROVE  Ordenado'
<1>1. PICK n \in Bloqueo : temporizador[p][n] = "no" /\ TimerA(p, n, "duerme")
  BY BloquearPone
<1>2. \A q \in Procesos : \A x \in {"encolar", "enviar"} :
        (ConTimer(q, x)' <=> ConTimer(q, x)) /\ (UnTimer(q, x)' <=> UnTimer(q, x))
  <2>1. "duerme" \in FasesTimer BY DEF FasesTimer
  <2> QED BY <1>1, <2>1, TimerPasa DEF Tipado
<1>3. ASSUME NEW q \in Procesos, Ciclo(q) PROVE Ciclo(q)'
  <2>1. SinDobles(q)' BY <1>2, <1>3
    DEF Bloquear, Ciclo, SinDobles, km, SinRepetir, Suspension, Desuspendido
  <2>2. EnUnLugar(q)' BY <1>2, <1>3 DEF Bloquear, Ciclo, EnUnLugar, UnoSolo
  <2>3. EnUnaEtapa(q)' BY <1>2, <1>3
    DEF Bloquear, Ciclo, EnUnaEtapa, UnoSolo, Una, km, Suspension, Desuspendido
  <2> QED BY <2>1, <2>2, <2>3 DEF Ciclo
<1>4. \A q \in Procesos : Ciclo(q)'
  BY <1>3 DEF Ordenado
<1> QED BY <1>4, CicloDaMemoriaPrima DEF Ordenado, Bloquear

\* The timer takes the PCB out of BLOCK, in its hands, and puts it in BLOCK_SUSP.
LEMMA OrdenadoSacar ==
  ASSUME Tipado, TypeOK', Ordenado, ~caida, NEW p \in Procesos, NEW i \in Bloqueo,
         SacarDeBlock(p, i)
  PROVE  Ordenado'
<1>1. CASE p \notin block
  <2>1. TimerA(p, i, "no") /\ UNCHANGED block /\ "no" \in FasesTimer
    BY <1>1 DEF SacarDeBlock, FasesTimer
  <2> QED BY <1>1, <2>1, TimerNeutro DEF SacarDeBlock, km, pcbs, Suspension
<1>2. CASE p \in block
  <2>1. /\ temporizador[p][i] = "sacar" /\ TimerA(p, i, "encolar") /\ "encolar" \in FasesTimer
    BY <1>2 DEF SacarDeBlock, FasesTimer
  <2>2. /\ \A q \in Procesos : /\ (ConTimer(q, "enviar")' <=> ConTimer(q, "enviar"))
                               /\ (UnTimer(q, "enviar")' <=> UnTimer(q, "enviar"))
        /\ \A q \in Procesos \ {p} : /\ (ConTimer(q, "encolar")' <=> ConTimer(q, "encolar"))
                                     /\ (UnTimer(q, "encolar")' <=> UnTimer(q, "encolar"))
        /\ ~ConTimer(p, "encolar") => ConTimer(p, "encolar")' /\ UnTimer(p, "encolar")'
    BY <2>1, TimerPasa DEF Tipado
  <2>3. ASSUME NEW q \in Procesos, Ciclo(q) PROVE Ciclo(q)'
    <3>1. q = p => ~ConTimer(q, "encolar")
      BY <1>2, <2>3 DEF Ciclo, EnUnLugar, UnoSolo
    <3>2. SinDobles(q)' BY <2>2, <2>3, <3>1
      DEF SacarDeBlock, Ciclo, SinDobles, km, SinRepetir, Suspension, Desuspendido
    <3>3. EnUnLugar(q)' BY <1>2, <2>2, <2>3, <3>1
      DEF SacarDeBlock, Ciclo, EnUnLugar, UnoSolo
    <3>4. EnUnaEtapa(q)' BY <2>2, <2>3
      DEF SacarDeBlock, Ciclo, EnUnaEtapa, UnoSolo, Una, km, Suspension, Desuspendido
    <3> QED BY <3>2, <3>3, <3>4 DEF Ciclo
  <2>4. \A q \in Procesos : Ciclo(q)'
    BY <2>3 DEF Ordenado
  <2> QED BY <2>4, CicloDaMemoriaPrima DEF Ordenado, SacarDeBlock
<1> QED BY <1>1, <1>2

LEMMA OrdenadoEncolar ==
  ASSUME Tipado, TypeOK', Ordenado, ~caida, NEW p \in Procesos, NEW i \in Bloqueo,
         EncolarEnBlockSusp(p, i)
  PROVE  Ordenado'
<1>1. /\ temporizador[p][i] = "encolar" /\ TimerA(p, i, "enviar") /\ "enviar" \in FasesTimer
  BY DEF EncolarEnBlockSusp, FasesTimer
<1>2. /\ \A q \in Procesos \ {p} : \A x \in {"encolar", "enviar"} :
           (ConTimer(q, x)' <=> ConTimer(q, x)) /\ (UnTimer(q, x)' <=> UnTimer(q, x))
      /\ ConTimer(p, "encolar")
      /\ UnTimer(p, "encolar") => ~ConTimer(p, "encolar")' /\ UnTimer(p, "encolar")'
      /\ ~ConTimer(p, "enviar") => ConTimer(p, "enviar")' /\ UnTimer(p, "enviar")'
  BY <1>1, TimerPasa DEF Tipado
<1>3. ASSUME NEW q \in Procesos, Ciclo(q) PROVE Ciclo(q)'
  <2>1. q = p => /\ UnTimer(q, "encolar") /\ q \notin blockSusp /\ q \notin Range(readySusp)
                 /\ ~ConTimer(q, "enviar")
    BY <1>2, <1>3 DEF Ciclo, SinDobles, EnUnLugar, EnUnaEtapa, UnoSolo
  <2>2. SinDobles(q)' BY <1>2, <1>3, <2>1
    DEF EncolarEnBlockSusp, Ciclo, SinDobles, km, SinRepetir, Suspension, Desuspendido
  <2>3. EnUnLugar(q)' BY <1>2, <1>3, <2>1
    DEF EncolarEnBlockSusp, Ciclo, EnUnLugar, UnoSolo
  <2>4. EnUnaEtapa(q)' BY <1>2, <1>3, <2>1
    DEF EncolarEnBlockSusp, Ciclo, EnUnaEtapa, UnoSolo, Una, km, Suspension, Desuspendido
  <2> QED BY <2>2, <2>3, <2>4 DEF Ciclo
<1>4. \A q \in Procesos : Ciclo(q)'
  BY <1>3 DEF Ordenado
<1> QED BY <1>4, CicloDaMemoriaPrima DEF Ordenado, EncolarEnBlockSusp

\* The request is sent: from a timer that is about to send it to a message.
LEMMA OrdenadoPedir ==
  ASSUME Tipado, TypeOK', Ordenado, ~caida, NEW p \in Procesos, NEW i \in Bloqueo,
         PedirSuspension(p, i)
  PROVE  Ordenado'
<1>1. /\ temporizador[p][i] = "enviar" /\ TimerA(p, i, "confirmar") /\ "confirmar" \in FasesTimer
  BY DEF PedirSuspension, FasesTimer
<1>2. /\ \A q \in Procesos : /\ (ConTimer(q, "encolar")' <=> ConTimer(q, "encolar"))
                             /\ (UnTimer(q, "encolar")' <=> UnTimer(q, "encolar"))
      /\ \A q \in Procesos \ {p} : /\ (ConTimer(q, "enviar")' <=> ConTimer(q, "enviar"))
                                   /\ (UnTimer(q, "enviar")' <=> UnTimer(q, "enviar"))
      /\ ConTimer(p, "enviar")
      /\ UnTimer(p, "enviar") => ~ConTimer(p, "enviar")' /\ UnTimer(p, "enviar")'
  BY <1>1, TimerPasa DEF Tipado
<1>3. \A q \in Procesos :
        /\ Una(aKM', Suspension(q)) <=> Una(aKM, Suspension(q)) \/ q = p
        /\ SinRepetir(aKM, Suspension(q)) /\ ~(Una(aKM, Suspension(q)) /\ q = p)
             => SinRepetir(aKM', Suspension(q))
  <2>1. /\ aKM \in Seq(PedidoKM) /\ aKM' = Append(aKM, Suspension(p))
        /\ Suspension(p) \in PedidoKM /\ \A q \in Procesos : Suspension(p) = Suspension(q) <=> q = p
    BY Mensajes DEF PedirSuspension, AKM, Suspension, PedidoKM, Tipado
  <2> QED BY <2>1, MensajeEnviado
<1>4. ASSUME NEW q \in Procesos, Ciclo(q) PROVE Ciclo(q)'
  <2>1. q = p => UnTimer(q, "enviar") /\ ~Una(aKM, Suspension(q))
    BY <1>2, <1>4 DEF Ciclo, SinDobles, EnUnaEtapa, UnoSolo
  <2>2. SinDobles(q)' BY <1>2, <1>3, <1>4, <2>1
    DEF PedirSuspension, Ciclo, SinDobles, SinRepetir, Suspension, Desuspendido
  <2>3. EnUnLugar(q)' BY <1>2, <1>4 DEF PedirSuspension, Ciclo, EnUnLugar, UnoSolo, colas
  <2>4. EnUnaEtapa(q)' BY <1>2, <1>3, <1>4, <2>1
    DEF PedirSuspension, Ciclo, EnUnaEtapa, UnoSolo, Una, Suspension, Desuspendido, colas
  <2> QED BY <2>2, <2>3, <2>4 DEF Ciclo
<1>5. \A q \in Procesos : Ciclo(q)'
  BY <1>4 DEF Ordenado
<1> QED BY <1>5, CicloDaMemoriaPrima DEF Ordenado, PedirSuspension, colas

\* A request to come back from swap is not a request to go.
LEMMA OtroPedido ==
  ASSUME Tipado, NEW p \in Procesos, AKM("DESUSPENSION", p)
  PROVE  \A q \in Procesos :
           /\ Una(aKM, Suspension(q))' <=> Una(aKM, Suspension(q))
           /\ SinRepetir(aKM, Suspension(q)) => SinRepetir(aKM, Suspension(q))'
<1> DEFINE m == [op |-> "DESUSPENSION", pid |-> p]
<1>1. /\ aKM \in Seq(PedidoKM) /\ aKM' = Append(aKM, m) /\ m \in PedidoKM
      /\ \A q \in Procesos : m # Suspension(q)
  BY Mensajes DEF AKM, Suspension, PedidoKM, Tipado
<1> HIDE DEF m
<1>2. ASSUME NEW q \in Procesos
      PROVE  /\ Una(aKM', Suspension(q)) <=> Una(aKM, Suspension(q))
             /\ SinRepetir(aKM, Suspension(q)) => SinRepetir(aKM', Suspension(q))
  BY <1>1, MensajeEnviado
<1> QED BY <1>2 DEF Suspension, Una, SinRepetir

\* pasarProcesoBlockSuspAReadySusp moves a PCB between the two queues of
\* suspended processes, or the kernel falls and they stay.
LEMMA OrdenadoASuspReady ==
  ASSUME Tipado, TypeOK', Ordenado, ~caida, NEW p \in Procesos, ABlockSuspAReadySusp(p),
         UNCHANGED <<ready, exec, block, aKM, deKM, suspendido>>,
         \A q \in Procesos : \A x \in {"encolar", "enviar"} :
           (ConTimer(q, x)' <=> ConTimer(q, x)) /\ (UnTimer(q, x)' <=> UnTimer(q, x))
  PROVE  Ordenado'
<1>1. \A q \in Procesos : Ciclo(q)
  BY DEF Ordenado
<1>2. p \in blockSusp => p \notin Range(readySusp)
  BY <1>1 DEF Ciclo, EnUnLugar, UnoSolo
<1>3. /\ blockSusp' = blockSusp \ {p} /\ (caida' <=> p \notin blockSusp)
      /\ Range(readySusp') = Range(readySusp) \cup (IF p \in blockSusp THEN {p} ELSE {})
      /\ IsInjective(readySusp')
  <2>1. IsInjective(readySusp) BY DEF Ordenado
  <2> QED BY <1>2, <2>1, ColasDeSuspendidos DEF Tipado
<1>4. MemoriaPresente'
  BY DEF Ordenado, MemoriaPresente
<1>5. ASSUME NEW q \in Procesos, p \in blockSusp PROVE Ciclo(q)'
  <2>1. Ciclo(q) BY <1>1
  <2>2. SinDobles(q)' BY <2>1
    DEF Ciclo, SinDobles, SinRepetir, Suspension, Desuspendido
  <2>3. EnUnLugar(q)' BY <1>2, <1>3, <1>5, <2>1 DEF Ciclo, EnUnLugar, UnoSolo
  <2>4. EnUnaEtapa(q)' BY <1>3, <1>5, <2>1
    DEF Ciclo, EnUnaEtapa, UnoSolo, Una, Suspension, Desuspendido
  <2> QED BY <2>2, <2>3, <2>4 DEF Ciclo
<1> QED BY <1>3, <1>4, <1>5 DEF Ordenado

LEMMA OrdenadoTemporizar ==
  ASSUME Tipado, TypeOK', Ordenado, ~caida, NEW p \in Procesos, NEW i \in Bloqueo,
         Temporizar(p, i)
  PROVE  Ordenado'
<1>1. CASE Vencer(p, i)
  <2>1. \E g \in {"sacar", "no"} : TimerA(p, i, g) /\ temporizador[p][i] = "duerme"
    BY <1>1 DEF Vencer
  <2> QED BY <1>1, <2>1, TimerNeutro DEF Vencer, FasesTimer, colas, km, Suspension
<1>2. CASE SacarDeBlock(p, i)
  BY <1>2, OrdenadoSacar
<1>3. CASE EncolarEnBlockSusp(p, i)
  BY <1>3, OrdenadoEncolar
<1>4. CASE PedirSuspension(p, i)
  BY <1>4, OrdenadoPedir
<1>5. CASE ConfirmarSuspension(p, i)
  <2>1. \E g \in {"mover", "no"} : TimerA(p, i, g) /\ temporizador[p][i] = "confirmar"
    BY <1>5 DEF ConfirmarSuspension
  <2> QED BY <1>5, <2>1, TimerNeutro DEF ConfirmarSuspension, FasesTimer, colas, km, Suspension
<1>6. CASE Diferida(p, i)
  <2>1. temporizador[p][i] = "mover" /\ TimerA(p, i, "pedir") /\ "pedir" \in FasesTimer
    BY <1>6 DEF Diferida, FasesTimer
  <2>2. \A q \in Procesos : \A x \in {"encolar", "enviar"} :
          (ConTimer(q, x)' <=> ConTimer(q, x)) /\ (UnTimer(q, x)' <=> UnTimer(q, x))
    BY <2>1, TimerPasa DEF Tipado
  <2> QED BY <1>6, <2>2, OrdenadoASuspReady DEF Diferida, km
<1>7. CASE PedirDesuspension(p, i)
  <2>1. /\ temporizador[p][i] = "pedir" /\ TimerA(p, i, "no") /\ "no" \in FasesTimer
        /\ AKM("DESUSPENSION", p)
    BY <1>7 DEF PedirDesuspension, FasesTimer
  <2>2. \A q \in Procesos :
           /\ Una(aKM, Suspension(q))' <=> Una(aKM, Suspension(q))
           /\ SinRepetir(aKM, Suspension(q)) => SinRepetir(aKM, Suspension(q))'
    BY <2>1, OtroPedido
  <2>3. UNCHANGED <<caida, suspendido, deKM, block, blockSusp, readySusp, ready, exec>>
    BY <1>7 DEF PedirDesuspension, colas
  <2> QED BY <2>1, <2>2, <2>3, TimerNeutro
<1> QED BY <1>1, <1>2, <1>3, <1>4, <1>5, <1>6, <1>7 DEF Temporizar

LEMMA OrdenadoDesbloquear ==
  ASSUME Tipado, TypeOK', Ordenado, ~caida, NEW t \in Tipos, Desbloquear(t)
  PROVE  Ordenado'
<1>1. CASE TerminarPedido(t) \/ BuscarEnBlock(t) \/ BuscarEnBlockSusp(t) \/ Leer(t)
  <2>1. UNCHANGED <<colas, temporizador, aKM, deKM, suspendido, caida>>
    BY <1>1 DEF TerminarPedido, BuscarEnBlock, BuscarEnBlockSusp, Leer, LeerSinLock, Marcar,
       LeerConLock, LeerEstado, colas, km
  <2> QED BY <2>1, SinCambioDeCiclo
<1>2. CASE PasarAReadySusp(t)
  <2>1. hilo[t].pid \in Procesos
    BY <1>2, Nombres DEF PasarAReadySusp, Tipado, HilosOK, ConProceso
  <2>2. UNCHANGED temporizador /\ ABlockSuspAReadySusp(hilo[t].pid)
        /\ UNCHANGED <<ready, exec, block, aKM, deKM, suspendido>>
    BY <1>2 DEF PasarAReadySusp, km
  <2>3. \A q \in Procesos : \A x \in {"encolar", "enviar"} :
          (ConTimer(q, x)' <=> ConTimer(q, x)) /\ (UnTimer(q, x)' <=> UnTimer(q, x))
    BY <2>2 DEF ConTimer, UnTimer
  <2> QED BY <2>1, <2>2, <2>3, OrdenadoASuspReady
<1>3. CASE PasarAReady(t)
  <2> DEFINE p == hilo[t].pid
  <2>1. p \in Procesos
    BY <1>3, Nombres DEF PasarAReady, Tipado, HilosOK, ConProceso
  <2>2. /\ caida' <=> p \notin block
        /\ block' = block \ {p}
        /\ ready' = IF p \in block THEN ready \cup {p} ELSE ready
        /\ UNCHANGED <<exec, blockSusp, readySusp, temporizador, aKM, deKM, suspendido>>
    <3>1. caida' <=> p \notin block BY <1>3, Zenon DEF PasarAReady
    <3> QED BY <1>3, <3>1 DEF PasarAReady, km
  <2> HIDE DEF p
  <2>3. ASSUME p \in block, NEW q \in Procesos, Ciclo(q) PROVE Ciclo(q)'
    <3>1. SinDobles(q)' BY <2>2, <2>3
      DEF Ciclo, SinDobles, UnTimer, SinRepetir, Suspension, Desuspendido
    <3>2. EnUnLugar(q)' BY <2>2, <2>3 DEF Ciclo, EnUnLugar, UnoSolo, ConTimer
    <3>3. EnUnaEtapa(q)' BY <2>2, <2>3
      DEF Ciclo, EnUnaEtapa, UnoSolo, ConTimer, Una, Suspension, Desuspendido
    <3> QED BY <3>1, <3>2, <3>3 DEF Ciclo
  <2>4. p \in block => \A q \in Procesos : Ciclo(q)'
    BY <2>3 DEF Ordenado
  <2>5. CASE p \in block
    BY <2>2, <2>4, <2>5, CicloDaMemoriaPrima DEF Ordenado
  <2>6. CASE p \notin block
    BY <2>2, <2>6 DEF Ordenado, MemoriaPresente
  <2> QED BY <2>5, <2>6
<1> QED BY <1>1, <1>2, <1>3 DEF Desbloquear

LEMMA OrdenadoSolicitar ==
  ASSUME Tipado, TypeOK', Ordenado, ~caida, NEW h \in Hilos, Solicitar(h)
  PROVE  Ordenado'
<1>1. CASE ElegirSuspendido(h)
  <2>1. UNCHANGED <<colas, temporizador, aKM, deKM, suspendido, caida>>
    BY <1>1 DEF ElegirSuspendido, colas, km
  <2> QED BY <2>1, SinCambioDeCiclo
<1>2. CASE OrdenarSuspReady(h)
  <2>1. PICK f \in Bijection(DOMAIN readySusp, DOMAIN readySusp) :
             readySusp' = [k \in DOMAIN readySusp |-> readySusp[f[k]]]
    BY <1>2 DEF OrdenarSuspReady
  <2>2. readySusp \in Seq(Procesos) /\ IsInjective(readySusp)
    BY DEF Tipado, TypeOK, Ordenado
  <2>3. Range(readySusp') = Range(readySusp) /\ IsInjective(readySusp')
    BY <2>1, <2>2, Reordenar
  <2>4. UNCHANGED <<ready, exec, block, blockSusp, temporizador, aKM, deKM, suspendido, caida>>
    BY <1>2 DEF OrdenarSuspReady, km
  <2>5. ASSUME NEW q \in Procesos, Ciclo(q) PROVE Ciclo(q)'
    <3>1. SinDobles(q)' BY <2>4, <2>5
      DEF Ciclo, SinDobles, UnTimer, SinRepetir, Suspension, Desuspendido
    <3>2. EnUnLugar(q)' BY <2>3, <2>4, <2>5 DEF Ciclo, EnUnLugar, UnoSolo, ConTimer
    <3>3. EnUnaEtapa(q)' BY <2>3, <2>4, <2>5
      DEF Ciclo, EnUnaEtapa, UnoSolo, ConTimer, Una, Suspension, Desuspendido
    <3> QED BY <3>1, <3>2, <3>3 DEF Ciclo
  <2> QED BY <2>3, <2>4, <2>5 DEF Ordenado, MemoriaPresente
<1>3. CASE PedirElegido(h)
  <2>1. hilo[h].pid \in Procesos /\ AKM("DESUSPENSION", hilo[h].pid)
    BY <1>3 DEF PedirElegido, Tipado, HilosOK, ConProceso
  <2>2. \A q \in Procesos :
          /\ Una(aKM, Suspension(q))' <=> Una(aKM, Suspension(q))
          /\ SinRepetir(aKM, Suspension(q)) => SinRepetir(aKM, Suspension(q))'
    BY <2>1, OtroPedido
  <2>3. UNCHANGED <<caida, suspendido, deKM, block, blockSusp, readySusp, ready, exec,
                    temporizador>>
    BY <1>3 DEF PedirElegido, colas
  <2>4. ASSUME NEW q \in Procesos, Ciclo(q) PROVE Ciclo(q)'
    <3>1. SinDobles(q)' BY <2>2, <2>3, <2>4 DEF Ciclo, SinDobles, UnTimer, SinRepetir, Desuspendido
    <3>2. EnUnLugar(q)' BY <2>3, <2>4 DEF Ciclo, EnUnLugar, UnoSolo, ConTimer
    <3>3. EnUnaEtapa(q)' BY <2>2, <2>3, <2>4 DEF Ciclo, EnUnaEtapa, UnoSolo, ConTimer, Una, Desuspendido
    <3> QED BY <3>1, <3>2, <3>3 DEF Ciclo
  <2> QED BY <2>3, <2>4 DEF Ordenado, MemoriaPresente
<1> QED BY <1>1, <1>2, <1>3 DEF Solicitar

\* The answers that do not bring a process back do not count.
LEMMA OrdenadoAviso ==
  ASSUME Ordenado, UNCHANGED <<ready, exec, block, blockSusp, readySusp, temporizador, aKM, suspendido,
                               caida>>,
         \A q \in Procesos :
           /\ Una(deKM', Desuspendido(q)) <=> Una(deKM, Desuspendido(q))
           /\ SinRepetir(deKM, Desuspendido(q)) => SinRepetir(deKM', Desuspendido(q))
  PROVE  Ordenado'
<1>1. ASSUME NEW q \in Procesos, Ciclo(q) PROVE Ciclo(q)'
  <2>1. SinDobles(q)' BY <1>1 DEF Ciclo, SinDobles, UnTimer, SinRepetir, Suspension, Desuspendido
  <2>2. EnUnLugar(q)' BY <1>1 DEF Ciclo, EnUnLugar, UnoSolo, ConTimer
  <2>3. EnUnaEtapa(q)' BY <1>1 DEF Ciclo, EnUnaEtapa, UnoSolo, ConTimer, Una, Suspension, Desuspendido
  <2> QED BY <2>1, <2>2, <2>3 DEF Ciclo
<1> QED BY <1>1 DEF Ordenado, MemoriaPresente

LEMMA OrdenadoAumentar ==
  ASSUME Tipado, Ordenado, Aumentar
  PROVE  Ordenado'
<1> DEFINE m == [op |-> "AUMENTO", pid |-> Ninguno]
<1>1. deKM \in Seq(AvisoKM) /\ deKM' = Append(deKM, m) /\ m \in AvisoKM
      /\ \A q \in Procesos : m # Desuspendido(q)
  BY Mensajes DEF Tipado, Aumentar, AvisoKM, Desuspendido
<1> HIDE DEF m
<1>2. \A q \in Procesos :
         /\ Una(deKM', Desuspendido(q)) <=> Una(deKM, Desuspendido(q))
         /\ SinRepetir(deKM, Desuspendido(q)) => SinRepetir(deKM', Desuspendido(q))
  BY <1>1, MensajeEnviado
<1>3. UNCHANGED <<ready, exec, block, blockSusp, readySusp, temporizador, aKM, suspendido, caida>>
  BY DEF Aumentar, colas
<1> QED BY <1>2, <1>3, OrdenadoAviso

\* The listener: DESUSPENSION_OK takes the PCB out of READY_SUSP, or the kernel
\* falls; the other answers move no PCB.
LEMMA OrdenadoRecibir ==
  ASSUME Tipado, TypeOK', Ordenado, ~caida, RecibirDeKM
  PROVE  Ordenado'
<1> DEFINE m == Head(deKM)
           p == m.pid
<1>1. /\ deKM \in Seq(AvisoKM) /\ deKM # <<>> /\ deKM' = Tail(deKM) /\ m \in AvisoKM
      /\ UNCHANGED <<exec, block, blockSusp, temporizador, aKM, suspendido>>
  BY Mensajes DEF Tipado, RecibirDeKM
<1>2. ASSUME NEW q \in Procesos
      PROVE  /\ SinRepetir(deKM, Desuspendido(q)) => SinRepetir(deKM', Desuspendido(q))
             /\ m # Desuspendido(q) => (Una(deKM', Desuspendido(q)) <=> Una(deKM, Desuspendido(q)))
             /\ m = Desuspendido(q) => Una(deKM, Desuspendido(q))
             /\ m = Desuspendido(q) /\ SinRepetir(deKM, Desuspendido(q))
                  => ~Una(deKM', Desuspendido(q))
  BY <1>1, MensajeRecibido
<1>3. CASE m.op # "DESUSPENSION_OK"
  <2>1. UNCHANGED <<ready, readySusp, caida>> /\ \A q \in Procesos : m # Desuspendido(q)
    BY <1>3 DEF RecibirDeKM, Desuspendido
  <2> QED BY <1>1, <1>2, <2>1, OrdenadoAviso
<1>4. CASE /\ m.op = "DESUSPENSION_OK" /\ caida' = TRUE /\ UNCHANGED <<ready, readySusp>>
  BY <1>1, <1>4 DEF Ordenado, MemoriaPresente
<1>5. ASSUME m.op = "DESUSPENSION_OK", NEW i \in DOMAIN readySusp, readySusp[i] = p,
             readySusp' = RemoveAt(readySusp, i), ready' = ready \cup {p}, UNCHANGED caida
      PROVE  Ordenado'
  <2>1. readySusp \in Seq(Procesos) /\ IsInjective(readySusp)
    BY DEF Tipado, TypeOK, Ordenado
  <2>2. /\ p \in Procesos /\ p \in Range(readySusp) /\ IsInjective(readySusp')
        /\ Range(readySusp') = Range(readySusp) \ {p}
    <3> HIDE DEF p
    <3>1. /\ IsInjective(RemoveAt(readySusp, i))
          /\ Range(RemoveAt(readySusp, i)) = Range(readySusp) \ {readySusp[i]}
      BY <2>1, SacarDelMedio
    <3>2. readySusp[i] \in Procesos /\ readySusp[i] \in Range(readySusp)
      BY <2>1 DEF Range
    <3> QED BY <1>5, <3>1, <3>2
  <2>3. \A q \in Procesos : m = Desuspendido(q) <=> q = p
    BY <1>1, <1>5 DEF Desuspendido, AvisoKM
  <2> HIDE DEF p
  <2>4. ASSUME NEW q \in Procesos, Ciclo(q) PROVE Ciclo(q)'
    <3> HIDE DEF m
    <3>1. SinRepetir(deKM, Desuspendido(q)) /\ (q = p => q \notin blockSusp)
      BY <2>2, <2>4 DEF Ciclo, SinDobles, EnUnLugar, UnoSolo
    <3>2. /\ SinRepetir(deKM', Desuspendido(q))
          /\ Una(deKM', Desuspendido(q)) <=> Una(deKM, Desuspendido(q)) /\ q # p
          /\ q = p => Una(deKM, Desuspendido(q))
      BY <1>2, <2>3, <3>1
    <3>3. SinDobles(q)' BY <1>1, <2>4, <3>2
      DEF Ciclo, SinDobles, UnTimer, SinRepetir, Suspension, Desuspendido
    <3>4. EnUnLugar(q)' BY <1>1, <1>5, <2>2, <2>4 DEF Ciclo, EnUnLugar, UnoSolo, ConTimer
    <3>5. EnUnaEtapa(q)' BY <1>1, <1>5, <2>2, <2>4, <3>1, <3>2
      DEF Ciclo, EnUnaEtapa, UnoSolo, ConTimer, Una, Suspension, Desuspendido
    <3> QED BY <3>3, <3>4, <3>5 DEF Ciclo
  <2>5. \A q \in Procesos : Ciclo(q)'
    BY <2>4 DEF Ordenado
  <2> QED BY <2>2, <2>5, CicloDaMemoriaPrima DEF Ordenado
<1> QED BY <1>3, <1>4, <1>5 DEF RecibirDeKM

\* kernel_memory: to swap with SUSPENSION, back to memory with DESUSPENSION.
LEMMA OrdenadoAtender ==
  ASSUME Tipado, TypeOK', Ordenado, ~caida, AtenderPedidoKM
  PROVE  Ordenado'
<1> DEFINE m == Head(aKM)
           p == m.pid
<1>1. /\ aKM \in Seq(PedidoKM) /\ aKM # <<>> /\ aKM' = Tail(aKM) /\ m \in PedidoKM
      /\ p \in Procesos /\ deKM \in Seq(AvisoKM) /\ suspendido \in [Procesos -> BOOLEAN]
      /\ UNCHANGED <<ready, exec, block, blockSusp, readySusp, temporizador, caida>>
  <2>1. /\ aKM # <<>> /\ aKM' = Tail(aKM)
        /\ UNCHANGED <<ready, exec, block, blockSusp, readySusp, temporizador, caida>>
    BY DEF AtenderPedidoKM, colas
  <2>2. aKM \in Seq(PedidoKM) /\ deKM \in Seq(AvisoKM)
    BY Mensajes DEF Tipado
  <2>3. m \in PedidoKM
    BY <2>1, <2>2
  <2>4. suspendido \in [Procesos -> BOOLEAN]
    BY DEF Tipado, TypeOK
  <2> HIDE DEF m
  <2>5. m.pid \in Procesos
    BY <2>3 DEF PedidoKM
  <2> QED BY <2>1, <2>2, <2>3, <2>4, <2>5
<1>2. ASSUME NEW q \in Procesos
      PROVE  /\ SinRepetir(aKM, Suspension(q)) => SinRepetir(aKM', Suspension(q))
             /\ m # Suspension(q) => (Una(aKM', Suspension(q)) <=> Una(aKM, Suspension(q)))
             /\ m = Suspension(q) => Una(aKM, Suspension(q))
             /\ m = Suspension(q) /\ SinRepetir(aKM, Suspension(q))
                  => ~Una(aKM', Suspension(q))
  BY <1>1, MensajeRecibido
<1>3. \A q \in Procesos : Ciclo(q)
  BY DEF Ordenado
<1>4. m.op = "SUSPENSION" => m = Suspension(p) /\ Una(aKM, Suspension(p)) /\ ~suspendido[p]
  <2>1. m.op = "SUSPENSION" => m = Suspension(p) BY <1>1 DEF PedidoKM, Suspension
  <2> QED BY <1>1, <1>2, <1>3, <2>1 DEF Ciclo, EnUnaEtapa, UnoSolo
<1>5. \A q \in Procesos : m = Suspension(q) <=> m.op = "SUSPENSION" /\ q = p
  BY <1>1 DEF PedidoKM, Suspension
<1>6. CASE m.op = "SUSPENSION"
  <2>1. /\ suspendido' = [suspendido EXCEPT ![p] = TRUE]
        /\ deKM' = Append(deKM, [op |-> "SUSPENSION_OK", pid |-> p])
    BY <1>1, <1>4, <1>6 DEF AtenderPedidoKM
  <2>2. /\ [op |-> "SUSPENSION_OK", pid |-> p] \in AvisoKM
        /\ \A q \in Procesos : [op |-> "SUSPENSION_OK", pid |-> p] # Desuspendido(q)
    BY <1>1 DEF AvisoKM, Desuspendido
  <2>3. ASSUME NEW q \in Procesos
        PROVE  /\ Una(deKM', Desuspendido(q)) <=> Una(deKM, Desuspendido(q))
               /\ SinRepetir(deKM, Desuspendido(q)) => SinRepetir(deKM', Desuspendido(q))
    BY <1>1, <2>1, <2>2, MensajeEnviado
  <2>4. \A q \in Procesos : suspendido'[q] = (suspendido[q] \/ q = p)
    BY <1>1, <2>1
  <2> HIDE DEF p
  <2>5. ASSUME NEW q \in Procesos PROVE Ciclo(q)'
    <3> HIDE DEF m
    <3>1. Ciclo(q) BY <1>3
    <3>2. SinRepetir(aKM, Suspension(q)) BY <3>1 DEF Ciclo, SinDobles
    <3>3. /\ SinRepetir(aKM', Suspension(q))
          /\ Una(aKM', Suspension(q)) <=> Una(aKM, Suspension(q)) /\ q # p
      BY <1>2, <1>5, <1>6, <3>2
    <3>4. SinDobles(q)' BY <1>1, <2>3, <3>1, <3>3
      DEF Ciclo, SinDobles, UnTimer, SinRepetir, Suspension, Desuspendido
    <3>5. EnUnLugar(q)' BY <1>1, <3>1 DEF Ciclo, EnUnLugar, UnoSolo, ConTimer
    <3>6. EnUnaEtapa(q)' BY <1>1, <1>4, <1>6, <2>3, <2>4, <3>1, <3>3
      DEF Ciclo, EnUnaEtapa, UnoSolo, ConTimer, Una, Suspension, Desuspendido
    <3> QED BY <3>4, <3>5, <3>6 DEF Ciclo
  <2> QED BY <1>1, <2>5, CicloDaMemoriaPrima DEF Ordenado
<1>7. CASE m.op # "SUSPENSION" /\ suspendido[p] /\ UNCHANGED <<suspendido, deKM>>
  <2>1. ASSUME NEW q \in Procesos PROVE Ciclo(q)'
    <3> HIDE DEF m, p
    <3>1. Ciclo(q) BY <1>3
    <3>2. /\ SinRepetir(aKM', Suspension(q))
          /\ Una(aKM', Suspension(q)) <=> Una(aKM, Suspension(q))
      BY <1>2, <1>5, <1>7, <3>1 DEF Ciclo, SinDobles
    <3>3. SinDobles(q)' BY <1>1, <1>7, <3>1, <3>2
      DEF Ciclo, SinDobles, UnTimer, SinRepetir, Suspension, Desuspendido
    <3>4. EnUnLugar(q)' BY <1>1, <3>1 DEF Ciclo, EnUnLugar, UnoSolo, ConTimer
    <3>5. EnUnaEtapa(q)' BY <1>1, <1>7, <3>1, <3>2
      DEF Ciclo, EnUnaEtapa, UnoSolo, ConTimer, Una, Suspension, Desuspendido
    <3> QED BY <3>3, <3>4, <3>5 DEF Ciclo
  <2> QED BY <1>1, <2>1, CicloDaMemoriaPrima DEF Ordenado
<1>8. CASE m.op # "SUSPENSION" /\ ~suspendido[p]
  <2>1. UNCHANGED <<suspendido, deKM>>
    BY <1>8 DEF AtenderPedidoKM
  <2>2. ASSUME NEW q \in Procesos PROVE Ciclo(q)'
    <3> HIDE DEF m, p
    <3>1. Ciclo(q) BY <1>3
    <3>2. /\ SinRepetir(aKM', Suspension(q))
          /\ Una(aKM', Suspension(q)) <=> Una(aKM, Suspension(q))
      BY <1>2, <1>5, <1>8, <3>1 DEF Ciclo, SinDobles
    <3>3. SinDobles(q)' BY <1>1, <2>1, <3>1, <3>2
      DEF Ciclo, SinDobles, UnTimer, SinRepetir, Suspension, Desuspendido
    <3>4. EnUnLugar(q)' BY <1>1, <3>1 DEF Ciclo, EnUnLugar, UnoSolo, ConTimer
    <3>5. EnUnaEtapa(q)' BY <1>1, <2>1, <3>1, <3>2
      DEF Ciclo, EnUnaEtapa, UnoSolo, ConTimer, Una, Suspension, Desuspendido
    <3> QED BY <3>3, <3>4, <3>5 DEF Ciclo
  <2> QED BY <1>1, <2>2, CicloDaMemoriaPrima DEF Ordenado
<1>9. CASE m.op # "SUSPENSION" /\ suspendido[p] /\ ~UNCHANGED <<suspendido, deKM>>
  <2>1. /\ suspendido' = [suspendido EXCEPT ![p] = FALSE]
        /\ deKM' = Append(deKM, Desuspendido(p))
    BY <1>1, <1>9 DEF AtenderPedidoKM, Desuspendido
  <2>2. /\ Desuspendido(p) \in AvisoKM
        /\ \A q \in Procesos : Desuspendido(p) = Desuspendido(q) <=> q = p
    BY <1>1 DEF AvisoKM, Desuspendido
  <2>3. \A q \in Procesos : suspendido'[q] = (suspendido[q] /\ q # p)
    BY <1>1, <2>1
  <2> HIDE DEF p
  <2>4. ASSUME NEW q \in Procesos PROVE Ciclo(q)'
    <3> HIDE DEF m
    <3>1. Ciclo(q) BY <1>3
    <3>2. /\ SinRepetir(aKM', Suspension(q))
          /\ Una(aKM', Suspension(q)) <=> Una(aKM, Suspension(q))
      BY <1>2, <1>5, <1>9, <3>1 DEF Ciclo, SinDobles
    <3>3. q = p => ~Una(deKM, Desuspendido(q))
      BY <1>9, <3>1 DEF Ciclo, EnUnaEtapa, UnoSolo
    <3>4. SinRepetir(deKM, Desuspendido(q)) BY <3>1 DEF Ciclo, SinDobles
    <3>5. /\ SinRepetir(deKM', Desuspendido(q))
          /\ Una(deKM', Desuspendido(q)) <=> Una(deKM, Desuspendido(q)) \/ q = p
      BY <1>1, <2>1, <2>2, <3>3, <3>4, MensajeEnviado
    <3>6. SinDobles(q)' BY <1>1, <3>1, <3>2, <3>5
      DEF Ciclo, SinDobles, UnTimer, SinRepetir, Suspension, Desuspendido
    <3>7. EnUnLugar(q)' BY <1>1, <3>1 DEF Ciclo, EnUnLugar, UnoSolo, ConTimer
    <3>8. EnUnaEtapa(q)' BY <1>1, <1>9, <2>3, <3>1, <3>2, <3>5
      DEF Ciclo, EnUnaEtapa, UnoSolo, ConTimer, Una, Suspension, Desuspendido
    <3> QED BY <3>6, <3>7, <3>8 DEF Ciclo
  <2> QED BY <1>1, <2>4, CicloDaMemoriaPrima DEF Ordenado
<1> QED BY <1>6, <1>7, <1>8, <1>9

LEMMA PasoOrdenado ==
  ASSUME Tipado, Ordenado, [Next]_vars
  PROVE  Ordenado'
<1>1. TypeOK'
  BY PasoTypeOK
<1>2. CASE UNCHANGED vars
  BY <1>2, SinCambioDeCiclo DEF vars, km
<1>3. CASE Next
  <2>1. ~caida
    BY <1>3 DEF Next
  <2> QED BY <1>1, <1>3, <2>1, OrdenadoEjecutar, OrdenadoBloquear, OrdenadoTemporizar,
     OrdenadoDesbloquear, OrdenadoSolicitar, OrdenadoRecibir, OrdenadoAtender, OrdenadoAumentar
     DEF Next
<1> QED BY <1>2, <1>3

LEMMA InicioOrdenado ==
  ASSUME Init
  PROVE  Ordenado
<1>1. /\ \A p \in Procesos, i \in Bloqueo : temporizador[p][i] = "no"
      /\ aKM = <<>> /\ deKM = <<>> /\ readySusp = <<>> /\ \A p \in Procesos : ~suspendido[p]
      /\ ready = Procesos /\ exec = {} /\ block = {} /\ blockSusp = {}
  BY DEF Init
<1>2. DOMAIN aKM = {} /\ DOMAIN deKM = {} /\ Range(readySusp) = {} /\ IsInjective(readySusp)
  BY <1>1 DEF Range, IsInjective
<1>3. ASSUME NEW p \in Procesos PROVE Ciclo(p)
  <2>1. SinDobles(p) BY <1>1, <1>2 DEF SinDobles, UnTimer, SinRepetir
  <2>2. EnUnLugar(p) BY <1>1, <1>2 DEF EnUnLugar, UnoSolo, ConTimer
  <2>3. EnUnaEtapa(p) BY <1>1, <1>2 DEF EnUnaEtapa, UnoSolo, ConTimer, Una
  <2> QED BY <2>1, <2>2, <2>3 DEF Ciclo
<1> QED BY <1>1, <1>2, <1>3 DEF Ordenado, MemoriaPresente

LEMMA SiempreOrdenado == Spec => [](Tipado /\ Ordenado)
<1>1. Tipado /\ Ordenado /\ [Next]_vars => Tipado' /\ Ordenado'
  BY PasoTypeOK, PasoHilosOK, PasoUsuariosOK, PasoTemporizadoresOK, PasoOrdenado DEF Tipado
<1> QED BY <1>1, InicioTipado, InicioOrdenado, PTL DEF Spec

\* A process that is ready or running has its memory loaded.
THEOREM LaMemoriaEstaPresente == Spec => []MemoriaPresente
<1>1. Tipado /\ Ordenado => MemoriaPresente
  BY DEF Ordenado
<1> QED BY <1>1, SiempreOrdenado, PTL

\* A PCB is in one queue, once, or in the hands of one timer, unless the kernel fell.
THEOREM UnaColaPorPCB == Spec => []CadaPCBEnUnaCola
<1>1. ASSUME Tipado, Ordenado PROVE CadaPCBEnUnaCola
  <2> SUFFICES ASSUME NEW p \in Procesos, ~caida
               PROVE  Cardinality({c \in 1 .. 6 :
                        p \in <<ready, exec, block, blockSusp, Range(readySusp), EnMano>>[c]}) = 1
    BY <1>1 DEF CadaPCBEnUnaCola, Ordenado
  <2> DEFINE L == <<ready, exec, block, blockSusp, Range(readySusp), EnMano>>
             C == {c \in 1 .. 6 : p \in L[c]}
  <2>1. EnUnLugar(p) /\ (p \in EnMano <=> ConTimer(p, "encolar"))
    BY <1>1 DEF Ordenado, Ciclo, EnMano, ConTimer
  <2>2. /\ 1 .. 6 = {1, 2, 3, 4, 5, 6}
        /\ L[1] = ready /\ L[2] = exec /\ L[3] = block /\ L[4] = blockSusp
        /\ L[5] = Range(readySusp) /\ L[6] = EnMano
    OBVIOUS
  <2> HIDE DEF L
  <2>3. PICK c \in 1 .. 6 : C = {c}
    <3>1. CASE p \in ready BY <2>1, <2>2, <3>1 DEF EnUnLugar, UnoSolo
    <3>2. CASE p \in exec BY <2>1, <2>2, <3>2 DEF EnUnLugar, UnoSolo
    <3>3. CASE p \in block BY <2>1, <2>2, <3>3 DEF EnUnLugar, UnoSolo
    <3>4. CASE p \in blockSusp BY <2>1, <2>2, <3>4 DEF EnUnLugar, UnoSolo
    <3>5. CASE p \in Range(readySusp) BY <2>1, <2>2, <3>5 DEF EnUnLugar, UnoSolo
    <3>6. CASE p \in EnMano BY <2>1, <2>2, <3>6 DEF EnUnLugar, UnoSolo
    <3> QED BY <2>1, <3>1, <3>2, <3>3, <3>4, <3>5, <3>6 DEF EnUnLugar, UnoSolo
  <2>4. Cardinality({c}) = 1
    BY FS_Singleton
  <2> QED BY <2>3, <2>4 DEF L
<1> QED BY <1>1, SiempreOrdenado, PTL

-----------------------------------------------------------------------------
(* The answers on their way                                                *)

LEMMA EsperanFinito == IsFiniteSet(Procesos \X Bloqueo)
<1> DEFINE I == {1 .. MaxBloqueos[p] : p \in Procesos}
           f == [p \in Procesos |-> 1 .. MaxBloqueos[p]]
<1>1. f \in Surjection(Procesos, I)
  BY DEF Surjection
<1>2. IsFiniteSet(I)
  BY <1>1, MedianoPlazoAssumption, FS_Surjection
<1>3. \A T \in I : IsFiniteSet(T)
  <2> SUFFICES ASSUME NEW p \in Procesos PROVE IsFiniteSet(1 .. MaxBloqueos[p]) OBVIOUS
  <2>1. 1 \in Int /\ MaxBloqueos[p] \in Int BY MedianoPlazoAssumption
  <2> QED BY <2>1, FS_Interval
<1>4. IsFiniteSet(UNION I)
  BY <1>2, <1>3, FS_UNION
<1> QED BY <1>4, MedianoPlazoAssumption, FS_Product DEF Bloqueo

\* The messages of a kind in a socket: one more with a send, one less with a receive.
LEMMA EnCaminoFinito ==
  ASSUME NEW S, NEW s \in Seq(S), NEW o
  PROVE  IsFiniteSet(EnCamino(s, o)) /\ Cardinality(EnCamino(s, o)) \in Nat
<1>1. DOMAIN s = 1 .. Len(s) /\ 1 \in Int /\ Len(s) \in Int
  OBVIOUS
<1>2. IsFiniteSet(DOMAIN s) /\ EnCamino(s, o) \in SUBSET DOMAIN s
  BY <1>1, FS_Interval DEF EnCamino
<1> QED BY <1>2, FS_Subset, FS_CardinalityType

LEMMA EnCaminoEnviar ==
  ASSUME NEW S, NEW s \in Seq(S), NEW e \in S, NEW o
  PROVE  Cardinality(EnCamino(Append(s, e), o)) =
           Cardinality(EnCamino(s, o)) + (IF e.op = o THEN 1 ELSE 0)
<1> DEFINE t == Append(s, e)
           n == Len(s) + 1
<1>1. /\ DOMAIN t = (DOMAIN s) \cup {n} /\ n \notin DOMAIN s /\ t[n] = e
      /\ \A i \in DOMAIN s : t[i] = s[i]
  <2>1. /\ DOMAIN t = 1 .. Len(s) + 1 /\ DOMAIN s = 1 .. Len(s) /\ Len(s) \in Nat
        /\ t[Len(s) + 1] = e /\ \A i \in 1 .. Len(s) : t[i] = s[i]
    OBVIOUS
  <2>2. 1 .. Len(s) + 1 = (1 .. Len(s)) \cup {Len(s) + 1} /\ Len(s) + 1 \notin 1 .. Len(s)
    BY <2>1
  <2> QED BY <2>1, <2>2
<1> HIDE DEF t, n
<1>2. IsFiniteSet(EnCamino(s, o)) /\ Cardinality(EnCamino(s, o)) \in Nat
  BY EnCaminoFinito
<1>3. n \notin EnCamino(s, o)
  BY <1>1 DEF EnCamino
<1>4. CASE e.op = o
  <2>1. EnCamino(t, o) = EnCamino(s, o) \cup {n}
    BY <1>1, <1>4 DEF EnCamino
  <2>2. Cardinality(EnCamino(s, o) \cup {n}) = Cardinality(EnCamino(s, o)) + 1
    BY <1>2, <1>3, FS_AddElement
  <2> QED BY <1>4, <2>1, <2>2 DEF t
<1>5. CASE e.op # o
  <2>1. EnCamino(t, o) = EnCamino(s, o)
    BY <1>1, <1>5 DEF EnCamino
  <2> QED BY <1>2, <1>5, <2>1 DEF t
<1> QED BY <1>4, <1>5

LEMMA EnCaminoRecibir ==
  ASSUME NEW S, NEW s \in Seq(S), s # <<>>, NEW o
  PROVE  Cardinality(EnCamino(s, o)) =
           Cardinality(EnCamino(Tail(s), o)) + (IF Head(s).op = o THEN 1 ELSE 0)
<1> DEFINE t == Tail(s)
           A == EnCamino(s, o) \ {1}
           B == EnCamino(t, o)
           f == [i \in B |-> i + 1]
<1>1. /\ t \in Seq(S) /\ Len(s) \in Nat /\ Len(s) > 0 /\ DOMAIN s = 1 .. Len(s)
      /\ DOMAIN t = 1 .. Len(s) - 1 /\ Head(s) = s[1] /\ 1 \in DOMAIN s
      /\ \A i \in 1 .. Len(s) - 1 : t[i] = s[i + 1]
  OBVIOUS
<1>2. IsFiniteSet(EnCamino(s, o)) /\ Cardinality(EnCamino(s, o)) \in Nat
  BY EnCaminoFinito
<1>3. IsFiniteSet(B) /\ Cardinality(B) \in Nat
  BY <1>1, EnCaminoFinito
<1> HIDE DEF t
<1>4. f \in Bijection(B, A)
  <2>1. \A i \in B : i \in 1 .. Len(s) - 1 /\ s[i + 1].op = o /\ i + 1 \in A
    BY <1>1 DEF EnCamino
  <2>2. ASSUME NEW j \in A PROVE \E i \in B : i + 1 = j
    <3>1. j \in 1 .. Len(s) /\ j # 1 /\ s[j].op = o
      BY <1>1 DEF EnCamino
    <3>2. j - 1 \in 1 .. Len(s) - 1 /\ (j - 1) + 1 = j
      BY <1>1, <3>1
    <3>3. j - 1 \in B
      BY <1>1, <3>1, <3>2 DEF EnCamino
    <3> QED BY <3>2, <3>3
  <2>3. f \in [B -> A] /\ \A j \in A : \E i \in B : f[i] = j
    BY <2>1, <2>2
  <2>4. ASSUME NEW i \in B, NEW j \in B, f[i] = f[j] PROVE i = j
    <3>1. i \in Int /\ j \in Int /\ f[i] = i + 1 /\ f[j] = j + 1
      BY <1>1, <2>1
    <3> QED BY <2>4, <3>1
  <2> HIDE DEF f
  <2> QED BY <2>3, <2>4 DEF Bijection, Injection, Surjection, IsInjective
<1>5. Cardinality(A) = Cardinality(B)
  <2>1. ExistsBijection(B, A)
    BY <1>4 DEF ExistsBijection
  <2> QED BY <1>3, <2>1, FS_Bijection
<1>6. 1 \in EnCamino(s, o) <=> Head(s).op = o
  BY <1>1 DEF EnCamino
<1>7. Cardinality(A) = IF 1 \in EnCamino(s, o) THEN Cardinality(EnCamino(s, o)) - 1
                                              ELSE Cardinality(EnCamino(s, o))
  BY <1>2, FS_RemoveElement
<1> HIDE DEF A, B
<1>8. Cardinality(EnCamino(s, o)) = Cardinality(B) + (IF Head(s).op = o THEN 1 ELSE 0)
  BY <1>2, <1>3, <1>5, <1>6, <1>7
<1> QED BY <1>8 DEF B, t

\* The number of timers that wait, as one of them starts or stops.
LEMMA EsperanCambia ==
  ASSUME NEW p \in Procesos, NEW i \in Bloqueo, NEW g \in FasesTimer, TypeOK, TimerA(p, i, g)
  PROVE  /\ temporizador[p][i] # "confirmar" /\ g # "confirmar" => Esperan' = Esperan
         /\ temporizador[p][i] # "confirmar" /\ g = "confirmar"
              => Cardinality(Esperan') = Cardinality(Esperan) + 1
         /\ temporizador[p][i] = "confirmar" /\ g # "confirmar"
              => Cardinality(Esperan) = Cardinality(Esperan') + 1
         /\ Cardinality(Esperan) \in Nat /\ Cardinality(Esperan') \in Nat
<1> DEFINE x == <<p, i>>
           PB == Procesos \X Bloqueo
<1>1. \A e \in PB : temporizador'[e[1]][e[2]] = IF e = x THEN g ELSE temporizador[e[1]][e[2]]
  <2> SUFFICES ASSUME NEW q \in Procesos, NEW j \in Bloqueo
               PROVE  temporizador'[q][j] = IF <<q, j>> = x THEN g ELSE temporizador[q][j]
    OBVIOUS
  <2> QED BY TimerPone
<1>2. IsFiniteSet(Esperan) /\ IsFiniteSet(Esperan') /\ Cardinality(Esperan) \in Nat
      /\ Cardinality(Esperan') \in Nat
  <2>1. Esperan \in SUBSET PB /\ Esperan' \in SUBSET PB
    BY DEF Esperan
  <2> QED BY <2>1, EsperanFinito, FS_Subset, FS_CardinalityType
<1>3. x \in PB /\ x[1] = p /\ x[2] = i
  OBVIOUS
<1> HIDE DEF x
<1>4. x \in Esperan <=> temporizador[p][i] = "confirmar"
  BY <1>3 DEF Esperan
<1>5. ASSUME temporizador[p][i] # "confirmar", g # "confirmar" PROVE Esperan' = Esperan
  BY <1>1, <1>3, <1>5 DEF Esperan
<1>6. ASSUME temporizador[p][i] # "confirmar", g = "confirmar"
      PROVE  Cardinality(Esperan') = Cardinality(Esperan) + 1
  <2>1. Esperan' = Esperan \cup {x}
    BY <1>1, <1>3, <1>6 DEF Esperan
  <2> QED BY <1>2, <1>4, <1>6, <2>1, FS_AddElement
<1>7. ASSUME temporizador[p][i] = "confirmar", g # "confirmar"
      PROVE  Cardinality(Esperan) = Cardinality(Esperan') + 1
  <2>1. Esperan' = Esperan \ {x}
    BY <1>1, <1>3, <1>7 DEF Esperan
  <2>2. Cardinality(Esperan') = Cardinality(Esperan) - 1
    BY <1>2, <1>4, <1>7, <2>1, FS_RemoveElement
  <2> QED BY <1>2, <2>2
<1> QED BY <1>2, <1>5, <1>6, <1>7

LEMMA PasoRespuestas ==
  ASSUME Tipado, Ordenado, RespuestasAlcanzan, [Next]_vars
  PROVE  RespuestasAlcanzan'
<1> DEFINE Pedidos == Cardinality(EnCamino(aKM, "SUSPENSION"))
           Avisos  == Cardinality(EnCamino(deKM, "SUSPENSION_OK"))
<1>0. /\ aKM \in Seq(PedidoKM) /\ deKM \in Seq(AvisoKM) /\ suspensionOk \in Nat
      /\ Pedidos \in Nat /\ Avisos \in Nat
  <2>1. aKM \in Seq(PedidoKM) /\ deKM \in Seq(AvisoKM) /\ suspensionOk \in Nat
    BY Mensajes DEF Tipado, TypeOK
  <2> QED BY <2>1, EnCaminoFinito
<1>1. RespuestasAlcanzan' <=> Cardinality(Esperan') = suspensionOk' + Pedidos' + Avisos'
  BY DEF RespuestasAlcanzan
<1>2. Cardinality(Esperan) = suspensionOk + Pedidos + Avisos
  BY DEF RespuestasAlcanzan
<1>3. ASSUME UNCHANGED <<temporizador, suspensionOk, aKM, deKM>> PROVE RespuestasAlcanzan'
  BY <1>3 DEF RespuestasAlcanzan, Esperan, EnCamino
<1>4. ASSUME NEW p \in Procesos, NEW t \in Usa[p], Bloquear(p, t) PROVE RespuestasAlcanzan'
  <2>1. PICK n \in Bloqueo : temporizador[p][n] = "no" /\ TimerA(p, n, "duerme")
    BY <1>4, BloquearPone
  <2>2. "duerme" \in FasesTimer BY DEF FasesTimer
  <2>3. Esperan' = Esperan BY <2>1, <2>2, EsperanCambia DEF Tipado
  <2> QED BY <1>4, <2>3 DEF Bloquear, km, RespuestasAlcanzan, EnCamino
<1>5. ASSUME NEW p \in Procesos, NEW i \in Bloqueo, PedirSuspension(p, i)
      PROVE  RespuestasAlcanzan'
  <2>1. /\ temporizador[p][i] = "enviar" /\ TimerA(p, i, "confirmar") /\ "confirmar" \in FasesTimer
        /\ UNCHANGED <<deKM, suspensionOk>> /\ AKM("SUSPENSION", p)
    BY <1>5 DEF PedirSuspension, FasesTimer
  <2>2. Cardinality(Esperan') = Cardinality(Esperan) + 1
    BY <2>1, EsperanCambia DEF Tipado
  <2>3. Pedidos' = Pedidos + 1
    <3> DEFINE m == Suspension(p)
    <3>1. aKM' = Append(aKM, m) /\ m \in PedidoKM /\ m.op = "SUSPENSION"
      BY <2>1, MensajePone DEF Tipado, Suspension
    <3> HIDE DEF m
    <3>2. Cardinality(EnCamino(Append(aKM, m), "SUSPENSION")) = Pedidos + 1
      BY <1>0, <3>1, EnCaminoEnviar
    <3> QED BY <3>1, <3>2 DEF EnCamino
  <2>4. Avisos' = Avisos
    BY <2>1 DEF EnCamino
  <2> HIDE DEF Pedidos, Avisos
  <2> QED BY <1>0, <1>1, <1>2, <2>1, <2>2, <2>3, <2>4
<1>6. ASSUME NEW p \in Procesos, NEW i \in Bloqueo, ConfirmarSuspension(p, i)
      PROVE  RespuestasAlcanzan'
  <2>1. /\ temporizador[p][i] = "confirmar" /\ suspensionOk' = suspensionOk - 1
        /\ UNCHANGED <<aKM, deKM>>
    BY <1>6 DEF ConfirmarSuspension, km
  <2>2. \E g \in FasesTimer : g # "confirmar" /\ TimerA(p, i, g)
    BY <1>6 DEF ConfirmarSuspension, FasesTimer
  <2>3. Cardinality(Esperan) = Cardinality(Esperan') + 1 /\ Cardinality(Esperan') \in Nat
    BY <2>1, <2>2, EsperanCambia DEF Tipado
  <2>4. Pedidos' = Pedidos /\ Avisos' = Avisos
    BY <2>1 DEF EnCamino
  <2> HIDE DEF Pedidos, Avisos
  <2> QED BY <1>0, <1>1, <1>2, <2>1, <2>3, <2>4
<1>7. ASSUME NEW o, NEW p \in Procesos, o = "DESUSPENSION", AKM(o, p), Esperan' = Esperan,
             UNCHANGED <<deKM, suspensionOk>>
      PROVE  RespuestasAlcanzan'
  <2> DEFINE m == [op |-> o, pid |-> p]
  <2>1. aKM' = Append(aKM, m) /\ m \in PedidoKM /\ m.op # "SUSPENSION"
    BY <1>7 DEF AKM, PedidoKM
  <2> HIDE DEF m
  <2>2. Cardinality(EnCamino(Append(aKM, m), "SUSPENSION")) = Pedidos
    BY <1>0, <2>1, EnCaminoEnviar
  <2>3. Pedidos' = Pedidos /\ Avisos' = Avisos
    BY <1>7, <2>1, <2>2 DEF EnCamino
  <2> HIDE DEF Pedidos, Avisos
  <2> QED BY <1>1, <1>2, <1>7, <2>3
<1>8. ASSUME NEW p \in Procesos, NEW i \in Bloqueo, Temporizar(p, i) PROVE RespuestasAlcanzan'
  <2>1. CASE PedirDesuspension(p, i)
    <3>1. /\ temporizador[p][i] = "pedir" /\ TimerA(p, i, "no") /\ "no" \in FasesTimer
          /\ UNCHANGED <<deKM, suspensionOk>> /\ AKM("DESUSPENSION", p)
      BY <2>1 DEF PedirDesuspension, FasesTimer
    <3>2. Esperan' = Esperan
      BY <3>1, EsperanCambia DEF Tipado
    <3> QED BY <1>7, <3>1, <3>2
  <2>2. CASE Vencer(p, i) \/ SacarDeBlock(p, i) \/ EncolarEnBlockSusp(p, i) \/ Diferida(p, i)
    <3>1. /\ UNCHANGED <<aKM, deKM, suspensionOk>> /\ temporizador[p][i] # "confirmar"
          /\ \E g \in FasesTimer : g # "confirmar" /\ TimerA(p, i, g)
      BY <2>2 DEF Vencer, SacarDeBlock, EncolarEnBlockSusp, Diferida, FasesTimer, km
    <3>2. Esperan' = Esperan
      BY <3>1, EsperanCambia DEF Tipado
    <3> QED BY <3>1, <3>2 DEF RespuestasAlcanzan, EnCamino
  <2> QED BY <1>5, <1>6, <1>8, <2>1, <2>2 DEF Temporizar
<1>9. ASSUME NEW h \in Hilos, Solicitar(h) PROVE RespuestasAlcanzan'
  <2>1. CASE PedirElegido(h)
    <3>1. /\ hilo[h].pid \in Procesos /\ AKM("DESUSPENSION", hilo[h].pid)
          /\ UNCHANGED <<deKM, suspensionOk, temporizador>>
      BY <2>1 DEF PedirElegido, Tipado, HilosOK, ConProceso
    <3> QED BY <1>7, <3>1 DEF Esperan
  <2> QED BY <1>3, <1>9, <2>1 DEF Solicitar, OrdenarSuspReady, ElegirSuspendido, km
<1>10. ASSUME NEW t \in Tipos, Desbloquear(t) PROVE RespuestasAlcanzan'
  BY <1>3, <1>10 DEF Desbloquear, TerminarPedido, BuscarEnBlock, BuscarEnBlockSusp, Leer, LeerSinLock,
     Marcar, LeerConLock, LeerEstado, PasarAReady, PasarAReadySusp, km
<1>11. ASSUME RecibirDeKM PROVE RespuestasAlcanzan'
  <2> DEFINE m == Head(deKM)
  <2>1. /\ deKM # <<>> /\ deKM' = Tail(deKM) /\ UNCHANGED <<temporizador, aKM>>
        /\ suspensionOk' = suspensionOk + (IF m.op = "SUSPENSION_OK" THEN 1 ELSE 0)
    BY <1>0, <1>11 DEF RecibirDeKM
  <2> HIDE DEF m
  <2>2. Avisos = Cardinality(EnCamino(Tail(deKM), "SUSPENSION_OK"))
                   + (IF m.op = "SUSPENSION_OK" THEN 1 ELSE 0)
    BY <1>0, <2>1, EnCaminoRecibir DEF m
  <2>3. /\ Avisos' = Cardinality(EnCamino(Tail(deKM), "SUSPENSION_OK")) /\ Pedidos' = Pedidos
        /\ Cardinality(Esperan') = Cardinality(Esperan)
    BY <2>1 DEF EnCamino, Esperan
  <2>4. Avisos' \in Nat
    <3>1. Tail(deKM) \in Seq(AvisoKM) BY <1>0, <2>1
    <3>2. Cardinality(EnCamino(Tail(deKM), "SUSPENSION_OK")) \in Nat BY <3>1, EnCaminoFinito
    <3> QED BY <2>3, <3>2
  <2>5. Avisos = Avisos' + (IF m.op = "SUSPENSION_OK" THEN 1 ELSE 0)
    BY <2>2, <2>3
  <2> HIDE DEF Pedidos, Avisos
  <2>6. CASE m.op = "SUSPENSION_OK"
    BY <1>0, <1>1, <1>2, <2>1, <2>3, <2>4, <2>5, <2>6
  <2>7. CASE m.op # "SUSPENSION_OK"
    BY <1>0, <1>1, <1>2, <2>1, <2>3, <2>4, <2>5, <2>7
  <2> QED BY <2>6, <2>7
<1>12. ASSUME ~caida, AtenderPedidoKM PROVE RespuestasAlcanzan'
  <2> DEFINE m == Head(aKM)
             d == IF m.op = "SUSPENSION" THEN 1 ELSE 0
  <2>1. /\ aKM # <<>> /\ aKM' = Tail(aKM) /\ UNCHANGED <<temporizador, suspensionOk>>
        /\ m \in PedidoKM
    <3>1. aKM # <<>> /\ aKM' = Tail(aKM) /\ UNCHANGED <<temporizador, suspensionOk>>
      BY <1>12 DEF AtenderPedidoKM
    <3> QED BY <1>0, <3>1
  <2>2. m.op = "SUSPENSION" => ~suspendido[m.pid]
    <3>1. m.op = "SUSPENSION" => m = Suspension(m.pid)
      BY <2>1 DEF PedidoKM, Suspension
    <3>2. m = Suspension(m.pid) => Una(aKM, Suspension(m.pid))
      BY <1>0, <2>1, MensajeRecibido
    <3>3. m.pid \in Procesos
      BY <2>1 DEF PedidoKM
    <3> QED BY <1>12, <3>1, <3>2, <3>3 DEF Ordenado, Ciclo, EnUnaEtapa, UnoSolo
  <2>3. Avisos' = Avisos + d
    <3>1. CASE m.op = "SUSPENSION"
      <4> DEFINE a == [op |-> "SUSPENSION_OK", pid |-> m.pid]
      <4>1. deKM' = Append(deKM, a)
        BY <1>12, <2>2, <3>1 DEF AtenderPedidoKM
      <4>2. a \in AvisoKM /\ a.op = "SUSPENSION_OK"
        BY <2>1 DEF PedidoKM, AvisoKM
      <4> HIDE DEF a
      <4>3. Cardinality(EnCamino(Append(deKM, a), "SUSPENSION_OK")) = Avisos + 1
        BY <1>0, <4>2, EnCaminoEnviar
      <4> QED BY <3>1, <4>1, <4>3 DEF EnCamino
    <3>2. CASE m.op # "SUSPENSION"
      <4> DEFINE a == [op |-> "DESUSPENSION_OK", pid |-> m.pid]
      <4>1. UNCHANGED deKM \/ deKM' = Append(deKM, a)
        BY <1>12, <3>2 DEF AtenderPedidoKM
      <4>2. a \in AvisoKM /\ a.op # "SUSPENSION_OK"
        BY <2>1 DEF PedidoKM, AvisoKM
      <4> HIDE DEF a
      <4>3. Cardinality(EnCamino(Append(deKM, a), "SUSPENSION_OK")) = Avisos
        BY <1>0, <4>2, EnCaminoEnviar
      <4>4. Avisos' = Avisos
        BY <4>1, <4>3 DEF EnCamino
      <4> QED BY <1>0, <3>2, <4>4
    <3> QED BY <3>1, <3>2
  <2>4. Pedidos = Pedidos' + d
    <3> HIDE DEF m
    <3>1. Pedidos = Cardinality(EnCamino(Tail(aKM), "SUSPENSION")) + d
      BY <1>0, <2>1, EnCaminoRecibir DEF m
    <3> QED BY <2>1, <3>1 DEF EnCamino
  <2>5. Pedidos' \in Nat /\ Cardinality(Esperan') = Cardinality(Esperan)
    <3>1. Tail(aKM) \in Seq(PedidoKM) BY <1>0, <2>1
    <3>2. Cardinality(EnCamino(Tail(aKM), "SUSPENSION")) \in Nat BY <3>1, EnCaminoFinito
    <3> QED BY <2>1, <3>2 DEF Esperan, EnCamino
  <2>6. d \in Nat OBVIOUS
  <2> HIDE DEF Pedidos, Avisos, d
  <2> QED BY <1>0, <1>1, <1>2, <2>1, <2>3, <2>4, <2>5, <2>6
<1>13. ASSUME Aumentar PROVE RespuestasAlcanzan'
  <2> DEFINE a == [op |-> "AUMENTO", pid |-> Ninguno]
  <2>1. deKM' = Append(deKM, a) /\ UNCHANGED <<aKM, temporizador, suspensionOk>>
    BY <1>13 DEF Aumentar
  <2>2. a \in AvisoKM /\ a.op # "SUSPENSION_OK"
    BY DEF AvisoKM
  <2> HIDE DEF a
  <2>3. Cardinality(EnCamino(Append(deKM, a), "SUSPENSION_OK")) = Avisos
    BY <1>0, <2>2, EnCaminoEnviar
  <2> QED BY <2>1, <2>3 DEF RespuestasAlcanzan, Esperan, EnCamino
<1>14. ASSUME NEW p \in Procesos, Ejecutar(p) PROVE RespuestasAlcanzan'
  BY <1>3, <1>14 DEF Ejecutar, km
<1>15. ASSUME UNCHANGED vars PROVE RespuestasAlcanzan'
  BY <1>3, <1>15 DEF vars, km
<1> HIDE DEF Pedidos, Avisos
<1> QED BY <1>4, <1>8, <1>9, <1>10, <1>11, <1>12, <1>13, <1>14, <1>15 DEF Next

\* No timer waits for an answer that is not coming: there are as many posts and
\* answers on their way as timers that wait.
THEOREM LasRespuestasAlcanzan == Spec => []RespuestasAlcanzan
<1>1. ASSUME Init PROVE RespuestasAlcanzan
  <2>1. \A p \in Procesos, i \in Bloqueo : temporizador[p][i] = "no"
    BY <1>1 DEF Init
  <2>2. Esperan = {}
    BY <2>1 DEF Esperan
  <2>3. /\ EnCamino(aKM, "SUSPENSION") = {} /\ EnCamino(deKM, "SUSPENSION_OK") = {}
        /\ suspensionOk = 0
    BY <1>1 DEF Init, EnCamino
  <2> QED BY <2>2, <2>3, FS_EmptySet DEF RespuestasAlcanzan
<1>2. Tipado /\ Ordenado /\ RespuestasAlcanzan /\ [Next]_vars => RespuestasAlcanzan'
  BY PasoRespuestas
<1> QED BY <1>1, <1>2, SiempreOrdenado, PTL DEF Spec
=============================================================================
