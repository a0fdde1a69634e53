------------------------ MODULE Planificador_proofs ------------------------
(***************************************************************************)
(* The types of Planificador, where the PCBs are, what the semaphore of    *)
(* READY counts and why the threads together implement CortoPlazo: proofs  *)
(* for any processes, CPUs, levels and bounds.                             *)
(***************************************************************************)
EXTENDS Planificador, ColasPCB, FiniteSetTheorems, TLAPS

\* What TypeOK needs to be inductive: a thread that is past its first steps
\* holds a process and a CPU, and the monitor's scan stops at its victim's level.
EnCurso ==
  /\ despacho.fase \in {"asignar", "encolarExec", "enviar", "temporizar"}
       => despacho.pcb \in Procesos /\ despacho.cpu \in CPUs
  /\ \A c \in CPUs : atiende[c].fase \notin {"afuera", "recibir", "quitar"}
       => atiende[c].pid \in Procesos
  /\ monitor.fase \in {"buscar", "ubicar"} => monitor.victima \in Procesos
  /\ monitor.fase \in {"enviar", "comprobar"} => monitor.cpu \in CPUs

TypeInv == TypeOK /\ EnCurso

LEMMA InitTypeInv == Init => TypeInv
<1>1. Init => TypeOK
  BY PlanificadorAssumption DEF Init, TypeOK, TipoColas, TipoCPUs, TipoHilos, TipoReloj,
     TipoSems, TipoOtros, Caidas, Atenciones, Despachos, Monitores, Operaciones, Pid, Nivel,
     DespachoOcioso, MonitorOcioso, FasesDespacho, FasesMonitor, FasesAtencion
<1>2. Init => EnCurso
  BY DEF Init, EnCurso, DespachoOcioso, MonitorOcioso
<1> QED BY <1>1, <1>2 DEF TypeInv

-----------------------------------------------------------------------------
(* The operations that several handlers share.                             *)

\* A handler that goes to phase f keeps its pid, unless it starts over.
LEMMA FaseTipada ==
  ASSUME atiende \in [CPUs -> Atenciones], NEW c \in CPUs, NEW f \in FasesAtencion, Fase(c, f)
  PROVE  /\ atiende' \in [CPUs -> Atenciones]
         /\ atiende'[c].fase = f
         /\ f # "recibir" => atiende'[c].pid = atiende[c].pid
         /\ \A d \in CPUs : d # c => atiende'[d] = atiende[d]
<1>1. AtencionOciosa \in Atenciones
  BY DEF AtencionOciosa, Atenciones, FasesAtencion, Pid, Operaciones
<1>2. [atiende[c] EXCEPT !.fase = f] \in Atenciones
  BY DEF Atenciones
<1>3. AtencionOciosa.fase = "recibir"
  BY DEF AtencionOciosa
<1>4. /\ [atiende[c] EXCEPT !.fase = f].fase = f
      /\ [atiende[c] EXCEPT !.fase = f].pid = atiende[c].pid
  BY DEF Atenciones
<1> QED BY <1>1, <1>2, <1>3, <1>4 DEF Fase

\* A send keeps the sockets typed, whether or not the CPU is still there.
LEMMA EnvioTipado ==
  ASSUME aCPU \in [CPUs -> Seq(Mensaje)], caida \in Caidas,
         NEW c \in CPUs, NEW m \in Mensaje, EnviarACPU(c, m)
  PROVE  aCPU' \in [CPUs -> Seq(Mensaje)] /\ caida' \in Caidas
<1>1. Append(aCPU[c], m) \in Seq(Mensaje)
  OBVIOUS
<1> QED BY <1>1 DEF EnviarACPU, Caidas

\* Pushing a PCB to READY keeps the queues and the semaphores typed.
LEMMA EncolarTipado ==
  ASSUME ready \in [Nivel -> Seq(Procesos)], hayReady \in Nat, readyPrioridad \in Nat,
         NEW p \in Procesos, EncolarReady(p)
  PROVE  ready' \in [Nivel -> Seq(Procesos)] /\ hayReady' \in Nat /\ readyPrioridad' \in Nat
<1>1. ColaDe(p) \in Nivel
  BY PlanificadorAssumption DEF ColaDe, Nivel
<1>2. Append(ready[ColaDe(p)], p) \in Seq(Procesos)
  BY <1>1
<1> QED BY <1>1, <1>2 DEF EncolarReady

LEMMA TipoCrearProceso ==
  ASSUME TypeInv, NEW p \in Procesos, CrearProceso(p)
  PROVE  TypeInv'
<1> USE DEF TypeInv, TypeOK
<1>1. TipoColas' BY DEF CrearProceso, TipoColas
<1>2. TipoCPUs' /\ TipoHilos' /\ TipoReloj' /\ TipoSems' /\ TipoOtros' /\ EnCurso'
  BY DEF CrearProceso, TipoCPUs, TipoHilos, TipoReloj, TipoSems, TipoOtros, EnCurso,
     cpus, hilos, reloj, sems, otros
<1> QED BY <1>1, <1>2

LEMMA TipoSacarDeNew ==
  ASSUME TypeInv, SacarDeNew
  PROVE  TypeInv'
<1> USE DEF TypeInv, TypeOK
<1>1. TipoColas' BY DEF SacarDeNew, TipoColas
<1>2. TipoCPUs' /\ TipoHilos' /\ TipoReloj' /\ TipoSems' /\ TipoOtros' /\ EnCurso'
  BY DEF SacarDeNew, TipoCPUs, TipoHilos, TipoReloj, TipoSems, TipoOtros, EnCurso, cpus,
     hilos, reloj, sems, otros
<1> QED BY <1>1, <1>2

LEMMA TipoSacarDeBlock ==
  ASSUME TypeInv, NEW p \in Procesos, SacarDeBlock(p)
  PROVE  TypeInv'
<1> USE DEF TypeInv, TypeOK
<1>1. TipoColas' BY DEF SacarDeBlock, TipoColas
<1>2. TipoCPUs' /\ TipoHilos' /\ TipoReloj' /\ TipoSems' /\ TipoOtros' /\ EnCurso'
  BY DEF SacarDeBlock, TipoCPUs, TipoHilos, TipoReloj, TipoSems, TipoOtros, EnCurso,
     cpus, hilos, reloj, sems, otros
<1> QED BY <1>1, <1>2

LEMMA TipoEncolarTraslado ==
  ASSUME TypeInv, NEW p \in Procesos, EncolarTraslado(p)
  PROVE  TypeInv'
<1> USE DEF TypeInv, TypeOK
<1>1. EncolarReady(p) BY DEF EncolarTraslado
<1>2. ready' \in [Nivel -> Seq(Procesos)] /\ hayReady' \in Nat /\ readyPrioridad' \in Nat
  BY <1>1, EncolarTipado DEF TipoColas, TipoSems
<1>3. TipoColas' /\ TipoSems' BY <1>2 DEF EncolarTraslado, TipoColas, TipoSems
<1>4. TipoCPUs' /\ TipoHilos' /\ TipoReloj' /\ TipoOtros' /\ EnCurso'
  BY DEF EncolarTraslado, TipoCPUs, TipoHilos, TipoReloj, TipoOtros, EnCurso, cpus,
     hilos, reloj, otros
<1> QED BY <1>1, <1>2, <1>3, <1>4

LEMMA TipoTomarFichas ==
  ASSUME TypeInv, TomarFichas
  PROVE  TypeInv'
<1> USE DEF TypeInv, TypeOK
<1>1. TipoHilos' /\ EnCurso'
  BY DEF TomarFichas, TipoHilos, Despachos, FasesDespacho, EnCurso
<1>2. TipoSems' BY DEF TomarFichas, TipoSems
<1>3. TipoColas' /\ TipoCPUs' /\ TipoReloj' /\ TipoOtros'
  BY DEF TomarFichas, TipoColas, TipoCPUs, TipoReloj, TipoOtros, colas, cpus, reloj,
     otros
<1> QED BY <1>1, <1>2, <1>3

LEMMA TipoElegirProceso ==
  ASSUME TypeInv, ElegirProceso
  PROVE  TypeInv'
<1> USE DEF TypeInv, TypeOK
<1>1. despacho.nivel \in Nivel /\ UltimoNivel \in Nivel
  BY PlanificadorAssumption DEF TipoHilos, Despachos, UltimoNivel, Nivel
<1>2. \A i \in Nivel : ready[i] # <<>> => Head(ready[i]) \in Procesos /\ Tail(ready[i]) \in
      Seq(Procesos)
  BY DEF TipoColas
<1>3. ready' \in [Nivel -> Seq(Procesos)] BY <1>1, <1>2 DEF ElegirProceso, TipoColas
<1>4. despacho.nivel < UltimoNivel => despacho.nivel + 1 \in Nivel
  BY <1>1, PlanificadorAssumption DEF UltimoNivel, Nivel
<1>5. \/ despacho' = [despacho EXCEPT !.nivel = despacho.nivel + 1] /\ despacho.nivel < UltimoNivel
      \/ despacho' = [despacho EXCEPT !.fase = "elegirCPU"]
      \/ \E p \in Procesos : despacho' = [despacho EXCEPT !.fase = "elegirCPU", !.pcb = p]
  BY <1>1, <1>2 DEF ElegirProceso
<1>6. despacho' \in Despachos BY <1>4, <1>5 DEF TipoHilos, Despachos, FasesDespacho, Pid
<1>7. TipoColas' BY <1>3 DEF ElegirProceso, TipoColas
<1>8. TipoHilos' /\ EnCurso' BY <1>5, <1>6 DEF ElegirProceso, TipoHilos, EnCurso, Despachos
<1>9. TipoCPUs' /\ TipoReloj' /\ TipoSems' /\ TipoOtros'
  BY DEF ElegirProceso, TipoCPUs, TipoReloj, TipoSems, TipoOtros, cpus, reloj, sems,
     otros
<1> QED BY <1>1, <1>2, <1>3, <1>4, <1>5, <1>6, <1>7, <1>8, <1>9

LEMMA TipoElegirCPU ==
  ASSUME TypeInv, ElegirCPU
  PROVE  TypeInv'
<1> USE DEF TypeInv, TypeOK
<1>1. despacho.pcb \in Pid /\ Libres \subseteq CPUs
  BY DEF TipoHilos, Despachos, Libres, TipoCPUs
<1>2. perdidos' = perdidos \/ perdidos' = perdidos \cup ({despacho.pcb} \ {Ninguno})
  BY DEF ElegirCPU
<1>3. perdidos' \subseteq Procesos BY <1>1, <1>2 DEF TipoColas, Pid
<1>4. \/ fantasmas' = fantasmas
      \/ fantasmas' = 0
      \/ fantasmas > 0 /\ fantasmas' = fantasmas - 1
  BY DEF ElegirCPU
<1>5. fantasmas' \in Nat BY <1>4 DEF TipoOtros
<1>6. DespachoOcioso \in Despachos /\ DespachoOcioso.fase = "esperar"
  BY PlanificadorAssumption DEF DespachoOcioso, Despachos, FasesDespacho, Pid, Nivel
<1>7. \/ despacho' = DespachoOcioso
      \/ despacho.pcb # Ninguno /\ \E c \in CPUs : despacho' = [despacho EXCEPT !.fase = "asignar", !.cpu = c]
  BY <1>1 DEF ElegirCPU
<1>8. \A c \in CPUs : LET d == [despacho EXCEPT !.fase = "asignar", !.cpu = c] IN d \in
      Despachos /\ d.fase = "asignar" /\ d.pcb = despacho.pcb /\ d.cpu = c
  BY DEF TipoHilos, Despachos, FasesDespacho
<1>9. TipoColas' /\ TipoOtros' BY <1>3, <1>5 DEF ElegirCPU, TipoColas, TipoOtros
<1>10. TipoCPUs' BY <1>1 DEF ElegirCPU, TipoCPUs
<1>11. TipoHilos' BY <1>6, <1>7, <1>8 DEF ElegirCPU, TipoHilos
<1>12. atiende' = atiende /\ monitor' = monitor BY DEF ElegirCPU
<1>13. despacho'.fase = "esperar" \/ (despacho'.fase = "asignar" /\ despacho'.pcb \in
      Procesos /\ despacho'.cpu \in CPUs)
  <2> HIDE DEF TypeInv, TypeOK
  <2>1. CASE despacho' = DespachoOcioso
    BY <2>1, <1>6
  <2>2. ASSUME NEW c \in CPUs, despacho.pcb # Ninguno,
               despacho' = [despacho EXCEPT !.fase = "asignar", !.cpu = c]
        PROVE  despacho'.fase = "asignar" /\ despacho'.pcb = despacho.pcb /\ despacho'.cpu = c
    BY <2>2, <1>8
  <2>3. despacho.pcb # Ninguno => despacho.pcb \in Procesos
    BY <1>1 DEF Pid
  <2> QED BY <1>7, <2>1, <2>2, <2>3
<1>14. EnCurso' BY <1>12, <1>13 DEF EnCurso
<1>15. TipoReloj' /\ TipoSems' BY DEF ElegirCPU, TipoReloj, TipoSems, reloj, sems
<1> QED BY <1>1, <1>2, <1>3, <1>4, <1>5, <1>6, <1>7, <1>8, <1>9, <1>10, <1>11, <1>12, <1>13, <1>14, <1>15

LEMMA TipoAsignarCPU ==
  ASSUME TypeInv, AsignarCPU
  PROVE  TypeInv'
<1> USE DEF TypeInv, TypeOK
<1>1. TipoCPUs' /\ TipoOtros'
  BY DEF AsignarCPU, TipoCPUs, TipoOtros, TipoHilos, Despachos, Caidas
<1>2. TipoHilos' /\ EnCurso' BY DEF AsignarCPU, TipoHilos, EnCurso, Despachos, FasesDespacho
<1>3. TipoColas' /\ TipoReloj' /\ TipoSems'
  BY DEF AsignarCPU, TipoColas, TipoReloj, TipoSems, colas, reloj, sems
<1> QED BY <1>1, <1>2, <1>3

LEMMA TipoEncolarExec ==
  ASSUME TypeInv, EncolarExec
  PROVE  TypeInv'
<1> USE DEF TypeInv, TypeOK
<1>1. TipoColas' BY DEF EncolarExec, TipoColas, EnCurso
<1>2. TipoHilos' /\ EnCurso'
  BY DEF EncolarExec, TipoHilos, EnCurso, Despachos, FasesDespacho
<1>3. TipoCPUs' /\ TipoReloj' /\ TipoSems' /\ TipoOtros'
  BY DEF EncolarExec, TipoCPUs, TipoReloj, TipoSems, TipoOtros, cpus, reloj, sems, otros
<1> QED BY <1>1, <1>2, <1>3

LEMMA TipoEnviarProceso ==
  ASSUME TypeInv, EnviarProceso
  PROVE  TypeInv'
<1> USE DEF TypeInv, TypeOK
<1>1. despacho.cpu \in CPUs /\ [op |-> "PROCESO_A_PROCESAR", pid |-> despacho.pcb] \in
      Mensaje
  BY DEF EnviarProceso, EnCurso, Mensaje, Pid
<1>2. aCPU' \in [CPUs -> Seq(Mensaje)] /\ caida' \in Caidas
  BY <1>1, EnvioTipado DEF EnviarProceso, TipoCPUs, TipoOtros
<1>3. TipoCPUs' /\ TipoOtros' BY <1>2 DEF EnviarProceso, TipoCPUs, TipoOtros
<1>4. TipoHilos' /\ EnCurso'
  BY DEF EnviarProceso, TipoHilos, EnCurso, Despachos, FasesDespacho
<1>5. TipoColas' /\ TipoReloj' /\ TipoSems'
  BY DEF EnviarProceso, TipoColas, TipoReloj, TipoSems, colas, reloj, sems
<1> QED BY <1>1, <1>2, <1>3, <1>4, <1>5

LEMMA TipoTemporizar ==
  ASSUME TypeInv, Temporizar
  PROVE  TypeInv'
<1> USE DEF TypeInv, TypeOK
<1>1. DespachoOcioso \in Despachos
  BY PlanificadorAssumption DEF DespachoOcioso, Despachos, FasesDespacho, Pid, Nivel
<1>2. despacho.cpu \in CPUs BY DEF Temporizar, EnCurso
<1>3. temporizadores[despacho.cpu] \in [Pid -> Nat] BY <1>2 DEF TipoReloj
<1>4. [temporizadores[despacho.cpu] EXCEPT ![Ninguno] = @ + 1] \in [Pid -> Nat]
  BY <1>3 DEF Pid
<1>5. TipoReloj' BY <1>2, <1>4 DEF Temporizar, TipoReloj
<1>6. TipoOtros' BY DEF Temporizar, TipoOtros, Caidas
<1>7. TipoHilos' /\ EnCurso' BY <1>1 DEF Temporizar, TipoHilos, EnCurso, DespachoOcioso
<1>8. TipoColas' /\ TipoCPUs' /\ TipoSems'
  BY DEF Temporizar, TipoColas, TipoCPUs, TipoSems, colas, cpus, sems
<1> QED BY <1>1, <1>2, <1>3, <1>4, <1>5, <1>6, <1>7, <1>8

LEMMA TipoArrancarTemporizador ==
  ASSUME TypeInv, NEW c \in CPUs, ArrancarTemporizador(c)
  PROVE  TypeInv'
<1> USE DEF TypeInv, TypeOK
<1>1. TipoReloj' BY DEF ArrancarTemporizador, TipoReloj, TipoCPUs, Pid
<1>2. TipoColas' /\ TipoCPUs' /\ TipoHilos' /\ TipoSems' /\ TipoOtros' /\ EnCurso'
  BY DEF ArrancarTemporizador, TipoColas, TipoCPUs, TipoHilos, TipoSems, TipoOtros,
     EnCurso, colas, cpus, hilos, sems, otros
<1> QED BY <1>1, <1>2

LEMMA TipoVencerQuantum ==
  ASSUME TypeInv, NEW c \in CPUs, NEW p \in Procesos, VencerQuantum(c, p)
  PROVE  TypeInv'
<1> USE DEF TypeInv, TypeOK
<1>1. temporizadores[c] \in [Pid -> Nat] /\ p \in Pid BY DEF TipoReloj, Pid
<1>2. [temporizadores[c] EXCEPT ![p] = @ - 1] \in [Pid -> Nat] BY <1>1 DEF VencerQuantum
<1>3. avisosQuantum' \in [CPUs -> Nat] BY DEF VencerQuantum, Sumar, TipoReloj
<1>4. TipoReloj' BY <1>2, <1>3 DEF VencerQuantum, TipoReloj
<1>5. TipoColas' /\ TipoCPUs' /\ TipoHilos' /\ TipoSems' /\ TipoOtros' /\ EnCurso'
  BY DEF VencerQuantum, TipoColas, TipoCPUs, TipoHilos, TipoSems, TipoOtros, EnCurso,
     colas, cpus, hilos, sems, otros
<1> QED BY <1>1, <1>2, <1>3, <1>4, <1>5

LEMMA TipoNotificarQuantum ==
  ASSUME TypeInv, NEW c \in CPUs, NotificarQuantum(c)
  PROVE  TypeInv'
<1> USE DEF TypeInv, TypeOK
<1>1. [op |-> "QUANTUM", pid |-> asignado[c]] \in Mensaje
  BY DEF TipoCPUs, Mensaje, Desalojos
<1>2. aCPU' \in [CPUs -> Seq(Mensaje)] /\ caida' \in Caidas
  BY <1>1, EnvioTipado DEF NotificarQuantum, TipoCPUs, TipoOtros
<1>3. TipoCPUs' /\ TipoOtros' BY <1>2 DEF NotificarQuantum, TipoCPUs, TipoOtros
<1>4. TipoReloj' BY DEF NotificarQuantum, TipoReloj
<1>5. TipoColas' /\ TipoHilos' /\ TipoSems' /\ EnCurso'
  BY DEF NotificarQuantum, TipoColas, TipoHilos, TipoSems, EnCurso, colas, hilos, sems
<1> QED BY <1>1, <1>2, <1>3, <1>4, <1>5

LEMMA TipoConectarCPU ==
  ASSUME TypeInv, NEW c \in CPUs, ConectarCPU(c)
  PROVE  TypeInv'
<1> USE DEF TypeInv, TypeOK
<1>1. TipoCPUs' /\ TipoSems' BY DEF ConectarCPU, TipoCPUs, TipoSems
<1>2. Fase(c, "recibir") /\ "recibir" \in FasesAtencion BY DEF ConectarCPU, FasesAtencion
<1>3. TipoHilos' /\ EnCurso' BY <1>2, FaseTipada DEF ConectarCPU, TipoHilos, EnCurso
<1>4. TipoColas' /\ TipoReloj' /\ TipoOtros'
  BY DEF ConectarCPU, TipoColas, TipoReloj, TipoOtros, colas, reloj, otros
<1> QED BY <1>1, <1>2, <1>3, <1>4

LEMMA TipoRecibirProceso ==
  ASSUME TypeInv, NEW c \in CPUs, RecibirProceso(c)
  PROVE  TypeInv'
<1> USE DEF TypeInv, TypeOK
<1>1. Head(aCPU[c]) \in Mensaje /\ Tail(aCPU[c]) \in Seq(Mensaje)
  BY DEF RecibirProceso, TipoCPUs
<1>2. corre' \in [CPUs -> Pid] /\ aCPU' \in [CPUs -> Seq(Mensaje)]
  BY <1>1 DEF RecibirProceso, TipoCPUs, Mensaje
<1>3. TipoCPUs' BY <1>2 DEF RecibirProceso, TipoCPUs
<1>4. TipoColas' /\ TipoHilos' /\ TipoReloj' /\ TipoSems' /\ TipoOtros' /\ EnCurso'
  BY DEF RecibirProceso, TipoColas, TipoHilos, TipoReloj, TipoSems, TipoOtros, EnCurso,
     colas, hilos, reloj, sems, otros
<1> QED BY <1>1, <1>2, <1>3, <1>4

LEMMA TipoAtenderInterrupcion ==
  ASSUME TypeInv, NEW c \in CPUs, AtenderInterrupcion(c)
  PROVE  TypeInv'
<1> USE DEF TypeInv, TypeOK
<1>1. Head(aCPU[c]) \in Mensaje /\ Tail(aCPU[c]) \in Seq(Mensaje)
  BY DEF AtenderInterrupcion, TipoCPUs
<1>2. corre[c] \in Procesos BY DEF AtenderInterrupcion, TipoCPUs, Pid
<1>3. \A op \in Desalojos : [op |-> op, pid |-> corre[c]] \in Pedido BY <1>2 DEF Pedido
<1>4. aKS' = aKS \/ \E m \in Pedido : aKS' = [aKS EXCEPT ![c] = Append(@, m)]
  BY <1>3 DEF AtenderInterrupcion
<1>5. \A m \in Pedido : Append(aKS[c], m) \in Seq(Pedido) BY DEF TipoCPUs
<1>6. aKS' \in [CPUs -> Seq(Pedido)] BY <1>4, <1>5 DEF TipoCPUs
<1>7. corre' \in [CPUs -> Pid] /\ aCPU' \in [CPUs -> Seq(Mensaje)]
  BY <1>1 DEF AtenderInterrupcion, TipoCPUs, Pid
<1>8. TipoCPUs' BY <1>6, <1>7 DEF AtenderInterrupcion, TipoCPUs
<1>9. TipoColas' /\ TipoHilos' /\ TipoReloj' /\ TipoSems' /\ TipoOtros' /\ EnCurso'
  BY DEF AtenderInterrupcion, TipoColas, TipoHilos, TipoReloj, TipoSems, TipoOtros,
     EnCurso, colas, hilos, reloj, sems, otros
<1> QED BY <1>1, <1>2, <1>3, <1>4, <1>5, <1>6, <1>7, <1>8, <1>9

LEMMA TipoPedirSyscall ==
  ASSUME TypeInv, NEW c \in CPUs, NEW op \in Syscalls, PedirSyscall(c, op)
  PROVE  TypeInv'
<1> USE DEF TypeInv, TypeOK
<1>1. corre[c] \in Procesos /\ op \in Llamadas
  BY PlanificadorAssumption DEF PedirSyscall, TipoCPUs, Pid
<1>2. [op |-> op, pid |-> corre[c]] \in Pedido BY <1>1 DEF Pedido
<1>3. TipoCPUs' BY <1>2 DEF PedirSyscall, TipoCPUs, Pid
<1>4. TipoColas' /\ TipoHilos' /\ TipoReloj' /\ TipoSems' /\ TipoOtros' /\ EnCurso'
  BY DEF PedirSyscall, TipoColas, TipoHilos, TipoReloj, TipoSems, TipoOtros, EnCurso,
     colas, hilos, reloj, sems, otros
<1> QED BY <1>1, <1>2, <1>3, <1>4

LEMMA TipoCaerCPU ==
  ASSUME TypeInv, NEW c \in CPUs, CaerCPU(c)
  PROVE  TypeInv'
<1> USE DEF TypeInv, TypeOK
<1>1. corre' \in [CPUs -> Pid] /\ viva' \in [CPUs -> BOOLEAN] /\ aCPU' \in [CPUs ->
      Seq(Mensaje)]
  BY DEF CaerCPU, TipoCPUs, Pid
<1>2. TipoCPUs' /\ TipoOtros' BY <1>1 DEF CaerCPU, TipoCPUs, TipoOtros
<1>3. TipoColas' /\ TipoHilos' /\ TipoReloj' /\ TipoSems' /\ EnCurso'
  BY DEF CaerCPU, TipoColas, TipoHilos, TipoReloj, TipoSems, EnCurso, colas, hilos,
     reloj, sems
<1> QED BY <1>1, <1>2, <1>3

LEMMA TipoRecibirDeCPU ==
  ASSUME TypeInv, NEW c \in CPUs, RecibirDeCPU(c)
  PROVE  TypeInv'
<1> USE DEF TypeInv, TypeOK
<1>1. Head(aKS[c]) \in Pedido /\ Tail(aKS[c]) \in Seq(Pedido) BY DEF RecibirDeCPU, TipoCPUs
<1>2. \A op : PrimeraFase(op) \in {"responder", "liberar", "sacar"} BY DEF PrimeraFase
<1>3. [fase |-> PrimeraFase(Head(aKS[c]).op), pid |-> Head(aKS[c]).pid, op |->
      Head(aKS[c]).op] \in Atenciones /\ Head(aKS[c]).pid \in Procesos
  BY <1>1, <1>2 DEF Atenciones, Pedido, Pid, Operaciones, FasesAtencion
<1>4. TipoHilos' /\ EnCurso' BY <1>2, <1>3 DEF RecibirDeCPU, TipoHilos, EnCurso
<1>5. TipoCPUs' /\ TipoSems' BY <1>1 DEF RecibirDeCPU, TipoCPUs, TipoSems
<1>6. TipoColas' /\ TipoReloj' /\ TipoOtros'
  BY DEF RecibirDeCPU, TipoColas, TipoReloj, TipoOtros, colas, reloj, otros
<1> QED BY <1>1, <1>2, <1>3, <1>4, <1>5, <1>6

LEMMA TipoDetectarDesconexion ==
  ASSUME TypeInv, NEW c \in CPUs, DetectarDesconexion(c)
  PROVE  TypeInv'
<1> USE DEF TypeInv, TypeOK
<1>1. atiende' \in [CPUs -> Atenciones]
  BY DEF DetectarDesconexion, TipoHilos, TipoCPUs, Atenciones, FasesAtencion,
     Operaciones
<1>2. TipoHilos' /\ EnCurso'
  <2>1. /\ atiende'[c].fase = "quitar" \/ atiende'[c].pid \in Procesos
        /\ \A d \in CPUs : d # c => atiende'[d] = atiende[d]
    BY DEF DetectarDesconexion, TipoHilos, TipoCPUs, Pid
  <2> QED BY <1>1, <2>1 DEF DetectarDesconexion, TipoHilos, EnCurso
<1>3. TipoColas' /\ TipoCPUs' /\ TipoReloj' /\ TipoSems' /\ TipoOtros'
  BY DEF DetectarDesconexion, TipoColas, TipoCPUs, TipoReloj, TipoSems, TipoOtros,
     colas, cpus, reloj, sems, otros
<1> QED BY <1>1, <1>2, <1>3

LEMMA TipoLiberarCPU ==
  ASSUME TypeInv, NEW c \in CPUs, LiberarCPU(c)
  PROVE  TypeInv'
<1> USE DEF TypeInv, TypeOK
<1>1. TipoCPUs' /\ TipoSems' BY DEF LiberarCPU, TipoCPUs, TipoSems, Pid
<1>2. \E f \in FasesAtencion : Fase(c, f) /\ f \in {"sacar", "recibir"}
  BY DEF LiberarCPU, FasesAtencion
<1>3. TipoHilos' /\ EnCurso' BY <1>2, FaseTipada DEF LiberarCPU, TipoHilos, EnCurso
<1>4. TipoColas' /\ TipoReloj' /\ TipoOtros'
  BY DEF LiberarCPU, TipoColas, TipoReloj, TipoOtros, colas, reloj, otros
<1> QED BY <1>1, <1>2, <1>3, <1>4

LEMMA TipoSacarDeExec ==
  ASSUME TypeInv, NEW c \in CPUs, SacarDeExec(c)
  PROVE  TypeInv'
<1> USE DEF TypeInv, TypeOK
<1>1. TipoColas' /\ TipoOtros' BY DEF SacarDeExec, TipoColas, TipoOtros, Caidas
<1>2. ASSUME atiende[c].pid \in exec PROVE TipoHilos' /\ EnCurso'
  <2>1. \E f \in {"encolar", "bloquear", "terminar"} : Fase(c, f)
    BY <1>2 DEF SacarDeExec
  <2>2. PICK f \in {"encolar", "bloquear", "terminar"} : Fase(c, f)
    BY <2>1
  <2>3. f \in FasesAtencion /\ f # "recibir" /\ atiende[c].pid \in Procesos
    BY <1>2 DEF FasesAtencion, TipoColas
  <2> QED BY <1>2, <2>2, <2>3, FaseTipada DEF SacarDeExec, TipoHilos, EnCurso
<1>3. ASSUME atiende[c].pid \notin exec PROVE TipoHilos' /\ EnCurso'
  BY <1>3 DEF SacarDeExec, TipoHilos, EnCurso
<1>4. TipoCPUs' /\ TipoReloj' /\ TipoSems'
  BY DEF SacarDeExec, TipoCPUs, TipoReloj, TipoSems, cpus, reloj, sems
<1> QED BY <1>1, <1>2, <1>3, <1>4

LEMMA TipoEncolarDesalojado ==
  ASSUME TypeInv, NEW c \in CPUs, EncolarDesalojado(c)
  PROVE  TypeInv'
<1> USE DEF TypeInv, TypeOK
<1>1. EncolarReady(atiende[c].pid) /\ atiende[c].pid \in Procesos
  BY DEF EncolarDesalojado, EnCurso
<1>2. ready' \in [Nivel -> Seq(Procesos)] /\ hayReady' \in Nat /\ readyPrioridad' \in Nat
  BY <1>1, EncolarTipado DEF TipoColas, TipoSems
<1>3. TipoColas' /\ TipoSems' BY <1>2 DEF EncolarDesalojado, TipoColas, TipoSems
<1>4. Fase(c, "liberar") /\ "liberar" \in FasesAtencion
  BY DEF EncolarDesalojado, FasesAtencion
<1>5. TipoHilos' /\ EnCurso' BY <1>4, FaseTipada DEF EncolarDesalojado, TipoHilos, EnCurso
<1>6. TipoCPUs' /\ TipoReloj' /\ TipoOtros'
  BY DEF EncolarDesalojado, TipoCPUs, TipoReloj, TipoOtros, cpus, reloj, otros
<1> QED BY <1>1, <1>2, <1>3, <1>4, <1>5, <1>6

LEMMA TipoBloquear ==
  ASSUME TypeInv, NEW c \in CPUs, Bloquear(c)
  PROVE  TypeInv'
<1> USE DEF TypeInv, TypeOK
<1>1. TipoColas' BY DEF Bloquear, TipoColas, EnCurso
<1>2. \E f \in FasesAtencion : Fase(c, f) /\ f \in {"quitar", "recibir", "liberar"}
  BY DEF Bloquear, FasesAtencion, FaseFinal
<1>3. TipoHilos' /\ EnCurso' BY <1>2, FaseTipada DEF Bloquear, TipoHilos, EnCurso
<1>4. TipoCPUs' /\ TipoReloj' /\ TipoSems' /\ TipoOtros'
  BY DEF Bloquear, TipoCPUs, TipoReloj, TipoSems, TipoOtros, cpus, reloj, sems, otros
<1> QED BY <1>1, <1>2, <1>3, <1>4

LEMMA TipoTerminar ==
  ASSUME TypeInv, NEW c \in CPUs, Terminar(c)
  PROVE  TypeInv'
<1> USE DEF TypeInv, TypeOK
<1>1. TipoColas' BY DEF Terminar, TipoColas, EnCurso
<1>2. \E f \in FasesAtencion : Fase(c, f) /\ f \in {"quitar", "recibir", "liberar"}
  BY DEF Terminar, FasesAtencion, FaseFinal
<1>3. TipoHilos' /\ EnCurso' BY <1>2, FaseTipada DEF Terminar, TipoHilos, EnCurso
<1>4. TipoCPUs' /\ TipoReloj' /\ TipoSems' /\ TipoOtros'
  BY DEF Terminar, TipoCPUs, TipoReloj, TipoSems, TipoOtros, cpus, reloj, sems, otros
<1> QED BY <1>1, <1>2, <1>3, <1>4

LEMMA TipoResponder ==
  ASSUME TypeInv, NEW c \in CPUs, Responder(c)
  PROVE  TypeInv'
<1> USE DEF TypeInv, TypeOK
<1>1. [op |-> "PROCESO_A_PROCESAR", pid |-> atiende[c].pid] \in Mensaje
  BY DEF Responder, EnCurso, Mensaje, Pid
<1>2. aCPU' \in [CPUs -> Seq(Mensaje)] /\ caida' \in Caidas
  BY <1>1, EnvioTipado DEF Responder, TipoCPUs, TipoOtros
<1>3. TipoCPUs' /\ TipoOtros' BY <1>2 DEF Responder, TipoCPUs, TipoOtros
<1>4. Fase(c, "recibir") /\ "recibir" \in FasesAtencion BY DEF Responder, FasesAtencion
<1>5. TipoHilos' /\ EnCurso' BY <1>4, FaseTipada DEF Responder, TipoHilos, EnCurso
<1>6. TipoColas' /\ TipoReloj' /\ TipoSems'
  BY DEF Responder, TipoColas, TipoReloj, TipoSems, colas, reloj, sems
<1> QED BY <1>1, <1>2, <1>3, <1>4, <1>5, <1>6

LEMMA TipoQuitarCPU ==
  ASSUME TypeInv, NEW c \in CPUs, QuitarCPU(c)
  PROVE  TypeInv'
<1> USE DEF TypeInv, TypeOK
<1>1. TipoCPUs' /\ TipoOtros' BY DEF QuitarCPU, TipoCPUs, TipoOtros
<1>2. Fase(c, "afuera") /\ "afuera" \in FasesAtencion BY DEF QuitarCPU, FasesAtencion
<1>3. TipoHilos' /\ EnCurso' BY <1>2, FaseTipada DEF QuitarCPU, TipoHilos, EnCurso
<1>4. TipoColas' /\ TipoReloj' /\ TipoSems'
  BY DEF QuitarCPU, TipoColas, TipoReloj, TipoSems, colas, reloj, sems
<1> QED BY <1>1, <1>2, <1>3, <1>4

LEMMA TipoEsperarReadyPrioridad ==
  ASSUME TypeInv, EsperarReadyPrioridad
  PROVE  TypeInv'
<1> USE DEF TypeInv, TypeOK
<1>1. TipoHilos' /\ EnCurso'
  BY DEF EsperarReadyPrioridad, MonitorSolo, TipoHilos, EnCurso, Monitores, FasesMonitor
<1>2. TipoSems' BY DEF EsperarReadyPrioridad, TipoSems
<1>3. TipoColas' /\ TipoCPUs' /\ TipoReloj' /\ TipoOtros'
  BY DEF EsperarReadyPrioridad, MonitorSolo, TipoColas, TipoCPUs, TipoReloj, TipoOtros,
     colas, cpus, reloj, otros
<1> QED BY <1>1, <1>2, <1>3

LEMMA TipoMirarCPUs ==
  ASSUME TypeInv, MirarCPUs
  PROVE  TypeInv'
<1> USE DEF TypeInv, TypeOK
<1>1. TipoHilos' /\ EnCurso'
  BY DEF MirarCPUs, MonitorSolo, TipoHilos, EnCurso, Monitores, FasesMonitor
<1>2. TipoColas' /\ TipoCPUs' /\ TipoReloj' /\ TipoSems' /\ TipoOtros'
  BY DEF MirarCPUs, MonitorSolo, TipoColas, TipoCPUs, TipoReloj, TipoSems, TipoOtros,
     colas, cpus, reloj, sems, otros
<1> QED BY <1>1, <1>2

LEMMA TipoElegirVictima ==
  ASSUME TypeInv, ElegirVictima
  PROVE  TypeInv'
<1> USE DEF TypeInv, TypeOK
<1>1. MenorPrioridad \subseteq Procesos BY DEF MenorPrioridad, TipoColas
<1>2. MonitorOcioso \in Monitores
  BY PlanificadorAssumption DEF MonitorOcioso, Monitores, FasesMonitor, Pid, Nivel
<1>3. \/ monitor' = MonitorOcioso
      \/ \E p \in Procesos : monitor' = [monitor EXCEPT !.fase = "buscar", !.victima = p, !.nivel = 0]
  BY <1>1 DEF ElegirVictima
<1>4. 0 \in Nivel /\ "buscar" \in FasesMonitor
  BY PlanificadorAssumption DEF Nivel, FasesMonitor
<1>5. monitor' \in Monitores BY <1>2, <1>3, <1>4 DEF TipoHilos, Monitores, Pid
<1>6. TipoHilos' BY <1>5 DEF ElegirVictima, MonitorSolo, TipoHilos
<1>7. MonitorOcioso.fase = "esperar" BY DEF MonitorOcioso
<1>8. \A p \in Procesos : LET m == [monitor EXCEPT !.fase = "buscar", !.victima = p, !.nivel
      = 0] IN m.fase = "buscar" /\ m.victima = p
  BY DEF TipoHilos, Monitores
<1>9. EnCurso'
  <2>1. despacho' = despacho /\ atiende' = atiende BY DEF ElegirVictima, MonitorSolo
  <2>2. monitor'.fase = "esperar" \/ (monitor'.fase = "buscar" /\ monitor'.victima \in Procesos)
    <3> HIDE DEF TypeInv, TypeOK
    <3> QED BY <1>3, <1>7, <1>8
  <2> QED BY <2>1, <2>2 DEF EnCurso
<1>10. TipoColas' /\ TipoCPUs' /\ TipoReloj' /\ TipoSems' /\ TipoOtros'
  BY DEF ElegirVictima, MonitorSolo, TipoColas, TipoCPUs, TipoReloj, TipoSems,
     TipoOtros, colas, cpus, reloj, sems, otros
<1> QED BY <1>1, <1>2, <1>3, <1>4, <1>5, <1>6, <1>7, <1>8, <1>9, <1>10

LEMMA TipoBuscarMasPrioritario ==
  ASSUME TypeInv, BuscarMasPrioritario
  PROVE  TypeInv'
<1> USE DEF TypeInv, TypeOK
<1>1. monitor.nivel < Prioridad[monitor.victima] => monitor.nivel + 1 \in Nivel
  BY PlanificadorAssumption DEF BuscarMasPrioritario, EnCurso, TipoHilos, Monitores,
     Nivel
<1>2. monitor' \in Monitores
  BY <1>1, PlanificadorAssumption DEF BuscarMasPrioritario, TipoHilos, Monitores,
     FasesMonitor, MonitorOcioso, Pid, Nivel
<1>3. TipoHilos' /\ EnCurso'
  BY <1>2 DEF BuscarMasPrioritario, MonitorSolo, TipoHilos, EnCurso, Monitores,
     MonitorOcioso
<1>4. TipoColas' /\ TipoCPUs' /\ TipoReloj' /\ TipoSems' /\ TipoOtros'
  BY DEF BuscarMasPrioritario, MonitorSolo, TipoColas, TipoCPUs, TipoReloj, TipoSems,
     TipoOtros, colas, cpus, reloj, sems, otros
<1> QED BY <1>1, <1>2, <1>3, <1>4

LEMMA TipoUbicarVictima ==
  ASSUME TypeInv, UbicarVictima
  PROVE  TypeInv'
<1> USE DEF TypeInv, TypeOK
<1>1. ready[monitor.nivel] # <<>> => Head(ready[monitor.nivel]) \in Procesos
  BY DEF TipoColas, TipoHilos, Monitores
<1>2. monitor' \in Monitores
  BY <1>1 DEF UbicarVictima, TipoCPUs, TipoHilos, Monitores, FasesMonitor, Pid
<1>3. TipoHilos' /\ EnCurso'
  BY <1>2 DEF UbicarVictima, MonitorSolo, TipoCPUs, TipoHilos, EnCurso, Monitores
<1>4. TipoOtros' BY DEF UbicarVictima, TipoOtros, Caidas
<1>5. TipoColas' /\ TipoCPUs' /\ TipoReloj' /\ TipoSems'
  BY DEF UbicarVictima, MonitorSolo, TipoColas, TipoCPUs, TipoReloj, TipoSems, colas,
     cpus, reloj, sems
<1> QED BY <1>1, <1>2, <1>3, <1>4, <1>5

LEMMA TipoNotificarPrioridad ==
  ASSUME TypeInv, NotificarPrioridad
  PROVE  TypeInv'
<1> USE DEF TypeInv, TypeOK
<1>1. monitor.cpu \in CPUs /\ [op |-> "PRIORIDAD", pid |-> asignado[monitor.cpu]] \in
      Mensaje
  BY DEF NotificarPrioridad, EnCurso, TipoCPUs, Mensaje, Desalojos
<1>2. aCPU' \in [CPUs -> Seq(Mensaje)] /\ caida' \in Caidas
  BY <1>1, EnvioTipado DEF NotificarPrioridad, TipoCPUs, TipoOtros
<1>3. TipoCPUs' /\ TipoOtros' BY <1>2 DEF NotificarPrioridad, TipoCPUs, TipoOtros
<1>4. TipoHilos' /\ EnCurso'
  BY DEF NotificarPrioridad, MonitorSolo, TipoHilos, EnCurso, Monitores, FasesMonitor
<1>5. TipoColas' /\ TipoReloj' /\ TipoSems'
  BY DEF NotificarPrioridad, MonitorSolo, TipoColas, TipoReloj, TipoSems, colas, reloj,
     sems
<1> QED BY <1>1, <1>2, <1>3, <1>4, <1>5

LEMMA TipoComprobarEnExec ==
  ASSUME TypeInv, ComprobarEnExec
  PROVE  TypeInv'
<1> USE DEF TypeInv, TypeOK
<1>1. MonitorOcioso \in Monitores
  BY PlanificadorAssumption DEF MonitorOcioso, Monitores, FasesMonitor, Pid, Nivel
<1>2. monitor' \in Monitores BY <1>1 DEF ComprobarEnExec, TipoHilos, Monitores, FasesMonitor
<1>3. TipoHilos' /\ EnCurso'
  BY <1>2 DEF ComprobarEnExec, MonitorSolo, TipoHilos, EnCurso, Monitores, MonitorOcioso
<1>4. TipoColas' /\ TipoCPUs' /\ TipoReloj' /\ TipoSems' /\ TipoOtros'
  BY DEF ComprobarEnExec, MonitorSolo, TipoColas, TipoCPUs, TipoReloj, TipoSems,
     TipoOtros, colas, cpus, reloj, sems, otros
<1> QED BY <1>1, <1>2, <1>3, <1>4

LEMMA TipoEsperarDesalojo ==
  ASSUME TypeInv, EsperarDesalojo
  PROVE  TypeInv'
<1> USE DEF TypeInv, TypeOK
<1>1. MonitorOcioso \in Monitores
  BY PlanificadorAssumption DEF MonitorOcioso, Monitores, FasesMonitor, Pid, Nivel
<1>2. TipoHilos' /\ EnCurso'
  BY <1>1 DEF EsperarDesalojo, MonitorSolo, TipoHilos, EnCurso, MonitorOcioso
<1>3. TipoSems' /\ TipoOtros' BY DEF EsperarDesalojo, TipoSems, TipoOtros, Caidas
<1>4. TipoColas' /\ TipoCPUs' /\ TipoReloj'
  BY DEF EsperarDesalojo, MonitorSolo, TipoColas, TipoCPUs, TipoReloj, colas, cpus,
     reloj
<1> QED BY <1>1, <1>2, <1>3, <1>4

\* Every step keeps the types.
LEMMA PasoTypeInv == TypeInv /\ [Next]_vars => TypeInv'
<1> SUFFICES ASSUME TypeInv, [Next]_vars PROVE TypeInv'
  OBVIOUS
<1>1. CASE Trasladar
  BY <1>1, TipoCrearProceso, TipoSacarDeBlock, TipoEncolarTraslado, TipoSacarDeNew
     DEF Trasladar
<1>2. CASE Despachar
  BY <1>2, TipoTomarFichas, TipoElegirProceso, TipoElegirCPU, TipoAsignarCPU,
     TipoEncolarExec, TipoEnviarProceso, TipoTemporizar DEF Despachar
<1>3. CASE Monitorear
  BY <1>3, TipoEsperarReadyPrioridad, TipoMirarCPUs, TipoElegirVictima,
     TipoBuscarMasPrioritario, TipoUbicarVictima, TipoNotificarPrioridad,
     TipoComprobarEnExec, TipoEsperarDesalojo DEF Monitorear
<1>4. ASSUME NEW c \in CPUs, Atender(c) PROVE TypeInv'
  BY <1>4, TipoRecibirDeCPU, TipoDetectarDesconexion, TipoLiberarCPU, TipoSacarDeExec,
     TipoEncolarDesalojado, TipoBloquear, TipoTerminar, TipoResponder, TipoQuitarCPU
     DEF Atender
<1>5. ASSUME NEW c \in CPUs, EjecutarCPU(c) PROVE TypeInv'
  BY <1>5, TipoConectarCPU, TipoRecibirProceso, TipoAtenderInterrupcion, TipoPedirSyscall,
     TipoCaerCPU DEF EjecutarCPU
<1>6. ASSUME NEW c \in CPUs, Reloj(c) PROVE TypeInv'
  BY <1>6, TipoArrancarTemporizador, TipoNotificarQuantum, TipoVencerQuantum DEF Reloj
<1>7. CASE UNCHANGED vars
  BY <1>7 DEF TypeInv, TypeOK, TipoColas, TipoCPUs, TipoHilos, TipoReloj, TipoSems,
     TipoOtros, EnCurso, vars, colas, cpus, hilos, reloj, sems, otros
<1> QED BY <1>1, <1>2, <1>3, <1>4, <1>5, <1>6, <1>7 DEF Next

\* The state of every thread, queue, socket and semaphore stays in its type: in
\* particular no semaphore and no count of timers goes below zero, the scan of
\* the levels stays inside them, and a thread past its lookup holds a process.
THEOREM TipoCorrecto == Spec => []TypeOK
<1>1. Init => TypeInv BY InitTypeInv
<1>2. TypeInv /\ [Next]_vars => TypeInv' BY PasoTypeInv
<1>3. TypeInv => TypeOK BY DEF TypeInv
<1> QED BY <1>1, <1>2, <1>3, PTL DEF Spec

-----------------------------------------------------------------------------
(* Places                                                                  *)

\* p is in place x of kind k: Lugares(p) as a predicate.
EnLugar(p, k, x) ==
  \/ k = "NEW" /\ x = 0 /\ p \in Range(nuevos)
  \/ k = "READY" /\ x \in Nivel /\ p \in Range(ready[x])
  \/ k = "EXEC" /\ x = 0 /\ p \in exec
  \/ k = "BLOCK" /\ x = 0 /\ p \in block
  \/ k = "EXIT" /\ x = 0 /\ p \in terminados
  \/ k = "PERDIDO" /\ x = 0 /\ p \in perdidos
  \/ k = "TRASLADO" /\ x = 0 /\ traslado[p] # "nada"
  \/ k = "DESPACHO" /\ x = 0 /\ p \in EnManoDespacho
  \/ k = "ATENCION" /\ x \in CPUs /\ p \in EnManoAtencion(x)

UnSoloLugar ==
  \A p \in Procesos :
    /\ p \in creados <=> \E k, x : EnLugar(p, k, x)
    /\ \A k, x, k2, x2 : EnLugar(p, k, x) /\ EnLugar(p, k2, x2) => k = k2 /\ x = x2

SinRepetidos == IsInjective(nuevos) /\ \A n \in Nivel : IsInjective(ready[n])

\* Before it chooses, the dispatcher holds no PCB.
DespachoVacio == despacho.fase \in {"esperar", "elegir"} => despacho.pcb = Ninguno

LugaresInv == UnSoloLugar /\ SinRepetidos /\ DespachoVacio

LEMMA LugaresEsEnLugar ==
  ASSUME NEW p \in Procesos
  PROVE  \A l : l \in Lugares(p) <=> \E k, x : l = <<k, x>> /\ EnLugar(p, k, x)
<1>1. \A l : l \in Lugares(p) <=>
        \/ l = <<"NEW", 0>> /\ p \in Range(nuevos)
        \/ \E n \in Nivel : l = <<"READY", n>> /\ p \in Range(ready[n])
        \/ l = <<"EXEC", 0>> /\ p \in exec
        \/ l = <<"BLOCK", 0>> /\ p \in block
        \/ l = <<"EXIT", 0>> /\ p \in terminados
        \/ l = <<"PERDIDO", 0>> /\ p \in perdidos
        \/ l = <<"TRASLADO", 0>> /\ traslado[p] # "nada"
        \/ l = <<"DESPACHO", 0>> /\ p \in EnManoDespacho
        \/ \E c \in CPUs : l = <<"ATENCION", c>> /\ p \in EnManoAtencion(c)
  BY ZenonT(60) DEF Lugares
<1>2. ASSUME NEW l, l \in Lugares(p) PROVE \E k, x : l = <<k, x>> /\ EnLugar(p, k, x)
  BY <1>1, <1>2 DEF EnLugar
<1>3. ASSUME NEW k, NEW x, EnLugar(p, k, x) PROVE <<k, x>> \in Lugares(p)
  BY <1>1, <1>3 DEF EnLugar
<1> QED BY <1>2, <1>3

LEMMA UnSoloLugarBasta == LugaresInv => CadaPCBEnUnLugar
<1> SUFFICES ASSUME LugaresInv PROVE CadaPCBEnUnLugar
  OBVIOUS
<1>1. ASSUME NEW p \in Procesos
      PROVE  /\ p \in creados <=> Lugares(p) # {}
             /\ \A l, m \in Lugares(p) : l = m
  <2>1. p \in creados <=> Lugares(p) # {}
    BY LugaresEsEnLugar DEF LugaresInv, UnSoloLugar
  <2>2. ASSUME NEW l \in Lugares(p), NEW m \in Lugares(p) PROVE l = m
    BY <2>2, LugaresEsEnLugar DEF LugaresInv, UnSoloLugar
  <2> QED BY <2>1, <2>2
<1> QED BY <1>1 DEF CadaPCBEnUnLugar, LugaresInv, SinRepetidos

\* A step takes p from place x of kind k to place x2 of kind k2, and moves nothing else.
Muda(p, k, x, k2, x2) ==
  /\ creados' = creados
  /\ EnLugar(p, k, x)
  /\ \A q \in Procesos : \A l, y :
       EnLugar(q, l, y)' <=> \/ EnLugar(q, l, y) /\ ~(q = p /\ l = k /\ y = x)
                             \/ q = p /\ l = k2 /\ y = x2

LEMMA Mudanza ==
  ASSUME UnSoloLugar, NEW p \in Procesos, NEW k, NEW x, NEW k2, NEW x2, Muda(p, k, x, k2, x2)
  PROVE  UnSoloLugar'
<1> SUFFICES ASSUME NEW q \in Procesos
             PROVE  /\ q \in creados' <=> \E l, y : EnLugar(q, l, y)'
                    /\ \A l, y, l2, y2 : EnLugar(q, l, y)' /\ EnLugar(q, l2, y2)'
                                           => l = l2 /\ y = y2
  BY DEF UnSoloLugar
<1> HIDE DEF EnLugar
<1>1. CASE q = p
  BY <1>1 DEF UnSoloLugar, Muda
<1>2. CASE q # p
  BY <1>2 DEF UnSoloLugar, Muda
<1> QED BY <1>1, <1>2

\* A step that leaves the queues and the hands of the threads alone.
LEMMA SinMudanza ==
  ASSUME LugaresInv, UNCHANGED colas, EnManoDespacho' = EnManoDespacho, DespachoVacio',
         \A c \in CPUs : EnManoAtencion(c)' = EnManoAtencion(c)
  PROVE  LugaresInv'
<1>1. \A q \in Procesos : \A l, y : EnLugar(q, l, y)' <=> EnLugar(q, l, y)
  BY DEF EnLugar, colas
<1>2. UnSoloLugar'
  BY <1>1 DEF LugaresInv, UnSoloLugar, colas
<1>3. SinRepetidos'
  BY DEF LugaresInv, SinRepetidos, colas
<1> QED BY <1>2, <1>3 DEF LugaresInv

LEMMA InitLugares == Init => LugaresInv
<1> SUFFICES ASSUME Init PROVE LugaresInv
  OBVIOUS
<1>1. /\ Range(nuevos) = {} /\ \A n \in Nivel : Range(ready[n]) = {}
      /\ EnManoDespacho = {} /\ \A c \in CPUs : EnManoAtencion(c) = {}
  BY DEF Init, Range, EnManoDespacho, EnManoAtencion, DespachoOcioso
<1>2. UnSoloLugar
  BY <1>1 DEF Init, UnSoloLugar, EnLugar
<1>3. SinRepetidos /\ DespachoVacio
  BY DEF Init, SinRepetidos, IsInjective, DespachoVacio, DespachoOcioso
<1> QED BY <1>2, <1>3 DEF LugaresInv

LEMMA LugaresCrearProceso ==
  ASSUME TypeInv, LugaresInv, NEW p \in Procesos, CrearProceso(p)
  PROVE  LugaresInv'
<1>1. /\ Range(nuevos') = Range(nuevos) \cup {p}
      /\ p \notin Range(nuevos) => IsInjective(nuevos')
  BY AgregarAlFinal DEF CrearProceso, TypeInv, TypeOK, TipoColas, LugaresInv, SinRepetidos
<1>2. \A q \in Procesos : \A l, y :
        EnLugar(q, l, y)' <=> EnLugar(q, l, y) \/ (q = p /\ l = "NEW" /\ y = 0)
  BY <1>1 DEF CrearProceso, EnLugar, EnManoDespacho, EnManoAtencion, hilos
<1>3. \A l, y : ~EnLugar(p, l, y)
  BY DEF CrearProceso, LugaresInv, UnSoloLugar
<1>4. UnSoloLugar'
  <2>1. creados' = creados \cup {p} /\ UnSoloLugar
    BY DEF CrearProceso, LugaresInv
  <2> SUFFICES ASSUME NEW q \in Procesos
               PROVE  /\ q \in creados' <=> \E l, y : EnLugar(q, l, y)'
                      /\ \A l, y, l2, y2 : EnLugar(q, l, y)' /\ EnLugar(q, l2, y2)'
                                             => l = l2 /\ y = y2
    BY DEF UnSoloLugar
  <2>2. CASE q = p
    BY <1>2, <1>3, <2>1, <2>2
  <2>3. CASE q # p
    BY <1>2, <2>1, <2>3 DEF UnSoloLugar
  <2> QED BY <2>2, <2>3
<1>5. p \notin Range(nuevos)
  <2>1. ~EnLugar(p, "NEW", 0)
    BY <1>3
  <2> QED BY <2>1 DEF EnLugar
<1>6. SinRepetidos' /\ DespachoVacio'
  BY <1>1, <1>5 DEF CrearProceso, LugaresInv, SinRepetidos, DespachoVacio, hilos
<1> QED BY <1>4, <1>6 DEF LugaresInv

LEMMA LugaresSacarDeNew ==
  ASSUME TypeInv, LugaresInv, SacarDeNew
  PROVE  LugaresInv'
<1> DEFINE p == Head(nuevos)
<1>1. /\ p \in Range(nuevos) /\ p \in Procesos
      /\ Range(nuevos') = Range(nuevos) \ {p} /\ IsInjective(nuevos')
  BY SacarPrimero DEF SacarDeNew, TypeInv, TypeOK, TipoColas, LugaresInv, SinRepetidos
<1>2. EnLugar(p, "NEW", 0)
  BY <1>1 DEF EnLugar
<1>3. traslado[p] = "nada"
  BY <1>1, <1>2 DEF LugaresInv, UnSoloLugar, EnLugar
<1>4. \A q \in Procesos : traslado'[q] # "nada" <=> traslado[q] # "nada" \/ q = p
  BY <1>1 DEF SacarDeNew, TypeInv, TypeOK, TipoColas
<1> HIDE DEF p
<1>5. \A q \in Procesos : \A l, y :
        EnLugar(q, l, y)' <=> \/ EnLugar(q, l, y) /\ ~(q = p /\ l = "NEW" /\ y = 0)
                              \/ q = p /\ l = "TRASLADO" /\ y = 0
  BY <1>1, <1>4 DEF SacarDeNew, EnLugar, EnManoDespacho, EnManoAtencion, hilos
<1>6. UnSoloLugar'
  <2>1. Muda(p, "NEW", 0, "TRASLADO", 0)
    BY <1>2, <1>5 DEF Muda, SacarDeNew
  <2> QED BY <1>1, <2>1, Mudanza DEF LugaresInv
<1>7. SinRepetidos' /\ DespachoVacio'
  BY <1>1 DEF SacarDeNew, LugaresInv, SinRepetidos, DespachoVacio, hilos
<1> QED BY <1>6, <1>7 DEF LugaresInv

LEMMA LugaresSacarDeBlock ==
  ASSUME TypeInv, LugaresInv, NEW p \in Procesos, SacarDeBlock(p)
  PROVE  LugaresInv'
<1>1. EnLugar(p, "BLOCK", 0)
  BY DEF SacarDeBlock, EnLugar
<1>2. traslado[p] = "nada"
  BY <1>1 DEF LugaresInv, UnSoloLugar, EnLugar
<1>3. \A q \in Procesos : traslado'[q] # "nada" <=> traslado[q] # "nada" \/ q = p
  BY DEF SacarDeBlock, TypeInv, TypeOK, TipoColas
<1>4. \A q \in Procesos : \A l, y :
        EnLugar(q, l, y)' <=> \/ EnLugar(q, l, y) /\ ~(q = p /\ l = "BLOCK" /\ y = 0)
                              \/ q = p /\ l = "TRASLADO" /\ y = 0
  BY <1>3 DEF SacarDeBlock, EnLugar, EnManoDespacho, EnManoAtencion, hilos
<1>5. Muda(p, "BLOCK", 0, "TRASLADO", 0)
  BY <1>1, <1>4 DEF Muda, SacarDeBlock
<1>6. SinRepetidos' /\ DespachoVacio'
  BY DEF SacarDeBlock, LugaresInv, SinRepetidos, DespachoVacio, hilos
<1> QED BY <1>5, <1>6, Mudanza DEF LugaresInv

\* Pushing a PCB that is not in READY.
LEMMA EncolarSinRepetir ==
  ASSUME TypeInv, SinRepetidos, UnSoloLugar, NEW p \in Procesos, EncolarReady(p),
         NEW k, NEW x, EnLugar(p, k, x), k # "READY"
  PROVE  /\ ColaDe(p) \in Nivel
         /\ \A n \in Nivel : p \notin Range(ready[n])
         /\ \A n \in Nivel : IsInjective(ready'[n])
         /\ \A n \in Nivel : \A q : q \in Range(ready'[n])
              <=> q \in Range(ready[n]) \/ (q = p /\ n = ColaDe(p))
<1>1. ColaDe(p) \in Nivel
  BY PlanificadorAssumption DEF ColaDe, Nivel
<1>2. ASSUME NEW n \in Nivel PROVE p \notin Range(ready[n])
  <2>1. ~EnLugar(p, "READY", n)
    BY DEF UnSoloLugar
  <2> QED BY <2>1 DEF EnLugar
<1>3. /\ ready \in [Nivel -> Seq(Procesos)]
      /\ ready'[ColaDe(p)] = Append(ready[ColaDe(p)], p)
      /\ \A n \in Nivel : n # ColaDe(p) => ready'[n] = ready[n]
  BY <1>1 DEF EncolarReady, TypeInv, TypeOK, TipoColas
<1>4. /\ Range(ready'[ColaDe(p)]) = Range(ready[ColaDe(p)]) \cup {p}
      /\ IsInjective(ready'[ColaDe(p)])
  BY <1>1, <1>2, <1>3, AgregarAlFinal DEF SinRepetidos
<1> QED BY <1>1, <1>2, <1>3, <1>4 DEF SinRepetidos

LEMMA LugaresEncolarTraslado ==
  ASSUME TypeInv, LugaresInv, NEW p \in Procesos, EncolarTraslado(p)
  PROVE  LugaresInv'
<1>1. EnLugar(p, "TRASLADO", 0)
  BY DEF EncolarTraslado, EnLugar
<1>2. EncolarReady(p)
  BY DEF EncolarTraslado
<1>3. /\ ColaDe(p) \in Nivel
      /\ \A n \in Nivel : IsInjective(ready'[n])
      /\ \A n \in Nivel : \A q : q \in Range(ready'[n])
           <=> q \in Range(ready[n]) \/ (q = p /\ n = ColaDe(p))
  BY <1>1, <1>2, EncolarSinRepetir DEF LugaresInv
<1>4. \A q \in Procesos : traslado'[q] # "nada" <=> traslado[q] # "nada" /\ q # p
  BY DEF EncolarTraslado, TypeInv, TypeOK, TipoColas
<1>5. \A q \in Procesos : \A l, y :
        EnLugar(q, l, y)' <=> \/ EnLugar(q, l, y) /\ ~(q = p /\ l = "TRASLADO" /\ y = 0)
                              \/ q = p /\ l = "READY" /\ y = ColaDe(p)
  BY <1>3, <1>4 DEF EncolarTraslado, EnLugar, EnManoDespacho, EnManoAtencion, hilos
<1>6. Muda(p, "TRASLADO", 0, "READY", ColaDe(p))
  BY <1>1, <1>5 DEF Muda, EncolarTraslado
<1>7. SinRepetidos' /\ DespachoVacio'
  BY <1>3 DEF EncolarTraslado, LugaresInv, SinRepetidos, DespachoVacio, hilos
<1> QED BY <1>6, <1>7, Mudanza DEF LugaresInv

-----------------------------------------------------------------------------
(* The dispatcher                                                          *)

LEMMA LugaresTomarFichas ==
  ASSUME TypeInv, LugaresInv, TomarFichas
  PROVE  LugaresInv'
<1>1. EnManoDespacho' = EnManoDespacho /\ DespachoVacio'
  BY DEF TomarFichas, EnManoDespacho, DespachoVacio, LugaresInv, TypeInv, TypeOK, TipoHilos,
     Despachos
<1>2. \A c \in CPUs : EnManoAtencion(c)' = EnManoAtencion(c)
  BY DEF TomarFichas, EnManoAtencion
<1> QED BY <1>1, <1>2, SinMudanza DEF TomarFichas

LEMMA LugaresElegirProceso ==
  ASSUME TypeInv, LugaresInv, ElegirProceso
  PROVE  LugaresInv'
<1> DEFINE i == despacho.nivel
           p == Head(ready[i])
<1>1. /\ i \in Nivel /\ ready \in [Nivel -> Seq(Procesos)] /\ despacho \in Despachos
      /\ despacho.fase = "elegir" /\ despacho.pcb = Ninguno /\ EnManoDespacho = {}
  BY DEF ElegirProceso, TypeInv, TypeOK, TipoColas, TipoHilos, Despachos, LugaresInv,
     DespachoVacio, EnManoDespacho
<1>2. \A c \in CPUs : EnManoAtencion(c)' = EnManoAtencion(c)
  BY DEF ElegirProceso, EnManoAtencion
<1>3. CASE ready[i] = <<>>
  <2>1. UNCHANGED colas
    BY <1>3 DEF ElegirProceso, colas
  <2>2. \/ despacho' = [despacho EXCEPT !.nivel = i + 1]
        \/ despacho' = [despacho EXCEPT !.fase = "elegirCPU"]
    BY <1>3 DEF ElegirProceso
  <2>3. EnManoDespacho' = EnManoDespacho /\ DespachoVacio'
    BY <1>1, <2>2 DEF EnManoDespacho, DespachoVacio, Despachos
  <2> QED BY <1>2, <2>1, <2>3, SinMudanza
<1>4. CASE ready[i] # <<>>
  <2>1. /\ p \in Range(ready[i]) /\ p \in Procesos
        /\ Range(Tail(ready[i])) = Range(ready[i]) \ {p} /\ IsInjective(Tail(ready[i]))
    BY <1>1, <1>4, SacarPrimero DEF LugaresInv, SinRepetidos
  <2>2. /\ ready' = [ready EXCEPT ![i] = Tail(@)]
        /\ despacho' = [despacho EXCEPT !.fase = "elegirCPU", !.pcb = p]
    BY <1>4 DEF ElegirProceso
  <2>3. EnManoDespacho' = {p} /\ DespachoVacio'
    BY <1>1, <2>1, <2>2, PlanificadorAssumption DEF EnManoDespacho, DespachoVacio, Despachos
  <2>4. /\ \A n \in Nivel : IsInjective(ready'[n])
        /\ \A n \in Nivel : \A q : q \in Range(ready'[n])
             <=> q \in Range(ready[n]) /\ ~(q = p /\ n = i)
    BY <1>1, <2>1, <2>2 DEF LugaresInv, SinRepetidos
  <2> HIDE DEF p, i
  <2>5. \A q \in Procesos : \A l, y :
          EnLugar(q, l, y)' <=> \/ EnLugar(q, l, y) /\ ~(q = p /\ l = "READY" /\ y = i)
                                \/ q = p /\ l = "DESPACHO" /\ y = 0
    BY <1>1, <1>2, <2>3, <2>4 DEF ElegirProceso, EnLugar
  <2>6. EnLugar(p, "READY", i)
    BY <1>1, <2>1 DEF EnLugar
  <2>7. Muda(p, "READY", i, "DESPACHO", 0)
    BY <2>5, <2>6 DEF Muda, ElegirProceso
  <2>8. UnSoloLugar'
    BY <2>1, <2>7, Mudanza DEF LugaresInv
  <2>9. SinRepetidos'
    BY <2>4 DEF ElegirProceso, LugaresInv, SinRepetidos
  <2> QED BY <2>3, <2>8, <2>9 DEF LugaresInv
<1> QED BY <1>3, <1>4

LEMMA LugaresElegirCPU ==
  ASSUME TypeInv, LugaresInv, ElegirCPU
  PROVE  LugaresInv'
<1> DEFINE p == despacho.pcb
<1>1. /\ despacho \in Despachos /\ p \in Pid /\ despacho.fase = "elegirCPU"
      /\ EnManoDespacho = {p} \ {Ninguno}
  BY DEF ElegirCPU, TypeInv, TypeOK, TipoHilos, Despachos, EnManoDespacho
<1>2. \A c \in CPUs : EnManoAtencion(c)' = EnManoAtencion(c)
  BY DEF ElegirCPU, EnManoAtencion
<1>3. CASE p = Ninguno
  <2>1. UNCHANGED colas /\ despacho' = DespachoOcioso
    BY <1>3 DEF ElegirCPU, colas
  <2>2. EnManoDespacho' = EnManoDespacho /\ DespachoVacio'
    BY <1>1, <1>3, <2>1 DEF EnManoDespacho, DespachoVacio, DespachoOcioso
  <2> QED BY <1>2, <2>1, <2>2, SinMudanza
<1>4. CASE p # Ninguno /\ Libres # {}
  <2>1. UNCHANGED colas /\ \E c : despacho' = [despacho EXCEPT !.fase = "asignar", !.cpu = c]
    BY <1>4 DEF ElegirCPU, colas
  <2>2. EnManoDespacho' = EnManoDespacho /\ DespachoVacio'
    BY <1>1, <2>1 DEF EnManoDespacho, DespachoVacio, Despachos
  <2> QED BY <1>2, <2>1, <2>2, SinMudanza
<1>5. CASE p # Ninguno /\ Libres = {}
  <2>1. /\ p \in Procesos /\ despacho' = DespachoOcioso
        /\ perdidos' = perdidos \cup {p}
    BY <1>1, <1>5 DEF ElegirCPU, Pid
  <2>2. EnManoDespacho' = {} /\ DespachoVacio'
    BY <2>1 DEF EnManoDespacho, DespachoVacio, DespachoOcioso
  <2> HIDE DEF p
  <2>3. \A q \in Procesos : \A l, y :
          EnLugar(q, l, y)' <=> \/ EnLugar(q, l, y) /\ ~(q = p /\ l = "DESPACHO" /\ y = 0)
                                \/ q = p /\ l = "PERDIDO" /\ y = 0
    BY <1>1, <1>2, <1>5, <2>1, <2>2 DEF ElegirCPU, EnLugar
  <2>4. EnLugar(p, "DESPACHO", 0)
    BY <1>1, <1>5 DEF EnLugar
  <2>5. Muda(p, "DESPACHO", 0, "PERDIDO", 0)
    BY <2>3, <2>4 DEF Muda, ElegirCPU
  <2>6. UnSoloLugar'
    BY <2>1, <2>5, Mudanza DEF LugaresInv
  <2>7. SinRepetidos'
    BY DEF ElegirCPU, LugaresInv, SinRepetidos
  <2> QED BY <2>2, <2>6, <2>7 DEF LugaresInv
<1> QED BY <1>3, <1>4, <1>5

LEMMA LugaresAsignarCPU ==
  ASSUME TypeInv, LugaresInv, AsignarCPU
  PROVE  LugaresInv'
<1>1. EnManoDespacho' = EnManoDespacho /\ DespachoVacio'
  BY DEF AsignarCPU, EnManoDespacho, DespachoVacio, TypeInv, TypeOK, TipoHilos, Despachos
<1>2. \A c \in CPUs : EnManoAtencion(c)' = EnManoAtencion(c)
  BY DEF AsignarCPU, EnManoAtencion
<1> QED BY <1>1, <1>2, SinMudanza DEF AsignarCPU

LEMMA LugaresEncolarExec ==
  ASSUME TypeInv, LugaresInv, EncolarExec
  PROVE  LugaresInv'
<1> DEFINE p == despacho.pcb
<1>1. p \in Procesos /\ EnManoDespacho = {p}
  BY PlanificadorAssumption DEF EncolarExec, TypeInv, EnCurso, EnManoDespacho
<1>2. EnManoDespacho' = {} /\ DespachoVacio'
  BY DEF EncolarExec, EnManoDespacho, DespachoVacio, TypeInv, TypeOK, TipoHilos, Despachos
<1>3. \A c \in CPUs : EnManoAtencion(c)' = EnManoAtencion(c)
  BY DEF EncolarExec, EnManoAtencion
<1>4. exec' = exec \cup {p}
  BY DEF EncolarExec
<1> HIDE DEF p
<1>5. \A q \in Procesos : \A l, y :
        EnLugar(q, l, y)' <=> \/ EnLugar(q, l, y) /\ ~(q = p /\ l = "DESPACHO" /\ y = 0)
                              \/ q = p /\ l = "EXEC" /\ y = 0
  BY <1>1, <1>2, <1>3, <1>4 DEF EncolarExec, EnLugar
<1>6. EnLugar(p, "DESPACHO", 0)
  BY <1>1 DEF EnLugar
<1>7. Muda(p, "DESPACHO", 0, "EXEC", 0)
  BY <1>5, <1>6 DEF Muda, EncolarExec
<1>8. SinRepetidos'
  BY DEF EncolarExec, LugaresInv, SinRepetidos
<1> QED BY <1>1, <1>2, <1>7, <1>8, Mudanza DEF LugaresInv

LEMMA LugaresEnviarProceso ==
  ASSUME TypeInv, LugaresInv, EnviarProceso
  PROVE  LugaresInv'
<1>1. EnManoDespacho' = EnManoDespacho /\ DespachoVacio'
  BY DEF EnviarProceso, EnManoDespacho, DespachoVacio, TypeInv, TypeOK, TipoHilos, Despachos
<1>2. \A c \in CPUs : EnManoAtencion(c)' = EnManoAtencion(c)
  BY DEF EnviarProceso, EnManoAtencion
<1> QED BY <1>1, <1>2, SinMudanza DEF EnviarProceso

LEMMA LugaresTemporizar ==
  ASSUME TypeInv, LugaresInv, Temporizar
  PROVE  LugaresInv'
<1>1. EnManoDespacho' = EnManoDespacho /\ DespachoVacio'
  BY DEF Temporizar, EnManoDespacho, DespachoVacio, DespachoOcioso
<1>2. \A c \in CPUs : EnManoAtencion(c)' = EnManoAtencion(c)
  BY DEF Temporizar, EnManoAtencion
<1> QED BY <1>1, <1>2, SinMudanza DEF Temporizar

-----------------------------------------------------------------------------
(* The threads of the CPUs                                                 *)

ConPCB == {"encolar", "bloquear", "terminar"}

\* A step of the thread of c that holds no PCB before or after it.
LEMMA AtencionSinPCB ==
  ASSUME LugaresInv, NEW c \in CPUs, UNCHANGED <<colas, despacho>>,
         atiende[c].fase \notin ConPCB, atiende'[c].fase \notin ConPCB,
         \A d \in CPUs : d # c => atiende'[d] = atiende[d]
  PROVE  LugaresInv'
<1>1. \A d \in CPUs : EnManoAtencion(d)' = EnManoAtencion(d)
  BY DEF EnManoAtencion, ConPCB
<1>2. EnManoDespacho' = EnManoDespacho /\ DespachoVacio'
  BY DEF EnManoDespacho, DespachoVacio, LugaresInv
<1> QED BY <1>1, <1>2, SinMudanza

LEMMA LugaresConectarCPU ==
  ASSUME TypeInv, LugaresInv, NEW c \in CPUs, ConectarCPU(c)
  PROVE  LugaresInv'
<1>1. Fase(c, "recibir") /\ "recibir" \in FasesAtencion /\ atiende \in [CPUs -> Atenciones]
  BY DEF ConectarCPU, FasesAtencion, TypeInv, TypeOK, TipoHilos
<1>2. atiende'[c].fase = "recibir" /\ \A d \in CPUs : d # c => atiende'[d] = atiende[d]
  BY <1>1, FaseTipada
<1> QED BY <1>2, AtencionSinPCB DEF ConectarCPU, ConPCB

LEMMA LugaresRecibirDeCPU ==
  ASSUME TypeInv, LugaresInv, NEW c \in CPUs, RecibirDeCPU(c)
  PROVE  LugaresInv'
<1>1. /\ atiende'[c].fase \in {"responder", "liberar", "sacar"}
      /\ \A d \in CPUs : d # c => atiende'[d] = atiende[d]
  BY DEF RecibirDeCPU, PrimeraFase, TypeInv, TypeOK, TipoHilos
<1> QED BY <1>1, AtencionSinPCB DEF RecibirDeCPU, ConPCB

LEMMA LugaresDetectarDesconexion ==
  ASSUME TypeInv, LugaresInv, NEW c \in CPUs, DetectarDesconexion(c)
  PROVE  LugaresInv'
<1>1. /\ atiende'[c].fase \in {"quitar", "sacar"}
      /\ \A d \in CPUs : d # c => atiende'[d] = atiende[d]
  BY DEF DetectarDesconexion, TypeInv, TypeOK, TipoHilos
<1> QED BY <1>1, AtencionSinPCB DEF DetectarDesconexion, ConPCB

LEMMA LugaresLiberarCPU ==
  ASSUME TypeInv, LugaresInv, NEW c \in CPUs, LiberarCPU(c)
  PROVE  LugaresInv'
<1>1. PICK f \in {"sacar", "recibir"} : Fase(c, f)
  BY DEF LiberarCPU
<1>2. f \in FasesAtencion /\ atiende \in [CPUs -> Atenciones]
  BY DEF FasesAtencion, TypeInv, TypeOK, TipoHilos
<1>3. atiende'[c].fase = f /\ \A d \in CPUs : d # c => atiende'[d] = atiende[d]
  BY <1>1, <1>2, FaseTipada
<1> QED BY <1>3, AtencionSinPCB DEF LiberarCPU, ConPCB

LEMMA LugaresResponder ==
  ASSUME TypeInv, LugaresInv, NEW c \in CPUs, Responder(c)
  PROVE  LugaresInv'
<1>1. Fase(c, "recibir") /\ "recibir" \in FasesAtencion /\ atiende \in [CPUs -> Atenciones]
  BY DEF Responder, FasesAtencion, TypeInv, TypeOK, TipoHilos
<1>2. atiende'[c].fase = "recibir" /\ \A d \in CPUs : d # c => atiende'[d] = atiende[d]
  BY <1>1, FaseTipada
<1> QED BY <1>2, AtencionSinPCB DEF Responder, ConPCB

LEMMA LugaresQuitarCPU ==
  ASSUME TypeInv, LugaresInv, NEW c \in CPUs, QuitarCPU(c)
  PROVE  LugaresInv'
<1>1. Fase(c, "afuera") /\ "afuera" \in FasesAtencion /\ atiende \in [CPUs -> Atenciones]
  BY DEF QuitarCPU, FasesAtencion, TypeInv, TypeOK, TipoHilos
<1>2. atiende'[c].fase = "afuera" /\ \A d \in CPUs : d # c => atiende'[d] = atiende[d]
  BY <1>1, FaseTipada
<1> QED BY <1>2, AtencionSinPCB DEF QuitarCPU, ConPCB

LEMMA LugaresSacarDeExec ==
  ASSUME TypeInv, LugaresInv, NEW c \in CPUs, SacarDeExec(c)
  PROVE  LugaresInv'
<1> DEFINE p == atiende[c].pid
<1>1. CASE p \notin exec
  <2>1. UNCHANGED <<colas, despacho, atiende>>
    BY <1>1 DEF SacarDeExec, colas
  <2> QED BY <2>1, AtencionSinPCB DEF SacarDeExec, ConPCB
<1>2. CASE p \in exec
  <2>1. PICK f \in ConPCB : Fase(c, f)
    BY <1>2 DEF SacarDeExec, ConPCB
  <2>2. f \in FasesAtencion /\ f # "recibir" /\ atiende \in [CPUs -> Atenciones]
    BY DEF FasesAtencion, ConPCB, TypeInv, TypeOK, TipoHilos
  <2>3. /\ atiende'[c].fase = f /\ atiende'[c].pid = p
        /\ \A d \in CPUs : d # c => atiende'[d] = atiende[d]
    BY <2>1, <2>2, FaseTipada
  <2>4. /\ EnManoAtencion(c) = {} /\ EnManoAtencion(c)' = {p}
        /\ \A d \in CPUs : d # c => EnManoAtencion(d)' = EnManoAtencion(d)
    BY <2>3 DEF SacarDeExec, EnManoAtencion, ConPCB
  <2>5. p \in Procesos /\ exec' = exec \ {p}
    BY <1>2 DEF SacarDeExec, TypeInv, TypeOK, TipoColas
  <2> HIDE DEF p
  <2>6. \A q \in Procesos : \A l, y :
          EnLugar(q, l, y)' <=> \/ EnLugar(q, l, y) /\ ~(q = p /\ l = "EXEC" /\ y = 0)
                                \/ q = p /\ l = "ATENCION" /\ y = c
    BY <2>4, <2>5 DEF SacarDeExec, EnLugar, EnManoDespacho
  <2>7. EnLugar(p, "EXEC", 0)
    BY <1>2 DEF EnLugar
  <2>8. Muda(p, "EXEC", 0, "ATENCION", c)
    BY <2>6, <2>7 DEF Muda, SacarDeExec
  <2>9. UnSoloLugar'
    BY <2>5, <2>8, Mudanza DEF LugaresInv
  <2>10. SinRepetidos' /\ DespachoVacio'
    BY DEF SacarDeExec, LugaresInv, SinRepetidos, DespachoVacio
  <2> QED BY <2>9, <2>10 DEF LugaresInv
<1> QED BY <1>1, <1>2

\* The thread of c puts the PCB it holds somewhere.
LEMMA SueltaPCB ==
  ASSUME TypeInv, NEW c \in CPUs, atiende[c].fase \in ConPCB,
         NEW f \in FasesAtencion \ ConPCB, Fase(c, f)
  PROVE  /\ atiende[c].pid \in Procesos
         /\ EnLugar(atiende[c].pid, "ATENCION", c)
         /\ EnManoAtencion(c) = {atiende[c].pid} /\ EnManoAtencion(c)' = {}
         /\ \A d \in CPUs : d # c => EnManoAtencion(d)' = EnManoAtencion(d)
<1>1. atiende[c].pid \in Procesos
  BY DEF TypeInv, EnCurso, ConPCB
<1>2. atiende'[c].fase = f /\ \A d \in CPUs : d # c => atiende'[d] = atiende[d]
  BY FaseTipada DEF TypeInv, TypeOK, TipoHilos
<1> QED BY <1>1, <1>2 DEF EnLugar, EnManoAtencion, ConPCB

LEMMA LugaresEncolarDesalojado ==
  ASSUME TypeInv, LugaresInv, NEW c \in CPUs, EncolarDesalojado(c)
  PROVE  LugaresInv'
<1> DEFINE p == atiende[c].pid
<1>1. Fase(c, "liberar") /\ "liberar" \in FasesAtencion \ ConPCB /\ atiende[c].fase \in ConPCB
  BY DEF EncolarDesalojado, FasesAtencion, ConPCB
<1>2. /\ p \in Procesos /\ EnLugar(p, "ATENCION", c)
      /\ EnManoAtencion(c) = {p} /\ EnManoAtencion(c)' = {}
      /\ \A d \in CPUs : d # c => EnManoAtencion(d)' = EnManoAtencion(d)
  BY <1>1, SueltaPCB
<1>3. EncolarReady(p)
  BY DEF EncolarDesalojado
<1> HIDE DEF p
<1>4. /\ ColaDe(p) \in Nivel
      /\ \A n \in Nivel : IsInjective(ready'[n])
      /\ \A n \in Nivel : \A q : q \in Range(ready'[n])
           <=> q \in Range(ready[n]) \/ (q = p /\ n = ColaDe(p))
  BY <1>2, <1>3, EncolarSinRepetir DEF LugaresInv
<1>5. \A q \in Procesos : \A l, y :
        EnLugar(q, l, y)' <=> \/ EnLugar(q, l, y) /\ ~(q = p /\ l = "ATENCION" /\ y = c)
                              \/ q = p /\ l = "READY" /\ y = ColaDe(p)
  BY <1>2, <1>4 DEF EncolarDesalojado, EnLugar, EnManoDespacho
<1>6. Muda(p, "ATENCION", c, "READY", ColaDe(p))
  BY <1>2, <1>5 DEF Muda, EncolarDesalojado
<1>7. SinRepetidos' /\ DespachoVacio'
  BY <1>4 DEF EncolarDesalojado, LugaresInv, SinRepetidos, DespachoVacio
<1> QED BY <1>2, <1>6, <1>7, Mudanza DEF LugaresInv

LEMMA LugaresBloquear ==
  ASSUME TypeInv, LugaresInv, NEW c \in CPUs, Bloquear(c)
  PROVE  LugaresInv'
<1> DEFINE p == atiende[c].pid
<1>1. PICK f \in FasesAtencion \ ConPCB : Fase(c, f)
  BY DEF Bloquear, FaseFinal, FasesAtencion, ConPCB
<1>2. /\ p \in Procesos /\ EnLugar(p, "ATENCION", c)
      /\ EnManoAtencion(c) = {p} /\ EnManoAtencion(c)' = {}
      /\ \A d \in CPUs : d # c => EnManoAtencion(d)' = EnManoAtencion(d)
  BY <1>1, SueltaPCB DEF Bloquear, ConPCB
<1>3. block' = block \cup {p}
  BY DEF Bloquear
<1> HIDE DEF p
<1>4. \A q \in Procesos : \A l, y :
        EnLugar(q, l, y)' <=> \/ EnLugar(q, l, y) /\ ~(q = p /\ l = "ATENCION" /\ y = c)
                              \/ q = p /\ l = "BLOCK" /\ y = 0
  BY <1>2, <1>3 DEF Bloquear, EnLugar, EnManoDespacho
<1>5. Muda(p, "ATENCION", c, "BLOCK", 0)
  BY <1>2, <1>4 DEF Muda, Bloquear
<1>6. SinRepetidos' /\ DespachoVacio'
  BY DEF Bloquear, LugaresInv, SinRepetidos, DespachoVacio
<1> QED BY <1>2, <1>5, <1>6, Mudanza DEF LugaresInv

LEMMA LugaresTerminar ==
  ASSUME TypeInv, LugaresInv, NEW c \in CPUs, Terminar(c)
  PROVE  LugaresInv'
<1> DEFINE p == atiende[c].pid
<1>1. PICK f \in FasesAtencion \ ConPCB : Fase(c, f)
  BY DEF Terminar, FaseFinal, FasesAtencion, ConPCB
<1>2. /\ p \in Procesos /\ EnLugar(p, "ATENCION", c)
      /\ EnManoAtencion(c) = {p} /\ EnManoAtencion(c)' = {}
      /\ \A d \in CPUs : d # c => EnManoAtencion(d)' = EnManoAtencion(d)
  BY <1>1, SueltaPCB DEF Terminar, ConPCB
<1>3. terminados' = terminados \cup {p}
  BY DEF Terminar
<1> HIDE DEF p
<1>4. \A q \in Procesos : \A l, y :
        EnLugar(q, l, y)' <=> \/ EnLugar(q, l, y) /\ ~(q = p /\ l = "ATENCION" /\ y = c)
                              \/ q = p /\ l = "EXIT" /\ y = 0
  BY <1>2, <1>3 DEF Terminar, EnLugar, EnManoDespacho
<1>5. Muda(p, "ATENCION", c, "EXIT", 0)
  BY <1>2, <1>4 DEF Muda, Terminar
<1>6. SinRepetidos' /\ DespachoVacio'
  BY DEF Terminar, LugaresInv, SinRepetidos, DespachoVacio
<1> QED BY <1>2, <1>5, <1>6, Mudanza DEF LugaresInv

-----------------------------------------------------------------------------
(* Everybody else                                                          *)

\* The CPUs, the timers and the monitor touch no queue.
LEMMA LugaresAjenos ==
  ASSUME LugaresInv, UNCHANGED <<colas, atiende, despacho>>
  PROVE  LugaresInv'
<1>1. EnManoDespacho' = EnManoDespacho /\ DespachoVacio'
  BY DEF EnManoDespacho, DespachoVacio, LugaresInv
<1>2. \A d \in CPUs : EnManoAtencion(d)' = EnManoAtencion(d)
  BY DEF EnManoAtencion
<1> QED BY <1>1, <1>2, SinMudanza

LEMMA AjenosNoTocan ==
  ASSUME NEW c \in CPUs,
         \/ RecibirProceso(c) \/ AtenderInterrupcion(c) \/ CaerCPU(c)
         \/ \E op \in Syscalls : PedirSyscall(c, op)
         \/ Reloj(c)
  PROVE  UNCHANGED <<colas, atiende, despacho>>
<1>1. CASE \/ RecibirProceso(c) \/ AtenderInterrupcion(c) \/ CaerCPU(c)
           \/ \E op \in Syscalls : PedirSyscall(c, op)
  BY <1>1 DEF RecibirProceso, AtenderInterrupcion, CaerCPU, PedirSyscall, hilos
<1>2. CASE Reloj(c)
  BY <1>2 DEF Reloj, ArrancarTemporizador, VencerQuantum, NotificarQuantum, hilos
<1> QED BY <1>1, <1>2

LEMMA PasoLugares == TypeInv /\ LugaresInv /\ [Next]_vars => LugaresInv'
<1> SUFFICES ASSUME TypeInv, LugaresInv, [Next]_vars PROVE LugaresInv'
  OBVIOUS
<1>1. CASE Trasladar
  BY <1>1, LugaresCrearProceso, LugaresSacarDeBlock, LugaresEncolarTraslado,
     LugaresSacarDeNew DEF Trasladar
<1>2. CASE Despachar
  BY <1>2, LugaresTomarFichas, LugaresElegirProceso, LugaresElegirCPU, LugaresAsignarCPU,
     LugaresEncolarExec, LugaresEnviarProceso, LugaresTemporizar DEF Despachar
<1>3. ASSUME NEW c \in CPUs, Atender(c) PROVE LugaresInv'
  BY <1>3, LugaresRecibirDeCPU, LugaresDetectarDesconexion, LugaresLiberarCPU,
     LugaresSacarDeExec, LugaresEncolarDesalojado, LugaresBloquear, LugaresTerminar,
     LugaresResponder, LugaresQuitarCPU DEF Atender
<1>4. ASSUME NEW c \in CPUs, EjecutarCPU(c) \/ Reloj(c) PROVE LugaresInv'
  BY <1>4, LugaresConectarCPU, AjenosNoTocan, LugaresAjenos DEF EjecutarCPU
<1>5. CASE Monitorear
  BY <1>5, LugaresAjenos DEF Monitorear, MonitorSolo, EsperarReadyPrioridad, MirarCPUs,
     ElegirVictima, BuscarMasPrioritario, UbicarVictima, NotificarPrioridad,
     ComprobarEnExec, EsperarDesalojo
<1>6. CASE UNCHANGED vars
  BY <1>6, LugaresAjenos DEF vars, hilos
<1> QED BY <1>1, <1>2, <1>3, <1>4, <1>5, <1>6 DEF Next

\* No pasarProceso.. function loses a PCB or leaves it in two queues, although each pops
\* under the lock of one queue and pushes under the lock of another: a created PCB is
\* always in one queue, once, or in the hands of one thread.
THEOREM UnLugarPorPCB == Spec => []CadaPCBEnUnLugar
<1>1. Init => TypeInv /\ LugaresInv
  BY InitTypeInv, InitLugares
<1>2. TypeInv /\ LugaresInv /\ [Next]_vars => TypeInv' /\ LugaresInv'
  BY PasoTypeInv, PasoLugares
<1>3. LugaresInv => CadaPCBEnUnLugar
  BY UnSoloLugarBasta
<1> QED BY <1>1, <1>2, <1>3, PTL DEF Spec

-----------------------------------------------------------------------------
(* What sem_hayProcesosEnReady counts, and why the scan of the levels ends *)
(* with a PCB.                                                             *)

\* FichasDeReady and EleccionNoVacia, and what makes them inductive: while the dispatcher
\* scans, a level it has not looked at yet holds a PCB (only it takes PCBs out of READY).
FichasInv ==
  /\ IsFiniteSet(EnReady) /\ FichasDeReady /\ EleccionNoVacia
  /\ despacho.fase = "esperar" => despacho.nivel = 0
  /\ despacho.fase = "elegir" =>
       \E n \in Nivel : n >= despacho.nivel /\ ready[n] # <<>>
  /\ \A n \in Nivel : n > UltimoNivel => ready[n] = <<>>

LEMMA InitFichas == Init => FichasInv
<1> SUFFICES ASSUME Init PROVE FichasInv
  OBVIOUS
<1>1. EnReady = {}
  BY DEF Init, EnReady, Range
<1>2. IsFiniteSet(EnReady) /\ Cardinality(EnReady) = 0
  BY <1>1, FS_EmptySet
<1> QED BY <1>2 DEF Init, FichasInv, FichasDeReady, EleccionNoVacia, DespachoOcioso

\* A step that leaves READY and its semaphore alone and is not the dispatcher's choice.
LEMMA FichasQuietas ==
  ASSUME FichasInv, UNCHANGED <<ready, hayReady>>,
         \/ UNCHANGED despacho
         \/ /\ despacho.fase \notin {"esperar", "elegir"}
            /\ despacho'.fase \notin {"esperar", "elegir", "elegirCPU"}
         \/ despacho.fase # "elegir" /\ despacho' = DespachoOcioso
  PROVE  FichasInv'
<1>1. EnReady' = EnReady
  BY DEF EnReady
<1>2. CASE UNCHANGED despacho
  BY <1>1, <1>2 DEF FichasInv, FichasDeReady, EleccionNoVacia
<1>3. CASE /\ despacho.fase \notin {"esperar", "elegir"}
           /\ despacho'.fase \notin {"esperar", "elegir", "elegirCPU"}
  BY <1>1, <1>3 DEF FichasInv, FichasDeReady, EleccionNoVacia
<1>4. CASE despacho.fase # "elegir" /\ despacho' = DespachoOcioso
  BY <1>1, <1>4 DEF FichasInv, FichasDeReady, EleccionNoVacia, DespachoOcioso
<1> QED BY <1>2, <1>3, <1>4

\* A push to READY and its post.
LEMMA FichasEncolar ==
  ASSUME TypeInv, LugaresInv, FichasInv, NEW p \in Procesos, EncolarReady(p), UNCHANGED despacho,
         NEW k, NEW x, EnLugar(p, k, x), k # "READY"
  PROVE  FichasInv'
<1>1. /\ ColaDe(p) \in Nivel
      /\ \A n \in Nivel : p \notin Range(ready[n])
      /\ \A n \in Nivel : \A q : q \in Range(ready'[n])
           <=> q \in Range(ready[n]) \/ (q = p /\ n = ColaDe(p))
  BY EncolarSinRepetir DEF LugaresInv
<1>2. EnReady' = EnReady \cup {p} /\ p \notin EnReady
  BY <1>1 DEF EnReady
<1>3. IsFiniteSet(EnReady') /\ Cardinality(EnReady') = Cardinality(EnReady) + 1
  BY <1>2, FS_AddElement DEF FichasInv
<1>4. Cardinality(EnReady) \in Nat
  BY FS_CardinalityType DEF FichasInv
<1>5. FichasDeReady'
  BY <1>3, <1>4 DEF FichasInv, FichasDeReady, EncolarReady, TypeInv, TypeOK, TipoSems
<1>6. ready \in [Nivel -> Seq(Procesos)] /\ ready' = [ready EXCEPT ![ColaDe(p)] = Append(@, p)]
  BY DEF EncolarReady, TypeInv, TypeOK, TipoColas
<1>7. \A n \in Nivel : ready[n] # <<>> => ready'[n] # <<>>
  BY <1>1, <1>6
<1>8. ColaDe(p) <= UltimoNivel
  BY PlanificadorAssumption DEF ColaDe, UltimoNivel
<1>9. \A n \in Nivel : n > UltimoNivel => ready'[n] = <<>>
  <2> SUFFICES ASSUME NEW n \in Nivel, n > UltimoNivel PROVE ready'[n] = <<>>
    OBVIOUS
  <2>1. ColaDe(p) \in Nat /\ n \in Nat /\ UltimoNivel \in Nat
    BY <1>1, PlanificadorAssumption DEF Nivel, UltimoNivel
  <2>2. n # ColaDe(p) /\ ready[n] = <<>>
    BY <1>8, <2>1 DEF FichasInv
  <2> QED BY <1>6, <2>2
<1> QED BY <1>3, <1>5, <1>7, <1>9 DEF FichasInv, EleccionNoVacia

LEMMA FichasTomarFichas ==
  ASSUME TypeInv, FichasInv, TomarFichas
  PROVE  FichasInv'
<1>1. UNCHANGED ready /\ EnReady' = EnReady
  BY DEF TomarFichas, colas, EnReady
<1>2. /\ despacho.fase = "esperar" /\ despacho'.fase = "elegir"
      /\ despacho.nivel = 0 /\ despacho'.nivel = 0
  BY DEF TomarFichas, FichasInv, TypeInv, TypeOK, TipoHilos, Despachos
<1>3. Cardinality(EnReady) = hayReady /\ hayReady > 0 /\ hayReady \in Nat
  BY <1>2 DEF TomarFichas, FichasInv, FichasDeReady, TypeInv, TypeOK, TipoSems
<1>4. FichasDeReady'
  BY <1>1, <1>2, <1>3 DEF TomarFichas, FichasDeReady
<1>5. \E n \in Nivel : n >= 0 /\ ready[n] # <<>>
  <2>1. EnReady # {}
    BY <1>3, FS_EmptySet
  <2>2. PICK n \in Nivel : Range(ready[n]) # {}
    BY <2>1 DEF EnReady
  <2>3. ready[n] # <<>>
    BY <2>2 DEF Range
  <2> QED BY <2>3 DEF Nivel
<1> QED BY <1>1, <1>2, <1>4, <1>5 DEF FichasInv, EleccionNoVacia

LEMMA FichasElegirProceso ==
  ASSUME TypeInv, LugaresInv, FichasInv, ElegirProceso
  PROVE  FichasInv'
<1> DEFINE i == despacho.nivel
           p == Head(ready[i])
<1>1. /\ i \in Nivel /\ ready \in [Nivel -> Seq(Procesos)] /\ despacho \in Despachos
      /\ despacho.fase = "elegir" /\ hayReady \in Nat /\ hayReady' = hayReady
      /\ UltimoNivel \in Nivel
  <2>1. /\ ready \in [Nivel -> Seq(Procesos)] /\ despacho \in Despachos /\ hayReady \in Nat
    BY DEF TypeInv, TypeOK, TipoColas, TipoHilos, TipoSems
  <2>2. i \in Nivel
    BY <2>1 DEF Despachos
  <2>3. despacho.fase = "elegir" /\ hayReady' = hayReady
    BY DEF ElegirProceso, sems
  <2>4. UltimoNivel \in Nivel
    BY PlanificadorAssumption DEF UltimoNivel, Nivel
  <2> QED BY <2>1, <2>2, <2>3, <2>4
<1>2. PICK n \in Nivel : n >= i /\ ready[n] # <<>>
  BY <1>1 DEF FichasInv
<1>3. CASE ready[i] = <<>>
  <2>1. i < n /\ n <= UltimoNivel
    BY <1>1, <1>2, <1>3 DEF FichasInv, Nivel
  <2>2. UNCHANGED ready /\ despacho' = [despacho EXCEPT !.nivel = i + 1]
    BY <1>1, <1>3, <2>1 DEF ElegirProceso, Nivel
  <2>3. despacho'.fase = "elegir" /\ despacho'.nivel = i + 1 /\ EnReady' = EnReady
    BY <1>1, <2>2 DEF Despachos, EnReady
  <2>4. n >= i + 1
    BY <1>1, <2>1 DEF Nivel
  <2> QED BY <1>1, <1>2, <2>2, <2>3, <2>4 DEF FichasInv, FichasDeReady, EleccionNoVacia
<1>4. CASE ready[i] # <<>>
  <2>1. /\ p \in Range(ready[i]) /\ p \in Procesos
        /\ Range(Tail(ready[i])) = Range(ready[i]) \ {p}
    BY <1>1, <1>4, SacarPrimero DEF LugaresInv, SinRepetidos
  <2>2. /\ ready' = [ready EXCEPT ![i] = Tail(@)]
        /\ despacho' = [despacho EXCEPT !.fase = "elegirCPU", !.pcb = p]
    BY <1>4 DEF ElegirProceso
  <2>3. despacho'.fase = "elegirCPU" /\ despacho'.pcb = p
    BY <1>1, <2>2 DEF Despachos
  <2>4. ASSUME NEW m \in Nivel, m # i PROVE p \notin Range(ready[m])
    <3>1. EnLugar(p, "READY", i)
      BY <1>1, <2>1 DEF EnLugar
    <3>2. ~EnLugar(p, "READY", m)
      BY <2>1, <2>4, <3>1 DEF LugaresInv, UnSoloLugar
    <3> QED BY <3>2 DEF EnLugar
  <2> HIDE DEF p, i
  <2>5. EnReady' = EnReady \ {p} /\ p \in EnReady
    BY <1>1, <2>1, <2>2, <2>4 DEF EnReady
  <2>6. IsFiniteSet(EnReady') /\ Cardinality(EnReady') = Cardinality(EnReady) - 1
    BY <2>5, FS_RemoveElement DEF FichasInv
  <2>7. Cardinality(EnReady) \in Nat
    BY FS_CardinalityType DEF FichasInv
  <2>8. FichasDeReady'
    BY <1>1, <2>3, <2>6, <2>7 DEF FichasInv, FichasDeReady
  <2>9. \A m \in Nivel : m > UltimoNivel => ready'[m] = <<>>
    BY <1>1, <1>4, <2>2 DEF FichasInv
  <2>10. EleccionNoVacia'
    BY <2>1, <2>3, PlanificadorAssumption DEF EleccionNoVacia
  <2> QED BY <2>3, <2>6, <2>8, <2>9, <2>10 DEF FichasInv
<1> QED BY <1>3, <1>4

LEMMA FichasDespachar ==
  ASSUME TypeInv, LugaresInv, FichasInv, Despachar
  PROVE  FichasInv'
<1>1. despacho \in Despachos
  BY DEF TypeInv, TypeOK, TipoHilos
<1>2. CASE ElegirCPU
  BY <1>1, <1>2, FichasQuietas DEF ElegirCPU, sems, Despachos
<1>3. CASE AsignarCPU
  BY <1>1, <1>3, FichasQuietas DEF AsignarCPU, colas, sems, Despachos
<1>4. CASE EncolarExec
  BY <1>1, <1>4, FichasQuietas DEF EncolarExec, sems, Despachos
<1>5. CASE EnviarProceso
  BY <1>1, <1>5, FichasQuietas DEF EnviarProceso, colas, sems, Despachos
<1>6. CASE Temporizar
  BY <1>6, FichasQuietas DEF Temporizar, colas, sems
<1> QED BY <1>2, <1>3, <1>4, <1>5, <1>6, FichasTomarFichas, FichasElegirProceso DEF Despachar

LEMMA FichasTrasladar ==
  ASSUME TypeInv, LugaresInv, FichasInv, Trasladar
  PROVE  FichasInv'
<1>1. ASSUME NEW p \in Procesos, EncolarTraslado(p) PROVE FichasInv'
  <2>1. EnLugar(p, "TRASLADO", 0) /\ EncolarReady(p) /\ UNCHANGED despacho
    BY <1>1 DEF EncolarTraslado, EnLugar, hilos
  <2> QED BY <2>1, FichasEncolar
<1>2. ASSUME NEW p \in Procesos, CrearProceso(p) \/ SacarDeBlock(p) PROVE FichasInv'
  BY <1>2, FichasQuietas DEF CrearProceso, SacarDeBlock, hilos, sems
<1>3. CASE SacarDeNew
  BY <1>3, FichasQuietas DEF SacarDeNew, hilos, sems
<1> QED BY <1>1, <1>2, <1>3 DEF Trasladar

LEMMA FichasAtender ==
  ASSUME TypeInv, LugaresInv, FichasInv, NEW c \in CPUs, Atender(c)
  PROVE  FichasInv'
<1>1. CASE EncolarDesalojado(c)
  <2>1. /\ atiende[c].pid \in Procesos /\ EnLugar(atiende[c].pid, "ATENCION", c)
        /\ EncolarReady(atiende[c].pid) /\ UNCHANGED despacho
    BY <1>1 DEF EncolarDesalojado, TypeInv, EnCurso, EnLugar, EnManoAtencion
  <2> QED BY <2>1, FichasEncolar
<1>2. CASE RecibirDeCPU(c) \/ DetectarDesconexion(c) \/ LiberarCPU(c) \/ SacarDeExec(c)
  BY <1>2, FichasQuietas DEF RecibirDeCPU, DetectarDesconexion, LiberarCPU, SacarDeExec,
     colas, sems
<1>3. CASE Bloquear(c) \/ Terminar(c) \/ Responder(c) \/ QuitarCPU(c)
  BY <1>3, FichasQuietas DEF Bloquear, Terminar, Responder, QuitarCPU, colas, sems
<1> QED BY <1>1, <1>2, <1>3 DEF Atender

LEMMA PasoFichas == TypeInv /\ LugaresInv /\ FichasInv /\ [Next]_vars => FichasInv'
<1> SUFFICES ASSUME TypeInv, LugaresInv, FichasInv, [Next]_vars PROVE FichasInv'
  OBVIOUS
<1>1. CASE Monitorear
  BY <1>1, FichasQuietas DEF Monitorear, MonitorSolo, EsperarReadyPrioridad, MirarCPUs,
     ElegirVictima, BuscarMasPrioritario, UbicarVictima, NotificarPrioridad,
     ComprobarEnExec, EsperarDesalojo, colas, sems
<1>2. ASSUME NEW c \in CPUs, EjecutarCPU(c) PROVE FichasInv'
  BY <1>2, FichasQuietas DEF EjecutarCPU, ConectarCPU, RecibirProceso, AtenderInterrupcion,
     CaerCPU, PedirSyscall, colas, sems, hilos
<1>3. ASSUME NEW c \in CPUs, Reloj(c) PROVE FichasInv'
  BY <1>3, FichasQuietas DEF Reloj, ArrancarTemporizador, VencerQuantum, NotificarQuantum,
     colas, sems, hilos
<1>4. CASE UNCHANGED vars
  BY <1>4, FichasQuietas DEF vars, colas, sems, hilos
<1> QED BY <1>1, <1>2, <1>3, <1>4, FichasTrasladar, FichasDespachar, FichasAtender DEF Next

\* sem_hayProcesosEnReady always counts the PCBs of the READY queues, but for the token the
\* dispatcher took and whose PCB it is still looking for.
THEOREM FichasExactas == Spec => []FichasDeReady
<1>1. Init => TypeInv /\ LugaresInv /\ FichasInv
  BY InitTypeInv, InitLugares, InitFichas
<1>2. TypeInv /\ LugaresInv /\ FichasInv /\ [Next]_vars => TypeInv' /\ LugaresInv' /\ FichasInv'
  BY PasoTypeInv, PasoLugares, PasoFichas
<1>3. FichasInv => FichasDeReady
  BY DEF FichasInv
<1> QED BY <1>1, <1>2, <1>3, PTL DEF Spec

\* However pushes interleave with the scan of elegirPorCMN, one mutex at a time, the
\* dispatcher that took a token comes back with a PCB.
THEOREM SiempreElige == Spec => []EleccionNoVacia
<1>1. Init => TypeInv /\ LugaresInv /\ FichasInv
  BY InitTypeInv, InitLugares, InitFichas
<1>2. TypeInv /\ LugaresInv /\ FichasInv /\ [Next]_vars => TypeInv' /\ LugaresInv' /\ FichasInv'
  BY PasoTypeInv, PasoLugares, PasoFichas
<1>3. FichasInv => EleccionNoVacia
  BY DEF FichasInv
<1> QED BY <1>1, <1>2, <1>3, PTL DEF Spec

-----------------------------------------------------------------------------
(* What the threads together do: CortoPlazo                                *)

\* The variables of CortoPlazo, as Planificador maps them.
Nuevos   == IF EnAdmision = {} THEN nuevos
            ELSE <<CHOOSE p \in EnAdmision : TRUE>> \o nuevos
Corren   == exec \cup EnManoDespacho \cup perdidos
            \cup UNION {EnManoAtencion(c) : c \in CPUs}
Dormidos == block \cup {p \in Procesos : traslado[p] = "despertando"}

\* The listener of kernel memory admits one process at a time.
UnaAdmision ==
  \A p, q \in Procesos : traslado[p] = "admitiendo" /\ traslado[q] = "admitiendo" => p = q

LEMMA CorrenEs ==
  \A q : q \in Corren <=> \/ q \in exec \/ q \in EnManoDespacho \/ q \in perdidos
                          \/ \E c \in CPUs : q \in EnManoAtencion(c)
BY DEF Corren

LEMMA AbsQuieto ==
  ASSUME UNCHANGED <<creados, Nuevos, ready, Corren, Dormidos, terminados>>
  PROVE  [Abs!Next]_(Abs!vars)
BY DEF Abs!vars, Nuevos, Corren, Dormidos

LEMMA AbsCrear ==
  ASSUME NEW p \in Procesos, p \notin creados, creados' = creados \cup {p},
         Nuevos' = Append(Nuevos, p), UNCHANGED <<ready, Corren, Dormidos, terminados>>
  PROVE  [Abs!Next]_(Abs!vars)
BY DEF Abs!Next, Abs!Crear, Nuevos, Corren, Dormidos

LEMMA AbsAdmitir ==
  ASSUME Nuevos # <<>>, Nuevos' = Tail(Nuevos),
         ready' = [ready EXCEPT ![Cola[Head(Nuevos)]] = Append(@, Head(Nuevos))],
         UNCHANGED <<creados, Corren, Dormidos, terminados>>
  PROVE  [Abs!Next]_(Abs!vars)
BY DEF Abs!Next, Abs!Admitir, Abs!Listo, Nuevos, Corren, Dormidos

LEMMA AbsDespachar ==
  ASSUME NEW i \in Nivel, ready[i] # <<>>, ready' = [ready EXCEPT ![i] = Tail(@)],
         Corren' = Corren \cup {Head(ready[i])},
         UNCHANGED <<creados, Nuevos, Dormidos, terminados>>
  PROVE  [Abs!Next]_(Abs!vars)
BY DEF Abs!Next, Abs!Despachar, Nuevos, Corren, Dormidos

LEMMA AbsExpulsar ==
  ASSUME NEW p \in Procesos, p \in Corren, Corren' = Corren \ {p},
         ready' = [ready EXCEPT ![Cola[p]] = Append(@, p)],
         UNCHANGED <<creados, Nuevos, Dormidos, terminados>>
  PROVE  [Abs!Next]_(Abs!vars)
BY DEF Abs!Next, Abs!Expulsar, Abs!Listo, Nuevos, Corren, Dormidos

LEMMA AbsBloquear ==
  ASSUME NEW p \in Procesos, p \in Corren, Corren' = Corren \ {p},
         Dormidos' = Dormidos \cup {p}, UNCHANGED <<creados, Nuevos, ready, terminados>>
  PROVE  [Abs!Next]_(Abs!vars)
BY DEF Abs!Next, Abs!Bloquear, Nuevos, Corren, Dormidos

LEMMA AbsDespertar ==
  ASSUME NEW p \in Procesos, p \in Dormidos, Dormidos' = Dormidos \ {p},
         ready' = [ready EXCEPT ![Cola[p]] = Append(@, p)],
         UNCHANGED <<creados, Nuevos, Corren, terminados>>
  PROVE  [Abs!Next]_(Abs!vars)
BY DEF Abs!Next, Abs!Despertar, Abs!Listo, Nuevos, Corren, Dormidos

LEMMA AbsTerminar ==
  ASSUME NEW p \in Procesos, p \in Corren, Corren' = Corren \ {p},
         terminados' = terminados \cup {p}, UNCHANGED <<creados, Nuevos, ready, Dormidos>>
  PROVE  [Abs!Next]_(Abs!vars)
BY DEF Abs!Next, Abs!Terminar, Nuevos, Corren, Dormidos

-----------------------------------------------------------------------------
LEMMA NuevosQuietos ==
  ASSUME UNCHANGED nuevos,
         \A p \in Procesos : traslado'[p] = "admitiendo" <=> traslado[p] = "admitiendo"
  PROVE  Nuevos' = Nuevos
<1>1. EnAdmision' = EnAdmision
  BY DEF EnAdmision
<1> QED BY <1>1 DEF Nuevos

LEMMA UnoEnAdmision ==
  ASSUME UnaAdmision, NEW p \in Procesos, traslado[p] = "admitiendo"
  PROVE  EnAdmision = {p} /\ Nuevos = <<p>> \o nuevos
<1>1. EnAdmision = {p}
  BY DEF EnAdmision, UnaAdmision
<1>2. (CHOOSE q \in {p} : TRUE) = p
  OBVIOUS
<1> QED BY <1>1, <1>2 DEF Nuevos

LEMMA DormidosQuietos ==
  ASSUME UNCHANGED block,
         \A p \in Procesos : traslado'[p] = "despertando" <=> traslado[p] = "despertando"
  PROVE  Dormidos' = Dormidos
BY DEF Dormidos

LEMMA CorrenQuietos ==
  ASSUME UNCHANGED <<exec, perdidos>>, EnManoDespacho' = EnManoDespacho,
         \A c \in CPUs : EnManoAtencion(c)' = EnManoAtencion(c)
  PROVE  Corren' = Corren
BY DEF Corren

LEMMA PegarAlInicio ==
  ASSUME NEW S, NEW s \in Seq(S), NEW x \in S
  PROVE  /\ <<x>> \o s # <<>> /\ Head(<<x>> \o s) = x /\ Tail(<<x>> \o s) = s
         /\ \A y \in S : Append(<<x>> \o s, y) = <<x>> \o Append(s, y)
         /\ s # <<>> => <<Head(s)>> \o Tail(s) = s
<1>1. <<x>> \o s # <<>> /\ Head(<<x>> \o s) = x
  OBVIOUS
<1>2. Tail(<<x>> \o s) = s
  OBVIOUS
<1>3. ASSUME NEW y \in S PROVE Append(<<x>> \o s, y) = <<x>> \o Append(s, y)
  OBVIOUS
<1>4. s # <<>> => <<Head(s)>> \o Tail(s) = s
  OBVIOUS
<1> QED BY <1>1, <1>2, <1>3, <1>4

-----------------------------------------------------------------------------
(* The threads that take PCBs from NEW and BLOCK                           *)

LEMMA AbsDeCrearProceso ==
  ASSUME TypeInv, UnaAdmision, NEW p \in Procesos, CrearProceso(p)
  PROVE  [Abs!Next]_(Abs!vars)
<1>1. /\ p \notin creados /\ creados' = creados \cup {p} /\ nuevos' = Append(nuevos, p)
      /\ UNCHANGED <<ready, exec, block, terminados, perdidos, traslado, atiende, despacho>>
      /\ nuevos \in Seq(Procesos)
  BY DEF CrearProceso, hilos, TypeInv, TypeOK, TipoColas
<1>2. Corren' = Corren /\ Dormidos' = Dormidos
  <2>1. EnManoDespacho' = EnManoDespacho /\ \A c \in CPUs : EnManoAtencion(c)' = EnManoAtencion(c)
    BY <1>1 DEF EnManoDespacho, EnManoAtencion
  <2> QED BY <1>1, <2>1, CorrenQuietos, DormidosQuietos
<1>3. Nuevos' = Append(Nuevos, p)
  <2>1. EnAdmision' = EnAdmision
    BY <1>1 DEF EnAdmision
  <2>2. CASE EnAdmision = {}
    BY <1>1, <2>1, <2>2 DEF Nuevos
  <2>3. CASE EnAdmision # {}
    <3>1. PICK q \in Procesos : traslado[q] = "admitiendo"
      BY <2>3 DEF EnAdmision
    <3>2. Nuevos = <<q>> \o nuevos
      BY <3>1, UnoEnAdmision
    <3>3. UnaAdmision' /\ traslado'[q] = "admitiendo"
      BY <1>1, <3>1 DEF UnaAdmision
    <3>4. EnAdmision = {q} /\ EnAdmision' = {q}
      BY <2>1, <3>1, UnoEnAdmision
    <3>5. Nuevos' = <<q>> \o nuevos'
      BY <3>4 DEF Nuevos
    <3> QED BY <1>1, <3>2, <3>5, PegarAlInicio
  <2> QED BY <2>2, <2>3
<1> QED BY <1>1, <1>2, <1>3, AbsCrear

LEMMA AbsDeSacarDeNew ==
  ASSUME TypeInv, LugaresInv, UnaAdmision, SacarDeNew
  PROVE  [Abs!Next]_(Abs!vars) /\ UnaAdmision'
<1> DEFINE p == Head(nuevos)
<1>1. /\ nuevos # <<>> /\ nuevos \in Seq(Procesos) /\ traslado \in [Procesos -> {"nada", "admitiendo", "despertando"}]
      /\ \A q \in Procesos : traslado[q] # "admitiendo"
      /\ traslado' = [traslado EXCEPT ![p] = "admitiendo"] /\ nuevos' = Tail(nuevos)
      /\ UNCHANGED <<creados, ready, exec, block, terminados, perdidos, atiende, despacho>>
  BY DEF SacarDeNew, hilos, TypeInv, TypeOK, TipoColas
<1>2. p \in Procesos /\ p \in Range(nuevos)
  BY <1>1, SacarPrimero DEF LugaresInv, SinRepetidos
<1>3. <<p>> \o Tail(nuevos) = nuevos
  BY <1>1, <1>2, PegarAlInicio
<1> HIDE DEF p
<1>4. traslado[p] = "nada"
  <2>1. EnLugar(p, "NEW", 0)
    BY <1>2 DEF EnLugar
  <2>2. ~EnLugar(p, "TRASLADO", 0)
    BY <1>2, <2>1 DEF LugaresInv, UnSoloLugar
  <2> QED BY <2>2 DEF EnLugar
<1>5. /\ traslado'[p] = "admitiendo"
      /\ \A q \in Procesos : q # p => traslado'[q] = traslado[q]
  BY <1>1, <1>2
<1>6. UnaAdmision'
  BY <1>1, <1>5 DEF UnaAdmision
<1>7. Nuevos = nuevos
  BY <1>1 DEF Nuevos, EnAdmision
<1>8. Nuevos' = <<p>> \o nuevos'
  <2>1. EnAdmision' = {p}
    BY <1>1, <1>2, <1>5 DEF EnAdmision
  <2>2. (CHOOSE q \in {p} : TRUE) = p
    OBVIOUS
  <2> QED BY <2>1, <2>2 DEF Nuevos
<1>9. Dormidos' = Dormidos
  BY <1>1, <1>4, <1>5, DormidosQuietos
<1>10. Corren' = Corren
  <2>1. EnManoDespacho' = EnManoDespacho /\ \A c \in CPUs : EnManoAtencion(c)' = EnManoAtencion(c)
    BY <1>1 DEF EnManoDespacho, EnManoAtencion
  <2> QED BY <1>1, <2>1, CorrenQuietos
<1> QED BY <1>1, <1>3, <1>6, <1>7, <1>8, <1>9, <1>10, AbsQuieto

LEMMA AbsDeSacarDeBlock ==
  ASSUME TypeInv, LugaresInv, UnaAdmision, NEW p \in Procesos, SacarDeBlock(p)
  PROVE  [Abs!Next]_(Abs!vars) /\ UnaAdmision'
<1>1. /\ p \in block /\ block' = block \ {p}
      /\ traslado \in [Procesos -> {"nada", "admitiendo", "despertando"}]
      /\ traslado' = [traslado EXCEPT ![p] = "despertando"]
      /\ UNCHANGED <<creados, nuevos, ready, exec, terminados, perdidos, atiende, despacho>>
  BY DEF SacarDeBlock, hilos, TypeInv, TypeOK, TipoColas
<1>2. traslado[p] = "nada"
  <2>1. EnLugar(p, "BLOCK", 0)
    BY <1>1 DEF EnLugar
  <2>2. ~EnLugar(p, "TRASLADO", 0)
    BY <2>1 DEF LugaresInv, UnSoloLugar
  <2> QED BY <2>2 DEF EnLugar
<1>3. /\ traslado'[p] = "despertando"
      /\ \A q \in Procesos : q # p => traslado'[q] = traslado[q]
  BY <1>1
<1>4. Dormidos' = Dormidos
  BY <1>1, <1>2, <1>3 DEF Dormidos
<1>5. Nuevos' = Nuevos /\ UnaAdmision'
  BY <1>1, <1>2, <1>3, NuevosQuietos DEF UnaAdmision
<1>6. Corren' = Corren
  <2>1. EnManoDespacho' = EnManoDespacho /\ \A c \in CPUs : EnManoAtencion(c)' = EnManoAtencion(c)
    BY <1>1 DEF EnManoDespacho, EnManoAtencion
  <2> QED BY <1>1, <2>1, CorrenQuietos
<1> QED BY <1>1, <1>4, <1>5, <1>6, AbsQuieto

LEMMA AbsDeEncolarTraslado ==
  ASSUME TypeInv, LugaresInv, UnaAdmision, NEW p \in Procesos, EncolarTraslado(p)
  PROVE  [Abs!Next]_(Abs!vars) /\ UnaAdmision'
<1>1. /\ traslado[p] # "nada" /\ ready' = [ready EXCEPT ![ColaDe(p)] = Append(@, p)]
      /\ traslado \in [Procesos -> {"nada", "admitiendo", "despertando"}]
      /\ traslado' = [traslado EXCEPT ![p] = "nada"] /\ nuevos \in Seq(Procesos)
      /\ UNCHANGED <<creados, nuevos, block, exec, terminados, perdidos, atiende, despacho>>
  BY DEF EncolarTraslado, EncolarReady, hilos, TypeInv, TypeOK, TipoColas
<1>2. /\ traslado'[p] = "nada"
      /\ \A q \in Procesos : q # p => traslado'[q] = traslado[q]
  BY <1>1
<1>3. UnaAdmision' /\ Cola[p] = ColaDe(p)
  BY <1>2 DEF UnaAdmision, Cola
<1>4. Corren' = Corren
  <2>1. EnManoDespacho' = EnManoDespacho /\ \A c \in CPUs : EnManoAtencion(c)' = EnManoAtencion(c)
    BY <1>1 DEF EnManoDespacho, EnManoAtencion
  <2> QED BY <1>1, <2>1, CorrenQuietos
<1>5. CASE traslado[p] = "admitiendo"
  <2>1. Nuevos = <<p>> \o nuevos
    BY <1>5, UnoEnAdmision
  <2>2. Nuevos # <<>> /\ Head(Nuevos) = p /\ Tail(Nuevos) = nuevos
    BY <1>1, <2>1, PegarAlInicio
  <2>3. Nuevos' = nuevos
    <3>1. EnAdmision' = {}
      BY <1>2, <1>5 DEF EnAdmision, UnaAdmision
    <3> QED BY <1>1, <3>1 DEF Nuevos
  <2>4. Dormidos' = Dormidos
    BY <1>1, <1>2, <1>5, DormidosQuietos
  <2> QED BY <1>1, <1>3, <1>4, <2>2, <2>3, <2>4, AbsAdmitir
<1>6. CASE traslado[p] = "despertando"
  <2>1. p \notin block
    <3>1. EnLugar(p, "TRASLADO", 0)
      BY <1>1 DEF EnLugar
    <3>2. ~EnLugar(p, "BLOCK", 0)
      BY <3>1 DEF LugaresInv, UnSoloLugar
    <3> QED BY <3>2 DEF EnLugar
  <2>2. p \in Dormidos /\ Dormidos' = Dormidos \ {p}
    BY <1>1, <1>2, <1>6, <2>1 DEF Dormidos
  <2>3. Nuevos' = Nuevos
    BY <1>1, <1>2, <1>6, NuevosQuietos
  <2> QED BY <1>1, <1>3, <1>4, <2>2, <2>3, AbsDespertar
<1> QED BY <1>1, <1>5, <1>6

-----------------------------------------------------------------------------
(* The dispatcher                                                          *)

\* A step of the dispatcher that moves a PCB between its hands, EXEC and nowhere.
LEMMA AbsDelDespacho ==
  ASSUME UNCHANGED <<creados, nuevos, ready, block, terminados, traslado, atiende>>,
         (exec \cup EnManoDespacho \cup perdidos)' = exec \cup EnManoDespacho \cup perdidos
  PROVE  [Abs!Next]_(Abs!vars)
<1>1. \A c \in CPUs : EnManoAtencion(c)' = EnManoAtencion(c)
  BY DEF EnManoAtencion
<1>2. \A q : q \in Corren' <=> q \in Corren
  <2>1. \A q : q \in Corren' <=> \/ q \in (exec \cup EnManoDespacho \cup perdidos)'
                                 \/ \E c \in CPUs : q \in EnManoAtencion(c)'
    BY DEF Corren
  <2> QED BY <1>1, <2>1, CorrenEs
<1>3. Corren' = Corren
  BY <1>2
<1>4. Nuevos' = Nuevos /\ Dormidos' = Dormidos
  BY NuevosQuietos, DormidosQuietos
<1> QED BY <1>3, <1>4, AbsQuieto

LEMMA AbsDeElegirProceso ==
  ASSUME TypeInv, LugaresInv, ElegirProceso
  PROVE  [Abs!Next]_(Abs!vars)
<1> DEFINE i == despacho.nivel
           p == Head(ready[i])
<1>1. /\ i \in Nivel /\ ready \in [Nivel -> Seq(Procesos)] /\ despacho \in Despachos
      /\ despacho.pcb = Ninguno /\ EnManoDespacho = {}
      /\ UNCHANGED <<creados, nuevos, exec, block, terminados, perdidos, traslado, atiende>>
  BY DEF ElegirProceso, TypeInv, TypeOK, TipoColas, TipoHilos, Despachos, LugaresInv,
     DespachoVacio, EnManoDespacho
<1>2. CASE ready[i] = <<>>
  <2>1. \/ despacho' = [despacho EXCEPT !.nivel = i + 1]
        \/ despacho' = [despacho EXCEPT !.fase = "elegirCPU"]
    BY <1>2 DEF ElegirProceso
  <2>2. EnManoDespacho' = EnManoDespacho /\ UNCHANGED ready
    BY <1>1, <1>2, <2>1 DEF ElegirProceso, EnManoDespacho, Despachos
  <2> QED BY <1>1, <2>2, AbsDelDespacho
<1>3. CASE ready[i] # <<>>
  <2>1. /\ ready' = [ready EXCEPT ![i] = Tail(@)]
        /\ despacho' = [despacho EXCEPT !.fase = "elegirCPU", !.pcb = p]
    BY <1>3 DEF ElegirProceso
  <2>2. p \in Procesos
    BY <1>1, <1>3
  <2>3. EnManoDespacho' = {p}
    BY <1>1, <2>1, <2>2, PlanificadorAssumption DEF EnManoDespacho, Despachos
  <2>4. \A c \in CPUs : EnManoAtencion(c)' = EnManoAtencion(c)
    BY <1>1 DEF EnManoAtencion
  <2> HIDE DEF p
  <2>5. Corren' = Corren \cup {p}
    BY <1>1, <2>3, <2>4 DEF Corren
  <2>6. Nuevos' = Nuevos /\ Dormidos' = Dormidos
    BY <1>1, NuevosQuietos, DormidosQuietos
  <2>7. p = Head(ready[i])
    BY DEF p
  <2> QED BY <1>1, <1>3, <2>1, <2>5, <2>6, <2>7, AbsDespachar
<1> QED BY <1>2, <1>3

LEMMA AbsDeDespachar ==
  ASSUME TypeInv, LugaresInv, Despachar
  PROVE  [Abs!Next]_(Abs!vars)
<1>1. despacho \in Despachos
  BY DEF TypeInv, TypeOK, TipoHilos
<1>2. CASE TomarFichas
  <2>1. EnManoDespacho' = EnManoDespacho
    BY <1>1, <1>2 DEF TomarFichas, EnManoDespacho, Despachos
  <2> QED BY <1>2, <2>1, AbsDelDespacho DEF TomarFichas, colas
<1>3. CASE ElegirCPU
  <2>1. EnManoDespacho = {despacho.pcb} \ {Ninguno}
    BY <1>3 DEF ElegirCPU, EnManoDespacho
  <2>2. \/ EnManoDespacho' = EnManoDespacho /\ UNCHANGED perdidos
        \/ EnManoDespacho' = {} /\ perdidos' = perdidos \cup EnManoDespacho
    <3>1. CASE Libres = {}
      <4>1. despacho'.fase = "esperar" /\ perdidos' = perdidos \cup EnManoDespacho
        BY <1>3, <2>1, <3>1 DEF ElegirCPU, DespachoOcioso
      <4> QED BY <4>1 DEF EnManoDespacho
    <3>2. CASE Libres # {} /\ despacho.pcb = Ninguno
      <4>1. despacho'.fase = "esperar" /\ perdidos' = perdidos /\ EnManoDespacho = {}
        BY <1>3, <2>1, <3>2 DEF ElegirCPU, DespachoOcioso
      <4> QED BY <4>1 DEF EnManoDespacho
    <3>3. CASE Libres # {} /\ despacho.pcb # Ninguno
      <4>1. perdidos' = perdidos /\ \E c : despacho' = [despacho EXCEPT !.fase = "asignar", !.cpu = c]
        BY <1>3, <3>3 DEF ElegirCPU
      <4>2. despacho'.fase = "asignar" /\ despacho'.pcb = despacho.pcb
        BY <1>1, <4>1 DEF Despachos
      <4> QED BY <2>1, <4>1, <4>2 DEF EnManoDespacho
    <3> QED BY <3>1, <3>2, <3>3
  <2>3. (exec \cup EnManoDespacho \cup perdidos)' = exec \cup EnManoDespacho \cup perdidos
    BY <1>3, <2>2 DEF ElegirCPU
  <2> QED BY <1>3, <2>3, AbsDelDespacho DEF ElegirCPU
<1>4. CASE AsignarCPU
  <2>1. EnManoDespacho' = EnManoDespacho
    BY <1>1, <1>4 DEF AsignarCPU, EnManoDespacho, Despachos
  <2> QED BY <1>4, <2>1, AbsDelDespacho DEF AsignarCPU, colas
<1>5. CASE EncolarExec
  <2>1. despacho.pcb \in Procesos /\ despacho.pcb # Ninguno
    BY <1>5, PlanificadorAssumption DEF EncolarExec, TypeInv, EnCurso
  <2>2. EnManoDespacho = {despacho.pcb} /\ EnManoDespacho' = {} /\ exec' = exec \cup {despacho.pcb}
    BY <1>1, <1>5, <2>1 DEF EncolarExec, EnManoDespacho, Despachos
  <2>3. (exec \cup EnManoDespacho \cup perdidos)' = exec \cup EnManoDespacho \cup perdidos
    BY <1>5, <2>2 DEF EncolarExec
  <2> QED BY <1>5, <2>3, AbsDelDespacho DEF EncolarExec
<1>6. CASE EnviarProceso \/ Temporizar
  <2>1. EnManoDespacho' = EnManoDespacho
    BY <1>1, <1>6 DEF EnviarProceso, Temporizar, EnManoDespacho, DespachoOcioso, Despachos
  <2> QED BY <1>6, <2>1, AbsDelDespacho DEF EnviarProceso, Temporizar, colas
<1> QED BY <1>2, <1>3, <1>4, <1>5, <1>6, AbsDeElegirProceso DEF Despachar

-----------------------------------------------------------------------------
(* The threads of the CPUs                                                 *)

\* A step that leaves the queues and the hands of the threads alone.
LEMMA AbsSinMudanza ==
  ASSUME UNCHANGED <<colas, despacho>>, \A c \in CPUs : EnManoAtencion(c)' = EnManoAtencion(c)
  PROVE  [Abs!Next]_(Abs!vars)
<1>1. EnManoDespacho' = EnManoDespacho
  BY DEF EnManoDespacho
<1>2. Corren' = Corren /\ Nuevos' = Nuevos /\ Dormidos' = Dormidos
  BY <1>1, CorrenQuietos, NuevosQuietos, DormidosQuietos DEF colas
<1> QED BY <1>2, AbsQuieto DEF colas

LEMMA AbsDeSacarDeExec ==
  ASSUME TypeInv, NEW c \in CPUs, SacarDeExec(c)
  PROVE  [Abs!Next]_(Abs!vars)
<1> DEFINE p == atiende[c].pid
<1>1. CASE p \notin exec
  <2>1. UNCHANGED <<colas, despacho, atiende>>
    BY <1>1 DEF SacarDeExec, colas
  <2>2. \A d \in CPUs : EnManoAtencion(d)' = EnManoAtencion(d)
    BY <2>1 DEF EnManoAtencion
  <2> QED BY <2>1, <2>2, AbsSinMudanza
<1>2. CASE p \in exec
  <2>1. PICK f \in ConPCB : Fase(c, f)
    BY <1>2 DEF SacarDeExec, ConPCB
  <2>2. f \in FasesAtencion /\ f # "recibir" /\ atiende \in [CPUs -> Atenciones]
    BY DEF FasesAtencion, ConPCB, TypeInv, TypeOK, TipoHilos
  <2>3. /\ atiende'[c].fase = f /\ atiende'[c].pid = p
        /\ \A d \in CPUs : d # c => atiende'[d] = atiende[d]
    BY <2>1, <2>2, FaseTipada
  <2>4. /\ EnManoAtencion(c) = {} /\ EnManoAtencion(c)' = {p}
        /\ \A d \in CPUs : d # c => EnManoAtencion(d)' = EnManoAtencion(d)
    BY <2>3 DEF SacarDeExec, EnManoAtencion, ConPCB
  <2>5. /\ exec' = exec \ {p} /\ EnManoDespacho' = EnManoDespacho
        /\ UNCHANGED <<creados, nuevos, ready, block, terminados, perdidos, traslado>>
    BY <1>2 DEF SacarDeExec, EnManoDespacho
  <2> HIDE DEF p
  <2>6. Corren' = Corren
    BY <1>2, <2>4, <2>5 DEF Corren
  <2>7. Nuevos' = Nuevos /\ Dormidos' = Dormidos
    BY <2>5, NuevosQuietos, DormidosQuietos
  <2> QED BY <2>5, <2>6, <2>7, AbsQuieto
<1> QED BY <1>1, <1>2

\* The thread of c puts the PCB it holds in another queue.
LEMMA SueltaDeCorren ==
  ASSUME TypeInv, LugaresInv, NEW c \in CPUs, atiende[c].fase \in ConPCB,
         NEW f \in FasesAtencion \ ConPCB, Fase(c, f), UNCHANGED <<exec, perdidos, despacho>>
  PROVE  /\ atiende[c].pid \in Procesos /\ atiende[c].pid \in Corren
         /\ Corren' = Corren \ {atiende[c].pid}
<1>1. /\ atiende[c].pid \in Procesos /\ EnLugar(atiende[c].pid, "ATENCION", c)
      /\ EnManoAtencion(c) = {atiende[c].pid} /\ EnManoAtencion(c)' = {}
      /\ \A d \in CPUs : d # c => EnManoAtencion(d)' = EnManoAtencion(d)
  BY SueltaPCB
<1> SUFFICES ASSUME NEW p \in Procesos, p = atiende[c].pid
             PROVE  p \in Corren /\ Corren' = Corren \ {p}
  BY <1>1
<1>2. \A k, x : EnLugar(p, k, x) => k = "ATENCION" /\ x = c
  BY <1>1 DEF LugaresInv, UnSoloLugar
<1>3. /\ p \notin exec /\ p \notin perdidos /\ p \notin EnManoDespacho
      /\ \A d \in CPUs : d # c => p \notin EnManoAtencion(d)
  BY <1>2 DEF EnLugar
<1>4. EnManoDespacho' = EnManoDespacho
  BY DEF EnManoDespacho
<1>5. p \in Corren /\ p \notin Corren'
  BY <1>1, <1>3, <1>4 DEF Corren
<1>6. \A q : q # p => (q \in Corren' <=> q \in Corren)
  BY <1>1, <1>4 DEF Corren
<1> QED BY <1>5, <1>6

LEMMA AbsDeEncolarDesalojado ==
  ASSUME TypeInv, LugaresInv, NEW c \in CPUs, EncolarDesalojado(c)
  PROVE  [Abs!Next]_(Abs!vars)
<1> SUFFICES ASSUME NEW p, p = atiende[c].pid PROVE [Abs!Next]_(Abs!vars)
  OBVIOUS
<1>1. Fase(c, "liberar") /\ "liberar" \in FasesAtencion \ ConPCB /\ atiende[c].fase \in ConPCB
  BY DEF EncolarDesalojado, FasesAtencion, ConPCB
<1>2. /\ ready' = [ready EXCEPT ![ColaDe(p)] = Append(@, p)]
      /\ UNCHANGED <<creados, nuevos, exec, block, terminados, perdidos, traslado, despacho>>
  BY DEF EncolarDesalojado, EncolarReady
<1>3. p \in Procesos /\ p \in Corren /\ Corren' = Corren \ {p}
  BY <1>1, <1>2, SueltaDeCorren
<1>4. Cola[p] = ColaDe(p) /\ Nuevos' = Nuevos /\ Dormidos' = Dormidos
  BY <1>2, <1>3, NuevosQuietos, DormidosQuietos DEF Cola
<1> QED BY <1>2, <1>3, <1>4, AbsExpulsar

LEMMA AbsDeBloquear ==
  ASSUME TypeInv, LugaresInv, NEW c \in CPUs, Bloquear(c)
  PROVE  [Abs!Next]_(Abs!vars)
<1> SUFFICES ASSUME NEW p, p = atiende[c].pid PROVE [Abs!Next]_(Abs!vars)
  OBVIOUS
<1>1. PICK f \in FasesAtencion \ ConPCB : Fase(c, f)
  BY DEF Bloquear, FaseFinal, FasesAtencion, ConPCB
<1>2. /\ block' = block \cup {p} /\ atiende[c].fase \in ConPCB
      /\ UNCHANGED <<creados, nuevos, ready, exec, terminados, perdidos, traslado, despacho>>
  BY DEF Bloquear, ConPCB
<1>3. p \in Procesos /\ p \in Corren /\ Corren' = Corren \ {p}
  BY <1>1, <1>2, SueltaDeCorren
<1>4. Dormidos' = Dormidos \cup {p} /\ Nuevos' = Nuevos
  <2>1. Nuevos' = Nuevos
    BY <1>2, NuevosQuietos
  <2> QED BY <1>2, <2>1 DEF Dormidos
<1> QED BY <1>2, <1>3, <1>4, AbsBloquear

LEMMA AbsDeTerminar ==
  ASSUME TypeInv, LugaresInv, NEW c \in CPUs, Terminar(c)
  PROVE  [Abs!Next]_(Abs!vars)
<1> SUFFICES ASSUME NEW p, p = atiende[c].pid PROVE [Abs!Next]_(Abs!vars)
  OBVIOUS
<1>1. PICK f \in FasesAtencion \ ConPCB : Fase(c, f)
  BY DEF Terminar, FaseFinal, FasesAtencion, ConPCB
<1>2. /\ terminados' = terminados \cup {p} /\ atiende[c].fase \in ConPCB
      /\ UNCHANGED <<creados, nuevos, ready, exec, block, perdidos, traslado, despacho>>
  BY DEF Terminar, ConPCB
<1>3. p \in Procesos /\ p \in Corren /\ Corren' = Corren \ {p}
  BY <1>1, <1>2, SueltaDeCorren
<1>4. Dormidos' = Dormidos /\ Nuevos' = Nuevos
  BY <1>2, NuevosQuietos, DormidosQuietos
<1> QED BY <1>2, <1>3, <1>4, AbsTerminar

\* A step of the thread of c that holds no PCB before or after it.
LEMMA AbsSinPCB ==
  ASSUME NEW c \in CPUs, UNCHANGED <<colas, despacho>>,
         atiende[c].fase \notin ConPCB, atiende'[c].fase \notin ConPCB,
         \A d \in CPUs : d # c => atiende'[d] = atiende[d]
  PROVE  [Abs!Next]_(Abs!vars)
<1>1. \A d \in CPUs : EnManoAtencion(d)' = EnManoAtencion(d)
  BY DEF EnManoAtencion, ConPCB
<1> QED BY <1>1, AbsSinMudanza

LEMMA AbsDeAtender ==
  ASSUME TypeInv, LugaresInv, NEW c \in CPUs, Atender(c)
  PROVE  [Abs!Next]_(Abs!vars)
<1>1. CASE RecibirDeCPU(c)
  <2>1. /\ atiende'[c].fase \in {"responder", "liberar", "sacar"}
        /\ \A d \in CPUs : d # c => atiende'[d] = atiende[d]
    BY <1>1 DEF RecibirDeCPU, PrimeraFase, TypeInv, TypeOK, TipoHilos
  <2> QED BY <1>1, <2>1, AbsSinPCB DEF RecibirDeCPU, ConPCB
<1>2. CASE DetectarDesconexion(c)
  <2>1. /\ atiende'[c].fase \in {"quitar", "sacar"}
        /\ \A d \in CPUs : d # c => atiende'[d] = atiende[d]
    BY <1>2 DEF DetectarDesconexion, TypeInv, TypeOK, TipoHilos
  <2> QED BY <1>2, <2>1, AbsSinPCB DEF DetectarDesconexion, ConPCB
<1>3. CASE LiberarCPU(c) \/ Responder(c) \/ QuitarCPU(c)
  <2>1. PICK f \in {"sacar", "recibir", "afuera"} : Fase(c, f)
    BY <1>3 DEF LiberarCPU, Responder, QuitarCPU
  <2>2. f \in FasesAtencion /\ atiende \in [CPUs -> Atenciones]
    BY DEF FasesAtencion, TypeInv, TypeOK, TipoHilos
  <2>3. atiende'[c].fase = f /\ \A d \in CPUs : d # c => atiende'[d] = atiende[d]
    BY <2>1, <2>2, FaseTipada
  <2> QED BY <1>3, <2>3, AbsSinPCB DEF LiberarCPU, Responder, QuitarCPU, ConPCB
<1> QED BY <1>1, <1>2, <1>3, AbsDeSacarDeExec, AbsDeEncolarDesalojado, AbsDeBloquear,
           AbsDeTerminar DEF Atender

\* Everybody else touches no queue.
LEMMA AbsAjenos ==
  ASSUME UNCHANGED <<colas, atiende, despacho>>
  PROVE  [Abs!Next]_(Abs!vars)
<1>1. \A d \in CPUs : EnManoAtencion(d)' = EnManoAtencion(d)
  BY DEF EnManoAtencion
<1> QED BY <1>1, AbsSinMudanza

LEMMA InitAbs == Init => Abs!Init /\ UnaAdmision
<1> SUFFICES ASSUME Init PROVE Abs!Init /\ UnaAdmision
  OBVIOUS
<1>1. UnaAdmision /\ EnAdmision = {}
  BY DEF Init, UnaAdmision, EnAdmision
<1>2. Nuevos = <<>>
  BY <1>1 DEF Init, Nuevos
<1>3. Corren = {} /\ Dormidos = {}
  <2>1. EnManoDespacho = {} /\ \A c \in CPUs : EnManoAtencion(c) = {}
    BY DEF Init, EnManoDespacho, EnManoAtencion, DespachoOcioso
  <2> QED BY <2>1 DEF Init, Corren, Dormidos
<1> QED BY <1>1, <1>2, <1>3 DEF Init, Abs!Init, Nuevos, Corren, Dormidos

LEMMA PasoAbs ==
  TypeInv /\ LugaresInv /\ UnaAdmision /\ [Next]_vars => [Abs!Next]_(Abs!vars) /\ UnaAdmision'
<1> SUFFICES ASSUME TypeInv, LugaresInv, UnaAdmision, [Next]_vars
             PROVE  [Abs!Next]_(Abs!vars) /\ UnaAdmision'
  OBVIOUS
<1>1. CASE Trasladar
  <2>1. ASSUME NEW p \in Procesos, CrearProceso(p) PROVE [Abs!Next]_(Abs!vars) /\ UnaAdmision'
    BY <2>1, AbsDeCrearProceso DEF CrearProceso, UnaAdmision
  <2> QED BY <1>1, <2>1, AbsDeSacarDeNew, AbsDeSacarDeBlock, AbsDeEncolarTraslado DEF Trasladar
<1>2. CASE Despachar
  <2>1. UNCHANGED traslado
    BY <1>2 DEF Despachar, TomarFichas, ElegirProceso, ElegirCPU, AsignarCPU, EncolarExec,
       EnviarProceso, Temporizar, colas
  <2> QED BY <1>2, <2>1, AbsDeDespachar DEF UnaAdmision
<1>3. ASSUME NEW c \in CPUs, Atender(c) PROVE [Abs!Next]_(Abs!vars) /\ UnaAdmision'
  <2>1. UNCHANGED traslado
    BY <1>3 DEF Atender, RecibirDeCPU, DetectarDesconexion, LiberarCPU, SacarDeExec,
       EncolarDesalojado, Bloquear, Terminar, Responder, QuitarCPU, colas
  <2> QED BY <1>3, <2>1, AbsDeAtender DEF UnaAdmision
<1>4. ASSUME NEW c \in CPUs, ConectarCPU(c) PROVE [Abs!Next]_(Abs!vars) /\ UnaAdmision'
  <2>1. Fase(c, "recibir") /\ "recibir" \in FasesAtencion /\ atiende \in [CPUs -> Atenciones]
    BY <1>4 DEF ConectarCPU, FasesAtencion, TypeInv, TypeOK, TipoHilos
  <2>2. atiende'[c].fase = "recibir" /\ \A d \in CPUs : d # c => atiende'[d] = atiende[d]
    BY <2>1, FaseTipada
  <2>3. [Abs!Next]_(Abs!vars)
    BY <1>4, <2>2, AbsSinPCB DEF ConectarCPU, ConPCB
  <2> QED BY <1>4, <2>3 DEF ConectarCPU, UnaAdmision, colas
<1>5. CASE UNCHANGED <<colas, atiende, despacho>>
  BY <1>5, AbsAjenos DEF UnaAdmision, colas
<1>6. CASE Monitorear
  <2>1. UNCHANGED <<colas, atiende, despacho>>
    BY <1>6 DEF Monitorear, MonitorSolo, EsperarReadyPrioridad, MirarCPUs, ElegirVictima,
       BuscarMasPrioritario, UbicarVictima, NotificarPrioridad, ComprobarEnExec, EsperarDesalojo
  <2> QED BY <1>5, <2>1
<1>7. CASE UNCHANGED vars
  BY <1>5, <1>7 DEF vars, hilos
<1>8. ASSUME NEW c \in CPUs, EjecutarCPU(c) \/ Reloj(c)
      PROVE  [Abs!Next]_(Abs!vars) /\ UnaAdmision'
  BY <1>4, <1>5, <1>8, AjenosNoTocan DEF EjecutarCPU
<1> QED BY <1>1, <1>2, <1>3, <1>6, <1>7, <1>8 DEF Next

\* The dispatcher, the handlers, the timers and the monitor together do what the abstract
\* scheduler does in one step: a PCB leaves its queue and reaches the next one of its life
\* cycle, READY is first-in first-out, and every other step is invisible.
THEOREM SeImplementaCortoPlazo == Spec => ImplementaCortoPlazo
<1>1. Init => TypeInv /\ LugaresInv /\ UnaAdmision /\ Abs!Init
  BY InitTypeInv, InitLugares, InitAbs
<1>2. TypeInv /\ LugaresInv /\ UnaAdmision /\ [Next]_vars
        => TypeInv' /\ LugaresInv' /\ UnaAdmision' /\ [Abs!Next]_(Abs!vars)
  BY PasoTypeInv, PasoLugares, PasoAbs
<1> QED BY <1>1, <1>2, PTL DEF Spec, ImplementaCortoPlazo, Abs!Spec
=============================================================================
