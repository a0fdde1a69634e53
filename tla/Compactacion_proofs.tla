------------------------ MODULE Compactacion_proofs ------------------------
(***************************************************************************)
(* Proofs about Compactacion, for any processes, CPUs and numbers of calls. *)
(***************************************************************************)
EXTENDS Compactacion, ColasPCB, FiniteSetTheorems, TLAPS

\* What TypeOK needs to be inductive: a thread past its first steps holds a process, and
\* a CPU; a handler holds a pid that was not in EXEC only if the kernel has just died.
EnCurso ==
  /\ despacho.fase \in {"elegirCPU", "asignar", "encolarExec", "enviar"}
       => despacho.pcb \in Procesos
  /\ despacho.fase \in {"asignar", "encolarExec", "enviar"} => despacho.cpu \in CPUs
  /\ oyente.fase # "recibir" => oyente.pid \in Procesos
  /\ \A c \in CPUs : atiende[c].fase = "encolar" => atiende[c].pid \in Procesos \/ caida

TypeInv == TypeOK /\ EnCurso

LEMMA InitTypeInv == Init => TypeInv
<1> SUFFICES ASSUME Init PROVE TypeInv
  OBVIOUS
<1>1. /\ AtencionOciosa \in Atenciones /\ DespachoOcioso \in Despachos
      /\ OyenteOcioso \in Oyentes
  BY DEF AtencionOciosa, Atenciones, DespachoOcioso, Despachos, OyenteOcioso, Oyentes, Pid
<1>2. Cardinality(Procesos) \in Nat /\ Cardinality(CPUs) \in Nat
  BY CompactacionAssumption, FS_CardinalityType
<1>3. ready \in Seq(Procesos)
  BY <1>2 DEF Init
<1>5. TypeOK
  <2>1. TipoColas /\ TipoHilos BY <1>1, <1>3 DEF Init, TipoColas, TipoHilos
  <2>2. TipoCPUs BY DEF Init, TipoCPUs, Pid
  <2>3. TipoSems /\ TipoKM BY <1>2 DEF Init, TipoSems, TipoKM, Pid
  <2> QED BY <2>1, <2>2, <2>3 DEF Init, TypeOK
<1>4. EnCurso
  BY DEF Init, EnCurso, AtencionOciosa, DespachoOcioso, OyenteOcioso
<1> QED BY <1>4, <1>5 DEF TypeInv

-----------------------------------------------------------------------------
(* What the actions share.                                                 *)

\* The groups of variables an action leaves alone.
LEMMA TipoIgual ==
  /\ TipoColas /\ UNCHANGED colas => TipoColas'
  /\ TipoCPUs /\ UNCHANGED cpus => TipoCPUs'
  /\ TipoHilos /\ UNCHANGED hilos => TipoHilos'
  /\ TipoSems /\ UNCHANGED sems => TipoSems'
  /\ TipoKM /\ UNCHANGED <<km, pedidos>> => TipoKM'
  BY DEF TipoColas, TipoCPUs, TipoHilos, TipoSems, TipoKM, colas, cpus, hilos, sems, km

\* A send keeps a socket typed.
LEMMA MandarTipado ==
  ASSUME NEW S, NEW canal \in [CPUs -> Seq(S)], NEW c \in CPUs, NEW o, NEW p,
         [op |-> o, pid |-> p] \in S
  PROVE  Mandar(canal, c, o, p) \in [CPUs -> Seq(S)]
<1>1. Append(canal[c], [op |-> o, pid |-> p]) \in Seq(S)
  OBVIOUS
<1> QED BY <1>1 DEF Mandar, Msj

\* A read takes the head of a socket.
LEMMA SacarTipado ==
  ASSUME NEW S, NEW canal \in [CPUs -> Seq(S)], NEW c \in CPUs, canal[c] # <<>>
  PROVE  Head(canal[c]) \in S /\ [canal EXCEPT ![c] = Tail(@)] \in [CPUs -> Seq(S)]
<1>1. Head(canal[c]) \in S /\ Tail(canal[c]) \in Seq(S)
  OBVIOUS
<1> QED BY <1>1

LEMMA AtencionTipada ==
  ASSUME atiende \in [CPUs -> Atenciones], NEW c \in CPUs, NEW p \in Pid,
         NEW f \in {"recibir", "liberarYSacar", "sacar", "encolar", "liberar"}, Atencion(c, f, p)
  PROVE  /\ atiende' \in [CPUs -> Atenciones]
         /\ atiende'[c].fase = f /\ atiende'[c].pid = p
         /\ \A d \in CPUs : d # c => atiende'[d] = atiende[d]
  BY DEF Atencion, Atenciones

-----------------------------------------------------------------------------
(* The dispatcher and the monitor                                          *)

LEMMA TipoTomarFichas ==
  ASSUME TypeInv, TomarFichas PROVE TypeInv'
<1> USE DEF TypeInv, TypeOK
<1>1. TipoSems' BY DEF TomarFichas, TipoSems
<1>2. TipoHilos' /\ EnCurso' BY DEF TomarFichas, TipoHilos, Despachos, EnCurso
<1>3. TipoColas' /\ TipoCPUs' /\ TipoKM' BY TipoIgual DEF TomarFichas
<1> QED BY <1>1, <1>2, <1>3 DEF TomarFichas

LEMMA TipoMirarBandera ==
  ASSUME TypeInv, MirarBandera PROVE TypeInv'
<1> USE DEF TypeInv, TypeOK
<1>1. TipoSems' BY DEF MirarBandera, TipoSems
<1>2. TipoHilos' /\ EnCurso' BY DEF MirarBandera, TipoHilos, Despachos, EnCurso
<1>3. TipoColas' /\ TipoCPUs' /\ TipoKM' BY TipoIgual DEF MirarBandera
<1> QED BY <1>1, <1>2, <1>3 DEF MirarBandera

LEMMA TipoDormir ==
  ASSUME TypeInv, Dormir PROVE TypeInv'
<1> USE DEF TypeInv, TypeOK
<1>1. TipoSems' BY DEF Dormir, TipoSems
<1>2. DespachoOcioso \in Despachos BY DEF DespachoOcioso, Despachos, Pid
<1>3. TipoHilos' /\ EnCurso'
  BY <1>2 DEF Dormir, TipoHilos, DespachoOcioso, EnCurso
<1>4. TipoColas' /\ TipoCPUs' /\ TipoKM' BY TipoIgual DEF Dormir
<1> QED BY <1>1, <1>3, <1>4 DEF Dormir

LEMMA TipoElegirProceso ==
  ASSUME TypeInv, ElegirProceso PROVE TypeInv'
<1> USE DEF TypeInv, TypeOK
<1>1. Head(ready) \in Procesos /\ Tail(ready) \in Seq(Procesos)
  BY DEF ElegirProceso, TipoColas
<1>2. TipoColas' BY <1>1 DEF ElegirProceso, TipoColas
<1>3. TipoHilos' /\ EnCurso' BY <1>1 DEF ElegirProceso, TipoHilos, Despachos, EnCurso, Pid
<1>4. TipoCPUs' /\ TipoSems' /\ TipoKM' BY TipoIgual DEF ElegirProceso
<1> QED BY <1>2, <1>3, <1>4 DEF ElegirProceso

LEMMA TipoElegirCPU ==
  ASSUME TypeInv, ElegirCPU PROVE TypeInv'
<1> USE DEF TypeInv, TypeOK
<1>1. DespachoOcioso \in Despachos BY DEF DespachoOcioso, Despachos, Pid
<1>2. TipoColas' BY DEF ElegirCPU, TipoColas, EnCurso
<1>3. TipoCPUs' BY DEF ElegirCPU, TipoCPUs
<1>4. TipoHilos' /\ EnCurso'
  <2>1. CASE despacho' = DespachoOcioso
    BY <1>1, <2>1 DEF ElegirCPU, TipoHilos, EnCurso, DespachoOcioso
  <2>2. CASE \E c \in Libres : despacho' = [despacho EXCEPT !.fase = "asignar", !.cpu = c]
    BY <2>2 DEF ElegirCPU, TipoHilos, Despachos, EnCurso, Libres
  <2> QED BY <2>1, <2>2 DEF ElegirCPU
<1>5. TipoSems' /\ TipoKM' BY TipoIgual DEF ElegirCPU
<1> QED BY <1>2, <1>3, <1>4, <1>5 DEF ElegirCPU

LEMMA TipoAsignarCPU ==
  ASSUME TypeInv, AsignarCPU PROVE TypeInv'
<1> USE DEF TypeInv, TypeOK
<1>1. TipoCPUs' BY DEF AsignarCPU, TipoCPUs, EnCurso, Pid
<1>2. TipoHilos' /\ EnCurso' BY DEF AsignarCPU, TipoHilos, Despachos, EnCurso
<1>3. TipoColas' /\ TipoSems' /\ TipoKM' BY TipoIgual DEF AsignarCPU
<1> QED BY <1>1, <1>2, <1>3 DEF AsignarCPU

LEMMA TipoEncolarExec ==
  ASSUME TypeInv, EncolarExec PROVE TypeInv'
<1> USE DEF TypeInv, TypeOK
<1>1. TipoColas' BY DEF EncolarExec, TipoColas, EnCurso
<1>2. TipoHilos' /\ EnCurso' BY DEF EncolarExec, TipoHilos, Despachos, EnCurso
<1>3. TipoCPUs' /\ TipoSems' /\ TipoKM' BY TipoIgual DEF EncolarExec
<1> QED BY <1>1, <1>2, <1>3 DEF EncolarExec

LEMMA TipoEnviarProceso ==
  ASSUME TypeInv, EnviarProceso PROVE TypeInv'
<1> USE DEF TypeInv, TypeOK
<1>1. DespachoOcioso \in Despachos BY DEF DespachoOcioso, Despachos, Pid
<1>2. aCPU' \in [CPUs -> Seq(Mensaje)]
  BY MandarTipado DEF EnviarProceso, TipoCPUs, EnCurso, Pid, Mensaje
<1>3. TipoCPUs' BY <1>2 DEF EnviarProceso, TipoCPUs
<1>4. TipoHilos' /\ EnCurso' BY <1>1 DEF EnviarProceso, TipoHilos, EnCurso, DespachoOcioso
<1>5. TipoColas' /\ TipoSems' /\ TipoKM' BY TipoIgual DEF EnviarProceso
<1> QED BY <1>3, <1>4, <1>5 DEF EnviarProceso

LEMMA TipoMonitor ==
  ASSUME TypeInv, VerBandera \/ DespertarMonitor PROVE TypeInv'
<1> USE DEF TypeInv, TypeOK
<1>1. TipoSems' BY DEF VerBandera, DespertarMonitor, TipoSems, sems
<1>2. TipoHilos' /\ EnCurso' BY DEF VerBandera, DespertarMonitor, TipoHilos, EnCurso
<1>3. TipoColas' /\ TipoCPUs' /\ TipoKM' BY TipoIgual DEF VerBandera, DespertarMonitor
<1> QED BY <1>1, <1>2, <1>3 DEF VerBandera, DespertarMonitor

-----------------------------------------------------------------------------
(* The CPUs and the threads that attend them                               *)

LEMMA TipoServir ==
  ASSUME TypeInv, NEW c \in CPUs, RecibirEnEspera(c) \/ AtenderInterrupcion(c) PROVE TypeInv'
<1> USE DEF TypeInv, TypeOK
<1> DEFINE m == Head(aCPU[c])
<1>0. /\ aCPU \in [CPUs -> Seq(Mensaje)] /\ aCPU[c] # <<>>
      /\ aCPU' = [aCPU EXCEPT ![c] = Tail(@)]
  BY DEF RecibirEnEspera, AtenderInterrupcion, TipoCPUs
<1>1. m \in Mensaje /\ aCPU' \in [CPUs -> Seq(Mensaje)]
  BY <1>0, SacarTipado
<1>2. m.pid \in Pid /\ [op |-> m.op, pid |-> m.pid] \in Respuesta
  BY <1>1 DEF Respuesta, Mensaje
<1>3. Mandar(aKS, c, m.op, m.pid) \in [CPUs -> Seq(Respuesta)]
  BY <1>2, MandarTipado DEF TipoCPUs
<1>4. aKS' \in [CPUs -> Seq(Respuesta)]
  BY <1>3 DEF RecibirEnEspera, AtenderInterrupcion, TipoCPUs
<1>5. corre' \in [CPUs -> Pid]
  BY <1>2 DEF RecibirEnEspera, AtenderInterrupcion, TipoCPUs, Pid
<1>6. TipoCPUs'
  BY <1>1, <1>4, <1>5 DEF RecibirEnEspera, AtenderInterrupcion, TipoCPUs
<1>7. TipoColas' /\ TipoHilos' /\ TipoSems' /\ TipoKM'
  BY TipoIgual DEF RecibirEnEspera, AtenderInterrupcion
<1>8. EnCurso' BY DEF RecibirEnEspera, AtenderInterrupcion, EnCurso, hilos
<1> QED BY <1>6, <1>7, <1>8 DEF RecibirEnEspera, AtenderInterrupcion

LEMMA TipoPedirSyscall ==
  ASSUME TypeInv, NEW c \in CPUs, NEW op \in Llamadas, PedirSyscall(c, op) PROVE TypeInv'
<1> USE DEF TypeInv, TypeOK
<1>1. corre[c] \in Procesos /\ [op |-> op, pid |-> corre[c]] \in Respuesta
  BY DEF PedirSyscall, TipoCPUs, Pid, Respuesta
<1>2. aKS' \in [CPUs -> Seq(Respuesta)]
  BY <1>1, MandarTipado DEF PedirSyscall, TipoCPUs
<1>3. TipoCPUs' BY <1>2 DEF PedirSyscall, TipoCPUs, Pid
<1>4. TipoKM' BY <1>1 DEF PedirSyscall, TipoKM, km
<1>5. TipoColas' /\ TipoHilos' /\ TipoSems' BY TipoIgual DEF PedirSyscall
<1>6. EnCurso' BY DEF PedirSyscall, EnCurso, hilos
<1> QED BY <1>3, <1>4, <1>5, <1>6 DEF PedirSyscall

LEMMA TipoRecibirDeCPU ==
  ASSUME TypeInv, ~caida, NEW c \in CPUs, RecibirDeCPU(c) PROVE TypeInv'
<1> USE DEF TypeInv, TypeOK
<1> DEFINE m == Head(aKS[c])
<1>1. m \in Respuesta /\ aKS' \in [CPUs -> Seq(Respuesta)]
  BY SacarTipado DEF RecibirDeCPU, TipoCPUs
<1>2. m.pid \in Pid /\ (m.op \in Llamadas => m.pid \in Procesos)
  BY <1>1 DEF Respuesta, Pid, Llamadas
<1>3. m.op = "MEM_ALLOC" => m.pid \in Procesos
  BY <1>2 DEF Llamadas
<1>4. Mandar(aCPU, c, "EJECUTAR", m.pid)
        \in [CPUs -> Seq(Mensaje)]
  BY <1>2, MandarTipado DEF TipoCPUs, Mensaje
<1>5. TipoCPUs' BY <1>1, <1>4 DEF RecibirDeCPU, TipoCPUs
<1>6. TipoColas' BY DEF RecibirDeCPU, TipoColas
<1>7. TipoKM'
  <2>1. CASE m.op = "MEM_ALLOC"
    <3>1. Msj("CREAR", m.pid) \in PedidoKM
      BY <1>3, <2>1 DEF Msj, PedidoKM
    <3>2. Append(aKM, Msj("CREAR", m.pid)) \in Seq(PedidoKM)
      BY <3>1 DEF TipoKM
    <3> QED BY <2>1, <3>2 DEF RecibirDeCPU, TipoKM
  <2>2. CASE m.op # "MEM_ALLOC"
    BY <2>2 DEF RecibirDeCPU, TipoKM
  <2> QED BY <2>1, <2>2
<1>8. /\ atiende' \in [CPUs -> Atenciones]
      /\ \A d \in CPUs : d # c => atiende'[d] = atiende[d]
      /\ atiende'[c].fase = "encolar" => atiende'[c].pid \in Procesos \/ caida'
  <2>1. CASE m.op = "EXIT_PROC"
    BY <1>2, <2>1, AtencionTipada DEF RecibirDeCPU, TipoHilos
  <2>2. CASE m.op = "COMPACTAR"
    BY <1>2, <2>2, AtencionTipada DEF RecibirDeCPU, TipoHilos, TipoColas
  <2>3. CASE m.op \notin {"EXIT_PROC", "COMPACTAR"}
    BY <2>3 DEF RecibirDeCPU, TipoHilos
  <2> QED BY <2>1, <2>2, <2>3
<1>9. TipoHilos' BY <1>8 DEF RecibirDeCPU, TipoHilos
<1>10. EnCurso' BY <1>8 DEF RecibirDeCPU, EnCurso
<1>11. compactando' \in BOOLEAN /\ caida' \in BOOLEAN BY DEF RecibirDeCPU
<1>12. TipoSems' BY TipoIgual DEF RecibirDeCPU
<1> QED BY <1>5, <1>6, <1>7, <1>9, <1>10, <1>11, <1>12

LEMMA TipoEncolarAlInicio ==
  ASSUME TypeInv, ~caida, NEW c \in CPUs, EncolarAlInicio(c) PROVE TypeInv'
<1> USE DEF TypeInv, TypeOK
<1>1. atiende[c].pid \in Procesos BY DEF EncolarAlInicio, EnCurso
<1>2. <<atiende[c].pid>> \o ready \in Seq(Procesos) BY <1>1 DEF TipoColas
<1>3. TipoColas' BY <1>2 DEF EncolarAlInicio, TipoColas
<1>4. TipoSems' BY DEF EncolarAlInicio, TipoSems
<1>5. /\ atiende' \in [CPUs -> Atenciones]
      /\ \A d \in CPUs : atiende'[d].fase = "encolar" => atiende'[d] = atiende[d]
  BY AtencionTipada DEF EncolarAlInicio, TipoHilos, Pid
<1>6. TipoHilos' BY <1>5 DEF EncolarAlInicio, TipoHilos
<1>7. EnCurso' BY <1>5 DEF EncolarAlInicio, EnCurso
<1>8. TipoCPUs' /\ TipoKM' BY TipoIgual DEF EncolarAlInicio
<1> QED BY <1>3, <1>4, <1>6, <1>7, <1>8 DEF EncolarAlInicio

LEMMA TipoLiberarCPU ==
  ASSUME TypeInv, NEW c \in CPUs, LiberarCPU(c) PROVE TypeInv'
<1> USE DEF TypeInv, TypeOK
<1>1. TipoCPUs' BY DEF LiberarCPU, TipoCPUs, Pid
<1>2. TipoSems' BY DEF LiberarCPU, TipoSems
<1>3. /\ atiende' \in [CPUs -> Atenciones]
      /\ \A d \in CPUs : atiende'[d].fase = "encolar" => atiende'[d] = atiende[d]
  <2>1. atiende[c].pid \in Pid BY DEF TipoHilos, Atenciones
  <2>2. CASE atiende[c].fase = "liberar"
    BY <2>1, <2>2, AtencionTipada DEF LiberarCPU, TipoHilos
  <2>3. CASE atiende[c].fase # "liberar"
    BY <2>1, <2>3, AtencionTipada DEF LiberarCPU, TipoHilos
  <2> QED BY <2>2, <2>3
<1>4. TipoHilos' BY <1>3 DEF LiberarCPU, TipoHilos
<1>5. EnCurso' BY <1>3 DEF LiberarCPU, EnCurso
<1>6. TipoColas' /\ TipoKM' BY TipoIgual DEF LiberarCPU
<1> QED BY <1>1, <1>2, <1>4, <1>5, <1>6 DEF LiberarCPU

LEMMA TipoFinalizar ==
  ASSUME TypeInv, ~caida, NEW c \in CPUs, Finalizar(c) PROVE TypeInv'
<1> USE DEF TypeInv, TypeOK
<1>1. TipoColas' BY DEF Finalizar, TipoColas
<1>2. /\ atiende' \in [CPUs -> Atenciones]
      /\ \A d \in CPUs : atiende'[d].fase = "encolar" => atiende'[d] = atiende[d]
  BY AtencionTipada DEF Finalizar, TipoHilos, Pid
<1>3. TipoHilos' BY <1>2 DEF Finalizar, TipoHilos
<1>4. EnCurso' BY <1>2 DEF Finalizar, EnCurso
<1>5. TipoCPUs' /\ TipoSems' /\ TipoKM' BY TipoIgual DEF Finalizar
<1>6. caida' \in BOOLEAN BY DEF Finalizar
<1> QED BY <1>1, <1>3, <1>4, <1>5, <1>6 DEF Finalizar

-----------------------------------------------------------------------------
(* The listener of kernel_memory, and kernel_memory                        *)

\* A step of the listener that leaves it idle, or with a process.
LEMMA OyenteTipado ==
  ASSUME TypeInv, OyenteSolo,
         aCPU' \in [CPUs -> Seq(Mensaje)], TipoSems', oyente' \in Oyentes,
         aKM' \in Seq(PedidoKM), deKM' \in Seq(AvisoKM), compactando' \in BOOLEAN,
         oyente'.fase # "recibir" => oyente'.pid \in Procesos
  PROVE  TypeInv'
<1> USE DEF TypeInv, TypeOK
<1>1. TipoColas' BY TipoIgual DEF OyenteSolo
<1>2. TipoCPUs' /\ TipoHilos' /\ TipoKM' BY DEF OyenteSolo, TipoCPUs, TipoHilos, TipoKM
<1>3. EnCurso' BY DEF OyenteSolo, EnCurso
<1> QED BY <1>1, <1>2, <1>3 DEF OyenteSolo

LEMMA RecibirTipado ==
  ASSUME TypeInv, NEW op, Recibir(op)
  PROVE  Head(deKM).pid \in Procesos /\ deKM' \in Seq(AvisoKM)
<1>1. Head(deKM) \in AvisoKM /\ Tail(deKM) \in Seq(AvisoKM)
  BY DEF Recibir, TypeInv, TypeOK, TipoKM
<1> QED BY <1>1 DEF Recibir, AvisoKM

LEMMA TipoEscuchar ==
  ASSUME TypeInv, Escuchar PROVE TypeInv'
<1> USE DEF TypeInv, TypeOK
<1>1. /\ aCPU \in [CPUs -> Seq(Mensaje)] /\ oyente \in Oyentes /\ compactando \in BOOLEAN
      /\ aKM \in Seq(PedidoKM) /\ deKM \in Seq(AvisoKM)
      /\ asignado \in [CPUs -> Pid]
      /\ oyente.fase # "recibir" => oyente.pid \in Procesos
  BY DEF TipoCPUs, TipoHilos, TipoKM, EnCurso
<1>2. OyenteOcioso \in Oyentes /\ OyenteOcioso.fase = "recibir"
  BY DEF OyenteOcioso, Oyentes, Pid
<1>3. UNCHANGED sems => TipoSems' BY TipoIgual
<1>4. CASE RecibirInicio
  <2>1. Head(deKM).pid \in Procesos /\ deKM' \in Seq(AvisoKM)
    BY <1>4, RecibirTipado DEF RecibirInicio
  <2>2. oyente' \in Oyentes /\ oyente'.pid \in Procesos
    BY <1>1, <1>4, <2>1 DEF RecibirInicio, Oyentes, Pid
  <2> QED BY <1>1, <1>3, <1>4, <2>1, <2>2, OyenteTipado DEF RecibirInicio
<1>5. CASE RecibirFin
  <2>1. deKM' \in Seq(AvisoKM) BY <1>5, RecibirTipado DEF RecibirFin
  <2>2. TipoSems' BY <1>5 DEF RecibirFin, TipoSems
  <2> QED BY <1>1, <1>5, <2>1, <2>2, OyenteTipado DEF RecibirFin
<1>6. CASE RecibirCreado
  <2>1. Head(deKM).pid \in Procesos /\ deKM' \in Seq(AvisoKM)
    BY <1>6, RecibirTipado DEF RecibirCreado
  <2>2. oyente' \in Oyentes /\ (oyente'.fase # "recibir" => oyente'.pid \in Procesos)
    BY <1>1, <1>6, <2>1 DEF RecibirCreado, CPUsDe, Oyentes, Pid
  <2> QED BY <1>1, <1>3, <1>6, <2>1, <2>2, OyenteTipado DEF RecibirCreado
<1>7. CASE EnviarCreado
  <2>1. PICK c \in oyente.cpus : aCPU' = Mandar(aCPU, c, "EJECUTAR", oyente.pid)
    BY <1>7 DEF EnviarCreado
  <2>2. c \in CPUs /\ [op |-> "EJECUTAR", pid |-> oyente.pid] \in Mensaje
    BY <1>1, <2>1 DEF Oyentes, Mensaje
  <2>3. aCPU' \in [CPUs -> Seq(Mensaje)] BY <1>1, <2>1, <2>2, MandarTipado
  <2> QED BY <1>1, <1>2, <1>3, <1>7, <2>3, OyenteTipado DEF EnviarCreado
<1>8. CASE ListarOcupadas
  <2>1. oyente' \in Oyentes /\ oyente'.pid \in Procesos
    BY <1>1, <1>8 DEF ListarOcupadas, Oyentes
  <2> QED BY <1>1, <1>3, <1>8, <2>1, OyenteTipado DEF ListarOcupadas
<1>9. CASE Desalojar
  <2>1. oyente' \in Oyentes /\ oyente'.pid \in Procesos
    BY <1>1, <1>9 DEF Desalojar, Oyentes
  <2>2. aCPU' \in [CPUs -> Seq(Mensaje)]
    <3>1. ASSUME NEW c \in oyente.cpus, aCPU' = Mandar(aCPU, c, "COMPACTAR", asignado[c])
          PROVE  aCPU' \in [CPUs -> Seq(Mensaje)]
      <4>1. c \in CPUs BY <1>1 DEF Oyentes
      <4>2. [op |-> "COMPACTAR", pid |-> asignado[c]] \in Mensaje BY <1>1, <4>1 DEF Mensaje
      <4> QED BY <1>1, <3>1, <4>1, <4>2, MandarTipado
    <3> QED BY <1>1, <1>9, <3>1 DEF Desalojar
  <2> QED BY <1>1, <1>3, <1>9, <2>1, <2>2, OyenteTipado DEF Desalojar
<1>10. CASE AvisarDesalojadas
  <2>1. Msj("MOVER", oyente.pid) \in PedidoKM
    BY <1>1, <1>10 DEF AvisarDesalojadas, Msj, PedidoKM
  <2>2. aKM' \in Seq(PedidoKM) BY <1>1, <1>10, <2>1 DEF AvisarDesalojadas
  <2> QED BY <1>1, <1>2, <1>3, <1>10, <2>2, OyenteTipado DEF AvisarDesalojadas
<1> QED BY <1>4, <1>5, <1>6, <1>7, <1>8, <1>9, <1>10 DEF Escuchar

LEMMA TipoAtenderKM ==
  ASSUME TypeInv, AtenderKM PROVE TypeInv'
<1> USE DEF TypeInv, TypeOK
<1>1. UNCHANGED <<colas, cpus, hilos, sems, compactando, caida, pedidos>>
  BY DEF AtenderKM, AtenderCreacion, IniciarCompactacion, TerminarCompactacion
<1>2. aKM # <<>> => Head(aKM).pid \in Procesos /\ Tail(aKM) \in Seq(PedidoKM)
  <2> SUFFICES ASSUME aKM # <<>> PROVE Head(aKM).pid \in Procesos /\ Tail(aKM) \in Seq(PedidoKM)
    OBVIOUS
  <2>1. Head(aKM) \in PedidoKM /\ Tail(aKM) \in Seq(PedidoKM) BY DEF TipoKM
  <2> QED BY <2>1 DEF PedidoKM
<1>3. \A p \in Procesos : \A op \in {"CREADO", "INICIAR", "COMPACTADO"} : Msj(op, p) \in AvisoKM
  BY DEF Msj, AvisoKM
<1>4. TipoKM'
  <2>1. CASE AtenderCreacion
    <3> DEFINE p == Head(aKM).pid
    <3>1. p \in Procesos /\ Tail(aKM) \in Seq(PedidoKM) BY <1>2, <2>1 DEF AtenderCreacion
    <3>2. <<Msj("CREADO", p)>> \in Seq(AvisoKM) /\ AvisarCompactacion(p) \in Seq(AvisoKM)
      BY <1>3, <3>1 DEF AvisarCompactacion
    <3>3. deKM \in Seq(AvisoKM) BY DEF TipoKM
    <3> HIDE DEF p
    <3>4. /\ deKM \o <<Msj("CREADO", p)>> \in Seq(AvisoKM)
          /\ deKM \o AvisarCompactacion(p) \o <<Msj("CREADO", p)>> \in Seq(AvisoKM)
      BY <3>2, <3>3
    <3>5. deKM' \in Seq(AvisoKM) BY <2>1, <3>4 DEF AtenderCreacion, p
    <3> QED BY <1>1, <2>1, <3>1, <3>5 DEF AtenderCreacion, TipoKM
  <2>2. CASE IniciarCompactacion
    BY <1>1, <1>2, <2>2 DEF IniciarCompactacion, TipoKM, Pid
  <2>3. CASE TerminarCompactacion
    <3>1. moviendo \in Procesos BY <2>3 DEF TerminarCompactacion, TipoKM, Pid
    <3>2. Append(deKM, Msj("COMPACTADO", moviendo)) \in Seq(AvisoKM)
      BY <1>3, <3>1 DEF TipoKM
    <3> QED BY <1>1, <2>3, <3>2 DEF TerminarCompactacion, TipoKM, Pid
  <2> QED BY <2>1, <2>2, <2>3 DEF AtenderKM
<1>5. TipoColas' /\ TipoCPUs' /\ TipoHilos' /\ TipoSems' BY <1>1, TipoIgual
<1>6. EnCurso' BY <1>1 DEF EnCurso, hilos
<1> QED BY <1>1, <1>4, <1>5, <1>6

LEMMA PasoTypeInv == TypeInv /\ [Next]_vars => TypeInv'
<1> SUFFICES ASSUME TypeInv, [Next]_vars PROVE TypeInv'
  OBVIOUS
<1>1. CASE Despachar
  BY <1>1, TipoTomarFichas, TipoMirarBandera, TipoDormir, TipoElegirProceso, TipoElegirCPU,
     TipoAsignarCPU, TipoEncolarExec, TipoEnviarProceso DEF Despachar
<1>2. CASE VerBandera \/ DespertarMonitor BY <1>2, TipoMonitor
<1>3. CASE Escuchar BY <1>3, TipoEscuchar
<1>4. CASE AtenderKM BY <1>4, TipoAtenderKM
<1>5. ASSUME ~caida, NEW c \in CPUs, Atender(c) PROVE TypeInv'
  BY <1>5, TipoRecibirDeCPU, TipoEncolarAlInicio, TipoLiberarCPU, TipoFinalizar DEF Atender
<1>6. ASSUME NEW c \in CPUs, Servir(c) PROVE TypeInv' BY <1>6, TipoServir DEF Servir
<1>7. ASSUME NEW c \in CPUs, NEW op \in Llamadas, PedirSyscall(c, op) PROVE TypeInv'
  BY <1>7, TipoPedirSyscall
<1>8. CASE UNCHANGED vars
  <2>1. TipoColas' /\ TipoCPUs' /\ TipoHilos' /\ TipoSems' /\ TipoKM'
    BY <1>8, TipoIgual DEF vars, TypeInv, TypeOK
  <2>2. EnCurso' BY <1>8 DEF vars, hilos, EnCurso, TypeInv
  <2> QED BY <1>8, <2>1, <2>2 DEF vars, TypeInv, TypeOK
<1> QED BY <1>1, <1>2, <1>3, <1>4, <1>5, <1>6, <1>7, <1>8 DEF Next

\* The state of every thread, socket and semaphore stays in its type: in particular no
\* semaphore goes below zero, kernel_memory is only asked about processes, and a pid that
\* reencolarAlInicio did not find goes to no queue of a kernel that is still alive.
THEOREM TipoCorrecto == Spec => []TypeOK
<1>1. TypeInv => TypeOK BY DEF TypeInv
<1> QED BY <1>1, InitTypeInv, PasoTypeInv, PTL DEF Spec

-----------------------------------------------------------------------------
(* The tokens of READY and of the CPUs                                     *)

\* Only the dispatcher, LiberarCPU and EncolarAlInicio touch what the two semaphores count.
LEMMA AjenosALasFichas ==
  ASSUME \/ VerBandera \/ DespertarMonitor \/ Escuchar \/ AtenderKM \/ UNCHANGED vars
         \/ \E c \in CPUs : \/ RecibirDeCPU(c) \/ Finalizar(c) \/ Servir(c)
                            \/ \E op \in Llamadas : PedirSyscall(c, op)
  PROVE  UNCHANGED <<ready, despacho, hayReady, hayCPU, libre>>
<1>1. CASE VerBandera \/ DespertarMonitor \/ UNCHANGED vars
  BY <1>1 DEF VerBandera, DespertarMonitor, vars, colas, cpus, hilos, sems
<1>2. CASE Escuchar
  BY <1>2 DEF Escuchar, RecibirInicio, RecibirFin, RecibirCreado, EnviarCreado, ListarOcupadas,
     Desalojar, AvisarDesalojadas, OyenteSolo, colas, sems
<1>3. CASE AtenderKM
  BY <1>3 DEF AtenderKM, AtenderCreacion, IniciarCompactacion, TerminarCompactacion, colas,
     cpus, hilos, sems
<1>4. ASSUME NEW c \in CPUs, \/ RecibirDeCPU(c) \/ Finalizar(c) \/ Servir(c)
                             \/ \E op \in Llamadas : PedirSyscall(c, op)
      PROVE  UNCHANGED <<ready, despacho, hayReady, hayCPU, libre>>
  BY <1>4 DEF RecibirDeCPU, Finalizar, Servir, RecibirEnEspera, AtenderInterrupcion,
     PedirSyscall, colas, cpus, hilos, sems
<1> QED BY <1>1, <1>2, <1>3, <1>4

\* Where each step takes the dispatcher.
LEMMA FasesDelDespacho ==
  ASSUME TypeInv
  PROVE  /\ TomarFichas => despacho'.fase = "mirar"
         /\ MirarBandera /\ compactando => despacho'.fase = "dormir"
         /\ MirarBandera /\ ~compactando => despacho'.fase = "elegir"
         /\ ElegirProceso => despacho'.fase = "elegirCPU"
         /\ ElegirCPU => despacho'.fase \in {"asignar", "esperar"}
         /\ AsignarCPU => despacho'.fase = "encolarExec"
         /\ EncolarExec => despacho'.fase = "enviar"
         /\ Dormir \/ EnviarProceso => despacho'.fase = "esperar"
<1>1. despacho \in Despachos BY DEF TypeInv, TypeOK, TipoHilos
<1>2. ASSUME NEW f PROVE [despacho EXCEPT !.fase = f].fase = f
  BY <1>1 DEF Despachos
<1>3. ASSUME NEW f, NEW x PROVE /\ [despacho EXCEPT !.fase = f, !.pcb = x].fase = f
                                /\ [despacho EXCEPT !.fase = f, !.cpu = x].fase = f
  BY <1>1 DEF Despachos
<1>4. DespachoOcioso.fase = "esperar" BY DEF DespachoOcioso
<1>5. ElegirCPU => despacho'.fase \in {"asignar", "esperar"} BY <1>3, <1>4 DEF ElegirCPU
<1>6. MirarBandera /\ compactando => despacho'.fase = "dormir"
  BY <1>2 DEF MirarBandera
<1>7. MirarBandera /\ ~compactando => despacho'.fase = "elegir"
  BY <1>2 DEF MirarBandera
<1>8. TomarFichas => despacho'.fase = "mirar" BY <1>2 DEF TomarFichas
<1>9. ElegirProceso => despacho'.fase = "elegirCPU" BY <1>3 DEF ElegirProceso
<1>10. AsignarCPU => despacho'.fase = "encolarExec" BY <1>2 DEF AsignarCPU
<1>11. EncolarExec => despacho'.fase = "enviar" BY <1>2 DEF EncolarExec
<1>12. Dormir \/ EnviarProceso => despacho'.fase = "esperar"
  BY <1>4 DEF Dormir, EnviarProceso
<1> QED BY <1>5, <1>6, <1>7, <1>8, <1>9, <1>10, <1>11, <1>12

LEMMA PasoFichasDeReady == TypeInv /\ FichasDeReady /\ [Next]_vars => FichasDeReady'
<1> SUFFICES ASSUME TypeInv, FichasDeReady, [Next]_vars PROVE FichasDeReady'
  OBVIOUS
<1>1. ready \in Seq(Procesos) /\ hayReady \in Nat /\ despacho \in Despachos
  BY DEF TypeInv, TypeOK, TipoColas, TipoSems, TipoHilos
<1>2. CASE Despachar
  <2>1. CASE TomarFichas \/ MirarBandera
    BY <1>1, <2>1 DEF TomarFichas, MirarBandera, Despachos, FichasDeReady, colas
  <2>2. CASE ElegirProceso
    <3>1. Len(Tail(ready)) = Len(ready) - 1 BY <1>1, <2>2 DEF ElegirProceso
    <3> QED BY <1>1, <2>2, <3>1 DEF ElegirProceso, Despachos, FichasDeReady, sems
  <2>3. CASE Dormir \/ ElegirCPU \/ AsignarCPU \/ EncolarExec \/ EnviarProceso
    <3>1. UNCHANGED <<ready, hayReady>> /\ despacho.fase \notin {"mirar", "elegir"}
      BY <2>3 DEF Dormir, ElegirCPU, AsignarCPU, EncolarExec, EnviarProceso, colas, sems
    <3>2. despacho'.fase \notin {"mirar", "elegir"} BY <2>3, FasesDelDespacho
    <3> QED BY <3>1, <3>2 DEF FichasDeReady
  <2> QED BY <1>2, <2>1, <2>2, <2>3 DEF Despachar
<1>3. ASSUME ~caida, NEW c \in CPUs, EncolarAlInicio(c) PROVE FichasDeReady'
  <2>1. atiende[c].pid \in Procesos BY <1>3 DEF EncolarAlInicio, TypeInv, EnCurso
  <2>2. Len(<<atiende[c].pid>> \o ready) = Len(ready) + 1 BY <1>1, <2>1
  <2> QED BY <1>1, <1>3, <2>2 DEF EncolarAlInicio, FichasDeReady
<1>4. ASSUME NEW c \in CPUs, LiberarCPU(c) PROVE FichasDeReady'
  BY <1>4 DEF LiberarCPU, FichasDeReady, colas
<1>5. CASE UNCHANGED <<ready, despacho, hayReady, hayCPU, libre>>
  BY <1>5 DEF FichasDeReady
<1> QED BY <1>2, <1>3, <1>4, <1>5, AjenosALasFichas DEF Next, Atender

\* sem_hayProcesosEnReady counts READY, although eviction fills it outside of the usual
\* pushes and the dispatcher gives back a token it took before it saw the flag.
THEOREM FichasExactas == Spec => []FichasDeReady
<1>1. Init => FichasDeReady
  <2> SUFFICES ASSUME Init PROVE FichasDeReady
    OBVIOUS
  <2>1. Cardinality(Procesos) \in Nat BY CompactacionAssumption, FS_CardinalityType
  <2>2. Len(ready) = Cardinality(Procesos) BY <2>1 DEF Init
  <2> QED BY <2>1, <2>2 DEF Init, FichasDeReady, DespachoOcioso
<1> QED BY <1>1, InitTypeInv, PasoTypeInv, PasoFichasDeReady, PTL DEF Spec

LEMMA LibresFinito ==
  IsFiniteSet(Libres) /\ Cardinality(Libres) \in Nat
  BY CompactacionAssumption, FS_Subset, FS_CardinalityType DEF Libres

LEMMA PasoCPULibreAnunciada == TypeInv /\ CPULibreAnunciada /\ [Next]_vars => CPULibreAnunciada'
<1> SUFFICES ASSUME TypeInv, CPULibreAnunciada, [Next]_vars PROVE CPULibreAnunciada'
  OBVIOUS
<1>1. libre \in [CPUs -> BOOLEAN] /\ hayCPU \in Nat /\ despacho \in Despachos
  BY DEF TypeInv, TypeOK, TipoCPUs, TipoSems, TipoHilos
<1>2. UNCHANGED libre => Libres' = Libres
  BY DEF Libres
<1>3. CASE Despachar
  <2>1. CASE TomarFichas \/ MirarBandera \/ ElegirProceso
    <3>1. Libres' = Libres
      BY <1>2, <2>1 DEF TomarFichas, MirarBandera, ElegirProceso, cpus
    <3> QED BY <1>1, <2>1, <3>1, LibresFinito, FasesDelDespacho DEF TomarFichas, MirarBandera,
               ElegirProceso, CPULibreAnunciada, sems
  <2>2. CASE ElegirCPU
    <3>1. ASSUME NEW c \in Libres, libre' = [libre EXCEPT ![c] = FALSE],
                 despacho' = [despacho EXCEPT !.fase = "asignar", !.cpu = c]
          PROVE  CPULibreAnunciada'
      <4>1. Libres' = Libres \ {c} BY <1>1, <3>1 DEF Libres
      <4>2. Cardinality(Libres') = Cardinality(Libres) - 1
        BY <3>1, <4>1, LibresFinito, FS_RemoveElement
      <4>3. despacho.fase = "elegirCPU" /\ hayCPU' = hayCPU /\ despacho'.fase # "mirar"
            /\ despacho'.fase # "elegir" /\ despacho'.fase # "elegirCPU"
        BY <2>2, FasesDelDespacho DEF ElegirCPU, sems
      <4> QED BY <1>1, <4>2, <4>3, LibresFinito DEF CPULibreAnunciada
    <3>2. ASSUME Libres = {}, despacho' = DespachoOcioso, UNCHANGED libre
          PROVE  CPULibreAnunciada'
      <4>1. Cardinality(Libres') = 0 BY <1>2, <3>2, FS_EmptySet
      <4> QED BY <1>1, <2>2, <3>2, <4>1 DEF ElegirCPU, DespachoOcioso, CPULibreAnunciada, sems
    <3> QED BY <2>2, <3>1, <3>2 DEF ElegirCPU
  <2>3. CASE Dormir \/ AsignarCPU \/ EncolarExec \/ EnviarProceso
    <3>1. Libres' = Libres
      BY <1>2, <2>3 DEF Dormir, AsignarCPU, EncolarExec, EnviarProceso, cpus
    <3>2. /\ hayCPU' = hayCPU
          /\ {"mirar", "elegir", "elegirCPU"} \cap {despacho.fase, despacho'.fase} = {}
      BY <1>1, <2>3 DEF Dormir, AsignarCPU, EncolarExec, EnviarProceso, Despachos,
         DespachoOcioso, sems
    <3> QED BY <1>1, <3>1, <3>2 DEF CPULibreAnunciada
  <2> QED BY <1>3, <2>1, <2>2, <2>3 DEF Despachar
<1>4. ASSUME NEW c \in CPUs, LiberarCPU(c) PROVE CPULibreAnunciada'
  <2>1. Libres' = Libres \cup {c} BY <1>1, <1>4 DEF LiberarCPU, Libres
  <2>2. Cardinality(Libres') <= Cardinality(Libres) + 1
    BY <2>1, LibresFinito, FS_AddElement
  <2>3. IsFiniteSet(Libres') BY <2>1, LibresFinito, FS_AddElement
  <2>4. Cardinality(Libres') \in Nat BY <2>3, FS_CardinalityType
  <2> QED BY <1>1, <1>4, <2>2, <2>4, LibresFinito DEF LiberarCPU, CPULibreAnunciada
<1>5. ASSUME NEW c \in CPUs, EncolarAlInicio(c) PROVE CPULibreAnunciada'
  BY <1>2, <1>5 DEF EncolarAlInicio, CPULibreAnunciada, cpus
<1>6. CASE UNCHANGED <<ready, despacho, hayReady, hayCPU, libre>>
  BY <1>2, <1>6 DEF CPULibreAnunciada
<1> QED BY <1>3, <1>4, <1>5, <1>6, AjenosALasFichas DEF Next, Atender

\* Whatever the dispatcher gives back or keeps when it meets the flag, and however often a
\* CPU is freed, each free CPU has a post of sem_hayCPUdisponible or the dispatcher has it.
THEOREM NingunaCPUOlvidada == Spec => []CPULibreAnunciada
<1>1. Init => CPULibreAnunciada
  <2> SUFFICES ASSUME Init PROVE CPULibreAnunciada
    OBVIOUS
  <2>1. Libres = CPUs BY DEF Init, Libres
  <2>2. Cardinality(CPUs) \in Nat BY CompactacionAssumption, FS_CardinalityType
  <2> QED BY <2>1, <2>2 DEF Init, CPULibreAnunciada, DespachoOcioso
<1> QED BY <1>1, InitTypeInv, PasoTypeInv, PasoCPULibreAnunciada, PTL DEF Spec

-----------------------------------------------------------------------------
(* The end of the compaction                                               *)

\* AlgunoDespierta without the set: the two sleep only while the flag is set, or with a
\* post to take; and only a monitor that runs sleeps.
DespertarInv ==
  /\ monitor = "dormir" => HayMonitor
  /\ ~compactando /\ despacho.fase = "dormir" /\ (monitor = "dormir" \/ ~HayMonitor)
       => terminada > 0

LEMMA PasoDespertar == TypeInv /\ DespertarInv /\ [Next]_vars => DespertarInv'
<1> SUFFICES ASSUME TypeInv, DespertarInv, [Next]_vars PROVE DespertarInv'
  OBVIOUS
<1>1. terminada \in Nat /\ despacho \in Despachos
  BY DEF TypeInv, TypeOK, TipoSems, TipoHilos
<1>2. CASE Despachar
  <2>1. CASE MirarBandera
    BY <1>1, <2>1 DEF MirarBandera, Despachos, DespertarInv
  <2>2. CASE \/ TomarFichas \/ Dormir \/ ElegirProceso \/ ElegirCPU \/ AsignarCPU
             \/ EncolarExec \/ EnviarProceso
    <3>1. despacho'.fase # "dormir" BY <2>2, FasesDelDespacho
    <3>2. UNCHANGED monitor
      BY <2>2 DEF TomarFichas, Dormir, ElegirProceso, ElegirCPU, AsignarCPU, EncolarExec,
         EnviarProceso
    <3> QED BY <3>1, <3>2 DEF DespertarInv
  <2> QED BY <1>2, <2>1, <2>2 DEF Despachar
<1>3. CASE VerBandera \/ DespertarMonitor
  BY <1>3 DEF VerBandera, DespertarMonitor, DespertarInv
<1>4. CASE Escuchar
  BY <1>1, <1>4 DEF Escuchar, RecibirInicio, RecibirFin, RecibirCreado, EnviarCreado,
     ListarOcupadas, Desalojar, AvisarDesalojadas, OyenteSolo, DespertarInv, sems
<1>5. CASE AtenderKM
  BY <1>5 DEF AtenderKM, AtenderCreacion, IniciarCompactacion, TerminarCompactacion, hilos,
     sems, DespertarInv
<1>6. ASSUME NEW c \in CPUs, \/ Atender(c) \/ Servir(c)
                             \/ \E op \in Llamadas : PedirSyscall(c, op)
      PROVE  DespertarInv'
  <2>1. UNCHANGED <<monitor, despacho, compactando, terminada>>
    BY <1>6 DEF Atender, Servir, RecibirDeCPU, EncolarAlInicio, LiberarCPU, Finalizar,
       RecibirEnEspera, AtenderInterrupcion, PedirSyscall, hilos, sems
  <2> QED BY <2>1 DEF DespertarInv
<1>7. CASE UNCHANGED vars
  BY <1>7 DEF vars, hilos, sems, DespertarInv
<1> QED BY <1>2, <1>3, <1>4, <1>5, <1>6, <1>7 DEF Next

LEMMA DespertarBasta == TypeInv /\ DespertarInv => AlgunoDespierta
<1> SUFFICES ASSUME TypeInv, DespertarInv, ~compactando, Cardinality(Esperan) = 2
             PROVE  terminada > 0
  BY DEF AlgunoDespierta
<1>1. Cardinality({}) = 0 /\ Cardinality({"despacho"}) = 1 /\ Cardinality({"monitor"}) = 1
  BY FS_EmptySet, FS_Singleton
<1>2. \/ Esperan = {} \/ Esperan = {"despacho"} \/ Esperan = {"monitor"}
      \/ despacho.fase = "dormir" /\ (monitor = "dormir" \/ ~HayMonitor)
  BY DEF Esperan
<1>3. despacho.fase = "dormir" /\ (monitor = "dormir" \/ ~HayMonitor)
  BY <1>1, <1>2
<1> QED BY <1>3 DEF DespertarInv

\* One compaction gives one post to two threads, and a flag read without a lock decides
\* who waits for it: they never both wait for a post that is not coming.
THEOREM AlguienSigue == Spec => []AlgunoDespierta
<1>1. Init => DespertarInv BY DEF Init, DespertarInv, DespachoOcioso
<1> QED BY <1>1, InitTypeInv, PasoTypeInv, PasoDespertar, DespertarBasta, PTL DEF Spec

-----------------------------------------------------------------------------
(* Where the PCBs are while a compaction empties the CPUs                  *)

\* p is in the k-th place of CadaPCBEnUnLugar; the hands of the threads that attend the
\* CPUs are one place for each CPU, so two of them never hold the same PCB.
EnLugar(p, k, x) ==
  \/ k = 1 /\ x = Ninguno /\ p \in Range(ready)
  \/ k = 2 /\ x = Ninguno /\ p \in exec
  \/ k = 3 /\ x = Ninguno /\ p \in terminados
  \/ k = 4 /\ x = Ninguno /\ p \in perdidos
  \/ k = 5 /\ x = Ninguno /\ p \in EnManoDespacho
  \/ k = 6 /\ x \in CPUs /\ atiende[x].fase = "encolar" /\ atiende[x].pid = p

UnSoloLugar ==
  \A p \in Procesos :
    /\ \E k, x : EnLugar(p, k, x)
    /\ \A k, x, k2, x2 : EnLugar(p, k, x) /\ EnLugar(p, k2, x2) => k = k2 /\ x = x2

LugaresInv == (caida \/ UnSoloLugar) /\ IsInjective(ready)

LEMMA UnSoloLugarBasta == LugaresInv => CadaPCBEnUnLugar
<1> SUFFICES ASSUME LugaresInv, NEW p \in Procesos, ~caida
             PROVE  Cardinality({i \in 1 .. 6 : p \in <<Range(ready), exec, terminados, perdidos,
                                                 EnManoDespacho, EnManoAtencion>>[i]}) = 1
  BY DEF CadaPCBEnUnLugar, LugaresInv
<1> DEFINE T == <<Range(ready), exec, terminados, perdidos, EnManoDespacho, EnManoAtencion>>
<1>1. p \in EnManoAtencion <=> \E c \in CPUs : atiende[c].fase = "encolar" /\ atiende[c].pid = p
  BY DEF EnManoAtencion
<1>2. /\ T[1] = Range(ready) /\ T[2] = exec /\ T[3] = terminados /\ T[4] = perdidos
      /\ T[5] = EnManoDespacho /\ T[6] = EnManoAtencion
  OBVIOUS
<1>3. \A i : i \in 1 .. 6 <=> i \in {1, 2, 3, 4, 5, 6}
  OBVIOUS
<1> HIDE DEF T
<1>4. \A i \in 1 .. 6 : p \in T[i] <=> \E x : EnLugar(p, i, x)
  BY <1>1, <1>2, <1>3 DEF EnLugar
<1>5. \A k, x : EnLugar(p, k, x) => k \in 1 .. 6
  BY <1>3 DEF EnLugar
<1>6. PICK j \in 1 .. 6 : p \in T[j] /\ \A i \in 1 .. 6 : p \in T[i] => i = j
  BY <1>4, <1>5 DEF LugaresInv, UnSoloLugar
<1>7. {i \in 1 .. 6 : p \in T[i]} = {j}
  BY <1>6
<1> QED BY <1>7, FS_Singleton DEF T

\* A step takes p from place x of kind k to place x2 of kind k2, and moves nothing else.
Muda(p, k, x, k2, x2) ==
  /\ EnLugar(p, k, x)
  /\ \A q \in Procesos : \A l, y :
       EnLugar(q, l, y)' <=> \/ EnLugar(q, l, y) /\ ~(q = p /\ l = k /\ y = x)
                             \/ q = p /\ l = k2 /\ y = x2

LEMMA Mudanza ==
  ASSUME UnSoloLugar, NEW p \in Procesos, NEW k, NEW x, NEW k2, NEW x2, Muda(p, k, x, k2, x2)
  PROVE  UnSoloLugar'
<1> SUFFICES ASSUME NEW q \in Procesos
             PROVE  /\ \E l, y : EnLugar(q, l, y)'
                    /\ \A l, y, l2, y2 : EnLugar(q, l, y)' /\ EnLugar(q, l2, y2)'
                                           => l = l2 /\ y = y2
  BY DEF UnSoloLugar
<1>1. CASE q = p
  BY <1>1 DEF UnSoloLugar, Muda
<1>2. CASE q # p
  BY <1>2 DEF UnSoloLugar, Muda
<1> QED BY <1>1, <1>2

\* A step that leaves the queues and the hands of the threads alone.
LEMMA SinMudanza ==
  ASSUME LugaresInv, ~caida, UNCHANGED colas, EnManoDespacho' = EnManoDespacho,
         \A c \in CPUs : \/ atiende'[c] = atiende[c]
                         \/ atiende[c].fase # "encolar" /\ atiende'[c].fase # "encolar"
  PROVE  LugaresInv'
<1>1. \A q \in Procesos : \A l, y : EnLugar(q, l, y)' <=> EnLugar(q, l, y)
  BY DEF EnLugar, colas
<1>2. UnSoloLugar'
  BY <1>1 DEF LugaresInv, UnSoloLugar
<1> QED BY <1>2 DEF LugaresInv, colas

LEMMA InitLugares == Init => LugaresInv
<1> SUFFICES ASSUME Init PROVE LugaresInv
  OBVIOUS
<1> DEFINE n == Cardinality(Procesos)
<1>1. n \in Nat BY CompactacionAssumption, FS_CardinalityType
<1>2. IsFiniteSet(1 .. n) /\ Cardinality(1 .. n) = n
  BY <1>1, FS_Interval
<1>3. ready \in [1 .. n -> Procesos] /\ IsInjective(ready) BY DEF Init
<1>4. Range(ready) = Procesos
  <2>1. ready \in Injection(1 .. n, Procesos) BY <1>3 DEF Injection, IsInjective
  <2>2. ready \in Surjection(1 .. n, Procesos)
    BY <1>2, <2>1, CompactacionAssumption, FS_Injection
  <2> QED BY <1>3, <2>2 DEF Surjection, Range
<1>5. EnManoDespacho = {} BY DEF Init, EnManoDespacho, DespachoOcioso
<1>6. \A c \in CPUs : atiende[c].fase # "encolar" BY DEF Init, AtencionOciosa
<1>7. UnSoloLugar
  BY <1>4, <1>5, <1>6 DEF Init, UnSoloLugar, EnLugar
<1> QED BY <1>3, <1>7 DEF LugaresInv

-----------------------------------------------------------------------------
(* The dispatcher                                                          *)

\* What it holds, before and after each step.
LEMMA ManoDelDespacho ==
  ASSUME TypeInv
  PROVE  /\ TomarFichas \/ MirarBandera \/ Dormir \/ EnviarProceso
              => EnManoDespacho = {} /\ EnManoDespacho' = {}
         /\ ElegirProceso => EnManoDespacho = {} /\ EnManoDespacho' = {Head(ready)}
         /\ AsignarCPU => EnManoDespacho' = EnManoDespacho
         /\ EncolarExec => EnManoDespacho = {despacho.pcb} /\ EnManoDespacho' = {}
         /\ ElegirCPU => EnManoDespacho = {despacho.pcb}
<1>1. despacho \in Despachos BY DEF TypeInv, TypeOK, TipoHilos
<1>2. TomarFichas \/ MirarBandera \/ Dormir \/ EnviarProceso
        => EnManoDespacho = {} /\ EnManoDespacho' = {}
  <2>1. TomarFichas \/ MirarBandera \/ Dormir \/ EnviarProceso
          => despacho.fase \notin {"elegirCPU", "asignar", "encolarExec"}
    BY DEF TomarFichas, MirarBandera, Dormir, EnviarProceso
  <2>2. TomarFichas \/ MirarBandera \/ Dormir \/ EnviarProceso
          => despacho'.fase \notin {"elegirCPU", "asignar", "encolarExec"}
    BY FasesDelDespacho
  <2> QED BY <2>1, <2>2 DEF EnManoDespacho
<1>3. ElegirProceso => EnManoDespacho = {} /\ EnManoDespacho' = {Head(ready)}
  BY <1>1 DEF ElegirProceso, EnManoDespacho, Despachos
<1>4. AsignarCPU => EnManoDespacho' = EnManoDespacho
  BY <1>1 DEF AsignarCPU, EnManoDespacho, Despachos
<1>5. EncolarExec => EnManoDespacho = {despacho.pcb} /\ EnManoDespacho' = {}
  BY <1>1 DEF EncolarExec, EnManoDespacho, Despachos
<1>6. ElegirCPU => EnManoDespacho = {despacho.pcb}
  BY DEF ElegirCPU, EnManoDespacho
<1> QED BY <1>2, <1>3, <1>4, <1>5, <1>6

LEMMA LugaresElegirProceso ==
  ASSUME TypeInv, LugaresInv, ~caida, ElegirProceso
  PROVE  LugaresInv'
<1> DEFINE p == Head(ready)
<1>1. /\ p \in Range(ready) /\ p \in Procesos
      /\ Range(ready') = Range(ready) \ {p} /\ IsInjective(ready')
  BY SacarPrimero DEF ElegirProceso, TypeInv, TypeOK, TipoColas, LugaresInv
<1>2. EnManoDespacho = {} /\ EnManoDespacho' = {p} BY ManoDelDespacho
<1> HIDE DEF p
<1>3. Muda(p, 1, Ninguno, 5, Ninguno)
  BY <1>1, <1>2 DEF ElegirProceso, Muda, EnLugar
<1> QED BY <1>1, <1>3, Mudanza DEF LugaresInv

LEMMA LugaresElegirCPU ==
  ASSUME TypeInv, LugaresInv, ~caida, ElegirCPU
  PROVE  LugaresInv'
<1> DEFINE p == despacho.pcb
<1>1. despacho \in Despachos /\ p \in Procesos /\ EnManoDespacho = {p}
      /\ UNCHANGED <<ready, exec, terminados, atiende>>
  BY ManoDelDespacho DEF ElegirCPU, TypeInv, TypeOK, TipoHilos, EnCurso
<1>2. ASSUME NEW c, despacho' = [despacho EXCEPT !.fase = "asignar", !.cpu = c],
             UNCHANGED perdidos
      PROVE  LugaresInv'
  <2>1. EnManoDespacho' = EnManoDespacho
    BY <1>1, <1>2 DEF EnManoDespacho, Despachos
  <2> QED BY <1>1, <1>2, <2>1, SinMudanza DEF colas
<1>3. ASSUME despacho' = DespachoOcioso, perdidos' = perdidos \cup {p}
      PROVE  LugaresInv'
  <2>1. EnManoDespacho' = {} BY <1>3 DEF EnManoDespacho, DespachoOcioso
  <2> HIDE DEF p
  <2>2. Muda(p, 5, Ninguno, 4, Ninguno)
    BY <1>1, <1>3, <2>1 DEF Muda, EnLugar
  <2> QED BY <1>1, <2>2, Mudanza DEF LugaresInv
<1> QED BY <1>2, <1>3 DEF ElegirCPU

LEMMA LugaresEncolarExec ==
  ASSUME TypeInv, LugaresInv, ~caida, EncolarExec
  PROVE  LugaresInv'
<1> DEFINE p == despacho.pcb
<1>1. p \in Procesos /\ EnManoDespacho = {p} /\ EnManoDespacho' = {} /\ exec' = exec \cup {p}
  BY ManoDelDespacho DEF EncolarExec, TypeInv, EnCurso
<1> HIDE DEF p
<1>2. Muda(p, 5, Ninguno, 2, Ninguno)
  BY <1>1 DEF EncolarExec, Muda, EnLugar
<1> QED BY <1>1, <1>2, Mudanza DEF EncolarExec, LugaresInv

LEMMA LugaresDespachar ==
  ASSUME TypeInv, LugaresInv, ~caida, Despachar
  PROVE  LugaresInv'
<1>1. CASE TomarFichas \/ MirarBandera \/ Dormir \/ AsignarCPU \/ EnviarProceso
  <2>1. EnManoDespacho' = EnManoDespacho BY <1>1, ManoDelDespacho
  <2>2. UNCHANGED <<colas, atiende>>
    BY <1>1 DEF TomarFichas, MirarBandera, Dormir, AsignarCPU, EnviarProceso
  <2> QED BY <2>1, <2>2, SinMudanza
<1> QED BY <1>1, LugaresElegirProceso, LugaresElegirCPU, LugaresEncolarExec DEF Despachar

-----------------------------------------------------------------------------
(* The threads that attend the CPUs                                        *)

\* A pid that the eviction does not find in EXEC is the end of the kernel.
LEMMA LugaresRecibirDeCPU ==
  ASSUME TypeInv, LugaresInv, ~caida, NEW c \in CPUs, RecibirDeCPU(c)
  PROVE  LugaresInv'
<1> DEFINE m == Head(aKS[c])
<1>1. UNCHANGED <<ready, terminados, perdidos>> /\ EnManoDespacho' = EnManoDespacho
  BY DEF RecibirDeCPU, EnManoDespacho
<1>2. atiende \in [CPUs -> Atenciones] /\ atiende[c].fase = "recibir" /\ exec \subseteq Procesos
  BY DEF RecibirDeCPU, TypeInv, TypeOK, TipoHilos, TipoColas
<1>3. CASE m.op = "COMPACTAR"
  <2>1. exec' = exec \ {m.pid} /\ caida' = (m.pid \notin exec) /\ Atencion(c, "encolar", m.pid)
    BY <1>3 DEF RecibirDeCPU
  <2>2. CASE m.pid \notin exec
    BY <1>1, <2>1, <2>2 DEF LugaresInv
  <2>3. CASE m.pid \in exec
    <3> DEFINE p == m.pid
    <3>1. p \in Procesos /\ p \in exec /\ exec' = exec \ {p} BY <1>2, <2>1, <2>3
    <3>2. /\ atiende'[c].fase = "encolar" /\ atiende'[c].pid = p
          /\ \A d \in CPUs : d # c => atiende'[d] = atiende[d]
      BY <1>2, <2>1, <3>1, AtencionTipada DEF Pid
    <3> HIDE DEF p
    <3>3. Muda(p, 2, Ninguno, 6, c)
      BY <1>1, <1>2, <3>1, <3>2 DEF Muda, EnLugar
    <3> QED BY <1>1, <3>1, <3>3, Mudanza DEF LugaresInv
  <2> QED BY <2>2, <2>3
<1>4. CASE m.op # "COMPACTAR"
  <2>1. UNCHANGED <<exec, caida>> BY <1>4 DEF RecibirDeCPU
  <2>2. atiende' = atiende \/ Atencion(c, "liberarYSacar", m.pid)
    BY <1>4 DEF RecibirDeCPU
  <2>3. /\ atiende' = atiende \/ atiende'[c].fase = "liberarYSacar"
        /\ \A d \in CPUs : d # c => atiende'[d] = atiende[d]
    BY <1>2, <2>2 DEF Atencion
  <2> QED BY <1>1, <1>2, <2>1, <2>3, SinMudanza DEF colas
<1> QED BY <1>3, <1>4

LEMMA LugaresEncolarAlInicio ==
  ASSUME TypeInv, LugaresInv, ~caida, NEW c \in CPUs, EncolarAlInicio(c)
  PROVE  LugaresInv'
<1> DEFINE p == atiende[c].pid
<1>1. p \in Procesos /\ atiende \in [CPUs -> Atenciones] /\ ready \in Seq(Procesos)
      /\ EnManoDespacho' = EnManoDespacho /\ ready' = <<p>> \o ready
  BY DEF EncolarAlInicio, TypeInv, TypeOK, TipoHilos, TipoColas, EnCurso, EnManoDespacho
<1>2. EnLugar(p, 6, c) BY DEF EncolarAlInicio, EnLugar
<1>3. p \notin Range(ready)
  <2>1. ~EnLugar(p, 1, Ninguno) BY <1>1, <1>2 DEF LugaresInv, UnSoloLugar
  <2> QED BY <2>1 DEF EnLugar
<1>4. Range(ready') = Range(ready) \cup {p} /\ IsInjective(ready')
  BY <1>1, <1>3, AgregarAlInicio DEF LugaresInv
<1>5. /\ atiende'[c].fase = "liberar"
      /\ \A d \in CPUs : d # c => atiende'[d] = atiende[d]
  BY <1>1, AtencionTipada DEF EncolarAlInicio, Pid
<1>6. atiende[c].pid = p
  OBVIOUS
<1> HIDE DEF p
<1>7. Muda(p, 6, c, 1, Ninguno)
  BY <1>1, <1>2, <1>4, <1>5, <1>6 DEF EncolarAlInicio, Muda, EnLugar
<1> QED BY <1>1, <1>4, <1>7, Mudanza DEF LugaresInv

LEMMA LugaresFinalizar ==
  ASSUME TypeInv, LugaresInv, ~caida, NEW c \in CPUs, Finalizar(c)
  PROVE  LugaresInv'
<1> DEFINE p == atiende[c].pid
<1>1. /\ UNCHANGED <<ready, perdidos>> /\ EnManoDespacho' = EnManoDespacho
      /\ exec' = exec \ {p} /\ caida' = (p \notin exec)
      /\ terminados' = terminados \cup (exec \cap {p})
  BY DEF Finalizar, EnManoDespacho
<1>2. atiende \in [CPUs -> Atenciones] /\ atiende[c].fase = "sacar" /\ exec \subseteq Procesos
  BY DEF Finalizar, TypeInv, TypeOK, TipoHilos, TipoColas
<1>3. /\ atiende'[c].fase = "recibir"
      /\ \A d \in CPUs : d # c => atiende'[d] = atiende[d]
  BY <1>2, AtencionTipada DEF Finalizar, Pid
<1> HIDE DEF p
<1>4. CASE p \notin exec
  BY <1>1, <1>4 DEF LugaresInv
<1>5. CASE p \in exec
  <2>1. Muda(p, 2, Ninguno, 3, Ninguno)
    BY <1>1, <1>2, <1>3, <1>5 DEF Muda, EnLugar
  <2> QED BY <1>1, <1>2, <1>5, <2>1, Mudanza DEF LugaresInv
<1> QED BY <1>4, <1>5

LEMMA LugaresLiberarCPU ==
  ASSUME TypeInv, LugaresInv, ~caida, NEW c \in CPUs, LiberarCPU(c)
  PROVE  LugaresInv'
<1>1. atiende \in [CPUs -> Atenciones] /\ atiende[c].fase # "encolar" /\ UNCHANGED colas
      /\ EnManoDespacho' = EnManoDespacho
  BY DEF LiberarCPU, TypeInv, TypeOK, TipoHilos, EnManoDespacho
<1>2. \E f \in {"recibir", "sacar"} : Atencion(c, f, atiende[c].pid)
  BY DEF LiberarCPU
<1>3. /\ atiende'[c].fase # "encolar" /\ \A d \in CPUs : d # c => atiende'[d] = atiende[d]
  BY <1>1, <1>2 DEF Atencion
<1> QED BY <1>1, <1>3, SinMudanza

-----------------------------------------------------------------------------

\* The CPUs, the monitor, the listener of kernel_memory and kernel_memory move no PCB.
LEMMA AjenosALasColas ==
  ASSUME \/ VerBandera \/ DespertarMonitor \/ Escuchar \/ AtenderKM \/ UNCHANGED vars
         \/ \E c \in CPUs : Servir(c) \/ \E op \in Llamadas : PedirSyscall(c, op)
  PROVE  UNCHANGED <<colas, atiende, despacho>>
<1>1. CASE VerBandera \/ DespertarMonitor \/ UNCHANGED vars
  BY <1>1 DEF VerBandera, DespertarMonitor, vars, hilos
<1>2. CASE Escuchar
  BY <1>2 DEF Escuchar, RecibirInicio, RecibirFin, RecibirCreado, EnviarCreado, ListarOcupadas,
     Desalojar, AvisarDesalojadas, OyenteSolo
<1>3. CASE AtenderKM
  BY <1>3 DEF AtenderKM, AtenderCreacion, IniciarCompactacion, TerminarCompactacion, hilos
<1>4. ASSUME NEW c \in CPUs, Servir(c) \/ \E op \in Llamadas : PedirSyscall(c, op)
      PROVE  UNCHANGED <<colas, atiende, despacho>>
  BY <1>4 DEF Servir, RecibirEnEspera, AtenderInterrupcion, PedirSyscall, hilos
<1> QED BY <1>1, <1>2, <1>3, <1>4

LEMMA PasoLugares == TypeInv /\ LugaresInv /\ [Next]_vars => LugaresInv'
<1> SUFFICES ASSUME TypeInv, LugaresInv, [Next]_vars PROVE LugaresInv'
  OBVIOUS
<1>1. CASE UNCHANGED vars
  <2>1. EnManoDespacho' = EnManoDespacho
    BY <1>1 DEF EnManoDespacho, vars, hilos
  <2>2. \A q, l, y : EnLugar(q, l, y)' <=> EnLugar(q, l, y)
    BY <1>1, <2>1 DEF EnLugar, vars, colas, hilos
  <2> QED BY <1>1, <2>2 DEF LugaresInv, UnSoloLugar, vars, colas
<1>2. CASE ~caida /\ UNCHANGED <<colas, atiende, despacho>>
  BY <1>2, SinMudanza DEF EnManoDespacho
<1>3. CASE ~caida /\ Despachar
  BY <1>3, LugaresDespachar
<1>4. ASSUME ~caida, NEW c \in CPUs, Atender(c) PROVE LugaresInv'
  BY <1>4, LugaresRecibirDeCPU, LugaresEncolarAlInicio, LugaresLiberarCPU, LugaresFinalizar
     DEF Atender
<1> QED BY <1>1, <1>2, <1>3, <1>4, AjenosALasColas DEF Next

\* Eviction takes a PCB out of EXEC under one lock and puts it at the front of READY under
\* another, on behalf of any of the CPUs that were sent its pid: while the kernel lives, a
\* PCB is in one queue, once, or in the hands of one thread.
THEOREM UnLugarPorPCB == Spec => []CadaPCBEnUnLugar
<1> QED BY InitTypeInv, InitLugares, PasoTypeInv, PasoLugares, UnSoloLugarBasta, PTL DEF Spec
=============================================================================
