--------------------- MODULE PlanificadorTurnos_proofs ---------------------
(***************************************************************************)
(* Who may run a process, and what the semaphore of the CPUs counts: proofs *)
(* for any processes, CPUs, levels and bounds, whatever disconnects.       *)
(***************************************************************************)
EXTENDS Planificador_proofs

-----------------------------------------------------------------------------
(* Turns                                                                   *)

\* In a socket to a CPU: no packet that runs a process; at most one, of p.
SinEnvio(s) == \A i \in DOMAIN s : s[i].op # "PROCESO_A_PROCESAR"
UnEnvio(s, p) ==
  \A i \in DOMAIN s : s[i].op = "PROCESO_A_PROCESAR" =>
    /\ s[i].pid = p
    /\ \A j \in DOMAIN s : s[j].op = "PROCESO_A_PROCESAR" => i = j

\* The dispatcher chose c and has not sent the process yet.
EnDespacho(c) == despacho.fase \in {"asignar", "encolarExec", "enviar"} /\ despacho.cpu = c

\* The thread of c handles the packet of the process that c is still assigned to.
Ocupada(c) ==
  \/ atiende[c].fase \in {"responder", "liberar"}
  \/ /\ atiende[c].fase \in {"sacar", "encolar", "bloquear", "terminar"}
     /\ atiende[c].op \notin LiberaAntes \cup {"DESCONEXION_CPU"}

Fases(c) ==
  /\ atiende[c].fase = "recibir" => atiende[c].op = "CONECTAR"
  /\ atiende[c].fase = "afuera" => atiende[c].op \in {"CONECTAR", "DESCONEXION_CPU"}
  /\ atiende[c].fase = "quitar" => atiende[c].op = "DESCONEXION_CPU"
  /\ atiende[c].fase = "encolar" => atiende[c].op \in Desalojos
  /\ atiende[c].op = "DESCONEXION_CPU" =>
       /\ atiende[c].fase \in {"sacar", "terminar", "quitar", "afuera"}
       /\ ~viva[c] /\ aKS[c] = <<>>
       /\ atiende[c].fase = "sacar" => asignado[c] = atiende[c].pid /\ asignado[c] # Ninguno

Conexion(c) ==
  /\ c \in conectadas <=> atiende[c].fase # "afuera"
  /\ viva[c] => c \in conectadas
  /\ ~viva[c] => aCPU[c] = <<>> /\ corre[c] = Ninguno
  /\ atiende[c].fase = "afuera" /\ atiende[c].op = "CONECTAR" =>
       ~libre[c] /\ asignado[c] = Ninguno /\ aKS[c] = <<>> /\ ~EnDespacho(c)

\* c has one turn at most: it is free, or the dispatcher has it, or it is in one packet
\* to c, or c runs it, or it is in one packet from c, or the thread of c handles it; and
\* the entry of c names its process.
UnTurnoEn(c) ==
  /\ libre[c] => /\ ~EnDespacho(c) /\ SinEnvio(aCPU[c]) /\ corre[c] = Ninguno
                 /\ aKS[c] = <<>> /\ ~Ocupada(c) /\ asignado[c] = Ninguno
  /\ EnDespacho(c) =>
       /\ SinEnvio(aCPU[c]) /\ corre[c] = Ninguno /\ aKS[c] = <<>> /\ ~Ocupada(c)
       /\ asignado[c] = IF despacho.fase = "asignar" THEN Ninguno ELSE despacho.pcb
  /\ UnEnvio(aCPU[c], asignado[c])
  /\ SinEnvio(aCPU[c]) \/ (corre[c] = Ninguno /\ aKS[c] = <<>> /\ ~Ocupada(c)
                           /\ asignado[c] # Ninguno)
  /\ corre[c] # Ninguno => aKS[c] = <<>> /\ ~Ocupada(c) /\ asignado[c] = corre[c]
  /\ aKS[c] # <<>> => Len(aKS[c]) = 1 /\ ~Ocupada(c) /\ asignado[c] = aKS[c][1].pid
  /\ Ocupada(c) => asignado[c] = atiende[c].pid

CPUInv(c) == Fases(c) /\ Conexion(c) /\ UnTurnoEn(c)

\* The thread of c took the process of c out of EXEC, or c is gone.
Soltado(c) ==
  \/ Ocupada(c) /\ \/ atiende[c].fase \in {"encolar", "bloquear", "terminar"}
                   \/ atiende[c].fase = "liberar" /\ atiende[c].op \notin LiberaAntes
  \/ atiende[c].op = "DESCONEXION_CPU" /\ atiende[c].fase \in {"terminar", "quitar", "afuera"}

\* Who will take p out of EXEC: the thread of the CPU assigned to it, or a thread that
\* freed its CPU and goes on with p.
Tiene(c, k, p) ==
  \/ k = "asignado" /\ asignado[c] = p /\ ~Soltado(c)
  \/ k = "manejo" /\ atiende[c].fase = "sacar" /\ atiende[c].op \in LiberaAntes
     /\ atiende[c].pid = p

Encolando(c, k, p) ==
  k = "asignado" /\ despacho.fase = "encolarExec" /\ despacho.cpu = c /\ despacho.pcb = p

UnDuenio(p) ==
  /\ \A c \in CPUs : \A k : Tiene(c, k, p) => p \in exec \/ Encolando(c, k, p)
  /\ \A c, d \in CPUs : \A k, l : Tiene(c, k, p) /\ Tiene(d, l, p) => c = d /\ k = l

TurnosInv ==
  /\ \A c \in CPUs : CPUInv(c)
  /\ \A p \in Procesos : UnDuenio(p)

-----------------------------------------------------------------------------
\* Sockets to a CPU.
LEMMA UnEnvioAlFinal ==
  ASSUME NEW s \in Seq(Mensaje), NEW m \in Mensaje, SinEnvio(s)
  PROVE  UnEnvio(Append(s, m), m.pid)
<1> DEFINE t == Append(s, m)
<1>1. /\ Len(t) = Len(s) + 1 /\ Len(s) \in Nat /\ DOMAIN t = 1 .. Len(s) + 1
      /\ DOMAIN s = 1 .. Len(s)
      /\ \A i \in 1 .. Len(s) : t[i] = s[i]
      /\ t[Len(s) + 1] = m
  OBVIOUS
<1> HIDE DEF t
<1>2. \A i \in DOMAIN t : t[i].op = "PROCESO_A_PROCESAR" => i = Len(s) + 1
  BY <1>1 DEF SinEnvio
<1>3. UnEnvio(t, m.pid)
  BY <1>1, <1>2 DEF UnEnvio
<1> QED BY <1>3 DEF t

LEMMA AvisoAlFinal ==
  ASSUME NEW s \in Seq(Mensaje), NEW m \in Mensaje, m.op # "PROCESO_A_PROCESAR", NEW p
  PROVE  /\ SinEnvio(Append(s, m)) <=> SinEnvio(s)
         /\ UnEnvio(s, p) => UnEnvio(Append(s, m), p)
<1> DEFINE t == Append(s, m)
<1>1. /\ Len(s) \in Nat /\ DOMAIN t = 1 .. Len(s) + 1 /\ DOMAIN s = 1 .. Len(s)
      /\ \A i \in 1 .. Len(s) : t[i] = s[i]
      /\ t[Len(s) + 1] = m
  OBVIOUS
<1> HIDE DEF t
<1>2. SinEnvio(t) <=> SinEnvio(s)
  BY <1>1 DEF SinEnvio
<1>3. \A i \in DOMAIN t : t[i].op = "PROCESO_A_PROCESAR" => i \in DOMAIN s /\ t[i] = s[i]
  BY <1>1
<1>4. UnEnvio(s, p) => UnEnvio(t, p)
  BY <1>3 DEF UnEnvio
<1> QED BY <1>2, <1>4 DEF t

LEMMA EnvioLeido ==
  ASSUME NEW s \in Seq(Mensaje), s # <<>>, NEW p, UnEnvio(s, p)
  PROVE  /\ UnEnvio(Tail(s), p)
         /\ SinEnvio(s) => SinEnvio(Tail(s)) /\ Head(s).op # "PROCESO_A_PROCESAR"
         /\ Head(s).op = "PROCESO_A_PROCESAR" => SinEnvio(Tail(s)) /\ Head(s).pid = p
         /\ Head(s).op # "PROCESO_A_PROCESAR" /\ SinEnvio(Tail(s)) => SinEnvio(s)
<1> DEFINE t == Tail(s)
<1>1. /\ Len(s) \in Nat /\ Len(s) > 0 /\ DOMAIN s = 1 .. Len(s) /\ DOMAIN t = 1 .. Len(s) - 1
      /\ \A i \in 1 .. Len(s) - 1 : t[i] = s[i + 1]
      /\ Head(s) = s[1]
  OBVIOUS
<1> HIDE DEF t
<1>2. \A i \in DOMAIN t : i + 1 \in DOMAIN s /\ t[i] = s[i + 1] /\ i \in Nat /\ i > 0
  BY <1>1
<1>3. 1 \in DOMAIN s /\ \A i \in DOMAIN s : i # 1 => i - 1 \in DOMAIN t /\ t[i - 1] = s[i]
  BY <1>1
<1>4. UnEnvio(t, p)
  <2> SUFFICES ASSUME NEW i \in DOMAIN t, t[i].op = "PROCESO_A_PROCESAR"
               PROVE  t[i].pid = p /\ \A j \in DOMAIN t : t[j].op = "PROCESO_A_PROCESAR" => i = j
    BY DEF UnEnvio
  <2>1. i + 1 \in DOMAIN s /\ s[i + 1] = t[i] /\ i \in Nat
    BY <1>2
  <2>2. s[i + 1].pid = p /\ \A j \in DOMAIN s : s[j].op = "PROCESO_A_PROCESAR" => i + 1 = j
    BY <2>1 DEF UnEnvio
  <2>3. ASSUME NEW j \in DOMAIN t, t[j].op = "PROCESO_A_PROCESAR" PROVE i = j
    <3>1. j + 1 \in DOMAIN s /\ s[j + 1] = t[j] /\ j \in Nat
      BY <1>2
    <3>2. i + 1 = j + 1
      BY <2>2, <2>3, <3>1
    <3> QED BY <2>1, <3>1, <3>2
  <2> QED BY <2>1, <2>2, <2>3
<1>5. SinEnvio(s) => SinEnvio(t) /\ s[1].op # "PROCESO_A_PROCESAR"
  BY <1>2, <1>3 DEF SinEnvio
<1>6. ASSUME s[1].op = "PROCESO_A_PROCESAR" PROVE SinEnvio(t) /\ s[1].pid = p
  <2>1. s[1].pid = p /\ \A j \in DOMAIN s : s[j].op = "PROCESO_A_PROCESAR" => 1 = j
    BY <1>3, <1>6 DEF UnEnvio
  <2>2. ASSUME NEW i \in DOMAIN t PROVE t[i].op # "PROCESO_A_PROCESAR"
    <3>1. i + 1 \in DOMAIN s /\ t[i] = s[i + 1] /\ i + 1 # 1
      BY <1>2
    <3> QED BY <2>1, <3>1
  <2> QED BY <2>1, <2>2 DEF SinEnvio
<1>7. s[1].op # "PROCESO_A_PROCESAR" /\ SinEnvio(t) => SinEnvio(s)
  BY <1>2, <1>3 DEF SinEnvio
<1> QED BY <1>1, <1>4, <1>5, <1>6, <1>7 DEF t

LEMMA EnvioVacio == \A p : SinEnvio(<<>>) /\ UnEnvio(<<>>, p)
BY DEF SinEnvio, UnEnvio

LEMMA SinEnvioNinguno == ASSUME NEW s, SinEnvio(s) PROVE \A p : UnEnvio(s, p)
BY DEF SinEnvio, UnEnvio

-----------------------------------------------------------------------------
(* Frames                                                                  *)

\* What the invariant of c reads of c.
Iguales(c) ==
  /\ atiende'[c] = atiende[c] /\ viva'[c] = viva[c] /\ libre'[c] = libre[c]
  /\ asignado'[c] = asignado[c] /\ corre'[c] = corre[c]
  /\ aCPU'[c] = aCPU[c] /\ aKS'[c] = aKS[c]
  /\ c \in conectadas' <=> c \in conectadas

LEMMA OtraCPU ==
  ASSUME NEW c \in CPUs, CPUInv(c), Iguales(c), EnDespacho(c)' <=> EnDespacho(c),
         EnDespacho(c) => /\ despacho'.pcb = despacho.pcb
                          /\ despacho'.fase = "asignar" <=> despacho.fase = "asignar"
  PROVE  CPUInv(c)'
<1>1. Fases(c)'
  BY DEF CPUInv, Iguales, Fases
<1>2. Conexion(c)'
  BY DEF CPUInv, Iguales, Conexion
<1>3. Ocupada(c)' <=> Ocupada(c)
  BY DEF Iguales, Ocupada
<1>4. /\ SinEnvio(aCPU[c])' <=> SinEnvio(aCPU[c])
      /\ UnEnvio(aCPU[c], asignado[c])' <=> UnEnvio(aCPU[c], asignado[c])
  BY DEF Iguales, SinEnvio, UnEnvio
<1>5. UnTurnoEn(c)'
  BY <1>3, <1>4 DEF CPUInv, Iguales, UnTurnoEn
<1> QED BY <1>1, <1>2, <1>5 DEF CPUInv

\* A step of c leaves the other CPUs alone.
LEMMA SoloEstaCPU ==
  ASSUME NEW c \in CPUs, \A d \in CPUs : CPUInv(d), UNCHANGED despacho,
         \A d \in CPUs : d # c => Iguales(d), CPUInv(c)'
  PROVE  \A d \in CPUs : CPUInv(d)'
<1> SUFFICES ASSUME NEW d \in CPUs PROVE CPUInv(d)'
  OBVIOUS
<1>1. EnDespacho(d)' <=> EnDespacho(d)
  BY DEF EnDespacho
<1> QED BY <1>1, OtraCPU

\* A step after which nobody has a process that it did not have.
LEMMA DueniosQuedan ==
  ASSUME \A p \in Procesos : UnDuenio(p),
         \A p \in Procesos : \A c \in CPUs : \A k :
           Tiene(c, k, p)' => /\ Tiene(c, k, p)
                              /\ p \in exec => p \in exec'
                              /\ Encolando(c, k, p) => p \in exec' \/ Encolando(c, k, p)'
  PROVE  \A p \in Procesos : UnDuenio(p)'
<1> SUFFICES ASSUME NEW p \in Procesos PROVE UnDuenio(p)'
  OBVIOUS
<1> HIDE DEF Tiene, Encolando
<1>1. \A c \in CPUs : \A k : Tiene(c, k, p)' => p \in exec' \/ Encolando(c, k, p)'
  BY DEF UnDuenio
<1>2. \A c, d \in CPUs : \A k, l : Tiene(c, k, p)' /\ Tiene(d, l, p)' => c = d /\ k = l
  BY DEF UnDuenio
<1> QED BY <1>1, <1>2 DEF UnDuenio

\* Steps that do not touch what the ownership of a process reads.
LEMMA DueniosQuietos ==
  ASSUME \A p \in Procesos : UnDuenio(p), UNCHANGED <<atiende, asignado, exec, despacho>>
  PROVE  \A p \in Procesos : UnDuenio(p)'
<1>1. \A c \in CPUs : \A k, p : Tiene(c, k, p)' => Tiene(c, k, p)
  BY DEF Tiene, Soltado, Ocupada
<1>2. \A c \in CPUs : \A k, p : Encolando(c, k, p) => Encolando(c, k, p)'
  BY DEF Encolando
<1> QED BY <1>1, <1>2, DueniosQuedan

\* A step of the thread of c after which it has nothing it did not have.
LEMMA DueniosDe ==
  ASSUME NEW c \in CPUs, \A p \in Procesos : UnDuenio(p), UNCHANGED <<exec, despacho>>,
         \A d \in CPUs : d # c => atiende'[d] = atiende[d] /\ asignado'[d] = asignado[d],
         \A k : \A p \in Procesos : Tiene(c, k, p)' => Tiene(c, k, p)
  PROVE  \A p \in Procesos : UnDuenio(p)'
<1>1. ASSUME NEW d \in CPUs, d # c PROVE \A k, p : Tiene(d, k, p)' => Tiene(d, k, p)
  BY <1>1 DEF Tiene, Soltado, Ocupada
<1>2. \A d \in CPUs : \A k, p : Encolando(d, k, p) => Encolando(d, k, p)'
  BY DEF Encolando
<1>3. \A p \in Procesos : \A d \in CPUs : \A k : Tiene(d, k, p)' => Tiene(d, k, p)
  BY <1>1
<1> HIDE DEF Tiene, Encolando
<1> QED BY <1>2, <1>3, DueniosQuedan

\* The thread of c goes to phase f.
LEMMA FaseDeCPU ==
  ASSUME TypeInv, NEW c \in CPUs, NEW f \in FasesAtencion, Fase(c, f)
  PROVE  /\ atiende'[c].fase = f
         /\ f # "recibir" => atiende'[c].pid = atiende[c].pid /\ atiende'[c].op = atiende[c].op
         /\ f = "recibir" => atiende'[c].pid = Ninguno /\ atiende'[c].op = "CONECTAR"
         /\ \A d \in CPUs : d # c => atiende'[d] = atiende[d]
<1>1. atiende \in [CPUs -> Atenciones]
  BY DEF TypeInv, TypeOK, TipoHilos
<1>2. /\ atiende'[c] = IF f = "recibir" THEN AtencionOciosa ELSE [atiende[c] EXCEPT !.fase = f]
      /\ \A d \in CPUs : d # c => atiende'[d] = atiende[d]
  BY <1>1 DEF Fase
<1>3. atiende[c] \in [fase : FasesAtencion, pid : Pid, op : Operaciones]
  BY <1>1 DEF Atenciones
<1>4. CASE f = "recibir"
  BY <1>2, <1>4 DEF AtencionOciosa
<1>5. CASE f # "recibir"
  BY <1>2, <1>3, <1>5
<1> QED BY <1>2, <1>4, <1>5

-----------------------------------------------------------------------------
(* The threads of the CPUs                                                 *)

LEMMA TurnosConectarCPU ==
  ASSUME TypeInv, TurnosInv, NEW c \in CPUs, ConectarCPU(c)
  PROVE  TurnosInv'
<1>1. /\ atiende[c].fase = "afuera" /\ atiende[c].op = "CONECTAR"
      /\ UNCHANGED <<exec, despacho, asignado, corre, aCPU, aKS>>
      /\ Fase(c, "recibir") /\ "recibir" \in FasesAtencion
      /\ conectadas' = conectadas \cup {c}
  BY DEF ConectarCPU, FasesAtencion, colas, otros
<1>2. /\ atiende'[c].fase = "recibir" /\ atiende'[c].op = "CONECTAR"
      /\ \A d \in CPUs : d # c => atiende'[d] = atiende[d]
  BY <1>1, FaseDeCPU
<1>3. /\ libre'[c] = TRUE /\ viva'[c] = TRUE /\ c \in conectadas'
      /\ \A d \in CPUs : d # c => libre'[d] = libre[d] /\ viva'[d] = viva[d]
      /\ \A d \in CPUs : d # c => (d \in conectadas' <=> d \in conectadas)
  BY DEF ConectarCPU, TypeInv, TypeOK, TipoCPUs
<1>4. /\ CPUInv(c) /\ ~viva[c] /\ ~EnDespacho(c) /\ asignado[c] = Ninguno /\ aKS[c] = <<>>
      /\ aCPU[c] = <<>> /\ corre[c] = Ninguno
  BY <1>1 DEF TurnosInv, CPUInv, Conexion
<1>5. ~Ocupada(c)' /\ ~EnDespacho(c)' /\ SinEnvio(aCPU[c])' /\ UnEnvio(aCPU[c], asignado[c])'
  BY <1>1, <1>2, <1>4, EnvioVacio DEF Ocupada, EnDespacho
<1>6. UnTurnoEn(c)'
  BY <1>1, <1>3, <1>4, <1>5 DEF UnTurnoEn
<1>7. Fases(c)' /\ Conexion(c)'
  BY <1>1, <1>2, <1>3, <1>4 DEF Fases, Conexion
<1>8. \A d \in CPUs : CPUInv(d)'
  BY <1>1, <1>2, <1>3, <1>6, <1>7, SoloEstaCPU DEF TurnosInv, CPUInv, Iguales
<1>9. \A k : \A p \in Procesos : Tiene(c, k, p)' => Tiene(c, k, p)
  BY <1>1, <1>2, <1>4, PlanificadorAssumption DEF Tiene
<1>10. \A p \in Procesos : UnDuenio(p)'
  BY <1>1, <1>2, <1>9, DueniosDe DEF TurnosInv
<1> QED BY <1>8, <1>10 DEF TurnosInv

LEMMA TurnosRecibirDeCPU ==
  ASSUME TypeInv, TurnosInv, NEW c \in CPUs, RecibirDeCPU(c)
  PROVE  TurnosInv'
<1> DEFINE m == aKS[c][1]
<1>1. /\ atiende[c].fase = "recibir" /\ aKS[c] # <<>> /\ aKS[c] \in Seq(Pedido)
      /\ UNCHANGED <<exec, despacho, asignado, corre, aCPU, libre, viva, conectadas>>
  BY DEF RecibirDeCPU, colas, otros, TypeInv, TypeOK, TipoCPUs
<1>2. CPUInv(c)
  BY DEF TurnosInv
<1>3. /\ Len(aKS[c]) = 1 /\ asignado[c] = m.pid /\ ~EnDespacho(c) /\ ~libre[c]
      /\ SinEnvio(aCPU[c]) /\ corre[c] = Ninguno /\ ~Ocupada(c)
  BY <1>1, <1>2 DEF CPUInv, UnTurnoEn
<1>4. m \in Pedido /\ Head(aKS[c]) = m /\ Tail(aKS[c]) = <<>>
  <2>1. ASSUME NEW s \in Seq(Pedido), Len(s) = 1
        PROVE  s[1] \in Pedido /\ Head(s) = s[1] /\ Tail(s) = <<>>
    <3>1. s[1] \in Pedido /\ Head(s) = s[1] /\ s # <<>>
      BY <2>1
    <3>2. Tail(s) \in Seq(Pedido) /\ Len(Tail(s)) = 0
      BY <2>1, <3>1
    <3>3. \A t \in Seq(Pedido) : Len(t) = 0 => t = <<>>
      OBVIOUS
    <3> QED BY <3>1, <3>2, <3>3
  <2> QED BY <1>1, <1>3, <2>1
<1>5. /\ atiende'[c] = [fase |-> PrimeraFase(m.op), pid |-> m.pid, op |-> m.op]
      /\ aKS'[c] = <<>>
      /\ \A d \in CPUs : d # c => atiende'[d] = atiende[d] /\ aKS'[d] = aKS[d]
  BY <1>4 DEF RecibirDeCPU, TypeInv, TypeOK, TipoCPUs, TipoHilos
<1>6. /\ m.pid \in Procesos /\ m.op \in Llamadas \cup Desalojos
  BY <1>4 DEF Pedido
<1> HIDE DEF m
<1>7. /\ atiende'[c].fase = PrimeraFase(m.op) /\ atiende'[c].pid = m.pid /\ atiende'[c].op = m.op
  BY <1>5
<1>8. /\ atiende'[c].fase \in {"responder", "liberar", "sacar"}
      /\ atiende'[c].op \notin {"CONECTAR", "DESCONEXION_CPU"}
      /\ atiende'[c].fase = "sacar" => atiende'[c].op \notin LiberaAntes
      /\ atiende'[c].fase = "liberar" => atiende'[c].op \in LiberaAntes
  BY <1>6, <1>7 DEF PrimeraFase, Llamadas, Desalojos, Bloqueantes, LiberaAntes
<1>9. Ocupada(c)' /\ ~EnDespacho(c)' /\ ~Soltado(c)'
  BY <1>1, <1>3, <1>8 DEF Ocupada, EnDespacho, Soltado
<1>10. UnTurnoEn(c)'
  BY <1>1, <1>2, <1>3, <1>5, <1>7, <1>9, SinEnvioNinguno DEF UnTurnoEn
<1>11. Fases(c)' /\ Conexion(c)'
  BY <1>1, <1>2, <1>8 DEF Fases, Conexion, CPUInv
<1>12. \A d \in CPUs : CPUInv(d)'
  BY <1>1, <1>5, <1>10, <1>11, SoloEstaCPU DEF TurnosInv, CPUInv, Iguales
<1>13. \A k : \A p \in Procesos : Tiene(c, k, p)' => Tiene(c, k, p)
  <2>1. ~Soltado(c)
    BY <1>1, <1>2 DEF Soltado, Ocupada, CPUInv, Fases
  <2> QED BY <1>1, <1>8, <2>1 DEF Tiene
<1>14. \A p \in Procesos : UnDuenio(p)'
  BY <1>1, <1>5, <1>13, DueniosDe DEF TurnosInv
<1> QED BY <1>12, <1>14 DEF TurnosInv

LEMMA TurnosDetectarDesconexion ==
  ASSUME TypeInv, TurnosInv, NEW c \in CPUs, DetectarDesconexion(c)
  PROVE  TurnosInv'
<1>1. /\ atiende[c].fase = "recibir" /\ aKS[c] = <<>> /\ ~viva[c]
      /\ UNCHANGED <<exec, despacho, cpus>>
      /\ UNCHANGED <<asignado, corre, aCPU, aKS, libre, viva, conectadas>>
  BY DEF DetectarDesconexion, colas, otros, cpus
<1>2. CPUInv(c)
  BY DEF TurnosInv
<1>3. /\ atiende'[c] = [fase |-> IF asignado[c] = Ninguno THEN "quitar" ELSE "sacar",
                        pid |-> asignado[c], op |-> "DESCONEXION_CPU"]
      /\ \A d \in CPUs : d # c => atiende'[d] = atiende[d]
  BY DEF DetectarDesconexion, TypeInv, TypeOK, TipoHilos
<1>4. /\ atiende'[c].op = "DESCONEXION_CPU" /\ atiende'[c].pid = asignado[c]
      /\ atiende'[c].fase = IF asignado[c] = Ninguno THEN "quitar" ELSE "sacar"
  BY <1>3
<1>5. ~Ocupada(c)' /\ ~Ocupada(c) /\ (EnDespacho(c)' <=> EnDespacho(c))
  BY <1>1, <1>4 DEF Ocupada, EnDespacho
<1>6. UnTurnoEn(c)'
  BY <1>1, <1>2, <1>5 DEF UnTurnoEn, CPUInv
<1>7. Fases(c)' /\ Conexion(c)'
  BY <1>1, <1>2, <1>4 DEF Fases, Conexion, CPUInv
<1>8. \A d \in CPUs : CPUInv(d)'
  BY <1>1, <1>3, <1>6, <1>7, SoloEstaCPU DEF TurnosInv, CPUInv, Iguales
<1>9. \A k : \A p \in Procesos : Tiene(c, k, p)' => Tiene(c, k, p)
  <2>1. ~Soltado(c)
    BY <1>1, <1>2 DEF Soltado, Ocupada, CPUInv, Fases
  <2> QED BY <1>1, <1>4, <2>1 DEF Tiene, LiberaAntes
<1>10. \A p \in Procesos : UnDuenio(p)'
  BY <1>1, <1>3, <1>9, DueniosDe DEF TurnosInv
<1> QED BY <1>8, <1>10 DEF TurnosInv

LEMMA TurnosLiberarCPU ==
  ASSUME TypeInv, TurnosInv, NEW c \in CPUs, LiberarCPU(c)
  PROVE  TurnosInv'
<1> DEFINE f == IF atiende[c].op \in LiberaAntes THEN "sacar" ELSE "recibir"
<1>1. /\ atiende[c].fase = "liberar" /\ Fase(c, f) /\ f \in FasesAtencion
      /\ UNCHANGED <<exec, despacho, corre, aCPU, aKS, viva, conectadas>>
  BY DEF LiberarCPU, colas, FasesAtencion
<1>2. /\ libre'[c] = TRUE /\ asignado'[c] = Ninguno
      /\ \A d \in CPUs : d # c => libre'[d] = libre[d] /\ asignado'[d] = asignado[d]
  BY DEF LiberarCPU, TypeInv, TypeOK, TipoCPUs
<1>3. /\ atiende'[c].fase = f
      /\ f # "recibir" => atiende'[c].pid = atiende[c].pid /\ atiende'[c].op = atiende[c].op
      /\ f = "recibir" => atiende'[c].op = "CONECTAR"
      /\ \A d \in CPUs : d # c => atiende'[d] = atiende[d]
  BY <1>1, FaseDeCPU
<1>4. CPUInv(c) /\ Ocupada(c) /\ asignado[c] = atiende[c].pid
  BY <1>1 DEF TurnosInv, CPUInv, UnTurnoEn, Ocupada
<1>5. /\ ~EnDespacho(c) /\ SinEnvio(aCPU[c]) /\ corre[c] = Ninguno /\ aKS[c] = <<>>
      /\ atiende[c].op # "DESCONEXION_CPU"
  BY <1>1, <1>4 DEF CPUInv, UnTurnoEn, Fases
<1>6. ~EnDespacho(c)' /\ ~Ocupada(c)' /\ UnEnvio(aCPU[c], asignado[c])'
  BY <1>1, <1>3, <1>5, SinEnvioNinguno DEF EnDespacho, Ocupada
<1>7. UnTurnoEn(c)'
  BY <1>1, <1>2, <1>5, <1>6 DEF UnTurnoEn
<1>8. Fases(c)' /\ Conexion(c)'
  BY <1>1, <1>3, <1>4, <1>5 DEF Fases, Conexion, CPUInv
<1>9. \A d \in CPUs : CPUInv(d)'
  BY <1>1, <1>2, <1>3, <1>7, <1>8, SoloEstaCPU DEF TurnosInv, CPUInv, Iguales
<1>10. \A d \in CPUs : \A k, p : Encolando(d, k, p)' <=> Encolando(d, k, p)
  BY <1>1 DEF Encolando
<1>11. \A d \in CPUs : d # c => \A k, p : Tiene(d, k, p)' <=> Tiene(d, k, p)
  BY <1>2, <1>3 DEF Tiene, Soltado, Ocupada
<1>12. CASE atiende[c].op \notin LiberaAntes
  <2>1. \A k : \A p \in Procesos : ~Tiene(c, k, p)'
    BY <1>2, <1>3, <1>12, PlanificadorAssumption DEF Tiene
  <2>2. \A p \in Procesos : UnDuenio(p)'
    <3> HIDE DEF Tiene, Encolando
    <3> QED BY <1>1, <1>10, <1>11, <2>1 DEF TurnosInv, UnDuenio
  <2> QED BY <1>9, <2>2 DEF TurnosInv
<1>13. CASE atiende[c].op \in LiberaAntes
  <2>1. ASSUME NEW p \in Procesos
        PROVE  /\ \A k : Tiene(c, k, p)' <=> k = "manejo" /\ p = atiende[c].pid
               /\ \A k : Tiene(c, k, p) <=> k = "asignado" /\ p = atiende[c].pid
    <3>1. ~Soltado(c)
      BY <1>1, <1>5, <1>13 DEF Soltado, LiberaAntes
    <3> QED BY <1>1, <1>2, <1>3, <1>4, <1>13, <3>1, PlanificadorAssumption DEF Tiene
  <2>2. ASSUME NEW p \in Procesos PROVE UnDuenio(p)'
    <3>1. UnDuenio(p)
      BY DEF TurnosInv
    <3>2. \A k : ~Encolando(c, k, p)
      BY <1>5 DEF Encolando, EnDespacho
    <3>3. \A d \in CPUs : \A k : Tiene(d, k, p)' => p \in exec' \/ Encolando(d, k, p)'
      <4> HIDE DEF Tiene, Encolando
      <4> QED BY <1>1, <1>10, <1>11, <2>1, <3>1, <3>2 DEF UnDuenio
    <3>4. \A d, e \in CPUs : \A k, l : Tiene(d, k, p)' /\ Tiene(e, l, p)' => d = e /\ k = l
      <4> HIDE DEF Tiene, Encolando
      <4>1. \A d \in CPUs : \A k : Tiene(d, k, p)' => d = c \/ Tiene(d, k, p)
        BY <1>11
      <4> QED BY <1>11, <2>1, <3>1, <4>1 DEF UnDuenio
    <3> QED BY <3>3, <3>4 DEF UnDuenio
  <2> QED BY <1>9, <2>2 DEF TurnosInv
<1> QED BY <1>12, <1>13

\* Only the thread of c moves, and it does not start to handle a turn.
LEMMA SoloFase ==
  ASSUME TypeInv, NEW c \in CPUs, \A d \in CPUs : CPUInv(d), UNCHANGED <<despacho, cpus>>,
         NEW f \in FasesAtencion, Fase(c, f), Ocupada(c)' => Ocupada(c), Fases(c)',
         f # "afuera", atiende[c].fase # "afuera"
  PROVE  \A d \in CPUs : CPUInv(d)'
<1>1. /\ atiende'[c].fase = f
      /\ f # "recibir" => atiende'[c].pid = atiende[c].pid
      /\ f = "recibir" => ~Ocupada(c)'
      /\ \A d \in CPUs : d # c => atiende'[d] = atiende[d]
  BY FaseDeCPU DEF Ocupada
<1>2. UNCHANGED <<conectadas, libre, asignado, viva, corre, aCPU, aKS>>
  BY DEF cpus
<1>3. CPUInv(c) /\ (EnDespacho(c)' <=> EnDespacho(c))
  BY DEF EnDespacho
<1>4. UnTurnoEn(c)'
  BY <1>1, <1>2, <1>3 DEF UnTurnoEn, CPUInv
<1>5. Conexion(c)'
  BY <1>1, <1>2, <1>3 DEF Conexion, CPUInv
<1> QED BY <1>1, <1>2, <1>4, <1>5, SoloEstaCPU DEF CPUInv, Iguales

LEMMA TurnosSacarDeExec ==
  ASSUME TypeInv, TurnosInv, NEW c \in CPUs, SacarDeExec(c)
  PROVE  TurnosInv'
<1> DEFINE op == atiende[c].op
           f == IF op \in Desalojos THEN "encolar"
                ELSE IF op \in Bloqueantes THEN "bloquear" ELSE "terminar"
<1>1. atiende[c].fase = "sacar" /\ UNCHANGED <<despacho, cpus, asignado>>
  BY DEF SacarDeExec, cpus
<1>2. CASE atiende[c].pid \notin exec
  <2>1. UNCHANGED <<atiende, exec>>
    BY <1>2 DEF SacarDeExec
  <2>2. \A d \in CPUs : CPUInv(d)'
    <3> SUFFICES ASSUME NEW d \in CPUs PROVE CPUInv(d)'
      OBVIOUS
    <3>1. Iguales(d) /\ (EnDespacho(d)' <=> EnDespacho(d))
      BY <1>1, <2>1 DEF Iguales, EnDespacho, cpus
    <3> QED BY <1>1, <3>1, OtraCPU DEF TurnosInv
  <2> QED BY <1>1, <2>1, <2>2, DueniosQuietos DEF TurnosInv
<1>3. ASSUME NEW p, p = atiende[c].pid, p \in exec PROVE TurnosInv'
  <2>1. exec' = exec \ {p} /\ Fase(c, f) /\ f \in FasesAtencion /\ p \in Procesos
    BY <1>3 DEF SacarDeExec, FasesAtencion, TypeInv, TypeOK, TipoColas
  <2>2. /\ atiende'[c].fase = f /\ atiende'[c].pid = p /\ atiende'[c].op = op
        /\ \A d \in CPUs : d # c => atiende'[d] = atiende[d]
    BY <1>3, <2>1, FaseDeCPU
  <2>3. CPUInv(c)
    BY DEF TurnosInv
  <2> HIDE DEF op
  <2>4. atiende[c].pid = p /\ atiende[c].op = op
    BY <1>3 DEF op
  <2>5. f \in {"encolar", "bloquear", "terminar"} /\ (op = "DESCONEXION_CPU" => f = "terminar")
        /\ (f = "encolar" => op \in Desalojos)
    BY DEF Desalojos, Bloqueantes
  <2> HIDE DEF f
  <2>6. Ocupada(c)' <=> Ocupada(c)
    BY <1>1, <2>2, <2>4, <2>5 DEF Ocupada
  <2>7. Fases(c)'
    <3>1. UNCHANGED <<viva, aKS>>
      BY <1>1 DEF cpus
    <3> QED BY <1>1, <2>2, <2>3, <2>4, <2>5, <3>1 DEF CPUInv, Fases
  <2>8. \A d \in CPUs : CPUInv(d)'
    <3>1. f # "afuera" /\ atiende[c].fase # "afuera"
      BY <1>1, <2>5
    <3> QED BY <1>1, <2>1, <2>6, <2>7, <3>1, SoloFase DEF TurnosInv
  <2>9. \A d \in CPUs : d # c => \A k, q : Tiene(d, k, q)' <=> Tiene(d, k, q)
    BY <1>1, <2>2 DEF Tiene, Soltado, Ocupada
  <2>10. \A k : \A q \in Procesos : Tiene(c, k, q)' => Tiene(c, k, q) /\ k = "asignado"
    <3>1. ~Soltado(c)
      BY <1>1 DEF Soltado, Ocupada
    <3> QED BY <1>1, <2>2, <2>5, <3>1 DEF Tiene
  <2>11. \E k : Tiene(c, k, p)
    <3>1. CASE op \in LiberaAntes
      BY <1>1, <2>4, <3>1 DEF Tiene
    <3>2. CASE op = "DESCONEXION_CPU"
      <4>1. asignado[c] = p /\ ~Soltado(c)
        BY <1>1, <2>3, <2>4, <3>2 DEF CPUInv, Fases, Soltado, Ocupada
      <4> QED BY <4>1 DEF Tiene
    <3>3. CASE op \notin LiberaAntes \cup {"DESCONEXION_CPU"}
      <4>1. Ocupada(c) /\ ~Soltado(c)
        BY <1>1, <2>4, <3>3 DEF Ocupada, Soltado
      <4>2. asignado[c] = p
        BY <2>3, <2>4, <4>1 DEF CPUInv, UnTurnoEn
      <4> QED BY <4>1, <4>2 DEF Tiene
    <3> QED BY <3>1, <3>2, <3>3
  <2>12. \A k : ~Tiene(c, k, p)'
    <3>1. CASE op \in LiberaAntes
      <4>1. Tiene(c, "manejo", p)
        BY <1>1, <2>4, <3>1 DEF Tiene
      <4>2. ~Tiene(c, "asignado", p)
        <5> HIDE DEF Tiene
        <5>1. "asignado" # "manejo"
          OBVIOUS
        <5> QED BY <2>1, <4>1, <5>1 DEF TurnosInv, UnDuenio
      <4> SUFFICES ASSUME NEW k, Tiene(c, k, p)' PROVE FALSE
        OBVIOUS
      <4> HIDE DEF Tiene
      <4>3. Tiene(c, k, p) /\ k = "asignado"
        BY <2>1, <2>10
      <4> QED BY <4>2, <4>3
    <3>2. CASE op \notin LiberaAntes
      <4>1. Soltado(c)'
        BY <2>2, <2>5, <3>2 DEF Soltado, Ocupada
      <4> QED BY <2>2, <2>5, <4>1 DEF Tiene
    <3> QED BY <3>1, <3>2
  <2>13. \A q \in Procesos : \A d \in CPUs : \A k : Tiene(d, k, q)' => Tiene(d, k, q) /\ q # p
    <3> SUFFICES ASSUME NEW q \in Procesos, NEW d \in CPUs, NEW k, Tiene(d, k, q)'
                 PROVE  Tiene(d, k, q) /\ q # p
      OBVIOUS
    <3> HIDE DEF Tiene
    <3>1. Tiene(d, k, q)
      BY <2>9, <2>10
    <3>2. CASE d = c
      BY <2>12, <3>1, <3>2
    <3>3. CASE d # c
      <4>1. PICK l : Tiene(c, l, p)
        BY <2>11
      <4>2. UnDuenio(p)
        BY <2>1 DEF TurnosInv
      <4>3. ~Tiene(d, k, p)
        BY <3>3, <4>1, <4>2 DEF UnDuenio
      <4> QED BY <3>1, <4>3
    <3> QED BY <3>2, <3>3
  <2>14. \A d \in CPUs : \A k, q : Encolando(d, k, q)' <=> Encolando(d, k, q)
    BY <1>1 DEF Encolando
  <2>15. \A q \in Procesos : UnDuenio(q)'
    <3> HIDE DEF Tiene, Encolando
    <3> QED BY <2>1, <2>13, <2>14, DueniosQuedan DEF TurnosInv
  <2> QED BY <2>8, <2>15 DEF TurnosInv
<1> QED BY <1>2, <1>3

\* The thread of c, past EXEC, goes to phase f.
LEMMA TurnosFase ==
  ASSUME TypeInv, TurnosInv, NEW c \in CPUs, UNCHANGED <<exec, despacho, cpus>>,
         NEW f \in {"recibir", "liberar", "quitar"}, Fase(c, f),
         atiende[c].fase \in {"encolar", "bloquear", "terminar"},
         f = "recibir" => atiende[c].op \in LiberaAntes,
         f = "liberar" => atiende[c].op \notin LiberaAntes \cup {"DESCONEXION_CPU"},
         f = "quitar" => atiende[c].op = "DESCONEXION_CPU"
  PROVE  TurnosInv'
<1>1. f \in FasesAtencion /\ f # "afuera" /\ atiende[c].fase # "afuera"
  BY DEF FasesAtencion
<1>2. /\ atiende'[c].fase = f
      /\ f # "recibir" => atiende'[c].pid = atiende[c].pid /\ atiende'[c].op = atiende[c].op
      /\ f = "recibir" => atiende'[c].op = "CONECTAR"
      /\ \A d \in CPUs : d # c => atiende'[d] = atiende[d]
  BY <1>1, FaseDeCPU
<1>3. UNCHANGED <<asignado, viva, aKS>> /\ CPUInv(c)
  BY DEF cpus, TurnosInv
<1>4. Ocupada(c)' => Ocupada(c)
  BY <1>2 DEF Ocupada
<1>5. Fases(c)'
  BY <1>2, <1>3 DEF Fases, CPUInv
<1>6. \A d \in CPUs : CPUInv(d)'
  BY <1>1, <1>4, <1>5, SoloFase DEF TurnosInv
<1>7. \A k : \A p \in Procesos : Tiene(c, k, p)' => Tiene(c, k, p)
  <2>1. Soltado(c) => Soltado(c)' \/ f = "recibir"
    BY <1>2 DEF Soltado, Ocupada
  <2>2. f = "recibir" => ~Soltado(c)
    BY DEF Soltado, Ocupada, LiberaAntes
  <2> QED BY <1>2, <1>3, <2>1, <2>2 DEF Tiene
<1>8. \A p \in Procesos : UnDuenio(p)'
  BY <1>2, <1>3, <1>7, DueniosDe DEF TurnosInv
<1> QED BY <1>6, <1>8 DEF TurnosInv

LEMMA TurnosEncolarDesalojado ==
  ASSUME TypeInv, TurnosInv, NEW c \in CPUs, EncolarDesalojado(c)
  PROVE  TurnosInv'
<1>1. atiende[c].fase = "encolar" /\ UNCHANGED <<exec, despacho, cpus>> /\ Fase(c, "liberar")
  BY DEF EncolarDesalojado
<1>2. atiende[c].op \in Desalojos
  BY <1>1 DEF TurnosInv, CPUInv, Fases
<1>3. atiende[c].op \notin LiberaAntes \cup {"DESCONEXION_CPU"}
  BY <1>2 DEF Desalojos, LiberaAntes
<1> QED BY <1>1, <1>3, TurnosFase

LEMMA TurnosBloquear ==
  ASSUME TypeInv, TurnosInv, NEW c \in CPUs, Bloquear(c)
  PROVE  TurnosInv'
<1>1. /\ atiende[c].fase = "bloquear" /\ UNCHANGED <<exec, despacho, cpus>>
      /\ Fase(c, FaseFinal(atiende[c].op))
  BY DEF Bloquear
<1>2. PICK f \in {"recibir", "liberar", "quitar"} :
        /\ f = FaseFinal(atiende[c].op)
        /\ f = "recibir" => atiende[c].op \in LiberaAntes
        /\ f = "liberar" => atiende[c].op \notin LiberaAntes \cup {"DESCONEXION_CPU"}
        /\ f = "quitar" => atiende[c].op = "DESCONEXION_CPU"
  BY DEF FaseFinal
<1> QED BY <1>1, <1>2, TurnosFase

LEMMA TurnosTerminar ==
  ASSUME TypeInv, TurnosInv, NEW c \in CPUs, Terminar(c)
  PROVE  TurnosInv'
<1>1. /\ atiende[c].fase = "terminar" /\ UNCHANGED <<exec, despacho, cpus>>
      /\ Fase(c, FaseFinal(atiende[c].op))
  BY DEF Terminar
<1>2. PICK f \in {"recibir", "liberar", "quitar"} :
        /\ f = FaseFinal(atiende[c].op)
        /\ f = "recibir" => atiende[c].op \in LiberaAntes
        /\ f = "liberar" => atiende[c].op \notin LiberaAntes \cup {"DESCONEXION_CPU"}
        /\ f = "quitar" => atiende[c].op = "DESCONEXION_CPU"
  BY DEF FaseFinal
<1> QED BY <1>1, <1>2, TurnosFase

\* What a send leaves in a socket to c that held no turn.
LEMMA EnvioDeTurno ==
  ASSUME TypeInv, NEW c \in CPUs, NEW m \in Mensaje, EnviarACPU(c, m), SinEnvio(aCPU[c])
  PROVE  /\ UnEnvio(aCPU'[c], m.pid)
         /\ ~viva[c] => aCPU'[c] = aCPU[c]
         /\ \A d \in CPUs : d # c => aCPU'[d] = aCPU[d]
<1>1. aCPU \in [CPUs -> Seq(Mensaje)]
  BY DEF TypeInv, TypeOK, TipoCPUs
<1>2. CASE viva[c]
  <2>1. aCPU'[c] = Append(aCPU[c], m) /\ \A d \in CPUs : d # c => aCPU'[d] = aCPU[d]
    BY <1>1, <1>2 DEF EnviarACPU
  <2>2. UnEnvio(Append(aCPU[c], m), m.pid)
    BY <1>1, UnEnvioAlFinal
  <2> QED BY <1>2, <2>1, <2>2
<1>3. CASE ~viva[c]
  BY <1>3, SinEnvioNinguno DEF EnviarACPU
<1> QED BY <1>2, <1>3

LEMMA TurnosResponder ==
  ASSUME TypeInv, TurnosInv, NEW c \in CPUs, Responder(c)
  PROVE  TurnosInv'
<1> DEFINE m == [op |-> "PROCESO_A_PROCESAR", pid |-> atiende[c].pid]
<1>1. /\ atiende[c].fase = "responder" /\ EnviarACPU(c, m) /\ Fase(c, "recibir")
      /\ "recibir" \in FasesAtencion
      /\ UNCHANGED <<exec, despacho, conectadas, libre, asignado, viva, corre, aKS>>
  BY DEF Responder, colas, FasesAtencion
<1>2. /\ atiende'[c].fase = "recibir" /\ atiende'[c].op = "CONECTAR"
      /\ \A d \in CPUs : d # c => atiende'[d] = atiende[d]
  BY <1>1, FaseDeCPU
<1>3. CPUInv(c) /\ Ocupada(c) /\ asignado[c] = atiende[c].pid /\ atiende[c].pid \in Procesos
  BY <1>1 DEF TurnosInv, CPUInv, UnTurnoEn, Ocupada, TypeInv, EnCurso
<1>4. ~libre[c] /\ ~EnDespacho(c) /\ SinEnvio(aCPU[c]) /\ corre[c] = Ninguno /\ aKS[c] = <<>>
  BY <1>3 DEF CPUInv, UnTurnoEn
<1>5. m \in Mensaje /\ m.pid = asignado[c]
  BY <1>3 DEF Mensaje, Pid
<1>6. /\ UnEnvio(aCPU'[c], asignado[c])
      /\ ~viva[c] => aCPU'[c] = aCPU[c]
      /\ \A d \in CPUs : d # c => aCPU'[d] = aCPU[d]
  BY <1>1, <1>4, <1>5, EnvioDeTurno
<1>7. ~Ocupada(c)' /\ ~EnDespacho(c)'
  BY <1>1, <1>2, <1>4 DEF Ocupada, EnDespacho
<1>8. UnTurnoEn(c)'
  BY <1>1, <1>3, <1>4, <1>6, <1>7, PlanificadorAssumption DEF UnTurnoEn
<1>9. Fases(c)' /\ Conexion(c)'
  BY <1>1, <1>2, <1>3, <1>6 DEF Fases, Conexion, CPUInv
<1>10. \A d \in CPUs : CPUInv(d)'
  BY <1>1, <1>2, <1>6, <1>8, <1>9, SoloEstaCPU DEF TurnosInv, CPUInv, Iguales
<1>11. \A k : \A p \in Procesos : Tiene(c, k, p)' => Tiene(c, k, p)
  <2>1. ~Soltado(c)
    BY <1>1, <1>3 DEF Soltado, CPUInv, Fases
  <2> QED BY <1>1, <1>2, <2>1 DEF Tiene
<1>12. \A p \in Procesos : UnDuenio(p)'
  BY <1>1, <1>2, <1>11, DueniosDe DEF TurnosInv
<1> QED BY <1>10, <1>12 DEF TurnosInv

LEMMA TurnosQuitarCPU ==
  ASSUME TypeInv, TurnosInv, NEW c \in CPUs, QuitarCPU(c)
  PROVE  TurnosInv'
<1>1. /\ atiende[c].fase = "quitar" /\ Fase(c, "afuera") /\ "afuera" \in FasesAtencion
      /\ UNCHANGED <<exec, despacho, libre, asignado, viva, corre, aCPU, aKS>>
      /\ conectadas' = conectadas \ {c}
  BY DEF QuitarCPU, colas, FasesAtencion
<1>2. /\ atiende'[c].fase = "afuera" /\ atiende'[c].op = atiende[c].op
      /\ \A d \in CPUs : d # c => atiende'[d] = atiende[d]
  BY <1>1, FaseDeCPU
<1>3. CPUInv(c) /\ atiende[c].op = "DESCONEXION_CPU" /\ ~viva[c]
  BY <1>1 DEF TurnosInv, CPUInv, Fases
<1>4. ~Ocupada(c)' /\ ~Ocupada(c) /\ (EnDespacho(c)' <=> EnDespacho(c))
  BY <1>1, <1>2, <1>3 DEF Ocupada, EnDespacho
<1>5. UnTurnoEn(c)'
  BY <1>1, <1>3, <1>4 DEF UnTurnoEn, CPUInv
<1>6. Fases(c)' /\ Conexion(c)'
  BY <1>1, <1>2, <1>3 DEF Fases, Conexion, CPUInv
<1>7. \A d \in CPUs : CPUInv(d)'
  BY <1>1, <1>2, <1>5, <1>6, SoloEstaCPU DEF TurnosInv, CPUInv, Iguales
<1>8. \A k : \A p \in Procesos : Tiene(c, k, p)' => Tiene(c, k, p)
  BY <1>1, <1>2, <1>3 DEF Tiene, Soltado
<1>9. \A p \in Procesos : UnDuenio(p)'
  BY <1>1, <1>2, <1>8, DueniosDe DEF TurnosInv
<1> QED BY <1>7, <1>9 DEF TurnosInv

-----------------------------------------------------------------------------
(* The CPUs, the timers and the monitor                                    *)

\* A step in the sockets of c, or of the CPU itself.
LEMMA TurnosDelSocket ==
  ASSUME TurnosInv, NEW c \in CPUs,
         UNCHANGED <<exec, despacho, atiende, asignado, libre, conectadas>>,
         \A d \in CPUs : d # c => /\ viva'[d] = viva[d] /\ corre'[d] = corre[d]
                                  /\ aCPU'[d] = aCPU[d] /\ aKS'[d] = aKS[d],
         CPUInv(c)'
  PROVE  TurnosInv'
<1>1. \A d \in CPUs : CPUInv(d)'
  BY SoloEstaCPU DEF TurnosInv, Iguales
<1>2. \A p \in Procesos : UnDuenio(p)'
  BY DueniosQuietos DEF TurnosInv
<1> QED BY <1>1, <1>2 DEF TurnosInv

LEMMA TurnosRecibirProceso ==
  ASSUME TypeInv, TurnosInv, NEW c \in CPUs, RecibirProceso(c)
  PROVE  TurnosInv'
<1> DEFINE s == aCPU[c]
<1>1. /\ viva[c] /\ corre[c] = Ninguno /\ s # <<>> /\ s \in Seq(Mensaje)
      /\ UNCHANGED <<exec, despacho, atiende, asignado, libre, conectadas, viva, aKS>>
  BY DEF RecibirProceso, colas, hilos, TypeInv, TypeOK, TipoCPUs
<1>2. /\ aCPU'[c] = Tail(s)
      /\ corre'[c] = IF Head(s).op = "PROCESO_A_PROCESAR" THEN Head(s).pid ELSE Ninguno
      /\ \A d \in CPUs : d # c => aCPU'[d] = aCPU[d] /\ corre'[d] = corre[d]
  BY <1>1 DEF RecibirProceso, TypeInv, TypeOK, TipoCPUs
<1>3. CPUInv(c) /\ UnEnvio(s, asignado[c])
  BY DEF TurnosInv, CPUInv, UnTurnoEn
<1>4. /\ UnEnvio(Tail(s), asignado[c])
      /\ SinEnvio(s) => SinEnvio(Tail(s)) /\ Head(s).op # "PROCESO_A_PROCESAR"
      /\ Head(s).op = "PROCESO_A_PROCESAR" => SinEnvio(Tail(s)) /\ Head(s).pid = asignado[c]
      /\ Head(s).op # "PROCESO_A_PROCESAR" /\ SinEnvio(Tail(s)) => SinEnvio(s)
  BY <1>1, <1>3, EnvioLeido
<1>5. (Ocupada(c)' <=> Ocupada(c)) /\ (EnDespacho(c)' <=> EnDespacho(c))
  BY <1>1 DEF Ocupada, EnDespacho
<1> HIDE DEF s
<1>6. UnTurnoEn(c)'
  <2>1. UnTurnoEn(c) /\ s = aCPU[c]
    BY <1>3 DEF CPUInv, s
  <2>2. CASE SinEnvio(s)
    BY <1>1, <1>2, <1>4, <1>5, <2>1, <2>2 DEF UnTurnoEn
  <2>3. CASE ~SinEnvio(s)
    BY <1>1, <1>2, <1>4, <1>5, <2>1, <2>3 DEF UnTurnoEn
  <2> QED BY <2>2, <2>3
<1>7. Fases(c)' /\ Conexion(c)'
  BY <1>1, <1>3, <1>5 DEF Fases, Conexion, CPUInv
<1> QED BY <1>1, <1>2, <1>6, <1>7, TurnosDelSocket DEF CPUInv

\* A CPU that runs a process gives it back in a packet.
LEMMA TurnosDevolver ==
  ASSUME TypeInv, TurnosInv, NEW c \in CPUs, viva[c], corre[c] # Ninguno,
         UNCHANGED <<exec, despacho, atiende, asignado, libre, conectadas, viva>>,
         NEW m \in Pedido, m.pid = corre[c],
         aKS' = [aKS EXCEPT ![c] = Append(@, m)], corre' = [corre EXCEPT ![c] = Ninguno],
         aCPU'[c] = aCPU[c] \/ (aCPU[c] # <<>> /\ aCPU'[c] = Tail(aCPU[c])),
         \A d \in CPUs : d # c => aCPU'[d] = aCPU[d]
  PROVE  TurnosInv'
<1>1. CPUInv(c)
  BY DEF TurnosInv
<1>2. /\ SinEnvio(aCPU[c]) /\ aKS[c] = <<>> /\ ~Ocupada(c) /\ asignado[c] = corre[c]
      /\ ~libre[c] /\ ~EnDespacho(c)
  BY <1>1 DEF CPUInv, UnTurnoEn
<1>3. SinEnvio(aCPU'[c]) /\ UnEnvio(aCPU'[c], asignado[c])
  <2>1. aCPU[c] \in Seq(Mensaje) /\ UnEnvio(aCPU[c], asignado[c])
    BY <1>2, SinEnvioNinguno DEF TypeInv, TypeOK, TipoCPUs
  <2>2. SinEnvio(aCPU'[c])
    BY <1>2, <2>1, EnvioLeido
  <2> QED BY <2>2, SinEnvioNinguno
<1>4. /\ corre'[c] = Ninguno /\ aKS'[c] = Append(<<>>, m)
      /\ \A d \in CPUs : d # c => corre'[d] = corre[d] /\ aKS'[d] = aKS[d]
  BY <1>2 DEF TypeInv, TypeOK, TipoCPUs
<1>5. Len(aKS'[c]) = 1 /\ aKS'[c][1] = m
  <2>1. \A x \in Pedido : Len(Append(<<>>, x)) = 1 /\ Append(<<>>, x)[1] = x
    OBVIOUS
  <2> QED BY <1>4, <2>1
<1>6. ~Ocupada(c)' /\ ~EnDespacho(c)'
  BY <1>2 DEF Ocupada, EnDespacho
<1>7. UnTurnoEn(c)'
  BY <1>2, <1>3, <1>4, <1>5, <1>6 DEF UnTurnoEn
<1>8. Fases(c)' /\ Conexion(c)'
  BY <1>1, <1>2 DEF Fases, Conexion, CPUInv
<1> QED BY <1>4, <1>7, <1>8, TurnosDelSocket DEF CPUInv

LEMMA TurnosPedirSyscall ==
  ASSUME TypeInv, TurnosInv, NEW c \in CPUs, NEW op \in Syscalls, PedirSyscall(c, op)
  PROVE  TurnosInv'
<1>1. /\ viva[c] /\ corre[c] # Ninguno /\ [op |-> op, pid |-> corre[c]] \in Pedido
      /\ UNCHANGED <<exec, despacho, atiende, asignado, libre, conectadas, viva>>
      /\ aCPU'[c] = aCPU[c] \/ (aCPU[c] # <<>> /\ aCPU'[c] = Tail(aCPU[c]))
      /\ \A d \in CPUs : d # c => aCPU'[d] = aCPU[d]
  BY PlanificadorAssumption DEF PedirSyscall, colas, hilos, Pedido, TypeInv, TypeOK, TipoCPUs, Pid
<1>2. PICK m \in Pedido : /\ m.pid = corre[c]
                          /\ aKS' = [aKS EXCEPT ![c] = Append(@, m)]
                          /\ corre' = [corre EXCEPT ![c] = Ninguno]
  BY <1>1 DEF PedirSyscall
<1> QED BY <1>1, <1>2, TurnosDevolver

LEMMA TurnosAtenderInterrupcion ==
  ASSUME TypeInv, TurnosInv, NEW c \in CPUs, AtenderInterrupcion(c)
  PROVE  TurnosInv'
<1>1. /\ viva[c] /\ corre[c] # Ninguno /\ aCPU[c] # <<>> /\ aCPU[c] \in Seq(Mensaje)
      /\ UNCHANGED <<exec, despacho, atiende, asignado, libre, conectadas, viva>>
      /\ corre[c] \in Procesos
      /\ aCPU' = [aCPU EXCEPT ![c] = Tail(@)]
  BY DEF AtenderInterrupcion, colas, hilos, TypeInv, TypeOK, TipoCPUs, Pid
<1>2. aCPU'[c] = Tail(aCPU[c]) /\ \A d \in CPUs : d # c => aCPU'[d] = aCPU[d]
  BY <1>1 DEF TypeInv, TypeOK, TipoCPUs
<1>3. CASE UNCHANGED <<aKS, corre>>
  <2>1. CPUInv(c)
    BY DEF TurnosInv
  <2>2. SinEnvio(aCPU[c]) /\ UnEnvio(aCPU[c], asignado[c])
    BY <1>1, <2>1 DEF CPUInv, UnTurnoEn
  <2>3. SinEnvio(aCPU'[c]) /\ UnEnvio(aCPU'[c], asignado[c])
    BY <1>1, <1>2, <2>2, EnvioLeido
  <2>4. (Ocupada(c)' <=> Ocupada(c)) /\ (EnDespacho(c)' <=> EnDespacho(c))
    BY <1>1 DEF Ocupada, EnDespacho
  <2>5. UnTurnoEn(c)'
    BY <1>1, <1>3, <2>1, <2>3, <2>4 DEF UnTurnoEn, CPUInv
  <2>6. Fases(c)' /\ Conexion(c)'
    BY <1>1, <1>3, <2>1, <2>4 DEF Fases, Conexion, CPUInv
  <2> QED BY <1>1, <1>2, <1>3, <2>5, <2>6, TurnosDelSocket DEF CPUInv
<1>4. CASE ~UNCHANGED <<aKS, corre>>
  <2>1. PICK m \in Pedido : /\ m.pid = corre[c]
                            /\ aKS' = [aKS EXCEPT ![c] = Append(@, m)]
                            /\ corre' = [corre EXCEPT ![c] = Ninguno]
    <3>1. \A op \in Desalojos : [op |-> op, pid |-> corre[c]] \in Pedido
      BY <1>1 DEF Pedido
    <3>2. \E op \in Desalojos : /\ aKS' = [aKS EXCEPT ![c] = Append(@, [op |-> op, pid |-> corre[c]])]
                                /\ corre' = [corre EXCEPT ![c] = Ninguno]
      BY <1>4 DEF AtenderInterrupcion
    <3> QED BY <3>1, <3>2
  <2> QED BY <1>1, <1>2, <2>1, TurnosDevolver
<1> QED BY <1>3, <1>4

LEMMA TurnosCaerCPU ==
  ASSUME TypeInv, TurnosInv, NEW c \in CPUs, CaerCPU(c)
  PROVE  TurnosInv'
<1>1. /\ viva[c] /\ UNCHANGED <<exec, despacho, atiende, asignado, libre, conectadas, aKS>>
      /\ viva'[c] = FALSE /\ corre'[c] = Ninguno /\ aCPU'[c] = <<>>
      /\ \A d \in CPUs : d # c => viva'[d] = viva[d] /\ corre'[d] = corre[d] /\ aCPU'[d] = aCPU[d]
  BY DEF CaerCPU, colas, hilos, TypeInv, TypeOK, TipoCPUs
<1>2. CPUInv(c)
  BY DEF TurnosInv
<1>3. (Ocupada(c)' <=> Ocupada(c)) /\ (EnDespacho(c)' <=> EnDespacho(c))
  BY <1>1 DEF Ocupada, EnDespacho
<1>4. SinEnvio(aCPU'[c]) /\ UnEnvio(aCPU'[c], asignado[c])
  BY <1>1, EnvioVacio
<1>5. UnTurnoEn(c)'
  BY <1>1, <1>2, <1>3, <1>4 DEF UnTurnoEn, CPUInv
<1>6. Fases(c)' /\ Conexion(c)'
  BY <1>1, <1>2, <1>3 DEF Fases, Conexion, CPUInv
<1> QED BY <1>1, <1>5, <1>6, TurnosDelSocket DEF CPUInv

\* An interrupt to a CPU.
LEMMA TurnosAviso ==
  ASSUME TypeInv, TurnosInv, NEW c \in CPUs, NEW m \in Mensaje, m.op # "PROCESO_A_PROCESAR",
         EnviarACPU(c, m),
         UNCHANGED <<exec, despacho, atiende, asignado, libre, conectadas, viva, corre, aKS>>
  PROVE  TurnosInv'
<1>1. CPUInv(c) /\ aCPU[c] \in Seq(Mensaje)
  BY DEF TurnosInv, TypeInv, TypeOK, TipoCPUs
<1>2. /\ SinEnvio(aCPU'[c]) <=> SinEnvio(aCPU[c])
      /\ UnEnvio(aCPU[c], asignado[c]) => UnEnvio(aCPU'[c], asignado[c])
      /\ ~viva[c] => aCPU'[c] = aCPU[c]
      /\ \A d \in CPUs : d # c => aCPU'[d] = aCPU[d]
  <2>1. CASE viva[c]
    <3>1. aCPU'[c] = Append(aCPU[c], m) /\ \A d \in CPUs : d # c => aCPU'[d] = aCPU[d]
      BY <2>1 DEF EnviarACPU, TypeInv, TypeOK, TipoCPUs
    <3>2. /\ SinEnvio(Append(aCPU[c], m)) <=> SinEnvio(aCPU[c])
          /\ UnEnvio(aCPU[c], asignado[c]) => UnEnvio(Append(aCPU[c], m), asignado[c])
      BY <1>1, AvisoAlFinal
    <3> QED BY <2>1, <3>1, <3>2
  <2>2. CASE ~viva[c]
    <3>1. aCPU' = aCPU
      BY <2>2 DEF EnviarACPU
    <3> QED BY <3>1
  <2> QED BY <2>1, <2>2
<1>3. (Ocupada(c)' <=> Ocupada(c)) /\ (EnDespacho(c)' <=> EnDespacho(c))
  BY DEF Ocupada, EnDespacho
<1>4. UnTurnoEn(c)'
  BY <1>1, <1>2, <1>3 DEF UnTurnoEn, CPUInv
<1>5. Fases(c)' /\ Conexion(c)'
  BY <1>1, <1>2, <1>3 DEF Fases, Conexion, CPUInv
<1> QED BY <1>2, <1>4, <1>5, TurnosDelSocket DEF CPUInv

LEMMA TurnosNotificarQuantum ==
  ASSUME TypeInv, TurnosInv, NEW c \in CPUs, NotificarQuantum(c)
  PROVE  TurnosInv'
<1> DEFINE m == [op |-> "QUANTUM", pid |-> asignado[c]]
<1>1. m \in Mensaje /\ m.op # "PROCESO_A_PROCESAR"
  BY DEF Mensaje, Desalojos, TypeInv, TypeOK, TipoCPUs
<1>2. /\ EnviarACPU(c, m)
      /\ UNCHANGED <<exec, despacho, atiende, asignado, libre, conectadas, viva, corre, aKS>>
  BY DEF NotificarQuantum, colas, hilos
<1> HIDE DEF m
<1> QED BY <1>1, <1>2, TurnosAviso

LEMMA TurnosNotificarPrioridad ==
  ASSUME TypeInv, TurnosInv, NotificarPrioridad
  PROVE  TurnosInv'
<1> DEFINE c == monitor.cpu
           m == [op |-> "PRIORIDAD", pid |-> asignado[c]]
<1>1. c \in CPUs
  BY DEF NotificarPrioridad, TypeInv, EnCurso
<1>2. m \in Mensaje /\ m.op # "PROCESO_A_PROCESAR"
  BY <1>1 DEF Mensaje, Desalojos, TypeInv, TypeOK, TipoCPUs
<1>3. /\ EnviarACPU(c, m)
      /\ UNCHANGED <<exec, despacho, atiende, asignado, libre, conectadas, viva, corre, aKS>>
  BY DEF NotificarPrioridad, MonitorSolo, colas
<1> SUFFICES ASSUME NEW d \in CPUs, d = c PROVE TurnosInv'
  BY <1>1
<1> HIDE DEF c, m
<1>4. EnviarACPU(d, m)
  BY <1>3
<1> QED BY <1>2, <1>3, <1>4, TurnosAviso

-----------------------------------------------------------------------------
(* The dispatcher                                                          *)

ConCPU == {"asignar", "encolarExec", "enviar"}

\* Steps that leave the CPUs alone, of a dispatcher that has none.
LEMMA TurnosSinCPU ==
  ASSUME TurnosInv, UNCHANGED <<exec, atiende, cpus>>,
         UNCHANGED despacho \/ (despacho.fase \notin ConCPU /\ despacho'.fase \notin ConCPU)
  PROVE  TurnosInv'
<1>1. UNCHANGED <<conectadas, libre, asignado, viva, corre, aCPU, aKS>>
  BY DEF cpus
<1>2. \A c \in CPUs : \A k, p : Tiene(c, k, p)' => Tiene(c, k, p)
  BY <1>1 DEF Tiene, Soltado, Ocupada
<1>3. \A c \in CPUs : \A k, p : Encolando(c, k, p) => Encolando(c, k, p)'
  BY DEF Encolando, ConCPU
<1>4. \A p \in Procesos : UnDuenio(p)'
  <2> HIDE DEF Tiene, Encolando
  <2> QED BY <1>2, <1>3, DueniosQuedan DEF TurnosInv
<1>5. ASSUME NEW c \in CPUs PROVE CPUInv(c)'
  <2>1. /\ EnDespacho(c)' <=> EnDespacho(c)
        /\ EnDespacho(c) => UNCHANGED despacho
    BY DEF EnDespacho, ConCPU
  <2>2. Iguales(c)
    BY <1>1 DEF Iguales
  <2> QED BY <2>1, <2>2, OtraCPU DEF TurnosInv
<1> QED BY <1>4, <1>5 DEF TurnosInv

LEMMA TurnosElegirCPU ==
  ASSUME TypeInv, TurnosInv, ElegirCPU
  PROVE  TurnosInv'
<1>1. /\ despacho.fase = "elegirCPU" /\ despacho \in Despachos
      /\ UNCHANGED <<exec, atiende, conectadas, asignado, viva, corre, aCPU, aKS>>
  BY DEF ElegirCPU, TypeInv, TypeOK, TipoHilos
<1>2. CASE Libres = {}
  <2>1. UNCHANGED cpus /\ despacho' = DespachoOcioso
    BY <1>2 DEF ElegirCPU, cpus
  <2> QED BY <1>1, <2>1, TurnosSinCPU DEF ConCPU, DespachoOcioso
<1>3. ASSUME NEW c \in Libres, libre' = [libre EXCEPT ![c] = FALSE],
             despacho' = IF despacho.pcb = Ninguno THEN DespachoOcioso
                         ELSE [despacho EXCEPT !.fase = "asignar", !.cpu = c]
      PROVE  TurnosInv'
  <2>1. /\ c \in CPUs /\ libre[c] /\ libre'[c] = FALSE
        /\ \A d \in CPUs : d # c => libre'[d] = libre[d]
    BY <1>3 DEF Libres, TypeInv, TypeOK, TipoCPUs
  <2>2. \/ despacho'.fase = "esperar"
        \/ despacho'.fase = "asignar" /\ despacho'.cpu = c
    BY <1>1, <1>3 DEF DespachoOcioso, Despachos
  <2>3. CPUInv(c) /\ c \in conectadas
    BY <2>1, <1>3 DEF TurnosInv, Libres
  <2>4. /\ SinEnvio(aCPU[c]) /\ corre[c] = Ninguno /\ aKS[c] = <<>> /\ ~Ocupada(c)
        /\ asignado[c] = Ninguno
    BY <2>1, <2>3 DEF CPUInv, UnTurnoEn
  <2>5. Ocupada(c)' <=> Ocupada(c)
    BY <1>1 DEF Ocupada
  <2>6. EnDespacho(c)' => despacho'.fase = "asignar"
    BY <2>2 DEF EnDespacho
  <2>7. UnTurnoEn(c)'
    BY <1>1, <2>1, <2>3, <2>4, <2>5, <2>6 DEF UnTurnoEn, CPUInv
  <2>8. Fases(c)' /\ Conexion(c)'
    BY <1>1, <2>1, <2>3 DEF Fases, Conexion, CPUInv
  <2>9. ASSUME NEW d \in CPUs, d # c PROVE CPUInv(d)'
    <3>1. ~EnDespacho(d) /\ ~EnDespacho(d)'
      BY <1>1, <2>2, <2>9 DEF EnDespacho
    <3>2. Iguales(d)
      BY <1>1, <2>1, <2>9 DEF Iguales
    <3> QED BY <3>1, <3>2, OtraCPU DEF TurnosInv
  <2>10. \A d \in CPUs : \A k, p : Tiene(d, k, p)' => Tiene(d, k, p)
    BY <1>1 DEF Tiene, Soltado, Ocupada
  <2>11. \A d \in CPUs : \A k, p : ~Encolando(d, k, p)
    BY <1>1 DEF Encolando
  <2>12. \A p \in Procesos : UnDuenio(p)'
    <3> HIDE DEF Tiene, Encolando
    <3> QED BY <1>1, <2>10, <2>11, DueniosQuedan DEF TurnosInv
  <2> QED BY <2>7, <2>8, <2>9, <2>12 DEF TurnosInv, CPUInv
<1> QED BY <1>2, <1>3 DEF ElegirCPU

LEMMA TurnosAsignarCPU ==
  ASSUME TypeInv, LugaresInv, TurnosInv, AsignarCPU
  PROVE  TurnosInv'
<1>1. /\ despacho.fase = "asignar" /\ despacho \in Despachos
      /\ despacho.cpu \in CPUs /\ despacho.pcb \in Procesos
      /\ asignado' = [asignado EXCEPT ![despacho.cpu] = despacho.pcb]
      /\ despacho' = [despacho EXCEPT !.fase = "encolarExec"]
      /\ UNCHANGED <<exec, atiende, conectadas, libre, viva, corre, aCPU, aKS>>
  BY DEF AsignarCPU, colas, TypeInv, TypeOK, TipoHilos, EnCurso
<1> SUFFICES ASSUME NEW c \in CPUs, NEW p \in Procesos, c = despacho.cpu, p = despacho.pcb
             PROVE  TurnosInv'
  BY <1>1
<1>2. /\ asignado'[c] = p /\ \A d \in CPUs : d # c => asignado'[d] = asignado[d]
      /\ despacho'.fase = "encolarExec" /\ despacho'.cpu = c /\ despacho'.pcb = p
  BY <1>1 DEF TypeInv, TypeOK, TipoCPUs, Despachos
<1>3. CPUInv(c) /\ EnDespacho(c)
  BY <1>1 DEF TurnosInv, EnDespacho
<1>4. /\ ~libre[c] /\ SinEnvio(aCPU[c]) /\ corre[c] = Ninguno /\ aKS[c] = <<>> /\ ~Ocupada(c)
      /\ asignado[c] = Ninguno
  BY <1>1, <1>3 DEF CPUInv, UnTurnoEn
<1>5. ~Ocupada(c)' /\ UnEnvio(aCPU'[c], asignado'[c])
  BY <1>1, <1>4, SinEnvioNinguno DEF Ocupada
<1>6. UnTurnoEn(c)'
  BY <1>1, <1>2, <1>4, <1>5 DEF UnTurnoEn
<1>7. Fases(c)' /\ Conexion(c)'
  BY <1>1, <1>2, <1>3, <1>4 DEF Fases, Conexion, CPUInv
<1>8. ASSUME NEW d \in CPUs, d # c PROVE CPUInv(d)'
  <2>1. ~EnDespacho(d) /\ ~EnDespacho(d)'
    BY <1>2, <1>8 DEF EnDespacho
  <2>2. Iguales(d)
    BY <1>1, <1>2, <1>8 DEF Iguales
  <2> QED BY <2>1, <2>2, OtraCPU DEF TurnosInv
<1>9. p \notin exec
  <2>1. EnLugar(p, "DESPACHO", 0)
    BY <1>1, PlanificadorAssumption DEF EnLugar, EnManoDespacho
  <2>2. ~EnLugar(p, "EXEC", 0)
    BY <2>1 DEF LugaresInv, UnSoloLugar
  <2> QED BY <2>2 DEF EnLugar
<1>10. \A d \in CPUs : \A k, q : ~Encolando(d, k, q)
  BY <1>1 DEF Encolando
<1>11. \A d \in CPUs : \A k : ~Tiene(d, k, p)
  <2> HIDE DEF Tiene, Encolando
  <2> QED BY <1>9, <1>10 DEF TurnosInv, UnDuenio
<1>12. \A d \in CPUs : \A k, q : Tiene(d, k, q)' =>
         Tiene(d, k, q) \/ (d = c /\ k = "asignado" /\ q = p)
  BY <1>1, <1>2 DEF Tiene, Soltado, Ocupada
<1>13. Encolando(c, "asignado", p)'
  BY <1>2 DEF Encolando
<1>14. ASSUME NEW q \in Procesos PROVE UnDuenio(q)'
  <2> HIDE DEF Tiene, Encolando
  <2>1. UnDuenio(q)
    BY DEF TurnosInv
  <2>2. CASE q = p
    <3>1. \A d \in CPUs : \A k : Tiene(d, k, p)' => d = c /\ k = "asignado"
      BY <1>11, <1>12
    <3> QED BY <1>13, <2>2, <3>1 DEF UnDuenio
  <2>3. CASE q # p
    <3>1. \A d \in CPUs : \A k : Tiene(d, k, q)' => Tiene(d, k, q)
      BY <1>12, <2>3
    <3> QED BY <1>1, <1>10, <2>1, <3>1 DEF UnDuenio
  <2> QED BY <2>2, <2>3
<1> QED BY <1>6, <1>7, <1>8, <1>14 DEF TurnosInv, CPUInv

LEMMA TurnosEncolarExec ==
  ASSUME TypeInv, TurnosInv, EncolarExec
  PROVE  TurnosInv'
<1>1. /\ despacho.fase = "encolarExec" /\ despacho \in Despachos
      /\ exec' = exec \cup {despacho.pcb}
      /\ despacho' = [despacho EXCEPT !.fase = "enviar"]
      /\ UNCHANGED <<atiende, conectadas, libre, asignado, viva, corre, aCPU, aKS>>
  BY DEF EncolarExec, cpus, TypeInv, TypeOK, TipoHilos
<1>2. despacho'.fase = "enviar" /\ despacho'.cpu = despacho.cpu /\ despacho'.pcb = despacho.pcb
  BY <1>1 DEF Despachos
<1>3. ASSUME NEW d \in CPUs PROVE CPUInv(d)'
  <2>1. EnDespacho(d)' <=> EnDespacho(d)
    BY <1>1, <1>2 DEF EnDespacho
  <2>2. Iguales(d)
    BY <1>1 DEF Iguales
  <2> QED BY <1>1, <1>2, <2>1, <2>2, OtraCPU DEF TurnosInv
<1>4. \A d \in CPUs : \A k, p : Tiene(d, k, p)' => Tiene(d, k, p)
  BY <1>1 DEF Tiene, Soltado, Ocupada
<1>5. \A d \in CPUs : \A k, p : Encolando(d, k, p) => p \in exec'
  BY <1>1 DEF Encolando
<1>6. \A p \in Procesos : UnDuenio(p)'
  <2> HIDE DEF Tiene, Encolando
  <2> QED BY <1>1, <1>4, <1>5, DueniosQuedan DEF TurnosInv
<1> QED BY <1>3, <1>6 DEF TurnosInv

LEMMA TurnosEnviarProceso ==
  ASSUME TypeInv, TurnosInv, EnviarProceso
  PROVE  TurnosInv'
<1>1. /\ despacho.fase = "enviar" /\ despacho \in Despachos
      /\ despacho.cpu \in CPUs /\ despacho.pcb \in Procesos
      /\ EnviarACPU(despacho.cpu, [op |-> "PROCESO_A_PROCESAR", pid |-> despacho.pcb])
      /\ despacho' = [despacho EXCEPT !.fase = "temporizar"]
      /\ UNCHANGED <<exec, atiende, conectadas, libre, asignado, viva, corre, aKS>>
  BY DEF EnviarProceso, colas, TypeInv, TypeOK, TipoHilos, EnCurso
<1>2. despacho'.fase = "temporizar"
  BY <1>1 DEF Despachos
<1> SUFFICES ASSUME NEW c \in CPUs, NEW p \in Procesos, c = despacho.cpu, p = despacho.pcb
             PROVE  TurnosInv'
  BY <1>1
<1>3. CPUInv(c) /\ EnDespacho(c)
  BY <1>1 DEF TurnosInv, EnDespacho
<1>4. /\ ~libre[c] /\ SinEnvio(aCPU[c]) /\ corre[c] = Ninguno /\ aKS[c] = <<>> /\ ~Ocupada(c)
      /\ asignado[c] = p
  BY <1>1, <1>3 DEF CPUInv, UnTurnoEn
<1>5. /\ UnEnvio(aCPU'[c], p)
      /\ ~viva[c] => aCPU'[c] = aCPU[c]
      /\ \A d \in CPUs : d # c => aCPU'[d] = aCPU[d]
  <2>1. PICK m \in Mensaje : m.pid = p /\ EnviarACPU(c, m)
    <3>1. [op |-> "PROCESO_A_PROCESAR", pid |-> p] \in Mensaje
      BY DEF Mensaje, Pid
    <3> QED BY <1>1, <3>1
  <2> QED BY <1>4, <2>1, EnvioDeTurno
<1>6. ~Ocupada(c)' /\ ~EnDespacho(c)'
  BY <1>1, <1>2, <1>4 DEF Ocupada, EnDespacho
<1>7. UnTurnoEn(c)'
  BY <1>1, <1>4, <1>5, <1>6, PlanificadorAssumption DEF UnTurnoEn
<1>8. Fases(c)' /\ Conexion(c)'
  BY <1>1, <1>3, <1>5, <1>6 DEF Fases, Conexion, CPUInv
<1>9. ASSUME NEW d \in CPUs, d # c PROVE CPUInv(d)'
  <2>1. ~EnDespacho(d) /\ ~EnDespacho(d)'
    BY <1>2, <1>9 DEF EnDespacho
  <2>2. Iguales(d)
    BY <1>1, <1>5, <1>9 DEF Iguales
  <2> QED BY <2>1, <2>2, OtraCPU DEF TurnosInv
<1>10. \A d \in CPUs : \A k, q : Tiene(d, k, q)' => Tiene(d, k, q)
  BY <1>1 DEF Tiene, Soltado, Ocupada
<1>11. \A d \in CPUs : \A k, q : ~Encolando(d, k, q)
  BY <1>1 DEF Encolando
<1>12. \A q \in Procesos : UnDuenio(q)'
  <2> HIDE DEF Tiene, Encolando
  <2> QED BY <1>1, <1>10, <1>11, DueniosQuedan DEF TurnosInv
<1> QED BY <1>7, <1>8, <1>9, <1>12 DEF TurnosInv, CPUInv

LEMMA TurnosDespachar ==
  ASSUME TypeInv, LugaresInv, TurnosInv, Despachar
  PROVE  TurnosInv'
<1>1. despacho \in Despachos
  BY DEF TypeInv, TypeOK, TipoHilos
<1>2. CASE TomarFichas
  BY <1>1, <1>2, TurnosSinCPU DEF TomarFichas, colas, ConCPU, Despachos
<1>3. CASE ElegirProceso
  <2>1. \/ despacho' = [despacho EXCEPT !.nivel = despacho.nivel + 1]
        \/ despacho' = [despacho EXCEPT !.fase = "elegirCPU"]
        \/ \E p : despacho' = [despacho EXCEPT !.fase = "elegirCPU", !.pcb = p]
    BY <1>3 DEF ElegirProceso
  <2>2. despacho.fase = "elegir" /\ despacho'.fase \in {"elegir", "elegirCPU"}
    BY <1>1, <1>3, <2>1 DEF ElegirProceso, Despachos
  <2> QED BY <1>3, <2>2, TurnosSinCPU DEF ElegirProceso, ConCPU
<1>4. CASE Temporizar
  BY <1>4, TurnosSinCPU DEF Temporizar, colas, ConCPU, DespachoOcioso
<1> QED BY <1>2, <1>3, <1>4, TurnosElegirCPU, TurnosAsignarCPU, TurnosEncolarExec,
           TurnosEnviarProceso DEF Despachar

LEMMA InitTurnos == Init => TurnosInv
<1> SUFFICES ASSUME Init PROVE TurnosInv
  OBVIOUS
<1>1. ASSUME NEW c \in CPUs PROVE CPUInv(c)
  <2>1. /\ atiende[c].fase = "afuera" /\ atiende[c].op = "CONECTAR"
        /\ ~libre[c] /\ ~viva[c] /\ asignado[c] = Ninguno /\ corre[c] = Ninguno
        /\ aCPU[c] = <<>> /\ aKS[c] = <<>> /\ c \notin conectadas /\ despacho.fase = "esperar"
    BY DEF Init, DespachoOcioso
  <2>2. ~EnDespacho(c) /\ ~Ocupada(c) /\ SinEnvio(aCPU[c]) /\ UnEnvio(aCPU[c], asignado[c])
    BY <2>1, EnvioVacio DEF EnDespacho, Ocupada
  <2> QED BY <2>1, <2>2 DEF CPUInv, Fases, Conexion, UnTurnoEn
<1>2. ASSUME NEW p \in Procesos PROVE UnDuenio(p)
  <2>1. \A c \in CPUs : \A k : ~Tiene(c, k, p)
    BY PlanificadorAssumption DEF Init, Tiene
  <2> HIDE DEF Tiene
  <2> QED BY <2>1 DEF UnDuenio
<1> QED BY <1>1, <1>2 DEF TurnosInv

LEMMA PasoTurnos == TypeInv /\ LugaresInv /\ TurnosInv /\ [Next]_vars => TurnosInv'
<1> SUFFICES ASSUME TypeInv, LugaresInv, TurnosInv, [Next]_vars PROVE TurnosInv'
  OBVIOUS
<1>1. CASE Trasladar
  BY <1>1, TurnosSinCPU DEF Trasladar, CrearProceso, SacarDeNew, SacarDeBlock, EncolarTraslado,
     hilos
<1>2. CASE Monitorear
  BY <1>2, TurnosSinCPU, TurnosNotificarPrioridad DEF Monitorear, MonitorSolo,
     EsperarReadyPrioridad, MirarCPUs, ElegirVictima, BuscarMasPrioritario, UbicarVictima,
     ComprobarEnExec, EsperarDesalojo, colas
<1>3. ASSUME NEW c \in CPUs, Atender(c) PROVE TurnosInv'
  BY <1>3, TurnosRecibirDeCPU, TurnosDetectarDesconexion, TurnosLiberarCPU, TurnosSacarDeExec,
     TurnosEncolarDesalojado, TurnosBloquear, TurnosTerminar, TurnosResponder, TurnosQuitarCPU
     DEF Atender
<1>4. ASSUME NEW c \in CPUs, EjecutarCPU(c) PROVE TurnosInv'
  BY <1>4, TurnosConectarCPU, TurnosRecibirProceso, TurnosAtenderInterrupcion, TurnosCaerCPU,
     TurnosPedirSyscall DEF EjecutarCPU
<1>5. ASSUME NEW c \in CPUs, Reloj(c) PROVE TurnosInv'
  <2>1. CASE NotificarQuantum(c)
    BY <2>1, TurnosNotificarQuantum
  <2>2. CASE ArrancarTemporizador(c) \/ \E p \in Procesos : VencerQuantum(c, p)
    BY <2>2, TurnosSinCPU DEF ArrancarTemporizador, VencerQuantum, colas, hilos
  <2> QED BY <1>5, <2>1, <2>2 DEF Reloj
<1>6. CASE UNCHANGED vars
  BY <1>6, TurnosSinCPU DEF vars, colas, hilos
<1> QED BY <1>1, <1>2, <1>3, <1>4, <1>5, <1>6, TurnosDespachar DEF Next

-----------------------------------------------------------------------------
\* One element of Turnos(p), at CPU c.
Turno(c, t, p) ==
  \/ \E i \in DOMAIN aCPU[c] : /\ t = <<c, "envio", i>> /\ aCPU[c][i].op = "PROCESO_A_PROCESAR"
                               /\ aCPU[c][i].pid = p
  \/ \E i \in DOMAIN aKS[c] : t = <<c, "vuelta", i>> /\ aKS[c][i].pid = p
  \/ t = <<c, "corre", 0>> /\ corre[c] = p
  \/ t = <<c, "respuesta", 0>> /\ atiende[c].fase = "responder" /\ atiende[c].pid = p

LEMMA TurnosPorCPU ==
  ASSUME NEW p \in Procesos, NEW t \in Turnos(p)
  PROVE  \E c \in CPUs : t[1] = c /\ Turno(c, t, p)
<1>1. \/ \E c \in CPUs : \E i \in DOMAIN aCPU[c] :
           t = <<c, "envio", i>> /\ aCPU[c][i] = [op |-> "PROCESO_A_PROCESAR", pid |-> p]
      \/ \E c \in CPUs : \E i \in DOMAIN aKS[c] : t = <<c, "vuelta", i>> /\ aKS[c][i].pid = p
      \/ \E c \in CPUs : t = <<c, "corre", 0>> /\ corre[c] = p
      \/ \E c \in CPUs : t = <<c, "respuesta", 0>> /\ atiende[c].fase = "responder"
                         /\ atiende[c].pid = p
  <2> DEFINE E(c) == {<<c, "envio", i>> : i \in {j \in DOMAIN aCPU[c] :
                         aCPU[c][j] = [op |-> "PROCESO_A_PROCESAR", pid |-> p]}}
             V(c) == {<<c, "vuelta", i>> : i \in {j \in DOMAIN aKS[c] : aKS[c][j].pid = p}}
             C == {<<c, "corre", 0>> : c \in {d \in CPUs : corre[d] = p}}
             R == {<<c, "respuesta", 0>> : c \in {d \in CPUs : atiende[d].fase = "responder"
                                                          /\ atiende[d].pid = p}}
             Es == (UNION {E(c) : c \in CPUs})
             Vs == (UNION {V(c) : c \in CPUs})
  <2>1. t \in Es \cup Vs \cup C \cup R
    BY Zenon DEF Turnos
  <2>2. ASSUME NEW c \in CPUs, t \in E(c)
        PROVE  \E i \in DOMAIN aCPU[c] :
                 t = <<c, "envio", i>> /\ aCPU[c][i] = [op |-> "PROCESO_A_PROCESAR", pid |-> p]
    BY <2>2
  <2>3. ASSUME NEW c \in CPUs, t \in V(c)
        PROVE  \E i \in DOMAIN aKS[c] : t = <<c, "vuelta", i>> /\ aKS[c][i].pid = p
    BY <2>3
  <2>4. t \in C => \E c \in CPUs : t = <<c, "corre", 0>> /\ corre[c] = p
    OBVIOUS
  <2>5. t \in R => \E c \in CPUs : t = <<c, "respuesta", 0>> /\ atiende[c].fase = "responder"
                                 /\ atiende[c].pid = p
    OBVIOUS
  <2> HIDE DEF E, V, C, R
  <2>6. /\ t \in Es => \E c \in CPUs : t \in E(c)
        /\ t \in Vs => \E c \in CPUs : t \in V(c)
    OBVIOUS
  <2> HIDE DEF Es, Vs
  <2>7. t \in Es \/ t \in Vs \/ t \in C \/ t \in R
    BY <2>1
  <2> QED BY <2>2, <2>3, <2>4, <2>5, <2>6, <2>7
<1>2. ASSUME NEW c \in CPUs, NEW k, NEW i, t = <<c, k, i>> PROVE t[1] = c
  BY <1>2
<1>3. ASSUME NEW c \in CPUs, NEW i \in DOMAIN aCPU[c], t = <<c, "envio", i>>,
             aCPU[c][i] = [op |-> "PROCESO_A_PROCESAR", pid |-> p]
      PROVE  Turno(c, t, p)
  BY <1>3 DEF Turno
<1>4. ASSUME NEW c \in CPUs, \/ \E i \in DOMAIN aKS[c] : t = <<c, "vuelta", i>> /\ aKS[c][i].pid = p
                             \/ t = <<c, "corre", 0>> /\ corre[c] = p
                             \/ t = <<c, "respuesta", 0>> /\ atiende[c].fase = "responder"
                                /\ atiende[c].pid = p
      PROVE  Turno(c, t, p)
  BY <1>4 DEF Turno
<1> HIDE DEF Turno
<1> QED BY <1>1, <1>2, <1>3, <1>4

\* A CPU with a turn has no other, is assigned to its process and has not let go of it.
LEMMA UnTurnoPorCPU ==
  ASSUME TypeInv, TurnosInv, NEW p \in Procesos, NEW c \in CPUs, NEW t, Turno(c, t, p)
  PROVE  /\ Tiene(c, "asignado", p) /\ ~EnDespacho(c) /\ asignado[c] = p
         /\ \A u : Turno(c, u, p) => u = t
<1>1. /\ aKS[c] \in Seq(Pedido) /\ aCPU[c] \in Seq(Mensaje) /\ p # Ninguno
  BY PlanificadorAssumption DEF TypeInv, TypeOK, TipoCPUs
<1>2. CPUInv(c)
  BY DEF TurnosInv
<1>3. ASSUME NEW i \in DOMAIN aCPU[c], t = <<c, "envio", i>>,
             aCPU[c][i].op = "PROCESO_A_PROCESAR", aCPU[c][i].pid = p
      PROVE  /\ asignado[c] = p /\ ~EnDespacho(c) /\ ~Ocupada(c) /\ corre[c] = Ninguno
             /\ aKS[c] = <<>> /\ viva[c]
             /\ \A u : Turno(c, u, p) => u = t
  <2>1. ~SinEnvio(aCPU[c]) /\ aCPU[c] # <<>>
    BY <1>3, EnvioVacio DEF SinEnvio
  <2>2. asignado[c] = p /\ \A j \in DOMAIN aCPU[c] : aCPU[c][j].op = "PROCESO_A_PROCESAR" => i = j
    BY <1>2, <1>3 DEF CPUInv, UnTurnoEn, UnEnvio
  <2>3. ~EnDespacho(c) /\ ~Ocupada(c) /\ corre[c] = Ninguno /\ aKS[c] = <<>> /\ viva[c]
    BY <1>2, <2>1 DEF CPUInv, UnTurnoEn, Conexion
  <2>4. ASSUME NEW u, Turno(c, u, p) PROVE u = t
    <3>1. ~\E j \in DOMAIN aKS[c] : TRUE
      BY <2>3
    <3>2. corre[c] # p /\ atiende[c].fase # "responder"
      BY <1>1, <2>3 DEF Ocupada
    <3> QED BY <1>3, <2>2, <2>4, <3>1, <3>2 DEF Turno
  <2> QED BY <2>2, <2>3, <2>4
<1>4. ASSUME NEW i \in DOMAIN aKS[c], t = <<c, "vuelta", i>>, aKS[c][i].pid = p
      PROVE  /\ asignado[c] = p /\ ~EnDespacho(c) /\ ~Ocupada(c)
             /\ atiende[c].op # "DESCONEXION_CPU"
             /\ \A u : Turno(c, u, p) => u = t
  <2>1. aKS[c] # <<>>
    BY <1>4
  <2>2. /\ Len(aKS[c]) = 1 /\ ~Ocupada(c) /\ asignado[c] = aKS[c][1].pid /\ ~EnDespacho(c)
        /\ SinEnvio(aCPU[c]) /\ corre[c] = Ninguno /\ atiende[c].op # "DESCONEXION_CPU"
    BY <1>2, <2>1 DEF CPUInv, UnTurnoEn, Fases
  <2>3. i = 1 /\ \A j \in DOMAIN aKS[c] : j = 1
    BY <1>1, <1>4, <2>2
  <2>4. ASSUME NEW u, Turno(c, u, p) PROVE u = t
    <3>1. corre[c] # p /\ atiende[c].fase # "responder"
      BY <1>1, <2>2 DEF Ocupada
    <3> QED BY <1>4, <2>2, <2>3, <2>4, <3>1 DEF Turno, SinEnvio
  <2> QED BY <1>4, <2>2, <2>3, <2>4
<1>5. ASSUME t = <<c, "corre", 0>>, corre[c] = p
      PROVE  /\ asignado[c] = p /\ ~EnDespacho(c) /\ ~Ocupada(c) /\ viva[c]
             /\ \A u : Turno(c, u, p) => u = t
  <2>1. /\ ~Ocupada(c) /\ asignado[c] = p /\ ~EnDespacho(c) /\ SinEnvio(aCPU[c])
        /\ aKS[c] = <<>> /\ viva[c]
    BY <1>1, <1>2, <1>5 DEF CPUInv, UnTurnoEn, Conexion
  <2>2. ASSUME NEW u, Turno(c, u, p) PROVE u = t
    <3>1. atiende[c].fase # "responder"
      BY <2>1 DEF Ocupada
    <3>2. ~\E j \in DOMAIN aKS[c] : TRUE
      BY <2>1
    <3> QED BY <1>5, <2>1, <2>2, <3>1, <3>2 DEF Turno, SinEnvio
  <2> QED BY <2>1, <2>2
<1>6. ASSUME t = <<c, "respuesta", 0>>, atiende[c].fase = "responder", atiende[c].pid = p
      PROVE  /\ asignado[c] = p /\ ~EnDespacho(c)
             /\ \A u : Turno(c, u, p) => u = t
  <2>1. Ocupada(c)
    BY <1>6 DEF Ocupada
  <2>2. /\ asignado[c] = p /\ ~EnDespacho(c) /\ SinEnvio(aCPU[c]) /\ corre[c] = Ninguno
        /\ aKS[c] = <<>>
    BY <1>2, <1>6, <2>1 DEF CPUInv, UnTurnoEn
  <2>3. ASSUME NEW u, Turno(c, u, p) PROVE u = t
    <3>1. ~\E j \in DOMAIN aKS[c] : TRUE
      BY <2>2
    <3> QED BY <1>1, <1>6, <2>2, <2>3, <3>1 DEF Turno, SinEnvio
  <2> QED BY <2>2, <2>3
<1>7. asignado[c] = p /\ ~EnDespacho(c) /\ \A u : Turno(c, u, p) => u = t
  <2>1. \/ \E i \in DOMAIN aCPU[c] : /\ t = <<c, "envio", i>>
                                     /\ aCPU[c][i].op = "PROCESO_A_PROCESAR"
                                     /\ aCPU[c][i].pid = p
        \/ \E i \in DOMAIN aKS[c] : t = <<c, "vuelta", i>> /\ aKS[c][i].pid = p
        \/ t = <<c, "corre", 0>> /\ corre[c] = p
        \/ t = <<c, "respuesta", 0>> /\ atiende[c].fase = "responder" /\ atiende[c].pid = p
    BY DEF Turno
  <2> HIDE DEF Turno
  <2> QED BY <1>3, <1>4, <1>5, <1>6, <2>1
<1>8. ~Soltado(c)
  <2>1. CASE atiende[c].fase = "responder"
    BY <1>2, <2>1 DEF Soltado, CPUInv, Fases
  <2>2. CASE atiende[c].fase # "responder"
    <3>1. ~Ocupada(c) /\ (viva[c] \/ atiende[c].op # "DESCONEXION_CPU")
      BY <1>3, <1>4, <1>5, <2>2 DEF Turno
    <3>2. atiende[c].op # "DESCONEXION_CPU"
      BY <1>2, <3>1 DEF CPUInv, Fases
    <3> QED BY <3>1, <3>2 DEF Soltado
  <2> QED BY <2>1, <2>2
<1> QED BY <1>7, <1>8 DEF Tiene

LEMMA TurnosBastan == TypeInv /\ TurnosInv => TurnoUnico /\ EjecutaEnExec
<1> SUFFICES ASSUME TypeInv, TurnosInv PROVE TurnoUnico /\ EjecutaEnExec
  OBVIOUS
<1>1. ASSUME NEW p \in Procesos, NEW t \in Turnos(p), NEW u \in Turnos(p) PROVE t = u
  <2>1. PICK c \in CPUs : Turno(c, t, p)
    BY TurnosPorCPU
  <2>2. PICK d \in CPUs : Turno(d, u, p)
    BY TurnosPorCPU
  <2>3. Tiene(c, "asignado", p) /\ Tiene(d, "asignado", p)
    BY <2>1, <2>2, UnTurnoPorCPU
  <2>4. c = d
    BY <2>3 DEF TurnosInv, UnDuenio
  <2> QED BY <2>1, <2>2, <2>4, UnTurnoPorCPU
<1>2. ASSUME NEW p \in Procesos, NEW t \in Turnos(p) PROVE p \in exec /\ asignado[t[1]] = p
  <2>1. PICK c \in CPUs : t[1] = c /\ Turno(c, t, p)
    BY TurnosPorCPU
  <2>2. Tiene(c, "asignado", p) /\ ~EnDespacho(c) /\ asignado[c] = p
    BY <2>1, UnTurnoPorCPU
  <2>3. ~Encolando(c, "asignado", p)
    BY <2>2 DEF Encolando, EnDespacho
  <2>4. p \in exec
    <3> HIDE DEF Tiene, Encolando
    <3> QED BY <2>2, <2>3 DEF TurnosInv, UnDuenio
  <2> QED BY <2>1, <2>2, <2>4
<1> QED BY <1>1, <1>2 DEF TurnoUnico, EjecutaEnExec

\* Whatever timers, interrupts and disconnections are around, no process is ever run by two
\* CPUs or sent to one twice.
THEOREM NingunoCorreDosVeces == Spec => []TurnoUnico
<1>1. Init => TypeInv /\ LugaresInv /\ TurnosInv
  BY InitTypeInv, InitLugares, InitTurnos
<1>2. TypeInv /\ LugaresInv /\ TurnosInv /\ [Next]_vars => TypeInv' /\ LugaresInv' /\ TurnosInv'
  BY PasoTypeInv, PasoLugares, PasoTurnos
<1>3. TypeInv /\ TurnosInv => TurnoUnico
  BY TurnosBastan
<1> QED BY <1>1, <1>2, <1>3, PTL DEF Spec

\* While a CPU has a process, the PCB is in EXEC and the CPU's entry names it, although the
\* dispatcher fills the entry, the queue and the socket in three steps and a handler empties
\* them in another order.
THEOREM CorreDesdeExec == Spec => []EjecutaEnExec
<1>1. Init => TypeInv /\ LugaresInv /\ TurnosInv
  BY InitTypeInv, InitLugares, InitTurnos
<1>2. TypeInv /\ LugaresInv /\ TurnosInv /\ [Next]_vars => TypeInv' /\ LugaresInv' /\ TurnosInv'
  BY PasoTypeInv, PasoLugares, PasoTurnos
<1>3. TypeInv /\ TurnosInv => EjecutaEnExec
  BY TurnosBastan
<1> QED BY <1>1, <1>2, <1>3, PTL DEF Spec

-----------------------------------------------------------------------------
(* What sem_hayCPUdisponible counts, and what disconnections cost.         *)

Muertas == {c \in conectadas : ~viva[c]}

\* PerdidosAcotados also counts the CPUs that left and are still in colaCPUs: each may yet
\* leave a post of a free CPU behind, and each such post may cost the PCB popped with it.
CuentaInv ==
  /\ IsFiniteSet(perdidos) /\ IsFiniteSet(conectadas)
  /\ Cardinality(perdidos) + fantasmas + Cardinality(Muertas) <= desconexiones
  /\ FichasDeCPU
  /\ AtencionEncuentra \/ Muertas # {}

Reservada == despacho.fase \in {"elegir", "elegirCPU"}

LEMMA CuentaTipada ==
  ASSUME TypeInv, CuentaInv
  PROVE  /\ Cardinality(perdidos) \in Nat /\ Cardinality(Muertas) \in Nat
         /\ Cardinality(Libres) \in Nat
         /\ IsFiniteSet(Muertas) /\ IsFiniteSet(Libres)
         /\ hayCPU \in Nat /\ fantasmas \in Nat /\ desconexiones \in Nat
<1>1. IsFiniteSet(Muertas) /\ IsFiniteSet(Libres)
  <2>1. Muertas \subseteq conectadas /\ Libres \subseteq conectadas
    BY DEF Muertas, Libres
  <2> QED BY <2>1, FS_Subset DEF CuentaInv
<1> QED BY <1>1, FS_CardinalityType DEF CuentaInv, TypeInv, TypeOK, TipoSems, TipoOtros

LEMMA CuentaQuieta ==
  ASSUME CuentaInv, UNCHANGED <<conectadas, libre, viva, perdidos, fantasmas, desconexiones, hayCPU>>,
         Reservada' <=> Reservada, caida' = "atencion" => caida = "atencion"
  PROVE  CuentaInv'
<1>1. Muertas' = Muertas /\ Libres' = Libres
  BY DEF Muertas, Libres
<1>2. FichasDeCPU'
  BY <1>1 DEF CuentaInv, FichasDeCPU, Reservada
<1> QED BY <1>1, <1>2 DEF CuentaInv, AtencionEncuentra

LEMMA CuentaConectarCPU ==
  ASSUME TypeInv, TurnosInv, CuentaInv, NEW c \in CPUs, ConectarCPU(c)
  PROVE  CuentaInv'
<1>1. /\ atiende[c].fase = "afuera" /\ atiende[c].op = "CONECTAR"
      /\ UNCHANGED <<perdidos, despacho, desconexiones, fantasmas, caida>>
      /\ conectadas' = conectadas \cup {c} /\ hayCPU' = hayCPU + 1
  BY DEF ConectarCPU, colas, otros
<1>2. /\ libre'[c] = TRUE /\ viva'[c] = TRUE
      /\ \A d \in CPUs : d # c => libre'[d] = libre[d] /\ viva'[d] = viva[d]
      /\ conectadas \subseteq CPUs
  BY DEF ConectarCPU, TypeInv, TypeOK, TipoCPUs
<1>3. c \notin conectadas
  BY <1>1 DEF TurnosInv, CPUInv, Conexion
<1>4. Muertas' = Muertas
  BY <1>1, <1>2, <1>3 DEF Muertas
<1>5. Libres' = Libres \cup {c} /\ c \notin Libres
  BY <1>1, <1>2, <1>3 DEF Libres
<1>6. IsFiniteSet(conectadas')
  BY <1>1, FS_AddElement DEF CuentaInv
<1>7. Cardinality(Libres') = Cardinality(Libres) + 1
  BY <1>5, CuentaTipada, FS_AddElement
<1>8. FichasDeCPU'
  BY <1>1, <1>7, CuentaTipada DEF CuentaInv, FichasDeCPU
<1> QED BY <1>1, <1>4, <1>6, <1>8 DEF CuentaInv, AtencionEncuentra

LEMMA CuentaLiberarCPU ==
  ASSUME TypeInv, TurnosInv, CuentaInv, NEW c \in CPUs, LiberarCPU(c)
  PROVE  CuentaInv'
<1>1. /\ atiende[c].fase = "liberar"
      /\ UNCHANGED <<perdidos, despacho, conectadas, viva, desconexiones, fantasmas, caida>>
      /\ hayCPU' = hayCPU + 1
  BY DEF LiberarCPU, colas, otros
<1>2. /\ libre'[c] = TRUE /\ \A d \in CPUs : d # c => libre'[d] = libre[d]
      /\ conectadas \subseteq CPUs
  BY DEF LiberarCPU, TypeInv, TypeOK, TipoCPUs
<1>3. c \in conectadas /\ ~libre[c]
  BY <1>1 DEF TurnosInv, CPUInv, Conexion, UnTurnoEn, Ocupada
<1>4. Muertas' = Muertas
  BY <1>1 DEF Muertas
<1>5. Libres' = Libres \cup {c} /\ c \notin Libres
  BY <1>1, <1>2, <1>3 DEF Libres
<1>6. Cardinality(Libres') = Cardinality(Libres) + 1
  BY <1>5, CuentaTipada, FS_AddElement
<1>7. FichasDeCPU'
  BY <1>1, <1>6, CuentaTipada DEF CuentaInv, FichasDeCPU
<1> QED BY <1>1, <1>4, <1>7 DEF CuentaInv, AtencionEncuentra

\* The only search in EXEC that fails is that of a thread whose CPU left after the
\* dispatcher wrote its entry and before it put the PCB in EXEC.
LEMMA CuentaSacarDeExec ==
  ASSUME TypeInv, TurnosInv, CuentaInv, NEW c \in CPUs, SacarDeExec(c)
  PROVE  CuentaInv'
<1>1. /\ atiende[c].fase = "sacar"
      /\ UNCHANGED <<perdidos, despacho, conectadas, libre, viva, hayCPU, desconexiones, fantasmas>>
  BY DEF SacarDeExec, cpus, sems
<1>2. CASE atiende[c].pid \in exec
  BY <1>1, <1>2, CuentaQuieta DEF SacarDeExec, Reservada
<1>3. ASSUME NEW p, p = atiende[c].pid, p \notin exec PROVE c \in Muertas
  <2>1. CPUInv(c) /\ p \in Procesos
    BY <1>1, <1>3 DEF TurnosInv, TypeInv, EnCurso
  <2>2. atiende[c].op = "DESCONEXION_CPU"
    <3>1. CASE atiende[c].op \in LiberaAntes
      <4>1. Tiene(c, "manejo", p) /\ ~Encolando(c, "manejo", p)
        BY <1>1, <1>3, <3>1 DEF Tiene, Encolando
      <4> HIDE DEF Tiene, Encolando
      <4> QED BY <1>3, <2>1, <4>1 DEF TurnosInv, UnDuenio
    <3>2. CASE atiende[c].op \notin LiberaAntes \cup {"DESCONEXION_CPU"}
      <4>1. Ocupada(c) /\ ~Soltado(c)
        BY <1>1, <3>2 DEF Ocupada, Soltado
      <4>2. asignado[c] = p /\ ~EnDespacho(c)
        BY <1>3, <2>1, <4>1 DEF CPUInv, UnTurnoEn
      <4>3. Tiene(c, "asignado", p) /\ ~Encolando(c, "asignado", p)
        BY <4>1, <4>2 DEF Tiene, Encolando, EnDespacho
      <4> HIDE DEF Tiene, Encolando
      <4> QED BY <1>3, <2>1, <4>3 DEF TurnosInv, UnDuenio
    <3> QED BY <3>1, <3>2
  <2>3. ~viva[c] /\ c \in conectadas
    BY <1>1, <2>1, <2>2 DEF CPUInv, Fases, Conexion
  <2> QED BY <2>3 DEF Muertas
<1>4. CASE atiende[c].pid \notin exec
  <2>1. Muertas' = Muertas /\ Libres' = Libres /\ Muertas # {}
    BY <1>1, <1>3, <1>4 DEF Muertas, Libres
  <2>2. FichasDeCPU'
    BY <1>1, <2>1 DEF CuentaInv, FichasDeCPU
  <2> QED BY <1>1, <2>1, <2>2 DEF CuentaInv
<1> QED BY <1>2, <1>4

LEMMA CuentaQuitarCPU ==
  ASSUME TypeInv, TurnosInv, CuentaInv, caida = "no", NEW c \in CPUs, QuitarCPU(c)
  PROVE  CuentaInv'
<1>1. /\ atiende[c].fase = "quitar" /\ conectadas' = conectadas \ {c}
      /\ UNCHANGED <<perdidos, despacho, libre, viva, hayCPU, desconexiones, caida>>
      /\ fantasmas' = IF libre[c] THEN fantasmas + 1 ELSE fantasmas
  BY DEF QuitarCPU, colas, sems
<1>2. c \in conectadas /\ ~viva[c]
  BY <1>1 DEF TurnosInv, CPUInv, Conexion, Fases
<1>3. Muertas' = Muertas \ {c} /\ c \in Muertas
  BY <1>1, <1>2 DEF Muertas
<1>4. Cardinality(Muertas') = Cardinality(Muertas) - 1
  BY <1>3, CuentaTipada, FS_RemoveElement
<1>5. IsFiniteSet(conectadas')
  BY <1>1, <1>2, FS_RemoveElement DEF CuentaInv
<1>6. FichasDeCPU'
  <2>1. CASE libre[c]
    <3>1. Libres' = Libres \ {c} /\ c \in Libres
      BY <1>1, <1>2, <2>1 DEF Libres
    <3>2. Cardinality(Libres') = Cardinality(Libres) - 1
      BY <3>1, CuentaTipada, FS_RemoveElement
    <3> QED BY <1>1, <2>1, <3>2, CuentaTipada DEF CuentaInv, FichasDeCPU
  <2>2. CASE ~libre[c]
    <3>1. Libres' = Libres
      BY <1>1, <2>2 DEF Libres
    <3> QED BY <1>1, <2>2, <3>1 DEF CuentaInv, FichasDeCPU
  <2> QED BY <2>1, <2>2
<1>7. Cardinality(perdidos') + fantasmas' + Cardinality(Muertas') <= desconexiones'
  BY <1>1, <1>4, CuentaTipada DEF CuentaInv
<1> QED BY <1>1, <1>5, <1>6, <1>7 DEF CuentaInv, AtencionEncuentra

LEMMA CuentaCaerCPU ==
  ASSUME TypeInv, TurnosInv, CuentaInv, caida = "no", NEW c \in CPUs, CaerCPU(c)
  PROVE  CuentaInv'
<1>1. /\ viva[c] /\ desconexiones' = desconexiones + 1
      /\ UNCHANGED <<perdidos, despacho, libre, conectadas, hayCPU, fantasmas, caida>>
  BY DEF CaerCPU, colas, sems, hilos
<1>2. viva'[c] = FALSE /\ \A d \in CPUs : d # c => viva'[d] = viva[d]
  BY DEF CaerCPU, TypeInv, TypeOK, TipoCPUs
<1>3. c \in conectadas /\ conectadas \subseteq CPUs
  BY <1>1 DEF TurnosInv, CPUInv, Conexion, TypeInv, TypeOK, TipoCPUs
<1>4. Muertas' = Muertas \cup {c} /\ c \notin Muertas
  BY <1>1, <1>2, <1>3 DEF Muertas
<1>5. Cardinality(Muertas') = Cardinality(Muertas) + 1
  BY <1>4, CuentaTipada, FS_AddElement
<1>6. Libres' = Libres
  BY <1>1 DEF Libres
<1>7. FichasDeCPU'
  BY <1>1, <1>6 DEF CuentaInv, FichasDeCPU
<1>8. Cardinality(perdidos') + fantasmas' + Cardinality(Muertas') <= desconexiones'
  BY <1>1, <1>5, CuentaTipada DEF CuentaInv
<1> QED BY <1>1, <1>7, <1>8 DEF CuentaInv, AtencionEncuentra

LEMMA CuentaTomarFichas ==
  ASSUME TypeInv, CuentaInv, TomarFichas
  PROVE  CuentaInv'
<1>1. /\ despacho.fase = "esperar" /\ hayCPU > 0 /\ hayCPU' = hayCPU - 1
      /\ UNCHANGED <<perdidos, conectadas, libre, viva, desconexiones, fantasmas, caida>>
      /\ despacho'.fase = "elegir"
  BY DEF TomarFichas, colas, cpus, otros, TypeInv, TypeOK, TipoHilos, Despachos
<1>2. Muertas' = Muertas /\ Libres' = Libres
  BY <1>1 DEF Muertas, Libres
<1>3. FichasDeCPU'
  BY <1>1, <1>2, CuentaTipada DEF CuentaInv, FichasDeCPU
<1> QED BY <1>1, <1>2, <1>3 DEF CuentaInv, AtencionEncuentra

\* With no free CPU, the token the dispatcher holds is one that a CPU left behind.
LEMMA CuentaElegirCPU ==
  ASSUME TypeInv, CuentaInv, ElegirCPU
  PROVE  CuentaInv'
<1>1. /\ despacho.fase = "elegirCPU" /\ despacho \in Despachos
      /\ UNCHANGED <<conectadas, viva, hayCPU, desconexiones, caida>>
  BY DEF ElegirCPU, sems, TypeInv, TypeOK, TipoHilos
<1>2. Muertas' = Muertas
  BY <1>1 DEF Muertas
<1>3. CASE Libres = {}
  <2>1. /\ perdidos' = perdidos \cup ({despacho.pcb} \ {Ninguno})
        /\ fantasmas' = IF fantasmas > 0 THEN fantasmas - 1 ELSE 0
        /\ despacho'.fase = "esperar" /\ UNCHANGED libre
    BY <1>3 DEF ElegirCPU, DespachoOcioso
  <2>2. Libres' = Libres /\ Cardinality(Libres) = 0
    BY <1>1, <1>3, <2>1, FS_EmptySet DEF Libres
  <2>3. hayCPU + 1 = fantasmas
    BY <1>1, <2>2, CuentaTipada DEF CuentaInv, FichasDeCPU
  <2>4. FichasDeCPU'
    BY <1>1, <2>1, <2>2, <2>3, CuentaTipada DEF FichasDeCPU
  <2>5. /\ IsFiniteSet(perdidos') /\ Cardinality(perdidos') \in Nat
        /\ Cardinality(perdidos') <= Cardinality(perdidos) + 1
    <3>1. CASE despacho.pcb \in perdidos \cup {Ninguno}
      <4>1. perdidos' = perdidos
        BY <2>1, <3>1
      <4> QED BY <4>1, CuentaTipada DEF CuentaInv
    <3>2. CASE despacho.pcb \notin perdidos \cup {Ninguno}
      <4>1. perdidos' = perdidos \cup {despacho.pcb} /\ despacho.pcb \notin perdidos
        BY <2>1, <3>2
      <4>2. /\ IsFiniteSet(perdidos')
            /\ Cardinality(perdidos') = Cardinality(perdidos) + 1
        BY <4>1, FS_AddElement DEF CuentaInv
      <4> QED BY <4>2, CuentaTipada
    <3> QED BY <3>1, <3>2
  <2>6. Cardinality(perdidos') + fantasmas' + Cardinality(Muertas') <= desconexiones'
    BY <1>1, <1>2, <2>1, <2>3, <2>5, CuentaTipada DEF CuentaInv
  <2> QED BY <1>1, <1>2, <2>4, <2>5, <2>6 DEF CuentaInv, AtencionEncuentra
<1>4. ASSUME NEW c \in Libres, libre' = [libre EXCEPT ![c] = FALSE],
             despacho' = IF despacho.pcb = Ninguno THEN DespachoOcioso
                         ELSE [despacho EXCEPT !.fase = "asignar", !.cpu = c],
             UNCHANGED <<perdidos, fantasmas>>
      PROVE  CuentaInv'
  <2>1. /\ c \in CPUs /\ libre'[c] = FALSE
        /\ \A d \in CPUs : d # c => libre'[d] = libre[d]
        /\ conectadas \subseteq CPUs
    BY <1>4 DEF Libres, TypeInv, TypeOK, TipoCPUs
  <2>2. despacho'.fase \in {"esperar", "asignar"}
    BY <1>1, <1>4 DEF DespachoOcioso, Despachos
  <2>3. Libres' = Libres \ {c} /\ c \in Libres
    BY <1>1, <1>4, <2>1 DEF Libres
  <2>4. Cardinality(Libres') = Cardinality(Libres) - 1
    BY <2>3, CuentaTipada, FS_RemoveElement
  <2>5. FichasDeCPU'
    BY <1>1, <1>4, <2>2, <2>4, CuentaTipada DEF CuentaInv, FichasDeCPU
  <2> QED BY <1>1, <1>2, <1>4, <2>5 DEF CuentaInv, AtencionEncuentra
<1> QED BY <1>3, <1>4 DEF ElegirCPU

LEMMA CuentaDespachar ==
  ASSUME TypeInv, CuentaInv, caida = "no", Despachar
  PROVE  CuentaInv'
<1>1. despacho \in Despachos
  BY DEF TypeInv, TypeOK, TipoHilos
<1>2. CASE ElegirProceso
  <2>1. \/ despacho' = [despacho EXCEPT !.nivel = despacho.nivel + 1]
        \/ despacho' = [despacho EXCEPT !.fase = "elegirCPU"]
        \/ \E p : despacho' = [despacho EXCEPT !.fase = "elegirCPU", !.pcb = p]
    BY <1>2 DEF ElegirProceso
  <2>2. Reservada' /\ Reservada
    BY <1>1, <1>2, <2>1 DEF ElegirProceso, Reservada, Despachos
  <2> QED BY <1>2, <2>2, CuentaQuieta DEF ElegirProceso, cpus, sems, otros
<1>3. CASE AsignarCPU
  BY <1>1, <1>3, CuentaQuieta DEF AsignarCPU, colas, sems, Despachos, Reservada
<1>4. CASE EncolarExec
  BY <1>1, <1>4, CuentaQuieta DEF EncolarExec, cpus, sems, otros, Despachos, Reservada
<1>5. CASE EnviarProceso
  BY <1>1, <1>5, CuentaQuieta DEF EnviarProceso, EnviarACPU, colas, sems, Despachos, Reservada
<1>6. CASE Temporizar
  <2>1. despacho.fase = "temporizar" /\ caida' # "atencion"
    BY <1>6 DEF Temporizar
  <2> QED BY <1>6, <2>1, CuentaQuieta DEF Temporizar, colas, cpus, sems, DespachoOcioso, Reservada
<1> QED BY <1>2, <1>3, <1>4, <1>5, <1>6, CuentaTomarFichas, CuentaElegirCPU DEF Despachar, TomarFichas

LEMMA InitCuenta == Init => CuentaInv
<1> SUFFICES ASSUME Init PROVE CuentaInv
  OBVIOUS
<1>1. /\ perdidos = {} /\ conectadas = {} /\ fantasmas = 0 /\ desconexiones = 0 /\ hayCPU = 0
      /\ despacho.fase = "esperar" /\ caida = "no"
  BY DEF Init, DespachoOcioso
<1>2. Muertas = {} /\ Libres = {}
  BY <1>1 DEF Muertas, Libres
<1>3. IsFiniteSet({}) /\ Cardinality({}) = 0
  BY FS_EmptySet
<1> QED BY <1>1, <1>2, <1>3 DEF CuentaInv, FichasDeCPU, AtencionEncuentra

LEMMA PasoCuenta == TypeInv /\ TurnosInv /\ CuentaInv /\ [Next]_vars => CuentaInv'
<1> SUFFICES ASSUME TypeInv, TurnosInv, CuentaInv, [Next]_vars PROVE CuentaInv'
  OBVIOUS
<1>1. ASSUME caida = "no", Trasladar PROVE CuentaInv'
  BY <1>1, CuentaQuieta DEF Trasladar, CrearProceso, SacarDeNew, SacarDeBlock, EncolarTraslado,
     cpus, hilos, sems, otros, Reservada
<1>2. ASSUME caida = "no", Monitorear PROVE CuentaInv'
  <2>1. CASE UbicarVictima \/ NotificarPrioridad \/ EsperarDesalojo
    <3>1. caida' # "atencion"
      BY <1>2, <2>1 DEF UbicarVictima, NotificarPrioridad, EsperarDesalojo, EnviarACPU
    <3> QED BY <2>1, <3>1, CuentaQuieta DEF UbicarVictima, NotificarPrioridad, EsperarDesalojo,
               MonitorSolo, colas, cpus, sems, Reservada
  <2>2. CASE EsperarReadyPrioridad \/ MirarCPUs \/ ElegirVictima \/ BuscarMasPrioritario
             \/ ComprobarEnExec
    BY <2>2, CuentaQuieta DEF EsperarReadyPrioridad, MirarCPUs, ElegirVictima,
       BuscarMasPrioritario, ComprobarEnExec, MonitorSolo, colas, cpus, sems, otros, Reservada
  <2> QED BY <1>2, <2>1, <2>2 DEF Monitorear
<1>3. ASSUME caida = "no", NEW c \in CPUs, Atender(c) PROVE CuentaInv'
  <2>1. CASE RecibirDeCPU(c) \/ DetectarDesconexion(c) \/ EncolarDesalojado(c)
    BY <2>1, CuentaQuieta DEF RecibirDeCPU, DetectarDesconexion, EncolarDesalojado, colas, cpus,
       sems, otros, Reservada
  <2>2. CASE Bloquear(c) \/ Terminar(c)
    BY <2>2, CuentaQuieta DEF Bloquear, Terminar, colas, cpus, sems, otros, Reservada
  <2>3. CASE Responder(c)
    BY <1>3, <2>3, CuentaQuieta DEF Responder, EnviarACPU, colas, sems, Reservada
  <2> QED BY <1>3, <2>1, <2>2, <2>3, CuentaLiberarCPU, CuentaSacarDeExec, CuentaQuitarCPU DEF Atender
<1>4. ASSUME caida = "no", NEW c \in CPUs, EjecutarCPU(c) PROVE CuentaInv'
  <2>1. CASE RecibirProceso(c) \/ AtenderInterrupcion(c) \/ \E op \in Syscalls : PedirSyscall(c, op)
    BY <2>1, CuentaQuieta DEF RecibirProceso, AtenderInterrupcion, PedirSyscall, colas, hilos,
       sems, otros, Reservada
  <2> QED BY <1>4, <2>1, CuentaConectarCPU, CuentaCaerCPU DEF EjecutarCPU
<1>5. ASSUME caida = "no", NEW c \in CPUs, Reloj(c) PROVE CuentaInv'
  <2>1. CASE NotificarQuantum(c)
    BY <1>5, <2>1, CuentaQuieta DEF NotificarQuantum, EnviarACPU, colas, hilos, sems, Reservada
  <2>2. CASE ArrancarTemporizador(c) \/ \E p \in Procesos : VencerQuantum(c, p)
    BY <2>2, CuentaQuieta DEF ArrancarTemporizador, VencerQuantum, colas, cpus, hilos, sems,
       otros, Reservada
  <2> QED BY <1>5, <2>1, <2>2 DEF Reloj
<1>6. CASE UNCHANGED vars
  BY <1>6, CuentaQuieta DEF vars, colas, cpus, hilos, sems, otros, Reservada
<1> QED BY <1>1, <1>2, <1>3, <1>4, <1>5, <1>6, CuentaDespachar DEF Next

LEMMA CuentaSiempre == Spec => [](TypeInv /\ CuentaInv)
<1>1. Init => TypeInv /\ LugaresInv /\ TurnosInv /\ CuentaInv
  BY InitTypeInv, InitLugares, InitTurnos, InitCuenta
<1>2. TypeInv /\ LugaresInv /\ TurnosInv /\ CuentaInv /\ [Next]_vars
        => TypeInv' /\ LugaresInv' /\ TurnosInv' /\ CuentaInv'
  BY PasoTypeInv, PasoLugares, PasoTurnos, PasoCuenta
<1> QED BY <1>1, <1>2, PTL DEF Spec

\* sem_hayCPUdisponible always counts the free CPUs of colaCPUs, but for the token the
\* dispatcher took and the posts of CPUs that left while they were free.
THEOREM FichasDeCPUExactas == Spec => []FichasDeCPU
<1>1. CuentaInv => FichasDeCPU
  BY DEF CuentaInv
<1> QED BY <1>1, CuentaSiempre, PTL

\* However many PCBs pass through the dispatcher, it drops at most one for each CPU that
\* disconnected.
THEOREM PerdidosAcotadosSiempre == Spec => []PerdidosAcotados
<1>1. TypeInv /\ CuentaInv => PerdidosAcotados
  <2> SUFFICES ASSUME TypeInv, CuentaInv PROVE PerdidosAcotados
    OBVIOUS
  <2> QED BY CuentaTipada DEF CuentaInv, PerdidosAcotados
<1> QED BY <1>1, CuentaSiempre, PTL

\* A handler's search in EXEC fails only for a CPU that has disconnected: as long as none
\* has, every handler finds the PCB its packet names, also where it freed the CPU first.
THEOREM AtencionSiempreEncuentra == Spec => [](desconexiones = 0 => AtencionEncuentra)
<1>1. TypeInv /\ CuentaInv => (desconexiones = 0 => AtencionEncuentra)
  <2> SUFFICES ASSUME TypeInv, CuentaInv, desconexiones = 0 PROVE Muertas = {}
    BY DEF CuentaInv
  <2>1. Cardinality(Muertas) = 0 /\ IsFiniteSet(Muertas)
    BY CuentaTipada DEF CuentaInv
  <2> QED BY <2>1, FS_EmptySet
<1> QED BY <1>1, CuentaSiempre, PTL
=============================================================================
