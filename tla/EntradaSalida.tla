--------------------------- MODULE EntradaSalida ----------------------------
(***************************************************************************)
(* SLEEP, STDIN and STDOUT: the queue of requests of each type of device,  *)
(* the thread that serves it (atencionIOsleep, ...stdIN, ...stdOUT:        *)
(* servicio), the thread that listens to the device (atender_io: oyente)   *)
(* and the device.  A step is one critical section, one semaphore          *)
(* operation (with the send that follows it) or one send.  STDIN writes    *)
(* what it reads, and STDOUT reads what it writes, through kernel_memory.  *)
(***************************************************************************)
EXTENDS Bloqueos

CONSTANTS
  Tipos,            (* the types of device in use                            *)
  MaxCaidas,        (* bound: devices that disconnect                        *)
  MaxConexiones     (* bound: devices of each type that connect              *)

ASSUME EntradaSalidaAssumption ==
  /\ Tipos \subseteq {"SLEEP", "STDIN", "STDOUT"}
  /\ MaxCaidas \in Nat /\ MaxConexiones \in Nat

VARIABLES
  pedidos,       (* interfaces[t].solicitudes: the pid, and whether leido is there *)
  ocupada, atiendeA,        (* interfaces[t].ocupada and .pidAsignado        *)
  conectada, viva,          (* socket_interfaz # -1; the device runs         *)
  aIO, deIO,     (* its socket, both ways                                    *)
  servicio, oyente,         (* threads: program counter and pid              *)
  hayIO, hayPedido,         (* sem_hayIO[t], sem_haySolicitudIO[t]           *)
  leidoDeIO, leidoDeKM, escritoEnKM,   (* the semaphores STDIN and STDOUT wait on *)
  aKM,           (* the requests kernel_memory has not answered              *)
  conexiones, caidas,       (* so far                                        *)
  muerto         (* "no", or why kernel_scheduler ended                      *)

interfaz == <<pedidos, ocupada, atiendeA, conectada>>
equipo   == <<viva, aIO, deIO, conexiones, caidas>>
fichas   == <<hayIO, hayPedido>>
esperasKM == <<leidoDeIO, leidoDeKM, escritoEnKM, aKM>>
io == <<interfaz, equipo, servicio, oyente, fichas, esperasKM, muerto>>

Ocioso(f) == [fase |-> f, pid |-> Ninguno]
Pedido    == [pid : Procesos, leido : BOOLEAN]
Servicios == [fase : {"esperar", "revisar", "esperarKM", "enviar", "esperarIO",
                      "esperarEscritura", "buscar", "aReady"}, pid : Pid]
Oyentes   == [fase : {"sinDispositivo", "recibir", "buscar", "aReady", "liberar", "finalizar"},
              pid : Pid]
Muertes   == {"no", "envio", "sin PCB", "sin pedido"}

TipoInterfaz ==
  /\ pedidos \in [Tipos -> Seq(Pedido)]
  /\ ocupada \in [Tipos -> BOOLEAN] /\ atiendeA \in [Tipos -> Pid]
  /\ conectada \in [Tipos -> BOOLEAN]
TipoEquipo ==
  /\ viva \in [Tipos -> BOOLEAN]
  /\ aIO \in [Tipos -> Seq(Procesos)] /\ deIO \in [Tipos -> Seq(Procesos)]
  /\ conexiones \in [Tipos -> Nat] /\ caidas \in Nat
TipoFichas == hayIO \in [Tipos -> Nat] /\ hayPedido \in [Tipos -> Nat]
TipoEsperas ==
  /\ leidoDeIO \in Nat /\ leidoDeKM \in Nat /\ escritoEnKM \in Nat
  /\ aKM \subseteq ({"LECTURA", "ESCRITURA"} \X Procesos)
TipoIO ==
  /\ TipoInterfaz /\ TipoEquipo /\ TipoFichas /\ TipoEsperas
  /\ servicio \in [Tipos -> Servicios] /\ oyente \in [Tipos -> Oyentes] /\ muerto \in Muertes

InitIO ==
  /\ pedidos = [t \in Tipos |-> <<>>]
  /\ ocupada = [t \in Tipos |-> FALSE] /\ atiendeA = [t \in Tipos |-> Ninguno]
  /\ conectada = [t \in Tipos |-> FALSE] /\ viva = [t \in Tipos |-> FALSE]
  /\ aIO = [t \in Tipos |-> <<>>] /\ deIO = [t \in Tipos |-> <<>>]
  /\ servicio = [t \in Tipos |-> Ocioso("esperar")]
  /\ oyente = [t \in Tipos |-> Ocioso("sinDispositivo")]
  /\ hayIO = [t \in Tipos |-> 0] /\ hayPedido = [t \in Tipos |-> 0]
  /\ leidoDeIO = 0 /\ leidoDeKM = 0 /\ escritoEnKM = 0 /\ aKM = {}
  /\ conexiones = [t \in Tipos |-> 0] /\ caidas = 0 /\ muerto = "no"

Sirve(t, f) == servicio[t].fase = f
ServicioA(t, f) == servicio' = [servicio EXCEPT ![t].fase = f]
OyenteA(t, f) == oyente' = [oyente EXCEPT ![t].fase = f]

-----------------------------------------------------------------------------
(* manejar_sleep, manejar_stdin, manejar_stdout, after liberarCPU          *)

PedirIO(p, t) == Pedir(p, "bloquear", t) /\ UNCHANGED io

BloquearPorIO(p) ==
  /\ hilo[p].objeto \in Tipos
  /\ \/ SacarDeExec(p)
     \/ EncolarEnBlock(p, [hilo[p] EXCEPT !.fase = "encolarPedido"])
  /\ UNCHANGED io

\* Mutant: sem_post before queue_push.
AvisarAntes(p) ==
  /\ EnFase(p, "encolarPedido")
  /\ hayPedido' = [hayPedido EXCEPT ![hilo[p].objeto] = @ + 1]
  /\ hilo' = A(p, "avisar")
  /\ UNCHANGED <<lugar, llamadas, interfaz, equipo, servicio, oyente, hayIO, esperasKM, muerto>>

EncolarPedido(p) ==
  /\ EnFase(p, "encolarPedido")
  /\ pedidos' = [pedidos EXCEPT ![hilo[p].objeto] = Append(@, [pid |-> p, leido |-> FALSE])]
  /\ hilo' = A(p, "avisar")
  /\ UNCHANGED <<lugar, llamadas, ocupada, atiendeA, conectada, equipo, servicio, oyente,
                 fichas, esperasKM, muerto>>

AvisarPedido(p) ==
  /\ EnFase(p, "avisar")
  /\ hayPedido' = [hayPedido EXCEPT ![hilo[p].objeto] = @ + 1]
  /\ hilo' = Responder(p)
  /\ UNCHANGED <<lugar, llamadas, interfaz, equipo, servicio, oyente, hayIO, esperasKM, muerto>>

-----------------------------------------------------------------------------
(* The thread that serves a type                                           *)

\* Mutant: no wait on sem_haySolicitudIO.
TomarUnaFicha(t) ==
  /\ Sirve(t, "esperar") /\ hayIO[t] > 0
  /\ hayIO' = [hayIO EXCEPT ![t] = @ - 1] /\ hayPedido' = [hayPedido EXCEPT ![t] = @ - 1]
  /\ ServicioA(t, "revisar")
  /\ UNCHANGED <<proceso, interfaz, equipo, oyente, esperasKM, muerto>>

TomarFichasIO(t) ==
  /\ Sirve(t, "esperar") /\ hayIO[t] > 0 /\ hayPedido[t] > 0
  /\ hayIO' = [hayIO EXCEPT ![t] = @ - 1] /\ hayPedido' = [hayPedido EXCEPT ![t] = @ - 1]
  /\ ServicioA(t, "revisar")
  /\ UNCHANGED <<proceso, interfaz, equipo, oyente, esperasKM, muerto>>

\* revisarProcesosBloqueadosParaTipoIO: the request stays at the head of the queue.  If
\* the device is busy, or nothing waits, both tokens are spent for nothing.  hacerSTDOUT
\* then asks kernel_memory for the bytes.
Revisar(t) ==
  LET p == Head(pedidos[t]).pid IN
  /\ Sirve(t, "revisar")
  /\ \/ /\ pedidos[t] # <<>> /\ ~ocupada[t]
        /\ ocupada' = [ocupada EXCEPT ![t] = TRUE] /\ atiendeA' = [atiendeA EXCEPT ![t] = p]
        /\ servicio' = [servicio EXCEPT ![t] =
             [fase |-> IF t = "STDOUT" THEN "esperarKM" ELSE "enviar", pid |-> p]]
        /\ aKM' = IF t = "STDOUT" THEN aKM \cup {<<"LECTURA", p>>} ELSE aKM
     \/ /\ pedidos[t] = <<>> \/ ocupada[t]
        /\ servicio' = [servicio EXCEPT ![t] = Ocioso("esperar")]
        /\ UNCHANGED <<ocupada, atiendeA, aKM>>
  /\ UNCHANGED <<proceso, pedidos, conectada, equipo, oyente, fichas, leidoDeIO, leidoDeKM,
                 escritoEnKM, muerto>>

\* kernel_memory answers, and atender_kernel_memory stores the bytes if the request is
\* still at the head, and posts.
ResponderKM ==
  \E op \in {"LECTURA", "ESCRITURA"}, p \in Procesos :
    /\ <<op, p>> \in aKM
    /\ aKM' = aKM \ {<<op, p>>}
    /\ \/ /\ op = "LECTURA"
          /\ pedidos' = IF pedidos["STDOUT"] # <<>> /\ Head(pedidos["STDOUT"]).pid = p
                          THEN [pedidos EXCEPT !["STDOUT"][1].leido = TRUE] ELSE pedidos
          /\ leidoDeKM' = leidoDeKM + 1
          /\ UNCHANGED escritoEnKM
       \/ /\ op = "ESCRITURA"
          /\ escritoEnKM' = escritoEnKM + 1
          /\ UNCHANGED <<pedidos, leidoDeKM>>
    /\ UNCHANGED <<proceso, ocupada, atiendeA, conectada, equipo, servicio, oyente, fichas,
                   leidoDeIO, muerto>>

\* Mutant: no wait on sem_recibiLecuraDeKM.
SeguirSinEsperar(t) ==
  /\ Sirve(t, "esperarKM")
  /\ ServicioA(t, "enviar")
  /\ UNCHANGED <<proceso, interfaz, equipo, oyente, fichas, esperasKM, muerto>>

EsperarKM(t) ==
  /\ Sirve(t, "esperarKM") /\ leidoDeKM > 0
  /\ leidoDeKM' = leidoDeKM - 1
  /\ ServicioA(t, "enviar")
  /\ UNCHANGED <<proceso, interfaz, equipo, oyente, fichas, leidoDeIO, escritoEnKM, aKM, muerto>>

\* enviarAIO to interfaces[t].socket_interfaz.  A send to a device that is gone is lost,
\* or ends the program with SIGPIPE while the socket is still registered.
EnviarAIO(t) ==
  /\ Sirve(t, "enviar")
  /\ IF t = "STDIN" THEN ServicioA(t, "esperarIO")
     ELSE servicio' = [servicio EXCEPT ![t] = Ocioso("esperar")]
  /\ \/ viva[t] /\ aIO' = [aIO EXCEPT ![t] = Append(@, servicio[t].pid)] /\ UNCHANGED muerto
     \/ ~viva[t] /\ muerto' \in {"no"} \cup (IF conectada[t] THEN {"envio"} ELSE {})
        /\ UNCHANGED aIO
  /\ UNCHANGED <<proceso, interfaz, viva, deIO, conexiones, caidas, oyente, fichas, esperasKM>>

\* hacerSTDIN hands kernel_memory what was typed.
EsperarIO(t) ==
  /\ Sirve(t, "esperarIO") /\ leidoDeIO > 0
  /\ leidoDeIO' = leidoDeIO - 1 /\ aKM' = aKM \cup {<<"ESCRITURA", servicio[t].pid>>}
  /\ ServicioA(t, "esperarEscritura")
  /\ UNCHANGED <<proceso, interfaz, equipo, oyente, fichas, leidoDeKM, escritoEnKM, muerto>>

\* Mutant: the request stays in the queue.
CopiarPrimero(t) ==
  /\ Sirve(t, "esperarEscritura") /\ escritoEnKM > 0
  /\ escritoEnKM' = escritoEnKM - 1
  /\ ServicioA(t, "buscar")
  /\ UNCHANGED <<proceso, interfaz, equipo, oyente, fichas, leidoDeIO, leidoDeKM, aKM, muerto>>

\* hacerSTDIN once kernel_memory wrote: retirarSolicitud.
RetirarSTDIN(t) ==
  /\ Sirve(t, "esperarEscritura") /\ escritoEnKM > 0
  /\ escritoEnKM' = escritoEnKM - 1
  /\ pedidos' = [pedidos EXCEPT ![t] = Tail(@)]
  /\ ServicioA(t, "buscar")
  /\ UNCHANGED <<proceso, ocupada, atiendeA, conectada, equipo, oyente, fichas, leidoDeIO,
                 leidoDeKM, aKM, muerto>>

DespertarTrasSTDIN(t) ==
  LET p == servicio[t].pid IN
  /\ \/ Sirve(t, "buscar") /\ SacarDeBlock(p) /\ ServicioA(t, "aReady")
     \/ /\ \/ Sirve(t, "buscar") /\ lugar[p] # "BLOCK" /\ UNCHANGED lugar
           \/ Sirve(t, "aReady") /\ EncolarEnReady(p)
        /\ servicio' = [servicio EXCEPT ![t] = Ocioso("esperar")]
  /\ UNCHANGED <<hilo, llamadas, interfaz, equipo, oyente, fichas, esperasKM, muerto>>

-----------------------------------------------------------------------------
(* atender_io                                                              *)

\* IO_HANDSHAKE: only while no device of the type is registered (and, in this model,
\* once the thread of the one before has ended).  A token of hayIO stays from before.
ConectarIO(t) ==
  /\ oyente[t].fase = "sinDispositivo" /\ ~conectada[t] /\ conexiones[t] < MaxConexiones
  /\ conexiones' = [conexiones EXCEPT ![t] = @ + 1]
  /\ conectada' = [conectada EXCEPT ![t] = TRUE] /\ viva' = [viva EXCEPT ![t] = TRUE]
  /\ ocupada' = [ocupada EXCEPT ![t] = FALSE]
  /\ hayIO' = [hayIO EXCEPT ![t] = @ + 1]
  /\ OyenteA(t, "recibir")
  /\ UNCHANGED <<proceso, pedidos, atiendeA, aIO, deIO, caidas, servicio, hayPedido, esperasKM,
                 muerto>>

\* The device does what it was asked and says IO_OK.
OperarIO(t) ==
  /\ viva[t] /\ aIO[t] # <<>>
  /\ aIO' = [aIO EXCEPT ![t] = Tail(@)]
  /\ deIO' = [deIO EXCEPT ![t] = Append(@, Head(aIO[t]))]
  /\ UNCHANGED <<proceso, interfaz, viva, conexiones, caidas, servicio, oyente, fichas,
                 esperasKM, muerto>>

\* IO_OK of SLEEP and STDOUT: retirarSolicitud pops the head, whoever asked for it.
RecibirFinIO(t) ==
  /\ t # "STDIN" /\ oyente[t].fase = "recibir" /\ deIO[t] # <<>>
  /\ deIO' = [deIO EXCEPT ![t] = Tail(@)]
  /\ pedidos' = [pedidos EXCEPT ![t] = IF @ = <<>> THEN @ ELSE Tail(@)]
  /\ oyente' = [oyente EXCEPT ![t] = [fase |-> "buscar", pid |-> Head(deIO[t])]]
  /\ UNCHANGED <<proceso, ocupada, atiendeA, conectada, viva, aIO, conexiones, caidas, servicio,
                 fichas, esperasKM, muerto>>

\* Mutant: the listener retires the request of STDIN too.
LeerYRetirar(t) ==
  /\ t = "STDIN" /\ oyente[t].fase = "recibir" /\ deIO[t] # <<>> /\ pedidos[t] # <<>>
  /\ deIO' = [deIO EXCEPT ![t] = Tail(@)] /\ pedidos' = [pedidos EXCEPT ![t] = Tail(@)]
  /\ leidoDeIO' = leidoDeIO + 1
  /\ OyenteA(t, "liberar")
  /\ UNCHANGED <<proceso, ocupada, atiendeA, conectada, viva, aIO, conexiones, caidas, servicio,
                 fichas, leidoDeKM, escritoEnKM, aKM, muerto>>

\* IO_OK of STDIN: it dereferences the head of the queue, keeps the bytes if it is his,
\* and posts; the request is retired by the thread that serves STDIN.
RecibirLectura(t) ==
  /\ t = "STDIN" /\ oyente[t].fase = "recibir" /\ deIO[t] # <<>>
  /\ deIO' = [deIO EXCEPT ![t] = Tail(@)]
  /\ \/ /\ pedidos[t] = <<>>
        /\ muerto' = "sin pedido"
        /\ UNCHANGED <<pedidos, leidoDeIO, oyente>>
     \/ /\ pedidos[t] # <<>>
        /\ pedidos' = IF Head(pedidos[t]).pid = Head(deIO[t])
                        THEN [pedidos EXCEPT ![t][1].leido = TRUE] ELSE pedidos
        /\ leidoDeIO' = leidoDeIO + 1
        /\ OyenteA(t, "liberar")
        /\ UNCHANGED muerto
  /\ UNCHANGED <<proceso, ocupada, atiendeA, conectada, viva, aIO, conexiones, caidas, servicio,
                 fichas, leidoDeKM, escritoEnKM, aKM>>

\* A process that is not in BLOCK leaves the handler without liberarIO.
DespertarTrasIO(t) ==
  LET p == oyente[t].pid IN
  /\ \/ oyente[t].fase = "buscar" /\ SacarDeBlock(p) /\ OyenteA(t, "aReady")
     \/ /\ oyente[t].fase = "buscar" /\ lugar[p] # "BLOCK"
        /\ oyente' = [oyente EXCEPT ![t] = Ocioso("recibir")]
        /\ UNCHANGED lugar
     \/ oyente[t].fase = "aReady" /\ EncolarEnReady(p) /\ OyenteA(t, "liberar")
  /\ UNCHANGED <<hilo, llamadas, interfaz, equipo, servicio, fichas, esperasKM, muerto>>

\* Mutant: pidAsignado is not reset.
LiberarSinOlvidar(t) ==
  /\ oyente[t].fase = "liberar"
  /\ ocupada' = [ocupada EXCEPT ![t] = FALSE]
  /\ hayIO' = [hayIO EXCEPT ![t] = @ + 1]
  /\ oyente' = [oyente EXCEPT ![t] = Ocioso("recibir")]
  /\ UNCHANGED <<proceso, pedidos, atiendeA, conectada, equipo, servicio, hayPedido, esperasKM,
                 muerto>>

\* liberarIO
LiberarIO(t) ==
  /\ oyente[t].fase = "liberar"
  /\ ocupada' = [ocupada EXCEPT ![t] = FALSE] /\ atiendeA' = [atiendeA EXCEPT ![t] = Ninguno]
  /\ hayIO' = [hayIO EXCEPT ![t] = @ + 1]
  /\ oyente' = [oyente EXCEPT ![t] = Ocioso("recibir")]
  /\ UNCHANGED <<proceso, pedidos, conectada, equipo, servicio, hayPedido, esperasKM, muerto>>

\* The device goes away: what it had not read is lost, what it sent can still be read.
CaerIO(t) ==
  /\ viva[t] /\ caidas < MaxCaidas
  /\ viva' = [viva EXCEPT ![t] = FALSE] /\ aIO' = [aIO EXCEPT ![t] = <<>>]
  /\ caidas' = caidas + 1
  /\ UNCHANGED <<proceso, interfaz, deIO, conexiones, servicio, oyente, fichas, esperasKM, muerto>>

\* finalizoConexionIO: the request of pidAsignado stays in the queue.
DetectarCaida(t) ==
  /\ oyente[t].fase = "recibir" /\ ~viva[t] /\ deIO[t] = <<>>
  /\ ocupada' = [ocupada EXCEPT ![t] = FALSE] /\ conectada' = [conectada EXCEPT ![t] = FALSE]
  /\ atiendeA' = [atiendeA EXCEPT ![t] = Ninguno]
  /\ oyente' = [oyente EXCEPT ![t] =
       [fase |-> IF atiendeA[t] = Ninguno THEN "sinDispositivo" ELSE "finalizar",
        pid |-> atiendeA[t]]]
  /\ UNCHANGED <<proceso, pedidos, equipo, servicio, fichas, esperasKM, muerto>>

\* finalizarProceso(pid, DESCONEXION_IO) calls exit() if it does not find the PCB.
FinalizarPorIO(t) ==
  LET p == oyente[t].pid IN
  /\ oyente[t].fase = "finalizar"
  /\ oyente' = [oyente EXCEPT ![t] = Ocioso("sinDispositivo")]
  /\ \/ lugar[p] = "BLOCK" /\ lugar' = [lugar EXCEPT ![p] = "EXIT"] /\ UNCHANGED muerto
     \/ lugar[p] # "BLOCK" /\ muerto' = "sin PCB" /\ UNCHANGED lugar
  /\ UNCHANGED <<hilo, llamadas, interfaz, equipo, servicio, fichas, esperasKM>>

PasoIO ==
  \/ \E p \in Procesos :
       \/ \E t \in Tipos : PedirIO(p, t)
       \/ BloquearPorIO(p) \/ EncolarPedido(p) \/ AvisarPedido(p)
  \/ \E t \in Tipos :
       \/ TomarFichasIO(t) \/ Revisar(t) \/ EsperarKM(t) \/ EnviarAIO(t)
       \/ EsperarIO(t) \/ RetirarSTDIN(t) \/ DespertarTrasSTDIN(t)
       \/ ConectarIO(t) \/ OperarIO(t) \/ RecibirFinIO(t) \/ RecibirLectura(t)
       \/ DespertarTrasIO(t) \/ LiberarIO(t) \/ CaerIO(t) \/ DetectarCaida(t) \/ FinalizarPorIO(t)
  \/ ResponderKM
=============================================================================
