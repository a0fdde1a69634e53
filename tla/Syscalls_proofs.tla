-------------------------- MODULE Syscalls_proofs ---------------------------
(***************************************************************************)
(* Proofs about Syscalls, for any processes, mutexes, types of device and  *)
(* numbers of calls, falls and connections.                                *)
(***************************************************************************)
EXTENDS Syscalls, FiniteSetTheorems, WellFoundedInduction, TLAPS

\* What TypeOK needs to be inductive: the thread of a mutex call names a mutex, and a
\* service past its look at the queue names a process.
EnCurso ==
  /\ \A p \in Procesos :
       hilo[p].fase \in {"lock", "unlock", "despertar", "aReady"} => hilo[p].objeto \in Mutexes
  /\ \A t \in Tipos : servicio[t].fase \notin {"esperar", "revisar"} => servicio[t].pid \in Procesos

\* Who is about to post sem_haySolicitudIO, the request a service is at, and the requests
\* the device has been sent and its listener has not retired (that of STDIN retires none).
Avisan(t) == {p \in Procesos : hilo[p].fase = "avisar" /\ hilo[p].objeto = t}
EnServicio(t) ==
  IF servicio[t].fase \in {"revisar", "esperarKM", "enviar", "esperarIO", "esperarEscritura"}
    THEN 1 ELSE 0
EnDispositivo(t) == IF t = "STDIN" THEN 0 ELSE Len(aIO[t]) + Len(deIO[t])

\* Each of them, and each token, has a request of its own in the queue.
FichasInv ==
  \A t \in Tipos :
    hayPedido[t] + Cardinality(Avisan(t)) + EnServicio(t) + EnDispositivo(t) <= Len(pedidos[t])

TypeInv == TypeOK /\ EnCurso /\ FichasInv

Hilos == [fase : Fases, objeto : Mutexes \cup Tipos \cup {Ninguno}, otro : Pid, valor : Nat]

LEMMA TiposDelHilo ==
  TypeOK => /\ hilo \in [Procesos -> Hilos]
            /\ lugar \in [Procesos -> {"READY", "EXEC", "BLOCK", "EXIT", "transito"}]
            /\ llamadas \in [Procesos -> Nat]
  BY DEF TypeOK, TipoProcesos, Hilos

\* A thread that goes on to another phase, or answers its CPU.
LEMMA HiloTipado ==
  ASSUME hilo \in [Procesos -> Hilos], NEW p \in Procesos
  PROVE  /\ \A f \in Fases : A(p, f) \in [Procesos -> Hilos]
         /\ Responder(p) \in [Procesos -> Hilos]
         /\ \A f \in Fases : /\ A(p, f)[p].fase = f /\ A(p, f)[p].objeto = hilo[p].objeto
                             /\ \A q \in Procesos \ {p} : A(p, f)[q] = hilo[q]
         /\ Responder(p)[p] = HiloOcioso
         /\ \A q \in Procesos \ {p} : Responder(p)[q] = hilo[q]
<1>1. HiloOcioso \in Hilos
  BY DEF HiloOcioso, Hilos, Fases, Pid
<1>2. \A f \in Fases : A(p, f) \in [Procesos -> Hilos]
  BY DEF A, Hilos
<1>3. Responder(p) \in [Procesos -> Hilos]
  BY <1>1 DEF Responder
<1>4. \A f \in Fases : /\ A(p, f)[p].fase = f /\ A(p, f)[p].objeto = hilo[p].objeto
                       /\ \A q \in Procesos \ {p} : A(p, f)[q] = hilo[q]
  BY DEF A, Hilos
<1> QED BY <1>2, <1>3, <1>4 DEF Responder

\* A thread that goes on to another phase and keeps a process, or a value.
LEMMA HiloCon ==
  ASSUME hilo \in [Procesos -> Hilos], NEW p \in Procesos, NEW f \in Fases,
         NEW o \in Pid, NEW v \in Nat,
         \/ hilo' = [hilo EXCEPT ![p].fase = f, ![p].otro = o]
         \/ hilo' = [hilo EXCEPT ![p].fase = f, ![p].valor = v]
  PROVE  /\ hilo' \in [Procesos -> Hilos] /\ \A q \in Procesos \ {p} : hilo'[q] = hilo[q]
         /\ hilo'[p].fase = f /\ hilo'[p].objeto = hilo[p].objeto
<1> DEFINE h == hilo[p]
           x == [h EXCEPT !.fase = f, !.otro = o]
           y == [h EXCEPT !.fase = f, !.valor = v]
<1>1. /\ x \in Hilos /\ x.fase = f /\ x.objeto = h.objeto
      /\ y \in Hilos /\ y.fase = f /\ y.objeto = h.objeto
  <2>1. h \in Hilos
    OBVIOUS
  <2> HIDE DEF h
  <2> QED BY <2>1 DEF Hilos
<1>2. hilo' = [hilo EXCEPT ![p] = x] \/ hilo' = [hilo EXCEPT ![p] = y]
  OBVIOUS
<1> HIDE DEF x, y
<1> QED BY <1>1, <1>2

\* One more and one less in a set of mutexes.
LEMMA ConjuntoTipado ==
  ASSUME NEW f \in [Procesos -> SUBSET Mutexes], NEW p, NEW m \in Mutexes
  PROVE  /\ [f EXCEPT ![p] = @ \cup {m}] \in [Procesos -> SUBSET Mutexes]
         /\ [f EXCEPT ![p] = @ \ {m}] \in [Procesos -> SUBSET Mutexes]
<1>1. CASE p \in Procesos
  <2>1. f[p] \cup {m} \in SUBSET Mutexes /\ f[p] \ {m} \in SUBSET Mutexes
    BY <1>1
  <2> QED BY <2>1
<1>2. CASE p \notin Procesos
  <2>1. [f EXCEPT ![p] = @ \cup {m}] = f /\ [f EXCEPT ![p] = @ \ {m}] = f
    BY <1>2
  <2> QED BY <2>1
<1> QED BY <1>1, <1>2

\* The least of some naturals is a natural: of the sets S \cap 0 .. n, which are finite,
\* one has no smaller one, and its n is the least.
LEMMA MinNatural ==
  ASSUME NEW S \in SUBSET Nat, S # {} PROVE Min(S) \in Nat
<1> DEFINE R == StrictSubsetOrdering(Nat)
           T == {S \cap (0 .. n) : n \in S}
<1>1. IsWellFoundedOn(R, FiniteSubsetsOf(Nat))
  BY FS_StrictSubsetOrderingWellFounded
<1>2. T \subseteq FiniteSubsetsOf(Nat) /\ T # {}
  <2>1. ASSUME NEW n \in S PROVE S \cap (0 .. n) \in FiniteSubsetsOf(Nat)
    <3>1. IsFiniteSet(0 .. n) /\ S \cap (0 .. n) \in SUBSET (0 .. n)
      BY FS_Interval
    <3>2. IsFiniteSet(S \cap (0 .. n))
      BY <3>1, FS_Subset
    <3> QED BY <3>2 DEF FiniteSubsetsOf
  <2> QED BY <2>1
<1>3. PICK x \in T : \A y \in T : ~(<<y, x>> \in R)
  <2> HIDE DEF R, T
  <2> QED BY <1>1, <1>2, WFMin
<1>4. PICK n \in S : x = S \cap (0 .. n)
  OBVIOUS
<1>5. ASSUME NEW m \in S, m < n PROVE FALSE
  <2>1. S \cap (0 .. m) \subseteq S \cap (0 .. n) /\ n \notin S \cap (0 .. m)
        /\ n \in S \cap (0 .. n)
    BY <1>5
  <2>2. <<S \cap (0 .. m), x>> \in R
    BY <1>4, <2>1 DEF StrictSubsetOrdering
  <2>3. S \cap (0 .. m) \in T
    OBVIOUS
  <2> QED BY <1>3, <2>2, <2>3
<1>6. \A m \in S : n <= m
  BY <1>5
<1> QED BY <1>6 DEF Min

-----------------------------------------------------------------------------
(* A step that moves one thread to a phase that is not "avisar", and does  *)
(* not touch the devices, leaves the tokens as they are.                   *)

LEMMA FichasTrasHilo ==
  ASSUME TypeInv, hilo' \in [Procesos -> Hilos], NEW p \in Procesos,
         hilo[p].fase # "avisar", hilo'[p].fase # "avisar",
         \A q \in Procesos \ {p} : hilo'[q] = hilo[q], UNCHANGED io
  PROVE  FichasInv'
<1>1. \A t \in Tipos : Avisan(t)' = Avisan(t)
  BY DEF Avisan
<1>2. \A t \in Tipos : EnServicio(t)' = EnServicio(t) /\ EnDispositivo(t)' = EnDispositivo(t)
  BY DEF EnServicio, EnDispositivo, io, equipo
<1>3. UNCHANGED <<pedidos, hayPedido>>
  BY DEF io, interfaz, fichas
<1> QED BY <1>1, <1>2, <1>3 DEF FichasInv, TypeInv

\* The same for the types of what a mutex call does not touch.
LEMMA TipoTrasHilo ==
  ASSUME TypeInv, hilo' \in [Procesos -> Hilos], NEW p \in Procesos,
         \A q \in Procesos \ {p} : hilo'[q] = hilo[q],
         hilo'[p].fase \in {"lock", "unlock", "despertar", "aReady"} => hilo'[p].objeto \in Mutexes,
         UNCHANGED io
  PROVE  TipoIO' /\ EnCurso'
<1>1. TipoIO'
  BY DEF TypeInv, TypeOK, TipoIO, TipoInterfaz, TipoEquipo, TipoFichas, TipoEsperas,
         io, interfaz, equipo, fichas, esperasKM
<1>2. EnCurso'
  <2>1. UNCHANGED servicio BY DEF io
  <2> QED BY <2>1 DEF TypeInv, EnCurso
<1> QED BY <1>1, <1>2

Lugares == {"READY", "EXEC", "BLOCK", "EXIT", "transito"}

LEMMA CasoHilo ==
  ASSUME TypeInv, hilo' \in [Procesos -> Hilos], NEW p \in Procesos,
         \A q \in Procesos \ {p} : hilo'[q] = hilo[q],
         hilo[p].fase # "avisar", hilo'[p].fase # "avisar",
         hilo'[p].fase \in {"lock", "unlock", "despertar", "aReady"} => hilo'[p].objeto \in Mutexes,
         lugar' \in [Procesos -> Lugares], llamadas' \in [Procesos -> Nat], TipoMutexes',
         UNCHANGED io
  PROVE  TypeInv'
<1>1. TipoIO' /\ EnCurso'
  BY TipoTrasHilo
<1>2. FichasInv'
  BY FichasTrasHilo
<1>3. TypeOK'
  BY <1>1 DEF TypeOK, TipoProcesos, Hilos, Lugares
<1> QED BY <1>1, <1>2, <1>3 DEF TypeInv

-----------------------------------------------------------------------------
(* The processes and the mutex calls                                       *)

LEMMA PasoDespachar ==
  ASSUME TypeInv, NEW p \in Procesos, Despachar(p) \/ Salir(p), UNCHANGED <<mutexes, io>>
  PROVE  TypeInv'
<1>1. /\ hilo \in [Procesos -> Hilos] /\ lugar \in [Procesos -> Lugares]
      /\ llamadas \in [Procesos -> Nat] /\ TipoMutexes
  BY TiposDelHilo DEF TypeInv, TypeOK, Lugares
<1>2. /\ UNCHANGED <<hilo, llamadas>> /\ lugar' \in [Procesos -> Lugares]
  BY <1>1 DEF Despachar, Salir, Lugares
<1>3. TipoMutexes'
  BY <1>1 DEF TipoMutexes, mutexes
<1>4. TypeOK'
  BY <1>2, <1>3 DEF TypeInv, TypeOK, TipoProcesos, Lugares,
         TipoIO, TipoInterfaz, TipoEquipo, TipoFichas, TipoEsperas, io, interfaz, equipo, fichas,
         esperasKM
<1>5. EnCurso' /\ FichasInv'
  BY <1>2 DEF TypeInv, EnCurso, FichasInv, Avisan, EnServicio, EnDispositivo, io, interfaz, equipo, fichas
<1> QED BY <1>4, <1>5 DEF TypeInv

\* A call that is sent: PedirMutex and PedirIO.
LEMMA PasoPedir ==
  ASSUME TypeInv, NEW p \in Procesos, NEW f \in {"lock", "unlock", "bloquear"},
         NEW o \in Mutexes \cup Tipos, Pedir(p, f, o), f # "bloquear" => o \in Mutexes,
         UNCHANGED <<mutexes, io>>
  PROVE  TypeInv'
<1>1. /\ hilo \in [Procesos -> Hilos] /\ lugar \in [Procesos -> Lugares]
      /\ llamadas \in [Procesos -> Nat] /\ TipoMutexes
  BY TiposDelHilo DEF TypeInv, TypeOK, Lugares
<1>2. TipoMutexes' /\ UNCHANGED io
  BY <1>1 DEF TipoMutexes, mutexes
<1>3. /\ hilo' \in [Procesos -> Hilos] /\ hilo'[p].fase = f /\ hilo'[p].objeto = o
      /\ \A q \in Procesos \ {p} : hilo'[q] = hilo[q]
  BY <1>1 DEF Pedir, HiloOcioso, Hilos, Fases, Pid
<1>4. UNCHANGED lugar /\ llamadas' \in [Procesos -> Nat] /\ hilo[p].fase # "avisar"
  BY <1>1 DEF Pedir, Corre
<1> QED BY <1>1, <1>2, <1>3, <1>4, CasoHilo

LEMMA PasoCrearMutex ==
  ASSUME TypeInv, NEW p \in Procesos, NEW m \in Mutexes, CrearMutex(p, m), UNCHANGED io
  PROVE  TypeInv'
<1>1. /\ hilo \in [Procesos -> Hilos] /\ lugar \in [Procesos -> Lugares]
      /\ llamadas \in [Procesos -> Nat] /\ TipoMutexes
  BY TiposDelHilo DEF TypeInv, TypeOK, Lugares
<1>2. TipoMutexes' /\ UNCHANGED io
  BY <1>1 DEF TipoMutexes, CrearMutex
<1>3. UNCHANGED <<hilo, lugar>> /\ llamadas' \in [Procesos -> Nat] /\ hilo[p].fase = "programa"
  BY <1>1 DEF CrearMutex, Corre
<1> QED BY <1>1, <1>2, <1>3, CasoHilo

LEMMA PasoTomarMutex ==
  ASSUME TypeInv, NEW p \in Procesos, TomarMutex(p), UNCHANGED io
  PROVE  TypeInv'
<1> DEFINE m == hilo[p].objeto
<1>1. /\ hilo \in [Procesos -> Hilos] /\ lugar \in [Procesos -> Lugares]
      /\ llamadas \in [Procesos -> Nat] /\ TipoMutexes
  BY TiposDelHilo DEF TypeInv, TypeOK, Lugares
<1>2. hilo[p].fase = "lock" /\ m \in Mutexes
  BY DEF TomarMutex, EnFase, TypeInv, EnCurso
<1>3. duenio[m] \in Pid /\ Append(espera[m], p) \in Seq(Procesos)
  BY <1>1, <1>2 DEF TipoMutexes
<1>4. TipoMutexes'
  <2>1. p \in Pid
    BY DEF Pid
  <2>2. duenio' \in [Mutexes -> Pid] /\ tiene' \in [Procesos -> SUBSET Mutexes]
    <3>1. \/ UNCHANGED <<duenio, tiene>>
          \/ /\ duenio' = [duenio EXCEPT ![m] = p]
             /\ tiene' = [tiene EXCEPT ![p] = @ \cup {m}]
      BY DEF TomarMutex
    <3> HIDE DEF m
    <3>2. [tiene EXCEPT ![p] = @ \cup {m}] \in [Procesos -> SUBSET Mutexes]
      BY <1>1, <1>2, ConjuntoTipado DEF TipoMutexes
    <3>3. duenio' \in [Mutexes -> Pid]
      BY <1>1, <1>2, <2>1, <3>1 DEF TipoMutexes
    <3>4. tiene' \in [Procesos -> SUBSET Mutexes]
      BY <1>1, <3>1, <3>2 DEF TipoMutexes
    <3> QED BY <3>3, <3>4
  <2>3. espera' \in [Mutexes -> Seq(Procesos)]
    BY <1>1, <1>2, <1>3 DEF TomarMutex, TipoMutexes
  <2>4. UNCHANGED <<existe, tomados, prioridad>>
    BY DEF TomarMutex
  <2> QED BY <1>1, <2>2, <2>3, <2>4 DEF TipoMutexes
<1>5. /\ hilo' \in [Procesos -> Hilos] /\ \A q \in Procesos \ {p} : hilo'[q] = hilo[q]
      /\ hilo'[p].fase \in {"mudo", "programa", "buscar"}
  <2>1. CASE hilo' = A(p, "mudo")
    BY <1>1, <2>1, HiloTipado DEF Fases
  <2>2. CASE hilo' = Responder(p)
    BY <1>1, <2>2, HiloTipado DEF HiloOcioso
  <2>3. CASE hilo' = [hilo EXCEPT ![p].fase = "buscar", ![p].otro = duenio[m]]
    <3>1. "buscar" \in Fases
      BY DEF Fases
    <3> HIDE DEF m
    <3> QED BY <1>1, <1>3, <2>3, <3>1, HiloCon
  <2> QED BY <2>1, <2>2, <2>3 DEF TomarMutex
<1>6. UNCHANGED <<lugar, llamadas>>
  BY DEF TomarMutex
<1> QED BY <1>1, <1>2, <1>4, <1>5, <1>6, CasoHilo

LEMMA PasoPrestamo ==
  ASSUME TypeInv, NEW p \in Procesos, UNCHANGED io,
         BuscarDuenio(p) \/ BuscarDuenioEnReady(p) \/ Comparar(p) \/ Prestar(p)
  PROVE  TypeInv'
<1>1. /\ hilo \in [Procesos -> Hilos] /\ lugar \in [Procesos -> Lugares]
      /\ llamadas \in [Procesos -> Nat] /\ TipoMutexes
  BY TiposDelHilo DEF TypeInv, TypeOK, Lugares
<1>2. PICK f \in {"comparar", "buscarReady", "prestar", "bloquear"} :
        hilo' = A(p, f) /\ hilo[p].fase # "avisar" /\ UNCHANGED <<lugar, llamadas>>
  BY DEF BuscarDuenio, BuscarDuenioEnReady, Comparar, Prestar, EnFase
<1>3. TipoMutexes'
  BY <1>1 DEF TipoMutexes, BuscarDuenio, BuscarDuenioEnReady, Comparar, Prestar, mutexes
<1>4. /\ hilo' \in [Procesos -> Hilos] /\ hilo'[p].fase = f
      /\ \A q \in Procesos \ {p} : hilo'[q] = hilo[q]
  BY <1>1, <1>2, HiloTipado DEF Fases
<1> QED BY <1>1, <1>2, <1>3, <1>4, CasoHilo

\* pasarProcesoExecABlock, for a mutex and for a device.
LEMMA PasoBloquear ==
  ASSUME TypeInv, NEW p \in Procesos, UNCHANGED <<mutexes, io>>,
         \/ SacarDeExec(p) \/ EncolarEnBlock(p, HiloOcioso)
         \/ EncolarEnBlock(p, [hilo[p] EXCEPT !.fase = "encolarPedido"])
  PROVE  TypeInv'
<1>1. /\ hilo \in [Procesos -> Hilos] /\ lugar \in [Procesos -> Lugares]
      /\ llamadas \in [Procesos -> Nat] /\ TipoMutexes
  BY TiposDelHilo DEF TypeInv, TypeOK, Lugares
<1>2. TipoMutexes' /\ UNCHANGED io
  BY <1>1 DEF TipoMutexes, mutexes
<1>3. HiloOcioso \in Hilos /\ HiloOcioso.fase = "programa"
  BY DEF HiloOcioso, Hilos, Fases, Pid
<1>4. /\ hilo' \in [Procesos -> Hilos] /\ hilo'[p].fase \in {"aBlock", "programa", "encolarPedido"}
      /\ \A q \in Procesos \ {p} : hilo'[q] = hilo[q]
  <2>1. CASE SacarDeExec(p)
    BY <1>1, <2>1, HiloTipado DEF SacarDeExec, Fases
  <2>2. CASE EncolarEnBlock(p, HiloOcioso)
    BY <1>1, <1>3, <2>2 DEF EncolarEnBlock
  <2>3. CASE EncolarEnBlock(p, [hilo[p] EXCEPT !.fase = "encolarPedido"])
    BY <1>1, <2>3 DEF EncolarEnBlock, Hilos, Fases
  <2> QED BY <2>1, <2>2, <2>3
<1>5. /\ hilo[p].fase # "avisar" /\ lugar' \in [Procesos -> Lugares] /\ UNCHANGED llamadas
  BY <1>1 DEF SacarDeExec, EncolarEnBlock, EnFase, Lugares
<1> QED BY <1>1, <1>2, <1>4, <1>5, CasoHilo

LEMMA PasoLiberarMutex ==
  ASSUME TypeInv, NEW p \in Procesos, LiberarMutex(p), UNCHANGED io
  PROVE  TypeInv'
<1> DEFINE m == hilo[p].objeto
           q == Head(espera[m])
<1>1. /\ hilo \in [Procesos -> Hilos] /\ lugar \in [Procesos -> Lugares]
      /\ llamadas \in [Procesos -> Nat] /\ TipoMutexes
  BY TiposDelHilo DEF TypeInv, TypeOK, Lugares
<1>2. hilo[p].fase = "unlock" /\ m \in Mutexes
  BY DEF LiberarMutex, EnFase, TypeInv, EnCurso
<1>3. espera[m] # <<>> => q \in Procesos /\ q \in Pid /\ Tail(espera[m]) \in Seq(Procesos)
  BY <1>1, <1>2 DEF TipoMutexes, Pid
<1>4. Ninguno \in Pid
  BY DEF Pid
<1>5. TipoMutexes'
  <2>1. duenio' \in [Mutexes -> Pid]
    <3>1. \/ UNCHANGED duenio
          \/ duenio' = [duenio EXCEPT ![m] = Ninguno]
          \/ espera[m] # <<>> /\ duenio' = [duenio EXCEPT ![m] = q]
      BY DEF LiberarMutex
    <3> HIDE DEF m, q
    <3> QED BY <1>1, <1>2, <1>3, <1>4, <3>1 DEF TipoMutexes
  <2>2. espera' \in [Mutexes -> Seq(Procesos)]
    <3>1. UNCHANGED espera \/ (espera[m] # <<>> /\ espera' = [espera EXCEPT ![m] = Tail(@)])
      BY DEF LiberarMutex
    <3> HIDE DEF m, q
    <3> QED BY <1>1, <1>2, <1>3, <3>1 DEF TipoMutexes
  <2>3. tomados' \in [Procesos -> SUBSET Mutexes]
    <3>1. \/ UNCHANGED tomados
          \/ tomados' = [tomados EXCEPT ![p] = @ \ {m}]
          \/ tomados' = [[tomados EXCEPT ![p] = @ \ {m}] EXCEPT ![q] = @ \cup {m}]
      BY DEF LiberarMutex
    <3> HIDE DEF m, q
    <3>2. [tomados EXCEPT ![p] = @ \ {m}] \in [Procesos -> SUBSET Mutexes]
      BY <1>1, <1>2, ConjuntoTipado DEF TipoMutexes
    <3>3. [[tomados EXCEPT ![p] = @ \ {m}] EXCEPT ![q] = @ \cup {m}]
            \in [Procesos -> SUBSET Mutexes]
      BY <1>2, <3>2, ConjuntoTipado
    <3> QED BY <1>1, <3>1, <3>2, <3>3 DEF TipoMutexes
  <2>4. tiene' \in [Procesos -> SUBSET Mutexes]
    <3>1. UNCHANGED tiene \/ tiene' = [tiene EXCEPT ![p] = @ \ {m}]
      BY DEF LiberarMutex
    <3> HIDE DEF m, q
    <3> QED BY <1>1, <1>2, <3>1 DEF TipoMutexes
  <2>5. UNCHANGED <<existe, prioridad>>
    BY DEF LiberarMutex
  <2> QED BY <1>1, <2>1, <2>2, <2>3, <2>4, <2>5 DEF TipoMutexes
<1>6. /\ hilo' \in [Procesos -> Hilos] /\ \A r \in Procesos \ {p} : hilo'[r] = hilo[r]
      /\ hilo'[p].fase \in {"programa", "recalcular", "despertar"}
      /\ hilo'[p].fase = "despertar" => hilo'[p].objeto \in Mutexes
  <2>1. CASE hilo' = Responder(p)
    BY <1>1, <2>1, HiloTipado DEF HiloOcioso
  <2>2. CASE hilo' = A(p, "recalcular")
    BY <1>1, <2>2, HiloTipado DEF Fases
  <2>3. CASE espera[m] # <<>> /\ hilo' = [hilo EXCEPT ![p].fase = "despertar", ![p].otro = q]
    <3>1. "despertar" \in Fases
      BY DEF Fases
    <3> HIDE DEF q
    <3> QED BY <1>1, <1>2, <1>3, <2>3, <3>1, HiloCon
  <2> QED BY <2>1, <2>2, <2>3 DEF LiberarMutex
<1>7. UNCHANGED <<lugar, llamadas>>
  BY DEF LiberarMutex
<1> QED BY <1>1, <1>2, <1>5, <1>6, <1>7, CasoHilo

LEMMA PasoDespertarDeMutex ==
  ASSUME TypeInv, NEW p \in Procesos, SacarAlQueEspera(p) \/ EncolarAlQueEspera(p), UNCHANGED io
  PROVE  TypeInv'
<1> DEFINE m == hilo[p].objeto
<1>1. /\ hilo \in [Procesos -> Hilos] /\ lugar \in [Procesos -> Lugares]
      /\ llamadas \in [Procesos -> Nat] /\ TipoMutexes
  BY TiposDelHilo DEF TypeInv, TypeOK, Lugares
<1>2. hilo[p].fase \in {"despertar", "aReady"} /\ m \in Mutexes
  BY DEF SacarAlQueEspera, EncolarAlQueEspera, EnFase, TypeInv, EnCurso
<1>3. TipoMutexes'
  <2>1. \/ UNCHANGED tiene
        \/ \E q : tiene' = [tiene EXCEPT ![q] = @ \cup {m}]
    BY DEF SacarAlQueEspera, EncolarAlQueEspera, mutexes
  <2>2. UNCHANGED <<existe, duenio, espera, tomados, prioridad>>
    BY DEF SacarAlQueEspera, EncolarAlQueEspera, mutexes
  <2>3. tiene' \in [Procesos -> SUBSET Mutexes]
    <3> HIDE DEF m
    <3>1. tiene \in [Procesos -> SUBSET Mutexes]
      BY <1>1 DEF TipoMutexes
    <3>2. \A q : [tiene EXCEPT ![q] = @ \cup {m}] \in [Procesos -> SUBSET Mutexes]
      BY <1>2, <3>1, ConjuntoTipado
    <3> QED BY <2>1, <3>1, <3>2
  <2> QED BY <1>1, <2>2, <2>3 DEF TipoMutexes
<1>4. PICK f \in {"aReady", "recalcular"} : hilo' = A(p, f)
  BY DEF SacarAlQueEspera, EncolarAlQueEspera
<1>5. /\ hilo' \in [Procesos -> Hilos] /\ hilo'[p].fase = f /\ hilo'[p].objeto = m
      /\ \A q \in Procesos \ {p} : hilo'[q] = hilo[q]
  BY <1>1, <1>4, HiloTipado DEF Fases
<1>6. lugar' \in [Procesos -> Lugares] /\ UNCHANGED llamadas
  BY <1>1 DEF SacarAlQueEspera, EncolarAlQueEspera, SacarDeBlock, EncolarEnReady, Lugares
<1> QED BY <1>1, <1>2, <1>3, <1>5, <1>6, CasoHilo

LEMMA PasoRecalcular ==
  ASSUME TypeInv, NEW p \in Procesos, Recalcular(p) \/ Restituir(p), UNCHANGED io
  PROVE  TypeInv'
<1>1. /\ hilo \in [Procesos -> Hilos] /\ lugar \in [Procesos -> Lugares]
      /\ llamadas \in [Procesos -> Nat] /\ TipoMutexes
  BY TiposDelHilo DEF TypeInv, TypeOK, Lugares
<1>2. TipoMutexes'
  BY <1>1 DEF Recalcular, Restituir, TipoMutexes, mutexes, Hilos
<1>3. /\ hilo' \in [Procesos -> Hilos] /\ hilo'[p].fase \in {"restituir", "programa"}
      /\ \A q \in Procesos \ {p} : hilo'[q] = hilo[q]
  <2>1. CASE Recalcular(p)
    <3> DEFINE Valor(Q) == Min({Base[p]} \cup {prioridad[q] : q \in Q})
    <3>1. ASSUME NEW Q \in SUBSET Procesos PROVE Valor(Q) \in Nat
      <4>1. {Base[p]} \cup {prioridad[q] : q \in Q} \in SUBSET Nat
        BY <1>1, MutexesAssumption DEF TipoMutexes
      <4> QED BY <4>1, MinNatural
    <3> HIDE DEF Valor
    <3>2. \E Q \in SUBSET Procesos :
            hilo' = [hilo EXCEPT ![p].fase = "restituir", ![p].valor = Valor(Q)]
      BY <2>1 DEF Recalcular, Valor
    <3>3. PICK v \in Nat : hilo' = [hilo EXCEPT ![p].fase = "restituir", ![p].valor = v]
      BY <3>1, <3>2
    <3>4. "restituir" \in Fases /\ Ninguno \in Pid
      BY DEF Fases, Pid
    <3> QED BY <1>1, <3>3, <3>4, HiloCon
  <2>2. CASE Restituir(p)
    BY <1>1, <2>2, HiloTipado DEF Restituir, HiloOcioso
  <2> QED BY <2>1, <2>2
<1>4. UNCHANGED <<lugar, llamadas>> /\ hilo[p].fase # "avisar"
  BY DEF Recalcular, Restituir, EnFase
<1> QED BY <1>1, <1>2, <1>3, <1>4, CasoHilo

-----------------------------------------------------------------------------
(* The devices.  A step of one of their threads is about one type.         *)

SoloTipo(t) ==
  \A u \in Tipos \ {t} :
    /\ hayPedido'[u] = hayPedido[u] /\ servicio'[u] = servicio[u]
    /\ aIO'[u] = aIO[u] /\ deIO'[u] = deIO[u] /\ pedidos'[u] = pedidos[u]

\* What is owed to type t, but for the posts on their way, grows no more than its queue.
Peso(t) == hayPedido[t] + EnServicio(t) + EnDispositivo(t)
NoDebeMas(t) == Peso(t)' + Len(pedidos[t]) <= Peso(t) + Len(pedidos'[t])

LEMMA PesoNatural ==
  ASSUME TipoIO, NEW t \in Tipos
  PROVE  /\ Peso(t) \in Nat /\ Len(pedidos[t]) \in Nat /\ Cardinality(Avisan(t)) \in Nat
         /\ hayPedido[t] \in Nat /\ EnServicio(t) \in Nat /\ EnDispositivo(t) \in Nat
<1>1. /\ hayPedido[t] \in Nat /\ Len(aIO[t]) \in Nat /\ Len(deIO[t]) \in Nat
      /\ Len(pedidos[t]) \in Nat
  BY DEF TipoIO, TipoFichas, TipoEquipo, TipoInterfaz
<1>2. Cardinality(Avisan(t)) \in Nat
  <2>1. Avisan(t) \in SUBSET Procesos
    BY DEF Avisan
  <2> QED BY <2>1, BloqueosAssumption, FS_Subset, FS_CardinalityType
<1>3. EnServicio(t) \in Nat
  <2>1. EnServicio(t) \in {0, 1}
    BY Zenon DEF EnServicio
  <2> QED BY <2>1
<1>4. EnDispositivo(t) \in Nat
  <2> DEFINE enSocket == Len(aIO[t]) + Len(deIO[t])
  <2>1. EnDispositivo(t) \in {0, enSocket}
    BY Zenon DEF EnDispositivo
  <2>2. enSocket \in Nat
    BY <1>1 DEF TipoIO, TipoEquipo
  <2> HIDE DEF enSocket
  <2> QED BY <2>1, <2>2
<1> QED BY <1>1, <1>2, <1>3, <1>4 DEF Peso

LEMMA PesoNaturalLuego ==
  ASSUME TipoIO', NEW t \in Tipos
  PROVE  /\ Peso(t)' \in Nat /\ Len(pedidos'[t]) \in Nat /\ Cardinality(Avisan(t)') \in Nat
         /\ hayPedido'[t] \in Nat /\ EnServicio(t)' \in Nat /\ EnDispositivo(t)' \in Nat
<1>1. /\ hayPedido'[t] \in Nat /\ Len(aIO'[t]) \in Nat /\ Len(deIO'[t]) \in Nat
      /\ Len(pedidos'[t]) \in Nat
  BY DEF TipoIO, TipoFichas, TipoEquipo, TipoInterfaz
<1>2. Cardinality(Avisan(t)') \in Nat
  <2>1. Avisan(t)' \in SUBSET Procesos
    BY DEF Avisan
  <2> QED BY <2>1, BloqueosAssumption, FS_Subset, FS_CardinalityType
<1>3. EnServicio(t)' \in Nat
  <2>1. EnServicio(t)' \in {0, 1}
    BY Zenon DEF EnServicio
  <2> QED BY <2>1
<1>4. EnDispositivo(t)' \in Nat
  <2> DEFINE enSocket == Len(aIO'[t]) + Len(deIO'[t])
  <2>1. EnDispositivo(t)' \in {0, enSocket}
    BY Zenon DEF EnDispositivo
  <2>2. enSocket \in Nat
    BY <1>1 DEF TipoIO, TipoEquipo
  <2> HIDE DEF enSocket
  <2> QED BY <2>1, <2>2
<1> QED BY <1>1, <1>2, <1>3, <1>4 DEF Peso

LEMMA CasoIO ==
  ASSUME TypeInv, NEW t \in Tipos, UNCHANGED <<hilo, llamadas, mutexes>>,
         lugar' \in [Procesos -> Lugares], TipoIO', SoloTipo(t), NoDebeMas(t),
         servicio'[t].fase \notin {"esperar", "revisar"} => servicio'[t].pid \in Procesos
  PROVE  TypeInv'
<1>1. TypeOK'
  BY DEF TypeInv, TypeOK, TipoProcesos, TipoMutexes, mutexes, Lugares
<1>2. EnCurso'
  BY DEF TypeInv, EnCurso, SoloTipo
<1>3. FichasInv'
  <2>1. ASSUME NEW u \in Tipos
        PROVE  Peso(u)' + Cardinality(Avisan(u)') <= Len(pedidos'[u])
    <3>1. Peso(u) + Cardinality(Avisan(u)) <= Len(pedidos[u])
      BY PesoNatural DEF TypeInv, TypeOK, FichasInv, Peso
    <3>2. Avisan(u)' = Avisan(u)
      BY DEF Avisan
    <3>3. Peso(u) \in Nat /\ Len(pedidos[u]) \in Nat /\ Cardinality(Avisan(u)) \in Nat
      BY PesoNatural DEF TypeInv, TypeOK
    <3>4. Peso(u)' \in Nat /\ Len(pedidos'[u]) \in Nat
      BY PesoNaturalLuego
    <3>5. Peso(u)' + Len(pedidos[u]) <= Peso(u) + Len(pedidos'[u])
      <4>1. CASE u = t BY <4>1 DEF NoDebeMas
      <4>2. CASE u # t
        <5>1. Peso(u)' = Peso(u) /\ pedidos'[u] = pedidos[u]
          BY <4>2 DEF SoloTipo, Peso, EnServicio, EnDispositivo
        <5> QED BY <5>1, <3>3
      <4> QED BY <4>1, <4>2
    <3> QED BY <3>1, <3>2, <3>3, <3>4, <3>5
  <2>2. ASSUME NEW u \in Tipos
        PROVE  /\ hayPedido'[u] \in Nat /\ EnServicio(u)' \in Nat /\ EnDispositivo(u)' \in Nat
               /\ Cardinality(Avisan(u)') \in Nat
    BY PesoNaturalLuego
  <2> QED BY <2>1, <2>2 DEF FichasInv, Peso
<1> QED BY <1>1, <1>2, <1>3 DEF TypeInv

LEMMA CasoOyente ==
  ASSUME TypeInv, TipoIO', lugar' \in [Procesos -> Lugares],
         UNCHANGED <<hilo, llamadas, mutexes, hayPedido, servicio, aIO, deIO, pedidos>>
  PROVE  TypeInv'
<1>1. TypeOK'
  BY DEF TypeInv, TypeOK, TipoProcesos, TipoMutexes, mutexes, Lugares
<1>2. EnCurso' /\ FichasInv'
  BY DEF TypeInv, EnCurso, FichasInv, Avisan, EnServicio, EnDispositivo
<1> QED BY <1>1, <1>2 DEF TypeInv

\* The groups of variables an action leaves alone.
LEMMA TipoIOIgual ==
  ASSUME TipoIO
  PROVE  /\ UNCHANGED interfaz => TipoInterfaz'
         /\ UNCHANGED equipo => TipoEquipo'
         /\ UNCHANGED fichas => TipoFichas'
         /\ UNCHANGED esperasKM => TipoEsperas'
         /\ UNCHANGED servicio => servicio' \in [Tipos -> Servicios]
         /\ UNCHANGED oyente => oyente' \in [Tipos -> Oyentes]
         /\ UNCHANGED muerto => muerto' \in Muertes
  BY DEF TipoIO, TipoInterfaz, TipoEquipo, TipoFichas, TipoEsperas, interfaz, equipo, fichas,
         esperasKM

LEMMA LugarTipado ==
  ASSUME TypeInv
  PROVE  /\ lugar \in [Procesos -> Lugares] /\ TipoIO
         /\ \A q : SacarDeBlock(q) \/ EncolarEnReady(q) => lugar' \in [Procesos -> Lugares]
<1>1. lugar \in [Procesos -> Lugares] /\ TipoIO
  BY DEF TypeInv, TypeOK, TipoProcesos, Lugares
<1> QED BY <1>1 DEF SacarDeBlock, EncolarEnReady, Lugares

\* A listener that goes on to a phase.
LEMMA OyenteTipado ==
  ASSUME TipoIO, NEW t \in Tipos
  PROVE  /\ \A f \in {"sinDispositivo", "recibir", "buscar", "aReady", "liberar", "finalizar"} :
              /\ OyenteA(t, f) => oyente' \in [Tipos -> Oyentes]
              /\ \A x \in Pid : oyente' = [oyente EXCEPT ![t] = [fase |-> f, pid |-> x]]
                                  => oyente' \in [Tipos -> Oyentes]
              /\ Ocioso(f) = [fase |-> f, pid |-> Ninguno]
         /\ Ninguno \in Pid
  BY DEF TipoIO, OyenteA, Oyentes, Ocioso, Pid

LEMMA ServicioTipado ==
  ASSUME TipoIO, NEW t \in Tipos
  PROVE  \A f \in {"esperar", "revisar", "esperarKM", "enviar", "esperarIO",
                     "esperarEscritura", "buscar", "aReady"} :
           /\ ServicioA(t, f) => /\ servicio' \in [Tipos -> Servicios]
                                 /\ servicio'[t].fase = f /\ servicio'[t].pid = servicio[t].pid
                                 /\ \A u \in Tipos \ {t} : servicio'[u] = servicio[u]
           /\ \A x \in Pid : servicio' = [servicio EXCEPT ![t] = [fase |-> f, pid |-> x]] =>
                /\ servicio' \in [Tipos -> Servicios]
                /\ servicio'[t].fase = f /\ servicio'[t].pid = x
                /\ \A u \in Tipos \ {t} : servicio'[u] = servicio[u]
  BY DEF TipoIO, ServicioA, Servicios

-----------------------------------------------------------------------------
(* Listeners: the steps that leave the requests alone                      *)

LEMMA PasoConectar ==
  ASSUME TypeInv, NEW t \in Tipos, ConectarIO(t), UNCHANGED mutexes
  PROVE  TypeInv'
<1>1. TipoIO /\ lugar \in [Procesos -> Lugares]
  BY LugarTipado
<1>2. TipoInterfaz' /\ TipoEquipo' /\ TipoFichas'
  BY <1>1 DEF ConectarIO, TipoIO, TipoInterfaz, TipoEquipo, TipoFichas
<1>3. oyente' \in [Tipos -> Oyentes]
  BY <1>1, OyenteTipado DEF ConectarIO
<1>4. TipoIO'
  BY <1>1, <1>2, <1>3, TipoIOIgual DEF ConectarIO, TipoIO
<1> QED BY <1>1, <1>4, CasoOyente DEF ConectarIO, proceso

LEMMA PasoDespertarTrasIO ==
  ASSUME TypeInv, NEW t \in Tipos, DespertarTrasIO(t), UNCHANGED mutexes
  PROVE  TypeInv'
<1>1. TipoIO /\ lugar \in [Procesos -> Lugares]
  BY LugarTipado
<1>2. lugar' \in [Procesos -> Lugares]
  BY <1>1, LugarTipado DEF DespertarTrasIO
<1>3. oyente' \in [Tipos -> Oyentes]
  BY <1>1, OyenteTipado DEF DespertarTrasIO
<1>4. TipoIO'
  BY <1>1, <1>3, TipoIOIgual DEF DespertarTrasIO, TipoIO
<1> QED BY <1>2, <1>4, CasoOyente DEF DespertarTrasIO, interfaz, equipo, fichas

LEMMA PasoLiberarIO ==
  ASSUME TypeInv, NEW t \in Tipos, LiberarIO(t), UNCHANGED mutexes
  PROVE  TypeInv'
<1>1. TipoIO /\ lugar \in [Procesos -> Lugares]
  BY LugarTipado
<1>2. oyente' \in [Tipos -> Oyentes] /\ Ninguno \in Pid
  BY <1>1, OyenteTipado DEF LiberarIO
<1>3. TipoInterfaz' /\ TipoFichas'
  BY <1>1, <1>2 DEF LiberarIO, TipoIO, TipoInterfaz, TipoFichas
<1>4. TipoIO'
  BY <1>1, <1>2, <1>3, TipoIOIgual DEF LiberarIO, TipoIO
<1> QED BY <1>1, <1>4, CasoOyente DEF LiberarIO, proceso, equipo

LEMMA PasoDetectarCaida ==
  ASSUME TypeInv, NEW t \in Tipos, DetectarCaida(t), UNCHANGED mutexes
  PROVE  TypeInv'
<1>1. TipoIO /\ lugar \in [Procesos -> Lugares]
  BY LugarTipado
<1>2. atiendeA[t] \in Pid /\ Ninguno \in Pid
  BY <1>1, OyenteTipado DEF TipoIO, TipoInterfaz
<1>3. oyente' \in [Tipos -> Oyentes]
  BY <1>1, <1>2, OyenteTipado DEF DetectarCaida
<1>4. TipoInterfaz'
  BY <1>1, <1>2 DEF DetectarCaida, TipoIO, TipoInterfaz
<1>5. TipoIO'
  BY <1>1, <1>3, <1>4, TipoIOIgual DEF DetectarCaida, TipoIO
<1> QED BY <1>1, <1>5, CasoOyente DEF DetectarCaida, proceso, equipo, fichas

LEMMA PasoFinalizarPorIO ==
  ASSUME TypeInv, NEW t \in Tipos, FinalizarPorIO(t), UNCHANGED mutexes
  PROVE  TypeInv'
<1>1. TipoIO /\ lugar \in [Procesos -> Lugares]
  BY LugarTipado
<1>2. lugar' \in [Procesos -> Lugares] /\ muerto' \in Muertes
  BY <1>1 DEF FinalizarPorIO, Lugares, TipoIO, Muertes
<1>3. oyente' \in [Tipos -> Oyentes]
  BY <1>1, OyenteTipado DEF FinalizarPorIO
<1>4. TipoIO'
  BY <1>1, <1>2, <1>3, TipoIOIgual DEF FinalizarPorIO, TipoIO
<1> QED BY <1>2, <1>4, CasoOyente DEF FinalizarPorIO, interfaz, equipo, fichas

-----------------------------------------------------------------------------
(* The thread that serves a type                                           *)

\* One step of a service that neither touches the sockets nor the queue.
LEMMA CasoServicio ==
  ASSUME TypeInv, NEW t \in Tipos, TipoIO', lugar' \in [Procesos -> Lugares],
         UNCHANGED <<hilo, llamadas, mutexes, aIO, deIO, pedidos>>,
         \A u \in Tipos \ {t} : hayPedido'[u] = hayPedido[u] /\ servicio'[u] = servicio[u],
         hayPedido'[t] + EnServicio(t)' <= hayPedido[t] + EnServicio(t),
         servicio'[t].fase \notin {"esperar", "revisar"} => servicio'[t].pid \in Procesos
  PROVE  TypeInv'
<1>1. TipoIO
  BY LugarTipado
<1>2. SoloTipo(t)
  BY DEF SoloTipo
<1>3. NoDebeMas(t)
  <2>1. EnDispositivo(t)' = EnDispositivo(t)
    BY DEF EnDispositivo
  <2>2. /\ hayPedido[t] \in Nat /\ EnServicio(t) \in Nat /\ EnDispositivo(t) \in Nat
        /\ hayPedido'[t] \in Nat /\ EnServicio(t)' \in Nat /\ Len(pedidos[t]) \in Nat
    BY <1>1, PesoNatural, PesoNaturalLuego
  <2>3. ASSUME NEW k \in Nat, NEW e \in Nat, NEW d \in Nat, NEW n \in Nat,
               NEW kk \in Nat, NEW ee \in Nat, kk + ee <= k + e
        PROVE  kk + ee + d + n <= k + e + d + n
    BY <2>3
  <2>4. hayPedido'[t] + EnServicio(t)' + EnDispositivo(t) + Len(pedidos[t])
          <= hayPedido[t] + EnServicio(t) + EnDispositivo(t) + Len(pedidos[t])
    BY <2>2, <2>3
  <2> QED BY <2>1, <2>4, Zenon DEF NoDebeMas, Peso
<1> QED BY <1>2, <1>3, CasoIO

LEMMA PasoTomarFichasIO ==
  ASSUME TypeInv, NEW t \in Tipos, TomarFichasIO(t), UNCHANGED mutexes
  PROVE  TypeInv'
<1>1. TipoIO /\ lugar \in [Procesos -> Lugares]
  BY LugarTipado
<1>2. /\ servicio' \in [Tipos -> Servicios] /\ servicio'[t].fase = "revisar"
      /\ \A u \in Tipos \ {t} : servicio'[u] = servicio[u]
  BY <1>1, ServicioTipado DEF TomarFichasIO
<1>3. TipoFichas' /\ hayPedido'[t] = hayPedido[t] - 1 /\ hayPedido[t] \in Nat
      /\ \A u \in Tipos \ {t} : hayPedido'[u] = hayPedido[u]
  BY <1>1 DEF TomarFichasIO, TipoIO, TipoFichas
<1>4. TipoIO'
  BY <1>1, <1>2, <1>3, TipoIOIgual DEF TomarFichasIO, TipoIO
<1>5. EnServicio(t) = 0 /\ EnServicio(t)' = 1
  BY <1>2 DEF TomarFichasIO, Sirve, EnServicio
<1>6. hayPedido'[t] + EnServicio(t)' <= hayPedido[t] + EnServicio(t)
  BY <1>3, <1>5
<1> QED BY <1>1, <1>2, <1>3, <1>4, <1>6, CasoServicio DEF TomarFichasIO, proceso, interfaz, equipo

LEMMA PasoRevisar ==
  ASSUME TypeInv, NEW t \in Tipos, Revisar(t), UNCHANGED mutexes
  PROVE  TypeInv'
<1> DEFINE p == Head(pedidos[t]).pid
<1>1. TipoIO /\ lugar \in [Procesos -> Lugares] /\ Ninguno \in Pid
  BY LugarTipado DEF Pid
<1>2. pedidos[t] # <<>> => p \in Procesos /\ p \in Pid
  <2>1. pedidos[t] # <<>> => Head(pedidos[t]) \in Pedido
    BY <1>1 DEF TipoIO, TipoInterfaz
  <2> QED BY <2>1 DEF Pedido, Pid
<1>3. PICK f \in {"esperarKM", "enviar", "esperar"}, x \in Pid :
        /\ servicio' = [servicio EXCEPT ![t] = [fase |-> f, pid |-> x]]
        /\ f # "esperar" => x \in Procesos
  BY <1>1, <1>2, Zenon DEF Revisar, Ocioso
<1>4. /\ servicio' \in [Tipos -> Servicios] /\ servicio'[t].fase = f /\ servicio'[t].pid = x
      /\ \A u \in Tipos \ {t} : servicio'[u] = servicio[u]
  BY <1>1, <1>3, ServicioTipado
<1>5. TipoInterfaz'
  <2>1. \/ UNCHANGED <<ocupada, atiendeA>>
        \/ /\ pedidos[t] # <<>> /\ ocupada' = [ocupada EXCEPT ![t] = TRUE]
           /\ atiendeA' = [atiendeA EXCEPT ![t] = p]
    BY DEF Revisar
  <2>2. UNCHANGED <<pedidos, conectada>>
    BY DEF Revisar
  <2> HIDE DEF p
  <2> QED BY <1>1, <1>2, <2>1, <2>2 DEF TipoIO, TipoInterfaz
<1>6. TipoEsperas'
  <2>1. aKM' = aKM \/ (p \in Procesos /\ aKM' = aKM \cup {<<"LECTURA", p>>})
    BY <1>2 DEF Revisar
  <2>2. UNCHANGED <<leidoDeIO, leidoDeKM, escritoEnKM>>
    BY DEF Revisar
  <2> HIDE DEF p
  <2> QED BY <1>1, <2>1, <2>2 DEF TipoIO, TipoEsperas
<1>7. TipoIO'
  BY <1>1, <1>4, <1>5, <1>6, TipoIOIgual DEF Revisar, TipoIO
<1>8. EnServicio(t) = 1 /\ EnServicio(t)' \in {0, 1}
  BY DEF Revisar, Sirve, EnServicio
<1>9. UNCHANGED hayPedido /\ hayPedido[t] \in Nat
  BY <1>1 DEF Revisar, fichas, TipoIO, TipoFichas
<1>10. hayPedido'[t] + EnServicio(t)' <= hayPedido[t] + EnServicio(t)
  BY <1>8, <1>9
<1> QED
  BY <1>1, <1>3, <1>4, <1>7, <1>9, <1>10, CasoServicio DEF Revisar, proceso, equipo

\* Steps in which a service only waits for a semaphore, or wakes the process of STDIN.
LEMMA PasoEsperarKM ==
  ASSUME TypeInv, NEW t \in Tipos, EsperarKM(t) \/ EsperarIO(t), UNCHANGED mutexes
  PROVE  TypeInv'
<1>1. TipoIO /\ lugar \in [Procesos -> Lugares] /\ servicio[t].pid \in Procesos
  BY LugarTipado DEF EsperarKM, EsperarIO, Sirve, TypeInv, EnCurso
<1>2. PICK f \in {"enviar", "esperarEscritura"} : ServicioA(t, f)
  BY DEF EsperarKM, EsperarIO
<1>3. /\ servicio' \in [Tipos -> Servicios] /\ servicio'[t].fase = f
      /\ servicio'[t].pid = servicio[t].pid
      /\ \A u \in Tipos \ {t} : servicio'[u] = servicio[u]
  BY <1>1, <1>2, ServicioTipado
<1>4. TipoEsperas'
  BY <1>1 DEF EsperarKM, EsperarIO, TipoIO, TipoEsperas
<1>5. TipoIO'
  BY <1>1, <1>3, <1>4, TipoIOIgual DEF EsperarKM, EsperarIO, TipoIO
<1>6. EnServicio(t) = 1 /\ EnServicio(t)' = 1
  BY <1>3 DEF EsperarKM, EsperarIO, Sirve, EnServicio
<1>7. UNCHANGED hayPedido /\ hayPedido[t] \in Nat
  BY <1>1 DEF EsperarKM, EsperarIO, fichas, TipoIO, TipoFichas
<1>8. hayPedido'[t] + EnServicio(t)' <= hayPedido[t] + EnServicio(t)
  BY <1>6, <1>7
<1> QED
  BY <1>1, <1>3, <1>5, <1>7, <1>8, CasoServicio
     DEF EsperarKM, EsperarIO, proceso, equipo, interfaz

LEMMA PasoDespertarTrasSTDIN ==
  ASSUME TypeInv, NEW t \in Tipos, DespertarTrasSTDIN(t), UNCHANGED mutexes
  PROVE  TypeInv'
<1>1. TipoIO /\ lugar \in [Procesos -> Lugares] /\ Ninguno \in Pid
      /\ servicio[t].fase \in {"buscar", "aReady"} /\ servicio[t].pid \in Procesos
  BY LugarTipado DEF DespertarTrasSTDIN, Sirve, TypeInv, EnCurso, Pid
<1>2. lugar' \in [Procesos -> Lugares]
  BY <1>1, LugarTipado DEF DespertarTrasSTDIN
<1>3. /\ servicio' \in [Tipos -> Servicios] /\ servicio'[t].fase \in {"esperar", "aReady"}
      /\ servicio'[t].fase = "aReady" => servicio'[t].pid \in Procesos
      /\ \A u \in Tipos \ {t} : servicio'[u] = servicio[u]
  BY <1>1, ServicioTipado DEF DespertarTrasSTDIN, Ocioso
<1>4. TipoIO'
  BY <1>1, <1>3, TipoIOIgual DEF DespertarTrasSTDIN, TipoIO
<1>5. EnServicio(t) = 0 /\ EnServicio(t)' = 0
  BY <1>1, <1>3 DEF EnServicio
<1>6. UNCHANGED hayPedido /\ hayPedido[t] \in Nat
  BY <1>1 DEF DespertarTrasSTDIN, fichas, TipoIO, TipoFichas
<1>7. hayPedido'[t] + EnServicio(t)' <= hayPedido[t] + EnServicio(t)
  BY <1>5, <1>6
<1> QED
  BY <1>2, <1>3, <1>4, <1>6, <1>7, CasoServicio DEF DespertarTrasSTDIN, equipo, interfaz

LEMMA TiposDe ==
  ASSUME TypeInv, NEW t \in Tipos
  PROVE  /\ aIO[t] \in Seq(Procesos) /\ deIO[t] \in Seq(Procesos) /\ pedidos[t] \in Seq(Pedido)
         /\ hayPedido[t] \in Nat /\ EnServicio(t) \in Nat /\ EnDispositivo(t) \in Nat
         /\ hayPedido[t] + EnServicio(t) + EnDispositivo(t) <= Len(pedidos[t])
<1>1. TipoIO
  BY LugarTipado
<1>2. /\ aIO[t] \in Seq(Procesos) /\ deIO[t] \in Seq(Procesos) /\ pedidos[t] \in Seq(Pedido)
  BY <1>1 DEF TipoIO, TipoEquipo, TipoInterfaz
<1>3. /\ hayPedido[t] \in Nat /\ EnServicio(t) \in Nat /\ EnDispositivo(t) \in Nat
      /\ Cardinality(Avisan(t)) \in Nat /\ Len(pedidos[t]) \in Nat
  BY <1>1, PesoNatural
<1>4. hayPedido[t] + Cardinality(Avisan(t)) + EnServicio(t) + EnDispositivo(t) <= Len(pedidos[t])
  BY DEF TypeInv, FichasInv
<1> QED BY <1>2, <1>3, <1>4

LEMMA PasoEnviarAIO ==
  ASSUME TypeInv, NEW t \in Tipos, EnviarAIO(t), UNCHANGED mutexes
  PROVE  TypeInv'
<1>1. TipoIO /\ lugar \in [Procesos -> Lugares] /\ Ninguno \in Pid
      /\ servicio[t].fase = "enviar" /\ servicio[t].pid \in Procesos
  BY LugarTipado DEF EnviarAIO, Sirve, TypeInv, EnCurso, Pid
<1>2. /\ servicio' \in [Tipos -> Servicios]
      /\ servicio'[t].fase = IF t = "STDIN" THEN "esperarIO" ELSE "esperar"
      /\ servicio'[t].fase = "esperarIO" => servicio'[t].pid \in Procesos
      /\ \A u \in Tipos \ {t} : servicio'[u] = servicio[u]
  BY <1>1, ServicioTipado DEF EnviarAIO, Ocioso
<1>3. aIO' = aIO \/ aIO' = [aIO EXCEPT ![t] = Append(@, servicio[t].pid)]
  BY DEF EnviarAIO
<1>4. aIO[t] \in Seq(Procesos) /\ Append(aIO[t], servicio[t].pid) \in Seq(Procesos)
      /\ Len(Append(aIO[t], servicio[t].pid)) = Len(aIO[t]) + 1
      /\ deIO[t] \in Seq(Procesos)
  BY <1>1, TiposDe
<1>5. /\ TipoEquipo' /\ Len(aIO'[t]) <= Len(aIO[t]) + 1
      /\ \A u \in Tipos \ {t} : aIO'[u] = aIO[u]
  <2>1. aIO \in [Tipos -> Seq(Procesos)]
    BY <1>1 DEF TipoIO, TipoEquipo
  <2>2. /\ aIO' \in [Tipos -> Seq(Procesos)] /\ \A u \in Tipos \ {t} : aIO'[u] = aIO[u]
        /\ aIO'[t] = aIO[t] \/ aIO'[t] = Append(aIO[t], servicio[t].pid)
    BY <1>3, <1>4, <2>1
  <2>3. Len(aIO[t]) \in Nat
    BY <1>4
  <2>4. Len(aIO'[t]) = Len(aIO[t]) \/ Len(aIO'[t]) = Len(aIO[t]) + 1
    BY <1>4, <2>2
  <2>5. Len(aIO'[t]) <= Len(aIO[t]) + 1
    BY <2>3, <2>4
  <2> QED BY <1>1, <2>2, <2>5 DEF EnviarAIO, TipoIO, TipoEquipo
<1>6. muerto' \in Muertes
  BY <1>1 DEF EnviarAIO, TipoIO, Muertes
<1>7. TipoIO'
  BY <1>1, <1>2, <1>5, <1>6, TipoIOIgual DEF EnviarAIO, TipoIO
<1>8. UNCHANGED <<hayPedido, deIO, pedidos, hilo, llamadas, lugar>>
  BY DEF EnviarAIO, fichas, interfaz, proceso
<1>9. NoDebeMas(t)
  <2>1. /\ hayPedido[t] \in Nat /\ Len(pedidos[t]) \in Nat /\ aIO'[t] \in Seq(Procesos)
    BY <1>7, TiposDe DEF TipoIO, TipoEquipo
  <2>2. CASE t = "STDIN"
    <3>1. EnServicio(t) = 1 /\ EnServicio(t)' = 1
      BY <1>1, <1>2, <2>2 DEF EnServicio
    <3>2. EnDispositivo(t) = 0 /\ EnDispositivo(t)' = 0
      BY <2>2 DEF EnDispositivo
    <3> QED BY <1>8, <2>1, <3>1, <3>2 DEF NoDebeMas, Peso
  <2>3. CASE t # "STDIN"
    <3>1. EnServicio(t) = 1 /\ EnServicio(t)' = 0
      BY <1>1, <1>2, <2>3 DEF EnServicio
    <3>2. /\ EnDispositivo(t) = Len(aIO[t]) + Len(deIO[t])
          /\ EnDispositivo(t)' = Len(aIO'[t]) + Len(deIO[t])
      BY <1>8, <2>3 DEF EnDispositivo
    <3>3. EnDispositivo(t)' <= EnDispositivo(t) + 1 /\ EnDispositivo(t) \in Nat
          /\ EnDispositivo(t)' \in Nat
      <4>1. Len(aIO[t]) \in Nat /\ Len(deIO[t]) \in Nat /\ Len(aIO'[t]) \in Nat
        BY <1>4, <2>1
      <4>2. PICK a \in Nat, b \in Nat, d \in Nat :
              a = Len(aIO[t]) /\ b = Len(aIO'[t]) /\ d = Len(deIO[t])
        BY <4>1
      <4>3. b <= a + 1 /\ EnDispositivo(t) = a + d /\ EnDispositivo(t)' = b + d
        BY <1>5, <3>2, <4>2, Zenon
      <4> QED BY <4>3
    <3> QED BY <1>8, <2>1, <3>1, <3>3 DEF NoDebeMas, Peso
  <2> QED BY <2>2, <2>3
<1>10. SoloTipo(t)
  BY <1>2, <1>5, <1>8 DEF SoloTipo
<1> QED BY <1>1, <1>2, <1>7, <1>8, <1>9, <1>10, CasoIO

\* The request of STDIN is still there when kernel_memory has written: FichasInv.
LEMMA PasoRetirarSTDIN ==
  ASSUME TypeInv, NEW t \in Tipos, RetirarSTDIN(t), UNCHANGED mutexes
  PROVE  TypeInv'
<1>1. TipoIO /\ lugar \in [Procesos -> Lugares] /\ servicio[t].fase = "esperarEscritura"
      /\ servicio[t].pid \in Procesos
  BY LugarTipado DEF RetirarSTDIN, Sirve, TypeInv, EnCurso
<1>2. /\ servicio' \in [Tipos -> Servicios] /\ servicio'[t].fase = "buscar"
      /\ servicio'[t].pid \in Procesos
      /\ \A u \in Tipos \ {t} : servicio'[u] = servicio[u]
  BY <1>1, ServicioTipado DEF RetirarSTDIN
<1>3. EnServicio(t) = 1 /\ EnServicio(t)' = 0
  BY <1>1, <1>2 DEF EnServicio
<1>4. /\ Tail(pedidos[t]) \in Seq(Pedido) /\ Len(Tail(pedidos[t])) = Len(pedidos[t]) - 1
      /\ Len(pedidos[t]) \in Nat /\ hayPedido[t] \in Nat /\ EnDispositivo(t) \in Nat
  <2>1. pedidos[t] \in Seq(Pedido) /\ Len(pedidos[t]) > 0
    BY <1>3, TiposDe
  <2> QED BY <2>1, TiposDe
<1>5. /\ TipoInterfaz' /\ pedidos'[t] = Tail(pedidos[t])
      /\ \A u \in Tipos \ {t} : pedidos'[u] = pedidos[u]
  BY <1>1, <1>4 DEF RetirarSTDIN, TipoIO, TipoInterfaz
<1>6. TipoEsperas'
  BY <1>1 DEF RetirarSTDIN, TipoIO, TipoEsperas
<1>7. TipoIO'
  BY <1>1, <1>2, <1>5, <1>6, TipoIOIgual DEF RetirarSTDIN, TipoIO
<1>8. UNCHANGED <<hayPedido, aIO, deIO, hilo, llamadas, lugar>>
  BY DEF RetirarSTDIN, fichas, equipo, proceso
<1>9. NoDebeMas(t)
  <2>1. EnDispositivo(t)' = EnDispositivo(t)
    BY <1>8 DEF EnDispositivo
  <2> QED BY <1>3, <1>4, <1>5, <1>8, <2>1 DEF NoDebeMas, Peso
<1>10. SoloTipo(t)
  BY <1>2, <1>5, <1>8 DEF SoloTipo
<1> QED BY <1>1, <1>2, <1>7, <1>8, <1>9, <1>10, CasoIO

-----------------------------------------------------------------------------
(* Devices and what they send                                              *)

\* A step that leaves the service alone: what counts is the sockets and the queue.
LEMMA CasoDispositivo ==
  ASSUME TypeInv, NEW t \in Tipos, TipoIO', UNCHANGED <<proceso, mutexes, hayPedido, servicio>>,
         \A u \in Tipos \ {t} : aIO'[u] = aIO[u] /\ deIO'[u] = deIO[u] /\ pedidos'[u] = pedidos[u],
         EnDispositivo(t)' + Len(pedidos[t]) <= EnDispositivo(t) + Len(pedidos'[t])
  PROVE  TypeInv'
<1>1. lugar \in [Procesos -> Lugares] /\ TipoIO
  BY LugarTipado
<1>2. EnServicio(t)' = EnServicio(t)
  BY DEF EnServicio
<1>3. SoloTipo(t)
  BY DEF SoloTipo
<1>4. NoDebeMas(t)
  <2>1. /\ hayPedido[t] \in Nat /\ EnServicio(t) \in Nat /\ EnDispositivo(t) \in Nat
        /\ EnDispositivo(t)' \in Nat /\ Len(pedidos[t]) \in Nat /\ Len(pedidos'[t]) \in Nat
    BY <1>1, PesoNatural, PesoNaturalLuego
  <2>2. ASSUME NEW k \in Nat, NEW e \in Nat, NEW d \in Nat, NEW n \in Nat,
               NEW dd \in Nat, NEW nn \in Nat, dd + n <= d + nn
        PROVE  k + e + dd + n <= k + e + d + nn
    BY <2>2
  <2>3. hayPedido[t] + EnServicio(t) + EnDispositivo(t)' + Len(pedidos[t])
          <= hayPedido[t] + EnServicio(t) + EnDispositivo(t) + Len(pedidos'[t])
    BY <2>1, <2>2
  <2> QED BY <1>2, <2>3, Zenon DEF NoDebeMas, Peso
<1>5. servicio'[t].fase \notin {"esperar", "revisar"} => servicio'[t].pid \in Procesos
  BY DEF TypeInv, EnCurso
<1> QED BY <1>1, <1>3, <1>4, <1>5, CasoIO DEF proceso

LEMMA PasoOperarIO ==
  ASSUME TypeInv, NEW t \in Tipos, OperarIO(t), UNCHANGED mutexes
  PROVE  TypeInv'
<1>1. TipoIO /\ aIO[t] \in Seq(Procesos) /\ deIO[t] \in Seq(Procesos) /\ aIO[t] # <<>>
  BY LugarTipado, TiposDe DEF OperarIO
<1>2. /\ Tail(aIO[t]) \in Seq(Procesos) /\ Append(deIO[t], Head(aIO[t])) \in Seq(Procesos)
      /\ Len(Tail(aIO[t])) = Len(aIO[t]) - 1
      /\ Len(Append(deIO[t], Head(aIO[t]))) = Len(deIO[t]) + 1
      /\ Len(aIO[t]) \in Nat /\ Len(deIO[t]) \in Nat
  BY <1>1
<1>3. /\ TipoEquipo' /\ aIO'[t] = Tail(aIO[t]) /\ deIO'[t] = Append(deIO[t], Head(aIO[t]))
      /\ \A u \in Tipos \ {t} : aIO'[u] = aIO[u] /\ deIO'[u] = deIO[u]
  BY <1>1, <1>2 DEF OperarIO, TipoIO, TipoEquipo
<1>4. TipoIO'
  BY <1>1, <1>3, TipoIOIgual DEF OperarIO, TipoIO
<1>5. EnDispositivo(t)' = EnDispositivo(t)
  <2>1. PICK a \in Nat, d \in Nat : a = Len(aIO[t]) /\ d = Len(deIO[t])
    BY <1>2
  <2>2. Len(aIO'[t]) = a - 1 /\ Len(deIO'[t]) = d + 1
    BY <1>2, <1>3, <2>1
  <2>3. (a - 1) + (d + 1) = a + d
    OBVIOUS
  <2> QED BY <2>1, <2>2, <2>3, Zenon DEF EnDispositivo
<1>6. UNCHANGED <<proceso, hayPedido, servicio, pedidos>>
  BY DEF OperarIO, fichas, interfaz
<1>7. EnDispositivo(t)' + Len(pedidos[t]) <= EnDispositivo(t) + Len(pedidos'[t])
  BY <1>5, <1>6, TiposDe
<1> QED BY <1>3, <1>4, <1>6, <1>7, CasoDispositivo

LEMMA PasoRecibirFinIO ==
  ASSUME TypeInv, NEW t \in Tipos, RecibirFinIO(t), UNCHANGED mutexes
  PROVE  TypeInv'
<1>1. /\ TipoIO /\ aIO[t] \in Seq(Procesos) /\ deIO[t] \in Seq(Procesos) /\ deIO[t] # <<>>
      /\ pedidos[t] \in Seq(Pedido) /\ t # "STDIN"
  BY LugarTipado, TiposDe DEF RecibirFinIO
<1>2. /\ Tail(deIO[t]) \in Seq(Procesos) /\ Head(deIO[t]) \in Procesos
      /\ Len(Tail(deIO[t])) = Len(deIO[t]) - 1
      /\ Len(aIO[t]) \in Nat /\ Len(deIO[t]) \in Nat /\ Len(deIO[t]) > 0
  BY <1>1
<1>3. PICK a \in Nat, d \in Nat : a = Len(aIO[t]) /\ d = Len(deIO[t]) /\ d > 0
  BY <1>2
<1>4. EnDispositivo(t) = a + d
  BY <1>1, <1>3, Zenon DEF EnDispositivo
<1>5. Len(pedidos[t]) \in Nat /\ Len(pedidos[t]) > 0
  <2>1. PICK n \in Nat, k \in Nat, e \in Nat :
          n = Len(pedidos[t]) /\ k = hayPedido[t] /\ e = EnServicio(t)
    BY <1>1, TiposDe
  <2>2. k + e + (a + d) <= n
    <3>1. hayPedido[t] + EnServicio(t) + EnDispositivo(t) <= Len(pedidos[t])
      BY TiposDe
    <3> QED BY <1>4, <2>1, <3>1, Zenon
  <2>3. n > 0
    <3>1. ASSUME NEW x \in Nat, NEW y \in Nat, NEW u \in Nat, NEW v \in Nat, NEW w \in Nat,
                 u > 0, x + y + (w + u) <= v
          PROVE  v > 0
      BY <3>1
    <3> QED BY <1>3, <2>2, <3>1, Zenon
  <2> QED BY <2>1, <2>3, Zenon
<1>6. pedidos[t] # <<>> /\ Tail(pedidos[t]) \in Seq(Pedido)
      /\ Len(Tail(pedidos[t])) = Len(pedidos[t]) - 1
  BY <1>1, <1>5
<1>7. /\ TipoInterfaz' /\ pedidos'[t] = Tail(pedidos[t])
      /\ \A u \in Tipos \ {t} : pedidos'[u] = pedidos[u]
  BY <1>1, <1>6 DEF RecibirFinIO, TipoIO, TipoInterfaz
<1>8. /\ TipoEquipo' /\ deIO'[t] = Tail(deIO[t]) /\ UNCHANGED aIO
      /\ \A u \in Tipos \ {t} : deIO'[u] = deIO[u]
  BY <1>1, <1>2 DEF RecibirFinIO, TipoIO, TipoEquipo
<1>9. oyente' \in [Tipos -> Oyentes]
  <2>1. Head(deIO[t]) \in Pid
    BY <1>2 DEF Pid
  <2> QED BY <1>1, <2>1, OyenteTipado DEF RecibirFinIO
<1>10. TipoIO'
  BY <1>1, <1>7, <1>8, <1>9, TipoIOIgual DEF RecibirFinIO, TipoIO
<1>11. EnDispositivo(t)' = a + (d - 1)
  <2>1. Len(deIO'[t]) = d - 1 /\ Len(aIO'[t]) = a
    BY <1>2, <1>3, <1>8
  <2> QED BY <1>1, <2>1, Zenon DEF EnDispositivo
<1>12. UNCHANGED <<proceso, hayPedido, servicio>>
  BY DEF RecibirFinIO, fichas
<1>13. EnDispositivo(t)' + Len(pedidos[t]) <= EnDispositivo(t) + Len(pedidos'[t])
  BY <1>4, <1>5, <1>6, <1>7, <1>11
<1> QED BY <1>7, <1>8, <1>10, <1>12, <1>13, CasoDispositivo

\* The bytes are stored in the request that is at the head.
LEMMA MarcarPrimero ==
  ASSUME NEW s \in Seq(Pedido), s # <<>>
  PROVE  /\ [s EXCEPT ![1].leido = TRUE] \in Seq(Pedido)
         /\ Len([s EXCEPT ![1].leido = TRUE]) = Len(s)
<1>1. Len(s) \in Nat /\ s \in [1 .. Len(s) -> Pedido] /\ 1 \in 1 .. Len(s)
  OBVIOUS
<1>2. [s[1] EXCEPT !.leido = TRUE] \in Pedido
  BY <1>1 DEF Pedido
<1>3. [s EXCEPT ![1].leido = TRUE] \in [1 .. Len(s) -> Pedido]
  BY <1>1, <1>2
<1> QED BY <1>1, <1>3

LEMMA PasoRecibirLectura ==
  ASSUME TypeInv, NEW t \in Tipos, RecibirLectura(t), UNCHANGED mutexes
  PROVE  TypeInv'
<1>1. /\ TipoIO /\ deIO[t] \in Seq(Procesos) /\ deIO[t] # <<>>
      /\ pedidos[t] \in Seq(Pedido) /\ t = "STDIN"
  BY LugarTipado, TiposDe DEF RecibirLectura
<1>2. Tail(deIO[t]) \in Seq(Procesos)
  BY <1>1
<1>3. /\ TipoEquipo' /\ UNCHANGED aIO /\ \A u \in Tipos \ {t} : deIO'[u] = deIO[u]
  BY <1>1, <1>2 DEF RecibirLectura, TipoIO, TipoEquipo
<1>4. \/ UNCHANGED pedidos
      \/ pedidos[t] # <<>> /\ pedidos' = [pedidos EXCEPT ![t] = [@ EXCEPT ![1].leido = TRUE]]
  BY DEF RecibirLectura
<1>5. /\ TipoInterfaz' /\ Len(pedidos'[t]) = Len(pedidos[t])
      /\ \A u \in Tipos \ {t} : pedidos'[u] = pedidos[u]
  <2>1. CASE UNCHANGED pedidos
    BY <1>1, <2>1 DEF RecibirLectura, TipoIO, TipoInterfaz
  <2>2. CASE /\ pedidos[t] # <<>>
             /\ pedidos' = [pedidos EXCEPT ![t] = [@ EXCEPT ![1].leido = TRUE]]
    <3> DEFINE marcado == [pedidos[t] EXCEPT ![1].leido = TRUE]
    <3>1. marcado \in Seq(Pedido) /\ Len(marcado) = Len(pedidos[t])
      BY <1>1, <2>2, MarcarPrimero
    <3>2. pedidos' = [pedidos EXCEPT ![t] = marcado]
      BY <2>2
    <3> HIDE DEF marcado
    <3> QED BY <1>1, <3>1, <3>2 DEF RecibirLectura, TipoIO, TipoInterfaz
  <2> QED BY <1>4, <2>1, <2>2
<1>6. TipoEsperas' /\ muerto' \in Muertes
  <2>1. /\ leidoDeIO' = leidoDeIO \/ leidoDeIO' = leidoDeIO + 1
        /\ UNCHANGED <<leidoDeKM, escritoEnKM, aKM>>
    BY Zenon DEF RecibirLectura
  <2>2. muerto' = muerto \/ muerto' = "sin pedido"
    BY Zenon DEF RecibirLectura
  <2>3. TipoEsperas'
    BY <1>1, <2>1 DEF TipoIO, TipoEsperas
  <2> QED BY <1>1, <2>2, <2>3 DEF TipoIO, Muertes
<1>7. oyente' \in [Tipos -> Oyentes]
  BY <1>1, OyenteTipado, TipoIOIgual DEF RecibirLectura
<1>8. TipoIO'
  BY <1>1, <1>3, <1>5, <1>6, <1>7, TipoIOIgual DEF RecibirLectura, TipoIO
<1>9. EnDispositivo(t) = 0 /\ EnDispositivo(t)' = 0
  BY <1>1 DEF EnDispositivo
<1>10. UNCHANGED <<proceso, hayPedido, servicio>>
  BY DEF RecibirLectura, fichas
<1>11. EnDispositivo(t)' + Len(pedidos[t]) <= EnDispositivo(t) + Len(pedidos'[t])
  <2>1. Len(pedidos[t]) \in Nat BY <1>1
  <2> QED BY <1>5, <1>9, <2>1
<1> QED BY <1>3, <1>5, <1>8, <1>10, <1>11, CasoDispositivo

LEMMA PasoCaerIO ==
  ASSUME TypeInv, NEW t \in Tipos, CaerIO(t), UNCHANGED mutexes
  PROVE  TypeInv'
<1>1. /\ TipoIO /\ aIO[t] \in Seq(Procesos) /\ deIO[t] \in Seq(Procesos)
      /\ pedidos[t] \in Seq(Pedido)
  BY LugarTipado, TiposDe
<1>2. /\ TipoEquipo' /\ UNCHANGED deIO /\ aIO'[t] = <<>>
      /\ \A u \in Tipos \ {t} : aIO'[u] = aIO[u]
  BY <1>1 DEF CaerIO, TipoIO, TipoEquipo
<1>3. TipoIO'
  BY <1>1, <1>2, TipoIOIgual DEF CaerIO, TipoIO
<1>4. PICK a \in Nat, d \in Nat, n \in Nat :
        a = Len(aIO[t]) /\ d = Len(deIO[t]) /\ n = Len(pedidos[t])
  BY <1>1
<1>5. UNCHANGED <<proceso, hayPedido, servicio, pedidos>>
  BY DEF CaerIO, fichas, interfaz
<1>6. EnDispositivo(t)' + n <= EnDispositivo(t) + n
  <2>1. CASE t = "STDIN"
    <3>1. EnDispositivo(t) = 0 /\ EnDispositivo(t)' = 0
      BY <2>1 DEF EnDispositivo
    <3> QED BY <3>1
  <2>2. CASE t # "STDIN"
    <3>1. Len(aIO'[t]) = 0
      BY <1>2
    <3>2. EnDispositivo(t) = a + d /\ EnDispositivo(t)' = 0 + d
      BY <1>2, <1>4, <2>2, <3>1, Zenon DEF EnDispositivo
    <3> QED BY <3>2
  <2> QED BY <2>1, <2>2
<1> QED BY <1>2, <1>3, <1>4, <1>5, <1>6, CasoDispositivo

\* The answer of kernel_memory: only STDOUT has its request marked.
LEMMA PasoResponderKM ==
  ASSUME TypeInv, ResponderKM, UNCHANGED mutexes
  PROVE  TypeInv'
<1>1. TipoIO /\ lugar \in [Procesos -> Lugares]
  BY LugarTipado
<1>2. UNCHANGED <<proceso, hayPedido, servicio, aIO, deIO, equipo, fichas, oyente, muerto>>
      /\ UNCHANGED <<ocupada, atiendeA, conectada>>
  BY DEF ResponderKM, fichas, equipo
<1>3. TipoEsperas'
  BY <1>1 DEF ResponderKM, TipoIO, TipoEsperas
<1>4. \/ UNCHANGED pedidos
      \/ /\ pedidos["STDOUT"] # <<>>
         /\ pedidos' = [pedidos EXCEPT !["STDOUT"] = [@ EXCEPT ![1].leido = TRUE]]
  BY DEF ResponderKM
<1>5. /\ pedidos' \in [Tipos -> Seq(Pedido)]
      /\ \A u \in Tipos : Len(pedidos'[u]) = Len(pedidos[u])
  <2>1. CASE UNCHANGED pedidos
    BY <1>1, <2>1 DEF TipoIO, TipoInterfaz
  <2>2. CASE /\ pedidos["STDOUT"] # <<>>
             /\ pedidos' = [pedidos EXCEPT !["STDOUT"] = [@ EXCEPT ![1].leido = TRUE]]
    <3>1. pedidos \in [Tipos -> Seq(Pedido)]
      BY <1>1 DEF TipoIO, TipoInterfaz
    <3>2. CASE "STDOUT" \notin Tipos
      <4>1. pedidos' = pedidos
        BY <2>2, <3>1, <3>2
      <4> QED BY <3>1, <4>1
    <3>3. CASE "STDOUT" \in Tipos
      <4> DEFINE marcado == [pedidos["STDOUT"] EXCEPT ![1].leido = TRUE]
      <4>1. marcado \in Seq(Pedido) /\ Len(marcado) = Len(pedidos["STDOUT"])
        BY <2>2, <3>1, <3>3, MarcarPrimero
      <4>2. pedidos' = [pedidos EXCEPT !["STDOUT"] = marcado]
        BY <2>2
      <4> HIDE DEF marcado
      <4> QED BY <3>1, <3>3, <4>1, <4>2
    <3> QED BY <3>2, <3>3
  <2> QED BY <1>4, <2>1, <2>2
<1>6. TipoInterfaz'
  BY <1>1, <1>2, <1>5 DEF TipoIO, TipoInterfaz
<1>7. TipoIO'
  BY <1>1, <1>2, <1>3, <1>6, TipoIOIgual DEF TipoIO
<1>8. TypeOK'
  BY <1>2, <1>7 DEF TypeInv, TypeOK, TipoProcesos, TipoMutexes, mutexes, proceso
<1>9. EnCurso' /\ \A u \in Tipos : /\ Avisan(u)' = Avisan(u) /\ EnServicio(u)' = EnServicio(u)
                                   /\ EnDispositivo(u)' = EnDispositivo(u)
  BY <1>2 DEF TypeInv, EnCurso, Avisan, EnServicio, EnDispositivo, proceso
<1>10. FichasInv'
  BY <1>2, <1>5, <1>9 DEF TypeInv, FichasInv
<1> QED BY <1>8, <1>9, <1>10 DEF TypeInv

-----------------------------------------------------------------------------
(* The call for I/O: its request is queued before its token is posted      *)

\* A thread that is about to post, before and after.
LEMMA AvisanMasUno ==
  ASSUME TypeInv, NEW t \in Tipos
  PROVE  /\ IsFiniteSet(Avisan(t)) /\ Cardinality(Avisan(t)) \in Nat
         /\ \A p : Cardinality(Avisan(t) \cup {p}) <= Cardinality(Avisan(t)) + 1
         /\ \A p \in Avisan(t) : Cardinality(Avisan(t) \ {p}) = Cardinality(Avisan(t)) - 1
<1>1. Avisan(t) \in SUBSET Procesos
  BY DEF Avisan
<1>2. IsFiniteSet(Avisan(t)) /\ Cardinality(Avisan(t)) \in Nat
  BY <1>1, BloqueosAssumption, FS_Subset, FS_CardinalityType
<1>3. \A p : Cardinality(Avisan(t) \cup {p}) <= Cardinality(Avisan(t)) + 1
  <2> TAKE p
  <2>1. \/ Cardinality(Avisan(t) \cup {p}) = Cardinality(Avisan(t))
        \/ Cardinality(Avisan(t) \cup {p}) = Cardinality(Avisan(t)) + 1
    BY <1>2, FS_AddElement
  <2> QED BY <1>2, <2>1
<1>4. \A p \in Avisan(t) : Cardinality(Avisan(t) \ {p}) = Cardinality(Avisan(t)) - 1
  BY <1>2, FS_RemoveElement
<1> QED BY <1>2, <1>3, <1>4

\* The requests and the tokens of a type move together with the threads that post.
LEMMA CasoAviso ==
  ASSUME TypeInv, NEW p \in Procesos, hilo' \in [Procesos -> Hilos],
         \A q \in Procesos \ {p} : hilo'[q] = hilo[q],
         hilo'[p].fase \notin {"lock", "unlock", "despertar", "aReady"},
         UNCHANGED <<lugar, llamadas, mutexes, servicio, aIO, deIO>>, TipoIO',
         \A t \in Tipos :
           hayPedido'[t] + Cardinality(Avisan(t)') + Len(pedidos[t])
             <= hayPedido[t] + Cardinality(Avisan(t)) + Len(pedidos'[t])
  PROVE  TypeInv'
<1>1. TypeOK'
  BY DEF TypeInv, TypeOK, TipoProcesos, TipoMutexes, mutexes, Hilos
<1>2. EnCurso'
  BY DEF TypeInv, EnCurso
<1>3. FichasInv'
  <2> SUFFICES ASSUME NEW t \in Tipos
               PROVE  hayPedido'[t] + Cardinality(Avisan(t)') + EnServicio(t)' + EnDispositivo(t)'
                        <= Len(pedidos'[t])
    BY DEF FichasInv
  <2>1. EnServicio(t)' = EnServicio(t) /\ EnDispositivo(t)' = EnDispositivo(t)
    BY DEF EnServicio, EnDispositivo
  <2>2. TipoIO
    BY LugarTipado
  <2>3. /\ hayPedido[t] \in Nat /\ Cardinality(Avisan(t)) \in Nat /\ EnServicio(t) \in Nat
        /\ EnDispositivo(t) \in Nat /\ Len(pedidos[t]) \in Nat
    BY <2>2, PesoNatural
  <2>4. /\ hayPedido'[t] \in Nat /\ Cardinality(Avisan(t)') \in Nat /\ Len(pedidos'[t]) \in Nat
    BY PesoNaturalLuego
  <2>5. hayPedido[t] + Cardinality(Avisan(t)) + EnServicio(t) + EnDispositivo(t)
          <= Len(pedidos[t])
    BY DEF TypeInv, FichasInv
  <2>6. hayPedido'[t] + Cardinality(Avisan(t)') + Len(pedidos[t])
          <= hayPedido[t] + Cardinality(Avisan(t)) + Len(pedidos'[t])
    OBVIOUS
  <2>7. ASSUME NEW h \in Nat, NEW a \in Nat, NEW s \in Nat, NEW d \in Nat, NEW n \in Nat,
               NEW hh \in Nat, NEW aa \in Nat, NEW nn \in Nat,
               h + a + s + d <= n, hh + aa + n <= h + a + nn
        PROVE  hh + aa + s + d <= nn
    BY <2>7
  <2>8. hayPedido'[t] + Cardinality(Avisan(t)') + EnServicio(t) + EnDispositivo(t)
          <= Len(pedidos'[t])
    BY <2>3, <2>4, <2>5, <2>6, <2>7
  <2> QED BY <2>1, <2>8, Zenon
<1> QED BY <1>1, <1>2, <1>3 DEF TypeInv

LEMMA PasoEncolarPedido ==
  ASSUME TypeInv, NEW p \in Procesos, EncolarPedido(p), UNCHANGED mutexes
  PROVE  TypeInv'
<1> DEFINE o == hilo[p].objeto
           pedido == [pid |-> p, leido |-> FALSE]
<1>1. TipoIO /\ hilo \in [Procesos -> Hilos]
  BY LugarTipado, TiposDelHilo DEF TypeInv
<1>2. /\ hilo[p].fase = "encolarPedido" /\ hilo' \in [Procesos -> Hilos]
      /\ hilo'[p].fase = "avisar" /\ hilo'[p].objeto = o
      /\ \A q \in Procesos \ {p} : hilo'[q] = hilo[q]
  BY <1>1, HiloTipado DEF EncolarPedido, EnFase, Fases
<1>3. UNCHANGED <<lugar, llamadas, servicio, aIO, deIO, hayPedido>>
  BY DEF EncolarPedido, equipo, fichas
<1>4. pedido \in Pedido /\ pedidos \in [Tipos -> Seq(Pedido)]
      /\ pedidos' = [pedidos EXCEPT ![o] = Append(@, pedido)]
  BY <1>1 DEF EncolarPedido, Pedido, TipoIO, TipoInterfaz
<1> HIDE DEF pedido
<1>5. ASSUME NEW t \in Tipos
      PROVE  /\ Append(pedidos[t], pedido) \in Seq(Pedido)
             /\ Len(Append(pedidos[t], pedido)) = Len(pedidos[t]) + 1
             /\ Len(pedidos[t]) \in Nat
  <2>1. pedidos[t] \in Seq(Pedido)
    BY <1>4
  <2> QED BY <1>4, <2>1
<1>6. pedidos' \in [Tipos -> Seq(Pedido)]
  BY <1>4, <1>5
<1>7. TipoInterfaz'
  BY <1>1, <1>6 DEF EncolarPedido, TipoIO, TipoInterfaz
<1>8. TipoIO'
  BY <1>1, <1>7, TipoIOIgual DEF EncolarPedido, TipoIO
<1>9. ASSUME NEW t \in Tipos
      PROVE  hayPedido'[t] + Cardinality(Avisan(t)') + Len(pedidos[t])
               <= hayPedido[t] + Cardinality(Avisan(t)) + Len(pedidos'[t])
  <2>1. /\ hayPedido[t] \in Nat /\ Cardinality(Avisan(t)) \in Nat /\ Len(pedidos[t]) \in Nat
        /\ Cardinality(Avisan(t)') \in Nat
    BY <1>1, <1>8, PesoNatural, PesoNaturalLuego
  <2>2. CASE t = o
    <3>1. Avisan(t)' = Avisan(t) \cup {p}
      BY <1>2, <2>2 DEF Avisan
    <3>2. Cardinality(Avisan(t)') <= Cardinality(Avisan(t)) + 1
      BY <3>1, AvisanMasUno
    <3>3. Len(pedidos'[t]) = Len(pedidos[t]) + 1
      BY <1>4, <1>5, <2>2
    <3> QED BY <1>3, <2>1, <3>2, <3>3
  <2>3. CASE t # o
    <3>1. Avisan(t)' = Avisan(t)
      BY <1>2, <2>3 DEF Avisan
    <3>2. pedidos'[t] = pedidos[t]
      BY <1>4, <2>3
    <3> QED BY <1>3, <2>1, <3>1, <3>2
  <2> QED BY <2>2, <2>3
<1> QED BY <1>2, <1>3, <1>8, <1>9, CasoAviso

LEMMA PasoAvisarPedido ==
  ASSUME TypeInv, NEW p \in Procesos, AvisarPedido(p), UNCHANGED mutexes
  PROVE  TypeInv'
<1> DEFINE o == hilo[p].objeto
<1>1. TipoIO /\ hilo \in [Procesos -> Hilos]
  BY LugarTipado, TiposDelHilo DEF TypeInv
<1>2. /\ hilo[p].fase = "avisar" /\ hilo' \in [Procesos -> Hilos]
      /\ hilo'[p].fase = "programa" /\ \A q \in Procesos \ {p} : hilo'[q] = hilo[q]
  BY <1>1, HiloTipado DEF AvisarPedido, EnFase, HiloOcioso
<1>3. UNCHANGED <<lugar, llamadas, servicio, aIO, deIO, pedidos>>
  BY DEF AvisarPedido, equipo, interfaz
<1>4. /\ hayPedido \in [Tipos -> Nat] /\ hayPedido' = [hayPedido EXCEPT ![o] = @ + 1]
  BY <1>1 DEF AvisarPedido, TipoIO, TipoFichas
<1>5. TipoFichas'
  <2>1. \A t \in Tipos : hayPedido[t] + 1 \in Nat
    BY <1>4
  <2> HIDE DEF o
  <2>2. hayPedido' \in [Tipos -> Nat]
    BY <1>4, <2>1
  <2>3. UNCHANGED hayIO
    BY DEF AvisarPedido
  <2> QED BY <1>1, <2>2, <2>3 DEF TipoIO, TipoFichas
<1>6. TipoIO'
  BY <1>1, <1>5, TipoIOIgual DEF AvisarPedido, TipoIO
<1>7. ASSUME NEW t \in Tipos
      PROVE  hayPedido'[t] + Cardinality(Avisan(t)') + Len(pedidos[t])
               <= hayPedido[t] + Cardinality(Avisan(t)) + Len(pedidos'[t])
  <2>1. /\ hayPedido[t] \in Nat /\ Cardinality(Avisan(t)) \in Nat /\ Len(pedidos[t]) \in Nat
    BY <1>1, PesoNatural
  <2>2. CASE t = o
    <3>1. p \in Avisan(t) /\ Avisan(t)' = Avisan(t) \ {p}
      BY <1>2, <2>2 DEF Avisan
    <3>2. Cardinality(Avisan(t)') = Cardinality(Avisan(t)) - 1
      BY <3>1, AvisanMasUno
    <3>3. hayPedido'[t] = hayPedido[t] + 1
      BY <1>4, <2>2
    <3> QED BY <1>3, <2>1, <3>2, <3>3
  <2>3. CASE t # o
    <3>1. Avisan(t)' = Avisan(t)
      BY <1>2, <2>3 DEF Avisan
    <3>2. hayPedido'[t] = hayPedido[t]
      BY <1>4, <2>3
    <3> QED BY <1>3, <2>1, <3>1, <3>2
  <2> QED BY <2>2, <2>3
<1> QED BY <1>2, <1>3, <1>6, <1>7, CasoAviso

-----------------------------------------------------------------------------
(* The invariant                                                           *)

LEMMA InitTypeInv == Init => TypeInv
<1> SUFFICES ASSUME Init PROVE TypeInv
  OBVIOUS
<1>1. TipoProcesos(Mutexes \cup Tipos) /\ TipoMutexes
  <2>1. HiloOcioso \in Hilos
    BY DEF HiloOcioso, Hilos, Fases, Pid
  <2>2. TipoProcesos(Mutexes \cup Tipos)
    BY <2>1 DEF Init, InitProcesos, TipoProcesos, Hilos
  <2>3. TipoMutexes
    BY MutexesAssumption DEF Init, InitMutexes, TipoMutexes, Pid
  <2> QED BY <2>2, <2>3
<1>2. TipoIO
  <2>1. TipoInterfaz /\ TipoEquipo
    BY DEF Init, InitIO, TipoInterfaz, TipoEquipo, Pid
  <2>2. TipoFichas /\ TipoEsperas
    BY DEF Init, InitIO, TipoFichas, TipoEsperas
  <2>3. servicio \in [Tipos -> Servicios] /\ oyente \in [Tipos -> Oyentes] /\ muerto \in Muertes
    BY DEF Init, InitIO, Servicios, Oyentes, Muertes, Ocioso, Pid
  <2> QED BY <2>1, <2>2, <2>3 DEF TipoIO
<1>3. EnCurso
  BY DEF Init, InitProcesos, InitIO, EnCurso, HiloOcioso, Ocioso
<1>4. FichasInv
  <2> SUFFICES ASSUME NEW t \in Tipos
               PROVE  hayPedido[t] + Cardinality(Avisan(t)) + EnServicio(t) + EnDispositivo(t)
                        <= Len(pedidos[t])
    BY DEF FichasInv
  <2>1. Avisan(t) = {}
    BY DEF Init, InitProcesos, HiloOcioso, Avisan
  <2>2. Cardinality(Avisan(t)) = 0
    BY <2>1, FS_EmptySet
  <2>3. EnServicio(t) = 0
    BY DEF Init, InitIO, EnServicio, Ocioso
  <2>4. EnDispositivo(t) = 0
    <3>1. aIO[t] = <<>> /\ deIO[t] = <<>>
      BY DEF Init, InitIO
    <3>2. Len(aIO[t]) + Len(deIO[t]) = 0
      BY <3>1
    <3> QED BY <3>2, Zenon DEF EnDispositivo
  <2>5. hayPedido[t] = 0 /\ Len(pedidos[t]) = 0
    BY DEF Init, InitIO
  <2> QED BY <2>2, <2>3, <2>4, <2>5
<1> QED BY <1>1, <1>2, <1>3, <1>4 DEF TypeInv, TypeOK

LEMMA PasoTypeInv == TypeInv /\ [Next]_vars => TypeInv'
<1> SUFFICES ASSUME TypeInv, [Next]_vars PROVE TypeInv'
  OBVIOUS
<1>1. CASE PasoProcesos
  BY <1>1, PasoDespachar DEF PasoProcesos
<1>2. CASE PasoMutexes /\ UNCHANGED io
  <2>1. PICK p \in Procesos :
          \/ \E m \in Mutexes : CrearMutex(p, m) \/ PedirMutex(p, m)
          \/ TomarMutex(p) \/ BuscarDuenio(p) \/ BuscarDuenioEnReady(p) \/ Comparar(p)
          \/ Prestar(p) \/ BloquearPorMutex(p) \/ LiberarMutex(p) \/ SacarAlQueEspera(p)
          \/ EncolarAlQueEspera(p) \/ Recalcular(p) \/ Restituir(p)
    BY <1>2 DEF PasoMutexes
  <2>2. CASE \E m \in Mutexes : CrearMutex(p, m)
    BY <1>2, <2>2, PasoCrearMutex
  <2>3. CASE \E m \in Mutexes : PedirMutex(p, m)
    <3>1. PICK m \in Mutexes, f \in {"lock", "unlock"} : Pedir(p, f, m) /\ UNCHANGED mutexes
      BY <2>3 DEF PedirMutex
    <3>2. UNCHANGED <<mutexes, io>>
      BY <1>2, <3>1
    <3> QED BY <3>1, <3>2, PasoPedir
  <2>4. CASE TomarMutex(p)
    BY <1>2, <2>4, PasoTomarMutex
  <2>5. CASE BuscarDuenio(p) \/ BuscarDuenioEnReady(p) \/ Comparar(p) \/ Prestar(p)
    BY <1>2, <2>5, PasoPrestamo
  <2>6. CASE BloquearPorMutex(p)
    BY <1>2, <2>6, PasoBloquear DEF BloquearPorMutex
  <2>7. CASE LiberarMutex(p)
    BY <1>2, <2>7, PasoLiberarMutex
  <2>8. CASE SacarAlQueEspera(p) \/ EncolarAlQueEspera(p)
    BY <1>2, <2>8, PasoDespertarDeMutex
  <2>9. CASE Recalcular(p) \/ Restituir(p)
    BY <1>2, <2>9, PasoRecalcular
  <2> QED BY <2>1, <2>2, <2>3, <2>4, <2>5, <2>6, <2>7, <2>8, <2>9
<1>3. CASE PasoIO /\ UNCHANGED mutexes
  <2>1. CASE \E p \in Procesos :
               \/ \E t \in Tipos : PedirIO(p, t)
               \/ BloquearPorIO(p) \/ EncolarPedido(p) \/ AvisarPedido(p)
    <3>1. PICK p \in Procesos :
            \/ \E t \in Tipos : PedirIO(p, t)
            \/ BloquearPorIO(p) \/ EncolarPedido(p) \/ AvisarPedido(p)
      BY <2>1
    <3>2. CASE \E t \in Tipos : PedirIO(p, t)
      BY <1>3, <3>2, PasoPedir DEF PedirIO
    <3>3. CASE BloquearPorIO(p)
      BY <1>3, <3>3, PasoBloquear DEF BloquearPorIO
    <3>4. CASE EncolarPedido(p)
      BY <1>3, <3>4, PasoEncolarPedido
    <3>5. CASE AvisarPedido(p)
      BY <1>3, <3>5, PasoAvisarPedido
    <3> QED BY <3>1, <3>2, <3>3, <3>4, <3>5
  <2>2. ASSUME NEW t \in Tipos
        PROVE  /\ TomarFichasIO(t) => TypeInv'
               /\ Revisar(t) => TypeInv'
               /\ EsperarKM(t) \/ EsperarIO(t) => TypeInv'
               /\ EnviarAIO(t) => TypeInv'
               /\ RetirarSTDIN(t) => TypeInv'
               /\ DespertarTrasSTDIN(t) => TypeInv'
    BY <1>3, PasoTomarFichasIO, PasoRevisar, PasoEsperarKM, PasoEnviarAIO, PasoRetirarSTDIN,
       PasoDespertarTrasSTDIN
  <2>3. ASSUME NEW t \in Tipos
        PROVE  /\ ConectarIO(t) => TypeInv'
               /\ OperarIO(t) => TypeInv'
               /\ RecibirFinIO(t) => TypeInv'
               /\ RecibirLectura(t) => TypeInv'
               /\ DespertarTrasIO(t) => TypeInv'
               /\ LiberarIO(t) => TypeInv'
               /\ CaerIO(t) => TypeInv'
               /\ DetectarCaida(t) => TypeInv'
               /\ FinalizarPorIO(t) => TypeInv'
    BY <1>3, PasoConectar, PasoOperarIO, PasoRecibirFinIO, PasoRecibirLectura, PasoDespertarTrasIO,
       PasoLiberarIO, PasoCaerIO, PasoDetectarCaida, PasoFinalizarPorIO
  <2>4. CASE ResponderKM
    BY <1>3, <2>4, PasoResponderKM
  <2> QED BY <1>3, <2>1, <2>2, <2>3, <2>4 DEF PasoIO
<1>4. CASE UNCHANGED vars
  <2>1. UNCHANGED <<hilo, lugar, llamadas, mutexes, io>>
    BY <1>4 DEF vars, proceso
  <2>2. TipoIO' /\ lugar \in [Procesos -> Lugares]
    BY <2>1, LugarTipado, TipoIOIgual DEF io, TipoIO
  <2> QED BY <2>1, <2>2, CasoOyente DEF io, interfaz, equipo, fichas
<1> QED BY <1>1, <1>2, <1>3, <1>4 DEF Next

\* The types of every variable of the blocking calls hold in every reachable state, and with
\* them that a mutex call names a mutex and that the thread of a device that is past its look
\* at the queue has a process (atender_cpu, atencionIOsleep, ...stdIN, ...stdOUT).
THEOREM TipoCorrecto == Spec => []TypeOK
<1>1. TypeInv => TypeOK
  BY DEF TypeInv
<1> QED BY <1>1, InitTypeInv, PasoTypeInv, PTL DEF Spec

LEMMA FichasInvDaPedidos == TypeInv => FichasDePedidos
<1> SUFFICES ASSUME TypeInv, NEW t \in Tipos
             PROVE  hayPedido[t] + (IF servicio[t].fase \in {"revisar", "esperarKM"} THEN 1 ELSE 0)
                      <= Len(pedidos[t])
  BY DEF FichasDePedidos
<1> DEFINE s == IF servicio[t].fase \in {"revisar", "esperarKM"} THEN 1 ELSE 0
<1>1. PICK k \in Nat, e \in Nat, d \in Nat :
        k = hayPedido[t] /\ e = EnServicio(t) /\ d = EnDispositivo(t)
  BY TiposDe
<1>2. Len(pedidos[t]) \in Nat
  BY TiposDe
<1>3. k + e + d <= Len(pedidos[t])
  BY <1>1, TiposDe
<1>4. s \in Nat /\ s <= e
  BY <1>1 DEF EnServicio
<1>5. k + s <= Len(pedidos[t])
  BY <1>2, <1>3, <1>4
<1> QED BY <1>1, <1>5

\* Whatever the number of processes, calls, devices that fall and devices that connect, every
\* token of sem_haySolicitudIO, and the service that took one and has not sent it, has a
\* request of its own in the queue of its type: queue_peek and queue_pop never find it empty.
THEOREM FichasDeCadaPedido == Spec => []FichasDePedidos
<1> QED BY InitTypeInv, PasoTypeInv, FichasInvDaPedidos, PTL DEF Spec

-----------------------------------------------------------------------------
(* What a process waits for.  Each process is awaited by at most one queue *)
(* or thread, which fixes where its PCB and its own thread are; a service  *)
(* and the listener of its type hand one request to each other.  After a   *)
(* reconnection none of it holds: a request may be sent twice.             *)

\* o, of class c, is going to move p out of BLOCK, or is moving it (class "hilo": the
\* thread that attends o hands p a mutex).
Espera(p, c, o) ==
  \/ c = "mutex" /\ o \in Mutexes /\ Aguarda(p, o)
  \/ c = "pedido" /\ o \in Tipos /\ Pide(p, o)
  \/ c = "oyente" /\ o \in Tipos /\ oyente[o].fase \in {"buscar", "aReady"} /\ oyente[o].pid = p
  \/ c = "servicio" /\ o \in Tipos /\ servicio[o].fase \in {"buscar", "aReady"}
     /\ servicio[o].pid = p
  \/ c = "hilo" /\ o \in Procesos /\ hilo[o].fase \in {"despertar", "aReady"} /\ hilo[o].otro = p

Clases  == {"mutex", "pedido", "oyente", "servicio", "hilo"}
Objetos == Mutexes \cup Tipos \cup Procesos

UnaEspera ==
  \A p \in Procesos : \A c, d \in Clases : \A o, x \in Objetos :
    Espera(p, c, o) /\ Espera(p, d, x) => c = d /\ o = x

PedidosDistintos(t) ==
  \A i, j \in DOMAIN pedidos[t] : pedidos[t][i].pid = pedidos[t][j].pid => i = j
EsperaDistintos(m) == \A i, j \in DOMAIN espera[m] : espera[m][i] = espera[m][j] => i = j
SinRepetidos ==
  (\A t \in Tipos : PedidosDistintos(t)) /\ (\A m \in Mutexes : EsperaDistintos(m))

\* m is assigned to p, which was not told yet.
Heredado(p, m) == duenio[m] = p /\ m \notin tiene[p]

EnLlamada == {"lock", "unlock", "mudo", "buscar", "buscarReady", "comparar", "prestar", "bloquear",
              "despertar", "aReady", "recalcular", "restituir"}
EnEspera  == {"buscar", "buscarReady", "comparar", "prestar", "bloquear", "aBlock"}

\* A thread that attends a call has its process where the call left it.
LugarDeFase ==
  \A p \in Procesos :
    /\ hilo[p].fase \in EnLlamada => lugar[p] = "EXEC"
    /\ hilo[p].fase = "aBlock" => lugar[p] = "transito"
    /\ hilo[p].fase = "encolarPedido" => lugar[p] = "BLOCK"
    /\ hilo[p].fase \in {"encolarPedido", "avisar"} => hilo[p].objeto \in Tipos

\* Where a process is while each class awaits it.
EsperaMutex ==
  \A p \in Procesos, m \in Mutexes : Aguarda(p, m) =>
    \/ hilo[p].fase \in EnEspera /\ hilo[p].objeto = m
    \/ hilo[p].fase = "programa" /\ lugar[p] = "BLOCK"
EsperaPedido ==
  \A p \in Procesos, t \in Tipos : Pide(p, t) =>
    /\ hilo[p].fase \in {"programa", "avisar"}
    /\ \/ lugar[p] = "BLOCK"
       \/ lugar[p] = "EXIT" /\ oyente[t].fase = "sinDispositivo" /\ conexiones[t] # 0
EsperaOyente ==
  /\ \A t \in Tipos : oyente[t].fase \in {"buscar", "aReady"} => oyente[t].pid \in Procesos
  /\ \A p \in Procesos, t \in Tipos : oyente[t].pid = p =>
       /\ oyente[t].fase \in {"buscar", "aReady"} => hilo[p].fase \in {"programa", "avisar"}
       /\ oyente[t].fase = "buscar" => lugar[p] = "BLOCK"
       /\ oyente[t].fase = "aReady" => lugar[p] = "transito"
EsperaServicio ==
  \A p \in Procesos, t \in Tipos : servicio[t].pid = p =>
    /\ servicio[t].fase \in {"buscar", "aReady"} => hilo[p].fase \in {"programa", "avisar"}
    /\ servicio[t].fase = "buscar" => lugar[p] = "BLOCK"
    /\ servicio[t].fase = "aReady" => lugar[p] = "transito"
EsperaHilo ==
  /\ \A q \in Procesos : hilo[q].fase \in {"despertar", "aReady"} => hilo[q].otro \in Procesos
  /\ \A p, q \in Procesos : hilo[q].otro = p =>
       /\ hilo[q].fase \in {"despertar", "aReady"} =>
            hilo[p].fase = "programa" /\ Heredado(p, hilo[q].objeto)
       /\ hilo[q].fase = "despertar" => lugar[p] = "BLOCK"
       /\ hilo[q].fase = "aReady" => lugar[p] = "transito"

\* A process on its way to BLOCK, or there, is awaited or was handed its mutex.
Motivo(p) ==
  \/ \E m \in Mutexes : Aguarda(p, m) \/ Heredado(p, m)
  \/ \E t \in Tipos : \/ Pide(p, t)
                      \/ oyente[t].pid = p /\ oyente[t].fase = "buscar"
                      \/ servicio[t].pid = p /\ servicio[t].fase = "buscar"
ConMotivo ==
  \A p \in Procesos :
    /\ hilo[p].fase \in EnEspera /\ hilo[p].objeto \notin Tipos =>
         /\ hilo[p].objeto \in Mutexes
         /\ Aguarda(p, hilo[p].objeto) \/ Heredado(p, hilo[p].objeto)
    /\ lugar[p] = "BLOCK" /\ hilo[p].fase \in {"programa", "avisar"} => Motivo(p)

Tenencia == \A p \in Procesos : \A m \in tiene[p] : duenio[m] = p

Esperas ==
  /\ UnaEspera /\ SinRepetidos /\ LugarDeFase /\ EsperaMutex /\ EsperaPedido /\ EsperaOyente
  /\ EsperaServicio /\ EsperaHilo /\ ConMotivo /\ Tenencia

\* The tokens of sem_hayIO, and who took one and has not given it back: one for each
\* connection at most.
Atiende(t) == IF servicio[t].fase \in {"revisar", "esperarKM", "enviar"} THEN 1 ELSE 0
Escucha(t) == IF oyente[t].fase \in {"buscar", "aReady", "liberar"} THEN 1 ELSE 0
Carga(t) == hayIO[t] + Atiende(t) + Len(aIO[t]) + Len(deIO[t]) + Escucha(t)
CargaInv == \A t \in Tipos : Carga(t) <= conexiones[t]

Conexion(t) ==
  /\ conexiones[t] = 0 => /\ servicio[t].fase = "esperar" /\ atiendeA[t] = Ninguno
                          /\ oyente[t].fase = "sinDispositivo"
  /\ viva[t] => conectada[t]
  /\ conectada[t] <=> oyente[t].fase \notin {"sinDispositivo", "finalizar"}
  /\ ~viva[t] => aIO[t] = <<>>
  /\ ~conectada[t] => deIO[t] = <<>>

\* The request that the service or the device is at is the first of the queue.
Primero(p, t) == pedidos[t] # <<>> /\ Head(pedidos[t]).pid = p
EnManos(t) ==
  /\ servicio[t].fase \in {"esperarKM", "enviar", "esperarIO", "esperarEscritura"} =>
       Primero(servicio[t].pid, t)
  /\ servicio[t].fase \in {"esperarKM", "enviar"} /\ conectada[t] => atiendeA[t] = servicio[t].pid
  /\ aIO[t] # <<>> => Primero(Head(aIO[t]), t) /\ atiendeA[t] = Head(aIO[t])
  /\ deIO[t] # <<>> => Primero(Head(deIO[t]), t) /\ atiendeA[t] = Head(deIO[t])
  /\ oyente[t].fase = "recibir" /\ atiendeA[t] # Ninguno => Primero(atiendeA[t], t)
  /\ oyente[t].fase = "finalizar" => oyente[t].pid # Ninguno /\ Primero(oyente[t].pid, t)

\* STDIN: who types, then who stores it; and STDOUT: kernel_memory, then the device.
Leido(t) == pedidos[t] # <<>> /\ Head(pedidos[t]).leido
Lectura(t) ==
  /\ servicio[t].fase \in {"esperarIO", "esperarEscritura", "buscar", "aReady"} => t = "STDIN"
  /\ oyente[t].fase \in {"buscar", "aReady"} => t # "STDIN"
  /\ t = "STDIN" =>
       /\ aIO[t] # <<>> \/ deIO[t] # <<>> => servicio[t].fase = "esperarIO" /\ leidoDeIO = 0
       /\ \/ oyente[t].fase = "recibir" /\ atiendeA[t] # Ninguno
          \/ oyente[t].fase = "finalizar"
          => servicio[t].fase \in {"enviar", "esperarIO"} /\ leidoDeIO = 0
       /\ servicio[t].fase = "esperarEscritura" => Leido(t)
       /\ servicio[t].fase = "enviar" => leidoDeIO = 0
       /\ leidoDeIO = 1 => servicio[t].fase = "esperarIO" /\ Leido(t)
Escritura(t) ==
  /\ servicio[t].fase = "esperarKM" => t = "STDOUT"
  /\ t = "STDOUT" =>
       /\ servicio[t].fase = "enviar" => Leido(t)
       /\ leidoDeKM = 1 => servicio[t].fase = "esperarKM" /\ Leido(t)
       /\ \A p \in Procesos : <<"LECTURA", p>> \in aKM =>
            leidoDeKM = 0 /\ servicio[t].fase = "esperarKM" /\ servicio[t].pid = p

Aparato(t) == Conexion(t) /\ EnManos(t) /\ Lectura(t) /\ Escritura(t)
Respuestas ==
  /\ leidoDeIO \in {0, 1} /\ leidoDeKM \in {0, 1}
  /\ "STDIN" \notin Tipos => leidoDeIO = 0
  /\ "STDOUT" \notin Tipos => leidoDeKM = 0 /\ \A p \in Procesos : <<"LECTURA", p>> \notin aKM
  /\ muerto \in {"no", "envio"}
Aparatos == (\A t \in Tipos : Aparato(t)) /\ Respuestas

\* Nobody ends the process whose bytes STDIN has read and not stored yet.
SigueVivo ==
  \A t \in Tipos :
    servicio[t].fase = "esperarEscritura" \/ (servicio[t].fase = "esperarIO" /\ leidoDeIO = 1)
      => lugar[servicio[t].pid] # "EXIT"

EsperasInv == CargaInv /\ (SinReconexiones => Esperas /\ Aparatos /\ SigueVivo)

-----------------------------------------------------------------------------
(* The queues, as sets of who waits in them.                               *)

LEMMA TiposDeEsperas ==
  ASSUME TypeInv
  PROVE  /\ hilo \in [Procesos -> Hilos]
         /\ lugar \in [Procesos -> {"READY", "EXEC", "BLOCK", "EXIT", "transito"}]
         /\ duenio \in [Mutexes -> Pid] /\ espera \in [Mutexes -> Seq(Procesos)]
         /\ tiene \in [Procesos -> SUBSET Mutexes]
         /\ pedidos \in [Tipos -> Seq(Pedido)]
         /\ aIO \in [Tipos -> Seq(Procesos)] /\ deIO \in [Tipos -> Seq(Procesos)]
         /\ servicio \in [Tipos -> Servicios] /\ oyente \in [Tipos -> Oyentes]
         /\ atiendeA \in [Tipos -> Pid] /\ conexiones \in [Tipos -> Nat]
         /\ conectada \in [Tipos -> BOOLEAN] /\ viva \in [Tipos -> BOOLEAN]
         /\ hayIO \in [Tipos -> Nat]
         /\ leidoDeIO \in Nat /\ leidoDeKM \in Nat
BY TiposDelHilo DEF TypeInv, TypeOK, TipoMutexes, TipoIO, TipoInterfaz, TipoEquipo, TipoFichas,
   TipoEsperas

LEMMA NingunoNoEsProceso == Ninguno \notin Procesos
BY BloqueosAssumption

\* The head and the tail of a sequence that is not empty.
LEMMA CabezaYCola ==
  ASSUME NEW S, NEW s \in Seq(S), s # <<>>
  PROVE  /\ Head(s) = s[1] /\ 1 \in DOMAIN s /\ Head(s) \in S
         /\ Tail(s) \in Seq(S)
         /\ \A i \in DOMAIN Tail(s) : i + 1 \in DOMAIN s /\ Tail(s)[i] = s[i + 1]
         /\ \A i \in DOMAIN s : i # 1 => i - 1 \in DOMAIN Tail(s) /\ Tail(s)[i - 1] = s[i]
<1>1. Len(s) \in Nat /\ Len(s) # 0 /\ DOMAIN s = 1 .. Len(s)
  OBVIOUS
<1>2. Tail(s) \in Seq(S) /\ Len(Tail(s)) = Len(s) - 1 /\ DOMAIN Tail(s) = 1 .. (Len(s) - 1)
  BY <1>1
<1>3. \A i \in 1 .. (Len(s) - 1) : Tail(s)[i] = s[i + 1]
  BY <1>1
<1>4. Head(s) = s[1] /\ 1 \in DOMAIN s /\ Head(s) \in S
  BY <1>1
<1>5. ASSUME NEW i \in DOMAIN Tail(s) PROVE i + 1 \in DOMAIN s /\ Tail(s)[i] = s[i + 1]
  BY <1>1, <1>2, <1>3
<1>6. ASSUME NEW i \in DOMAIN s, i # 1 PROVE i - 1 \in DOMAIN Tail(s) /\ Tail(s)[i - 1] = s[i]
  <2>1. i - 1 \in 1 .. (Len(s) - 1) /\ (i - 1) + 1 = i
    BY <1>1, <1>6
  <2> QED BY <1>2, <1>3, <2>1
<1> QED BY <1>2, <1>4, <1>5, <1>6

LEMMA AlFinal ==
  ASSUME NEW S, NEW s \in Seq(S), NEW e \in S
  PROVE  /\ Append(s, e) \in Seq(S) /\ Append(s, e) # <<>>
         /\ DOMAIN Append(s, e) = DOMAIN s \cup {Len(s) + 1} /\ Len(s) + 1 \notin DOMAIN s
         /\ \A i \in DOMAIN s : Append(s, e)[i] = s[i]
         /\ Append(s, e)[Len(s) + 1] = e
         /\ s # <<>> => Head(Append(s, e)) = Head(s)
<1>1. Len(s) \in Nat /\ DOMAIN s = 1 .. Len(s)
  OBVIOUS
<1>2. Append(s, e) \in Seq(S) /\ Len(Append(s, e)) = Len(s) + 1 /\ Append(s, e) # <<>>
  BY <1>1
<1>3. /\ \A i \in DOMAIN s : Append(s, e)[i] = s[i]
      /\ Append(s, e)[Len(s) + 1] = e
  BY <1>1
<1>4. DOMAIN Append(s, e) = 1 .. (Len(s) + 1)
  BY <1>1, <1>2
<1>5. DOMAIN Append(s, e) = DOMAIN s \cup {Len(s) + 1} /\ Len(s) + 1 \notin DOMAIN s
  BY <1>1, <1>4
<1>6. ASSUME s # <<>> PROVE Head(Append(s, e)) = Head(s)
  <2>1. 1 \in DOMAIN s /\ Head(s) = s[1]
    BY <1>6, CabezaYCola
  <2>2. Head(Append(s, e)) = Append(s, e)[1]
    BY <1>2, CabezaYCola
  <2> QED BY <1>3, <2>1, <2>2
<1> QED BY <1>2, <1>3, <1>5, <1>6

\* The first of the queue of a mutex leaves it.
LEMMA EsperaTrasSacar ==
  ASSUME TypeInv, SinRepetidos, NEW m \in Mutexes, espera[m] # <<>>,
         espera' = [espera EXCEPT ![m] = Tail(@)]
  PROVE  /\ Head(espera[m]) \in Procesos /\ Aguarda(Head(espera[m]), m)
         /\ \A p \in Procesos, n \in Mutexes :
              Aguarda(p, n)' <=> Aguarda(p, n) /\ ~(n = m /\ p = Head(espera[m]))
         /\ \A n \in Mutexes : EsperaDistintos(n)'
<1> DEFINE s == espera[m]
           e == Head(s)
<1>1. espera \in [Mutexes -> Seq(Procesos)] /\ s \in Seq(Procesos) /\ s # <<>>
  BY TiposDeEsperas
<1>2. /\ e = s[1] /\ 1 \in DOMAIN s /\ e \in Procesos
      /\ \A i \in DOMAIN Tail(s) : i + 1 \in DOMAIN s /\ Tail(s)[i] = s[i + 1]
      /\ \A i \in DOMAIN s : i # 1 => i - 1 \in DOMAIN Tail(s) /\ Tail(s)[i - 1] = s[i]
  <2> HIDE DEF s
  <2> QED BY <1>1, CabezaYCola
<1>3. espera'[m] = Tail(s) /\ \A n \in Mutexes : n # m => espera'[n] = espera[n]
  BY <1>1
<1>4. \A i, j \in DOMAIN s : s[i] = s[j] => i = j
  BY DEF SinRepetidos, EsperaDistintos
<1>5. Aguarda(e, m)
  BY <1>2 DEF Aguarda
<1>6. ASSUME NEW p \in Procesos
      PROVE  Aguarda(p, m)' <=> Aguarda(p, m) /\ p # e
  <2>1. Aguarda(p, m)' <=> \E i \in DOMAIN Tail(s) : Tail(s)[i] = p
    BY <1>3 DEF Aguarda
  <2>2. Aguarda(p, m) <=> \E i \in DOMAIN s : s[i] = p
    BY DEF Aguarda
  <2>3. ASSUME NEW i \in DOMAIN Tail(s), Tail(s)[i] = p PROVE Aguarda(p, m) /\ p # e
    <3>1. i + 1 \in DOMAIN s /\ s[i + 1] = p
      BY <1>2, <2>3
    <3>2. i + 1 # 1
      <4>1. DOMAIN Tail(s) \subseteq Nat \ {0}
        BY <1>1
      <4> QED BY <2>3, <4>1
    <3> QED BY <1>2, <1>4, <2>2, <3>1, <3>2
  <2>4. ASSUME NEW i \in DOMAIN s, s[i] = p, p # e PROVE Aguarda(p, m)'
    BY <1>2, <2>1, <2>4
  <2> QED BY <2>1, <2>2, <2>3, <2>4
<1>7. \A p \in Procesos, n \in Mutexes : n # m => (Aguarda(p, n)' <=> Aguarda(p, n))
  BY <1>3 DEF Aguarda
<1>8. ASSUME NEW n \in Mutexes PROVE EsperaDistintos(n)'
  <2>1. CASE n = m
    <3>1. ASSUME NEW i \in DOMAIN Tail(s), NEW j \in DOMAIN Tail(s), Tail(s)[i] = Tail(s)[j]
          PROVE  i = j
      <4>1. i + 1 = j + 1
        BY <1>2, <1>4, <3>1
      <4>2. DOMAIN Tail(s) \subseteq Nat
        BY <1>1
      <4> QED BY <3>1, <4>1, <4>2
    <3> DEFINE r == Tail(s)
    <3>2. espera'[n] = r /\ \A i, j \in DOMAIN r : r[i] = r[j] => i = j
      BY <1>3, <2>1, <3>1
    <3> HIDE DEF r
    <3> QED BY <3>2 DEF EsperaDistintos
  <2>2. CASE n # m
    BY <1>3, <2>2 DEF EsperaDistintos, SinRepetidos
  <2> QED BY <2>1, <2>2
<1> HIDE DEF s, e
<1>9. e = Head(espera[m])
  BY DEF s, e
<1>10. \A p \in Procesos, n \in Mutexes : Aguarda(p, n)' <=> Aguarda(p, n) /\ ~(n = m /\ p = e)
  BY <1>6, <1>7
<1> QED BY <1>2, <1>5, <1>8, <1>9, <1>10

\* One more at the end of the queue of a mutex.
LEMMA EsperaTrasAgregar ==
  ASSUME TypeInv, SinRepetidos, NEW m \in Mutexes, NEW p \in Procesos, ~Aguarda(p, m),
         espera' = [espera EXCEPT ![m] = Append(@, p)]
  PROVE  /\ \A q \in Procesos, n \in Mutexes : Aguarda(q, n)' <=> Aguarda(q, n) \/ (n = m /\ q = p)
         /\ \A n \in Mutexes : EsperaDistintos(n)'
<1> DEFINE s == espera[m]
           r == Append(s, p)
           k == Len(s) + 1
<1>1. espera \in [Mutexes -> Seq(Procesos)] /\ s \in Seq(Procesos)
  BY TiposDeEsperas
<1>2. /\ DOMAIN r = DOMAIN s \cup {k} /\ k \notin DOMAIN s
      /\ \A i \in DOMAIN s : r[i] = s[i]
      /\ r[k] = p
  <2> HIDE DEF s
  <2> QED BY <1>1, AlFinal
<1>3. espera'[m] = r /\ \A n \in Mutexes : n # m => espera'[n] = espera[n]
  BY <1>1
<1>4. (\A i, j \in DOMAIN s : s[i] = s[j] => i = j) /\ (\A i \in DOMAIN s : s[i] # p)
  BY DEF SinRepetidos, EsperaDistintos, Aguarda
<1>5. \A q \in Procesos : Aguarda(q, m) <=> \E i \in DOMAIN s : s[i] = q
  BY DEF Aguarda
<1> HIDE DEF s, r, k
<1>6. \A q \in Procesos : Aguarda(q, m)' <=> \E i \in DOMAIN r : r[i] = q
  BY <1>3 DEF Aguarda
<1>7. \A q \in Procesos : Aguarda(q, m)' <=> Aguarda(q, m) \/ q = p
  BY <1>2, <1>5, <1>6
<1>8. \A q \in Procesos, n \in Mutexes : n # m => (Aguarda(q, n)' <=> Aguarda(q, n))
  BY <1>3 DEF Aguarda
<1>9. EsperaDistintos(m)'
  BY <1>2, <1>3, <1>4 DEF EsperaDistintos
<1>10. \A n \in Mutexes : n # m => EsperaDistintos(n)'
  BY <1>3 DEF EsperaDistintos, SinRepetidos
<1> QED BY <1>7, <1>8, <1>9, <1>10

\* The first request of a type leaves its queue.
LEMMA PedidosTrasRetirar ==
  ASSUME TypeInv, SinRepetidos, NEW t \in Tipos, pedidos[t] # <<>>,
         pedidos' = [pedidos EXCEPT ![t] = Tail(@)]
  PROVE  /\ Head(pedidos[t]).pid \in Procesos /\ Pide(Head(pedidos[t]).pid, t)
         /\ \A p \in Procesos, u \in Tipos :
              Pide(p, u)' <=> Pide(p, u) /\ ~(u = t /\ p = Head(pedidos[t]).pid)
         /\ \A u \in Tipos : PedidosDistintos(u)'
         /\ \A u \in Tipos \ {t} : pedidos'[u] = pedidos[u]
<1> DEFINE s == pedidos[t]
           e == Head(s).pid
<1>1. pedidos \in [Tipos -> Seq(Pedido)] /\ s \in Seq(Pedido) /\ s # <<>>
  BY TiposDeEsperas
<1>2. /\ Head(s) = s[1] /\ 1 \in DOMAIN s /\ Head(s) \in Pedido
      /\ \A i \in DOMAIN Tail(s) : i + 1 \in DOMAIN s /\ Tail(s)[i] = s[i + 1]
      /\ \A i \in DOMAIN s : i # 1 => i - 1 \in DOMAIN Tail(s) /\ Tail(s)[i - 1] = s[i]
  <2> HIDE DEF s
  <2> QED BY <1>1, CabezaYCola
<1>3. pedidos'[t] = Tail(s) /\ \A u \in Tipos : u # t => pedidos'[u] = pedidos[u]
  BY <1>1
<1>4. \A i, j \in DOMAIN s : s[i].pid = s[j].pid => i = j
  BY DEF SinRepetidos, PedidosDistintos
<1>5. e \in Procesos /\ e = s[1].pid /\ Pide(e, t)
  BY <1>2 DEF Pide, Pedido
<1>6. ASSUME NEW p \in Procesos
      PROVE  Pide(p, t)' <=> Pide(p, t) /\ p # e
  <2>1. Pide(p, t)' <=> \E i \in DOMAIN Tail(s) : Tail(s)[i].pid = p
    BY <1>3 DEF Pide
  <2>2. Pide(p, t) <=> \E i \in DOMAIN s : s[i].pid = p
    BY DEF Pide
  <2>3. ASSUME NEW i \in DOMAIN Tail(s), Tail(s)[i].pid = p PROVE Pide(p, t) /\ p # e
    <3>1. i + 1 \in DOMAIN s /\ s[i + 1].pid = p
      BY <1>2, <2>3
    <3>2. i + 1 # 1
      <4>1. DOMAIN Tail(s) \subseteq Nat \ {0}
        BY <1>1
      <4> QED BY <2>3, <4>1
    <3> QED BY <1>2, <1>4, <1>5, <2>2, <3>1, <3>2
  <2>4. ASSUME NEW i \in DOMAIN s, s[i].pid = p, p # e PROVE Pide(p, t)'
    <3>1. i - 1 \in DOMAIN Tail(s) /\ Tail(s)[i - 1] = s[i]
      BY <1>2, <1>5, <2>4
    <3> QED BY <2>1, <2>4, <3>1
  <2> QED BY <2>1, <2>2, <2>3, <2>4
<1>7. \A p \in Procesos, u \in Tipos : u # t => (Pide(p, u)' <=> Pide(p, u))
  BY <1>3 DEF Pide
<1>8. ASSUME NEW u \in Tipos PROVE PedidosDistintos(u)'
  <2>1. CASE u = t
    <3>1. ASSUME NEW i \in DOMAIN Tail(s), NEW j \in DOMAIN Tail(s), Tail(s)[i].pid = Tail(s)[j].pid
          PROVE  i = j
      <4>1. i + 1 = j + 1
        BY <1>2, <1>4, <3>1
      <4>2. DOMAIN Tail(s) \subseteq Nat
        BY <1>1
      <4> QED BY <3>1, <4>1, <4>2
    <3> DEFINE r == Tail(s)
    <3>2. pedidos'[u] = r /\ \A i, j \in DOMAIN r : r[i].pid = r[j].pid => i = j
      BY <1>3, <2>1, <3>1
    <3> HIDE DEF r
    <3> QED BY <3>2 DEF PedidosDistintos
  <2>2. CASE u # t
    BY <1>3, <2>2 DEF PedidosDistintos, SinRepetidos
  <2> QED BY <2>1, <2>2
<1> HIDE DEF s, e
<1>9. e = Head(pedidos[t]).pid
  BY DEF s, e
<1>10. \A p \in Procesos, u \in Tipos : Pide(p, u)' <=> Pide(p, u) /\ ~(u = t /\ p = e)
  BY <1>6, <1>7
<1> QED BY <1>3, <1>5, <1>8, <1>9, <1>10

\* One more request at the end of the queue of a type.
LEMMA PedidosTrasAgregar ==
  ASSUME TypeInv, SinRepetidos, NEW t \in Tipos, NEW p \in Procesos, ~Pide(p, t),
         pedidos' = [pedidos EXCEPT ![t] = Append(@, [pid |-> p, leido |-> FALSE])]
  PROVE  /\ \A q \in Procesos, u \in Tipos : Pide(q, u)' <=> Pide(q, u) \/ (u = t /\ q = p)
         /\ \A u \in Tipos : PedidosDistintos(u)'
         /\ \A u \in Tipos : pedidos[u] # <<>> =>
              pedidos'[u] # <<>> /\ Head(pedidos'[u]) = Head(pedidos[u])
<1> DEFINE s == pedidos[t]
           e == [pid |-> p, leido |-> FALSE]
           r == Append(s, e)
           k == Len(s) + 1
<1>1. pedidos \in [Tipos -> Seq(Pedido)] /\ s \in Seq(Pedido) /\ e \in Pedido /\ e.pid = p
  BY TiposDeEsperas DEF Pedido
<1>2. /\ DOMAIN r = DOMAIN s \cup {k} /\ k \notin DOMAIN s /\ r # <<>>
      /\ \A i \in DOMAIN s : r[i] = s[i]
      /\ r[k] = e /\ (s # <<>> => Head(r) = Head(s))
  <2> HIDE DEF s, e
  <2> QED BY <1>1, AlFinal
<1>3. pedidos'[t] = r /\ \A u \in Tipos : u # t => pedidos'[u] = pedidos[u]
  BY <1>1
<1>4. (\A i, j \in DOMAIN s : s[i].pid = s[j].pid => i = j) /\ (\A i \in DOMAIN s : s[i].pid # p)
  BY DEF SinRepetidos, PedidosDistintos, Pide
<1>5. \A q \in Procesos : Pide(q, t) <=> \E i \in DOMAIN s : s[i].pid = q
  BY DEF Pide
<1>6. \A u \in Tipos : pedidos[u] # <<>> =>
        pedidos'[u] # <<>> /\ Head(pedidos'[u]) = Head(pedidos[u])
  BY <1>2, <1>3
<1> HIDE DEF s, e, r, k
<1>7. \A q \in Procesos : Pide(q, t)' <=> \E i \in DOMAIN r : r[i].pid = q
  BY <1>3 DEF Pide
<1>8. \A q \in Procesos : Pide(q, t)' <=> Pide(q, t) \/ q = p
  <2>1. \A q : (\E i \in DOMAIN r : r[i].pid = q) <=> (\E i \in DOMAIN s : s[i].pid = q) \/ q = p
    BY ONLY <1>1, <1>2
  <2> QED BY ONLY <1>5, <1>7, <2>1
<1>9. \A q \in Procesos, u \in Tipos : u # t => (Pide(q, u)' <=> Pide(q, u))
  BY <1>3 DEF Pide
<1>10. PedidosDistintos(t)'
  BY <1>1, <1>2, <1>3, <1>4 DEF PedidosDistintos
<1>11. \A u \in Tipos : u # t => PedidosDistintos(u)'
  BY <1>3 DEF PedidosDistintos, SinRepetidos
<1> QED BY <1>6, <1>8, <1>9, <1>10, <1>11

\* The bytes are stored in the first request of a type.
LEMMA PedidosTrasMarcar ==
  ASSUME TypeInv, SinRepetidos, NEW t \in Tipos, pedidos[t] # <<>>,
         pedidos' = [pedidos EXCEPT ![t][1].leido = TRUE]
  PROVE  /\ \A p \in Procesos, u \in Tipos : Pide(p, u)' <=> Pide(p, u)
         /\ \A u \in Tipos : PedidosDistintos(u)'
         /\ \A p \in Procesos, u \in Tipos : Primero(p, u)' <=> Primero(p, u)
         /\ Leido(t)' /\ \A u \in Tipos : Leido(u) => Leido(u)'
<1> DEFINE s == pedidos[t]
           r == [s EXCEPT ![1].leido = TRUE]
<1>1. pedidos \in [Tipos -> Seq(Pedido)] /\ s \in Seq(Pedido) /\ s # <<>>
  BY TiposDeEsperas
<1>2. /\ r \in Seq(Pedido) /\ Len(r) = Len(s)
  <2> HIDE DEF s
  <2> QED BY <1>1, MarcarPrimero
<1>3. DOMAIN r = DOMAIN s /\ 1 \in DOMAIN s /\ Len(s) \in Nat /\ Len(s) # 0
  BY <1>1, <1>2
<1>4. /\ \A i \in DOMAIN s : i # 1 => r[i] = s[i]
      /\ r[1] = [s[1] EXCEPT !.leido = TRUE]
  <2> HIDE DEF s
  <2> QED BY <1>1, <1>3
<1>5. r[1].pid = s[1].pid /\ r[1].leido
  <2>1. s[1] \in Pedido
    BY <1>1, <1>3
  <2> HIDE DEF r, s
  <2> QED BY <1>4, <2>1 DEF Pedido
<1>6. pedidos'[t] = r /\ \A u \in Tipos : u # t => pedidos'[u] = pedidos[u]
  BY <1>1
<1>7. r # <<>> /\ Head(r) = r[1] /\ Head(s) = s[1]
  <2> HIDE DEF s, r
  <2> QED BY <1>1, <1>2, <1>3, CabezaYCola
<1>8. \A i, j \in DOMAIN s : s[i].pid = s[j].pid => i = j
  BY DEF SinRepetidos, PedidosDistintos
<1>9. /\ \A p \in Procesos : Pide(p, t) <=> \E i \in DOMAIN s : s[i].pid = p
      /\ \A p \in Procesos : Primero(p, t) <=> Head(s).pid = p
  BY <1>1 DEF Pide, Primero
<1> HIDE DEF s, r
<1>10. \A i \in DOMAIN s : r[i].pid = s[i].pid
  BY <1>4, <1>5
<1>11. \A p \in Procesos : Pide(p, t)' <=> \E i \in DOMAIN s : r[i].pid = p
  BY <1>3, <1>6 DEF Pide
<1>12. \A p \in Procesos : Pide(p, t)' <=> Pide(p, t)
  BY <1>9, <1>10, <1>11
<1>13. PedidosDistintos(t)'
  BY <1>3, <1>6, <1>8, <1>10 DEF PedidosDistintos
<1>14. (\A p \in Procesos : Primero(p, t)' <=> Primero(p, t)) /\ Leido(t)'
  <2>1. Leido(t)' /\ \A p \in Procesos : Primero(p, t)' <=> r[1].pid = p
    BY <1>5, <1>6, <1>7 DEF Primero, Leido
  <2> QED BY <1>5, <1>7, <1>9, <2>1
<1>15. \A u \in Tipos : u # t => /\ PedidosDistintos(u)' /\ (Leido(u)' <=> Leido(u))
                                 /\ \A p \in Procesos : /\ Pide(p, u)' <=> Pide(p, u)
                                                        /\ Primero(p, u)' <=> Primero(p, u)
  BY <1>6 DEF PedidosDistintos, SinRepetidos, Leido, Pide, Primero
<1> QED BY <1>12, <1>13, <1>14, <1>15

\* The device and the service are at requests of processes.
LEMMA PrimeroPide ==
  ASSUME TypeInv, NEW p, NEW t \in Tipos, Primero(p, t)
  PROVE  p \in Procesos /\ Pide(p, t)
<1>1. pedidos[t] \in Seq(Pedido) /\ pedidos[t] # <<>> /\ Head(pedidos[t]).pid = p
  BY TiposDeEsperas DEF Primero
<1> DEFINE s == pedidos[t]
<1>2. Head(s) = s[1] /\ 1 \in DOMAIN s /\ Head(s) \in Pedido
  <2>1. s \in Seq(Pedido) /\ s # <<>>
    BY <1>1
  <2> HIDE DEF s
  <2> QED BY <2>1, CabezaYCola
<1> QED BY <1>1, <1>2 DEF Pide, Pedido

-----------------------------------------------------------------------------
(* One wait for each process: it goes, passes to another class, or begins. *)

LEMMA UnaEsperaMenos ==
  ASSUME UnaEspera,
         \A p \in Procesos, c \in Clases, o \in Objetos : Espera(p, c, o)' => Espera(p, c, o)
  PROVE  UnaEspera'
BY DEF UnaEspera

LEMMA UnaEsperaPasa ==
  ASSUME UnaEspera, NEW r \in Procesos, NEW b \in Clases, NEW n \in Objetos, Espera(r, b, n),
         NEW d \in Clases, NEW x \in Objetos,
         \A p \in Procesos, c \in Clases, o \in Objetos : Espera(p, c, o)' =>
           \/ p = r /\ c = d /\ o = x
           \/ Espera(p, c, o) /\ ~(p = r /\ c = b /\ o = n)
  PROVE  UnaEspera'
<1>1. \A c \in Clases, o \in Objetos : Espera(r, c, o)' => c = d /\ o = x
  BY DEF UnaEspera
<1>2. \A p \in Procesos, c \in Clases, o \in Objetos : p # r /\ Espera(p, c, o)' => Espera(p, c, o)
  OBVIOUS
<1> QED BY <1>1, <1>2 DEF UnaEspera

LEMMA UnaEsperaNace ==
  ASSUME UnaEspera, NEW r \in Procesos, NEW d \in Clases, NEW x \in Objetos,
         \A c \in Clases, o \in Objetos : ~Espera(r, c, o),
         \A p \in Procesos, c \in Clases, o \in Objetos : Espera(p, c, o)' =>
           Espera(p, c, o) \/ (p = r /\ c = d /\ o = x)
  PROVE  UnaEspera'
<1>1. \A c \in Clases, o \in Objetos : Espera(r, c, o)' => c = d /\ o = x
  OBVIOUS
<1>2. \A p \in Procesos, c \in Clases, o \in Objetos : p # r /\ Espera(p, c, o)' => Espera(p, c, o)
  OBVIOUS
<1> QED BY <1>1, <1>2 DEF UnaEspera

\* A process whose thread attends another call, or that runs or is ready to, is awaited by
\* nobody.
LEMMA SinEsperas ==
  ASSUME Esperas, NEW p \in Procesos, hilo[p].fase \notin EnEspera,
         hilo[p].fase \notin {"programa", "avisar"} \/ lugar[p] \in {"EXEC", "READY"}
  PROVE  /\ \A m \in Mutexes : ~Aguarda(p, m)
         /\ \A t \in Tipos : ~Pide(p, t)
         /\ \A t \in Tipos : oyente[t].pid = p => oyente[t].fase \notin {"buscar", "aReady"}
         /\ \A t \in Tipos : servicio[t].pid = p => servicio[t].fase \notin {"buscar", "aReady"}
         /\ \A q \in Procesos : hilo[q].otro = p => hilo[q].fase \notin {"despertar", "aReady"}
         /\ \A c \in Clases, o \in Objetos : ~Espera(p, c, o)
<1>1. \A m \in Mutexes : ~Aguarda(p, m)
  BY DEF Esperas, EsperaMutex
<1>2. \A t \in Tipos : ~Pide(p, t)
  BY DEF Esperas, EsperaPedido
<1>3. \A t \in Tipos : oyente[t].pid = p => oyente[t].fase \notin {"buscar", "aReady"}
  BY DEF Esperas, EsperaOyente
<1>4. \A t \in Tipos : servicio[t].pid = p => servicio[t].fase \notin {"buscar", "aReady"}
  BY DEF Esperas, EsperaServicio
<1>5. \A q \in Procesos : hilo[q].otro = p => hilo[q].fase \notin {"despertar", "aReady"}
  BY DEF Esperas, EsperaHilo
<1> QED BY <1>1, <1>2, <1>3, <1>4, <1>5 DEF Espera

\* A thread that stays in its call, or answers, while its process stays in EXEC.
LEMMA EsperasTrasHilo ==
  ASSUME TypeInv, Esperas, NEW p \in Procesos, lugar[p] = "EXEC",
         \A q \in Procesos \ {p} : hilo'[q] = hilo[q],
         hilo[p].fase \notin {"despertar", "aReady"},
         hilo'[p].fase \in EnLlamada \cup {"programa"},
         hilo'[p].fase \notin {"despertar", "aReady"},
         hilo[p].fase \in EnEspera => hilo'[p].fase \in EnEspera,
         hilo'[p].fase \in EnEspera =>
           \/ hilo[p].fase \notin EnEspera /\ hilo'[p].objeto \in Tipos
           \/ hilo[p].fase \in EnEspera /\ hilo'[p].objeto = hilo[p].objeto,
         UNCHANGED <<lugar, duenio, espera, tiene, pedidos, servicio, oyente, conexiones>>
  PROVE  Esperas'
<1>1. /\ \A q \in Procesos, m \in Mutexes : Aguarda(q, m)' <=> Aguarda(q, m)
      /\ \A q \in Procesos, t \in Tipos : Pide(q, t)' <=> Pide(q, t)
      /\ \A q \in Procesos, m \in Mutexes : Heredado(q, m)' <=> Heredado(q, m)
      /\ SinRepetidos' <=> SinRepetidos
  BY DEF Aguarda, Pide, Heredado, SinRepetidos, EsperaDistintos, PedidosDistintos
<1>2. \A q \in Procesos, c \in Clases, o \in Objetos : Espera(q, c, o)' => Espera(q, c, o)
  BY <1>1 DEF Espera
<1>3. hilo[p].fase \notin EnEspera \/ hilo[p].fase \notin {"programa", "avisar"}
  BY DEF EnEspera
<1>4. \A q \in Procesos : hilo[q].otro = p => hilo[q].fase \notin {"despertar", "aReady"}
  BY DEF Esperas, EsperaHilo
<1>5. \A m \in Mutexes : Aguarda(p, m) => hilo'[p].fase \in EnEspera /\ hilo'[p].objeto = m
  BY SyscallsAssumption DEF Esperas, EsperaMutex
<1>6. \A t \in Tipos : ~Pide(p, t)
  BY DEF Esperas, EsperaPedido
<1>7. UnaEspera'
  BY <1>2, UnaEsperaMenos DEF Esperas
<1>8. LugarDeFase'
  BY DEF Esperas, LugarDeFase, EnLlamada
<1>9. EsperaMutex'
  BY <1>1, <1>5 DEF Esperas, EsperaMutex
<1>10. EsperaPedido'
  BY <1>1, <1>6 DEF Esperas, EsperaPedido
<1>11. EsperaOyente'
  BY DEF Esperas, EsperaOyente
<1>12. EsperaServicio'
  BY DEF Esperas, EsperaServicio
<1>13. EsperaHilo'
  BY <1>4 DEF Esperas, EsperaHilo, Heredado
<1>14. ConMotivo'
  <2>1. \A q \in Procesos : Motivo(q)' <=> Motivo(q)
    BY <1>1 DEF Motivo
  <2> QED BY <1>1, <2>1 DEF Esperas, ConMotivo
<1>15. Tenencia'
  BY DEF Esperas, Tenencia
<1> QED BY <1>1, <1>7, <1>8, <1>9, <1>10, <1>11, <1>12, <1>13, <1>14, <1>15 DEF Esperas

\* A process that is dispatched, or ends, is awaited by nobody.
LEMMA EsperasTrasMover ==
  ASSUME TypeInv, Esperas, NEW p \in Procesos, lugar[p] \in {"READY", "EXEC"},
         hilo[p].fase \in {"programa", "avisar"}, lugar'[p] \in {"EXEC", "EXIT"},
         \A q \in Procesos \ {p} : lugar'[q] = lugar[q],
         UNCHANGED <<hilo, duenio, espera, tiene, pedidos, servicio, oyente, conexiones>>
  PROVE  Esperas'
<1>1. /\ \A q \in Procesos, m \in Mutexes : Aguarda(q, m)' <=> Aguarda(q, m)
      /\ \A q \in Procesos, t \in Tipos : Pide(q, t)' <=> Pide(q, t)
      /\ \A q \in Procesos, m \in Mutexes : Heredado(q, m)' <=> Heredado(q, m)
      /\ SinRepetidos' <=> SinRepetidos
  BY DEF Aguarda, Pide, Heredado, SinRepetidos, EsperaDistintos, PedidosDistintos
<1>2. \A q \in Procesos, c \in Clases, o \in Objetos : Espera(q, c, o)' => Espera(q, c, o)
  BY <1>1 DEF Espera
<1>3. hilo[p].fase \notin EnEspera
  BY DEF EnEspera
<1>4. /\ \A m \in Mutexes : ~Aguarda(p, m)
      /\ \A t \in Tipos : ~Pide(p, t)
      /\ \A t \in Tipos : oyente[t].pid = p => oyente[t].fase \notin {"buscar", "aReady"}
      /\ \A t \in Tipos : servicio[t].pid = p => servicio[t].fase \notin {"buscar", "aReady"}
      /\ \A q \in Procesos : hilo[q].otro = p => hilo[q].fase \notin {"despertar", "aReady"}
  BY <1>3, SinEsperas
<1>5. UnaEspera'
  BY <1>2, UnaEsperaMenos DEF Esperas
<1>6. LugarDeFase'
  BY DEF Esperas, LugarDeFase, EnLlamada
<1>7. EsperaMutex'
  BY <1>1, <1>4 DEF Esperas, EsperaMutex
<1>8. EsperaPedido'
  BY <1>1, <1>4 DEF Esperas, EsperaPedido
<1>9. EsperaOyente'
  BY <1>4 DEF Esperas, EsperaOyente
<1>10. EsperaServicio'
  BY <1>4 DEF Esperas, EsperaServicio
<1>11. EsperaHilo'
  BY <1>1, <1>4 DEF Esperas, EsperaHilo, Heredado
<1>12. ConMotivo'
  <2>1. \A q \in Procesos : Motivo(q)' <=> Motivo(q)
    BY <1>1 DEF Motivo
  <2> QED BY <1>1, <1>3, <2>1 DEF Esperas, ConMotivo
<1>13. Tenencia'
  BY DEF Esperas, Tenencia
<1> QED BY <1>1, <1>5, <1>6, <1>7, <1>8, <1>9, <1>10, <1>11, <1>12, <1>13 DEF Esperas

\* pasarProcesoExecABlock, for either call.
LEMMA EsperasTrasBloquear ==
  ASSUME TypeInv, Esperas, NEW p \in Procesos,
         \/ SacarDeExec(p)
         \/ EncolarEnBlock(p, HiloOcioso) /\ hilo[p].objeto \in Mutexes
         \/ EncolarEnBlock(p, [hilo[p] EXCEPT !.fase = "encolarPedido"]) /\ hilo[p].objeto \in Tipos,
         UNCHANGED <<duenio, espera, tiene, pedidos, servicio, oyente, conexiones>>
  PROVE  Esperas'
<1>1. /\ \A q \in Procesos, m \in Mutexes : Aguarda(q, m)' <=> Aguarda(q, m)
      /\ \A q \in Procesos, t \in Tipos : Pide(q, t)' <=> Pide(q, t)
      /\ \A q \in Procesos, m \in Mutexes : Heredado(q, m)' <=> Heredado(q, m)
      /\ SinRepetidos' <=> SinRepetidos
  BY DEF Aguarda, Pide, Heredado, SinRepetidos, EsperaDistintos, PedidosDistintos
<1>2. /\ hilo \in [Procesos -> Hilos]
      /\ lugar \in [Procesos -> {"READY", "EXEC", "BLOCK", "EXIT", "transito"}]
  BY TiposDelHilo DEF TypeInv
<1>3. /\ \A q \in Procesos \ {p} : hilo'[q] = hilo[q] /\ lugar'[q] = lugar[q]
      /\ \/ /\ hilo[p].fase = "bloquear" /\ hilo'[p].fase = "aBlock" /\ lugar'[p] = "transito"
            /\ hilo'[p].objeto = hilo[p].objeto
         \/ /\ hilo[p].fase = "aBlock" /\ hilo'[p].fase = "programa" /\ lugar'[p] = "BLOCK"
            /\ hilo[p].objeto \in Mutexes
         \/ /\ hilo[p].fase = "aBlock" /\ hilo'[p].fase = "encolarPedido" /\ lugar'[p] = "BLOCK"
            /\ hilo[p].objeto \in Tipos /\ hilo'[p].objeto = hilo[p].objeto
  <2>1. CASE SacarDeExec(p)
    <3>1. "aBlock" \in Fases
      BY DEF Fases
    <3> QED BY <1>2, <2>1, <3>1, HiloTipado DEF SacarDeExec, EnFase
  <2>2. CASE EncolarEnBlock(p, HiloOcioso) /\ hilo[p].objeto \in Mutexes
    BY <1>2, <2>2 DEF EncolarEnBlock, EnFase, HiloOcioso
  <2>3. CASE EncolarEnBlock(p, [hilo[p] EXCEPT !.fase = "encolarPedido"])
             /\ hilo[p].objeto \in Tipos
    <3> DEFINE h == hilo[p]
               k == [h EXCEPT !.fase = "encolarPedido"]
    <3>1. h \in Hilos /\ hilo' = [hilo EXCEPT ![p] = k] /\ lugar' = [lugar EXCEPT ![p] = "BLOCK"]
          /\ h.fase = "aBlock"
      BY <1>2, <2>3 DEF EncolarEnBlock, EnFase
    <3>2. k.fase = "encolarPedido" /\ k.objeto = h.objeto
      <4> HIDE DEF h
      <4> QED BY <3>1 DEF Hilos
    <3> HIDE DEF k
    <3> QED BY <1>2, <2>3, <3>1, <3>2
  <2> QED BY <2>1, <2>2, <2>3
<1>4. \A q \in Procesos, c \in Clases, o \in Objetos : Espera(q, c, o)' => Espera(q, c, o)
  BY <1>1, <1>3 DEF Espera
<1>5. /\ \A t \in Tipos : ~Pide(p, t)
      /\ \A t \in Tipos : oyente[t].pid = p => oyente[t].fase \notin {"buscar", "aReady"}
      /\ \A t \in Tipos : servicio[t].pid = p => servicio[t].fase \notin {"buscar", "aReady"}
      /\ \A q \in Procesos : hilo[q].otro = p => hilo[q].fase \notin {"despertar", "aReady"}
  BY <1>3 DEF Esperas, EsperaPedido, EsperaOyente, EsperaServicio, EsperaHilo
<1>6. \A m \in Mutexes : Aguarda(p, m) => hilo[p].objeto = m
  BY <1>3 DEF Esperas, EsperaMutex
<1>7. hilo[p].fase \in EnEspera
  BY <1>3 DEF EnEspera
<1>8. UnaEspera'
  BY <1>4, UnaEsperaMenos DEF Esperas
<1>9. LugarDeFase'
  BY <1>3 DEF Esperas, LugarDeFase, EnLlamada
<1>10. EsperaMutex'
  BY <1>1, <1>3, <1>6, SyscallsAssumption DEF Esperas, EsperaMutex, EnEspera
<1>11. EsperaPedido'
  BY <1>1, <1>3, <1>5 DEF Esperas, EsperaPedido
<1>12. EsperaOyente'
  BY <1>3, <1>5 DEF Esperas, EsperaOyente
<1>13. EsperaServicio'
  BY <1>3, <1>5 DEF Esperas, EsperaServicio
<1>14. EsperaHilo'
  BY <1>1, <1>3, <1>5 DEF Esperas, EsperaHilo, Heredado
<1>15. ConMotivo'
  <2>1. \A q \in Procesos : Motivo(q)' <=> Motivo(q)
    BY <1>1 DEF Motivo
  <2>2. hilo[p].objeto \in Mutexes => Motivo(p) /\ hilo[p].objeto \notin Tipos
    BY <1>7, SyscallsAssumption DEF Esperas, ConMotivo, Motivo
  <2> QED BY <1>1, <1>3, <1>7, <2>1, <2>2 DEF Esperas, ConMotivo, EnEspera
<1>16. Tenencia'
  BY DEF Esperas, Tenencia
<1> QED BY <1>1, <1>8, <1>9, <1>10, <1>11, <1>12, <1>13, <1>14, <1>15, <1>16 DEF Esperas

\* What awaits a process is the only one that does.
LEMMA UnicaEspera ==
  ASSUME UnaEspera, NEW p \in Procesos, NEW c \in Clases, NEW o \in Objetos, Espera(p, c, o)
  PROVE  /\ \A m \in Mutexes : Aguarda(p, m) => c = "mutex" /\ o = m
         /\ \A t \in Tipos : Pide(p, t) => c = "pedido" /\ o = t
         /\ \A t \in Tipos : oyente[t].pid = p /\ oyente[t].fase \in {"buscar", "aReady"} =>
              c = "oyente" /\ o = t
         /\ \A t \in Tipos : servicio[t].pid = p /\ servicio[t].fase \in {"buscar", "aReady"} =>
              c = "servicio" /\ o = t
         /\ \A q \in Procesos : hilo[q].otro = p /\ hilo[q].fase \in {"despertar", "aReady"} =>
              c = "hilo" /\ o = q
<1>1. \A d \in Clases, x \in Objetos : Espera(p, d, x) => c = d /\ o = x
  BY DEF UnaEspera
<1>2. \A m \in Mutexes : Aguarda(p, m) => Espera(p, "mutex", m)
  BY DEF Espera
<1>3. \A t \in Tipos : Pide(p, t) => Espera(p, "pedido", t)
  BY DEF Espera
<1>4. \A t \in Tipos : oyente[t].pid = p /\ oyente[t].fase \in {"buscar", "aReady"} =>
        Espera(p, "oyente", t)
  BY DEF Espera
<1>5. \A t \in Tipos : servicio[t].pid = p /\ servicio[t].fase \in {"buscar", "aReady"} =>
        Espera(p, "servicio", t)
  BY DEF Espera
<1>6. \A q \in Procesos : hilo[q].otro = p /\ hilo[q].fase \in {"despertar", "aReady"} =>
        Espera(p, "hilo", q)
  BY DEF Espera
<1> QED BY <1>1, <1>2, <1>3, <1>4, <1>5, <1>6 DEF Clases, Objetos

\* tomarMutex of a free mutex: its owner holds it at once.
LEMMA EsperasTrasTomarLibre ==
  ASSUME TypeInv, Esperas, NEW p \in Procesos, NEW m \in Mutexes, hilo[p].fase = "lock",
         duenio[m] = Ninguno, duenio' = [duenio EXCEPT ![m] = p],
         tiene' = [tiene EXCEPT ![p] = @ \cup {m}], hilo' = Responder(p),
         UNCHANGED <<lugar, espera, pedidos, servicio, oyente, conexiones>>
  PROVE  Esperas'
<1>1. /\ hilo \in [Procesos -> Hilos] /\ duenio \in [Mutexes -> Pid]
      /\ tiene \in [Procesos -> SUBSET Mutexes]
  BY TiposDeEsperas
<1>2. /\ hilo'[p].fase = "programa" /\ \A q \in Procesos \ {p} : hilo'[q] = hilo[q]
  BY <1>1, HiloTipado DEF HiloOcioso
<1>3. /\ duenio'[m] = p /\ \A n \in Mutexes \ {m} : duenio'[n] = duenio[n]
      /\ tiene'[p] = tiene[p] \cup {m} /\ \A q \in Procesos \ {p} : tiene'[q] = tiene[q]
  BY <1>1
<1>4. /\ \A q \in Procesos, n \in Mutexes : Aguarda(q, n)' <=> Aguarda(q, n)
      /\ \A q \in Procesos, t \in Tipos : Pide(q, t)' <=> Pide(q, t)
      /\ SinRepetidos' <=> SinRepetidos
  BY DEF Aguarda, Pide, SinRepetidos, EsperaDistintos, PedidosDistintos
<1>5. \A q \in Procesos, n \in Mutexes : Heredado(q, n)' <=> Heredado(q, n)
  <2>1. \A q \in Procesos : ~Heredado(q, m)
    BY NingunoNoEsProceso DEF Heredado
  <2>2. \A q \in Procesos : ~Heredado(q, m)'
    BY <1>3 DEF Heredado
  <2>3. \A q \in Procesos, n \in Mutexes \ {m} : Heredado(q, n)' <=> Heredado(q, n)
    BY <1>3 DEF Heredado
  <2> QED BY <2>1, <2>2, <2>3
<1>6. /\ \A n \in Mutexes : ~Aguarda(p, n)
      /\ \A t \in Tipos : ~Pide(p, t)
      /\ \A t \in Tipos : oyente[t].pid = p => oyente[t].fase \notin {"buscar", "aReady"}
      /\ \A t \in Tipos : servicio[t].pid = p => servicio[t].fase \notin {"buscar", "aReady"}
      /\ \A q \in Procesos : hilo[q].otro = p => hilo[q].fase \notin {"despertar", "aReady"}
  BY SinEsperas DEF EnEspera
<1>7. lugar[p] = "EXEC"
  BY DEF Esperas, LugarDeFase, EnLlamada
<1>8. \A q \in Procesos, c \in Clases, o \in Objetos : Espera(q, c, o)' => Espera(q, c, o)
  BY <1>2, <1>4 DEF Espera
<1>9. UnaEspera'
  BY <1>8, UnaEsperaMenos DEF Esperas
<1>10. LugarDeFase'
  BY <1>2 DEF Esperas, LugarDeFase, EnLlamada
<1>11. EsperaMutex'
  BY <1>2, <1>4, <1>6 DEF Esperas, EsperaMutex
<1>12. EsperaPedido'
  BY <1>2, <1>4, <1>6 DEF Esperas, EsperaPedido
<1>13. EsperaOyente'
  BY <1>2, <1>6 DEF Esperas, EsperaOyente
<1>14. EsperaServicio'
  BY <1>2, <1>6 DEF Esperas, EsperaServicio
<1>15. EsperaHilo'
  <2>1. ASSUME NEW r \in Procesos, NEW q \in Procesos, hilo'[q].otro = r,
               hilo'[q].fase \in {"despertar", "aReady"}
        PROVE  /\ hilo'[r].fase = "programa" /\ Heredado(r, hilo[q].objeto)'
               /\ hilo'[q] = hilo[q] /\ (hilo[q].fase = "despertar" => lugar[r] = "BLOCK")
               /\ (hilo[q].fase = "aReady" => lugar[r] = "transito")
    <3>1. q # p /\ hilo'[q] = hilo[q]
      BY <1>2, <2>1
    <3>2. hilo[r].fase = "programa" /\ Heredado(r, hilo[q].objeto) /\ r # p
          /\ (hilo[q].fase = "despertar" => lugar[r] = "BLOCK")
          /\ (hilo[q].fase = "aReady" => lugar[r] = "transito")
      BY <1>6, <2>1, <3>1 DEF Esperas, EsperaHilo
    <3>3. hilo[q].objeto \in Mutexes
      BY <2>1, <3>1 DEF TypeInv, EnCurso
    <3> QED BY <1>2, <1>5, <3>1, <3>2, <3>3
  <2>2. \A q \in Procesos : hilo'[q].fase \in {"despertar", "aReady"} => hilo'[q].otro \in Procesos
    BY <1>2 DEF Esperas, EsperaHilo
  <2> QED BY <2>1, <2>2 DEF EsperaHilo, Heredado
<1>16. ConMotivo'
  <2>1. \A q \in Procesos : Motivo(q)' <=> Motivo(q)
    BY <1>4, <1>5 DEF Motivo
  <2> QED BY <1>2, <1>4, <1>5, <1>7, <2>1 DEF Esperas, ConMotivo, EnEspera
<1>17. Tenencia'
  BY <1>3, NingunoNoEsProceso DEF Esperas, Tenencia
<1> QED BY <1>4, <1>9, <1>10, <1>11, <1>12, <1>13, <1>14, <1>15, <1>16, <1>17 DEF Esperas

\* tomarMutex of a mutex that is taken: the caller queues.
LEMMA EsperasTrasEncolarse ==
  ASSUME TypeInv, Esperas, NEW p \in Procesos, NEW m \in Mutexes, hilo[p].fase = "lock",
         hilo[p].objeto = m, espera' = [espera EXCEPT ![m] = Append(@, p)],
         hilo'[p].fase = "buscar", hilo'[p].objeto = m,
         \A q \in Procesos \ {p} : hilo'[q] = hilo[q],
         UNCHANGED <<lugar, duenio, tiene, pedidos, servicio, oyente, conexiones>>
  PROVE  Esperas'
<1>1. /\ \A n \in Mutexes : ~Aguarda(p, n)
      /\ \A t \in Tipos : ~Pide(p, t)
      /\ \A t \in Tipos : oyente[t].pid = p => oyente[t].fase \notin {"buscar", "aReady"}
      /\ \A t \in Tipos : servicio[t].pid = p => servicio[t].fase \notin {"buscar", "aReady"}
      /\ \A q \in Procesos : hilo[q].otro = p => hilo[q].fase \notin {"despertar", "aReady"}
      /\ \A c \in Clases, o \in Objetos : ~Espera(p, c, o)
  BY SinEsperas DEF EnEspera
<1>2. /\ \A q \in Procesos, n \in Mutexes : Aguarda(q, n)' <=> Aguarda(q, n) \/ (n = m /\ q = p)
      /\ \A n \in Mutexes : EsperaDistintos(n)'
  BY <1>1, EsperaTrasAgregar DEF Esperas
<1>3. /\ \A q \in Procesos, t \in Tipos : Pide(q, t)' <=> Pide(q, t)
      /\ \A q \in Procesos, n \in Mutexes : Heredado(q, n)' <=> Heredado(q, n)
      /\ \A t \in Tipos : PedidosDistintos(t)' <=> PedidosDistintos(t)
  BY DEF Pide, Heredado, PedidosDistintos
<1>4. lugar[p] = "EXEC"
  BY DEF Esperas, LugarDeFase, EnLlamada
<1>5. \A q \in Procesos, c \in Clases, o \in Objetos :
        Espera(q, c, o)' => Espera(q, c, o) \/ (q = p /\ c = "mutex" /\ o = m)
  BY <1>2, <1>3 DEF Espera
<1>6. UnaEspera'
  <2>1. "mutex" \in Clases /\ m \in Objetos
    BY DEF Clases, Objetos
  <2> QED BY <1>1, <1>5, <2>1, UnaEsperaNace DEF Esperas
<1>7. SinRepetidos'
  BY <1>2, <1>3 DEF Esperas, SinRepetidos
<1>8. LugarDeFase'
  BY <1>4 DEF Esperas, LugarDeFase, EnLlamada
<1>9. EsperaMutex'
  BY <1>1, <1>2 DEF Esperas, EsperaMutex, EnEspera
<1>10. EsperaPedido'
  BY <1>1, <1>3 DEF Esperas, EsperaPedido
<1>11. EsperaOyente'
  BY <1>1 DEF Esperas, EsperaOyente
<1>12. EsperaServicio'
  BY <1>1 DEF Esperas, EsperaServicio
<1>13. EsperaHilo'
  BY <1>1 DEF Esperas, EsperaHilo, Heredado
<1>14. ConMotivo'
  <2>1. \A q \in Procesos : Motivo(q) => Motivo(q)'
    BY <1>2, <1>3 DEF Motivo
  <2> QED BY <1>2, <1>3, <1>4, <2>1 DEF Esperas, ConMotivo
<1>15. Tenencia'
  BY DEF Esperas, Tenencia
<1> QED BY <1>6, <1>7, <1>8, <1>9, <1>10, <1>11, <1>12, <1>13, <1>14, <1>15 DEF Esperas

\* liberarMutex with nobody in the queue.
LEMMA EsperasTrasLiberar ==
  ASSUME TypeInv, Esperas, NEW p \in Procesos, NEW m \in Mutexes, hilo[p].fase = "unlock",
         duenio[m] = p, duenio' = [duenio EXCEPT ![m] = Ninguno],
         tiene' = [tiene EXCEPT ![p] = @ \ {m}], hilo' = A(p, "recalcular"),
         UNCHANGED <<lugar, espera, pedidos, servicio, oyente, conexiones>>
  PROVE  Esperas'
<1>1. /\ hilo \in [Procesos -> Hilos] /\ duenio \in [Mutexes -> Pid]
      /\ tiene \in [Procesos -> SUBSET Mutexes]
  BY TiposDeEsperas
<1>2. /\ hilo'[p].fase = "recalcular" /\ \A q \in Procesos \ {p} : hilo'[q] = hilo[q]
  <2>1. "recalcular" \in Fases
    BY DEF Fases
  <2> QED BY <1>1, <2>1, HiloTipado
<1>3. /\ duenio'[m] = Ninguno /\ \A n \in Mutexes \ {m} : duenio'[n] = duenio[n]
      /\ tiene'[p] = tiene[p] \ {m} /\ \A q \in Procesos \ {p} : tiene'[q] = tiene[q]
  BY <1>1
<1>4. /\ \A q \in Procesos, n \in Mutexes : Aguarda(q, n)' <=> Aguarda(q, n)
      /\ \A q \in Procesos, t \in Tipos : Pide(q, t)' <=> Pide(q, t)
      /\ SinRepetidos' <=> SinRepetidos
  BY DEF Aguarda, Pide, SinRepetidos, EsperaDistintos, PedidosDistintos
<1>5. \A q \in Procesos \ {p}, n \in Mutexes : Heredado(q, n) => Heredado(q, n)'
  BY <1>3 DEF Heredado
<1>6. /\ \A n \in Mutexes : ~Aguarda(p, n)
      /\ \A t \in Tipos : ~Pide(p, t)
      /\ \A t \in Tipos : oyente[t].pid = p => oyente[t].fase \notin {"buscar", "aReady"}
      /\ \A t \in Tipos : servicio[t].pid = p => servicio[t].fase \notin {"buscar", "aReady"}
      /\ \A q \in Procesos : hilo[q].otro = p => hilo[q].fase \notin {"despertar", "aReady"}
  BY SinEsperas DEF EnEspera
<1>7. lugar[p] = "EXEC"
  BY DEF Esperas, LugarDeFase, EnLlamada
<1>8. \A q \in Procesos, c \in Clases, o \in Objetos : Espera(q, c, o)' => Espera(q, c, o)
  BY <1>2, <1>4 DEF Espera
<1>9. UnaEspera'
  BY <1>8, UnaEsperaMenos DEF Esperas
<1>10. LugarDeFase'
  BY <1>2, <1>7 DEF Esperas, LugarDeFase, EnLlamada
<1>11. EsperaMutex'
  BY <1>2, <1>4, <1>6 DEF Esperas, EsperaMutex
<1>12. EsperaPedido'
  BY <1>2, <1>4, <1>6 DEF Esperas, EsperaPedido
<1>13. EsperaOyente'
  BY <1>2, <1>6 DEF Esperas, EsperaOyente
<1>14. EsperaServicio'
  BY <1>2, <1>6 DEF Esperas, EsperaServicio
<1>15. EsperaHilo'
  <2>1. ASSUME NEW r \in Procesos, NEW q \in Procesos, hilo'[q].otro = r,
               hilo'[q].fase \in {"despertar", "aReady"}
        PROVE  /\ hilo'[r].fase = "programa" /\ Heredado(r, hilo[q].objeto)'
               /\ hilo'[q] = hilo[q] /\ (hilo[q].fase = "despertar" => lugar[r] = "BLOCK")
               /\ (hilo[q].fase = "aReady" => lugar[r] = "transito")
    <3>1. q # p /\ hilo'[q] = hilo[q]
      BY <1>2, <2>1
    <3>2. hilo[r].fase = "programa" /\ Heredado(r, hilo[q].objeto) /\ r # p
          /\ (hilo[q].fase = "despertar" => lugar[r] = "BLOCK")
          /\ (hilo[q].fase = "aReady" => lugar[r] = "transito")
      BY <1>6, <2>1, <3>1 DEF Esperas, EsperaHilo
    <3>3. hilo[q].objeto \in Mutexes
      BY <2>1, <3>1 DEF TypeInv, EnCurso
    <3> QED BY <1>2, <1>5, <3>1, <3>2, <3>3
  <2>2. \A q \in Procesos : hilo'[q].fase \in {"despertar", "aReady"} => hilo'[q].otro \in Procesos
    BY <1>2 DEF Esperas, EsperaHilo
  <2> QED BY <2>1, <2>2 DEF EsperaHilo, Heredado
<1>16. ConMotivo'
  <2>1. \A q \in Procesos \ {p} : Motivo(q) => Motivo(q)'
    BY <1>4, <1>5 DEF Motivo
  <2> QED BY <1>2, <1>4, <1>5, <1>7, <2>1 DEF Esperas, ConMotivo, EnEspera
<1>17. Tenencia'
  BY <1>3 DEF Esperas, Tenencia
<1> QED BY <1>4, <1>9, <1>10, <1>11, <1>12, <1>13, <1>14, <1>15, <1>16, <1>17 DEF Esperas

\* liberarMutex hands the mutex to q, the first of its queue.
LEMMA EsperasTrasCeder ==
  ASSUME TypeInv, Esperas, NEW p \in Procesos, NEW m \in Mutexes, hilo[p].fase = "unlock",
         hilo[p].objeto = m, duenio[m] = p, espera[m] # <<>>, NEW q, q = Head(espera[m]),
         duenio' = [duenio EXCEPT ![m] = q], espera' = [espera EXCEPT ![m] = Tail(@)],
         tiene' = [tiene EXCEPT ![p] = @ \ {m}],
         \A r \in Procesos \ {p} : hilo'[r] = hilo[r], hilo'[p].objeto = m,
         \/ lugar[q] = "BLOCK" /\ hilo'[p].fase = "despertar" /\ hilo'[p].otro = q
         \/ lugar[q] # "BLOCK" /\ hilo'[p].fase = "recalcular",
         UNCHANGED <<lugar, pedidos, servicio, oyente, conexiones>>
  PROVE  Esperas'
<1>1. duenio \in [Mutexes -> Pid] /\ tiene \in [Procesos -> SUBSET Mutexes]
  BY TiposDeEsperas
<1>2. /\ q \in Procesos /\ Aguarda(q, m)
      /\ \A r \in Procesos, n \in Mutexes : Aguarda(r, n)' <=> Aguarda(r, n) /\ ~(n = m /\ r = q)
      /\ \A n \in Mutexes : EsperaDistintos(n)'
  BY EsperaTrasSacar DEF Esperas
<1>3. /\ \A n \in Mutexes : ~Aguarda(p, n)
      /\ \A t \in Tipos : ~Pide(p, t)
      /\ \A t \in Tipos : oyente[t].pid = p => oyente[t].fase \notin {"buscar", "aReady"}
      /\ \A t \in Tipos : servicio[t].pid = p => servicio[t].fase \notin {"buscar", "aReady"}
      /\ \A r \in Procesos : hilo[r].otro = p => hilo[r].fase \notin {"despertar", "aReady"}
  BY SinEsperas DEF EnEspera
<1>4. q # p
  BY <1>2, <1>3
<1>5. /\ duenio'[m] = q /\ \A n \in Mutexes \ {m} : duenio'[n] = duenio[n]
      /\ tiene'[p] = tiene[p] \ {m} /\ \A r \in Procesos \ {p} : tiene'[r] = tiene[r]
  BY <1>1
<1>6. m \notin tiene[q]
  BY <1>2, <1>4 DEF Esperas, Tenencia
<1>7. /\ \A r \in Procesos \ {p}, n \in Mutexes : Heredado(r, n) => Heredado(r, n)'
      /\ Heredado(q, m)'
  BY <1>2, <1>4, <1>5, <1>6 DEF Heredado
<1>8. /\ \A r \in Procesos, t \in Tipos : Pide(r, t)' <=> Pide(r, t)
      /\ \A t \in Tipos : PedidosDistintos(t)' <=> PedidosDistintos(t)
  BY DEF Pide, PedidosDistintos
<1>9. lugar[p] = "EXEC"
  BY DEF Esperas, LugarDeFase, EnLlamada
<1>10. /\ Espera(q, "mutex", m) /\ "mutex" \in Clases /\ "hilo" \in Clases
       /\ m \in Objetos /\ p \in Objetos
  BY <1>2 DEF Espera, Clases, Objetos
<1>11. /\ \A t \in Tipos : ~Pide(q, t)
       /\ \A t \in Tipos : oyente[t].pid = q => oyente[t].fase \notin {"buscar", "aReady"}
       /\ \A t \in Tipos : servicio[t].pid = q => servicio[t].fase \notin {"buscar", "aReady"}
       /\ \A r \in Procesos : hilo[r].otro = q => hilo[r].fase \notin {"despertar", "aReady"}
  <2>1. UnaEspera
    BY DEF Esperas
  <2> QED BY <1>2, <1>10, <2>1, UnicaEspera
<1>12. lugar[q] = "BLOCK" => hilo[q].fase = "programa"
  BY <1>2, <1>4 DEF Esperas, EsperaMutex, LugarDeFase, EnLlamada, EnEspera
<1>13. UnaEspera'
  <2>1. \A r \in Procesos, c \in Clases, o \in Objetos : Espera(r, c, o)' =>
          \/ r = q /\ c = "hilo" /\ o = p
          \/ Espera(r, c, o) /\ ~(r = q /\ c = "mutex" /\ o = m)
    BY <1>2, <1>8 DEF Espera
  <2>2. UnaEspera
    BY DEF Esperas
  <2>3. \A r \in Procesos, c \in Clases, o \in Objetos : Espera(r, c, o)' =>
          \/ r = q /\ c = "hilo" /\ o = p
          \/ Espera(r, c, o) /\ ~(r = q /\ c = "mutex" /\ o = m)
    BY <2>1
  <2> HIDE DEF UnaEspera
  <2> QED BY ONLY <1>2, <1>10, <2>2, <2>3, UnaEsperaPasa
<1>14. SinRepetidos'
  BY <1>2, <1>8 DEF Esperas, SinRepetidos
<1>15. LugarDeFase'
  BY <1>9 DEF Esperas, LugarDeFase, EnLlamada
<1>16. EsperaMutex'
  BY <1>2, <1>3 DEF Esperas, EsperaMutex
<1>17. EsperaPedido'
  BY <1>3, <1>8 DEF Esperas, EsperaPedido
<1>18. EsperaOyente'
  BY <1>3 DEF Esperas, EsperaOyente
<1>19. EsperaServicio'
  BY <1>3 DEF Esperas, EsperaServicio
<1>20. EsperaHilo'
  <2>1. ASSUME NEW r \in Procesos, NEW s \in Procesos, hilo'[s].otro = r,
               hilo'[s].fase \in {"despertar", "aReady"}
        PROVE  /\ hilo'[r].fase = "programa" /\ duenio'[hilo'[s].objeto] = r /\ hilo'[s].objeto \notin tiene'[r]
               /\ (hilo'[s].fase = "despertar" => lugar[r] = "BLOCK")
               /\ (hilo'[s].fase = "aReady" => lugar[r] = "transito")
    <3>1. CASE s = p
      <4>1. r = q /\ lugar[q] = "BLOCK" /\ hilo'[s].fase = "despertar" /\ hilo'[s].objeto = m
        BY <2>1, <3>1
      <4> QED BY <1>2, <1>4, <1>7, <1>12, <4>1 DEF Heredado
    <3>2. CASE s # p
      <4>1. hilo'[s] = hilo[s]
        BY <3>2
      <4>2. hilo[r].fase = "programa" /\ Heredado(r, hilo[s].objeto) /\ r # p
            /\ (hilo[s].fase = "despertar" => lugar[r] = "BLOCK")
            /\ (hilo[s].fase = "aReady" => lugar[r] = "transito")
        BY <1>3, <2>1, <4>1 DEF Esperas, EsperaHilo
      <4>3. hilo[s].objeto \in Mutexes
        BY <2>1, <4>1 DEF TypeInv, EnCurso
      <4> QED BY <1>7, <4>1, <4>2, <4>3 DEF Heredado
    <3> QED BY <3>1, <3>2
  <2>2. \A s \in Procesos : hilo'[s].fase \in {"despertar", "aReady"} => hilo'[s].otro \in Procesos
    BY <1>2 DEF Esperas, EsperaHilo
  <2> QED BY <2>1, <2>2 DEF EsperaHilo, Heredado
<1>21. ConMotivo'
  <2>1. \A r \in Procesos \ {p} : Motivo(r) => Motivo(r)'
    BY <1>2, <1>7, <1>8 DEF Motivo
  <2>2. \A r \in Procesos \ {p}, n \in Mutexes :
          Aguarda(r, n) \/ Heredado(r, n) => Aguarda(r, n)' \/ Heredado(r, n)'
    BY <1>2, <1>7
  <2> QED BY <1>9, <2>1, <2>2 DEF Esperas, ConMotivo, EnEspera
<1>22. Tenencia'
  BY <1>5 DEF Esperas, Tenencia
<1> QED BY <1>13, <1>14, <1>15, <1>16, <1>17, <1>18, <1>19, <1>20, <1>21, <1>22 DEF Esperas

\* The thread that handed over a mutex moves its new owner to READY.
LEMMA EsperasTrasDespertar ==
  ASSUME TypeInv, Esperas, NEW p \in Procesos, SacarAlQueEspera(p) \/ EncolarAlQueEspera(p),
         UNCHANGED <<pedidos, servicio, oyente, conexiones>>
  PROVE  Esperas'
<1>1. /\ hilo \in [Procesos -> Hilos] /\ duenio \in [Mutexes -> Pid]
      /\ lugar \in [Procesos -> {"READY", "EXEC", "BLOCK", "EXIT", "transito"}]
      /\ tiene \in [Procesos -> SUBSET Mutexes]
  BY TiposDeEsperas
<1>2. hilo[p].fase \in {"despertar", "aReady"}
  BY DEF SacarAlQueEspera, EncolarAlQueEspera, EnFase
<1>3. /\ \/ SacarAlQueEspera(p) /\ hilo[p].fase = "despertar" /\ hilo' = A(p, "aReady")
         \/ EncolarAlQueEspera(p) /\ hilo[p].fase = "aReady" /\ hilo' = A(p, "recalcular")
      /\ UNCHANGED <<duenio, espera>>
  BY DEF SacarAlQueEspera, EncolarAlQueEspera, EnFase, mutexes
<1>4. /\ \A r \in Procesos \ {p} : hilo'[r] = hilo[r]
      /\ hilo'[p].objeto = hilo[p].objeto /\ hilo'[p].otro = hilo[p].otro
      /\ \/ SacarAlQueEspera(p) /\ hilo'[p].fase = "aReady"
         \/ EncolarAlQueEspera(p) /\ hilo'[p].fase = "recalcular"
  <2>1. "aReady" \in Fases /\ "recalcular" \in Fases
    BY DEF Fases
  <2>2. hilo'[p].otro = hilo[p].otro
    BY <1>1, <1>3 DEF A, Hilos
  <2> QED BY <1>1, <1>3, <2>1, <2>2, HiloTipado
<1>5. PICK q \in Procesos : q = hilo[p].otro
  BY <1>2 DEF Esperas, EsperaHilo
<1>6. PICK m \in Mutexes : m = hilo[p].objeto /\ lugar[p] = "EXEC"
  BY <1>2 DEF TypeInv, EnCurso, Esperas, LugarDeFase, EnLlamada
<1>7. /\ hilo[q].fase = "programa" /\ Heredado(q, m)
      /\ \/ hilo[p].fase = "despertar" /\ lugar[q] = "BLOCK"
         \/ hilo[p].fase = "aReady" /\ lugar[q] = "transito"
  BY <1>2, <1>5, <1>6 DEF Esperas, EsperaHilo
<1>8. q # p
  BY <1>2, <1>7
<1>9. /\ Espera(q, "hilo", p) /\ "hilo" \in Clases /\ p \in Objetos
  BY <1>2, <1>5 DEF Espera, Clases, Objetos
<1>10. /\ \A n \in Mutexes : ~Aguarda(q, n)
       /\ \A t \in Tipos : ~Pide(q, t)
       /\ \A t \in Tipos : oyente[t].pid = q => oyente[t].fase \notin {"buscar", "aReady"}
       /\ \A t \in Tipos : servicio[t].pid = q => servicio[t].fase \notin {"buscar", "aReady"}
       /\ \A r \in Procesos \ {p} : hilo[r].otro = q => hilo[r].fase \notin {"despertar", "aReady"}
  <2>1. UnaEspera
    BY DEF Esperas
  <2> QED BY <1>5, <1>9, <2>1, UnicaEspera
<1>11. /\ \A r \in Procesos, n \in Mutexes : Aguarda(r, n)' <=> Aguarda(r, n)
       /\ \A r \in Procesos, t \in Tipos : Pide(r, t)' <=> Pide(r, t)
       /\ SinRepetidos' <=> SinRepetidos
  BY <1>3 DEF Aguarda, Pide, SinRepetidos, EsperaDistintos, PedidosDistintos
<1>12. \/ /\ hilo[p].fase = "despertar" /\ hilo'[p].fase = "aReady" /\ lugar'[q] = "transito"
          /\ tiene' = tiene
       \/ /\ hilo[p].fase = "aReady" /\ hilo'[p].fase = "recalcular" /\ lugar'[q] = "READY"
          /\ tiene'[q] = tiene[q] \cup {m}
  BY <1>1, <1>4, <1>5, <1>6 DEF SacarAlQueEspera, EncolarAlQueEspera, SacarDeBlock, EncolarEnReady,
     EnFase, mutexes
<1>13. \A r \in Procesos \ {q} : lugar'[r] = lugar[r] /\ tiene'[r] = tiene[r]
  BY <1>1, <1>4, <1>5 DEF SacarAlQueEspera, EncolarAlQueEspera, SacarDeBlock, EncolarEnReady,
     mutexes
<1>14. /\ \A r \in Procesos \ {q}, n \in Mutexes : Heredado(r, n)' <=> Heredado(r, n)
       /\ hilo'[p].fase = "aReady" => (\A n \in Mutexes : Heredado(q, n)' <=> Heredado(q, n))
  <2>1. \A r \in Procesos \ {q}, n \in Mutexes : Heredado(r, n)' <=> Heredado(r, n)
    BY <1>3, <1>13 DEF Heredado
  <2>2. hilo'[p].fase = "aReady" => UNCHANGED <<tiene, duenio>>
    BY <1>3, <1>12
  <2>3. hilo'[p].fase = "aReady" => (\A n \in Mutexes : Heredado(q, n)' <=> Heredado(q, n))
    BY <2>2 DEF Heredado
  <2> QED BY <2>1, <2>3
<1>15. UnaEspera'
  <2>1. \A r \in Procesos, c \in Clases, o \in Objetos : Espera(r, c, o)' => Espera(r, c, o)
    BY <1>2, <1>4, <1>11 DEF Espera
  <2> QED BY <2>1, UnaEsperaMenos DEF Esperas
<1>16. LugarDeFase'
  BY <1>4, <1>7, <1>8, <1>12, <1>13 DEF Esperas, LugarDeFase, EnLlamada
<1>17. EsperaMutex'
  BY <1>2, <1>4, <1>6, <1>10, <1>11, <1>13 DEF Esperas, EsperaMutex, EnEspera
<1>18. EsperaPedido'
  BY <1>2, <1>4, <1>6, <1>10, <1>11, <1>13 DEF Esperas, EsperaPedido
<1>19. EsperaOyente'
  BY <1>2, <1>4, <1>6, <1>10, <1>13 DEF Esperas, EsperaOyente
<1>20. EsperaServicio'
  BY <1>2, <1>4, <1>6, <1>10, <1>13 DEF Esperas, EsperaServicio
<1>21. EsperaHilo'
  <2>1. ASSUME NEW r \in Procesos, NEW s \in Procesos, hilo'[s].otro = r,
               hilo'[s].fase \in {"despertar", "aReady"}
        PROVE  /\ hilo'[r].fase = "programa" /\ duenio'[hilo'[s].objeto] = r /\ hilo'[s].objeto \notin tiene'[r]
               /\ (hilo'[s].fase = "despertar" => lugar'[r] = "BLOCK")
               /\ (hilo'[s].fase = "aReady" => lugar'[r] = "transito")
    <3>1. CASE s = p
      <4>1. r = q /\ hilo'[s].fase = "aReady" /\ hilo'[s].objeto = m /\ lugar'[q] = "transito"
        BY <1>4, <1>5, <1>6, <1>12, <2>1, <3>1
      <4> QED BY <1>4, <1>5, <1>6, <1>7, <1>8, <1>14, <3>1, <4>1 DEF Heredado
    <3>2. CASE s # p
      <4>1. hilo'[s] = hilo[s]
        BY <1>4, <3>2
      <4>2. hilo[r].fase = "programa" /\ Heredado(r, hilo[s].objeto) /\ r # p /\ r # q
            /\ (hilo[s].fase = "despertar" => lugar[r] = "BLOCK")
            /\ (hilo[s].fase = "aReady" => lugar[r] = "transito")
        BY <1>2, <1>10, <2>1, <3>2, <4>1 DEF Esperas, EsperaHilo
      <4>3. hilo[s].objeto \in Mutexes
        BY <2>1, <4>1 DEF TypeInv, EnCurso
      <4> QED BY <1>4, <1>13, <1>14, <4>1, <4>2, <4>3 DEF Heredado
    <3> QED BY <3>1, <3>2
  <2>2. \A s \in Procesos : hilo'[s].fase \in {"despertar", "aReady"} => hilo'[s].otro \in Procesos
    BY <1>4, <1>5 DEF Esperas, EsperaHilo
  <2> QED BY <2>1, <2>2 DEF EsperaHilo, Heredado
<1>22. ConMotivo'
  <2>1. \A r \in Procesos \ {q} : Motivo(r)' <=> Motivo(r)
    BY <1>11, <1>14 DEF Motivo
  <2>2. lugar'[q] # "BLOCK" /\ hilo'[q].fase = "programa" /\ hilo'[p].fase \notin EnEspera
        /\ hilo'[p].fase \notin {"programa", "avisar"}
    BY <1>4, <1>5, <1>7, <1>8, <1>12 DEF EnEspera
  <2>3. \A r \in Procesos \ {p, q} : hilo'[r] = hilo[r] /\ lugar'[r] = lugar[r]
    BY <1>4, <1>13
  <2>4. "programa" \notin EnEspera
    BY DEF EnEspera
  <2> QED BY <1>11, <1>14, <2>1, <2>2, <2>3, <2>4 DEF Esperas, ConMotivo
<1>23. Tenencia'
  BY <1>3, <1>5, <1>7, <1>12, <1>13 DEF Esperas, Tenencia, Heredado
<1> QED BY <1>11, <1>15, <1>16, <1>17, <1>18, <1>19, <1>20, <1>21, <1>22, <1>23 DEF Esperas

\* The calls on mutexes, and the processes that are dispatched or end.
LEMMA EsperasDeMutexes ==
  ASSUME TypeInv, Esperas, UNCHANGED io,
         (PasoProcesos \/ PasoMutexes)
  PROVE  Esperas'
<1>1. UNCHANGED <<pedidos, servicio, oyente, conexiones>>
  BY DEF io, interfaz, equipo
<1>2. hilo \in [Procesos -> Hilos]
  BY TiposDeEsperas
<1>3. CASE PasoProcesos
  <2>1. PICK p \in Procesos : Despachar(p) \/ Salir(p)
    BY <1>3 DEF PasoProcesos
  <2>2. /\ \A q \in Procesos \ {p} : lugar'[q] = lugar[q]
        /\ UNCHANGED <<hilo, duenio, espera, tiene>>
        /\ lugar[p] \in {"READY", "EXEC"} /\ lugar'[p] \in {"EXEC", "EXIT"}
        /\ lugar[p] = "READY" \/ hilo[p].fase = "programa"
    BY <1>3, <2>1, TiposDeEsperas DEF Despachar, Salir, Corre, PasoProcesos, mutexes
  <2>3. hilo[p].fase \in {"programa", "avisar"}
    <3>1. hilo[p].fase \in Fases
      BY <1>2 DEF Hilos
    <3> QED BY <2>2, <3>1 DEF Esperas, LugarDeFase, EnLlamada, Fases
  <2> QED BY <1>1, <2>2, <2>3, EsperasTrasMover
<1>4. ASSUME NEW p \in Procesos, NEW f \in Fases \ {"despertar", "aReady"},
             hilo[p].fase \in EnLlamada \ {"despertar", "aReady"},
             hilo' = A(p, f) \/ hilo' = Responder(p),
             f \in EnLlamada, hilo[p].fase \in EnEspera => f \in EnEspera /\ hilo' = A(p, f),
             f \in EnEspera => hilo[p].fase \in EnEspera,
             UNCHANGED <<lugar, duenio, espera, tiene>>
      PROVE  Esperas'
  <2>1. /\ \A q \in Procesos \ {p} : hilo'[q] = hilo[q]
        /\ hilo'[p].fase = "programa" \/ (hilo'[p].fase = f /\ hilo'[p].objeto = hilo[p].objeto)
        /\ hilo[p].fase \in EnEspera => hilo'[p].fase = f
    <3>1. CASE hilo' = A(p, f)
      BY <1>2, <1>4, <3>1, HiloTipado
    <3>2. CASE hilo' = Responder(p)
      BY <1>2, <1>4, <3>2, HiloTipado DEF HiloOcioso
    <3> QED BY <1>4, <3>1, <3>2
  <2>2. lugar[p] = "EXEC"
    BY <1>4 DEF Esperas, LugarDeFase
  <2>3. "programa" \notin EnEspera
    BY DEF EnEspera
  <2> QED BY <1>1, <1>4, <2>1, <2>2, <2>3, EsperasTrasHilo
<1>5. CASE PasoMutexes
  <2>1. PICK p \in Procesos :
          \/ \E m \in Mutexes : CrearMutex(p, m) \/ PedirMutex(p, m)
          \/ TomarMutex(p) \/ BuscarDuenio(p) \/ BuscarDuenioEnReady(p) \/ Comparar(p)
          \/ Prestar(p) \/ BloquearPorMutex(p) \/ LiberarMutex(p) \/ SacarAlQueEspera(p)
          \/ EncolarAlQueEspera(p) \/ Recalcular(p) \/ Restituir(p)
    BY <1>5 DEF PasoMutexes
  <2>2. ASSUME NEW m \in Mutexes, CrearMutex(p, m) PROVE Esperas'
    <3>1. UNCHANGED <<lugar, hilo, duenio, espera, tiene>> /\ Corre(p)
      BY <2>2 DEF CrearMutex
    <3> QED BY <1>1, <3>1, EsperasTrasHilo DEF Corre, EnEspera, EnLlamada
  <2>3. ASSUME NEW m \in Mutexes, PedirMutex(p, m) PROVE Esperas'
    <3>1. PICK f \in {"lock", "unlock"} : Pedir(p, f, m) /\ UNCHANGED mutexes
      BY <2>3 DEF PedirMutex
    <3>2. /\ \A q \in Procesos \ {p} : hilo'[q] = hilo[q]
          /\ hilo'[p].fase = f /\ hilo[p].fase = "programa" /\ lugar[p] = "EXEC"
          /\ UNCHANGED <<lugar, duenio, espera, tiene>>
      BY <1>2, <3>1 DEF Pedir, Corre, HiloOcioso, mutexes
    <3> QED BY <1>1, <3>2, EsperasTrasHilo DEF EnEspera, EnLlamada
  <2>4. CASE TomarMutex(p)
    <3> DEFINE m == hilo[p].objeto
    <3>1. hilo[p].fase = "lock" /\ m \in Mutexes /\ UNCHANGED lugar
      BY <2>4 DEF TomarMutex, EnFase, TypeInv, EnCurso
    <3>2. CASE hilo' = A(p, "mudo") /\ UNCHANGED <<duenio, espera, tiene>>
      <4>1. "mudo" \in Fases \ {"despertar", "aReady"} /\ "lock" \in EnLlamada
            /\ "mudo" \in EnLlamada /\ "lock" \notin EnEspera /\ "mudo" \notin EnEspera
        BY DEF Fases, EnLlamada, EnEspera
      <4> QED BY <1>4, <3>1, <3>2, <4>1
    <3>3. CASE /\ duenio[m] = Ninguno /\ duenio' = [duenio EXCEPT ![m] = p]
               /\ tiene' = [tiene EXCEPT ![p] = @ \cup {m}]
               /\ hilo' = Responder(p) /\ UNCHANGED espera
      BY <1>1, <3>1, <3>3, EsperasTrasTomarLibre
    <3>4. CASE /\ espera' = [espera EXCEPT ![m] = Append(@, p)]
               /\ hilo' = [hilo EXCEPT ![p].fase = "buscar", ![p].otro = duenio[m]]
               /\ UNCHANGED <<duenio, tiene>>
      <4>1. duenio[m] \in Pid /\ "buscar" \in Fases /\ 0 \in Nat
        BY <3>1, TiposDeEsperas DEF Fases
      <4>2. /\ hilo'[p].fase = "buscar" /\ hilo'[p].objeto = m
            /\ \A q \in Procesos \ {p} : hilo'[q] = hilo[q]
        BY <1>2, <3>4, <4>1, HiloCon
      <4> QED BY <1>1, <3>1, <3>4, <4>2, EsperasTrasEncolarse
    <3> QED BY <2>4, <3>2, <3>3, <3>4 DEF TomarMutex
  <2>5. CASE BuscarDuenio(p) \/ BuscarDuenioEnReady(p) \/ Comparar(p) \/ Prestar(p)
    <3>1. PICK f \in {"comparar", "buscarReady", "bloquear", "prestar"} :
            hilo' = A(p, f) /\ hilo[p].fase \in {"buscar", "buscarReady", "comparar", "prestar"}
            /\ UNCHANGED <<lugar, duenio, espera, tiene>>
      BY <2>5 DEF BuscarDuenio, BuscarDuenioEnReady, Comparar, Prestar, EnFase, mutexes
    <3>2. /\ f \in Fases \ {"despertar", "aReady"} /\ f \in EnLlamada /\ f \in EnEspera
          /\ hilo[p].fase \in EnLlamada \ {"despertar", "aReady"} /\ hilo[p].fase \in EnEspera
      BY <3>1 DEF Fases, EnLlamada, EnEspera
    <3> QED BY <1>4, <3>1, <3>2
  <2>6. CASE BloquearPorMutex(p)
    <3>1. UNCHANGED <<duenio, espera, tiene>>
      BY <2>6 DEF BloquearPorMutex, mutexes
    <3> QED BY <1>1, <2>6, <3>1, EsperasTrasBloquear DEF BloquearPorMutex
  <2>7. CASE LiberarMutex(p)
    <3> DEFINE m == hilo[p].objeto
               q == Head(espera[m])
    <3>1. hilo[p].fase = "unlock" /\ m \in Mutexes /\ UNCHANGED lugar
      BY <2>7 DEF LiberarMutex, EnFase, TypeInv, EnCurso
    <3>2. CASE hilo' = Responder(p) /\ UNCHANGED <<duenio, espera, tomados, tiene>>
      <4>1. "recalcular" \in Fases \ {"despertar", "aReady"} /\ "unlock" \in EnLlamada
            /\ "recalcular" \in EnLlamada /\ "unlock" \notin EnEspera /\ "recalcular" \notin EnEspera
        BY DEF Fases, EnLlamada, EnEspera
      <4> QED BY <1>4, <3>1, <3>2, <4>1
    <3>3. CASE /\ duenio[m] = p /\ duenio' = [duenio EXCEPT ![m] = Ninguno]
               /\ tiene' = [tiene EXCEPT ![p] = @ \ {m}]
               /\ hilo' = A(p, "recalcular") /\ UNCHANGED espera
      BY <1>1, <3>1, <3>3, EsperasTrasLiberar
    <3>4. CASE /\ duenio[m] = p /\ espera[m] # <<>>
               /\ duenio' = [duenio EXCEPT ![m] = q] /\ espera' = [espera EXCEPT ![m] = Tail(@)]
               /\ tiene' = [tiene EXCEPT ![p] = @ \ {m}]
               /\ \/ lugar[q] = "BLOCK" /\ hilo' = [hilo EXCEPT ![p].fase = "despertar", ![p].otro = q]
                  \/ lugar[q] # "BLOCK" /\ hilo' = A(p, "recalcular")
      <4>1. q \in Procesos /\ q \in Pid
        BY <3>1, <3>4, EsperaTrasSacar DEF Esperas, Pid
      <4>2. "despertar" \in Fases /\ "recalcular" \in Fases /\ 0 \in Nat
        BY DEF Fases
      <4>3. /\ hilo'[p].objeto = m /\ \A r \in Procesos \ {p} : hilo'[r] = hilo[r]
            /\ \/ lugar[q] = "BLOCK" /\ hilo'[p].fase = "despertar"
               \/ lugar[q] # "BLOCK" /\ hilo'[p].fase = "recalcular"
        <5>1. CASE lugar[q] = "BLOCK" /\ hilo' = [hilo EXCEPT ![p].fase = "despertar", ![p].otro = q]
          <6> HIDE DEF q
          <6> QED BY <1>2, <4>1, <4>2, <5>1, HiloCon
        <5>2. CASE lugar[q] # "BLOCK" /\ hilo' = A(p, "recalcular")
          BY <1>2, <4>2, <5>2, HiloTipado
        <5> QED BY <3>4, <5>1, <5>2
      <4>4. lugar[q] = "BLOCK" => hilo'[p].otro = q
        <5>1. CASE lugar[q] = "BLOCK" /\ hilo' = [hilo EXCEPT ![p].fase = "despertar", ![p].otro = q]
          <6> DEFINE h == hilo[p]
                     k == [h EXCEPT !.fase = "despertar", !.otro = q]
          <6>1. h \in Hilos /\ hilo' = [hilo EXCEPT ![p] = k]
            BY <1>2, <5>1
          <6>2. k.otro = q
            <7> HIDE DEF h, q
            <7> QED BY <6>1 DEF Hilos
          <6> HIDE DEF k, q
          <6> QED BY <1>2, <6>1, <6>2
        <5> QED BY <3>4, <5>1
      <4>5. PICK n \in Mutexes : n = m
        BY <3>1
      <4>6. PICK r \in Procesos : r = q
        BY <4>1
      <4> HIDE DEF m, q
      <4>7. /\ duenio[n] = p /\ espera[n] # <<>> /\ hilo[p].objeto = n /\ r = Head(espera[n])
            /\ duenio' = [duenio EXCEPT ![n] = r] /\ espera' = [espera EXCEPT ![n] = Tail(@)]
            /\ tiene' = [tiene EXCEPT ![p] = @ \ {n}]
            /\ \A s \in Procesos \ {p} : hilo'[s] = hilo[s]
            /\ \/ lugar[r] = "BLOCK" /\ hilo'[p].fase = "despertar" /\ hilo'[p].otro = r
               \/ lugar[r] # "BLOCK" /\ hilo'[p].fase = "recalcular"
        BY <3>4, <4>3, <4>4, <4>5, <4>6 DEF m, q
      <4>8. hilo'[p].objeto = n
        BY <4>3, <4>5
      <4> QED BY <1>1, <3>1, <4>7, <4>8, EsperasTrasCeder
    <3> QED BY <2>7, <3>2, <3>3, <3>4 DEF LiberarMutex
  <2>8. CASE SacarAlQueEspera(p) \/ EncolarAlQueEspera(p)
    BY <1>1, <2>8, EsperasTrasDespertar
  <2>9. CASE Recalcular(p) \/ Restituir(p)
    <3>1. "recalcular" \in EnLlamada /\ "restituir" \in EnLlamada /\ "restituir" \in Fases
          /\ "recalcular" \notin EnEspera /\ "restituir" \notin EnEspera
      BY DEF Fases, EnLlamada, EnEspera
    <3>2. hilo'[p].fase \in {"restituir", "programa"} /\ hilo[p].fase \in {"recalcular", "restituir"}
          /\ (\A q \in Procesos \ {p} : hilo'[q] = hilo[q]) /\ UNCHANGED <<lugar, duenio, espera, tiene>>
      <4>1. CASE Recalcular(p)
        <5> DEFINE v == Min({Base[p]} \cup {prioridad[q] : q \in
                          {q \in Procesos : /\ lugar[q] # "transito"
                                            /\ \E m \in tomados[p] : \E i \in DOMAIN espera[m] :
                                                 espera[m][i] = q}})
        <5>1. hilo[p].fase = "recalcular" /\ UNCHANGED <<lugar, duenio, espera, tiene>>
              /\ hilo' = [hilo EXCEPT ![p].fase = "restituir", ![p].valor = v]
          BY <4>1 DEF Recalcular, EnFase, mutexes
        <5> HIDE DEF v
        <5> DEFINE h == hilo[p]
                   k == [h EXCEPT !.fase = "restituir", !.valor = v]
        <5>2. h \in Hilos /\ hilo' = [hilo EXCEPT ![p] = k]
          BY <1>2, <5>1
        <5>3. k.fase = "restituir"
          <6> HIDE DEF h
          <6> QED BY <5>2 DEF Hilos
        <5> HIDE DEF k
        <5> QED BY <1>2, <5>1, <5>2, <5>3
      <4>2. CASE Restituir(p)
        BY <1>2, <4>2, HiloTipado DEF Restituir, EnFase, HiloOcioso
      <4> QED BY <2>9, <4>1, <4>2
    <3>3. lugar[p] = "EXEC"
      BY <3>1, <3>2 DEF Esperas, LugarDeFase
    <3>4. "programa" \notin EnEspera
      BY DEF EnEspera
    <3> QED BY <1>1, <3>1, <3>2, <3>3, <3>4, EsperasTrasHilo
  <2> QED BY <2>1, <2>2, <2>3, <2>4, <2>5, <2>6, <2>7, <2>8, <2>9
<1> QED BY <1>3, <1>5

-----------------------------------------------------------------------------
(* The same over the steps of I/O.                                         *)

\* manejar_sleep, manejar_stdin and manejar_stdout queue the request, then post.
LEMMA EsperasTrasEncolarPedido ==
  ASSUME TypeInv, Esperas, NEW p \in Procesos, EncolarPedido(p), UNCHANGED mutexes
  PROVE  Esperas'
<1>1. hilo \in [Procesos -> Hilos] /\ "avisar" \in Fases
  BY TiposDeEsperas DEF Fases
<1>2. /\ hilo[p].fase = "encolarPedido" /\ hilo' = A(p, "avisar")
      /\ pedidos' = [pedidos EXCEPT ![hilo[p].objeto] = Append(@, [pid |-> p, leido |-> FALSE])]
      /\ UNCHANGED <<lugar, duenio, espera, tiene, servicio, oyente, conexiones>>
  BY DEF EncolarPedido, EnFase, mutexes, equipo
<1>3. /\ hilo'[p].fase = "avisar" /\ hilo'[p].objeto = hilo[p].objeto
      /\ \A q \in Procesos \ {p} : hilo'[q] = hilo[q]
  BY <1>1, <1>2, HiloTipado
<1>4. PICK t \in Tipos : t = hilo[p].objeto
  BY <1>2 DEF Esperas, LugarDeFase
<1>5. lugar[p] = "BLOCK"
  BY <1>2 DEF Esperas, LugarDeFase
<1>6. /\ \A n \in Mutexes : ~Aguarda(p, n)
      /\ \A u \in Tipos : ~Pide(p, u)
      /\ \A u \in Tipos : oyente[u].pid = p => oyente[u].fase \notin {"buscar", "aReady"}
      /\ \A u \in Tipos : servicio[u].pid = p => servicio[u].fase \notin {"buscar", "aReady"}
      /\ \A q \in Procesos : hilo[q].otro = p => hilo[q].fase \notin {"despertar", "aReady"}
      /\ \A c \in Clases, o \in Objetos : ~Espera(p, c, o)
  BY <1>2, SinEsperas DEF EnEspera
<1>7. /\ \A q \in Procesos, u \in Tipos : Pide(q, u)' <=> Pide(q, u) \/ (u = t /\ q = p)
      /\ \A u \in Tipos : PedidosDistintos(u)'
  BY <1>2, <1>4, <1>6, PedidosTrasAgregar DEF Esperas
<1>8. /\ \A q \in Procesos, n \in Mutexes : Aguarda(q, n)' <=> Aguarda(q, n)
      /\ \A q \in Procesos, n \in Mutexes : Heredado(q, n)' <=> Heredado(q, n)
      /\ \A n \in Mutexes : EsperaDistintos(n)' <=> EsperaDistintos(n)
  BY <1>2 DEF Aguarda, Heredado, EsperaDistintos
<1>9. UnaEspera'
  <2>1. \A q \in Procesos, c \in Clases, o \in Objetos :
          Espera(q, c, o)' => Espera(q, c, o) \/ (q = p /\ c = "pedido" /\ o = t)
    BY <1>2, <1>3, <1>7, <1>8 DEF Espera
  <2>2. "pedido" \in Clases /\ t \in Objetos
    BY DEF Clases, Objetos
  <2>3. UnaEspera
    BY DEF Esperas
  <2> QED BY ONLY <1>6, <2>1, <2>2, <2>3, UnaEsperaNace
<1>10. SinRepetidos'
  BY <1>7, <1>8 DEF Esperas, SinRepetidos
<1>11. LugarDeFase'
  BY <1>2, <1>3, <1>4 DEF Esperas, LugarDeFase, EnLlamada
<1>12. EsperaMutex'
  BY <1>2, <1>3, <1>6, <1>8 DEF Esperas, EsperaMutex
<1>13. EsperaPedido'
  BY <1>2, <1>3, <1>5, <1>7 DEF Esperas, EsperaPedido
<1>14. EsperaOyente'
  BY <1>2, <1>3, <1>6 DEF Esperas, EsperaOyente
<1>15. EsperaServicio'
  BY <1>2, <1>3, <1>6 DEF Esperas, EsperaServicio
<1>16. EsperaHilo'
  BY <1>2, <1>3, <1>6 DEF Esperas, EsperaHilo, Heredado
<1>17. ConMotivo'
  <2>1. \A q \in Procesos : Motivo(q) => Motivo(q)'
    BY <1>2, <1>7, <1>8 DEF Motivo
  <2>2. Motivo(p)'
    BY <1>7 DEF Motivo
  <2> QED BY <1>2, <1>3, <1>8, <2>1, <2>2 DEF Esperas, ConMotivo, EnEspera
<1>18. Tenencia'
  BY <1>2 DEF Esperas, Tenencia
<1> QED BY <1>9, <1>10, <1>11, <1>12, <1>13, <1>14, <1>15, <1>16, <1>17, <1>18 DEF Esperas

LEMMA EsperasTrasAvisar ==
  ASSUME TypeInv, Esperas, NEW p \in Procesos, AvisarPedido(p), UNCHANGED mutexes
  PROVE  Esperas'
<1>1. hilo \in [Procesos -> Hilos]
  BY TiposDeEsperas
<1>2. /\ hilo[p].fase = "avisar" /\ hilo' = Responder(p)
      /\ UNCHANGED <<lugar, duenio, espera, tiene, pedidos, servicio, oyente, conexiones>>
  BY DEF AvisarPedido, EnFase, mutexes, equipo, interfaz
<1>3. /\ hilo'[p].fase = "programa" /\ \A q \in Procesos \ {p} : hilo'[q] = hilo[q]
  BY <1>1, <1>2, HiloTipado DEF HiloOcioso
<1>4. /\ \A q \in Procesos, n \in Mutexes : Aguarda(q, n)' <=> Aguarda(q, n)
      /\ \A q \in Procesos, n \in Mutexes : Heredado(q, n)' <=> Heredado(q, n)
      /\ \A q \in Procesos, t \in Tipos : Pide(q, t)' <=> Pide(q, t)
      /\ SinRepetidos' <=> SinRepetidos
  BY <1>2 DEF Aguarda, Heredado, Pide, SinRepetidos, EsperaDistintos, PedidosDistintos
<1>5. /\ \A n \in Mutexes : ~Aguarda(p, n)
      /\ \A q \in Procesos : hilo[q].otro = p => hilo[q].fase \notin {"despertar", "aReady"}
  BY <1>2 DEF Esperas, EsperaMutex, EsperaHilo, EnEspera
<1>6. UnaEspera'
  <2>1. \A q \in Procesos, c \in Clases, o \in Objetos : Espera(q, c, o)' => Espera(q, c, o)
    BY <1>2, <1>3, <1>4 DEF Espera
  <2> QED BY <2>1, UnaEsperaMenos DEF Esperas
<1>7. LugarDeFase'
  BY <1>2, <1>3 DEF Esperas, LugarDeFase, EnLlamada
<1>8. EsperaMutex'
  BY <1>2, <1>3, <1>4, <1>5 DEF Esperas, EsperaMutex
<1>9. EsperaPedido'
  BY <1>2, <1>3, <1>4 DEF Esperas, EsperaPedido
<1>10. EsperaOyente'
  BY <1>2, <1>3 DEF Esperas, EsperaOyente
<1>11. EsperaServicio'
  BY <1>2, <1>3 DEF Esperas, EsperaServicio
<1>12. EsperaHilo'
  BY <1>2, <1>3, <1>5 DEF Esperas, EsperaHilo, Heredado
<1>13. ConMotivo'
  <2>1. \A q \in Procesos : Motivo(q)' <=> Motivo(q)
    BY <1>2, <1>4 DEF Motivo
  <2> QED BY <1>2, <1>3, <1>4, <2>1 DEF Esperas, ConMotivo, EnEspera
<1>14. Tenencia'
  BY <1>2 DEF Esperas, Tenencia
<1> QED BY <1>4, <1>6, <1>7, <1>8, <1>9, <1>10, <1>11, <1>12, <1>13, <1>14 DEF Esperas

\* A device, its service and its listener go on, and nobody is moved nor retired.
LEMMA EsperasTrasAparato ==
  ASSUME TypeInv, Esperas, UNCHANGED <<lugar, hilo, duenio, espera, tiene>>,
         \A p \in Procesos, t \in Tipos : Pide(p, t)' <=> Pide(p, t),
         \A t \in Tipos : PedidosDistintos(t)',
         \A t \in Tipos :
           \/ servicio'[t] = servicio[t]
           \/ servicio[t].fase \notin {"buscar", "aReady"} /\ servicio'[t].fase \notin {"buscar", "aReady"},
         \A t \in Tipos :
           \/ oyente'[t] = oyente[t]
           \/ /\ oyente[t].fase \notin {"buscar", "aReady"} /\ oyente'[t].fase \notin {"buscar", "aReady"}
              /\ oyente[t].fase # "sinDispositivo" \/ conexiones[t] = 0,
         \A t \in Tipos : conexiones[t] # 0 => conexiones'[t] # 0
  PROVE  Esperas'
<1>1. /\ \A q \in Procesos, n \in Mutexes : Aguarda(q, n)' <=> Aguarda(q, n)
      /\ \A q \in Procesos, n \in Mutexes : Heredado(q, n)' <=> Heredado(q, n)
      /\ \A n \in Mutexes : EsperaDistintos(n)' <=> EsperaDistintos(n)
  BY DEF Aguarda, Heredado, EsperaDistintos
<1>2. UnaEspera'
  <2>1. \A q \in Procesos, c \in Clases, o \in Objetos : Espera(q, c, o)' => Espera(q, c, o)
    BY <1>1 DEF Espera
  <2> QED BY <2>1, UnaEsperaMenos DEF Esperas
<1>3. SinRepetidos'
  BY <1>1 DEF Esperas, SinRepetidos
<1>4. LugarDeFase' /\ Tenencia'
  BY DEF Esperas, LugarDeFase, Tenencia
<1>5. EsperaMutex'
  BY <1>1 DEF Esperas, EsperaMutex
<1>6. EsperaPedido'
  BY DEF Esperas, EsperaPedido
<1>7. EsperaOyente'
  BY DEF Esperas, EsperaOyente
<1>8. EsperaServicio'
  BY DEF Esperas, EsperaServicio
<1>9. EsperaHilo'
  BY DEF Esperas, EsperaHilo, Heredado
<1>10. ConMotivo'
  <2>1. \A q \in Procesos : Motivo(q) => Motivo(q)'
    BY <1>1 DEF Motivo
  <2> QED BY <1>1, <2>1 DEF Esperas, ConMotivo
<1> QED BY <1>2, <1>3, <1>4, <1>5, <1>6, <1>7, <1>8, <1>9, <1>10 DEF Esperas

\* The listener moves the process out of BLOCK, which it always finds there.
LEMMA EsperasTrasDespertarIO ==
  ASSUME TypeInv, Esperas, NEW t \in Tipos, DespertarTrasIO(t), UNCHANGED mutexes
  PROVE  Esperas'
<1>1. /\ oyente \in [Tipos -> Oyentes]
      /\ lugar \in [Procesos -> {"READY", "EXEC", "BLOCK", "EXIT", "transito"}]
  BY TiposDeEsperas
<1>2. oyente[t].fase \in {"buscar", "aReady"}
  BY DEF DespertarTrasIO
<1>3. PICK p \in Procesos : p = oyente[t].pid
  BY <1>2 DEF Esperas, EsperaOyente
<1>4. /\ hilo[p].fase \in {"programa", "avisar"}
      /\ oyente[t].fase = "buscar" => lugar[p] = "BLOCK"
      /\ oyente[t].fase = "aReady" => lugar[p] = "transito"
  BY <1>2, <1>3 DEF Esperas, EsperaOyente
<1>5. UNCHANGED <<hilo, duenio, espera, tiene, pedidos, servicio, conexiones>>
  BY DEF DespertarTrasIO, mutexes, interfaz, equipo
<1>6. /\ \A u \in Tipos \ {t} : oyente'[u] = oyente[u]
      /\ \A q \in Procesos \ {p} : lugar'[q] = lugar[q]
      /\ \/ /\ oyente[t].fase = "buscar" /\ oyente'[t].fase = "aReady" /\ oyente'[t].pid = p
            /\ lugar'[p] = "transito"
         \/ oyente[t].fase = "aReady" /\ oyente'[t].fase = "liberar" /\ lugar'[p] = "READY"
  BY <1>1, <1>3, <1>4 DEF DespertarTrasIO, SacarDeBlock, EncolarEnReady, OyenteA, Oyentes
<1>7. /\ \A q \in Procesos, n \in Mutexes : Aguarda(q, n)' <=> Aguarda(q, n)
      /\ \A q \in Procesos, n \in Mutexes : Heredado(q, n)' <=> Heredado(q, n)
      /\ \A q \in Procesos, u \in Tipos : Pide(q, u)' <=> Pide(q, u)
      /\ SinRepetidos' <=> SinRepetidos
  BY <1>5 DEF Aguarda, Heredado, Pide, SinRepetidos, EsperaDistintos, PedidosDistintos
<1>8. /\ \A n \in Mutexes : ~Aguarda(p, n)
      /\ \A u \in Tipos : ~Pide(p, u)
      /\ \A u \in Tipos \ {t} : oyente[u].pid = p => oyente[u].fase \notin {"buscar", "aReady"}
      /\ \A u \in Tipos : servicio[u].pid = p => servicio[u].fase \notin {"buscar", "aReady"}
      /\ \A q \in Procesos : hilo[q].otro = p => hilo[q].fase \notin {"despertar", "aReady"}
  <2>1. Espera(p, "oyente", t) /\ "oyente" \in Clases /\ t \in Objetos
    BY <1>2, <1>3 DEF Espera, Clases, Objetos
  <2>2. UnaEspera
    BY DEF Esperas
  <2> QED BY <2>1, <2>2, UnicaEspera
<1>9. UnaEspera'
  <2>1. \A q \in Procesos, c \in Clases, o \in Objetos : Espera(q, c, o)' => Espera(q, c, o)
    BY <1>3, <1>5, <1>6, <1>7 DEF Espera
  <2> QED BY <2>1, UnaEsperaMenos DEF Esperas
<1>10. LugarDeFase'
  BY <1>4, <1>5, <1>6 DEF Esperas, LugarDeFase, EnLlamada
<1>11. EsperaMutex'
  BY <1>5, <1>6, <1>7, <1>8 DEF Esperas, EsperaMutex
<1>12. EsperaPedido'
  BY <1>2, <1>5, <1>6, <1>7, <1>8 DEF Esperas, EsperaPedido
<1>13. EsperaOyente'
  BY <1>3, <1>4, <1>5, <1>6, <1>8 DEF Esperas, EsperaOyente
<1>14. EsperaServicio'
  BY <1>5, <1>6, <1>8 DEF Esperas, EsperaServicio
<1>15. EsperaHilo'
  BY <1>5, <1>6, <1>8 DEF Esperas, EsperaHilo, Heredado
<1>16. ConMotivo'
  <2>1. \A q \in Procesos \ {p} : Motivo(q) => Motivo(q)'
    BY <1>3, <1>5, <1>6, <1>7 DEF Motivo
  <2>2. hilo[p].fase \notin EnEspera /\ lugar'[p] # "BLOCK"
    BY <1>4, <1>6 DEF EnEspera
  <2> QED BY <1>5, <1>6, <1>7, <2>1, <2>2 DEF Esperas, ConMotivo
<1>17. Tenencia'
  BY <1>5 DEF Esperas, Tenencia
<1> QED BY <1>7, <1>9, <1>10, <1>11, <1>12, <1>13, <1>14, <1>15, <1>16, <1>17 DEF Esperas

\* And so does the service of STDIN.
LEMMA EsperasTrasDespertarSTDIN ==
  ASSUME TypeInv, Esperas, NEW t \in Tipos, DespertarTrasSTDIN(t), UNCHANGED mutexes
  PROVE  Esperas'
<1>1. /\ servicio \in [Tipos -> Servicios]
      /\ lugar \in [Procesos -> {"READY", "EXEC", "BLOCK", "EXIT", "transito"}]
  BY TiposDeEsperas
<1>2. servicio[t].fase \in {"buscar", "aReady"}
  BY DEF DespertarTrasSTDIN, Sirve
<1>3. PICK p \in Procesos : p = servicio[t].pid
  BY <1>2 DEF TypeInv, EnCurso
<1>4. /\ hilo[p].fase \in {"programa", "avisar"}
      /\ servicio[t].fase = "buscar" => lugar[p] = "BLOCK"
      /\ servicio[t].fase = "aReady" => lugar[p] = "transito"
  BY <1>2, <1>3 DEF Esperas, EsperaServicio
<1>5. UNCHANGED <<hilo, duenio, espera, tiene, pedidos, oyente, conexiones>>
  BY DEF DespertarTrasSTDIN, mutexes, interfaz, equipo
<1>6. /\ \A u \in Tipos \ {t} : servicio'[u] = servicio[u]
      /\ \A q \in Procesos \ {p} : lugar'[q] = lugar[q]
      /\ \/ /\ servicio[t].fase = "buscar" /\ servicio'[t].fase = "aReady" /\ servicio'[t].pid = p
            /\ lugar'[p] = "transito"
         \/ servicio[t].fase = "aReady" /\ servicio'[t].fase = "esperar" /\ lugar'[p] = "READY"
  BY <1>1, <1>3, <1>4
     DEF DespertarTrasSTDIN, SacarDeBlock, EncolarEnReady, ServicioA, Servicios, Sirve, Ocioso
<1>7. /\ \A q \in Procesos, n \in Mutexes : Aguarda(q, n)' <=> Aguarda(q, n)
      /\ \A q \in Procesos, n \in Mutexes : Heredado(q, n)' <=> Heredado(q, n)
      /\ \A q \in Procesos, u \in Tipos : Pide(q, u)' <=> Pide(q, u)
      /\ SinRepetidos' <=> SinRepetidos
  BY <1>5 DEF Aguarda, Heredado, Pide, SinRepetidos, EsperaDistintos, PedidosDistintos
<1>8. /\ \A n \in Mutexes : ~Aguarda(p, n)
      /\ \A u \in Tipos : ~Pide(p, u)
      /\ \A u \in Tipos : oyente[u].pid = p => oyente[u].fase \notin {"buscar", "aReady"}
      /\ \A u \in Tipos \ {t} : servicio[u].pid = p => servicio[u].fase \notin {"buscar", "aReady"}
      /\ \A q \in Procesos : hilo[q].otro = p => hilo[q].fase \notin {"despertar", "aReady"}
  <2>1. Espera(p, "servicio", t) /\ "servicio" \in Clases /\ t \in Objetos
    BY <1>2, <1>3 DEF Espera, Clases, Objetos
  <2>2. UnaEspera
    BY DEF Esperas
  <2> QED BY <2>1, <2>2, UnicaEspera
<1>9. UnaEspera'
  <2>1. \A q \in Procesos, c \in Clases, o \in Objetos : Espera(q, c, o)' => Espera(q, c, o)
    BY <1>3, <1>5, <1>6, <1>7 DEF Espera
  <2> QED BY <2>1, UnaEsperaMenos DEF Esperas
<1>10. LugarDeFase'
  BY <1>4, <1>5, <1>6 DEF Esperas, LugarDeFase, EnLlamada
<1>11. EsperaMutex'
  BY <1>5, <1>6, <1>7, <1>8 DEF Esperas, EsperaMutex
<1>12. EsperaPedido'
  BY <1>5, <1>6, <1>7, <1>8 DEF Esperas, EsperaPedido
<1>13. EsperaOyente'
  BY <1>5, <1>6, <1>8 DEF Esperas, EsperaOyente
<1>14. EsperaServicio'
  BY <1>3, <1>4, <1>5, <1>6, <1>8 DEF Esperas, EsperaServicio
<1>15. EsperaHilo'
  BY <1>5, <1>6, <1>8 DEF Esperas, EsperaHilo, Heredado
<1>16. ConMotivo'
  <2>1. \A q \in Procesos \ {p} : Motivo(q) => Motivo(q)'
    BY <1>3, <1>5, <1>6, <1>7 DEF Motivo
  <2>2. hilo[p].fase \notin EnEspera /\ lugar'[p] # "BLOCK"
    BY <1>4, <1>6 DEF EnEspera
  <2> QED BY <1>5, <1>6, <1>7, <2>1, <2>2 DEF Esperas, ConMotivo
<1>17. Tenencia'
  BY <1>5 DEF Esperas, Tenencia
<1> QED BY <1>7, <1>9, <1>10, <1>11, <1>12, <1>13, <1>14, <1>15, <1>16, <1>17 DEF Esperas

\* The first request of a type is retired, and who retires it is to move its process.
LEMMA EsperasTrasRetirar ==
  ASSUME TypeInv, Esperas, NEW t \in Tipos, NEW p, Primero(p, t), lugar[p] = "BLOCK",
         pedidos' = [pedidos EXCEPT ![t] = Tail(@)],
         \/ /\ oyente[t].fase = "recibir" /\ oyente'[t].fase = "buscar" /\ oyente'[t].pid = p
            /\ \A u \in Tipos \ {t} : oyente'[u] = oyente[u]
            /\ servicio' = servicio
         \/ /\ servicio[t].fase = "esperarEscritura"
            /\ servicio'[t].fase = "buscar" /\ servicio'[t].pid = p
            /\ \A u \in Tipos \ {t} : servicio'[u] = servicio[u]
            /\ oyente' = oyente,
         UNCHANGED <<lugar, hilo, duenio, espera, tiene, conexiones>>
  PROVE  Esperas'
<1>1. p \in Procesos /\ Pide(p, t) /\ pedidos[t] # <<>> /\ p = Head(pedidos[t]).pid
  BY PrimeroPide DEF Primero
<1>2. /\ \A q \in Procesos, u \in Tipos : Pide(q, u)' <=> Pide(q, u) /\ ~(u = t /\ q = p)
      /\ \A u \in Tipos : PedidosDistintos(u)'
  BY <1>1, PedidosTrasRetirar DEF Esperas
<1>3. /\ \A q \in Procesos, n \in Mutexes : Aguarda(q, n)' <=> Aguarda(q, n)
      /\ \A q \in Procesos, n \in Mutexes : Heredado(q, n)' <=> Heredado(q, n)
      /\ \A n \in Mutexes : EsperaDistintos(n)' <=> EsperaDistintos(n)
  BY DEF Aguarda, Heredado, EsperaDistintos
<1>4. hilo[p].fase \in {"programa", "avisar"}
  BY <1>1 DEF Esperas, EsperaPedido
<1>5. PICK c \in {"oyente", "servicio"} :
        \/ /\ c = "oyente" /\ oyente'[t].fase = "buscar" /\ oyente'[t].pid = p
           /\ servicio' = servicio /\ \A u \in Tipos \ {t} : oyente'[u] = oyente[u]
        \/ /\ c = "servicio" /\ servicio'[t].fase = "buscar" /\ servicio'[t].pid = p
           /\ oyente' = oyente /\ \A u \in Tipos \ {t} : servicio'[u] = servicio[u]
  <2>1. "oyente" \in {"oyente", "servicio"} /\ "servicio" \in {"oyente", "servicio"}
    OBVIOUS
  <2> QED BY <2>1
<1>6. UnaEspera'
  <2>1. \A q \in Procesos, d \in Clases, o \in Objetos : Espera(q, d, o)' =>
          \/ q = p /\ d = c /\ o = t
          \/ Espera(q, d, o) /\ ~(q = p /\ d = "pedido" /\ o = t)
    BY <1>2, <1>3, <1>5 DEF Espera
  <2>2. "pedido" \in Clases /\ c \in Clases /\ t \in Objetos /\ Espera(p, "pedido", t)
    BY <1>1 DEF Clases, Objetos, Espera
  <2>3. UnaEspera /\ p \in Procesos
    BY <1>1 DEF Esperas
  <2> QED BY ONLY <2>1, <2>2, <2>3, UnaEsperaPasa
<1>7. SinRepetidos'
  BY <1>2, <1>3 DEF Esperas, SinRepetidos
<1>8. LugarDeFase' /\ Tenencia'
  BY DEF Esperas, LugarDeFase, Tenencia
<1>9. EsperaMutex'
  BY <1>3 DEF Esperas, EsperaMutex
<1>10. EsperaPedido'
  BY <1>2 DEF Esperas, EsperaPedido
<1>11. EsperaOyente'
  <2>1. EsperaOyente
    BY DEF Esperas
  <2>2. \A u \in Tipos : oyente'[u].fase \in {"buscar", "aReady"} /\ oyente'[u] # oyente[u] =>
          u = t /\ oyente'[t].fase = "buscar" /\ oyente'[t].pid = p
    OBVIOUS
  <2> QED BY ONLY <1>1, <1>4, <2>1, <2>2, lugar[p] = "BLOCK", UNCHANGED <<lugar, hilo>>
             DEF EsperaOyente
<1>12. EsperaServicio'
  <2>1. EsperaServicio
    BY DEF Esperas
  <2>2. \A u \in Tipos : servicio'[u] # servicio[u] =>
          u = t /\ servicio'[t].fase = "buscar" /\ servicio'[t].pid = p
    OBVIOUS
  <2> QED BY ONLY <1>1, <1>4, <2>1, <2>2, lugar[p] = "BLOCK", UNCHANGED <<lugar, hilo>>
             DEF EsperaServicio
<1>13. EsperaHilo'
  BY DEF Esperas, EsperaHilo, Heredado
<1>14. ConMotivo'
  <2>1. \A q \in Procesos \ {p} : Motivo(q) => Motivo(q)'
    BY <1>2, <1>3 DEF Motivo
  <2>2. Motivo(p)'
    BY <1>5 DEF Motivo
  <2> QED BY <1>3, <2>1, <2>2 DEF Esperas, ConMotivo
<1> QED BY <1>6, <1>7, <1>8, <1>9, <1>10, <1>11, <1>12, <1>13, <1>14 DEF Esperas

\* A process that is at a device that disconnects is ended, and is found in BLOCK.
LEMMA EsperasTrasFinalizar ==
  ASSUME TypeInv, Esperas, NEW t \in Tipos, Aparato(t), FinalizarPorIO(t), UNCHANGED mutexes
  PROVE  Esperas' /\ muerto' = muerto
<1>1. /\ oyente \in [Tipos -> Oyentes]
      /\ lugar \in [Procesos -> {"READY", "EXEC", "BLOCK", "EXIT", "transito"}]
  BY TiposDeEsperas
<1>2. oyente[t].fase = "finalizar"
  BY DEF FinalizarPorIO
<1>3. Primero(oyente[t].pid, t)
  BY <1>2 DEF Aparato, EnManos
<1>4. PICK p \in Procesos : p = oyente[t].pid
  BY <1>3, PrimeroPide
<1>5. Pide(p, t)
  BY <1>3, <1>4, PrimeroPide
<1>6. lugar[p] = "BLOCK" /\ hilo[p].fase \in {"programa", "avisar"}
  BY <1>2, <1>5 DEF Esperas, EsperaPedido
<1>7. conexiones[t] # 0
  BY <1>2 DEF Aparato, Conexion
<1>8. /\ UNCHANGED <<hilo, duenio, espera, tiene, pedidos, servicio, conexiones, muerto>>
      /\ \A u \in Tipos \ {t} : oyente'[u] = oyente[u]
      /\ \A q \in Procesos \ {p} : lugar'[q] = lugar[q]
      /\ oyente'[t].fase = "sinDispositivo" /\ lugar'[p] = "EXIT"
  BY <1>1, <1>4, <1>6 DEF FinalizarPorIO, mutexes, interfaz, equipo, Ocioso
<1>9. /\ \A q \in Procesos, n \in Mutexes : Aguarda(q, n)' <=> Aguarda(q, n)
      /\ \A q \in Procesos, n \in Mutexes : Heredado(q, n)' <=> Heredado(q, n)
      /\ \A q \in Procesos, u \in Tipos : Pide(q, u)' <=> Pide(q, u)
      /\ SinRepetidos' <=> SinRepetidos
  BY <1>8 DEF Aguarda, Heredado, Pide, SinRepetidos, EsperaDistintos, PedidosDistintos
<1>10. /\ \A n \in Mutexes : ~Aguarda(p, n)
       /\ \A u \in Tipos \ {t} : ~Pide(p, u)
       /\ \A u \in Tipos : oyente[u].pid = p => oyente[u].fase \notin {"buscar", "aReady"}
       /\ \A u \in Tipos : servicio[u].pid = p => servicio[u].fase \notin {"buscar", "aReady"}
       /\ \A q \in Procesos : hilo[q].otro = p => hilo[q].fase \notin {"despertar", "aReady"}
  <2>1. Espera(p, "pedido", t) /\ "pedido" \in Clases /\ t \in Objetos
    BY <1>5 DEF Espera, Clases, Objetos
  <2>2. UnaEspera
    BY DEF Esperas
  <2> QED BY <2>1, <2>2, UnicaEspera
<1>11. UnaEspera'
  <2>1. \A q \in Procesos, c \in Clases, o \in Objetos : Espera(q, c, o)' => Espera(q, c, o)
    BY <1>8, <1>9 DEF Espera
  <2> QED BY <2>1, UnaEsperaMenos DEF Esperas
<1>12. LugarDeFase'
  BY <1>6, <1>8 DEF Esperas, LugarDeFase, EnLlamada
<1>13. EsperaMutex'
  BY <1>8, <1>9, <1>10 DEF Esperas, EsperaMutex
<1>14. EsperaPedido'
  BY <1>2, <1>6, <1>7, <1>8, <1>9, <1>10 DEF Esperas, EsperaPedido
<1>15. EsperaOyente'
  BY <1>8, <1>10 DEF Esperas, EsperaOyente
<1>16. EsperaServicio'
  BY <1>8, <1>10 DEF Esperas, EsperaServicio
<1>17. EsperaHilo'
  BY <1>8, <1>10 DEF Esperas, EsperaHilo, Heredado
<1>18. ConMotivo'
  <2>1. \A q \in Procesos \ {p} : Motivo(q) => Motivo(q)'
    BY <1>2, <1>8, <1>9 DEF Motivo
  <2>2. hilo[p].fase \notin EnEspera /\ lugar'[p] # "BLOCK"
    BY <1>6, <1>8 DEF EnEspera
  <2> QED BY <1>8, <1>9, <2>1, <2>2 DEF Esperas, ConMotivo
<1>19. Tenencia'
  BY <1>8 DEF Esperas, Tenencia
<1> QED BY <1>8, <1>9, <1>11, <1>12, <1>13, <1>14, <1>15, <1>16, <1>17, <1>18, <1>19 DEF Esperas

-----------------------------------------------------------------------------
(* One token per connection, and what a device, its service and its        *)
(* listener hold.  A step of theirs is about one type.                     *)

LEMMA CargaNatural ==
  ASSUME TypeInv, NEW t \in Tipos
  PROVE  /\ hayIO[t] \in Nat /\ Atiende(t) \in Nat /\ Len(aIO[t]) \in Nat /\ Len(deIO[t]) \in Nat
         /\ Escucha(t) \in Nat /\ conexiones[t] \in Nat
<1>1. Atiende(t) \in {0, 1} /\ Escucha(t) \in {0, 1}
  BY Zenon DEF Atiende, Escucha
<1> QED BY <1>1, TiposDeEsperas

LEMMA CargaNaturalLuego ==
  ASSUME TypeInv', NEW t \in Tipos
  PROVE  /\ hayIO'[t] \in Nat /\ Atiende(t)' \in Nat /\ Len(aIO'[t]) \in Nat /\ Len(deIO'[t]) \in Nat
         /\ Escucha(t)' \in Nat /\ conexiones'[t] \in Nat
<1>1. Atiende(t)' \in {0, 1} /\ Escucha(t)' \in {0, 1}
  BY Zenon DEF Atiende, Escucha
<1>2. /\ hayIO' \in [Tipos -> Nat] /\ conexiones' \in [Tipos -> Nat]
      /\ aIO' \in [Tipos -> Seq(Procesos)] /\ deIO' \in [Tipos -> Seq(Procesos)]
  BY DEF TypeInv, TypeOK, TipoIO, TipoEquipo, TipoFichas
<1> QED BY <1>1, <1>2

LEMMA CargaEsNatural ==
  ASSUME NEW t \in Tipos
  PROVE  /\ TypeInv => Carga(t) \in Nat /\ conexiones[t] \in Nat
         /\ TypeInv' => Carga(t)' \in Nat /\ conexiones'[t] \in Nat
<1>1. ASSUME TypeInv PROVE Carga(t) \in Nat /\ conexiones[t] \in Nat
  <2>1. PICK h \in Nat, s \in Nat, a \in Nat, d \in Nat, e \in Nat :
          h = hayIO[t] /\ s = Atiende(t) /\ a = Len(aIO[t]) /\ d = Len(deIO[t]) /\ e = Escucha(t)
    BY <1>1, CargaNatural
  <2>2. Carga(t) = h + s + a + d + e
    BY <2>1 DEF Carga
  <2> QED BY <1>1, <2>2, CargaNatural
<1>2. ASSUME TypeInv' PROVE Carga(t)' \in Nat /\ conexiones'[t] \in Nat
  <2>1. PICK h \in Nat, s \in Nat, a \in Nat, d \in Nat, e \in Nat :
          /\ h = hayIO'[t] /\ s = Atiende(t)' /\ a = Len(aIO'[t]) /\ d = Len(deIO'[t])
          /\ e = Escucha(t)'
    BY <1>2, CargaNaturalLuego
  <2>2. Carga(t)' = h + s + a + d + e
    BY <2>1 DEF Carga
  <2> QED BY <1>2, <2>2, CargaNaturalLuego
<1> QED BY <1>1, <1>2

\* The devices of the other types, and their threads, do nothing.
Quietos(t) ==
  \A u \in Tipos \ {t} :
    /\ servicio'[u] = servicio[u] /\ oyente'[u] = oyente[u] /\ pedidos'[u] = pedidos[u]
    /\ aIO'[u] = aIO[u] /\ deIO'[u] = deIO[u] /\ atiendeA'[u] = atiendeA[u]
    /\ viva'[u] = viva[u] /\ conectada'[u] = conectada[u]
    /\ conexiones'[u] = conexiones[u] /\ hayIO'[u] = hayIO[u]

\* What type t holds grows no more than its connections.
NoSeCarga(t) == Carga(t)' + conexiones[t] <= Carga(t) + conexiones'[t]

LEMMA CargaSigue ==
  ASSUME TypeInv, TypeInv', CargaInv, NEW t \in Tipos, Quietos(t), NoSeCarga(t)
  PROVE  CargaInv'
<1> SUFFICES ASSUME NEW u \in Tipos PROVE Carga(u)' <= conexiones'[u]
  BY DEF CargaInv
<1>1. Carga(u) <= conexiones[u]
  BY DEF CargaInv
<1>2. CASE u = t
  <2>1. Carga(t) \in Nat /\ conexiones[t] \in Nat
    BY CargaEsNatural
  <2>2. Carga(t)' \in Nat /\ conexiones'[t] \in Nat
    BY CargaEsNatural
  <2> QED BY <1>1, <1>2, <2>1, <2>2 DEF NoSeCarga
<1>3. CASE u # t
  <2>1. Carga(u)' = Carga(u) /\ conexiones'[u] = conexiones[u]
    BY <1>3 DEF Quietos, Carga, Atiende, Escucha
  <2> QED BY <1>1, <2>1
<1> QED BY <1>2, <1>3

\* x becomes y, d more.
Varia(x, y, d) == y = x + d

\* Only a device that connects raises what its type holds: a token moves from the
\* semaphore to the service, the device, its answers and the listener, in this order.
LEMMA CargaPasa ==
  ASSUME TypeInv, TypeInv', NEW t \in Tipos, conexiones'[t] = conexiones[t],
         NEW dh \in Int, NEW ds \in Int, NEW da \in Int, NEW dd \in Int, NEW de \in Int,
         Varia(hayIO[t], hayIO'[t], dh), Varia(Atiende(t), Atiende(t)', ds),
         Varia(Len(aIO[t]), Len(aIO'[t]), da), Varia(Len(deIO[t]), Len(deIO'[t]), dd),
         Varia(Escucha(t), Escucha(t)', de), dh + ds + da + dd + de <= 0
  PROVE  NoSeCarga(t)
<1>1. PICK h \in Nat, s \in Nat, a \in Nat, d \in Nat, e \in Nat, c \in Nat :
        /\ h = hayIO[t] /\ s = Atiende(t) /\ a = Len(aIO[t]) /\ d = Len(deIO[t])
        /\ e = Escucha(t) /\ c = conexiones[t]
  BY CargaNatural
<1>2. /\ Carga(t)' = (h + dh) + (s + ds) + (a + da) + (d + dd) + (e + de)
      /\ Carga(t) = h + s + a + d + e
  BY <1>1 DEF Carga, Varia
<1>3. (h + dh) + (s + ds) + (a + da) + (d + dd) + (e + de) + c <= h + s + a + d + e + c
  OBVIOUS
<1> QED BY <1>1, <1>2, <1>3 DEF NoSeCarga

\* With one connection, whoever has the token is alone.
LEMMA UnaFicha ==
  ASSUME TypeInv, CargaInv, NEW t \in Tipos, conexiones[t] <= 1
  PROVE  /\ hayIO[t] > 0 => conexiones[t] = 1
         /\ servicio[t].fase \in {"revisar", "esperarKM", "enviar"} =>
              /\ conexiones[t] = 1 /\ aIO[t] = <<>> /\ deIO[t] = <<>>
              /\ oyente[t].fase \notin {"buscar", "aReady", "liberar"}
         /\ aIO[t] # <<>> => /\ Len(aIO[t]) = 1 /\ deIO[t] = <<>>
                             /\ servicio[t].fase \notin {"revisar", "esperarKM", "enviar"}
                             /\ oyente[t].fase \notin {"buscar", "aReady", "liberar"}
         /\ deIO[t] # <<>> => /\ Len(deIO[t]) = 1 /\ aIO[t] = <<>>
                              /\ servicio[t].fase \notin {"revisar", "esperarKM", "enviar"}
                              /\ oyente[t].fase \notin {"buscar", "aReady", "liberar"}
         /\ oyente[t].fase \in {"buscar", "aReady", "liberar"} =>
              /\ aIO[t] = <<>> /\ deIO[t] = <<>>
              /\ servicio[t].fase \notin {"revisar", "esperarKM", "enviar"}
<1>1. PICK h \in Nat, s \in Nat, a \in Nat, d \in Nat, e \in Nat, c \in Nat :
        /\ h = hayIO[t] /\ s = Atiende(t) /\ a = Len(aIO[t]) /\ d = Len(deIO[t])
        /\ e = Escucha(t) /\ c = conexiones[t]
  BY CargaNatural
<1>2. h + s + a + d + e <= c /\ c <= 1
  BY <1>1 DEF CargaInv, Carga
<1>3. /\ h > 0 => c = 1 /\ s = 0 /\ a = 0 /\ d = 0 /\ e = 0
      /\ s > 0 => c = 1 /\ a = 0 /\ d = 0 /\ e = 0
      /\ a > 0 => a = 1 /\ d = 0 /\ s = 0 /\ e = 0
      /\ d > 0 => d = 1 /\ a = 0 /\ s = 0 /\ e = 0
      /\ e > 0 => a = 0 /\ d = 0 /\ s = 0
  BY <1>2
<1>4. /\ servicio[t].fase \in {"revisar", "esperarKM", "enviar"} <=> s > 0
      /\ oyente[t].fase \in {"buscar", "aReady", "liberar"} <=> e > 0
  BY <1>1 DEF Atiende, Escucha
<1>5. (aIO[t] # <<>> <=> a > 0) /\ (deIO[t] # <<>> <=> d > 0)
  <2>1. aIO[t] \in Seq(Procesos) /\ deIO[t] \in Seq(Procesos)
    BY TiposDeEsperas
  <2> QED BY <1>1, <2>1
<1>6. h > 0 <=> hayIO[t] > 0
  BY <1>1
<1> QED BY <1>1, <1>3, <1>4, <1>5, <1>6

\* The same for what holds of each type, and of the semaphores of STDIN and STDOUT.
LEMMA AparatosSigue ==
  ASSUME Aparatos, NEW t \in Tipos, Quietos(t), Aparato(t)', Respuestas',
         t # "STDIN" => leidoDeIO' = leidoDeIO,
         t # "STDOUT" => /\ leidoDeKM' = leidoDeKM
                         /\ \A p \in Procesos : <<"LECTURA", p>> \in aKM' => <<"LECTURA", p>> \in aKM
  PROVE  Aparatos'
<1> SUFFICES ASSUME NEW u \in Tipos, u # t PROVE Aparato(u)'
  BY DEF Aparatos
<1>1. /\ servicio'[u] = servicio[u] /\ oyente'[u] = oyente[u] /\ pedidos'[u] = pedidos[u]
      /\ aIO'[u] = aIO[u] /\ deIO'[u] = deIO[u] /\ atiendeA'[u] = atiendeA[u]
      /\ viva'[u] = viva[u] /\ conectada'[u] = conectada[u] /\ conexiones'[u] = conexiones[u]
  BY DEF Quietos
<1>2. Aparato(u)
  BY DEF Aparatos
<1>3. Conexion(u)'
  BY <1>1, <1>2 DEF Aparato, Conexion
<1>4. EnManos(u)'
  BY <1>1, <1>2 DEF Aparato, EnManos, Primero
<1>5. Lectura(u)'
  BY <1>1, <1>2 DEF Aparato, Lectura, Leido
<1>6. Escritura(u)'
  BY <1>1, <1>2 DEF Aparato, Escritura, Leido
<1> QED BY <1>3, <1>4, <1>5, <1>6 DEF Aparato

\* And of the process of STDIN.
LEMMA SigueVivoSigue ==
  ASSUME Aparatos, SigueVivo, NEW t \in Tipos, Quietos(t),
         \A p \in Procesos : lugar'[p] = "EXIT" => lugar[p] = "EXIT",
         t # "STDIN" => leidoDeIO' = leidoDeIO, TypeInv,
         servicio'[t].fase = "esperarEscritura" \/ (servicio'[t].fase = "esperarIO" /\ leidoDeIO' = 1)
           => servicio'[t].pid \in Procesos /\ lugar[servicio'[t].pid] # "EXIT"
  PROVE  SigueVivo'
<1> SUFFICES ASSUME NEW u \in Tipos,
                    servicio'[u].fase = "esperarEscritura"
                      \/ (servicio'[u].fase = "esperarIO" /\ leidoDeIO' = 1)
             PROVE  lugar'[servicio'[u].pid] # "EXIT"
  BY DEF SigueVivo
<1>1. CASE u = t
  BY <1>1
<1>2. CASE u # t
  <2>1. servicio'[u] = servicio[u]
    BY <1>2 DEF Quietos
  <2>2. u = "STDIN"
    BY <2>1 DEF Aparatos, Aparato, Lectura
  <2>3. servicio[u].pid \in Procesos /\ lugar[servicio[u].pid] # "EXIT"
    BY <1>2, <2>1, <2>2 DEF SigueVivo, TypeInv, EnCurso
  <2> QED BY <2>1, <2>3
<1> QED BY <1>1, <1>2

\* A step of one type, from what it does to the type.
LEMMA EsperasInvSigue ==
  ASSUME TypeInv, TypeInv', EsperasInv, NEW t \in Tipos, Quietos(t), NoSeCarga(t),
         conexiones[t] <= conexiones'[t],
         SinReconexiones /\ SinReconexiones' /\ Esperas /\ Aparatos /\ SigueVivo =>
           Esperas' /\ Aparatos' /\ SigueVivo'
  PROVE  EsperasInv'
<1>1. CargaInv'
  BY CargaSigue DEF EsperasInv
<1>2. SinReconexiones' => SinReconexiones
  <2> SUFFICES ASSUME SinReconexiones', NEW u \in Tipos PROVE conexiones[u] <= 1
    BY DEF SinReconexiones
  <2>1. conexiones'[u] <= 1 /\ conexiones[u] <= conexiones'[u]
    <3>1. conexiones[u] \in Nat
      BY CargaNatural
    <3> QED BY <3>1 DEF SinReconexiones, Quietos
  <2>2. conexiones[u] \in Nat /\ conexiones'[u] \in Nat
    BY CargaNatural, CargaNaturalLuego
  <2> QED BY <2>1, <2>2
<1> QED BY <1>1, <1>2 DEF EsperasInv

\* The step of a service or a device that leaves the requests and the processes alone.
Aparte(t) ==
  /\ Quietos(t) /\ UNCHANGED <<lugar, hilo, duenio, espera, tiene, pedidos, conexiones>>
  /\ \/ servicio'[t] = servicio[t]
     \/ servicio[t].fase \notin {"buscar", "aReady"} /\ servicio'[t].fase \notin {"buscar", "aReady"}
  /\ \/ oyente'[t] = oyente[t]
     \/ oyente[t].fase \notin {"buscar", "aReady", "sinDispositivo"}
        /\ oyente'[t].fase \notin {"buscar", "aReady"}
  /\ t # "STDIN" => leidoDeIO' = leidoDeIO
  /\ t # "STDOUT" => /\ leidoDeKM' = leidoDeKM
                     /\ \A p \in Procesos : <<"LECTURA", p>> \in aKM' => <<"LECTURA", p>> \in aKM

LEMMA EsperasInvAparte ==
  ASSUME TypeInv, TypeInv', EsperasInv, NEW t \in Tipos, Aparte(t), NoSeCarga(t),
         SinReconexiones /\ Aparatos => Aparato(t)' /\ Respuestas',
         SinReconexiones /\ Aparatos /\ Esperas /\ SigueVivo =>
           (servicio'[t].fase = "esperarEscritura" \/ (servicio'[t].fase = "esperarIO" /\ leidoDeIO' = 1)
              => servicio'[t].pid \in Procesos /\ lugar[servicio'[t].pid] # "EXIT")
  PROVE  EsperasInv'
<1>1. /\ Quietos(t) /\ UNCHANGED <<lugar, hilo, duenio, espera, tiene, pedidos, conexiones>>
      /\ \/ servicio'[t] = servicio[t]
         \/ servicio[t].fase \notin {"buscar", "aReady"} /\ servicio'[t].fase \notin {"buscar", "aReady"}
      /\ \/ oyente'[t] = oyente[t]
         \/ oyente[t].fase \notin {"buscar", "aReady", "sinDispositivo"}
            /\ oyente'[t].fase \notin {"buscar", "aReady"}
      /\ t # "STDIN" => leidoDeIO' = leidoDeIO
      /\ t # "STDOUT" =>
           /\ leidoDeKM' = leidoDeKM
           /\ \A p \in Procesos : <<"LECTURA", p>> \in aKM' => <<"LECTURA", p>> \in aKM
  BY DEF Aparte
<1>2. conexiones[t] <= conexiones'[t]
  BY <1>1, CargaNatural
<1>3. ASSUME SinReconexiones, Esperas, Aparatos, SigueVivo PROVE Esperas' /\ Aparatos' /\ SigueVivo'
  <2>1. Esperas'
    <3>1. \A p \in Procesos, u \in Tipos : Pide(p, u)' <=> Pide(p, u)
      BY <1>1 DEF Pide
    <3>2. \A u \in Tipos : PedidosDistintos(u)'
      BY <1>1, <1>3 DEF Esperas, SinRepetidos, PedidosDistintos
    <3>3. \A u \in Tipos :
            \/ servicio'[u] = servicio[u]
            \/ servicio[u].fase \notin {"buscar", "aReady"} /\ servicio'[u].fase \notin {"buscar", "aReady"}
      BY <1>1 DEF Quietos
    <3>4. \A u \in Tipos :
            \/ oyente'[u] = oyente[u]
            \/ /\ oyente[u].fase \notin {"buscar", "aReady"} /\ oyente'[u].fase \notin {"buscar", "aReady"}
               /\ oyente[u].fase # "sinDispositivo" \/ conexiones[u] = 0
      BY <1>1 DEF Quietos
    <3> QED BY <1>1, <1>3, <3>1, <3>2, <3>3, <3>4, EsperasTrasAparato
  <2>2. Aparatos'
    BY <1>1, <1>3, AparatosSigue
  <2>3. SigueVivo'
    BY <1>1, <1>3, SigueVivoSigue
  <2> QED BY <2>1, <2>2, <2>3
<1> QED BY <1>1, <1>2, <1>3, EsperasInvSigue

LEMMA EsperasInvTrasTomarFichas ==
  ASSUME TypeInv, TypeInv', EsperasInv, NEW t \in Tipos, TomarFichasIO(t), UNCHANGED mutexes
  PROVE  EsperasInv'
<1>1. /\ hayIO \in [Tipos -> Nat] /\ servicio \in [Tipos -> Servicios] /\ CargaInv
  BY TiposDeEsperas DEF EsperasInv
<1>2. /\ servicio[t].fase = "esperar" /\ hayIO[t] > 0 /\ hayIO'[t] = hayIO[t] - 1
      /\ servicio'[t].fase = "revisar"
      /\ UNCHANGED <<lugar, hilo, duenio, espera, tiene, pedidos, atiendeA, conectada, viva, aIO, deIO,
                     conexiones, oyente, leidoDeIO, leidoDeKM, aKM, muerto>>
  BY <1>1 DEF TomarFichasIO, Sirve, ServicioA, Servicios, proceso, interfaz, equipo, esperasKM, mutexes
<1>3. Quietos(t)
  BY <1>1 DEF TomarFichasIO, ServicioA, Quietos, interfaz, equipo
<1>4. NoSeCarga(t)
  <2>1. /\ Varia(Atiende(t), Atiende(t)', 1) /\ Varia(Escucha(t), Escucha(t)', 0)
        /\ Varia(hayIO[t], hayIO'[t], -1)
        /\ Varia(Len(aIO[t]), Len(aIO'[t]), 0) /\ Varia(Len(deIO[t]), Len(deIO'[t]), 0)
    BY <1>1, <1>2, CargaNatural DEF Atiende, Escucha, Varia
  <2>2. conexiones'[t] = conexiones[t]
    BY <1>2
  <2> QED BY <2>1, <2>2, CargaPasa
<1>5. ASSUME SinReconexiones, Aparatos PROVE Aparato(t)' /\ Respuestas'
  <2>1. Aparato(t) /\ Respuestas
    BY <1>5 DEF Aparatos
  <2>2. conexiones[t] = 1
    BY <1>1, <1>2, <1>5, UnaFicha DEF SinReconexiones
  <2>3. Conexion(t)'
    BY <1>2, <2>1, <2>2 DEF Aparato, Conexion
  <2>4. EnManos(t)' /\ Lectura(t)' /\ Escritura(t)'
    BY <1>2, <2>1 DEF Aparato, EnManos, Primero, Lectura, Leido, Escritura
  <2> QED BY <1>2, <2>1, <2>3, <2>4 DEF Aparato, Respuestas
<1>6. Aparte(t)
  BY <1>2, <1>3 DEF Aparte
<1> QED BY <1>2, <1>4, <1>5, <1>6, EsperasInvAparte

LEMMA EsperasInvTrasRevisar ==
  ASSUME TypeInv, TypeInv', EsperasInv, NEW t \in Tipos, Revisar(t), UNCHANGED mutexes
  PROVE  EsperasInv'
<1> DEFINE p == Head(pedidos[t]).pid
<1>1. /\ servicio \in [Tipos -> Servicios] /\ atiendeA \in [Tipos -> Pid] /\ CargaInv
  BY TiposDeEsperas DEF EsperasInv
<1>2. /\ servicio[t].fase = "revisar"
      /\ \/ /\ pedidos[t] # <<>> /\ atiendeA'[t] = p
            /\ servicio'[t].fase = (IF t = "STDOUT" THEN "esperarKM" ELSE "enviar")
            /\ servicio'[t].pid = p
            /\ aKM' = IF t = "STDOUT" THEN aKM \cup {<<"LECTURA", p>>} ELSE aKM
         \/ servicio'[t].fase = "esperar" /\ UNCHANGED <<atiendeA, aKM>>
      /\ UNCHANGED <<lugar, hilo, duenio, espera, tiene, pedidos, conectada, viva, aIO, deIO, hayIO,
                     conexiones, oyente, leidoDeIO, leidoDeKM, muerto>>
  BY <1>1 DEF Revisar, Sirve, Ocioso, proceso, equipo, fichas, mutexes
<1>3. Quietos(t)
  BY <1>1 DEF Revisar, Quietos, equipo, fichas
<1>4. NoSeCarga(t)
  <2>1. PICK ds \in {0, -1} : Varia(Atiende(t), Atiende(t)', ds)
    BY <1>2 DEF Atiende, Varia
  <2>2. /\ Varia(Escucha(t), Escucha(t)', 0) /\ Varia(hayIO[t], hayIO'[t], 0)
        /\ Varia(Len(aIO[t]), Len(aIO'[t]), 0) /\ Varia(Len(deIO[t]), Len(deIO'[t]), 0)
    BY <1>2, CargaNatural DEF Escucha, Varia
  <2>3. 0 + ds + 0 + 0 + 0 <= 0 /\ ds \in Int
    BY <2>1
  <2> QED BY <1>2, <2>1, <2>2, <2>3, CargaPasa
<1>5. ASSUME SinReconexiones, Aparatos PROVE Aparato(t)' /\ Respuestas'
  <2>1. Aparato(t) /\ Respuestas
    BY <1>5 DEF Aparatos
  <2>2. conexiones[t] = 1 /\ aIO[t] = <<>> /\ deIO[t] = <<>>
    BY <1>1, <1>2, <1>5, UnaFicha DEF SinReconexiones
  <2>3. Conexion(t)'
    BY <1>2, <2>1, <2>2 DEF Aparato, Conexion
  <2>4. EnManos(t)'
    BY <1>2, <2>1, <2>2 DEF Aparato, EnManos, Primero
  <2>5. Lectura(t)'
    BY <1>2, <2>1, <2>2 DEF Aparato, Lectura, Leido, Respuestas
  <2>6. Escritura(t)'
    BY <1>2, <2>1 DEF Aparato, Escritura, Leido, Respuestas
  <2> QED BY <1>2, <2>1, <2>3, <2>4, <2>5, <2>6 DEF Aparato, Respuestas
<1>6. Aparte(t)
  BY <1>2, <1>3 DEF Aparte
<1>7. servicio'[t].fase \notin {"esperarEscritura", "esperarIO"}
  BY <1>2
<1> QED BY <1>4, <1>5, <1>6, <1>7, EsperasInvAparte

LEMMA EsperasInvTrasEsperarKM ==
  ASSUME TypeInv, TypeInv', EsperasInv, NEW t \in Tipos, EsperarKM(t), UNCHANGED mutexes
  PROVE  EsperasInv'
<1>1. /\ servicio \in [Tipos -> Servicios] /\ leidoDeKM \in Nat /\ CargaInv
  BY TiposDeEsperas DEF EsperasInv
<1>2. /\ servicio[t].fase = "esperarKM" /\ leidoDeKM > 0 /\ leidoDeKM' = leidoDeKM - 1
      /\ servicio'[t].fase = "enviar" /\ servicio'[t].pid = servicio[t].pid
      /\ UNCHANGED <<lugar, hilo, duenio, espera, tiene, pedidos, atiendeA, conectada, viva, aIO, deIO,
                     hayIO, conexiones, oyente, leidoDeIO, aKM, muerto>>
  BY <1>1 DEF EsperarKM, Sirve, ServicioA, Servicios, proceso, interfaz, equipo, fichas, mutexes
<1>3. Quietos(t)
  BY <1>1 DEF EsperarKM, ServicioA, Quietos, interfaz, equipo, fichas
<1>4. NoSeCarga(t)
  <2>1. /\ Varia(Atiende(t), Atiende(t)', 0) /\ Varia(Escucha(t), Escucha(t)', 0)
        /\ Varia(hayIO[t], hayIO'[t], 0)
        /\ Varia(Len(aIO[t]), Len(aIO'[t]), 0) /\ Varia(Len(deIO[t]), Len(deIO'[t]), 0)
    BY <1>2, CargaNatural DEF Atiende, Escucha, Varia
  <2>2. conexiones'[t] = conexiones[t]
    BY <1>2
  <2> QED BY <2>1, <2>2, CargaPasa
<1>5. ASSUME Aparatos PROVE t = "STDOUT" /\ leidoDeKM = 1 /\ leidoDeKM' = 0
  <2>1. leidoDeKM \in {0, 1}
    BY <1>5 DEF Aparatos, Respuestas
  <2>2. leidoDeKM = 1 /\ leidoDeKM' = 0
    BY <1>2, <2>1
  <2> QED BY <1>2, <1>5, <2>2 DEF Aparatos, Aparato, Escritura
<1>6. ASSUME SinReconexiones, Aparatos PROVE Aparato(t)' /\ Respuestas'
  <2>1. Aparato(t) /\ Respuestas /\ t = "STDOUT" /\ leidoDeKM = 1 /\ leidoDeKM' = 0
    BY <1>5, <1>6 DEF Aparatos
  <2>2. conexiones[t] = 1 /\ aIO[t] = <<>> /\ deIO[t] = <<>>
    BY <1>1, <1>2, <1>6, UnaFicha DEF SinReconexiones
  <2>3. Conexion(t)'
    BY <1>2, <2>1, <2>2 DEF Aparato, Conexion
  <2>4. EnManos(t)'
    BY <1>2, <2>1, <2>2 DEF Aparato, EnManos, Primero
  <2>5. Lectura(t)'
    BY <1>2, <2>1, <2>2 DEF Aparato, Lectura
  <2>6. Escritura(t)'
    BY <1>2, <2>1 DEF Aparato, Escritura, Leido
  <2> QED BY <1>2, <2>1, <2>3, <2>4, <2>5, <2>6 DEF Aparato, Respuestas
<1>7. t = "STDOUT" \/ ~Aparatos
  BY <1>5
<1>8. servicio'[t].fase \notin {"esperarEscritura", "esperarIO"}
  BY <1>2
<1>9. CASE t = "STDOUT"
  <2>1. Aparte(t)
    BY <1>2, <1>3, <1>9 DEF Aparte
  <2> QED BY <1>4, <1>6, <1>8, <2>1, EsperasInvAparte
<1>10. CASE ~Aparatos
  <2>1. conexiones[t] <= conexiones'[t]
    BY <1>2, CargaNatural
  <2> QED BY <1>3, <1>4, <1>10, <2>1, EsperasInvSigue
<1> QED BY <1>7, <1>9, <1>10

\* The send to the device takes the token of the service with it, or loses it.
LEMMA EsperasInvTrasEnviar ==
  ASSUME TypeInv, TypeInv', EsperasInv, NEW t \in Tipos, EnviarAIO(t), UNCHANGED mutexes
  PROVE  EsperasInv'
<1>1. /\ servicio \in [Tipos -> Servicios] /\ aIO \in [Tipos -> Seq(Procesos)] /\ CargaInv
      /\ servicio[t].fase = "enviar" /\ servicio[t].pid \in Procesos
  BY TiposDeEsperas DEF EsperasInv, EnviarAIO, Sirve, TypeInv, EnCurso
<1>2. /\ servicio'[t].fase = (IF t = "STDIN" THEN "esperarIO" ELSE "esperar")
      /\ t = "STDIN" => servicio'[t].pid = servicio[t].pid
      /\ \A u \in Tipos \ {t} : servicio'[u] = servicio[u]
      /\ UNCHANGED <<lugar, hilo, duenio, espera, tiene, pedidos, atiendeA, conectada, viva, deIO,
                     hayIO, conexiones, oyente, leidoDeIO, leidoDeKM, aKM>>
  BY <1>1 DEF EnviarAIO, ServicioA, Servicios, Ocioso, proceso, interfaz, fichas, esperasKM, mutexes
<1>3. /\ \/ viva[t] /\ aIO'[t] = Append(aIO[t], servicio[t].pid) /\ muerto' = muerto
         \/ ~viva[t] /\ aIO'[t] = aIO[t] /\ muerto' \in {"no", "envio"}
      /\ \A u \in Tipos \ {t} : aIO'[u] = aIO[u]
  BY <1>1 DEF EnviarAIO
<1>4. Quietos(t)
  BY <1>2, <1>3 DEF Quietos
<1>5. NoSeCarga(t)
  <2>1. aIO[t] \in Seq(Procesos)
    BY <1>1
  <2>2. Len(aIO'[t]) \in {Len(aIO[t]), Len(aIO[t]) + 1}
    <3> DEFINE s == aIO[t]
    <3>1. Len(Append(s, servicio[t].pid)) = Len(s) + 1
      BY <1>1
    <3> QED BY <1>3, <3>1
  <2>3. PICK da \in {0, 1} : Varia(Len(aIO[t]), Len(aIO'[t]), da)
    BY <2>2, CargaNatural DEF Varia
  <2>4. /\ Varia(Atiende(t), Atiende(t)', -1) /\ Varia(Escucha(t), Escucha(t)', 0)
        /\ Varia(hayIO[t], hayIO'[t], 0) /\ Varia(Len(deIO[t]), Len(deIO'[t]), 0)
    BY <1>1, <1>2, CargaNatural DEF Atiende, Escucha, Varia
  <2>5. 0 + (-1) + da + 0 + 0 <= 0 /\ da \in Int
    BY <2>3
  <2> QED BY <1>2, <2>3, <2>4, <2>5, CargaPasa
<1>6. ASSUME SinReconexiones, Aparatos PROVE Aparato(t)' /\ Respuestas'
  <2>1. Aparato(t) /\ Respuestas
    BY <1>6 DEF Aparatos
  <2>2. conexiones[t] = 1 /\ aIO[t] = <<>> /\ deIO[t] = <<>>
    BY <1>1, <1>6, UnaFicha DEF SinReconexiones
  <2>3. /\ ~viva[t] => aIO'[t] = <<>>
        /\ aIO'[t] # <<>> => viva[t] /\ Head(aIO'[t]) = servicio[t].pid
    BY <1>1, <1>3, <2>2
  <2>4. Conexion(t)'
    BY <1>2, <2>1, <2>2, <2>3 DEF Aparato, Conexion
  <2>5. Primero(servicio[t].pid, t) /\ (viva[t] => atiendeA[t] = servicio[t].pid)
    BY <1>1, <2>1 DEF Aparato, EnManos, Conexion
  <2>6. EnManos(t)'
    BY <1>2, <2>1, <2>2, <2>3, <2>5 DEF Aparato, EnManos, Primero
  <2>7. Lectura(t)'
    BY <1>1, <1>2, <2>1, <2>2 DEF Aparato, Lectura, Leido
  <2>8. Escritura(t)'
    BY <1>1, <1>2, <2>1 DEF Aparato, Escritura, Leido
  <2> QED BY <1>2, <1>3, <2>1, <2>4, <2>6, <2>7, <2>8 DEF Aparato, Respuestas
<1>7. ASSUME Aparatos, t = "STDIN" PROVE leidoDeIO' # 1
  BY <1>1, <1>2, <1>7 DEF Aparatos, Aparato, Lectura
<1>8. Aparte(t)
  BY <1>1, <1>2, <1>4 DEF Aparte
<1> QED BY <1>2, <1>5, <1>6, <1>7, <1>8, EsperasInvAparte

\* What was typed is in the request that kernel_memory is asked to store.
LEMMA EsperasInvTrasEsperarIO ==
  ASSUME TypeInv, TypeInv', EsperasInv, NEW t \in Tipos, EsperarIO(t), UNCHANGED mutexes
  PROVE  EsperasInv'
<1>1. /\ servicio \in [Tipos -> Servicios] /\ leidoDeIO \in Nat /\ CargaInv
      /\ servicio[t].fase = "esperarIO" /\ servicio[t].pid \in Procesos
  BY TiposDeEsperas DEF EsperasInv, EsperarIO, Sirve, TypeInv, EnCurso
<1>2. /\ leidoDeIO > 0 /\ leidoDeIO' = leidoDeIO - 1
      /\ servicio'[t].fase = "esperarEscritura" /\ servicio'[t].pid = servicio[t].pid
      /\ \A p \in Procesos : <<"LECTURA", p>> \in aKM' <=> <<"LECTURA", p>> \in aKM
      /\ UNCHANGED <<lugar, hilo, duenio, espera, tiene, pedidos, atiendeA, conectada, viva, aIO, deIO,
                     hayIO, conexiones, oyente, leidoDeKM, muerto>>
  BY <1>1 DEF EsperarIO, ServicioA, Servicios, proceso, interfaz, equipo, fichas, mutexes
<1>3. Quietos(t)
  BY <1>1 DEF EsperarIO, ServicioA, Quietos, interfaz, equipo, fichas
<1>4. NoSeCarga(t)
  <2>1. /\ Varia(Atiende(t), Atiende(t)', 0) /\ Varia(Escucha(t), Escucha(t)', 0)
        /\ Varia(hayIO[t], hayIO'[t], 0)
        /\ Varia(Len(aIO[t]), Len(aIO'[t]), 0) /\ Varia(Len(deIO[t]), Len(deIO'[t]), 0)
    BY <1>1, <1>2, CargaNatural DEF Atiende, Escucha, Varia
  <2>2. conexiones'[t] = conexiones[t]
    BY <1>2
  <2> QED BY <2>1, <2>2, CargaPasa
<1>5. ASSUME Aparatos PROVE t = "STDIN" /\ leidoDeIO = 1 /\ leidoDeIO' = 0
  <2>1. leidoDeIO \in {0, 1}
    BY <1>5 DEF Aparatos, Respuestas
  <2>2. leidoDeIO = 1 /\ leidoDeIO' = 0
    BY <1>2, <2>1
  <2> QED BY <1>1, <1>5, <2>2 DEF Aparatos, Aparato, Lectura
<1>6. ASSUME SinReconexiones, Aparatos PROVE Aparato(t)' /\ Respuestas'
  <2>1. Aparato(t) /\ Respuestas /\ t = "STDIN" /\ leidoDeIO = 1 /\ leidoDeIO' = 0
    BY <1>5, <1>6 DEF Aparatos
  <2>2. aIO[t] = <<>> /\ deIO[t] = <<>> /\ Leido(t)
    BY <2>1 DEF Aparato, Lectura
  <2>3. Conexion(t)'
    BY <1>1, <1>2, <2>1 DEF Aparato, Conexion
  <2>4. EnManos(t)'
    BY <1>1, <1>2, <2>1, <2>2 DEF Aparato, EnManos, Primero
  <2>5. Lectura(t)'
    BY <1>1, <1>2, <2>1, <2>2 DEF Aparato, Lectura, Leido
  <2>6. Escritura(t)'
    BY <1>1, <1>2, <2>1 DEF Aparato, Escritura
  <2> QED BY <1>2, <2>1, <2>3, <2>4, <2>5, <2>6 DEF Aparato, Respuestas
<1>7. ASSUME Aparatos, SigueVivo PROVE lugar[servicio[t].pid] # "EXIT"
  BY <1>1, <1>5, <1>7 DEF SigueVivo
<1>8. CASE t = "STDIN"
  <2>1. Aparte(t)
    BY <1>1, <1>2, <1>3, <1>8 DEF Aparte
  <2> QED BY <1>1, <1>2, <1>4, <1>6, <1>7, <2>1, EsperasInvAparte
<1>9. CASE ~Aparatos
  <2>1. conexiones[t] <= conexiones'[t]
    BY <1>2, CargaNatural
  <2> QED BY <1>3, <1>4, <1>9, <2>1, EsperasInvSigue
<1> QED BY <1>5, <1>8, <1>9

\* The step of a device or its listener while the service does nothing.
LEMMA EsperasInvQuieto ==
  ASSUME TypeInv, TypeInv', EsperasInv, NEW t \in Tipos, Aparte(t), NoSeCarga(t),
         servicio'[t] = servicio[t], leidoDeIO' = leidoDeIO,
         SinReconexiones /\ Aparatos => Aparato(t)' /\ Respuestas'
  PROVE  EsperasInv'
<1>1. ASSUME SigueVivo, servicio'[t].fase = "esperarEscritura"
                          \/ (servicio'[t].fase = "esperarIO" /\ leidoDeIO' = 1)
      PROVE  servicio'[t].pid \in Procesos /\ lugar[servicio'[t].pid] # "EXIT"
  BY <1>1 DEF SigueVivo, TypeInv, EnCurso
<1> QED BY <1>1, EsperasInvAparte

\* IO_HANDSHAKE
LEMMA EsperasInvTrasConectar ==
  ASSUME TypeInv, TypeInv', EsperasInv, NEW t \in Tipos, ConectarIO(t), UNCHANGED mutexes
  PROVE  EsperasInv'
<1>1. /\ conexiones \in [Tipos -> Nat] /\ hayIO \in [Tipos -> Nat] /\ oyente \in [Tipos -> Oyentes]
      /\ conectada \in [Tipos -> BOOLEAN] /\ viva \in [Tipos -> BOOLEAN] /\ CargaInv
  BY TiposDeEsperas DEF EsperasInv
<1>2. /\ oyente[t].fase = "sinDispositivo" /\ ~conectada[t] /\ conexiones'[t] = conexiones[t] + 1
      /\ conectada'[t] /\ viva'[t] /\ hayIO'[t] = hayIO[t] + 1 /\ oyente'[t].fase = "recibir"
      /\ UNCHANGED <<lugar, hilo, duenio, espera, tiene, pedidos, atiendeA, aIO, deIO, servicio,
                     leidoDeIO, leidoDeKM, aKM, muerto>>
  BY <1>1 DEF ConectarIO, OyenteA, Oyentes, proceso, esperasKM, mutexes
<1>3. Quietos(t)
  BY <1>1 DEF ConectarIO, OyenteA, Quietos
<1>4. NoSeCarga(t)
  <2>1. PICK h \in Nat, s \in Nat, a \in Nat, d \in Nat, e \in Nat, c \in Nat :
          /\ h = hayIO[t] /\ s = Atiende(t) /\ a = Len(aIO[t]) /\ d = Len(deIO[t])
          /\ e = Escucha(t) /\ c = conexiones[t]
    BY CargaNatural
  <2>2. /\ Atiende(t)' = s /\ Escucha(t)' = e /\ Len(aIO'[t]) = a /\ Len(deIO'[t]) = d
        /\ hayIO'[t] = h + 1 /\ conexiones'[t] = c + 1
    BY <1>2, <2>1 DEF Atiende, Escucha
  <2>3. Carga(t) = h + s + a + d + e /\ Carga(t)' = (h + 1) + s + a + d + e
    BY <2>1, <2>2 DEF Carga
  <2>4. (h + 1) + s + a + d + e + c <= h + s + a + d + e + (c + 1)
    OBVIOUS
  <2> QED BY <2>1, <2>2, <2>3, <2>4 DEF NoSeCarga
<1>5. conexiones[t] <= conexiones'[t]
  BY <1>1, <1>2
<1>6. ASSUME SinReconexiones, SinReconexiones', Esperas, Aparatos, SigueVivo
      PROVE  Esperas' /\ Aparatos' /\ SigueVivo'
  <2>1. conexiones[t] = 0 /\ conexiones'[t] = 1
    <3>1. conexiones[t] \in Nat /\ conexiones'[t] <= 1
      BY <1>1, <1>6 DEF SinReconexiones
    <3> QED BY <1>2, <3>1
  <2>2. Esperas'
    <3>1. \A p \in Procesos, u \in Tipos : Pide(p, u)' <=> Pide(p, u)
      BY <1>2 DEF Pide
    <3>2. \A u \in Tipos : PedidosDistintos(u)'
      BY <1>2, <1>6 DEF Esperas, SinRepetidos, PedidosDistintos
    <3>3. \A u \in Tipos :
            \/ oyente'[u] = oyente[u]
            \/ /\ oyente[u].fase \notin {"buscar", "aReady"} /\ oyente'[u].fase \notin {"buscar", "aReady"}
               /\ oyente[u].fase # "sinDispositivo" \/ conexiones[u] = 0
      BY <1>2, <1>3, <2>1 DEF Quietos
    <3>4. \A u \in Tipos : conexiones[u] # 0 => conexiones'[u] # 0
      BY <1>3, <2>1 DEF Quietos
    <3>5. UNCHANGED <<lugar, hilo, duenio, espera, tiene>> /\ \A u \in Tipos : servicio'[u] = servicio[u]
      BY <1>2
    <3> QED BY <1>6, <3>1, <3>2, <3>3, <3>4, <3>5, EsperasTrasAparato
  <2>3. Aparatos'
    <3>1. Aparato(t) /\ Respuestas
      BY <1>6 DEF Aparatos
    <3>2. /\ servicio[t].fase = "esperar" /\ atiendeA[t] = Ninguno /\ aIO[t] = <<>> /\ deIO[t] = <<>>
      BY <1>2, <2>1, <3>1 DEF Aparato, Conexion
    <3>3. Conexion(t)'
      BY <1>2, <2>1, <3>1 DEF Aparato, Conexion
    <3>4. EnManos(t)'
      BY <1>2, <3>2 DEF EnManos
    <3>5. Lectura(t)' /\ Escritura(t)' /\ Respuestas'
      BY <1>2, <3>1, <3>2 DEF Aparato, Lectura, Leido, Escritura, Respuestas
    <3>6. leidoDeIO' = leidoDeIO /\ leidoDeKM' = leidoDeKM /\ aKM' = aKM
      BY <1>2
    <3> QED BY <1>3, <1>6, <3>3, <3>4, <3>5, <3>6, AparatosSigue DEF Aparato
  <2>4. SigueVivo'
    BY <1>2, <1>6 DEF SigueVivo
  <2> QED BY <2>2, <2>3, <2>4
<1> QED BY <1>3, <1>4, <1>5, <1>6, EsperasInvSigue

\* The device answers what it was sent.
LEMMA EsperasInvTrasOperar ==
  ASSUME TypeInv, TypeInv', EsperasInv, NEW t \in Tipos, OperarIO(t), UNCHANGED mutexes
  PROVE  EsperasInv'
<1>1. /\ aIO \in [Tipos -> Seq(Procesos)] /\ deIO \in [Tipos -> Seq(Procesos)] /\ CargaInv
      /\ aIO[t] # <<>> /\ viva[t]
  BY TiposDeEsperas DEF EsperasInv, OperarIO
<1>2. /\ aIO'[t] = Tail(aIO[t]) /\ deIO'[t] = Append(deIO[t], Head(aIO[t]))
      /\ \A u \in Tipos \ {t} : aIO'[u] = aIO[u] /\ deIO'[u] = deIO[u]
      /\ UNCHANGED <<lugar, hilo, duenio, espera, tiene, pedidos, atiendeA, conectada, viva, hayIO,
                     conexiones, servicio, oyente, leidoDeIO, leidoDeKM, aKM, muerto>>
  BY <1>1 DEF OperarIO, proceso, interfaz, fichas, esperasKM, mutexes
<1>3. Quietos(t) /\ Aparte(t)
  BY <1>2 DEF Quietos, Aparte
<1>4. NoSeCarga(t)
  <2>1. /\ Varia(Len(aIO[t]), Len(aIO'[t]), -1) /\ Varia(Len(deIO[t]), Len(deIO'[t]), 1)
    <3> DEFINE s == aIO[t]
               r == deIO[t]
    <3>1. s \in Seq(Procesos) /\ r \in Seq(Procesos) /\ s # <<>>
      BY <1>1
    <3>2. Len(Tail(s)) = Len(s) - 1 /\ Len(Append(r, Head(s))) = Len(r) + 1
          /\ Len(s) \in Nat /\ Len(r) \in Nat
      <4> HIDE DEF s, r
      <4> QED BY <3>1
    <3> QED BY <1>2, <3>2 DEF Varia
  <2>2. /\ Varia(Atiende(t), Atiende(t)', 0) /\ Varia(Escucha(t), Escucha(t)', 0)
        /\ Varia(hayIO[t], hayIO'[t], 0)
    BY <1>2, CargaNatural DEF Atiende, Escucha, Varia
  <2>3. conexiones'[t] = conexiones[t]
    BY <1>2
  <2>4. 0 + 0 + (-1) + 1 + 0 <= 0 /\ -1 \in Int
    OBVIOUS
  <2>9. t \in Tipos /\ 0 \in Int /\ 1 \in Int /\ -1 \in Int
    OBVIOUS
  <2> QED BY ONLY TypeInv, TypeInv', <2>9, <2>1, <2>2, <2>3, <2>4, CargaPasa
<1>5. ASSUME SinReconexiones, Aparatos PROVE Aparato(t)' /\ Respuestas'
  <2>1. Aparato(t) /\ Respuestas
    BY <1>5 DEF Aparatos
  <2>2. Len(aIO[t]) = 1 /\ deIO[t] = <<>>
    BY <1>1, <1>5, UnaFicha DEF SinReconexiones
  <2>3. aIO'[t] = <<>> /\ deIO'[t] # <<>> /\ Head(deIO'[t]) = Head(aIO[t])
    <3> DEFINE s == aIO[t]
    <3>1. s \in Seq(Procesos) /\ s # <<>> /\ Len(s) = 1
      BY <1>1, <2>2
    <3>2. Tail(s) = <<>> /\ Head(s) \in Procesos
      <4> HIDE DEF s
      <4>1. Tail(s) \in Seq(Procesos) /\ Head(s) \in Procesos
        BY <3>1, CabezaYCola
      <4>2. Len(Tail(s)) = 0
        BY <3>1
      <4>3. ASSUME NEW r \in Seq(Procesos), Len(r) = 0 PROVE r = <<>>
        BY <4>3
      <4> QED BY <4>1, <4>2, <4>3
    <3>3. \A x : Append(<<>>, x) # <<>> /\ Head(Append(<<>>, x)) = x
      OBVIOUS
    <3> QED BY <1>2, <2>2, <3>2, <3>3
  <2>4. Conexion(t)'
    BY <1>1, <1>2, <2>1, <2>3 DEF Aparato, Conexion
  <2>5. EnManos(t)'
    BY <1>1, <1>2, <2>1, <2>3 DEF Aparato, EnManos, Primero
  <2>6. Lectura(t)'
    BY <1>1, <1>2, <2>1 DEF Aparato, Lectura, Leido
  <2>7. Escritura(t)' /\ Respuestas'
    BY <1>2, <2>1 DEF Aparato, Escritura, Leido, Respuestas
  <2> QED BY <2>4, <2>5, <2>6, <2>7 DEF Aparato
<1>6. servicio'[t] = servicio[t] /\ leidoDeIO' = leidoDeIO
  BY <1>2
<1> QED BY <1>3, <1>4, <1>5, <1>6, EsperasInvQuieto

\* The device goes away with what it had not read.
LEMMA EsperasInvTrasCaer ==
  ASSUME TypeInv, TypeInv', EsperasInv, NEW t \in Tipos, CaerIO(t), UNCHANGED mutexes
  PROVE  EsperasInv'
<1>1. /\ aIO \in [Tipos -> Seq(Procesos)] /\ viva \in [Tipos -> BOOLEAN] /\ viva[t]
  BY TiposDeEsperas DEF CaerIO
<1>2. /\ aIO'[t] = <<>> /\ ~viva'[t]
      /\ \A u \in Tipos \ {t} : aIO'[u] = aIO[u] /\ viva'[u] = viva[u]
      /\ UNCHANGED <<lugar, hilo, duenio, espera, tiene, pedidos, atiendeA, conectada, deIO, hayIO,
                     conexiones, servicio, oyente, leidoDeIO, leidoDeKM, aKM, muerto>>
  BY <1>1 DEF CaerIO, proceso, interfaz, fichas, esperasKM, mutexes
<1>3. Quietos(t) /\ Aparte(t)
  BY <1>2 DEF Quietos, Aparte
<1>4. NoSeCarga(t)
  <2>1. PICK a \in Nat : a = Len(aIO[t])
    BY CargaNatural
  <2>2. PICK da \in Int : Varia(Len(aIO[t]), Len(aIO'[t]), da) /\ 0 + 0 + da + 0 + 0 <= 0
    <3>1. Varia(Len(aIO[t]), Len(aIO'[t]), -a) /\ 0 + 0 + (-a) + 0 + 0 <= 0 /\ -a \in Int
      BY <1>2, <2>1 DEF Varia
    <3> QED BY <3>1
  <2>3. /\ Varia(Atiende(t), Atiende(t)', 0) /\ Varia(Escucha(t), Escucha(t)', 0)
        /\ Varia(hayIO[t], hayIO'[t], 0) /\ Varia(Len(deIO[t]), Len(deIO'[t]), 0)
    BY <1>2, CargaNatural DEF Atiende, Escucha, Varia
  <2>4. conexiones'[t] = conexiones[t]
    BY <1>2
  <2>9. t \in Tipos /\ 0 \in Int /\ 1 \in Int /\ -1 \in Int
    OBVIOUS
  <2> QED BY ONLY TypeInv, TypeInv', <2>9, <2>2, <2>3, <2>4, CargaPasa
<1>5. ASSUME Aparatos PROVE Aparato(t)' /\ Respuestas'
  <2>1. Aparato(t) /\ Respuestas
    BY <1>5 DEF Aparatos
  <2>2. Conexion(t)'
    BY <1>1, <1>2, <2>1 DEF Aparato, Conexion
  <2>3. EnManos(t)'
    BY <1>2, <2>1 DEF Aparato, EnManos, Primero
  <2>4. Lectura(t)'
    BY <1>2, <2>1 DEF Aparato, Lectura, Leido
  <2>5. Escritura(t)' /\ Respuestas'
    BY <1>2, <2>1 DEF Aparato, Escritura, Leido, Respuestas
  <2> QED BY <2>2, <2>3, <2>4, <2>5 DEF Aparato
<1>6. servicio'[t] = servicio[t] /\ leidoDeIO' = leidoDeIO
  BY <1>2
<1> QED BY <1>3, <1>4, <1>5, <1>6, EsperasInvQuieto

\* liberarIO gives the token back.
LEMMA EsperasInvTrasLiberarIO ==
  ASSUME TypeInv, TypeInv', EsperasInv, NEW t \in Tipos, LiberarIO(t), UNCHANGED mutexes
  PROVE  EsperasInv'
<1>1. /\ atiendeA \in [Tipos -> Pid] /\ hayIO \in [Tipos -> Nat] /\ oyente \in [Tipos -> Oyentes]
      /\ CargaInv /\ oyente[t].fase = "liberar"
  BY TiposDeEsperas DEF EsperasInv, LiberarIO
<1>2. /\ atiendeA'[t] = Ninguno /\ hayIO'[t] = hayIO[t] + 1 /\ oyente'[t].fase = "recibir"
      /\ UNCHANGED <<lugar, hilo, duenio, espera, tiene, pedidos, conectada, viva, aIO, deIO,
                     conexiones, servicio, leidoDeIO, leidoDeKM, aKM, muerto>>
  BY <1>1 DEF LiberarIO, Ocioso, proceso, equipo, esperasKM, mutexes
<1>3. Quietos(t)
  BY <1>1 DEF LiberarIO, Quietos, equipo
<1>4. NoSeCarga(t)
  <2>1. /\ Varia(Atiende(t), Atiende(t)', 0) /\ Varia(Escucha(t), Escucha(t)', -1)
        /\ Varia(hayIO[t], hayIO'[t], 1)
        /\ Varia(Len(aIO[t]), Len(aIO'[t]), 0) /\ Varia(Len(deIO[t]), Len(deIO'[t]), 0)
    BY <1>1, <1>2, CargaNatural DEF Atiende, Escucha, Varia
  <2>2. conexiones'[t] = conexiones[t]
    BY <1>2
  <2> QED BY <2>1, <2>2, CargaPasa
<1>5. ASSUME SinReconexiones, Aparatos PROVE Aparato(t)' /\ Respuestas'
  <2>1. Aparato(t) /\ Respuestas
    BY <1>5 DEF Aparatos
  <2>2. aIO[t] = <<>> /\ deIO[t] = <<>> /\ servicio[t].fase \notin {"revisar", "esperarKM", "enviar"}
    BY <1>1, <1>5, UnaFicha DEF SinReconexiones
  <2>3. Conexion(t)'
    BY <1>1, <1>2, <2>1 DEF Aparato, Conexion
  <2>4. EnManos(t)'
    BY <1>1, <1>2, <2>1, <2>2 DEF Aparato, EnManos, Primero
  <2>5. Lectura(t)'
    BY <1>1, <1>2, <2>1, <2>2 DEF Aparato, Lectura, Leido
  <2>6. Escritura(t)' /\ Respuestas'
    BY <1>2, <2>1 DEF Aparato, Escritura, Leido, Respuestas
  <2> QED BY <2>3, <2>4, <2>5, <2>6 DEF Aparato
<1>6. servicio'[t] = servicio[t] /\ leidoDeIO' = leidoDeIO
  BY <1>2
<1>7. Aparte(t)
  BY <1>1, <1>2, <1>3 DEF Aparte
<1> QED BY <1>4, <1>5, <1>6, <1>7, EsperasInvQuieto

\* finalizoConexionIO keeps the pid of whoever the device served.
LEMMA EsperasInvTrasDetectar ==
  ASSUME TypeInv, TypeInv', EsperasInv, NEW t \in Tipos, DetectarCaida(t), UNCHANGED mutexes
  PROVE  EsperasInv'
<1>1. /\ atiendeA \in [Tipos -> Pid] /\ conectada \in [Tipos -> BOOLEAN]
      /\ oyente \in [Tipos -> Oyentes]
      /\ oyente[t].fase = "recibir" /\ ~viva[t] /\ deIO[t] = <<>>
  BY TiposDeEsperas DEF DetectarCaida
<1>2. /\ atiendeA'[t] = Ninguno /\ ~conectada'[t]
      /\ oyente'[t].fase = (IF atiendeA[t] = Ninguno THEN "sinDispositivo" ELSE "finalizar")
      /\ oyente'[t].pid = atiendeA[t]
      /\ UNCHANGED <<lugar, hilo, duenio, espera, tiene, pedidos, viva, aIO, deIO, hayIO,
                     conexiones, servicio, leidoDeIO, leidoDeKM, aKM, muerto>>
  BY <1>1 DEF DetectarCaida, proceso, equipo, fichas, esperasKM, mutexes
<1>3. Quietos(t)
  BY <1>1 DEF DetectarCaida, Quietos, equipo, fichas
<1>4. NoSeCarga(t)
  <2>1. /\ Varia(Atiende(t), Atiende(t)', 0) /\ Varia(Escucha(t), Escucha(t)', 0)
        /\ Varia(hayIO[t], hayIO'[t], 0)
        /\ Varia(Len(aIO[t]), Len(aIO'[t]), 0) /\ Varia(Len(deIO[t]), Len(deIO'[t]), 0)
    BY <1>1, <1>2, CargaNatural DEF Atiende, Escucha, Varia
  <2>2. conexiones'[t] = conexiones[t]
    BY <1>2
  <2> QED BY <2>1, <2>2, CargaPasa
<1>5. ASSUME Aparatos PROVE Aparato(t)' /\ Respuestas'
  <2>1. Aparato(t) /\ Respuestas
    BY <1>5 DEF Aparatos
  <2>2. aIO[t] = <<>> /\ conexiones[t] # 0
    BY <1>1, <2>1 DEF Aparato, Conexion
  <2>3. Conexion(t)'
    BY <1>1, <1>2, <2>1, <2>2 DEF Aparato, Conexion
  <2>4. EnManos(t)'
    BY <1>1, <1>2, <2>1, <2>2 DEF Aparato, EnManos, Primero
  <2>5. Lectura(t)'
    BY <1>1, <1>2, <2>1, <2>2 DEF Aparato, Lectura, Leido
  <2>6. Escritura(t)' /\ Respuestas'
    BY <1>2, <2>1 DEF Aparato, Escritura, Leido, Respuestas
  <2> QED BY <2>3, <2>4, <2>5, <2>6 DEF Aparato
<1>6. servicio'[t] = servicio[t] /\ leidoDeIO' = leidoDeIO
  BY <1>2
<1>7. Aparte(t)
  BY <1>1, <1>2, <1>3 DEF Aparte
<1> QED BY <1>4, <1>5, <1>6, <1>7, EsperasInvQuieto

\* The service of STDIN wakes its process: it holds no token by then.
LEMMA EsperasInvTrasDespertarSTDIN ==
  ASSUME TypeInv, TypeInv', EsperasInv, NEW t \in Tipos, DespertarTrasSTDIN(t), UNCHANGED mutexes
  PROVE  EsperasInv'
<1>1. /\ servicio \in [Tipos -> Servicios] /\ lugar \in [Procesos -> Lugares]
      /\ servicio[t].fase \in {"buscar", "aReady"}
  BY TiposDeEsperas DEF DespertarTrasSTDIN, Sirve, Lugares
<1>2. /\ servicio'[t].fase \in {"aReady", "esperar"}
      /\ \A p \in Procesos : lugar'[p] = "EXIT" => lugar[p] = "EXIT"
      /\ UNCHANGED <<pedidos, atiendeA, conectada, viva, aIO, deIO, hayIO, conexiones, oyente,
                     leidoDeIO, leidoDeKM, aKM, muerto>>
  BY <1>1 DEF DespertarTrasSTDIN, SacarDeBlock, EncolarEnReady, ServicioA, Servicios, Ocioso,
              interfaz, equipo, fichas, esperasKM
<1>3. Quietos(t)
  BY <1>1 DEF DespertarTrasSTDIN, ServicioA, Quietos, interfaz, equipo, fichas
<1>4. NoSeCarga(t)
  <2>1. /\ Varia(Atiende(t), Atiende(t)', 0) /\ Varia(Escucha(t), Escucha(t)', 0)
        /\ Varia(hayIO[t], hayIO'[t], 0)
        /\ Varia(Len(aIO[t]), Len(aIO'[t]), 0) /\ Varia(Len(deIO[t]), Len(deIO'[t]), 0)
    BY <1>1, <1>2, CargaNatural DEF Atiende, Escucha, Varia
  <2>2. conexiones'[t] = conexiones[t]
    BY <1>2
  <2> QED BY <2>1, <2>2, CargaPasa
<1>5. ASSUME Aparatos PROVE Aparato(t)' /\ Respuestas'
  <2>1. Aparato(t) /\ Respuestas
    BY <1>5 DEF Aparatos
  <2>2. Conexion(t)'
    BY <1>1, <1>2, <2>1 DEF Aparato, Conexion
  <2>3. EnManos(t)'
    BY <1>1, <1>2, <2>1 DEF Aparato, EnManos, Primero
  <2>4. Lectura(t)'
    BY <1>1, <1>2, <2>1 DEF Aparato, Lectura, Leido
  <2>5. Escritura(t)' /\ Respuestas'
    BY <1>1, <1>2, <2>1 DEF Aparato, Escritura, Leido, Respuestas
  <2> QED BY <2>2, <2>3, <2>4, <2>5 DEF Aparato
<1>6. ASSUME Esperas, Aparatos, SigueVivo PROVE Esperas' /\ Aparatos' /\ SigueVivo'
  <2>1. leidoDeIO' = leidoDeIO /\ leidoDeKM' = leidoDeKM /\ aKM' = aKM
    BY <1>2
  <2>2. Aparatos'
    BY <1>3, <1>5, <1>6, <2>1, AparatosSigue
  <2>3. servicio'[t].fase \notin {"esperarEscritura", "esperarIO"}
    BY <1>2
  <2>4. SigueVivo'
    BY <1>2, <1>3, <1>6, <2>1, <2>3, SigueVivoSigue
  <2> QED BY <1>6, <2>2, <2>4, EsperasTrasDespertarSTDIN
<1>7. conexiones[t] <= conexiones'[t]
  BY <1>2, CargaNatural
<1> QED BY <1>3, <1>4, <1>6, <1>7, EsperasInvSigue

\* The listener wakes its process, and holds the token until liberarIO.
LEMMA EsperasInvTrasDespertarIO ==
  ASSUME TypeInv, TypeInv', EsperasInv, NEW t \in Tipos, DespertarTrasIO(t), UNCHANGED mutexes
  PROVE  EsperasInv'
<1>1. /\ oyente \in [Tipos -> Oyentes] /\ lugar \in [Procesos -> Lugares]
      /\ oyente[t].fase \in {"buscar", "aReady"}
  BY TiposDeEsperas DEF DespertarTrasIO, Lugares
<1>2. /\ oyente'[t].fase \in {"aReady", "liberar", "recibir"}
      /\ \A p \in Procesos : lugar'[p] = "EXIT" => lugar[p] = "EXIT"
      /\ UNCHANGED <<pedidos, atiendeA, conectada, viva, aIO, deIO, hayIO, conexiones, servicio,
                     leidoDeIO, leidoDeKM, aKM, muerto>>
  BY <1>1 DEF DespertarTrasIO, SacarDeBlock, EncolarEnReady, OyenteA, Oyentes, Ocioso,
              interfaz, equipo, fichas, esperasKM
<1>3. Quietos(t)
  BY <1>1 DEF DespertarTrasIO, OyenteA, Quietos, interfaz, equipo, fichas
<1>4. NoSeCarga(t)
  <2>1. PICK de \in Int : Varia(Escucha(t), Escucha(t)', de) /\ de <= 0
    <3>1. Varia(Escucha(t), Escucha(t)', 0) \/ Varia(Escucha(t), Escucha(t)', -1)
      BY <1>1, <1>2 DEF Escucha, Varia
    <3> QED BY <3>1
  <2>2. /\ Varia(Atiende(t), Atiende(t)', 0) /\ Varia(hayIO[t], hayIO'[t], 0)
        /\ Varia(Len(aIO[t]), Len(aIO'[t]), 0) /\ Varia(Len(deIO[t]), Len(deIO'[t]), 0)
    BY <1>2, CargaNatural DEF Atiende, Varia
  <2>3. 0 + 0 + 0 + 0 + de <= 0
    BY <2>1
  <2>4. conexiones'[t] = conexiones[t]
    BY <1>2
  <2>9. t \in Tipos /\ 0 \in Int /\ 1 \in Int /\ -1 \in Int
    OBVIOUS
  <2> QED BY ONLY TypeInv, TypeInv', <2>9, <2>1, <2>2, <2>3, <2>4, CargaPasa
<1>5. ASSUME Esperas PROVE oyente'[t].fase \in {"aReady", "liberar"}
  <2>1. oyente[t].pid \in Procesos /\ (oyente[t].fase = "buscar" => lugar[oyente[t].pid] = "BLOCK")
    BY <1>1, <1>5 DEF Esperas, EsperaOyente
  <2> QED BY <1>1, <2>1 DEF DespertarTrasIO, OyenteA, Oyentes
<1>6. ASSUME Esperas, Aparatos PROVE Aparato(t)' /\ Respuestas'
  <2>1. Aparato(t) /\ Respuestas
    BY <1>6 DEF Aparatos
  <2>2. Conexion(t)'
    BY <1>1, <1>2, <2>1 DEF Aparato, Conexion
  <2>3. EnManos(t)'
    BY <1>2, <1>5, <1>6, <2>1 DEF Aparato, EnManos, Primero
  <2>4. Lectura(t)'
    BY <1>1, <1>2, <1>5, <1>6, <2>1 DEF Aparato, Lectura, Leido
  <2>5. Escritura(t)' /\ Respuestas'
    BY <1>2, <2>1 DEF Aparato, Escritura, Leido, Respuestas
  <2> QED BY <2>2, <2>3, <2>4, <2>5 DEF Aparato
<1>7. ASSUME Esperas, Aparatos, SigueVivo PROVE Esperas' /\ Aparatos' /\ SigueVivo'
  <2>1. /\ leidoDeIO' = leidoDeIO /\ leidoDeKM' = leidoDeKM /\ aKM' = aKM
        /\ servicio'[t] = servicio[t]
    BY <1>2
  <2>2. Aparatos'
    BY <1>3, <1>6, <1>7, <2>1, AparatosSigue
  <2>3. servicio[t].fase = "esperarEscritura" \/ (servicio[t].fase = "esperarIO" /\ leidoDeIO = 1)
          => servicio[t].pid \in Procesos /\ lugar[servicio[t].pid] # "EXIT"
    BY <1>7 DEF SigueVivo, TypeInv, EnCurso
  <2>4. SigueVivo'
    BY <1>2, <1>3, <1>7, <2>1, <2>3, SigueVivoSigue
  <2> QED BY <1>7, <2>2, <2>4, EsperasTrasDespertarIO
<1>8. conexiones[t] <= conexiones'[t]
  BY <1>2, CargaNatural
<1> QED BY <1>3, <1>4, <1>7, <1>8, EsperasInvSigue

\* hacerSTDIN retires its own request: nobody else is at it.
LEMMA EsperasInvTrasRetirarSTDIN ==
  ASSUME TypeInv, TypeInv', EsperasInv, NEW t \in Tipos, RetirarSTDIN(t), UNCHANGED mutexes
  PROVE  EsperasInv'
<1>1. /\ servicio \in [Tipos -> Servicios] /\ pedidos \in [Tipos -> Seq(Pedido)]
      /\ servicio[t].fase = "esperarEscritura"
  BY TiposDeEsperas DEF RetirarSTDIN, Sirve
<1>2. /\ servicio'[t].fase = "buscar" /\ servicio'[t].pid = servicio[t].pid
      /\ pedidos' = [pedidos EXCEPT ![t] = Tail(@)]
      /\ \A u \in Tipos \ {t} : servicio'[u] = servicio[u]
      /\ UNCHANGED <<lugar, hilo, duenio, espera, tiene, atiendeA, conectada, viva, aIO, deIO, hayIO,
                     conexiones, oyente, leidoDeIO, leidoDeKM, aKM, muerto>>
  BY <1>1 DEF RetirarSTDIN, ServicioA, Servicios, proceso, equipo, fichas, mutexes
<1>3. Quietos(t)
  BY <1>1, <1>2 DEF Quietos
<1>4. NoSeCarga(t)
  <2>1. /\ Varia(Atiende(t), Atiende(t)', 0) /\ Varia(Escucha(t), Escucha(t)', 0)
        /\ Varia(hayIO[t], hayIO'[t], 0)
        /\ Varia(Len(aIO[t]), Len(aIO'[t]), 0) /\ Varia(Len(deIO[t]), Len(deIO'[t]), 0)
    BY <1>1, <1>2, CargaNatural DEF Atiende, Escucha, Varia
  <2>2. conexiones'[t] = conexiones[t]
    BY <1>2
  <2> QED BY <2>1, <2>2, CargaPasa
<1>5. ASSUME Aparatos PROVE Aparato(t)' /\ Respuestas'
  <2>1. Aparato(t) /\ Respuestas
    BY <1>5 DEF Aparatos
  <2>2. /\ t = "STDIN" /\ aIO[t] = <<>> /\ deIO[t] = <<>> /\ leidoDeIO # 1
        /\ ~(oyente[t].fase = "recibir" /\ atiendeA[t] # Ninguno) /\ oyente[t].fase # "finalizar"
    BY <1>1, <2>1 DEF Aparato, Lectura
  <2>3. Conexion(t)'
    BY <1>1, <1>2, <2>1 DEF Aparato, Conexion
  <2>4. EnManos(t)'
    BY <1>2, <2>2 DEF EnManos
  <2>5. Lectura(t)'
    BY <1>2, <2>1, <2>2 DEF Aparato, Lectura
  <2>6. Escritura(t)' /\ Respuestas'
    BY <1>2, <2>1, <2>2 DEF Aparato, Escritura, Respuestas
  <2> QED BY <2>3, <2>4, <2>5, <2>6 DEF Aparato
<1>6. ASSUME Esperas, Aparatos, SigueVivo PROVE Esperas' /\ Aparatos' /\ SigueVivo'
  <2>1. /\ leidoDeIO' = leidoDeIO /\ leidoDeKM' = leidoDeKM /\ aKM' = aKM /\ lugar' = lugar
        /\ servicio'[t].fase \notin {"esperarEscritura", "esperarIO"}
    BY <1>2
  <2>2. Aparatos'
    BY <1>3, <1>5, <1>6, <2>1, AparatosSigue
  <2>3. SigueVivo'
    BY <1>3, <1>6, <2>1, SigueVivoSigue
  <2>4. PICK p : p = servicio[t].pid
    OBVIOUS
  <2>5. Primero(p, t)
    BY <1>1, <1>6, <2>4 DEF Aparatos, Aparato, EnManos
  <2>6. p \in Procesos /\ Pide(p, t)
    BY <2>5, PrimeroPide
  <2>7. lugar[p] = "BLOCK"
    BY <1>1, <1>6, <2>4, <2>6 DEF Esperas, EsperaPedido, SigueVivo
  <2>8. Esperas'
    BY <1>1, <1>2, <1>6, <2>4, <2>5, <2>7, EsperasTrasRetirar
  <2> QED BY <2>2, <2>3, <2>8
<1>7. conexiones[t] <= conexiones'[t]
  BY <1>2, CargaNatural
<1> QED BY <1>3, <1>4, <1>6, <1>7, EsperasInvSigue

\* What the listener reads leaves the socket.
LEMMA DesdeElSocket ==
  ASSUME TypeInv, NEW t \in Tipos, deIO[t] # <<>>, deIO' = [deIO EXCEPT ![t] = Tail(@)]
  PROVE  /\ Varia(Len(deIO[t]), Len(deIO'[t]), -1) /\ Head(deIO[t]) \in Procesos
         /\ \A u \in Tipos \ {t} : deIO'[u] = deIO[u]
         /\ Len(deIO[t]) = 1 => deIO'[t] = <<>>
<1> DEFINE s == deIO[t]
<1>1. deIO \in [Tipos -> Seq(Procesos)] /\ s \in Seq(Procesos) /\ s # <<>>
  BY TiposDeEsperas
<1>2. deIO'[t] = Tail(s) /\ \A u \in Tipos \ {t} : deIO'[u] = deIO[u]
  BY <1>1
<1>3. Len(Tail(s)) = Len(s) - 1 /\ Len(s) \in Nat /\ Head(s) \in Procesos /\ Tail(s) \in Seq(Procesos)
  <2> HIDE DEF s
  <2>1. Head(s) \in Procesos /\ Tail(s) \in Seq(Procesos)
    BY <1>1, CabezaYCola
  <2> QED BY <1>1, <2>1
<1>4. ASSUME NEW r \in Seq(Procesos), Len(r) = 0 PROVE r = <<>>
  BY <1>4
<1>5. Len(s) = 1 => Tail(s) = <<>>
  <2> DEFINE c == Tail(s)
  <2>1. c \in Seq(Procesos) /\ (Len(s) = 1 => Len(c) = 0)
    <3> HIDE DEF s
    <3> QED BY <1>3
  <2> HIDE DEF c
  <2>2. Len(s) = 1 => c = <<>>
    BY ONLY <1>4, <2>1
  <2> QED BY <2>2 DEF c
<1> QED BY <1>2, <1>3, <1>5 DEF Varia

\* IO_OK of SLEEP and STDOUT retires the request of the process it answers.
LEMMA EsperasInvTrasRecibirFin ==
  ASSUME TypeInv, TypeInv', EsperasInv, NEW t \in Tipos, RecibirFinIO(t), UNCHANGED mutexes
  PROVE  EsperasInv'
<1>1. /\ oyente \in [Tipos -> Oyentes] /\ pedidos \in [Tipos -> Seq(Pedido)] /\ CargaInv
      /\ t # "STDIN" /\ oyente[t].fase = "recibir" /\ deIO[t] # <<>>
      /\ deIO' = [deIO EXCEPT ![t] = Tail(@)]
  BY TiposDeEsperas DEF RecibirFinIO, EsperasInv
<1>2. /\ oyente'[t].fase = "buscar" /\ oyente'[t].pid = Head(deIO[t])
      /\ \A u \in Tipos \ {t} : oyente'[u] = oyente[u]
      /\ UNCHANGED <<lugar, hilo, duenio, espera, tiene, atiendeA, conectada, viva, aIO, hayIO,
                     conexiones, servicio, leidoDeIO, leidoDeKM, aKM, muerto>>
  BY <1>1 DEF RecibirFinIO, proceso, fichas, esperasKM, mutexes
<1>3. /\ Varia(Len(deIO[t]), Len(deIO'[t]), -1) /\ \A u \in Tipos \ {t} : deIO'[u] = deIO[u]
      /\ Len(deIO[t]) = 1 => deIO'[t] = <<>>
  BY <1>1, DesdeElSocket
<1>4. \A u \in Tipos \ {t} : pedidos'[u] = pedidos[u]
  BY <1>1 DEF RecibirFinIO
<1>5. Quietos(t)
  BY <1>2, <1>3, <1>4 DEF Quietos
<1>6. NoSeCarga(t)
  <2>1. /\ Varia(Atiende(t), Atiende(t)', 0) /\ Varia(Escucha(t), Escucha(t)', 1)
        /\ Varia(hayIO[t], hayIO'[t], 0) /\ Varia(Len(aIO[t]), Len(aIO'[t]), 0)
    BY <1>1, <1>2, CargaNatural DEF Atiende, Escucha, Varia
  <2>2. conexiones'[t] = conexiones[t]
    BY <1>2
  <2>3. 0 + 0 + 0 + (-1) + 1 <= 0
    OBVIOUS
  <2>4. Varia(Len(deIO[t]), Len(deIO'[t]), -1)
    BY <1>3
  <2>9. t \in Tipos /\ 0 \in Int /\ 1 \in Int /\ -1 \in Int
    OBVIOUS
  <2> QED BY ONLY TypeInv, TypeInv', <2>9, <2>1, <2>2, <2>3, <2>4, CargaPasa
<1>7. ASSUME SinReconexiones, Esperas, Aparatos, SigueVivo PROVE Esperas' /\ Aparatos' /\ SigueVivo'
  <2>1. Aparato(t) /\ Respuestas
    BY <1>7 DEF Aparatos
  <2>2. /\ aIO[t] = <<>> /\ deIO'[t] = <<>>
        /\ servicio[t].fase \notin {"revisar", "esperarKM", "enviar"}
    BY <1>1, <1>3, <1>7, UnaFicha DEF SinReconexiones
  <2>3. Conexion(t)'
    BY <1>1, <1>2, <2>1, <2>2 DEF Aparato, Conexion
  <2>4. servicio[t].fase \notin {"esperarIO", "esperarEscritura"}
    BY <1>1, <2>1 DEF Aparato, Lectura
  <2>5. EnManos(t)'
    BY <1>2, <2>2, <2>4 DEF EnManos
  <2>6. Lectura(t)'
    BY <1>1, <1>2, <2>1 DEF Aparato, Lectura
  <2>7. Escritura(t)' /\ Respuestas'
    BY <1>2, <2>1, <2>2 DEF Aparato, Escritura, Respuestas
  <2>8. leidoDeIO' = leidoDeIO /\ leidoDeKM' = leidoDeKM /\ aKM' = aKM /\ lugar' = lugar
        /\ servicio' = servicio
    BY <1>2
  <2>9. Aparatos'
    BY <1>5, <1>7, <2>3, <2>5, <2>6, <2>7, <2>8, AparatosSigue DEF Aparato
  <2>10. SigueVivo'
    BY <1>5, <1>7, <2>4, <2>8, SigueVivoSigue
  <2>11. PICK p : p = Head(deIO[t])
    OBVIOUS
  <2>12. Primero(p, t)
    BY <1>1, <2>1, <2>11 DEF Aparato, EnManos
  <2>13. p \in Procesos /\ Pide(p, t)
    BY <2>12, PrimeroPide
  <2>14. lugar[p] = "BLOCK"
    BY <1>1, <1>7, <2>13 DEF Esperas, EsperaPedido
  <2>15. pedidos' = [pedidos EXCEPT ![t] = Tail(@)]
    BY <1>1, <2>12 DEF RecibirFinIO, Primero
  <2>16. Esperas'
    BY <1>1, <1>2, <1>7, <2>11, <2>12, <2>14, <2>15, EsperasTrasRetirar
  <2> QED BY <2>9, <2>10, <2>16
<1>8. conexiones[t] <= conexiones'[t]
  BY <1>2, CargaNatural
<1> QED BY <1>5, <1>6, <1>7, <1>8, EsperasInvSigue

\* IO_OK of STDIN stores the bytes in the request of the process it answers.
LEMMA EsperasInvTrasLeer ==
  ASSUME TypeInv, TypeInv', EsperasInv, NEW t \in Tipos, RecibirLectura(t), UNCHANGED mutexes
  PROVE  EsperasInv'
<1>1. /\ oyente \in [Tipos -> Oyentes] /\ pedidos \in [Tipos -> Seq(Pedido)] /\ CargaInv
      /\ t = "STDIN" /\ oyente[t].fase = "recibir" /\ deIO[t] # <<>>
      /\ deIO' = [deIO EXCEPT ![t] = Tail(@)]
  BY TiposDeEsperas DEF RecibirLectura, EsperasInv
<1>2. /\ oyente'[t].fase \in {"recibir", "liberar"}
      /\ \A u \in Tipos \ {t} : oyente'[u] = oyente[u]
      /\ UNCHANGED <<lugar, hilo, duenio, espera, tiene, atiendeA, conectada, viva, aIO, hayIO,
                     conexiones, servicio, leidoDeKM, aKM>>
  BY <1>1 DEF RecibirLectura, OyenteA, Oyentes, proceso, fichas, mutexes
<1>3. /\ Varia(Len(deIO[t]), Len(deIO'[t]), -1) /\ \A u \in Tipos \ {t} : deIO'[u] = deIO[u]
      /\ Len(deIO[t]) = 1 => deIO'[t] = <<>>
  BY <1>1, DesdeElSocket
<1>4. \A u \in Tipos \ {t} : pedidos'[u] = pedidos[u]
  BY <1>1 DEF RecibirLectura
<1>5. Quietos(t)
  BY <1>2, <1>3, <1>4 DEF Quietos
<1>6. NoSeCarga(t)
  <2>1. PICK de \in Int : Varia(Escucha(t), Escucha(t)', de) /\ de <= 1
    <3>1. Varia(Escucha(t), Escucha(t)', 0) \/ Varia(Escucha(t), Escucha(t)', 1)
      BY <1>1, <1>2 DEF Escucha, Varia
    <3> QED BY <3>1
  <2>2. /\ Varia(Atiende(t), Atiende(t)', 0)
        /\ Varia(hayIO[t], hayIO'[t], 0) /\ Varia(Len(aIO[t]), Len(aIO'[t]), 0)
    BY <1>1, <1>2, CargaNatural DEF Atiende, Varia
  <2>3. conexiones'[t] = conexiones[t]
    BY <1>2
  <2>4. 0 + 0 + 0 + (-1) + de <= 0
    BY <2>1
  <2> QED BY <1>3, <2>1, <2>2, <2>3, <2>4, CargaPasa
<1>7. ASSUME SinReconexiones, Esperas, Aparatos, SigueVivo PROVE Esperas' /\ Aparatos' /\ SigueVivo'
  <2>1. Aparato(t) /\ Respuestas
    BY <1>7 DEF Aparatos
  <2>2. aIO[t] = <<>> /\ deIO'[t] = <<>>
    BY <1>1, <1>3, <1>7, UnaFicha DEF SinReconexiones
  <2>3. /\ servicio[t].fase = "esperarIO" /\ leidoDeIO = 0
        /\ Primero(Head(deIO[t]), t) /\ Primero(servicio[t].pid, t)
    BY <1>1, <2>1 DEF Aparato, Lectura, EnManos
  <2>4. /\ pedidos[t] # <<>> /\ pedidos' = [pedidos EXCEPT ![t][1].leido = TRUE]
        /\ leidoDeIO' = 1 /\ oyente'[t].fase = "liberar" /\ muerto' = muerto
    <3>1. pedidos[t] # <<>> /\ Head(pedidos[t]).pid = Head(deIO[t])
      BY <2>3 DEF Primero
    <3>2. /\ pedidos' = [pedidos EXCEPT ![t][1].leido = TRUE] /\ leidoDeIO' = leidoDeIO + 1
          /\ OyenteA(t, "liberar") /\ muerto' = muerto
      BY <3>1, Zenon DEF RecibirLectura
    <3>3. leidoDeIO' = 1
      BY <2>3, <3>2
    <3>4. oyente'[t].fase = "liberar"
      BY <1>1, <3>2 DEF OyenteA, Oyentes
    <3> QED BY <3>1, <3>2, <3>3, <3>4
  <2>5. /\ \A p \in Procesos, u \in Tipos : Pide(p, u)' <=> Pide(p, u)
        /\ \A u \in Tipos : PedidosDistintos(u)'
        /\ \A p \in Procesos, u \in Tipos : Primero(p, u)' <=> Primero(p, u)
        /\ Leido(t)'
    BY <1>7, <2>4, PedidosTrasMarcar DEF Esperas
  <2>6. servicio[t].pid \in Procesos /\ Pide(servicio[t].pid, t)
    BY <2>3, PrimeroPide
  <2>7. Conexion(t)'
    BY <1>1, <1>2, <2>1, <2>2, <2>4 DEF Aparato, Conexion
  <2>8. EnManos(t)'
    <3>1. Primero(servicio[t].pid, t)'
      <4>1. PICK p \in Procesos : p = servicio[t].pid
        BY <2>6
      <4>2. Primero(p, t)' /\ servicio'[t].pid = p
        BY <1>2, <2>3, <2>5, <4>1
      <4> QED BY <4>2 DEF Primero
    <3> QED BY <1>2, <2>2, <2>3, <2>4, <3>1 DEF EnManos
  <2>9. Lectura(t)'
    BY <1>1, <1>2, <2>2, <2>3, <2>4, <2>5 DEF Lectura
  <2>10. Escritura(t)' /\ Respuestas'
    BY <1>1, <1>2, <2>1, <2>3, <2>4 DEF Escritura, Respuestas
  <2>11. Aparatos'
    BY <1>1, <1>2, <1>5, <1>7, <2>7, <2>8, <2>9, <2>10, AparatosSigue DEF Aparato
  <2>12. lugar[servicio[t].pid] # "EXIT"
    BY <1>1, <1>7, <2>6 DEF Esperas, EsperaPedido
  <2>13. SigueVivo'
    BY <1>1, <1>2, <1>5, <1>7, <2>6, <2>12, SigueVivoSigue
  <2>14. Esperas'
    <3>1. \A u \in Tipos : servicio'[u] = servicio[u]
      BY <1>2
    <3>2. \A u \in Tipos :
            \/ oyente'[u] = oyente[u]
            \/ /\ oyente[u].fase \notin {"buscar", "aReady"} /\ oyente'[u].fase \notin {"buscar", "aReady"}
               /\ oyente[u].fase # "sinDispositivo" \/ conexiones[u] = 0
      BY <1>1, <1>2, <2>4
    <3>3. \A u \in Tipos : conexiones[u] # 0 => conexiones'[u] # 0
      BY <1>2
    <3>4. UNCHANGED <<lugar, hilo, duenio, espera, tiene>>
      BY <1>2
    <3> QED BY <1>7, <2>5, <3>1, <3>2, <3>3, <3>4, EsperasTrasAparato
  <2> QED BY <2>11, <2>13, <2>14
<1>8. conexiones[t] <= conexiones'[t]
  BY <1>2, CargaNatural
<1> QED BY <1>5, <1>6, <1>7, <1>8, EsperasInvSigue

\* finalizarProceso(pid, DESCONEXION_IO) finds the process of the device, and it is not the
\* one whose bytes STDIN has read.
LEMMA EsperasInvTrasFinalizar ==
  ASSUME TypeInv, TypeInv', EsperasInv, NEW t \in Tipos, FinalizarPorIO(t), UNCHANGED mutexes
  PROVE  EsperasInv'
<1>1. /\ oyente \in [Tipos -> Oyentes] /\ lugar \in [Procesos -> Lugares]
      /\ oyente[t].fase = "finalizar"
  BY TiposDeEsperas DEF FinalizarPorIO, Lugares
<1>2. /\ oyente'[t].fase = "sinDispositivo" /\ \A u \in Tipos \ {t} : oyente'[u] = oyente[u]
      /\ \A q \in Procesos : lugar'[q] = "EXIT" => lugar[q] = "EXIT" \/ q = oyente[t].pid
      /\ UNCHANGED <<hilo, duenio, espera, tiene, pedidos, atiendeA, conectada, viva, aIO, deIO, hayIO,
                     conexiones, servicio, leidoDeIO, leidoDeKM, aKM>>
  BY <1>1 DEF FinalizarPorIO, Ocioso, interfaz, equipo, fichas, esperasKM, mutexes
<1>3. Quietos(t)
  BY <1>2 DEF Quietos
<1>4. NoSeCarga(t)
  <2>1. /\ Varia(Atiende(t), Atiende(t)', 0) /\ Varia(Escucha(t), Escucha(t)', 0)
        /\ Varia(hayIO[t], hayIO'[t], 0)
        /\ Varia(Len(aIO[t]), Len(aIO'[t]), 0) /\ Varia(Len(deIO[t]), Len(deIO'[t]), 0)
    BY <1>1, <1>2, CargaNatural DEF Atiende, Escucha, Varia
  <2>2. conexiones'[t] = conexiones[t]
    BY <1>2
  <2> QED BY <2>1, <2>2, CargaPasa
<1>5. ASSUME Esperas, Aparatos, SigueVivo PROVE Esperas' /\ Aparatos' /\ SigueVivo'
  <2>1. Aparato(t) /\ Respuestas
    BY <1>5 DEF Aparatos
  <2>2. Esperas' /\ muerto' = muerto
    BY <1>5, <2>1, EsperasTrasFinalizar
  <2>3. Conexion(t)'
    BY <1>1, <1>2, <2>1 DEF Aparato, Conexion
  <2>4. EnManos(t)' /\ Lectura(t)' /\ Escritura(t)' /\ Respuestas'
    BY <1>2, <2>1, <2>2 DEF Aparato, EnManos, Primero, Lectura, Leido, Escritura, Respuestas
  <2>5. leidoDeIO' = leidoDeIO /\ leidoDeKM' = leidoDeKM /\ aKM' = aKM
    BY <1>2
  <2>6. Aparatos'
    BY <1>3, <1>5, <2>3, <2>4, <2>5, AparatosSigue DEF Aparato
  <2>7. ASSUME NEW u \in Tipos,
               servicio[u].fase = "esperarEscritura" \/ (servicio[u].fase = "esperarIO" /\ leidoDeIO = 1)
        PROVE  lugar'[servicio[u].pid] # "EXIT"
    <3>1. Aparato(u)
      BY <1>5 DEF Aparatos
    <3>2. u = "STDIN" /\ Primero(servicio[u].pid, u)
      BY <2>7, <3>1 DEF Aparato, Lectura, EnManos
    <3>3. Primero(oyente[t].pid, t)
      BY <1>1, <2>1 DEF Aparato, EnManos
    <3>4. u # t
      BY <1>1, <2>1, <2>7, <3>2 DEF Aparato, Lectura
    <3>5. PICK p \in Procesos : p = servicio[u].pid /\ Pide(p, u)
      BY <3>2, PrimeroPide
    <3>6. PICK q \in Procesos : q = oyente[t].pid /\ Pide(q, t)
      BY <3>3, PrimeroPide
    <3>7. p # q
      <4>1. Espera(p, "pedido", u) /\ Espera(q, "pedido", t)
        BY <3>5, <3>6 DEF Espera
      <4>2. "pedido" \in Clases /\ u \in Objetos /\ t \in Objetos
        BY DEF Clases, Objetos
      <4> QED BY <1>5, <3>4, <4>1, <4>2 DEF Esperas, UnaEspera
    <3>8. lugar[p] # "EXIT"
      BY <1>5, <2>7, <3>5 DEF SigueVivo
    <3> QED BY <1>2, <3>5, <3>6, <3>7, <3>8
  <2>8. SigueVivo'
    BY <1>2, <2>7 DEF SigueVivo
  <2> QED BY <2>2, <2>6, <2>8
<1>6. conexiones[t] <= conexiones'[t]
  BY <1>2, CargaNatural
<1> QED BY <1>3, <1>4, <1>5, <1>6, EsperasInvSigue

\* Steps that take no part in the tokens.
LEMMA CargaIgual ==
  ASSUME UNCHANGED <<hayIO, servicio, aIO, deIO, oyente, conexiones>>
  PROVE  (CargaInv => CargaInv') /\ (SinReconexiones' <=> SinReconexiones)
BY DEF CargaInv, Carga, Atiende, Escucha, SinReconexiones

\* kernel_memory answers STDOUT about the process it is at, and stores the bytes in its
\* request; or it answers STDIN.
LEMMA EsperasInvTrasResponder ==
  ASSUME TypeInv, TypeInv', EsperasInv, ResponderKM, UNCHANGED mutexes
  PROVE  EsperasInv'
<1>1. PICK op \in {"LECTURA", "ESCRITURA"}, p \in Procesos :
        /\ <<op, p>> \in aKM /\ aKM' = aKM \ {<<op, p>>}
        /\ \/ /\ op = "LECTURA"
              /\ pedidos' = IF pedidos["STDOUT"] # <<>> /\ Head(pedidos["STDOUT"]).pid = p
                              THEN [pedidos EXCEPT !["STDOUT"][1].leido = TRUE] ELSE pedidos
              /\ leidoDeKM' = leidoDeKM + 1
           \/ op = "ESCRITURA" /\ UNCHANGED <<pedidos, leidoDeKM>>
  BY DEF ResponderKM
<1>2. UNCHANGED <<lugar, hilo, duenio, espera, tiene, atiendeA, conectada, viva, aIO, deIO, hayIO,
                  conexiones, servicio, oyente, leidoDeIO, muerto>>
  BY DEF ResponderKM, proceso, equipo, fichas, mutexes
<1>3. (CargaInv => CargaInv') /\ (SinReconexiones' <=> SinReconexiones)
  BY <1>2, CargaIgual
<1>4. ASSUME Esperas, Aparatos, SigueVivo PROVE Esperas' /\ Aparatos' /\ SigueVivo'
  <2>1. SigueVivo'
    BY <1>2, <1>4 DEF SigueVivo
  <2>2. /\ \A u \in Tipos : servicio'[u] = servicio[u] /\ oyente'[u] = oyente[u]
        /\ \A u \in Tipos : conexiones[u] # 0 => conexiones'[u] # 0
        /\ UNCHANGED <<lugar, hilo, duenio, espera, tiene>>
    BY <1>2
  <2>3. CASE op = "ESCRITURA"
    <3>1. UNCHANGED <<pedidos, leidoDeKM>> /\ \A q \in Procesos : <<"LECTURA", q>> \in aKM' => <<"LECTURA", q>> \in aKM
      BY <1>1, <2>3
    <3>2. /\ \A q \in Procesos, u \in Tipos : Pide(q, u)' <=> Pide(q, u)
          /\ \A u \in Tipos : PedidosDistintos(u)'
      BY <1>4, <3>1 DEF Pide, PedidosDistintos, Esperas, SinRepetidos
    <3>3. Esperas'
      BY <1>4, <2>2, <3>2, EsperasTrasAparato
    <3>4. ASSUME NEW u \in Tipos PROVE Aparato(u)'
      <4>1. Aparato(u)
        BY <1>4 DEF Aparatos
      <4>2. Conexion(u)' /\ EnManos(u)'
        BY <1>2, <3>1, <4>1 DEF Aparato, Conexion, EnManos, Primero
      <4>3. Lectura(u)' /\ Escritura(u)'
        BY <1>2, <3>1, <4>1 DEF Aparato, Lectura, Leido, Escritura
      <4> QED BY <4>2, <4>3 DEF Aparato
    <3>5. Respuestas'
      BY <1>2, <1>4, <3>1 DEF Aparatos, Respuestas
    <3> QED BY <2>1, <3>3, <3>4, <3>5 DEF Aparatos
  <2>4. CASE op = "LECTURA"
    <3>1. PICK t \in Tipos : t = "STDOUT"
      BY <1>1, <1>4, <2>4 DEF Aparatos, Respuestas
    <3>2. Aparato(t) /\ Respuestas
      BY <1>4 DEF Aparatos
    <3>3. leidoDeKM = 0 /\ servicio[t].fase = "esperarKM" /\ servicio[t].pid = p
      BY <1>1, <2>4, <3>1, <3>2 DEF Aparato, Escritura
    <3>4. Primero(p, t)
      BY <3>2, <3>3 DEF Aparato, EnManos
    <3>5. pedidos[t] # <<>> /\ pedidos' = [pedidos EXCEPT ![t][1].leido = TRUE] /\ leidoDeKM' = 1
      <4>1. pedidos' = [pedidos EXCEPT ![t][1].leido = TRUE] /\ leidoDeKM' = leidoDeKM + 1
        BY <1>1, <2>4, <3>1, <3>4 DEF Primero
      <4> QED BY <3>3, <3>4, <4>1 DEF Primero
    <3>6. /\ \A q \in Procesos, u \in Tipos : Pide(q, u)' <=> Pide(q, u)
          /\ \A u \in Tipos : PedidosDistintos(u)'
          /\ \A q \in Procesos, u \in Tipos : Primero(q, u)' <=> Primero(q, u)
          /\ Leido(t)'
      BY <1>4, <3>5, PedidosTrasMarcar DEF Esperas
    <3>7. Esperas'
      BY <1>4, <2>2, <3>6, EsperasTrasAparato
    <3>8. pedidos \in [Tipos -> Seq(Pedido)] /\ \A u \in Tipos \ {t} : pedidos'[u] = pedidos[u]
      BY <3>5, TiposDeEsperas
    <3>9. Quietos(t)
      BY <1>2, <3>8 DEF Quietos
    <3>10. Conexion(t)'
      BY <1>2, <3>2 DEF Aparato, Conexion
    <3>11. EnManos(t)'
      <4>1. pedidos'[t] # <<>> /\ Head(pedidos'[t]).pid = Head(pedidos[t]).pid
        BY <3>4, <3>6 DEF Primero
      <4> QED BY <1>2, <3>2, <4>1 DEF Aparato, EnManos, Primero
    <3>12. Lectura(t)' /\ Escritura(t)'
      BY <1>1, <1>2, <2>4, <3>1, <3>2, <3>3, <3>5, <3>6 DEF Aparato, Lectura, Escritura
    <3>13. Respuestas'
      BY <1>2, <3>1, <3>2, <3>5 DEF Respuestas
    <3>14. Aparatos'
      BY <1>2, <1>4, <3>1, <3>9, <3>10, <3>11, <3>12, <3>13, AparatosSigue DEF Aparato
    <3> QED BY <2>1, <3>7, <3>14
  <2> QED BY <1>1, <2>3, <2>4
<1> QED BY <1>3, <1>4 DEF EsperasInv

\* A request at the end of a queue changes the head of none that had one.
LEMMA EsperasInvTrasEncolar ==
  ASSUME TypeInv, TypeInv', EsperasInv, NEW p \in Procesos, EncolarPedido(p), UNCHANGED mutexes
  PROVE  EsperasInv'
<1>1. /\ hilo[p].fase = "encolarPedido"
      /\ pedidos' = [pedidos EXCEPT ![hilo[p].objeto] = Append(@, [pid |-> p, leido |-> FALSE])]
      /\ UNCHANGED <<lugar, atiendeA, conectada, viva, aIO, deIO, hayIO, conexiones, servicio, oyente,
                     leidoDeIO, leidoDeKM, aKM, muerto>>
  BY DEF EncolarPedido, EnFase, equipo, fichas, esperasKM
<1>2. (CargaInv => CargaInv') /\ (SinReconexiones' <=> SinReconexiones)
  BY <1>1, CargaIgual
<1>3. ASSUME Esperas, Aparatos, SigueVivo PROVE Esperas' /\ Aparatos' /\ SigueVivo'
  <2>1. Esperas'
    BY <1>3, EsperasTrasEncolarPedido
  <2>2. SigueVivo'
    BY <1>1, <1>3 DEF SigueVivo
  <2>3. PICK t \in Tipos : t = hilo[p].objeto
    BY <1>1, <1>3 DEF Esperas, LugarDeFase
  <2>4. ~Pide(p, t)
    BY <1>1, <1>3, SinEsperas DEF EnEspera
  <2>5. SinRepetidos /\ pedidos' = [pedidos EXCEPT ![t] = Append(@, [pid |-> p, leido |-> FALSE])]
    BY <1>1, <1>3, <2>3 DEF Esperas
  <2>6. \A u \in Tipos : pedidos[u] # <<>> => pedidos'[u] # <<>> /\ Head(pedidos'[u]) = Head(pedidos[u])
    BY <2>4, <2>5, PedidosTrasAgregar
  <2>7. ASSUME NEW u \in Tipos PROVE Aparato(u)'
    <3>1. Aparato(u)
      BY <1>3 DEF Aparatos
    <3>2. Conexion(u)' /\ EnManos(u)'
      BY <1>1, <2>6, <3>1 DEF Aparato, Conexion, EnManos, Primero
    <3>3. Lectura(u)' /\ Escritura(u)'
      BY <1>1, <2>6, <3>1 DEF Aparato, Lectura, Leido, Escritura
    <3> QED BY <3>2, <3>3 DEF Aparato
  <2>8. Respuestas'
    BY <1>1, <1>3 DEF Aparatos, Respuestas
  <2> QED BY <2>1, <2>2, <2>7, <2>8 DEF Aparatos
<1> QED BY <1>2, <1>3 DEF EsperasInv

\* A step of no device leaves theirs as they were, and ends only a process that runs: not
\* one whose request STDIN is at.
LEMMA EsperasInvSinAparatos ==
  ASSUME TypeInv, EsperasInv,
         UNCHANGED <<pedidos, atiendeA, conectada, viva, aIO, deIO, hayIO, conexiones, servicio,
                     oyente, leidoDeIO, leidoDeKM, aKM, muerto>>,
         \A q \in Procesos : lugar'[q] = "EXIT" => lugar[q] \in {"EXIT", "EXEC"},
         Esperas => Esperas'
  PROVE  EsperasInv'
<1>1. (CargaInv => CargaInv') /\ (SinReconexiones' <=> SinReconexiones)
  BY CargaIgual
<1>2. ASSUME Esperas, Aparatos, SigueVivo PROVE Aparatos' /\ SigueVivo'
  <2>1. ASSUME NEW u \in Tipos PROVE Aparato(u)'
    <3>1. Aparato(u)
      BY <1>2 DEF Aparatos
    <3>2. Conexion(u)' /\ EnManos(u)'
      BY <3>1 DEF Aparato, Conexion, EnManos, Primero
    <3>3. Lectura(u)' /\ Escritura(u)'
      BY <3>1 DEF Aparato, Lectura, Leido, Escritura
    <3> QED BY <3>2, <3>3 DEF Aparato
  <2>2. Respuestas'
    BY <1>2 DEF Aparatos, Respuestas
  <2>3. ASSUME NEW u \in Tipos,
               servicio[u].fase = "esperarEscritura" \/ (servicio[u].fase = "esperarIO" /\ leidoDeIO = 1)
        PROVE  lugar'[servicio[u].pid] # "EXIT"
    <3>1. Primero(servicio[u].pid, u)
      BY <1>2, <2>3 DEF Aparatos, Aparato, EnManos
    <3>2. PICK p \in Procesos : p = servicio[u].pid /\ Pide(p, u)
      BY <3>1, PrimeroPide
    <3>3. lugar[p] # "EXIT" /\ lugar[p] \in {"BLOCK", "EXIT"}
      BY <1>2, <2>3, <3>2 DEF SigueVivo, Esperas, EsperaPedido
    <3> QED BY <3>2, <3>3
  <2>4. SigueVivo'
    BY <2>3 DEF SigueVivo
  <2> QED BY <2>1, <2>2, <2>4 DEF Aparatos
<1> QED BY <1>1, <1>2 DEF EsperasInv

LEMMA EsperasInvTrasMutexes ==
  ASSUME TypeInv, EsperasInv, UNCHANGED io, PasoProcesos \/ PasoMutexes
  PROVE  EsperasInv'
<1>1. UNCHANGED <<pedidos, atiendeA, conectada, viva, aIO, deIO, hayIO, conexiones, servicio,
                  oyente, leidoDeIO, leidoDeKM, aKM, muerto>>
  BY DEF io, interfaz, equipo, fichas, esperasKM
<1>2. ASSUME NEW q \in Procesos, lugar'[q] = "EXIT" PROVE lugar[q] \in {"EXIT", "EXEC"}
  <2>1. lugar \in [Procesos -> Lugares]
    BY LugarTipado
  <2>2. CASE PasoProcesos
    BY <1>2, <2>1, <2>2 DEF PasoProcesos, Despachar, Salir, Corre
  <2>3. CASE PasoMutexes
    <3>1. PICK p \in Procesos :
            \/ \E m \in Mutexes : CrearMutex(p, m) \/ PedirMutex(p, m)
            \/ TomarMutex(p) \/ BuscarDuenio(p) \/ BuscarDuenioEnReady(p) \/ Comparar(p)
            \/ Prestar(p) \/ BloquearPorMutex(p) \/ LiberarMutex(p) \/ SacarAlQueEspera(p)
            \/ EncolarAlQueEspera(p) \/ Recalcular(p) \/ Restituir(p)
      BY <2>3 DEF PasoMutexes
    <3>2. CASE BloquearPorMutex(p) \/ SacarAlQueEspera(p) \/ EncolarAlQueEspera(p)
      BY <1>2, <2>1, <3>2 DEF BloquearPorMutex, SacarAlQueEspera, EncolarAlQueEspera, SacarDeExec,
         EncolarEnBlock, SacarDeBlock, EncolarEnReady
    <3>3. CASE \E m \in Mutexes : CrearMutex(p, m) \/ PedirMutex(p, m)
      BY <1>2, <3>3 DEF CrearMutex, PedirMutex, Pedir
    <3>4. CASE TomarMutex(p) \/ BuscarDuenio(p) \/ BuscarDuenioEnReady(p) \/ Comparar(p) \/ Prestar(p)
      BY <1>2, <3>4 DEF TomarMutex, BuscarDuenio, BuscarDuenioEnReady, Comparar, Prestar
    <3>5. CASE LiberarMutex(p) \/ Recalcular(p) \/ Restituir(p)
      BY <1>2, <3>5 DEF LiberarMutex, Recalcular, Restituir
    <3> QED BY <3>1, <3>2, <3>3, <3>4, <3>5
  <2> QED BY <2>2, <2>3
<1> QED BY <1>1, <1>2, EsperasDeMutexes, EsperasInvSinAparatos

\* manejar_sleep, manejar_stdin and manejar_stdout: the call, and the block that follows.
LEMMA EsperasInvTrasPedirIO ==
  ASSUME TypeInv, EsperasInv, UNCHANGED mutexes, NEW p \in Procesos,
         (\E t \in Tipos : PedirIO(p, t)) \/ BloquearPorIO(p) \/ AvisarPedido(p)
  PROVE  EsperasInv'
<1>1. UNCHANGED <<pedidos, atiendeA, conectada, viva, aIO, deIO, hayIO, conexiones, servicio,
                  oyente, leidoDeIO, leidoDeKM, aKM, muerto, duenio, espera, tiene>>
  BY DEF PedirIO, BloquearPorIO, AvisarPedido, io, interfaz, equipo, fichas, esperasKM, mutexes
<1>2. lugar \in [Procesos -> Lugares] /\ hilo \in [Procesos -> Hilos]
  BY LugarTipado, TiposDeEsperas
<1>3. CASE \E t \in Tipos : PedirIO(p, t)
  <2>1. PICK t \in Tipos : PedirIO(p, t)
    BY <1>3
  <2>2. /\ \A q \in Procesos \ {p} : hilo'[q] = hilo[q]
        /\ hilo'[p].fase = "bloquear" /\ hilo'[p].objeto = t
        /\ hilo[p].fase = "programa" /\ lugar[p] = "EXEC" /\ UNCHANGED lugar
    <3> DEFINE h == HiloOcioso
               k == [h EXCEPT !.fase = "bloquear", !.objeto = t]
    <3>1. k.fase = "bloquear" /\ k.objeto = t
      BY DEF HiloOcioso
    <3>2. hilo' = [hilo EXCEPT ![p] = k] /\ hilo[p].fase = "programa" /\ lugar[p] = "EXEC"
          /\ UNCHANGED lugar
      BY <2>1 DEF PedirIO, Pedir, Corre
    <3> HIDE DEF k
    <3> QED BY <1>2, <3>1, <3>2
  <2>3. Esperas => Esperas'
    BY <1>1, <2>2, EsperasTrasHilo DEF EnEspera, EnLlamada
  <2> QED BY <1>1, <2>2, <2>3, EsperasInvSinAparatos
<1>4. CASE BloquearPorIO(p)
  <2>1. Esperas => Esperas'
    BY <1>1, <1>4, EsperasTrasBloquear DEF BloquearPorIO
  <2>2. \A q \in Procesos : lugar'[q] = "EXIT" => lugar[q] = "EXIT"
    BY <1>2, <1>4 DEF BloquearPorIO, SacarDeExec, EncolarEnBlock
  <2> QED BY <1>1, <2>1, <2>2, EsperasInvSinAparatos
<1>5. CASE AvisarPedido(p)
  <2>1. Esperas => Esperas'
    BY <1>5, EsperasTrasAvisar
  <2>2. lugar' = lugar
    BY <1>5 DEF AvisarPedido
  <2> QED BY <1>1, <2>1, <2>2, EsperasInvSinAparatos
<1> QED BY <1>3, <1>4, <1>5

LEMMA InitEsperasInv == Init => EsperasInv
<1> SUFFICES ASSUME Init PROVE EsperasInv
  OBVIOUS
<1>1. /\ \A p \in Procesos : lugar[p] = "READY" /\ hilo[p] = HiloOcioso
      /\ \A p \in Procesos : hilo[p].fase = "programa" /\ hilo[p].otro = Ninguno
  BY DEF Init, InitProcesos, HiloOcioso
<1>2. /\ \A m \in Mutexes : duenio[m] = Ninguno /\ espera[m] = <<>>
      /\ \A p \in Procesos : tiene[p] = {}
  BY DEF Init, InitMutexes
<1>3. /\ \A t \in Tipos : /\ pedidos[t] = <<>> /\ aIO[t] = <<>> /\ deIO[t] = <<>>
                          /\ hayIO[t] = 0 /\ conexiones[t] = 0 /\ atiendeA[t] = Ninguno
                          /\ ~conectada[t] /\ ~viva[t]
                          /\ servicio[t].fase = "esperar" /\ oyente[t].fase = "sinDispositivo"
      /\ leidoDeIO = 0 /\ leidoDeKM = 0 /\ aKM = {} /\ muerto = "no"
  BY DEF Init, InitIO, Ocioso
<1>4. CargaInv
  BY <1>3 DEF CargaInv, Carga, Atiende, Escucha
<1>5. /\ \A p \in Procesos, m \in Mutexes : ~Aguarda(p, m) /\ (Heredado(p, m) => FALSE)
      /\ \A p \in Procesos, t \in Tipos : ~Pide(p, t)
      /\ SinRepetidos
  BY <1>2, <1>3, NingunoNoEsProceso
     DEF Aguarda, Heredado, Pide, SinRepetidos, PedidosDistintos, EsperaDistintos
<1>6. UnaEspera
  <2>1. \A p \in Procesos, c \in Clases, o \in Objetos : ~Espera(p, c, o)
    BY <1>1, <1>3, <1>5 DEF Espera
  <2> QED BY <2>1 DEF UnaEspera
<1>7. LugarDeFase /\ EsperaMutex /\ EsperaPedido /\ EsperaOyente /\ EsperaServicio /\ EsperaHilo
  BY <1>1, <1>3, <1>5
     DEF LugarDeFase, EnLlamada, EsperaMutex, EsperaPedido, EsperaOyente, EsperaServicio, EsperaHilo
<1>8. ConMotivo /\ Tenencia
  BY <1>1, <1>2 DEF ConMotivo, EnEspera, Tenencia
<1>9. \A t \in Tipos : Aparato(t)
  BY <1>3 DEF Aparato, Conexion, EnManos, Lectura, Escritura
<1>10. Respuestas /\ SigueVivo
  BY <1>3 DEF Respuestas, SigueVivo
<1> QED BY <1>4, <1>5, <1>6, <1>7, <1>8, <1>9, <1>10 DEF EsperasInv, Esperas, Aparatos

LEMMA PasoEsperasInv == TypeInv /\ EsperasInv /\ [Next]_vars => EsperasInv'
<1> SUFFICES ASSUME TypeInv, EsperasInv, [Next]_vars PROVE EsperasInv'
  OBVIOUS
<1>1. TypeInv'
  BY PasoTypeInv
<1>2. CASE PasoProcesos
  BY <1>2, EsperasInvTrasMutexes DEF PasoProcesos
<1>3. CASE PasoMutexes /\ UNCHANGED io
  BY <1>3, EsperasInvTrasMutexes
<1>4. CASE PasoIO /\ UNCHANGED mutexes
  <2>1. CASE \E p \in Procesos :
               \/ \E t \in Tipos : PedirIO(p, t)
               \/ BloquearPorIO(p) \/ EncolarPedido(p) \/ AvisarPedido(p)
    BY <1>1, <1>4, <2>1, EsperasInvTrasPedirIO, EsperasInvTrasEncolar
  <2>2. ASSUME NEW t \in Tipos
        PROVE  /\ TomarFichasIO(t) => EsperasInv'
               /\ Revisar(t) => EsperasInv'
               /\ EsperarKM(t) => EsperasInv'
               /\ EnviarAIO(t) => EsperasInv'
               /\ EsperarIO(t) => EsperasInv'
               /\ RetirarSTDIN(t) => EsperasInv'
               /\ DespertarTrasSTDIN(t) => EsperasInv'
    BY <1>1, <1>4, EsperasInvTrasTomarFichas, EsperasInvTrasRevisar, EsperasInvTrasEsperarKM,
       EsperasInvTrasEnviar, EsperasInvTrasEsperarIO, EsperasInvTrasRetirarSTDIN,
       EsperasInvTrasDespertarSTDIN
  <2>3. ASSUME NEW t \in Tipos
        PROVE  /\ ConectarIO(t) => EsperasInv'
               /\ OperarIO(t) => EsperasInv'
               /\ RecibirFinIO(t) => EsperasInv'
               /\ RecibirLectura(t) => EsperasInv'
               /\ DespertarTrasIO(t) => EsperasInv'
               /\ LiberarIO(t) => EsperasInv'
               /\ CaerIO(t) => EsperasInv'
               /\ DetectarCaida(t) => EsperasInv'
               /\ FinalizarPorIO(t) => EsperasInv'
    BY <1>1, <1>4, EsperasInvTrasConectar, EsperasInvTrasOperar, EsperasInvTrasRecibirFin,
       EsperasInvTrasLeer, EsperasInvTrasDespertarIO, EsperasInvTrasLiberarIO, EsperasInvTrasCaer,
       EsperasInvTrasDetectar, EsperasInvTrasFinalizar
  <2>4. CASE ResponderKM
    BY <1>1, <1>4, <2>4, EsperasInvTrasResponder
  <2> QED BY <1>4, <2>1, <2>2, <2>3, <2>4 DEF PasoIO
<1>5. CASE UNCHANGED vars
  <2>1. UNCHANGED <<pedidos, atiendeA, conectada, viva, aIO, deIO, hayIO, conexiones, servicio,
                    oyente, leidoDeIO, leidoDeKM, aKM, muerto, lugar, hilo, duenio, espera, tiene>>
    BY <1>5 DEF vars, proceso, mutexes, io, interfaz, equipo, fichas, esperasKM
  <2>2. Esperas => Esperas'
    <3> SUFFICES ASSUME Esperas PROVE Esperas'
      OBVIOUS
    <3>1. \A p \in Procesos, t \in Tipos : Pide(p, t)' <=> Pide(p, t)
      BY <2>1 DEF Pide
    <3>2. \A t \in Tipos : PedidosDistintos(t)'
      BY <2>1 DEF Esperas, SinRepetidos, PedidosDistintos
    <3> QED BY <2>1, <3>1, <3>2, EsperasTrasAparato
  <2> QED BY <2>1, <2>2, EsperasInvSinAparatos
<1> QED BY <1>2, <1>3, <1>4, <1>5 DEF Next

-----------------------------------------------------------------------------
(* What a mutex that is handed over owes its new owner.                    *)

\* The thread that handed m to p, and has not put p in READY yet.
FasesDeEntrega == {"despertar", "aReady"}
Entrega(q, p, m) == hilo[q].fase \in FasesDeEntrega /\ hilo[q].otro = p /\ hilo[q].objeto = m

\* Nobody queues for a free mutex; mutexTomados names mutexes of the process; and one that is
\* there and the process does not know of has the thread that is to wake it.
Custodia ==
  /\ \A m \in Mutexes : duenio[m] = Ninguno => espera[m] = <<>>
  /\ \A p \in Procesos, m \in Mutexes : m \in tomados[p] => duenio[m] = p
  /\ \A p \in Procesos, m \in Mutexes :
       m \in tomados[p] /\ m \notin tiene[p] => \E q \in Procesos : Entrega(q, p, m)

\* The mutexes stay, and so do the threads that handed one over.
LEMMA CustodiaTrasHilo ==
  ASSUME Custodia, UNCHANGED <<duenio, espera, tomados, tiene>>,
         \A q \in Procesos : hilo[q].fase \in FasesDeEntrega =>
           /\ hilo'[q].fase \in FasesDeEntrega /\ hilo'[q].otro = hilo[q].otro
           /\ hilo'[q].objeto = hilo[q].objeto
  PROVE  Custodia'
<1>1. \A q, p \in Procesos, m \in Mutexes : Entrega(q, p, m) => Entrega(q, p, m)'
  BY DEF Entrega
<1> QED BY <1>1 DEF Custodia

\* The step of a thread that has handed none over.
LEMMA CustodiaTrasLlamada ==
  ASSUME TypeInv, Custodia, UNCHANGED <<duenio, espera, tomados, tiene>>,
         NEW p \in Procesos, hilo[p].fase \notin FasesDeEntrega,
         (\E x : hilo' = [hilo EXCEPT ![p] = x]) \/ UNCHANGED hilo
  PROVE  Custodia'
<1>1. hilo \in [Procesos -> Hilos]
  BY TiposDelHilo DEF TypeInv
<1>2. \A q \in Procesos \ {p} : hilo'[q] = hilo[q]
  BY <1>1
<1> QED BY <1>2, CustodiaTrasHilo

\* The ways the calls write the thread of a process.
LEMMA FormasDelHilo ==
  ASSUME NEW p \in Procesos
  PROVE  /\ \A f : \E x : A(p, f) = [hilo EXCEPT ![p] = x]
         /\ \E x : Responder(p) = [hilo EXCEPT ![p] = x]
         /\ \A f, o : \E x : [hilo EXCEPT ![p].fase = f, ![p].otro = o] = [hilo EXCEPT ![p] = x]
         /\ \A f, v : \E x : [hilo EXCEPT ![p].fase = f, ![p].valor = v] = [hilo EXCEPT ![p] = x]
<1>1. \A f : A(p, f) = [hilo EXCEPT ![p] = [hilo[p] EXCEPT !.fase = f]]
  BY DEF A
<1>2. Responder(p) = [hilo EXCEPT ![p] = HiloOcioso]
  BY DEF Responder
<1>3. \A f, o : [hilo EXCEPT ![p].fase = f, ![p].otro = o]
                  = [hilo EXCEPT ![p] = [hilo[p] EXCEPT !.fase = f, !.otro = o]]
  OBVIOUS
<1>4. \A f, v : [hilo EXCEPT ![p].fase = f, ![p].valor = v]
                  = [hilo EXCEPT ![p] = [hilo[p] EXCEPT !.fase = f, !.valor = v]]
  OBVIOUS
<1>5. \A f : \E x : A(p, f) = [hilo EXCEPT ![p] = x]
  BY Zenon, <1>1
<1>6. \E x : Responder(p) = [hilo EXCEPT ![p] = x]
  BY Zenon, <1>2
<1>7. \A f, o : \E x : [hilo EXCEPT ![p].fase = f, ![p].otro = o] = [hilo EXCEPT ![p] = x]
  BY Zenon, <1>3
<1>8. \A f, v : \E x : [hilo EXCEPT ![p].fase = f, ![p].valor = v] = [hilo EXCEPT ![p] = x]
  BY Zenon, <1>4
<1> QED BY Zenon, <1>5, <1>6, <1>7, <1>8

LEMMA CustodiaTrasTomar ==
  ASSUME TypeInv, Custodia, NEW p \in Procesos, TomarMutex(p)
  PROVE  Custodia'
<1> DEFINE m == hilo[p].objeto
<1>1. /\ hilo[p].fase = "lock" /\ m \in Mutexes /\ hilo \in [Procesos -> Hilos]
      /\ duenio \in [Mutexes -> Pid] /\ espera \in [Mutexes -> Seq(Procesos)]
      /\ tiene \in [Procesos -> SUBSET Mutexes] /\ tomados \in [Procesos -> SUBSET Mutexes]
  BY TiposDelHilo DEF TomarMutex, EnFase, TypeInv, EnCurso, TypeOK, TipoMutexes
<1>2. \E x : hilo' = [hilo EXCEPT ![p] = x]
  BY FormasDelHilo DEF TomarMutex
<1>3. \A q \in Procesos \ {p} : hilo'[q] = hilo[q]
  BY <1>1, <1>2
<1>4. \A q, r \in Procesos, n \in Mutexes : Entrega(q, r, n) => Entrega(q, r, n)'
  BY <1>1, <1>3 DEF Entrega, FasesDeEntrega
<1>5. CASE UNCHANGED <<duenio, espera, tiene>>
  BY <1>4, <1>5 DEF TomarMutex, Custodia
<1>6. CASE /\ duenio[m] = Ninguno /\ UNCHANGED espera
           /\ duenio' = [duenio EXCEPT ![m] = p] /\ tiene' = [tiene EXCEPT ![p] = @ \cup {m}]
  <2> HIDE DEF m
  <2>1. /\ duenio'[m] = p /\ \A n \in Mutexes \ {m} : duenio'[n] = duenio[n]
        /\ m \in tiene'[p] /\ \A q \in Procesos : tiene[q] \subseteq tiene'[q]
    BY <1>1, <1>6
  <2>2. \A q \in Procesos : m \notin tomados[q]
    BY <1>1, <1>6, NingunoNoEsProceso DEF Custodia
  <2>3. UNCHANGED tomados /\ p # Ninguno
    BY NingunoNoEsProceso DEF TomarMutex
  <2> QED BY <1>4, <1>6, <2>1, <2>2, <2>3 DEF Custodia
<1>7. CASE /\ duenio[m] # Ninguno /\ espera' = [espera EXCEPT ![m] = Append(@, p)]
           /\ UNCHANGED <<duenio, tiene>>
  <2> HIDE DEF m
  <2>1. \A n \in Mutexes \ {m} : espera'[n] = espera[n]
    BY <1>1, <1>7
  <2>2. UNCHANGED tomados
    BY DEF TomarMutex
  <2> QED BY <1>4, <1>7, <2>1, <2>2 DEF Custodia
<1> QED BY <1>5, <1>6, <1>7 DEF TomarMutex

LEMMA CustodiaTrasLiberar ==
  ASSUME TypeInv, Custodia, NEW p \in Procesos, LiberarMutex(p)
  PROVE  Custodia'
<1>1. /\ hilo[p].fase = "unlock" /\ hilo[p].objeto \in Mutexes /\ hilo \in [Procesos -> Hilos]
      /\ duenio \in [Mutexes -> Pid] /\ espera \in [Mutexes -> Seq(Procesos)]
      /\ tiene \in [Procesos -> SUBSET Mutexes] /\ tomados \in [Procesos -> SUBSET Mutexes]
  BY TiposDelHilo DEF LiberarMutex, EnFase, TypeInv, EnCurso, TypeOK, TipoMutexes
<1>0. PICK m \in Mutexes : m = hilo[p].objeto
  BY <1>1
<1>9. PICK q : q = Head(espera[m])
  OBVIOUS
<1>2. \E x : hilo' = [hilo EXCEPT ![p] = x]
  BY FormasDelHilo DEF LiberarMutex
<1>3. \A r \in Procesos \ {p} : hilo'[r] = hilo[r]
  BY <1>1, <1>2
<1>4. \A s, r \in Procesos, n \in Mutexes : Entrega(s, r, n) => Entrega(s, r, n)'
  BY <1>1, <1>3 DEF Entrega, FasesDeEntrega
<1>5. CASE UNCHANGED <<duenio, espera, tomados, tiene>>
  BY <1>4, <1>5 DEF Custodia
<1>6. ASSUME duenio[m] = p, tiene' = [tiene EXCEPT ![p] = @ \ {m}]
      PROVE  /\ \A r \in Procesos, n \in Mutexes \ {m} : n \in tiene[r] => n \in tiene'[r]
             /\ \A r \in Procesos \ {p} : m \notin tomados[r]
  <2>1. \A r \in Procesos : tiene'[r] = IF r = p THEN tiene[p] \ {m} ELSE tiene[r]
    BY <1>1, <1>6
  <2> QED BY <1>1, <1>6, <2>1 DEF Custodia
<1>7. CASE /\ duenio[m] = p /\ tiene' = [tiene EXCEPT ![p] = @ \ {m}]
           /\ espera[m] = <<>> /\ duenio' = [duenio EXCEPT ![m] = Ninguno] /\ UNCHANGED espera
           /\ tomados' = [tomados EXCEPT ![p] = @ \ {m}]
  <2>1. /\ duenio'[m] = Ninguno /\ \A n \in Mutexes \ {m} : duenio'[n] = duenio[n]
        /\ \A r \in Procesos : tomados'[r] = IF r = p THEN tomados[p] \ {m} ELSE tomados[r]
    BY <1>1, <1>7
  <2>2. \A r \in Procesos : m \notin tomados'[r]
    BY <1>6, <1>7, <2>1
  <2> QED BY <1>4, <1>6, <1>7, <2>1, <2>2 DEF Custodia
<1>8. ASSUME duenio[m] = p, tiene' = [tiene EXCEPT ![p] = @ \ {m}], espera[m] # <<>>,
             duenio' = [duenio EXCEPT ![m] = q], espera' = [espera EXCEPT ![m] = Tail(@)],
             \/ /\ tomados' = [tomados EXCEPT ![p] = @ \ {m}, ![q] = @ \cup {m}]
                /\ hilo' = [hilo EXCEPT ![p].fase = "despertar", ![p].otro = q]
             \/ tomados' = [tomados EXCEPT ![p] = @ \ {m}]
      PROVE  Custodia'
  <2>1. q \in Procesos /\ q # Ninguno
    <3>1. espera[m] \in Seq(Procesos)
      BY <1>1
    <3> QED BY <1>8, <1>9, <3>1, CabezaYCola, NingunoNoEsProceso
  <2>2. tomados' = [tomados EXCEPT ![p] = @ \ {m}, ![q] = @ \cup {m}] => Entrega(p, q, m)'
    <3>1. hilo[p] \in Hilos
      BY <1>1
    <3>2. hilo' = [hilo EXCEPT ![p].fase = "despertar", ![p].otro = q]
            => hilo'[p] = [hilo[p] EXCEPT !.fase = "despertar", !.otro = q]
      BY <1>1
    <3>3. LET x == [hilo[p] EXCEPT !.fase = "despertar", !.otro = q]
          IN x.fase = "despertar" /\ x.otro = q /\ x.objeto = hilo[p].objeto
      BY <3>1 DEF Hilos
    <3>4. hilo' = [hilo EXCEPT ![p].fase = "despertar", ![p].otro = q] => Entrega(p, q, m)'
      BY <1>0, <3>2, <3>3 DEF Entrega, FasesDeEntrega
    <3>5. tomados' = [tomados EXCEPT ![p] = @ \ {m}] => m \notin tomados'[q]
      BY <1>1, <1>6, <1>8, <2>1
    <3>6. tomados' = [tomados EXCEPT ![p] = @ \ {m}, ![q] = @ \cup {m}] => m \in tomados'[q]
      BY <1>1, <2>1
    <3> QED BY <1>8, <3>4, <3>5, <3>6
  <2>3. /\ duenio'[m] = q /\ \A n \in Mutexes \ {m} : duenio'[n] = duenio[n]
        /\ \A n \in Mutexes \ {m} : espera'[n] = espera[n]
    BY <1>1, <1>8
  <2>4. /\ \A r \in Procesos, n \in Mutexes \ {m} : n \in tomados'[r] => n \in tomados[r]
        /\ \A r \in Procesos \ {q} : m \notin tomados'[r]
        /\ m \in tomados'[q] => Entrega(p, q, m)'
    <3>1. CASE tomados' = [tomados EXCEPT ![p] = @ \ {m}, ![q] = @ \cup {m}]
      <4>1. \A r \in Procesos : \A n \in tomados'[r] :
              (n \in tomados[r] /\ ~(r = p /\ n = m)) \/ (r = q /\ n = m)
        BY <1>1, <2>1, <3>1
      <4> QED BY <1>6, <1>8, <2>1, <2>2, <3>1, <4>1
    <3>2. CASE tomados' = [tomados EXCEPT ![p] = @ \ {m}]
      <4>1. \A r \in Procesos : tomados'[r] = IF r = p THEN tomados[p] \ {m} ELSE tomados[r]
        BY <1>1, <3>2
      <4> QED BY <1>6, <1>8, <2>1, <4>1
    <3> QED BY <1>8, <3>1, <3>2
  <2>5. \A n \in Mutexes : duenio'[n] = Ninguno => espera'[n] = <<>>
    BY <2>1, <2>3 DEF Custodia
  <2>6. \A r \in Procesos, n \in Mutexes : n \in tomados'[r] => duenio'[n] = r
    BY <2>3, <2>4 DEF Custodia
  <2>7. ASSUME NEW r \in Procesos, NEW n \in Mutexes, n \in tomados'[r], n \notin tiene'[r]
        PROVE  \E s \in Procesos : Entrega(s, r, n)'
    <3>1. CASE n = m
      BY <2>4, <2>7, <3>1
    <3>2. CASE n # m
      <4>1. n \in tomados[r] /\ n \notin tiene[r]
        BY <1>6, <1>8, <2>4, <2>7, <3>2
      <4> QED BY <1>4, <4>1 DEF Custodia
    <3> QED BY <3>1, <3>2
  <2> QED BY <2>5, <2>6, <2>7 DEF Custodia
<1> QED BY <1>0, <1>9, <1>5, <1>7, <1>8 DEF LiberarMutex

LEMMA CustodiaTrasDespertar ==
  ASSUME TypeInv, Custodia, NEW p \in Procesos, SacarAlQueEspera(p) \/ EncolarAlQueEspera(p)
  PROVE  Custodia'
<1>1. hilo \in [Procesos -> Hilos] /\ tiene \in [Procesos -> SUBSET Mutexes]
  BY TiposDelHilo DEF TypeInv, TypeOK, TipoMutexes
<1>2. CASE SacarAlQueEspera(p)
  <2>1. hilo' = [hilo EXCEPT ![p] = [hilo[p] EXCEPT !.fase = "aReady"]]
    BY <1>2 DEF SacarAlQueEspera, A
  <2>2. LET x == [hilo[p] EXCEPT !.fase = "aReady"]
        IN x.fase = "aReady" /\ x.otro = hilo[p].otro /\ x.objeto = hilo[p].objeto
    <3>1. hilo[p] \in Hilos
      BY <1>1
    <3> QED BY <3>1 DEF Hilos
  <2>3. \A q \in Procesos : hilo'[q] = IF q = p THEN [hilo[p] EXCEPT !.fase = "aReady"] ELSE hilo[q]
    BY <1>1, <2>1
  <2> QED BY <1>2, <2>2, <2>3, CustodiaTrasHilo DEF SacarAlQueEspera, mutexes, FasesDeEntrega
<1>3. CASE EncolarAlQueEspera(p)
  <2> DEFINE r == hilo[p].otro
             m == hilo[p].objeto
  <2>1. /\ UNCHANGED <<duenio, espera, tomados>> /\ tiene' = [tiene EXCEPT ![r] = @ \cup {m}]
        /\ \E x : hilo' = [hilo EXCEPT ![p] = x]
    BY <1>3, FormasDelHilo DEF EncolarAlQueEspera
  <2>2. \A q \in Procesos \ {p} : hilo'[q] = hilo[q]
    BY <1>1, <2>1
  <2>3. /\ \A q \in Procesos : tiene[q] \subseteq tiene'[q]
        /\ r \in Procesos => m \in tiene'[r]
    <3> HIDE DEF r, m
    <3> QED BY <1>1, <2>1
  <2>4. ASSUME NEW s \in Procesos, NEW n \in Mutexes, n \in tomados'[s], n \notin tiene'[s]
        PROVE  \E q \in Procesos : Entrega(q, s, n)'
    <3>1. PICK q \in Procesos : Entrega(q, s, n)
      BY <2>1, <2>3, <2>4 DEF Custodia
    <3>2. q # p
      BY <2>3, <2>4, <3>1 DEF Entrega
    <3> QED BY <2>2, <3>1, <3>2 DEF Entrega
  <2> QED BY <2>1, <2>4 DEF Custodia
<1> QED BY <1>2, <1>3

LEMMA InitCustodia == Init => Custodia
BY DEF Init, InitMutexes, Custodia

LEMMA PasoCustodia == TypeInv /\ Custodia /\ [Next]_vars => Custodia'
<1> SUFFICES ASSUME TypeInv, Custodia, [Next]_vars PROVE Custodia'
  OBVIOUS
<1> USE FormasDelHilo
<1>1. CASE UNCHANGED <<hilo, duenio, espera, tomados, tiene>>
  BY <1>1, CustodiaTrasHilo
<1>2. CASE PasoProcesos
  BY <1>1, <1>2 DEF PasoProcesos, Despachar, Salir, mutexes
<1>3. CASE PasoMutexes
  <2>1. ASSUME NEW p \in Procesos
        PROVE  /\ \A m \in Mutexes : CrearMutex(p, m) \/ PedirMutex(p, m) => Custodia'
               /\ BuscarDuenio(p) \/ BuscarDuenioEnReady(p) \/ Comparar(p) \/ Prestar(p)
                    => Custodia'
               /\ BloquearPorMutex(p) => Custodia'
               /\ Recalcular(p) \/ Restituir(p) => Custodia'
    <3>1. ASSUME NEW m \in Mutexes, CrearMutex(p, m) \/ PedirMutex(p, m) PROVE Custodia'
      BY <3>1, <2>1, CustodiaTrasLlamada, CustodiaTrasHilo
         DEF CrearMutex, PedirMutex, Pedir, Corre, mutexes, FasesDeEntrega
    <3>2. CASE BuscarDuenio(p) \/ BuscarDuenioEnReady(p) \/ Comparar(p) \/ Prestar(p)
      BY <3>2, <2>1, CustodiaTrasLlamada
         DEF BuscarDuenio, BuscarDuenioEnReady, Comparar, Prestar, EnFase, mutexes, FasesDeEntrega
    <3>3. CASE BloquearPorMutex(p)
      BY <3>3, <2>1, CustodiaTrasLlamada
         DEF BloquearPorMutex, SacarDeExec, EncolarEnBlock, EnFase, mutexes, FasesDeEntrega
    <3>4. CASE Recalcular(p) \/ Restituir(p)
      BY <3>4, <2>1, CustodiaTrasLlamada DEF Recalcular, Restituir, EnFase, mutexes, FasesDeEntrega
    <3> QED BY <3>1, <3>2, <3>3, <3>4
  <2>2. ASSUME NEW p \in Procesos
        PROVE  TomarMutex(p) \/ LiberarMutex(p) \/ SacarAlQueEspera(p) \/ EncolarAlQueEspera(p)
                 => Custodia'
    BY <2>2, CustodiaTrasTomar, CustodiaTrasLiberar, CustodiaTrasDespertar
  <2> QED BY <1>3, <2>1, <2>2 DEF PasoMutexes
<1>4. CASE PasoIO /\ UNCHANGED mutexes
  <2>1. UNCHANGED <<duenio, espera, tomados, tiene>>
    BY <1>4 DEF mutexes
  <2>2. ASSUME NEW p \in Procesos,
               \/ \E t \in Tipos : PedirIO(p, t)
               \/ BloquearPorIO(p) \/ EncolarPedido(p) \/ AvisarPedido(p)
        PROVE  Custodia'
    <3>1. ASSUME NEW t \in Tipos, PedirIO(p, t) PROVE Custodia'
      BY <2>1, <3>1, CustodiaTrasLlamada DEF PedirIO, Pedir, Corre, FasesDeEntrega
    <3>2. CASE BloquearPorIO(p)
      BY <2>1, <3>2, CustodiaTrasLlamada
         DEF BloquearPorIO, SacarDeExec, EncolarEnBlock, EnFase, FasesDeEntrega
    <3>3. CASE EncolarPedido(p) \/ AvisarPedido(p)
      BY <2>1, <3>3, CustodiaTrasLlamada DEF EncolarPedido, AvisarPedido, EnFase, FasesDeEntrega
    <3> QED BY <2>2, <3>1, <3>2, <3>3
  <2>3. ASSUME ~\E p \in Procesos : \/ \E t \in Tipos : PedirIO(p, t)
                                    \/ BloquearPorIO(p) \/ EncolarPedido(p) \/ AvisarPedido(p)
        PROVE  UNCHANGED hilo
    BY <1>4, <2>3
       DEF PasoIO, TomarFichasIO, Revisar, EsperarKM, EnviarAIO, EsperarIO, RetirarSTDIN,
           DespertarTrasSTDIN, ConectarIO, OperarIO, RecibirFinIO, RecibirLectura,
           DespertarTrasIO, LiberarIO, CaerIO, DetectarCaida, FinalizarPorIO, ResponderKM, proceso
  <2> QED BY <1>1, <2>1, <2>2, <2>3
<1>5. CASE UNCHANGED vars
  BY <1>1, <1>5 DEF vars, proceso, mutexes
<1> QED BY <1>2, <1>3, <1>4, <1>5 DEF Next

-----------------------------------------------------------------------------
(* The results.                                                            *)

\* As long as no type of device connects a second time: a mutex that a program was told it
\* holds is still assigned to it, whatever the processes, mutexes, priorities and devices.
THEOREM MutexesExclusivos == Spec => []ExclusionMutua
<1>1. EsperasInv => ExclusionMutua
  BY DEF EsperasInv, Esperas, Tenencia, ExclusionMutua
<1> QED BY <1>1, InitTypeInv, PasoTypeInv, InitEsperasInv, PasoEsperasInv, PTL DEF Spec

\* Under the same condition, a process in BLOCK has somebody to wake it: the owner of its
\* mutex, which has not ended, the thread that handed it one, or the threads of its I/O; or
\* else the owner ended, or its mutex was handed to it before it got to BLOCK.  It does not say
\* that whoever is to wake it will.
THEOREM NadieQuedaOlvidado == Spec => []BloqueadoConMotivo
<1>1. EsperasInv /\ Custodia => BloqueadoConMotivo
  <2> SUFFICES ASSUME EsperasInv, Custodia, SinReconexiones, NEW p \in Procesos,
                      lugar[p] = "BLOCK", hilo[p].fase = "programa",
                      NEW m \in Mutexes, Aguarda(p, m) \/ Heredado(p, m)
               PROVE  \/ Aguarda(p, m) /\ duenio[m] # Ninguno
                      \/ \E q \in Procesos : EnFase(q, "despertar") /\ hilo[q].otro = p
                      \/ EntregadoAntes(p, m)
    BY DEF EsperasInv, Esperas, ConMotivo, Motivo, BloqueadoConMotivo, Despierta, Abandonado,
           EnFase
  <2>1. CASE Aguarda(p, m)
    <3>1. espera[m] # <<>>
      BY <2>1 DEF Aguarda
    <3> QED BY <2>1, <3>1 DEF Custodia
  <2>2. CASE Heredado(p, m) /\ m \in tomados[p]
    <3>1. PICK q \in Procesos : Entrega(q, p, m)
      BY <2>2 DEF Custodia, Heredado
    <3>2. hilo[q].fase # "aReady"
      BY <3>1 DEF EsperasInv, Esperas, EsperaHilo, Entrega
    <3> QED BY <3>1, <3>2 DEF Entrega, FasesDeEntrega, EnFase
  <2>3. CASE Heredado(p, m) /\ m \notin tomados[p]
    BY <2>3 DEF Heredado, EntregadoAntes
  <2> QED BY <2>1, <2>2, <2>3
<1> QED BY <1>1, InitTypeInv, PasoTypeInv, InitEsperasInv, PasoEsperasInv, InitCustodia,
           PasoCustodia, PTL DEF Spec

\* Under the same condition, a process that runs its program, or is ready to, is in the
\* queue of no mutex and of no device: the end of an old wait is not taken for that of the
\* next one.
THEOREM CorreSinPendientes == Spec => []SinPendientesAlCorrer
<1>1. EsperasInv => SinPendientesAlCorrer
  <2> SUFFICES ASSUME EsperasInv, SinReconexiones, NEW p \in Procesos,
                      lugar[p] \in {"READY", "EXEC"}, hilo[p].fase = "programa"
               PROVE  (\A m \in Mutexes : ~Aguarda(p, m)) /\ (\A t \in Tipos : ~Pide(p, t))
    BY DEF SinPendientesAlCorrer, EnFase
  <2>1. hilo[p].fase \notin EnEspera
    BY DEF EnEspera
  <2> QED BY <2>1, SinEsperas DEF EsperasInv
<1> QED BY <1>1, InitTypeInv, PasoTypeInv, InitEsperasInv, PasoEsperasInv, PTL DEF Spec

\* Under the same condition, STDOUT sends and STDIN stores bytes that are in the request of
\* the process they serve, which is the first of the queue (enviarAIO, enviarAKMSolicitudIO).
THEOREM DatosDelPedido == Spec => []DatosEnMano
<1>1. EsperasInv => DatosEnMano
  <2> SUFFICES ASSUME EsperasInv, SinReconexiones, NEW t \in Tipos,
                      (t = "STDOUT" /\ servicio[t].fase = "enviar")
                        \/ servicio[t].fase = "esperarEscritura"
               PROVE  Primero(servicio[t].pid, t) /\ Leido(t)
    BY DEF DatosEnMano, Primero, Leido
  <2>1. Aparato(t)
    BY DEF EsperasInv, Aparatos
  <2> QED BY <2>1 DEF Aparato, EnManos, Lectura, Escritura
<1> QED BY <1>1, InitTypeInv, PasoTypeInv, InitEsperasInv, PasoEsperasInv, PTL DEF Spec

\* Under the same condition, finalizarProceso finds in BLOCK the process that a device which
\* disconnects was serving, and no answer of a device finds the queue empty: kernel_scheduler
\* does not exit().
THEOREM LaDesconexionEncuentra == Spec => []DesconexionEncuentra
<1>1. EsperasInv => DesconexionEncuentra
  BY DEF EsperasInv, Aparatos, Respuestas, DesconexionEncuentra
<1> QED BY <1>1, InitTypeInv, PasoTypeInv, InitEsperasInv, PasoEsperasInv, PTL DEF Spec
=============================================================================
