# Plug & Pray: verification of the kernel

This directory models the distributed "operating system" of the repository (a
kernel scheduler, a kernel memory, CPUs, I/O devices, memory sticks and a swap
area, each a process that talks to the others over TCP) in TLA+, checks it with
TLC on small instances and proves part of it with TLAPS.  Names of operations,
queues and semaphores are those of the code (Spanish).

## 1. Inventory

| Component | State it keeps | Operations | Talks to |
|---|---|---|---|
| short-term scheduler (`planificador.c`, `atencion_CPU.c`, `kernel_scheduler.c`) | queues `colaNEW`, `colasREADY[]`, `colaEXEC`, `colaBLOCK`; list `colaCPUs` with `libre`, `pidEjecutando`; semaphores `sem_hayCPUdisponible`, `sem_hayProcesosEnReady`, `sem_hayReadyPrioridad`, `sem_procesoDesalojadoPrioridad` | `loop_corto_plazo`, `atender_cpu`, `iniciarTemporizadorRR`, `monitorPrioridades`, `notificarDesalojo`, the `pasarProceso..` functions | CPUs (socket each), kernel memory, I/O |
| admission and termination (`syscall.c`, `atencion_KM.c`) | the pid counter, NEW | `crearProceso`, `CREACION_DE_PROCESO_OK`, `finalizarProceso` | kernel memory |
| mutexes (`syscall.c`) | list of mutexes: owner, queue of waiters; per PCB `mutexTomados`, priority | `crearMutex`, `tomarMutex`, `liberarMutex`, `recalcularPrioridad` | queues of the short-term scheduler |
| medium-term scheduler (`planificador.c` 549-732, `atencion_KM.c` 180-212) | `colaBLOCK_SUSP`, `colaREADY_SUSP`; flags `suspensionEnCurso`, `desuspensionPendiente` of a PCB | suspension timer, `pasarProcesoBlockaBlockSusp`, `BlockSuspAReadySusp`, `ReadySuspAReady` | kernel memory, I/O listeners |
| compaction (`atencion_KM.c` 83-178, `planificador.c` 792-810) | the compaction flag, the CPUs still to be evicted, `sem_compactacion` | `INICIAR_COMPACTACION`, eviction of every CPU, `CPUS_DESALOJADAS`, `COMPACTACION_OK` | kernel memory, CPUs |
| I/O requests (`atencion_IO.c`, `syscall.c` 277-329, 515-609) | per type: devices, waiting requests, semaphore of free devices | `enviarAIO`, `atender_io`, disconnection | I/O devices, kernel memory |
| kernel memory: segments (`huecos.c`, `segmentos.c`, `procesos.c`, `compactacion.c`) | list of holes, processes and their segments | best/worst fit, create, remove, compact | kernel scheduler, CPUs |
| kernel memory: suspension (`conexiones.c` 352-405, 562-851) | bitmap of swap blocks, blocks of each segment | `suspender_proceso_memoria`, `desuspender_proceso_memoria` | swap |
| kernel memory: sticks (`memory_stick.c`) | sticks with base and limit, socket of each | fragmented reads and writes | memory sticks |
| cpu (`cpu.c`, `instrucciones.c`) | pid, registers, pending interrupt | instruction cycle, MMU, syscalls | kernel scheduler, kernel memory, sticks |
| io, memory_stick, swap | a request at a time; bytes; blocks | serve one request and answer | their kernel |
| utils | - | packets, handshakes | all |

### Hard behaviours

* *Queue moves without a global lock.*  A PCB is popped under the lock of one
  queue and pushed under the lock of another; lookups by pid are unchecked.
* *Counting semaphores that must agree with lists* they do not share a lock
  with (`sem_hayCPUdisponible` with `colaCPUs`, `sem_hayProcesosEnReady` with
  `colasREADY`).
* *Stale interrupts*: quantum timers and priority preemptions are sent to a
  CPU by socket and can arrive when it runs another process, or none.
* *Handlers that free the CPU before* they take the process out of EXEC
  (SLEEP, STDIN, STDOUT, EXIT) or *after* it is back in READY (QUANTUM,
  PRIORIDAD).
* *CPUs that disconnect* at any point of this.
* Suspension timers against I/O completions, compaction against dispatching,
  mutex waiters against unlocks, answers of kernel memory in another order.
* Byte accounting of holes, segments and swap blocks under partial failure.

What makes each part correct: a PCB is always in one place; semaphores count
what they are for; nobody runs a process twice; a handler finds the PCB its
packet names; READY is first-in first-out within its level; every ready process
runs; (memory) holes and segments partition the memory; (swap) a block has one
owner; (mutex) one owner, no lost waiter; (compaction) nobody runs while bytes
move, and everybody resumes.  `PROJECT.json` lists the hazards with their lines.

## 2. Modules

| Module | What it is |
|---|---|
| `CortoPlazo` | Abstract: the short-term scheduler as the life cycle of a process, FIFO levels, nothing dropped. No threads, CPUs or semaphores. |
| `Planificador` | The threads of kernel_scheduler that implement it. |
| `Compactacion` | The compaction handshake between kernel_scheduler, its CPUs and kernel_memory. |
| `MedianoPlazo` | Suspension and desuspension: the timers and listeners of kernel_scheduler against the answers of kernel_memory. |
| `Bloqueos` | What blocking calls share: the queue of each PCB, the thread that attends its call. |
| `Mutexes`, `EntradaSalida` | The mutex calls with priority inheritance; the requests to I/O devices. Both EXTEND `Bloqueos`. |
| `Syscalls` | `Mutexes` and `EntradaSalida` composed over the same processes, and their properties. |
| `KernelMemory` | Holes, segments, compaction and swap blocks of kernel_memory. |
| `MemoriaPrivada` | Abstract: a memory for each process, every access whole. No CPUs, physical addresses or sticks. |
| `AccesoMemoria` | The MMU, the fragmentation of an access, the sticks and the context. |
| `AccesoPrivado` | The refinement mapping: `AccesoMemoria` implements `MemoriaPrivada`. |
| `MC...` | Values of the constants of each for TLC. |
| `ColasPCB` | Lemmas about queues of PCBs and of messages: append, take the first, put back at the front, what a queue of requests holds once. |
| `Planificador_proofs`, `PlanificadorTurnos_proofs` | Theorems about `Planificador`: types, places, tokens of READY and the refinement; turns and tokens of the CPUs. The second EXTENDS the first. |
| `Compactacion_proofs` | Theorems about `Compactacion`. |
| `MedianoPlazo_proofs` | Theorems about `MedianoPlazo`. |
| `Syscalls_proofs` | Theorems about `Syscalls`. |
| `KernelMemory_proofs` | Theorems about `KernelMemory`. |
| `AccesoMemoria_proofs` | Theorems about `AccesoMemoria`. |

How they fit: `Planificador` has the whole machinery of dispatching, and takes
BLOCK as a place that is left at any moment; `Syscalls` says when it is left, and
takes dispatching as one step; `MedianoPlazo` has what a suspension does to
BLOCK; `Compactacion` keeps from `Planificador` what an eviction meets.
`KernelMemory` decides where a segment is; `AccesoMemoria` uses it.

### `Planificador`

A step is one critical section, or one send, of one thread.  The `sem_post`
that ends a section and the `sem_wait`s that begin one are in its step: a post
only enables others, and each semaphore has one waiting thread.

| State | Code |
|---|---|
| `nuevos`, `ready[n]`, `exec`, `block`, `terminados` | `colaNEW`, `colasREADY[n]`, `colaEXEC`, `colaBLOCK`, freed PCBs. EXEC and BLOCK are searched by pid, so they are sets. |
| `traslado[p]` | progress of `pasarProcesoNewAReady` or `pasarProcesoBlockaReady` for `p` |
| `conectadas`, `libre`, `asignado` | `colaCPUs`, `libre`, `pidEjecutando` |
| `viva`, `corre`, `aCPU`, `aKS` | the CPU process: alive, what it runs; its socket in each direction |
| `atiende[c]`, `despacho`, `monitor` | program counter and locals of `atender_cpu`, `loop_corto_plazo`, `monitorPrioridades` |
| `temporizadores`, `avisosQuantum` | sleeping `iniciarTemporizadorRR` threads by CPU and process; those that decided to send |
| `hayCPU`, `hayReady`, `readyPrioridad`, `desalojados` | the four semaphores |
| `perdidos`, `fantasmas`, `desconexiones` | history: PCBs dropped by the early return of `pasarProcesoReadyAExec`; tokens of CPUs that left while free; disconnections |
| `caida` | the kernel died at an unchecked pointer or by SIGPIPE; no step follows |

Undefined behaviour is a choice: a freed CPU may be read as it was or kill the
kernel.  The syscalls are grouped by what the scheduler does for them: `SLEEP`
(also STDIN, STDOUT) frees the CPU and then blocks; `MUTEX_LOCK` blocks and
then frees it; `EXIT_PROC`; `SEG_FAULT` (and CORRUPCION, EXIT through an
error); `SEGUIR` are the calls that do not block.  A MUTEX_LOCK on a free mutex
is a `SEGUIR`.  Priorities are constant (inheritance is in `Mutexes`),
and BLOCK is left at any moment (the I/O device or the owner of a mutex decides,
in `Syscalls`).

### `Compactacion`

| State | Code |
|---|---|
| `ready`, `exec`, `terminados`, `perdidos` | one level of READY, EXEC, freed PCBs, PCBs `pasarProcesoReadyAExec` dropped |
| `libre`, `asignado`, `corre`, `aCPU`, `aKS`, `atiende`, `despacho` | as in `Planificador` |
| `monitor` | `monitorPrioridades`, of which only the wait for the end of the compaction is here |
| `oyente` | `atender_kernel_memory`: program counter, pid and the CPUs still to be told |
| `compactando`, `terminada` | `~noHayCompactacion`, `sem_compactacionTerminada` |
| `aKM`, `deKM`, `moviendo` | the socket with kernel_memory, and whether it is moving bytes |
| `pedidos` | `MEM_ALLOC` calls so far (bounded by `MaxPedidos`) |
| `caida` | a handler dereferenced the PCB it did not find; no step follows |

Whether a segment fits, or only compaction makes room, is a free choice; where
it goes is in `KernelMemory`.  Quantum, levels, BLOCK and disconnections are in
`Planificador`.  The flag is read without a lock, so each read is a step of its own.

### `MedianoPlazo`

A step is one critical section, one send, or one access to a flag of a PCB that
the code makes without a lock.  Who runs and in which order is abstracted: READY,
EXEC and BLOCK are sets, and `Ejecutar` takes any ready process.

| State | Code |
|---|---|
| `ready`, `exec`, `block`, `blockSusp`, `readySusp` | the queues; only `colaREADY_SUSP` is used in order |
| `idBloqueo`, `enCurso`, `enTransito` | `idBloqueoActual`, `suspensionEnCurso`, `ioCompletadaEnTransito` of a PCB |
| `temporizador[p][i]` | program counter of the `iniciarTemporizadorSuspendido` thread of the i-th block of `p` |
| `hilo[t]`, `pedidos[t]` | the thread that ends a block of type `t`, and who waits: `SLEEP` (and STDOUT) is `IO_OK` in `atender_io`, `STDIN` is `hacerSTDIN`, `MUTEX` is `liberarMutex`; `hilo["KM"]` is `atender_kernel_memory` |
| `suspensionOk` | `sem_suspension_ok`, one for all timers |
| `aKM`, `deKM`, `suspendido` | the socket with kernel_memory in each direction; its `suspendido` flag |
| `trabada` | kernel_memory's serving thread is blocked for ever in the rollback of a desuspension (`conexiones.c:806`) |
| `perdidos`, `caida` | history: processes whose I/O ended when no queue had them; unchecked search failed |

kernel_memory is one thread that serves the socket in order; a suspension of a
suspended process and a desuspension of a resident one are not answered, and a
desuspension that finds no room is answered with an error the scheduler ignores, or
blocks that thread for ever when it had already taken a hole for an earlier segment
(`trabada`): no request is served after that.
Whether there is room, and for how many segments, is a free choice here and decided in
`KernelMemory`.  The end of a mutex wait looks in BLOCK, then in BLOCK_SUSP, and reads
the state of the PCB again before it moves it (`syscall.c:176`, `LeerEstado`).

### `Bloqueos`, `Mutexes`, `EntradaSalida`, `Syscalls`

| State | Code |
|---|---|
| `lugar`, `hilo`, `llamadas` | the queue each PCB is in ("transito": popped and not yet pushed); the thread that attends its call; calls so far |
| `existe`, `duenio`, `espera` | `diccionario_mutex`: keys, `pidAsignado`, `cola_bloqueados` |
| `tomados`, `prioridad` | `mutexTomados` and `prioridad` of a PCB |
| `tiene` | history: what the program was told it holds |
| `pedidos`, `ocupada`, `atiendeA`, `conectada` | `interfaces[t]`: `solicitudes`, `ocupada`, `pidAsignado`, `socket_interfaz` |
| `viva`, `aIO`, `deIO` | the device and its socket |
| `servicio`, `oyente` | threads `atencionIOsleep`, `..stdIN`, `..stdOUT`, and `atender_io` |
| `hayIO`, `hayPedido`, `leidoDeIO`, `leidoDeKM`, `escritoEnKM` | `sem_hayIO[t]`, `sem_haySolicitudIO[t]` and the semaphores on which STDIN and STDOUT wait |
| `aKM` | requests of bytes kernel_memory has not answered |
| `muerto` | why kernel_scheduler ended (`finalizarProceso` calls `exit`, an empty queue is dereferenced); no step follows |

There is a CPU for each process, so a thread `atender_cpu` is named by the process
whose call it attends; quantum and preemption are in `Planificador`.
`SUSPENSION_TIME` is longer than any wait: the branches for a suspended process
are in `MedianoPlazo`.  `buscarPCBEnCualquierEstado` looks at one queue after
another, so the search for the owner of a mutex has two steps and may fail.  The
mutex a process takes free is not put in its `mutexTomados`, as in the code.  The
double unlock of `mutex_interfaces` (`atencion_IO.c:52`) is undefined and not
modelled: a critical section is one step.  SLEEP follows the path of STDOUT without
kernel_memory.  A device connects again only after the listener of the one before
has ended.

### `KernelMemory`

One thread serves the requests of kernel_scheduler one by one (`ks` is its
program counter and locals); one thread for each memory stick registers it.  A
step is one critical section on the list of holes or on a process; the synchronous
reads and writes of sticks and swap are part of the step that needs them, because
no other thread touches those bytes meanwhile.

| State | Code |
|---|---|
| `total`, `huecos` | `memoria_total`, `lista_huecos_libres` |
| `stick[k]` | sections of `MEMORY_STICK_HANDSHAKE` still to do, and the base it was given |
| `procesos`, `suspendidos`, `segs` | dictionary `procesos`, flag `suspendido`, `tabla_segmentos` |
| `bloques`, `disco`, `mem` | `bitmap_swap`, whose `MaxBit` bits are the whole blocks of swap rounded up to bytes of `PorByte` bits (`conexiones.c:357-362`), so that the last ones stand for blocks beyond its size (the file grows); contents of swap blocks and of the sticks, as tags <<process, segment, offset>> |
| `pedidas` | compactions announced with `INICIAR_COMPACTACION` and not yet allowed with `CPUS_DESALOJADAS` |
| `fugas`, `sinDuenio`, `dobles`, `caida` | history: bytes in no list; swap blocks of processes that ended suspended; bytes in two lists; NULL dereference, or bits read beyond the bitmap |

What the environment may do, taken from kernel_scheduler: a process asks only
while it runs and not while it waits for a compaction; it may be ended at any time
(a device that leaves ends its waiters wherever they are); CPUs are idle when
`CPUS_DESALOJADAS` arrives; pids are never reused by the code, so giving the name
of an ended process to the next one stands for a fresh pid.  A program does not ask twice for
the same identifier of segment (`crear_segmento` does not look).  A program fills a
segment when it gets it; later writes and failures of the links to sticks and
swap are not modelled.

The behaviour stops (`Parado`) after a NULL dereference (a hole is used before its
stick is in `lista_dir_global_ms`), when a segment needs more blocks than the bitmap has
bits (`bitarray_get_max_bit(..) - bloques_necesarios` at `conexiones.c:566` is a subtraction
in `size_t`: it wraps, and bits beyond the bitmap are read and set), and after a byte got two owners (a process that
ends while suspended returns byte 0 for each segment in swap; a stick that
connects during compaction can be counted twice): what happens to overlapping
segments afterwards is not described by any property.  These states are reachable,
and are listed as hazards in `PROJECT.json`.

### `AccesoMemoria`

| State | Code |
|---|---|
| `total`, `huecos` | `memoria_total`, the free global addresses |
| `posiciones`, `conectadas` | `lista_dir_global_ms`, `cpus_conectadas` |
| `hiloMS`, `base`, `hiloCPU` | kernel_memory's thread for each stick and for each CPU |
| `tabla`, `pcGuardado` | table of segments and `registros.PC` of each process |
| `pedidos`, `canal` | the socket from a CPU to kernel_memory and back |
| `sticks`, `segMax` | `sockets_memory_sticks` and `segment_max_size` of each CPU |
| `cpu` | the instruction cycle of each CPU: phase, pid, context, fragments still to be asked for, buffer |
| `memoria`, `vivo` | the bytes of each stick, and whether it is up |
| `estado`, `leido`, `avance` | where kernel_scheduler has each process; what its last MOV_IN returned; instructions it executed |

The properties of this module alone are stated in it; `AccesoPrivado` adds the mapping
to `MemoriaPrivada`: a global address shows the byte a write in course is about to leave
there, or else the byte in its stick (`Vista`), a process has the addresses of its
segments (`Datos`), and its instruction in course is the one of the CPU that has it
(`EnOrden`).

A segment gets any place its size fits in, and is given back whole; which one, and
compaction, are in `KernelMemory`.  The hole of a stick and `memoria_total` change in
one step here (two there).  Registers are not kept: an instruction takes any
addresses, and the PC stands for the rest of the context.  Addresses are
`uint32_t` and wrap at `Modulo`, which is 2^32; the size of COPY_MEM goes through an `int`.  Of
COPY_MEM, `MemoriaPrivada` promises which bytes change and not their value: the code
takes the size of the reply for its contents (`instrucciones.c:262`,
`memory_stick.c:120-122`), and the model does the same.  An access that meets a stick that is gone
ends in SEG_FAULT.  A later send on the same socket raises SIGPIPE (`paquete.c:75`, flags 0) and
kills the CPU; the model goes on with SEG_FAULTs there: a CPU that is dead changes no byte, so this
matters to no safety property of the module.

Some operators next to a definition are *mutants* of it (their comment says
so): the definition with a plausible bug.  Each property is shown to be violated when the
definition is replaced by one of them.

## 3. What TLC checks

| Run | Configuration | Shows |
|---|---|---|
| `Cmn` | multilevel with preemption, the lower of 2 levels is RR, 2 processes, 1 CPU | `TypeOK`, `EjecutaEnExec`, `AtencionEncuentra`, `EleccionNoVacia`, `ImplementaCortoPlazo` |
| `Desconexion` | FIFO, 3 processes on 2 CPUs, every syscall, one disconnection, symmetric | `FichasDeReady`, `FichasDeCPU`, `PerdidosAcotados`, `CadaPCBEnUnLugar`, `ImplementaCortoPlazo` |
| `VivoRr` | RR, 3 processes on 2 CPUs, programs that never yield | `TurnoUnico`, `TodosEjecutan` |
| `Compactacion` | 2 processes on 2 CPUs, one MEM_ALLOC, the monitor runs, symmetric CPUs | `TypeOK`, `CadaPCBEnUnLugar`, `FichasDeReady`, `CPULibreAnunciada`, `AlgunoDespierta` |
| `ReanudacionPerdida` | the same on 1 CPU | **violates** `PlanificadorReinicia` |
| `Suspension` | p1 blocks twice by SLEEP, p2 once by STDIN or a mutex, one increase of memory | `TypeOK`, `DiferidaSeAtiende`, `CadaPCBEnUnaCola`, `MemoriaPresente`, `RespuestasAlcanzan`, `SuspensionTermina` |
| `FinDeIOPerdido` | SLEEP, one block each | **violates** `FinDeIOEncuentra` |
| `Syscalls` | 2 processes of different priority, one mutex, STDIN and STDOUT, 2 calls each, one device falls, 2 connections of each type | `TypeOK`, `ExclusionMutua`, `BloqueadoConMotivo`, `SinPendientesAlCorrer`, `FichasDePedidos`, `DatosEnMano`, `DesconexionEncuentra` |
| `Memoria` | 2 processes, 2 segments each of 1, 2 or 4 bytes, sticks of 3 and 1 bytes, a swap of 2 blocks of 1 byte whose bitmap has 3 bits, symmetric | `TypeOK`, `ParticionDeMemoria`, `ContenidoIntacto`, `BloquesDeUnSegmento`, `MemoriaCompleta`, `SinHuecosIntermedios` |
| `RollbackTrabado` | the same with one stick of 3 bytes | **violates** `DesuspensionTermina` |
| `AccesoMemoria` | p1 writes a byte and reads it back, p2 executes any one instruction on 2 bytes; 2 CPUs and sticks of 1 and 2 bytes of which one each connects late, one stick may fall | `TypeOK`, `AnunciosAlcanzan`, `SegMaxConocido`, `ImplementaMemoriaPrivada` |
| `ContextoViejo` | p1 with two instructions, both CPUs present | **violates** `RetomaDondeDejo` |

### What the properties say

*Short-term scheduler.*  `CadaPCBEnUnLugar`: every created PCB is in one
queue, once, or in the hands of one thread.  `FichasDeReady`/`FichasDeCPU`: the
semaphores equal what they count (plus the dispatcher's token in hand, plus the
CPUs that left while free).  `EleccionNoVacia`: the scan of the levels, one lock
at a time, never ends with nothing.  `TurnoUnico`: the right to run a process is
in one packet or on one CPU.  `EjecutaEnExec`, `AtencionEncuentra`:
what a CPU runs or returns is what the kernel says it
runs, so unchecked lookups succeed in spite of stale interrupts.
`PerdidosAcotados`: a PCB is dropped only for a CPU that left while free.
`ImplementaCortoPlazo`: the threads refine `CortoPlazo`.  `TodosEjecutan`: with
programs that never yield, the timers alone let every ready process run.

*Compaction.*  `CadaPCBEnUnLugar` and `FichasDeReady` as above, through
evictions; two CPUs can be sent the same pid.  `CPULibreAnunciada`: each free CPU has
a post of `sem_hayCPUdisponible`, or the dispatcher holds it.
`AlgunoDespierta`: once no compaction is under way, the dispatcher and the monitor do
not both wait for a post that is not coming.

*Suspension.*  `MemoriaPresente`: no ready or running process has its memory in swap.
`RespuestasAlcanzan`: the one semaphore of all suspension timers has, or will get,
a post for each timer that waits.  It counts requests, posts and answers: it does not say that
kernel_memory gets to serve them, which the rollback above can prevent.  `DiferidaSeAtiende`: an I/O that ended during
the transfer is recorded only while somebody will read the record.  It claims nothing
of a process that uses SLEEP or STDOUT: the listener of these reads
`suspensionEnCurso` without the lock (`atencion_IO.c:72`), and in the model its mark
can come after the last reading.
`CadaPCBEnUnaCola`: as `CadaPCBEnUnLugar`, with the suspended queues.
`SuspensionTermina`: every suspension comes to its end, unless kernel_memory's only serving
thread blocks in the rollback of a desuspension (`trabada`; the run `RollbackTrabado` shows that it
can) or kernel_scheduler dies (`caida`).  The formula names both: neither is excluded by fairness.

*Blocking calls.*  `ExclusionMutua`: a mutex a program was told it holds is still
assigned to it.  `BloqueadoConMotivo`: a process in BLOCK has somebody that is to wake it: its mutex
has an owner that has not ended, a thread that handed it one is to wake it, or its request is in the
queue of a type of device or with the thread that took it out.  It does not say that the wake-up
comes (a program may never unlock, a type may have no device).  The two ways in which the code leaves nobody are named in
the formula, and TLC reaches both (it finds the formula false without either): the owner of the mutex
ended, and `finalizarProceso` does not release it (`syscall.c:331`, `Abandonado`); the mutex was
handed to the process while it was on its way to BLOCK, where the search did not find it
(`syscall.c:111`, `EntregadoAntes`).  Those processes stay in BLOCK for ever.
`SinPendientesAlCorrer`: a process that runs or is ready has no request and no place in
a queue of waiters left behind, which would be taken for the next one.
`FichasDePedidos`: a token of `sem_haySolicitudIO` always has its request, although
`queue_peek` and `queue_pop` do not look and devices leave.  `DatosEnMano`: the bytes
are in the request, and are of the process served, when they are sent on.
`DesconexionEncuentra`: the fall of a device finds the process it ends in BLOCK, and
no answer finds the queue of requests empty.  `BloqueadoConMotivo`,
`SinPendientesAlCorrer`, `DatosEnMano`, `DesconexionEncuentra` and `ExclusionMutua` are
claimed while no device of a type connected twice (`SinReconexiones`).  After a
reconnection they fail in the model: the disconnection leaves the request of the ended process
at the head of the queue, a service that had already looked at the socket sends it on
(`atencion_IO.c:166`), and the second `IO_OK` pops the request of another process
(`atencion_IO.c:179`).  `ExclusionMutua` takes three processes to fail, one more than the run
has: TLC finds it false in 54 states with one mutex, one SLEEP device and one reconnection.  The
stray answer wakes the new owner of the mutex between `liberarMutex` and
`pasarProcesoBlockaReady`, it runs, unlocks and blocks again, and the thread of the old
owner then wakes it as if it still were the owner.  `FichasDePedidos` holds also then.

*Kernel memory.*
`ParticionDeMemoria`: holes, segments and what a thread has in hand partition the
memory.  `ContenidoIntacto`: a segment holds what was written to it, through every
compaction and every trip to swap.  `BloquesDeUnSegmento`: a bit of the bitmap for
each block in use, one user for each block.  `MemoriaCompleta`: desuspension is
all or nothing.  `SinHuecosIntermedios`: compaction leaves nothing free below.

*Access to memory.*  `ImplementaMemoriaPrivada`: with two CPUs writing at once,
accesses cut where a stick ends, sticks that connect or fall in the middle, and
ranges that go from one process to another, no process sees or changes a byte of
another, and a MOV_IN returns what one whole write left.  `AnunciosAlcanzan`: a CPU
and a stick that have both finished their handshake know of each other, once, whichever
of the two threads of kernel_memory went first.  `SegMaxConocido`: the MMU never
divides by a `SEGMENT_MAX_SIZE` that has not arrived, although kernel_scheduler can
dispatch to a CPU before kernel_memory has answered its handshake.

### The disagreements between the code and what it says of itself

1. `FinDeIOPerdido`: the comment at `planificador.c:628` says the PCB never stops
   being in some queue.  The timer takes it out of BLOCK and pushes it to
   BLOCK_SUSP in a later section; an I/O that ends in between finds it nowhere and
   the process stays blocked.
2. `RollbackTrabado`: when the second of two segments does not fit,
   `desuspender_proceso_memoria` is to give the holes it took back and answer
   `DESUSPENSION_ERROR` (`conexiones.c:397`, `806`).  It holds `mutex_huecos` while it calls
   `agregar_hueco_libre`, which locks it: the thread blocks for ever.
3. `ReanudacionPerdida`: `COMPACTACION_OK` "reinicia planificador"
   (`atencion_KM.c:105`) with one post, which "despierta a monitorPrioridades (y a
   cualquier otro que espere lo mismo)" (106).  When the monitor takes the post the
   dispatcher sleeps for ever, and nothing is dispatched again.  (`AlgunoDespierta`
   says what does hold.)
4. `ContextoViejo`: "Enviamos el contexto actualizado a memoria"
   (`instrucciones.c:395`) and nobody acknowledges it.  The thread of kernel_memory that
   reads it is not the one that answers the next CPU of the process, which can be
   given the old PC and repeat instructions.

### Bounds

`Planificador`: `MaxTemporizadores` = 1 sleeping timer for each CPU and process: a
second one for the same pair only repeats the decision of the first.
`MaxAvisos` = 2 pending posts of each monitor semaphore: the monitor waits for
one, and a surplus of one already makes it skip a wait (the code lets the
surplus grow without limit, which is why there is a bound).
`MaxDesconexiones` = 1 of 2 CPUs, so that the kernel goes on with one.  Three
processes on two CPUs, or two on one, are enough for a process to wait while the
others run and for a stale packet to reach a CPU that runs another process.
`Desconexion` uses symmetry (safety only, processes of equal priority).

`Compactacion`: `MaxPedidos`, one MEM_ALLOC of p1: one compaction, during which p2
calls, ends, waits in READY or is evicted on the other CPU; the announcement, the
answer to MEM_ALLOC and the dispatcher meet in every order.  189,544 states.

`MedianoPlazo`: `MaxBloqueos` blocks for each process and `MaxAumentos` increases
of memory.  Of two processes one blocks twice
(`SoloP1DosVeces`), so that the timer of its first block can meet the second, and
the other process competes with it for the shared semaphore and for the head of
READY_SUSP; more blocks repeat these.  616,687 states.  The safety properties
were also explored with all three types of block for both processes and one
increase of memory (2.3 million states), and hold.

`Syscalls`: `MaxLlamadas` = 2 calls for each process, so that the end of a first wait
can meet a second one; `MaxCaidas` = 1; `MaxConexiones` = 2, so that a device that
fell is replaced.  542,446 states.  Also explored, and hold: three processes, one
mutex and STDOUT without reconnection (2.1 million states), three
processes with mutexes only (a chain of inheritance; 80 thousand), two processes
with all three types of device (3.0 million).

`KernelMemory` needs no bound but its sizes: four bytes in two sticks give segments
between holes, segments across sticks, a request for which only compaction makes
room, and one no compaction can serve; three swap blocks against four bytes give
suspensions that keep a segment in memory; a swap of two blocks has a bitmap of three bits (bytes
of `PorByte` = 3 bits stand for the 8 of the code), so a block beyond its size is handed out, and a
segment of 4 bytes asks for more blocks than there are bits.  1,199,143 states.  Symmetry exchanges the processes.
Also explored, and hold: segments of 1 and 3 bytes with two swap blocks of 2 bytes, so
that the last block of a segment is short (576 thousand states).

`AccesoMemoria`: `Programa` says what each instruction of a process may be (the code looks
it up in the script of the process) and `Pide` of which sizes its segments are: p1 has one byte, which it
writes and then reads back; p2 has two, and executes any one of MOV_IN, MOV_OUT, COPY_MEM or a syscall.
`Registros` = {1, 2}: an access of 2 bytes is cut where the stick of 1 byte ends, or lies in the stick of 2,
and p1 can have one of the bytes next to it.  TLC reaches, among others, states in which
both CPUs write and one has two sticks still to ask, in which both are at the same stick, in which p1 reads
while a COPY_MEM of p2 writes, and in which a stick falls between the two halves of a write.
`Presentes` are connected before the first step and the rest at any moment; `Fragiles` may
fall while an access to them is in course (one that falls before fails on the next access);
`Modulo` = 8 (addresses up to 7 over a memory of 3 bytes, so that sums wrap); `Copias`
contains 2 and 7, which is negative as an `int` and is accepted without copying anything.  A segment is at
most `SegMax` bytes, as the programs of the repository ask (`segmentos.c:28` does not
check it).  938,215 states.  Also explored, and hold, with a stick that falls at any moment:
segments of 1 or 2 bytes for both processes (5.5 million), and two instructions of any kind for
p1 and one for p2 with two sticks of 1 byte (4.7 million).

*Deadlock* is not checked: the scheduler may stop when every process has ended or
waits in BLOCK, or when the kernel process dies; the medium-term and syscall models
stop when their calls are used up; kernel_memory stops at `Parado` or "trabado";
a program whose mutex does not exist gets no answer.

### Fairness

`Planificador!Equidad`: every kernel thread and every CPU that can take its next
step takes it, which the operating system gives to threads and sockets.
Nothing makes a program issue a call, an I/O device answer, or a CPU leave.
`MedianoPlazo!SpecEquidad`: timers expire, kernel threads run and kernel_memory
serves the next request unless its thread is blocked (`~trabada` is in the guard of
`AtenderPedidoKM`, so fairness asks nothing of it then); devices, again, may never answer, and mutexes may never be
released.
`KernelMemory!SpecEquidad`: the serving thread goes on unless a lock blocks it.
`Compactacion!SpecEquidad`: kernel threads run, CPUs look at their socket between
instructions, kernel_memory answers; nothing makes a program call.
`Syscalls` and `AccesoMemoria` are checked for safety only.

## 4. What TLAPS proves

Every theorem is for any values of the constants that satisfy the assumptions of the
module, which TLC evaluates in every run of it.  Each proof has the same shape: an
invariant that is inductive, one lemma for each action that can disturb it, and a last step
that joins them with PTL.  An inductive invariant was checked by TLC on a small instance before it was
proved, wherever its evaluation is within reach.

### `Planificador`

Any processes and CPUs, any number of levels and any bounds (`PlanificadorAssumption`).

* `TipoCorrecto == Spec => []TypeOK`.  `TypeOK` alone is not inductive: a
  thread may hold `Ninguno` (a NULL pointer) and later append it to a queue of
  processes; the semaphores are decremented by threads that checked them
  before.  `EnCurso` adds what each program counter implies about the locals of
  its thread.

* `UnLugarPorPCB == Spec => []CadaPCBEnUnLugar`.  `EnLugar(p, k, x)` says that
  the PCB of `p` is in place `x` of kind `k`: a queue, a level of READY, a transfer,
  the hands of the dispatcher or of the thread that attends a CPU.  The invariant
  is `LugaresInv`: nobody is in two places (`UnSoloLugar`), no queue holds a PCB
  twice (`SinRepetidos`, without which taking the head of a level would leave the
  PCB in it), and the dispatcher holds nothing while it waits (`DespachoVacio`).
  Every action that moves a PCB is one `Muda` from a place to another, and one lemma
  shows that a `Muda` preserves `UnSoloLugar`.  This is the argument the
  code's locks do not give: the PCB is in no queue between two critical
  sections, and what protects it is that only one thread holds the pointer.

* `FichasExactas == Spec => []FichasDeReady` and
  `SiempreElige == Spec => []EleccionNoVacia`.  `FichasInv` adds to both that, while
  the dispatcher scans, a level it has not looked at yet holds a PCB: it took a
  token, the tokens count the PCBs (finite cardinalities), and nobody else takes a
  PCB out of READY.  A push to a level already passed does not matter.  Levels
  above `UltimoNivel` are empty, so the scan does not run off the end.

* `SeImplementaCortoPlazo == Spec => ImplementaCortoPlazo`: the refinement.  The
  mapping gives `CortoPlazo` the queues plus what the threads have in hand; each action is
  shown to be one action of `CortoPlazo` or to leave its variables alone.  It needs
  `LugaresInv` (a PCB that a thread pushes is in no other place, so a set that loses
  it and a set that gets it are the only two that change) and `UnaAdmision`: only one process
  is between NEW and READY, because one listener thread admits them, so
  the head of the abstract NEW is the one in hand.

* `NingunoCorreDosVeces == Spec => []TurnoUnico` and
  `CorreDesdeExec == Spec => []EjecutaEnExec`, from `TurnosInv`.  `CPUInv(c)` is what one
  CPU, its socket in each direction, its entry in `colaCPUs` and its thread know of
  each other: the turn of `c` is in one of them at a time.  `UnDuenio(p)` relates different CPUs:
  at most one thread is the one that will take `p` out of EXEC.  The two are needed together, because
  the dispatcher fills entry, EXEC and socket in three steps, while SLEEP and EXIT
  empty them in one order and MUTEX_LOCK in another.

* `FichasDeCPUExactas == Spec => []FichasDeCPU` and
  `PerdidosAcotadosSiempre == Spec => []PerdidosAcotados`, from `CuentaInv`: the PCBs that were
  dropped, the posts of CPUs that left while free, and the CPUs that left and are still
  in `colaCPUs` (each may yet become one of the other two) add up to at most the disconnections.

* `AtencionSiempreEncuentra == Spec => [](desconexiones = 0 => AtencionEncuentra)`.  The
  condition is needed: a CPU that leaves between the two steps in which the dispatcher
  writes its entry and puts the PCB in EXEC has its thread search for a PCB that is not there yet.
  `CuentaSacarDeExec` shows that this is the only search that can fail.

### `Compactacion`

Any finite sets of processes and CPUs, with or without the monitor, any number of
allocations (`CompactacionAssumption`).

* `TipoCorrecto == Spec => []TypeOK`, from `TypeInv`, which adds `EnCurso`: past its
  look-up a thread holds a process, and one that attends a CPU holds a pid that
  EXEC did not have only if the kernel died of it.
* `FichasExactas == Spec => []FichasDeReady`: with the types, the formula is inductive; the
  dispatcher that meets the flag gives its token back.
* `NingunaCPUOlvidada == Spec => []CPULibreAnunciada`: every step that frees a CPU posts,
  and only the dispatcher, with a token, takes one (cardinalities of `Libres`).
* `AlguienSigue == Spec => []AlgunoDespierta`: `DespertarInv` adds that the monitor sleeps
  only where there is one; the flag goes down in the step that posts, and of two
  sleepers a post that was taken has woken one.
* `UnLugarPorPCB == Spec => []CadaPCBEnUnLugar`: the argument of `Planificador` with a
  smaller set of places, up to the death of the kernel (`caida`): a second CPU sent the same
  pid dereferences NULL instead of moving the PCB twice.

### `MedianoPlazo`

Any finite set of processes, any priorities, types of block, number of blocks and of
increases of memory (`MedianoPlazoAssumption`; the set is finite because the posts of the one
semaphore are counted).

* `TiposDeMedianoPlazo == Spec => []TypeOK` from `Tipado`: a thread past its receive has a
  process, so no message to kernel_memory is without one.
* `ElRegistroSeLee == Spec => []DiferidaSeAtiende`: `ioCompletadaEnTransito` is only set
  while the timer that reads it is between its two critical sections.  SLEEP and STDOUT are
  excluded, see above.
* `UnaColaPorPCB == Spec => []CadaPCBEnUnaCola` and
  `LaMemoriaEstaPresente == Spec => []MemoriaPresente`, from `Ordenado`.  Neither is inductive;
  `Ciclo(p)` is what joins them.  A PCB is in exactly one of six places (`EnUnLugar`), and
  the suspension of its process in exactly one of five stages (`EnUnaEtapa`): in memory; the
  PCB already in a suspended queue and the request still to be sent; the request in the
  socket; in swap; the answer of the desuspension on its way.  No stage has two
  representatives (`SinDobles`): two timers of the process, or two requests.  What happens to memory
  follows the place of the PCB through four messages, and a PCB becomes ready
  only with the last of them.  kernel_scheduler asks more than once for the process at the
  head of READY_SUSP; kernel_memory answers once, since the second finds it resident.
* `LasRespuestasAlcanzan == Spec => []RespuestasAlcanzan`: the posts of `sem_suspension_ok`, the
  answers, the requests in the socket and those still to be sent are as many as the timers that
  wait or will.  A surplus can build up, a deficit cannot; the lemma that carries it is that the
  suspension in a socket finds its process resident, so it is answered (`Ciclo` again).

### `Syscalls`

Any finite set of processes, any mutexes and base priorities, any of the three types of
device and any number of calls, falls and connections (`BloqueosAssumption`,
`MutexesAssumption`, `EntradaSalidaAssumption`, and `SyscallsAssumption`: a mutex is not named like
a type of device; the code keeps them in different structures, the model in one
local of a thread).

* `TipoCorrecto == Spec => []TypeOK` and `FichasDeCadaPedido == Spec => []FichasDePedidos`,
  from one invariant, `TypeInv`.  The types cannot be proved alone: `RetirarSTDIN` pops
  the queue without a look, which is only safe because the request is still there.
  `EnCurso` adds that a mutex call names a mutex and that a service past its look at the
  queue has a process.  `FichasInv` says who owns the requests of a queue: each token of
  `sem_haySolicitudIO`, each thread that has queued its request and not posted yet
  (`Avisan`, a finite set), the request in service, and each one that was sent to a device
  of SLEEP or STDOUT and not retired (in the sockets); for each there is a request of
  its own.  The order of `manejar_sleep` (push, then post) is what keeps it.  The lemmas
  `CasoHilo`, `CasoIO`, `CasoDispositivo` and `CasoAviso` say what a step may do to
  that sum, and each action is one of them.
* `MinNatural`: the least of some naturals is a natural (the operator `Min` is a
  `CHOOSE`), by well-foundedness of strict inclusion between finite sets; the
  recalculated priority is one.
* The other five properties, while no type of device connected twice, from one invariant,
  `EsperasInv`: `MutexesExclusivos == Spec => []ExclusionMutua`,
  `NadieQuedaOlvidado == Spec => []BloqueadoConMotivo`,
  `CorreSinPendientes == Spec => []SinPendientesAlCorrer`,
  `DatosDelPedido == Spec => []DatosEnMano` and
  `LaDesconexionEncuentra == Spec => []DesconexionEncuentra`.  They depend on each other in a
  circle: a mutex stays with its owner if nobody but the thread that handed it over wakes the new
  one; that is so if a process waits for one thing at a time (`UnaEspera`: for a mutex, in a queue of
  requests, or to be moved by a listener, a service or another thread); and that is so if
  a device answers only what is first in its queue (`EnManos`).  This last one needs
  `CargaInv`: the tokens of `sem_hayIO`, the service that took one, what is in the sockets and the
  listener that has not given it back are at most as many as the connections of the type,
  so with one connection they are one, and whoever has it is alone.  `BloqueadoConMotivo` also needs
  `Custodia`: nobody queues for a free mutex, `mutexTomados` names only mutexes assigned to the
  process, and one that is there and the process does not know of has the thread that is to wake it.  `CargaInv` holds
  with any number of connections; the rest does not, which is exactly why the properties fail after
  one.  `Lectura` and `Escritura` follow the bytes of STDIN and STDOUT, and `SigueVivo` says that
  nobody ends a process whose bytes are about to be stored.

### `AccesoMemoria`

Any processes, any CPUs and sticks of any size, present or late, fragile or not
(`AccesoMemoriaAssumption`).

* `LosAnunciosAlcanzan == Spec => []AnunciosAlcanzan`: `Sabe(c)` holds because a thread that
  connects a CPU enters it in `cpus_conectadas` before it reads the list of sticks, and the one that
  connects a stick adds it to that list before it reads the other; whichever is second tells.  That
  a stick is not announced twice rests on the look-up of `conectar_memory_stick`.
* `ElMaximoSeConoce == Spec => []SegMaxConocido`: `MaximoDe(c)` says that in the socket to a CPU
  every context has SEG_MAX_SIZE before it, or the CPU has read it already.
* The instruction cycle, with its addresses and bytes, enters these two proofs only through
  `Ciclo`: what it does to the sockets.
* `TiposBien == Spec => []TypeOK` and `NuncaFueraDelStick == Spec => []PedazosDentro`, from
  `PrivadoInv`.  `Mapa`: the ranges of the sticks that are up lie one after the other and fill
  `0 .. total - 1`.  `Tablas`: two segments, of one process or of two, share no byte, and none
  is free.  `Turno` and `Contexto`: a process is in one CPU at most, and the table in that CPU,
  or in the answer on its way to it, is its table (the PC need not be its own: that is the run
  `ContextoViejo`).  `Anda`: of an instruction in course, every fragment lies in one
  stick (`Cabe`), and it names the addresses the access asks for.  That `Fragmentar` returns such a
  list is a property of a recursive function of what is left to cut, proved from a least
  counterexample among the sizes.  A stick therefore never refuses a CPU.  The sum
  of the MMU can wrap, and let a range through that does not fit, only when the size of COPY_MEM is at
  least half of `Modulo`, because `SEGMENT_MAX_SIZE` and the widths of the registers are below it (an
  assumption); such a size is negative as an `int`, and has no fragments.
* `CadaProcesoSuMemoria == Spec => ImplementaMemoriaPrivada`, the refinement, from `PrivadoInv` and
  `Lecturas`: of a MOV_IN in course, what the buffer has already and what the sticks have still to
  answer are what the memory of the process holds.  The main step is that no other
  instruction changes the bytes a process sees: it would write in a segment of its own process, and
  segments share no byte.  A write shows as one step, its start, since `Vista` reads a byte from the
  buffer until its fragment is sent and from the stick after.  A stick that connects adds addresses
  that no segment has; one that falls changes no byte, and the write it cuts is a `Soltar`.

### `KernelMemory`

Any finite sets of processes and segment identifiers, any sizes, any number of sticks of any size,
any swap, and either strategy (`KernelMemoryAssumption`; sizes are not zero because
the code asks for `base + tamanio - 1`).

* `TiposDeLaMemoria == Spec => []TypeOK`, from `TypeInv`, which holds up to the step in which a request
  of more blocks than `MaxBit` wraps the subtraction at `conexiones.c:566`; the model stops
  there, and nothing is proved of the bits that are set then: what each program counter says of the
  locals (`EnCurso`), that an index kept from one section to the next still is one of the table
  (`Indices`), that a segment in swap ends inside it (`CabenEnSwap`), and that the sticks lie one
  after the other up to `total` (`SticksAparte`).  `ElegidoEsCandidato` proves that best and worst
  fit choose a hole whenever one fits: the order among candidates has a least one because
  inclusion between finite sets is well founded.
* `DesuspensionEntera == Spec => []MemoriaCompleta`, from `MemInv`, which adds `Reservas`: the
  PRE-CHECK holds one hole, of its size, for each segment in swap it has passed, so when the loop
  that reads them back ends there is none left.
* `BloquesSinCompartir == Spec => []BloquesDeUnSegmento`, from `SwapInv`.  It needs `MemInv`: the
  segment a deletion removes is of a process that is not suspended, so it has no blocks to clear.
* `MemoriaRepartida == Spec => []ParticionDeMemoria` and
  `CompactacionSinHuecos == Spec => []SinHuecosIntermedios`, from `RepInv`.  The set of owners of a byte is
  taken apart in six families, each of at most one member, of which at most one has any
  (`UnoSolo`), and that below `total` and outside compaction one has it (`Exacto`).  `SegmentoCambia`,
  `CubreConsumir`, `CubreMs` and their like say what one operation does to one family, and each action is a
  transfer from one to another.  While compaction runs the list of holes says nothing, and what takes
  its place is `Compacta`: the segments already moved fill the memory from 0 to `ks.base` with no gap,
  those that wait are above and in order.  So the bytes a segment moves to are its own or
  nobody's, except a stick that is still connecting, and that one is not mapped; and the hole that
  is made at the end is exactly what is left.  Both theorems are about the states up to the two
  defects in which the code puts a byte in two lists (`dobles`): there the model stops.
* `NadaSePierde == Spec => []ContenidoIntacto`, from `ContInv`, which adds to `RepInv` and `SwapInv`
  that each segment, resident or in swap, is `Lleno`: its bytes in the sticks, or the blocks
  that `escribir_segmento_en_swap` cut (`TrozoDe`), are what was written to it.  By the two
  partitions no other segment has a byte or a block of the one a step moves, before or after it, so every
  other stays `Lleno`; and the one that moves is written from what was read of it.  For the way back
  `LeerSwapEs` says that the blocks, put one after the other, the last one short, are the contents
  that were cut.  When a stick is not mapped yet nothing is written, which is one of the places the
  model stops.

### Only model-checked

Every safety invariant that a passing run checks, and both refinements, are stated by a
theorem.  What stays with TLC:

* `TodosEjecutan` and `SuspensionTermina`, liveness under fairness: out of the prover's reach.
* The properties of the four runs that expect a violation: they are false, and TLC finds the
  behaviour.

## 5. Plan

Every module of the plan is written.  What is left, by importance:

1. The exchange that precedes admission (see below).
2. The branches of `finalizarProceso` for suspended processes.

## 6. Not modelled

* The exchange with kernel_memory before admission: `pidParaAsignar` read and
  incremented without a lock, NEW and the socket that get two creations in different
  orders, a creation that is refused.  `Planificador` admits the head of NEW, as
  the code does, whichever pid was confirmed.
* The shutdown when memory is corrupted: it ends the program.
* The physical address STDIN keeps while compaction or suspension moves the segment;
  kernel_memory's write for STDIN has no address in `EntradaSalida`.
* A stick or swap that fails while kernel_memory waits for it.
* The end of a process while it is suspended (`DESCONEXION_IO`).
* Configuration, logs, the console, the byte layout of packets, the look-up
  of instructions in script files, the file behind swap: pure I/O or tables.

States that the code reaches and about which no property claims anything (the model stops in
them or goes on) are listed as hazards in `PROJECT.json`, with a note each.
