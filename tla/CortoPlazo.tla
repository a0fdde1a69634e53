----------------------------- MODULE CortoPlazo -----------------------------
(***************************************************************************)
(* What the short-term scheduler promises, without threads, semaphores or  *)
(* CPUs: every process is in one state of its life cycle, no process is    *)
(* ever dropped, the READY queues are first-in first-out, and a process    *)
(* gets to run only from the head of one of them.                          *)
(***************************************************************************)
EXTENDS Naturals, Sequences

CONSTANTS Procesos, Nivel,
          Cola      (* the READY queue of each process *)

VARIABLES creados, nuevos, colas, enCPU, bloqueados, terminados
vars == <<creados, nuevos, colas, enCPU, bloqueados, terminados>>

Init == /\ creados = {} /\ nuevos = <<>> /\ colas = [i \in Nivel |-> <<>>]
        /\ enCPU = {} /\ bloqueados = {} /\ terminados = {}

Listo(p) == colas' = [colas EXCEPT ![Cola[p]] = Append(@, p)]

Crear(p) == /\ p \notin creados
            /\ creados' = creados \cup {p}
            /\ nuevos' = Append(nuevos, p)
            /\ UNCHANGED <<colas, enCPU, bloqueados, terminados>>

Admitir == /\ nuevos # <<>>
           /\ Listo(Head(nuevos))
           /\ nuevos' = Tail(nuevos)
           /\ UNCHANGED <<creados, enCPU, bloqueados, terminados>>

Despachar(i) == /\ colas[i] # <<>>
                /\ colas' = [colas EXCEPT ![i] = Tail(@)]
                /\ enCPU' = enCPU \cup {Head(colas[i])}
                /\ UNCHANGED <<creados, nuevos, bloqueados, terminados>>

Expulsar(p) == /\ p \in enCPU
               /\ enCPU' = enCPU \ {p}
               /\ Listo(p)
               /\ UNCHANGED <<creados, nuevos, bloqueados, terminados>>

Bloquear(p) == /\ p \in enCPU
               /\ enCPU' = enCPU \ {p}
               /\ bloqueados' = bloqueados \cup {p}
               /\ UNCHANGED <<creados, nuevos, colas, terminados>>

Despertar(p) == /\ p \in bloqueados
                /\ bloqueados' = bloqueados \ {p}
                /\ Listo(p)
                /\ UNCHANGED <<creados, nuevos, enCPU, terminados>>

Terminar(p) == /\ p \in enCPU
               /\ enCPU' = enCPU \ {p}
               /\ terminados' = terminados \cup {p}
               /\ UNCHANGED <<creados, nuevos, colas, bloqueados>>

Next == \/ Admitir
        \/ \E i \in Nivel : Despachar(i)
        \/ \E p \in Procesos : \/ Crear(p) \/ Expulsar(p) \/ Bloquear(p)
                               \/ Despertar(p) \/ Terminar(p)

Spec == Init /\ [][Next]_vars
=============================================================================
