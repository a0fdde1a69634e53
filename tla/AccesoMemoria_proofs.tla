------------------------- MODULE AccesoMemoria_proofs -------------------------
(***************************************************************************)
(* Proofs about the access to the memory sticks: every CPU learns where    *)
(* each stick is, the MMU has SEGMENT_MAX_SIZE before it translates, no    *)
(* stick is asked for a byte it does not have, and each process sees a     *)
(* memory of its own.                                                      *)
(***************************************************************************)
EXTENDS AccesoPrivado, ColasPCB, FunctionTheorems, FiniteSetTheorems, TLAPS

\* The sticks whose place kernel_memory has in its list.
Conocidos == {s \in Sticks : hiloMS[s] \in {"avisar", "listo"}}

EsSecuencia(s) == s \in Seq(Range(s))
Campos(k) == k = [fase |-> k.fase, pid |-> k.pid, pc |-> k.pc, tabla |-> k.tabla,
                  ins |-> k.ins, frags |-> k.frags, buf |-> k.buf]

Formas ==
  /\ hiloMS \in [Sticks -> {"afuera", "posicion", "avisar", "listo"}]
  /\ hiloCPU \in [CPUs -> {"conecta", "enviar", "atiende"}]
  /\ base = [s \in Sticks |-> base[s]] /\ vivo = [s \in Sticks |-> vivo[s]]
  /\ canal = [c \in CPUs |-> canal[c]] /\ sticks = [c \in CPUs |-> sticks[c]]
  /\ cpu = [c \in CPUs |-> cpu[c]] /\ segMax = [c \in CPUs |-> segMax[c]]
  /\ \A c \in CPUs : EsSecuencia(canal[c]) /\ EsSecuencia(sticks[c]) /\ Campos(cpu[c])

\* What kernel_memory's own lists say, and what one CPU knows.
Listas ==
  /\ posiciones = {Posicion(s) : s \in Conocidos} /\ IsFiniteSet(posiciones)
  /\ \A c \in CPUs : hiloCPU[c] # "conecta" => c \in conectadas

Sabe(c) ==
  /\ Range(sticks[c]) \subseteq posiciones
  /\ \A m \in Range(canal[c]) : m.op = "MS_NUEVO_CPU" => m.ms \in posiciones
  /\ \A s \in Sticks :
       hiloCPU[c] = "atiende" /\ hiloMS[s] = "listo" /\ vivo[s] =>
         Posicion(s) \in Range(sticks[c]) \/ Aviso(Posicion(s)) \in Range(canal[c])
  /\ \A i, j \in DOMAIN sticks[c] : sticks[c][i].ms = sticks[c][j].ms => i = j

Avisado(c) == segMax[c] = SegMax \/ \E m \in Range(canal[c]) : m.op = "SEG_MAX_SIZE"

\* No context overtakes SEG_MAX_SIZE on its way to c.
MaximoDe(c) ==
  /\ \A m \in Range(canal[c]) : m.op = "SEG_MAX_SIZE" => m.tam = SegMax
  /\ IF hiloCPU[c] = "atiende" THEN Avisado(c)
     ELSE \A m \in Range(canal[c]) : m.op # "CONTEXT_RESPONSE"
  /\ \A j \in DOMAIN canal[c] : canal[c][j].op = "CONTEXT_RESPONSE" =>
       segMax[c] = SegMax \/ \E i \in DOMAIN canal[c] : i < j /\ canal[c][i].op = "SEG_MAX_SIZE"
  /\ cpu[c].fase \in {"libre", "contexto"} => cpu[c].frags = <<>>
  /\ cpu[c].fase \notin {"libre", "contexto"} => segMax[c] = SegMax

AccesoInv == Formas /\ Listas /\ \A c \in CPUs : Sabe(c) /\ MaximoDe(c)

-----------------------------------------------------------------------------
(* Sequences of any elements, and the order SetToSeq chooses.              *)

LEMMA Concatenar ==
  ASSUME NEW s, NEW t, EsSecuencia(s), EsSecuencia(t)
  PROVE  /\ EsSecuencia(s \o t) /\ Range(s \o t) = Range(s) \cup Range(t)
         /\ Len(s) \in Nat /\ DOMAIN s = 1 .. Len(s) /\ DOMAIN (s \o t) = 1 .. Len(s) + Len(t)
         /\ \A i \in 1 .. Len(s) : (s \o t)[i] = s[i]
         /\ \A i \in 1 .. Len(t) : (s \o t)[Len(s) + i] = t[i]
<1> DEFINE S == Range(s) \cup Range(t)
           u == s \o t
<1>1. s \in Seq(S) /\ t \in Seq(S)
  BY DEF EsSecuencia
<1>2. /\ u \in Seq(S) /\ Len(s) \in Nat /\ Len(t) \in Nat
      /\ DOMAIN s = 1 .. Len(s) /\ DOMAIN t = 1 .. Len(t) /\ DOMAIN u = 1 .. Len(s) + Len(t)
      /\ \A i \in 1 .. Len(s) : u[i] = s[i]
      /\ \A i \in 1 .. Len(t) : u[Len(s) + i] = t[i]
  BY <1>1
<1>3. \A k \in 1 .. Len(s) + Len(t) : k \in 1 .. Len(s) \/ \E i \in 1 .. Len(t) : k = Len(s) + i
  <2> TAKE k \in 1 .. Len(s) + Len(t)
  <2>1. k \notin 1 .. Len(s) => k - Len(s) \in 1 .. Len(t) /\ k = Len(s) + (k - Len(s))
    BY <1>2
  <2> QED BY <2>1
<1>4. /\ \A i \in 1 .. Len(s) : i \in 1 .. Len(s) + Len(t)
      /\ \A i \in 1 .. Len(t) : Len(s) + i \in 1 .. Len(s) + Len(t)
  BY <1>2
<1> HIDE DEF u
<1>5. Range(u) = S
  <2>1. ASSUME NEW x \in Range(u) PROVE x \in S
    BY <1>2, <1>3, <2>1 DEF Range
  <2>2. ASSUME NEW x \in S PROVE x \in Range(u)
    <3>1. CASE x \in Range(s)
      <4>1. PICK i \in 1 .. Len(s) : x = s[i] BY <1>2, <3>1 DEF Range
      <4> QED BY <1>2, <1>4, <4>1 DEF Range
    <3>2. CASE x \in Range(t)
      <4>1. PICK i \in 1 .. Len(t) : x = t[i] BY <1>2, <3>2 DEF Range
      <4> QED BY <1>2, <1>4, <4>1 DEF Range
    <3> QED BY <2>2, <3>1, <3>2
  <2> QED BY <2>1, <2>2
<1> QED BY <1>2, <1>5 DEF EsSecuencia, u

LEMMA Agregar ==
  ASSUME NEW s, NEW e, EsSecuencia(s)
  PROVE  /\ EsSecuencia(Append(s, e)) /\ Range(Append(s, e)) = Range(s) \cup {e}
         /\ Len(s) \in Nat /\ DOMAIN s = 1 .. Len(s) /\ DOMAIN Append(s, e) = 1 .. Len(s) + 1
         /\ \A i \in 1 .. Len(s) : Append(s, e)[i] = s[i]
         /\ Append(s, e)[Len(s) + 1] = e
<1> DEFINE S == Range(s) \cup {e}
           u == Append(s, e)
<1>1. s \in Seq(S)
  BY DEF EsSecuencia
<1>2. /\ u \in Seq(S) /\ Len(s) \in Nat /\ DOMAIN s = 1 .. Len(s)
      /\ DOMAIN u = 1 .. Len(s) + 1 /\ u[Len(s) + 1] = e
      /\ \A i \in 1 .. Len(s) : u[i] = s[i]
  BY <1>1
<1>3. 1 .. Len(s) + 1 = (1 .. Len(s)) \cup {Len(s) + 1}
  BY <1>2
<1> HIDE DEF u
<1>4. Range(u) = S
  BY <1>2, <1>3 DEF Range
<1> QED BY <1>2, <1>4 DEF EsSecuencia, u

LEMMA Quitar ==
  ASSUME NEW s, EsSecuencia(s), s # <<>>
  PROVE  /\ EsSecuencia(Tail(s)) /\ Range(Tail(s)) \subseteq Range(s)
         /\ Head(s) \in Range(s) /\ Range(s) = {Head(s)} \cup Range(Tail(s))
         /\ Head(s) = s[1] /\ Len(s) \in Nat \ {0} /\ DOMAIN s = 1 .. Len(s)
         /\ DOMAIN Tail(s) = 1 .. Len(s) - 1
         /\ \A i \in 1 .. Len(s) - 1 : Tail(s)[i] = s[i + 1]
<1> DEFINE S == Range(s)
           t == Tail(s)
<1>1. s \in Seq(S)
  BY DEF EsSecuencia
<1>2. /\ t \in Seq(S) /\ Len(s) \in Nat \ {0} /\ DOMAIN s = 1 .. Len(s) /\ Head(s) = s[1]
      /\ DOMAIN t = 1 .. Len(s) - 1 /\ Len(t) = Len(s) - 1
      /\ \A i \in 1 .. Len(s) - 1 : t[i] = s[i + 1]
  BY <1>1
<1>3. \A i \in 1 .. Len(s) : i = 1 \/ \E j \in 1 .. Len(s) - 1 : i = j + 1
  <2> TAKE i \in 1 .. Len(s)
  <2>1. i # 1 => i - 1 \in 1 .. Len(s) - 1 /\ i = (i - 1) + 1
    BY <1>2
  <2> QED BY <2>1
<1>4. 1 \in 1 .. Len(s) /\ \A j \in 1 .. Len(s) - 1 : j + 1 \in 1 .. Len(s)
  BY <1>2
<1> HIDE DEF t
<1>5. t \in Seq(Range(t))
  <2>1. \A i \in 1 .. Len(s) - 1 : t[i] \in Range(t)
    BY <1>2 DEF Range
  <2> QED BY <1>2, <2>1
<1>6. Head(s) \in Range(s) /\ Range(t) \subseteq Range(s)
  BY <1>2, <1>4 DEF Range
<1>7. ASSUME NEW x \in Range(s) PROVE x = Head(s) \/ x \in Range(t)
  <2>1. PICK i \in 1 .. Len(s) : x = s[i]
    BY <1>2, <1>7 DEF Range
  <2>2. CASE i = 1 BY <1>2, <2>1, <2>2
  <2>3. CASE i # 1
    <3>1. PICK j \in 1 .. Len(s) - 1 : i = j + 1 BY <1>3, <2>3
    <3> QED BY <1>2, <2>1, <3>1 DEF Range
  <2> QED BY <2>2, <2>3
<1> QED BY <1>2, <1>5, <1>6, <1>7 DEF EsSecuencia, t

LEMMA DeConjunto ==
  ASSUME NEW S, IsFiniteSet(S)
  PROVE  /\ EsSecuencia(SetToSeq(S)) /\ Range(SetToSeq(S)) = S
         /\ \A i, j \in DOMAIN SetToSeq(S) : SetToSeq(S)[i] = SetToSeq(S)[j] => i = j
<1> DEFINE n == Cardinality(S)
           q == SetToSeq(S)
<1>1. n \in Nat /\ \E f : f \in Bijection(1 .. n, S)
  BY FS_CardinalityType DEF ExistsBijection
<1>2. PICK f : f \in Bijection(1 .. n, S)
  BY <1>1
<1>3. f \in [1 .. n -> S] /\ IsInjective(f)
  <2>1. f \in [1 .. n -> S] /\ \A a, b \in 1 .. n : f[a] = f[b] => a = b
    BY <1>2, Fun_BijectionProperties
  <2> QED BY <2>1 DEF IsInjective
<1>4. q \in [1 .. n -> S] /\ IsInjective(q)
  BY <1>3 DEF SetToSeq
<1> HIDE DEF q
<1>5. q \in Injection(1 .. n, S)
  BY <1>4 DEF Injection, IsInjective
<1>6. IsFiniteSet(1 .. n) /\ Cardinality(1 .. n) = n
  BY <1>1, FS_Interval
<1>7. q \in Surjection(1 .. n, S)
  BY <1>5, <1>6, FS_Injection
<1>8. Range(q) = S
  BY <1>7, Fun_SurjectionProperties
<1>9. q \in Seq(S)
  BY <1>1, <1>4
<1> QED BY <1>4, <1>8, <1>9 DEF EsSecuencia, IsInjective, q

-----------------------------------------------------------------------------
(* What the steps of the instruction cycle leave alone.                    *)

SinAvisos == UNCHANGED <<hiloMS, base, posiciones, conectadas, hiloCPU, canal, sticks,
                         segMax, vivo>>

\* The instruction cycle of c goes from a process with its context to k.
Ciclo(c, k) == /\ cpu' = [cpu EXCEPT ![c] = k]
               /\ cpu[c].fase \notin {"libre", "contexto"} /\ k.fase # "contexto"
               /\ k.fase = "libre" => k.frags = <<>>
               /\ Campos(k)

\* A record of a CPU with one field changed.
LEMMA PoneFase ==
  ASSUME NEW k, Campos(k), NEW v
  PROVE  LET r == [k EXCEPT !.fase = v] IN Campos(r) /\ r.fase = v /\ r.frags = k.frags
BY DEF Campos

LEMMA PonePc ==
  ASSUME NEW k, Campos(k), NEW v
  PROVE  LET r == [k EXCEPT !.pc = v] IN Campos(r) /\ r.fase = k.fase /\ r.frags = k.frags
BY DEF Campos

LEMMA PonePid ==
  ASSUME NEW k, Campos(k), NEW v
  PROVE  LET r == [k EXCEPT !.pid = v] IN Campos(r) /\ r.fase = k.fase /\ r.frags = k.frags
BY DEF Campos

LEMMA PoneTabla ==
  ASSUME NEW k, Campos(k), NEW v
  PROVE  LET r == [k EXCEPT !.tabla = v] IN Campos(r) /\ r.fase = k.fase /\ r.frags = k.frags
BY DEF Campos

LEMMA PoneIns ==
  ASSUME NEW k, Campos(k), NEW v
  PROVE  LET r == [k EXCEPT !.ins = v] IN Campos(r) /\ r.fase = k.fase /\ r.frags = k.frags
BY DEF Campos

LEMMA PoneBuf ==
  ASSUME NEW k, Campos(k), NEW v
  PROVE  LET r == [k EXCEPT !.buf = v] IN Campos(r) /\ r.fase = k.fase /\ r.frags = k.frags
BY DEF Campos

LEMMA PoneFrags ==
  ASSUME NEW k, Campos(k), NEW v
  PROVE  LET r == [k EXCEPT !.frags = v] IN Campos(r) /\ r.fase = k.fase /\ r.frags = v
BY DEF Campos

LEMMA CamposFallo ==
  ASSUME NEW k
  PROVE  Campos(Fallo(k)) /\ Fallo(k).fase = "fallo" /\ Fallo(k).frags = <<>>
<1> DEFINE k1 == [Libre EXCEPT !.fase = "fallo"]
           k2 == [k1 EXCEPT !.pid = k.pid]
           k3 == [k2 EXCEPT !.pc = k.pc]
<1>1. Fallo(k) = k3
  BY DEF Fallo
<1>2. Campos(Libre) /\ Libre.frags = <<>>
  BY DEF Libre, Campos
<1> HIDE DEF Libre
<1>3. Campos(k1) /\ k1.fase = "fallo" /\ k1.frags = <<>> BY <1>2, PoneFase
<1> HIDE DEF k1
<1>4. Campos(k2) /\ k2.fase = "fallo" /\ k2.frags = <<>> BY <1>3, PonePid
<1> HIDE DEF k2
<1>5. Campos(k3) /\ k3.fase = "fallo" /\ k3.frags = <<>> BY <1>4, PonePc
<1> HIDE DEF k3
<1> QED BY <1>1, <1>5

LEMMA CamposAcceso ==
  ASSUME NEW c \in CPUs, Campos(cpu[c]), NEW i, NEW fase, NEW dir, NEW buf
  PROVE  LET r == Acceso(c, i, fase, dir, buf) IN
           Campos(r) /\ (r.fase = fase \/ r.fase = "fallo")
<1> DEFINE f  == Fragmentar(c, Fisica(cpu[c].tabla, dir), i.tam)
           k  == cpu[c]
           k1 == [k EXCEPT !.fase = fase]
           k2 == [k1 EXCEPT !.ins = i]
           k3 == [k2 EXCEPT !.buf = buf]
           k4 == [k3 EXCEPT !.frags = f]
<1>1. Acceso(c, i, fase, dir, buf) = k4 \/ Acceso(c, i, fase, dir, buf) = Fallo(k)
  BY DEF Acceso
<1> HIDE DEF f, k
<1>2. Campos(k1) /\ k1.fase = fase BY PoneFase DEF k
<1> HIDE DEF k1
<1>3. Campos(k2) /\ k2.fase = fase BY <1>2, PoneIns
<1> HIDE DEF k2
<1>4. Campos(k3) /\ k3.fase = fase BY <1>3, PoneBuf
<1> HIDE DEF k3
<1>5. Campos(k4) /\ k4.fase = fase BY <1>4, PoneFrags
<1> HIDE DEF k4
<1> QED BY <1>1, <1>5, CamposFallo

LEMMA CamposSeguir ==
  ASSUME NEW k, Campos(k), NEW f
  PROVE  LET r == Seguir(k, f) IN Campos(r) /\ (r.fase = k.fase \/ r.fase = "revisa")
<1>1. CASE f # <<>>
  BY <1>1, PoneFrags DEF Seguir
<1>2. CASE f = <<>>
  <2> DEFINE k1 == [k EXCEPT !.fase = "revisa"]
             k2 == [k1 EXCEPT !.ins = Ninguna]
             k3 == [k2 EXCEPT !.frags = <<>>]
             k4 == [k3 EXCEPT !.buf = <<>>]
  <2>1. Seguir(k, f) = k4
    BY <1>2 DEF Seguir
  <2>2. Campos(k1) /\ k1.fase = "revisa" BY PoneFase
  <2> HIDE DEF k1
  <2>3. Campos(k2) /\ k2.fase = "revisa" BY <2>2, PoneIns
  <2> HIDE DEF k2
  <2>4. Campos(k3) /\ k3.fase = "revisa" BY <2>3, PoneFrags
  <2> HIDE DEF k3
  <2>5. Campos(k4) /\ k4.fase = "revisa" BY <2>4, PoneBuf
  <2> HIDE DEF k4
  <2> QED BY <2>1, <2>5
<1> QED BY <1>1, <1>2

LEMMA CicloEjecutar ==
  ASSUME NEW c \in CPUs, NEW r, Campos(r), r.fase \notin {"libre", "contexto"}, Ejecutar(c, r)
  PROVE  SinAvisos /\ \E k : Ciclo(c, k)
<1> DEFINE k == [r EXCEPT !.pc = @ + 1]
<1>1. cpu' = [cpu EXCEPT ![c] = k] /\ cpu[c].fase \in {"busca", "revisa"}
  BY DEF Ejecutar
<1>2. Campos(k) /\ k.fase = r.fase
  BY PonePc
<1> HIDE DEF k
<1>3. Ciclo(c, k)
  BY <1>1, <1>2 DEF Ciclo
<1>4. SinAvisos
  BY DEF Ejecutar, SoloCPU, km, kmCPU, SinAvisos
<1> QED BY <1>3, <1>4

LEMMA CicloDevolver ==
  ASSUME NEW c \in CPUs, NEW pc, NEW e, cpu[c].fase \notin {"libre", "contexto"},
         Devolver(c, pc, e)
  PROVE  SinAvisos /\ \E k : Ciclo(c, k)
<1>1. Campos(Libre) /\ Libre.frags = <<>> /\ Libre.fase = "libre"
  BY DEF Libre, Campos
<1>2. Ciclo(c, Libre)
  BY <1>1 DEF Devolver, Ciclo
<1>3. SinAvisos
  BY DEF Devolver, SoloCPU, km, kmCPU, SinAvisos
<1> QED BY <1>2, <1>3

\* Each step of the instruction cycle.
LEMMA CicloInstruccion ==
  ASSUME NEW c \in CPUs, Campos(cpu[c]), Instruccion(c),
         cpu[c].fase \in {"libre", "contexto"} => cpu[c].frags = <<>>
  PROVE  SinAvisos /\ \E k : Ciclo(c, k)
<1>1. ASSUME NEW d \in Direcciones, NEW n \in Registros, MovIn(c, d, n) \/ MovOut(c, d, n)
      PROVE  SinAvisos /\ \E k : Ciclo(c, k)
  <2>1. PICK i, fase, b : /\ Ejecutar(c, Acceso(c, i, fase, d, b))
                          /\ fase = "lee" \/ fase = "escribe"
    BY <1>1, Zenon DEF MovIn, MovOut
  <2> DEFINE r == Acceso(c, i, fase, d, b)
  <2>2. Campos(r) /\ (r.fase = fase \/ r.fase = "fallo")
    BY CamposAcceso
  <2> HIDE DEF r
  <2>3. r.fase \notin {"libre", "contexto"}
    BY <2>1, <2>2
  <2> QED BY <2>1, <2>2, <2>3, CicloEjecutar DEF r
<1>2. ASSUME NEW d \in Direcciones, NEW e \in Direcciones, NEW n \in Copias, CopyMem(c, d, e, n)
      PROVE  SinAvisos /\ \E k : Ciclo(c, k)
  <2> DEFINE s == Acceso(c, Ins("COPY_MEM", d, e, n), "lee", d, Ceros(ConSigno(n)))
             r == IF Traduce(cpu[c].tabla, e, n) THEN s ELSE Fallo(cpu[c])
  <2>1. Ejecutar(c, r)
    BY <1>2 DEF CopyMem
  <2>2. Campos(s) /\ (s.fase = "lee" \/ s.fase = "fallo")
    BY CamposAcceso
  <2>3. r = s \/ r = Fallo(cpu[c])
    BY Zenon
  <2> HIDE DEF s, r
  <2>4. Campos(r) /\ r.fase \notin {"libre", "contexto"}
    BY <2>2, <2>3, CamposFallo
  <2> QED BY <2>1, <2>4, CicloEjecutar
<1>3. CASE LeerFragmento(c)
  <2> DEFINE b  == Leido(c, Head(cpu[c].frags))
             k0 == [cpu[c] EXCEPT !.buf = b]
             r  == Tail(k0.frags)
             k  == IF k0.ins.op = "MOV_IN" THEN Seguir(k0, r) ELSE [k0 EXCEPT !.frags = r]
  <2>1. cpu[c].fase = "lee" /\ cpu' = [cpu EXCEPT ![c] = k]
    BY <1>3, Zenon DEF LeerFragmento
  <2>2. SinAvisos
    BY <1>3 DEF LeerFragmento, SoloCPU, km, kmCPU, SinAvisos
  <2> HIDE DEF b
  <2>3. Campos(k0) /\ k0.fase = "lee"
    BY <2>1, PoneBuf
  <2> HIDE DEF k0, r
  <2>4. Campos(k) /\ k.fase \in {"lee", "revisa"}
    <3>1. Campos([k0 EXCEPT !.frags = r]) /\ [k0 EXCEPT !.frags = r].fase = "lee"
      BY <2>3, PoneFrags
    <3>2. Campos(Seguir(k0, r)) /\ Seguir(k0, r).fase \in {"lee", "revisa"}
      BY <2>3, CamposSeguir
    <3>3. k = Seguir(k0, r) \/ k = [k0 EXCEPT !.frags = r]
      BY Zenon
    <3> HIDE DEF k
    <3> QED BY <3>1, <3>2, <3>3
  <2> HIDE DEF k
  <2>5. Ciclo(c, k)
    BY <2>1, <2>4 DEF Ciclo
  <2> QED BY <2>2, <2>5
<1>4. CASE EmpezarCopia(c)
  <2> DEFINE d  == Fisica(cpu[c].tabla, cpu[c].ins.destino)
             k0 == [cpu[c] EXCEPT !.fase = "escribe"]
             s  == Seguir(k0, Fragmentar(c, d, cpu[c].ins.tam))
             k  == IF Cubierto(c, d, cpu[c].ins.tam) THEN s ELSE Fallo(cpu[c])
  <2>1. cpu[c].fase = "lee" /\ cpu' = [cpu EXCEPT ![c] = k]
    BY <1>4, Zenon DEF EmpezarCopia
  <2>2. SinAvisos
    BY <1>4 DEF EmpezarCopia, SoloCPU, km, kmCPU, SinAvisos
  <2>3. Campos(k0) /\ k0.fase = "escribe"
    BY PoneFase
  <2> HIDE DEF k0
  <2>4. Campos(s) /\ s.fase \in {"escribe", "revisa"}
    BY <2>3, CamposSeguir
  <2> HIDE DEF s
  <2>5. k = s \/ k = Fallo(cpu[c])
    BY Zenon
  <2> HIDE DEF k
  <2>6. Ciclo(c, k)
    BY <2>1, <2>4, <2>5, CamposFallo DEF Ciclo
  <2> QED BY <2>2, <2>6
<1>5. CASE EscribirFragmento(c)
  <2> DEFINE k == Seguir(cpu[c], Tail(cpu[c].frags))
  <2>1. cpu[c].fase = "escribe" /\ cpu' = [cpu EXCEPT ![c] = k]
    BY <1>5, Zenon DEF EscribirFragmento
  <2>2. SinAvisos
    BY <1>5 DEF EscribirFragmento, SoloCPU, km, kmCPU, SinAvisos
  <2>3. Campos(k) /\ k.fase \in {"escribe", "revisa"}
    BY <2>1, CamposSeguir
  <2> HIDE DEF k
  <2>4. Ciclo(c, k)
    BY <2>1, <2>3 DEF Ciclo
  <2> QED BY <2>2, <2>4
<1>6. CASE FallarFragmento(c)
  <2>1. cpu[c].frags # <<>> /\ cpu' = [cpu EXCEPT ![c] = Fallo(cpu[c])]
    BY <1>6 DEF FallarFragmento
  <2>2. SinAvisos
    BY <1>6 DEF FallarFragmento, SoloCPU, km, kmCPU, SinAvisos
  <2>3. Ciclo(c, Fallo(cpu[c]))
    BY <2>1, CamposFallo DEF Ciclo
  <2> QED BY <2>2, <2>3
<1>7. CASE DevolverInterrumpido(c) \/ AvisarSegFault(c) \/ PedirSyscall(c)
  <2>1. PICK pc, e : Devolver(c, pc, e)
    BY <1>7, Zenon DEF DevolverInterrumpido, AvisarSegFault, PedirSyscall
  <2>2. cpu[c].fase \notin {"libre", "contexto"}
    BY <1>7 DEF DevolverInterrumpido, AvisarSegFault, PedirSyscall
  <2> QED BY <2>1, <2>2, CicloDevolver
<1> QED BY <1>1, <1>2, <1>3, <1>4, <1>5, <1>6, <1>7, Zenon DEF Instruccion

\* The steps that neither announce nor connect: CaerStick, those of the
\* tables of segments, Despachar and the instruction cycle.
Callado ==
  \/ SinAvisos /\ UNCHANGED cpu
  \/ SinAvisos /\ \E c \in CPUs : \E k : Ciclo(c, k)
  \/ /\ SinAvisos
     /\ \E c \in CPUs, p \in Procesos :
          /\ cpu[c].fase = "libre"
          /\ cpu' = [cpu EXCEPT ![c] = [Libre EXCEPT !.fase = "contexto", !.pid = p]]
  \/ \E s \in Sticks : CaerStick(s)

LEMMA Pasos ==
  ASSUME [Next]_vars, \A c \in CPUs : Campos(cpu[c]) /\
                        (cpu[c].fase \in {"libre", "contexto"} => cpu[c].frags = <<>>)
  PROVE  \/ Callado
         \/ \E s \in Sticks : Conectar(s)
         \/ \E c \in CPUs : AtenderCPU(c) \/ EscucharKM(c)
<1>1. ASSUME NEW p \in Procesos, CrearSegmento(p) \/ EliminarSegmento(p) \/ EliminarProceso(p)
      PROVE  SinAvisos /\ UNCHANGED cpu
  <2>1. SoloTablas
    BY <1>1 DEF CrearSegmento, EliminarSegmento, EliminarProceso
  <2>2. UNCHANGED vivo
    BY <2>1 DEF SoloTablas, ms
  <2> QED BY <2>1, <2>2 DEF SoloTablas, kmCPU, enCPU, SinAvisos
<1>2. ASSUME NEW p \in Procesos, NEW c \in CPUs, Despachar(c, p)
      PROVE  /\ SinAvisos /\ cpu[c].fase = "libre"
             /\ cpu' = [cpu EXCEPT ![c] = [Libre EXCEPT !.fase = "contexto", !.pid = p]]
  BY <1>2 DEF Despachar, km, kmCPU, ms, SinAvisos
<1>3. ASSUME UNCHANGED vars
      PROVE  SinAvisos /\ UNCHANGED cpu
  BY <1>3 DEF vars, km, kmCPU, enCPU, ms, SinAvisos
<1>4. ASSUME NEW c \in CPUs, Instruccion(c)
      PROVE  SinAvisos /\ \E k : Ciclo(c, k)
  BY <1>4, CicloInstruccion
<1> QED BY <1>1, <1>2, <1>3, <1>4, Zenon DEF Next, Callado

-----------------------------------------------------------------------------
(* The shape of the variables.                                             *)

LEMMA PosicionesIniciales ==
  ASSUME Init
  PROVE  /\ posiciones = {Posicion(s) : s \in Conocidos} /\ IsFiniteSet(posiciones)
         /\ \A q, r \in posiciones : q = r
<1>1. Conocidos = Presentes \cap Sticks
  BY DEF Init, Conocidos
<1>2. posiciones = {Posicion(s) : s \in Presentes \cap Sticks}
  BY DEF Init
<1>3. \A q, r \in posiciones : q = r
  BY <1>2, AccesoMemoriaAssumption
<1>4. posiciones = {} \/ \E q : posiciones = {q}
  BY <1>3
<1>5. IsFiniteSet(posiciones)
  BY <1>4, FS_EmptySet, FS_Singleton
<1> QED BY <1>1, <1>2, <1>3, <1>5

LEMMA FormasAlInicio == Init => Formas
<1> SUFFICES ASSUME Init PROVE Formas
  OBVIOUS
<1>1. EsSecuencia(<<>>)
  BY DEF EsSecuencia, Range
<1>2. EsSecuencia(SetToSeq(posiciones))
  BY PosicionesIniciales, DeConjunto
<1>3. Campos(Libre)
  BY DEF Libre, Campos
<1>4. \A c \in CPUs : EsSecuencia(canal[c]) /\ EsSecuencia(sticks[c]) /\ Campos(cpu[c])
  <2> TAKE c \in CPUs
  <2>1. canal[c] = <<>> /\ cpu[c] = Libre /\ (sticks[c] = <<>> \/ sticks[c] = SetToSeq(posiciones))
    BY DEF Init
  <2> QED BY <1>1, <1>2, <1>3, <2>1
<1>5. /\ hiloMS \in [Sticks -> {"afuera", "posicion", "avisar", "listo"}]
      /\ hiloCPU \in [CPUs -> {"conecta", "enviar", "atiende"}]
  BY DEF Init
<1>6. base = [s \in Sticks |-> base[s]] /\ vivo = [s \in Sticks |-> vivo[s]]
  BY DEF Init
<1>7. canal = [c \in CPUs |-> canal[c]]
  BY DEF Init
<1>8. sticks = [c \in CPUs |-> sticks[c]]
  BY DEF Init
<1>9. cpu = [c \in CPUs |-> cpu[c]] /\ segMax = [c \in CPUs |-> segMax[c]]
  BY DEF Init
<1> QED BY <1>4, <1>5, <1>6, <1>7, <1>8, <1>9 DEF Formas

\* What a step does to the sockets that lead to the CPUs.
Enviado(c) == \/ canal'[c] = canal[c]
              \/ \E m : canal'[c] = Append(canal[c], m)
              \/ \E t : EsSecuencia(t) /\ canal'[c] = canal[c] \o t
              \/ canal[c] # <<>> /\ canal'[c] = Tail(canal[c])

LEMMA SecuenciaEnviada ==
  ASSUME NEW c \in CPUs, EsSecuencia(canal[c]), Enviado(c)
  PROVE  EsSecuencia(canal'[c])
<1>1. CASE canal'[c] = canal[c] BY <1>1
<1>2. ASSUME NEW m, canal'[c] = Append(canal[c], m) PROVE EsSecuencia(canal'[c])
  BY <1>2, Agregar
<1>3. ASSUME NEW t, EsSecuencia(t), canal'[c] = canal[c] \o t PROVE EsSecuencia(canal'[c])
  BY <1>3, Concatenar
<1>4. CASE canal[c] # <<>> /\ canal'[c] = Tail(canal[c])
  BY <1>4, Quitar
<1> QED BY <1>1, <1>2, <1>3, <1>4, Zenon DEF Enviado

LEMMA Unitaria ==
  ASSUME NEW m
  PROVE  EsSecuencia(<<m>>) /\ Range(<<m>>) = {m} /\ Len(<<m>>) = 1 /\ <<m>>[1] = m
<1>1. <<m>> \in Seq({m}) /\ DOMAIN <<m>> = {1} /\ <<m>>[1] = m /\ Len(<<m>>) = 1
  OBVIOUS
<1>2. Range(<<m>>) = {m}
  BY <1>1 DEF Range
<1> QED BY <1>1, <1>2 DEF EsSecuencia

LEMMA AvisosDe ==
  ASSUME IsFiniteSet(posiciones)
  PROVE  LET t == SetToSeq({Aviso(q) : q \in posiciones})
         IN  EsSecuencia(t) /\ Range(t) = {Aviso(q) : q \in posiciones}
<1> DEFINE S == {Aviso(q) : q \in posiciones}
           f == [q \in posiciones |-> Aviso(q)]
<1>1. IsFiniteSet(S)
  <2>1. f \in Surjection(posiciones, S)
    BY Fun_IsSurj
  <2> QED BY <2>1, FS_Surjection
<1> QED BY <1>1, DeConjunto

\* The steps of Pasos that are not Callado write each socket at most once.
LEMMA LoEnviado ==
  ASSUME Formas, IsFiniteSet(posiciones),
         \/ \E s \in Sticks : Conectar(s)
         \/ \E c \in CPUs : AtenderCPU(c) \/ EscucharKM(c)
  PROVE  canal' = [c \in CPUs |-> canal'[c]] /\ \A c \in CPUs : Enviado(c)
<1>1. ASSUME UNCHANGED canal PROVE canal' = [c \in CPUs |-> canal'[c]] /\ \A c \in CPUs : Enviado(c)
  BY <1>1 DEF Formas, Enviado
<1>2. ASSUME NEW d \in CPUs, NEW v, canal' = [canal EXCEPT ![d] = v],
             \/ v = Tail(canal[d]) /\ canal[d] # <<>>
             \/ \E t : EsSecuencia(t) /\ v = canal[d] \o t
      PROVE  canal' = [c \in CPUs |-> canal'[c]] /\ \A c \in CPUs : Enviado(c)
  <2>1. canal' = [c \in CPUs |-> IF c = d THEN v ELSE canal[c]]
    BY <1>2 DEF Formas
  <2> QED BY <1>2, <2>1 DEF Enviado
<1>3. ASSUME NEW s \in Sticks, Conectar(s)
      PROVE  canal' = [c \in CPUs |-> canal'[c]] /\ \A c \in CPUs : Enviado(c)
  <2>1. CASE AgregarHuecoMs(s) \/ AgregarPosicionMs(s)
    BY <1>1, <2>1 DEF AgregarHuecoMs, AgregarPosicionMs
  <2>2. CASE AvisarCPUs(s)
    <3>1. canal' = [c \in CPUs |-> IF c \in conectadas THEN Append(canal[c], Aviso(Posicion(s)))
                                                       ELSE canal[c]]
      BY <2>2 DEF AvisarCPUs
    <3> QED BY <3>1 DEF Enviado
  <2> QED BY <1>3, <2>1, <2>2 DEF Conectar
<1>4. ASSUME NEW d \in CPUs, AtenderCPU(d) \/ EscucharKM(d)
      PROVE  canal' = [c \in CPUs |-> canal'[c]] /\ \A c \in CPUs : Enviado(c)
  <2>1. CASE AgregarCPU(d)
    BY <1>1, <2>1 DEF AgregarCPU
  <2>2. CASE EnviarMSaCPU(d)
    <3> DEFINE t == SetToSeq({Aviso(q) : q \in posiciones})
               u == Append(t, [op |-> "SEG_MAX_SIZE", tam |-> SegMax])
    <3>1. EsSecuencia(t) BY AvisosDe
    <3> HIDE DEF t
    <3>2. EsSecuencia(u) BY <3>1, Agregar
    <3>3. canal' = [canal EXCEPT ![d] = canal[d] \o u]
      BY <2>2 DEF EnviarMSaCPU, EnviarA, t
    <3> HIDE DEF u
    <3> QED BY <1>2, <3>2, <3>3
  <2>3. CASE AtenderPedido(d)
    <3>1. CASE UNCHANGED canal BY <1>1, <3>1
    <3>2. ASSUME NEW m, canal' = [canal EXCEPT ![d] = canal[d] \o <<m>>]
          PROVE  canal' = [c \in CPUs |-> canal'[c]] /\ \A c \in CPUs : Enviado(c)
      BY <1>2, <3>2, Unitaria
    <3> QED BY <2>3, <3>1, <3>2, Zenon DEF AtenderPedido, EnviarA
  <2>4. CASE EscucharKM(d)
    <3>1. canal[d] # <<>> /\ canal' = [canal EXCEPT ![d] = Tail(canal[d])]
      BY <2>4, Zenon DEF EscucharKM
    <3> QED BY <1>2, <3>1
  <2> QED BY <1>4, <2>1, <2>2, <2>3, <2>4 DEF AtenderCPU
<1> QED BY <1>3, <1>4

LEMMA FormasAlCallar == Formas /\ Callado => Formas'
<1> SUFFICES ASSUME Formas, Callado PROVE Formas'
  OBVIOUS
<1>1. ASSUME SinAvisos, cpu' = [c \in CPUs |-> cpu'[c]], \A c \in CPUs : Campos(cpu'[c])
      PROVE  Formas'
  BY <1>1 DEF Formas, SinAvisos
<1>2. ASSUME SinAvisos, NEW c \in CPUs, NEW k, Campos(k), cpu' = [cpu EXCEPT ![c] = k]
      PROVE  Formas'
  <2>1. cpu' = [d \in CPUs |-> IF d = c THEN k ELSE cpu[d]]
    BY <1>2 DEF Formas
  <2> HIDE DEF Formas, Callado
  <2>2. \A d \in CPUs : Campos(cpu'[d])
    BY <1>2, <2>1 DEF Formas
  <2> QED BY <1>1, <1>2, <2>1, <2>2
<1>3. CASE SinAvisos /\ UNCHANGED cpu
  BY <1>3 DEF Formas, SinAvisos
<1>4. CASE SinAvisos /\ \E c \in CPUs : \E k : Ciclo(c, k)
  BY <1>2, <1>4 DEF Ciclo
<1>5. ASSUME SinAvisos, NEW c \in CPUs, NEW p \in Procesos,
             cpu' = [cpu EXCEPT ![c] = [Libre EXCEPT !.fase = "contexto", !.pid = p]]
      PROVE  Formas'
  <2> DEFINE k0 == [Libre EXCEPT !.fase = "contexto"]
             k  == [k0 EXCEPT !.pid = p]
  <2>1. Campos(Libre) BY DEF Libre, Campos
  <2>2. cpu' = [cpu EXCEPT ![c] = k]
    BY <1>5
  <2> HIDE DEF Libre
  <2>3. Campos(k0) BY <2>1, PoneFase
  <2> HIDE DEF k0
  <2>4. Campos(k) BY <2>3, PonePid
  <2> HIDE DEF k
  <2> QED BY <1>2, <1>5, <2>2, <2>4
<1>6. ASSUME NEW s \in Sticks, CaerStick(s) PROVE Formas'
  <2>1. vivo' = [x \in Sticks |-> vivo'[x]]
    BY <1>6 DEF CaerStick, Formas
  <2> QED BY <1>6, <2>1 DEF CaerStick, km, kmCPU, enCPU, Formas
<1> QED BY <1>3, <1>4, <1>5, <1>6, Zenon DEF Callado

LEMMA FormasPaso ==
  ASSUME Formas, IsFiniteSet(posiciones),
         \/ Callado
         \/ \E s \in Sticks : Conectar(s)
         \/ \E c \in CPUs : AtenderCPU(c) \/ EscucharKM(c)
  PROVE  Formas'
<1> DEFINE FMS == {"afuera", "posicion", "avisar", "listo"}
           FC  == {"conecta", "enviar", "atiende"}
<1>1. CASE Callado
  BY <1>1, FormasAlCallar
<1>2. ASSUME \/ \E s \in Sticks : Conectar(s)
             \/ \E c \in CPUs : AtenderCPU(c) \/ EscucharKM(c)
      PROVE  canal' = [c \in CPUs |-> canal'[c]] /\ \A c \in CPUs : EsSecuencia(canal'[c])
  BY <1>2, LoEnviado, SecuenciaEnviada DEF Formas
<1>3. ASSUME NEW s \in Sticks, Conectar(s) PROVE Formas'
  <2>1. PICK a \in FMS : hiloMS' = [hiloMS EXCEPT ![s] = a]
    BY <1>3, Zenon DEF Conectar, AgregarHuecoMs, AgregarPosicionMs, AvisarCPUs, HiloMS
  <2>2. base' = base \/ base' = [base EXCEPT ![s] = total]
    BY <1>3 DEF Conectar, AgregarHuecoMs, AgregarPosicionMs, AvisarCPUs
  <2>3. UNCHANGED <<hiloCPU, sticks, segMax, cpu, vivo>>
    BY <1>3 DEF Conectar, AgregarHuecoMs, AgregarPosicionMs, AvisarCPUs, SoloHiloMS, kmCPU, enCPU, ms
  <2>4. hiloMS' \in [Sticks -> FMS]
    BY <2>1 DEF Formas
  <2>5. base' = [x \in Sticks |-> base'[x]]
    BY <2>2 DEF Formas
  <2> QED BY <1>2, <1>3, <2>3, <2>4, <2>5 DEF Formas
<1>4. ASSUME NEW c \in CPUs, AtenderCPU(c) PROVE Formas'
  <2>1. UNCHANGED <<hiloMS, base, sticks, segMax, cpu, vivo>>
    BY <1>4 DEF AtenderCPU, AgregarCPU, EnviarMSaCPU, AtenderPedido, km, enCPU, ms
  <2>2. hiloCPU' = hiloCPU \/ \E a \in FC : hiloCPU' = [hiloCPU EXCEPT ![c] = a]
    BY <1>4, Zenon DEF AtenderCPU, AgregarCPU, EnviarMSaCPU, AtenderPedido, HiloCPU
  <2>3. hiloCPU' \in [CPUs -> FC]
    BY <2>2 DEF Formas
  <2> QED BY <1>2, <1>4, <2>1, <2>3 DEF Formas
<1>5. ASSUME NEW c \in CPUs, EscucharKM(c) PROVE Formas'
  <2>1. UNCHANGED <<hiloMS, base, hiloCPU, vivo>>
    BY <1>5 DEF EscucharKM, km, kmCPU, ms
  <2>2. sticks' = sticks \/ \E q : sticks' = [sticks EXCEPT ![c] = Append(sticks[c], q)]
    <3> DEFINE m == Head(canal[c])
    <3>1. ASSUME NEW q, ConectarMemoryStick(c, q)
          PROVE  \/ sticks' = [sticks EXCEPT ![c] = Append(sticks[c], q)]
                 \/ sticks' = [sticks EXCEPT ![c] = sticks[c]]
      <4>1. sticks' = [sticks EXCEPT ![c] =
              IF vivo[q.ms] /\ \A r \in Range(sticks[c]) : r.ms # q.ms
              THEN Append(sticks[c], q) ELSE sticks[c]]
        BY <3>1 DEF ConectarMemoryStick
      <4> QED BY <4>1, Zenon
    <3>2. [sticks EXCEPT ![c] = sticks[c]] = sticks
      BY DEF Formas
    <3> QED BY <1>5, <3>1, <3>2, Zenon DEF EscucharKM, RecibirContexto
  <2>3. /\ sticks' = [d \in CPUs |-> sticks'[d]]
        /\ \A d \in CPUs : EsSecuencia(sticks'[d])
    <3>1. CASE sticks' = sticks BY <3>1 DEF Formas
    <3>2. ASSUME NEW q, sticks' = [sticks EXCEPT ![c] = Append(sticks[c], q)]
          PROVE  /\ sticks' = [d \in CPUs |-> sticks'[d]]
                 /\ \A d \in CPUs : EsSecuencia(sticks'[d])
      <4>1. sticks' = [d \in CPUs |-> IF d = c THEN Append(sticks[c], q) ELSE sticks[d]]
        BY <3>2 DEF Formas
      <4>2. EsSecuencia(Append(sticks[c], q))
        BY Agregar DEF Formas
      <4> QED BY <4>1, <4>2 DEF Formas
    <3> QED BY <2>2, <3>1, <3>2
  <2>4. segMax' = segMax \/ \E v : segMax' = [segMax EXCEPT ![c] = v]
    BY <1>5, Zenon DEF EscucharKM, RecibirContexto, ConectarMemoryStick
  <2>5. segMax' = [d \in CPUs |-> segMax'[d]]
    BY <2>4 DEF Formas
  <2>6. cpu' = cpu \/ \E m : RecibirContexto(c, m)
    BY <1>5, Zenon DEF EscucharKM, ConectarMemoryStick
  <2>7. cpu' = [d \in CPUs |-> cpu'[d]] /\ \A d \in CPUs : Campos(cpu'[d])
    <3>1. CASE cpu' = cpu BY <3>1 DEF Formas
    <3>2. ASSUME NEW m, RecibirContexto(c, m)
          PROVE  cpu' = [d \in CPUs |-> cpu'[d]] /\ \A d \in CPUs : Campos(cpu'[d])
      <4> DEFINE k1 == [cpu[c] EXCEPT !.fase = "busca"]
                 k2 == [k1 EXCEPT !.pc = m.pc]
                 k3 == [k2 EXCEPT !.tabla = m.tabla]
      <4>1. cpu' = [d \in CPUs |-> IF d = c THEN k3 ELSE cpu[d]]
        BY <3>2 DEF Formas, RecibirContexto
      <4>2. Campos(k1) BY PoneFase DEF Formas
      <4> HIDE DEF k1
      <4>3. Campos(k2) BY <4>2, PonePc
      <4> HIDE DEF k2
      <4>4. Campos(k3) BY <4>3, PoneTabla
      <4> HIDE DEF k3
      <4> QED BY <4>1, <4>4 DEF Formas
    <3> QED BY <2>6, <3>1, <3>2
  <2> QED BY <1>2, <1>5, <2>1, <2>3, <2>5, <2>7 DEF Formas
<1> QED BY <1>1, <1>3, <1>4, <1>5

-----------------------------------------------------------------------------
(* The announcements.                                                      *)

\* A CPU keeps what it knows when nothing is sent to it or received.
LEMMA SabeIgual ==
  ASSUME NEW c \in CPUs, Sabe(c), canal'[c] = canal[c], sticks'[c] = sticks[c],
         posiciones \subseteq posiciones', hiloCPU'[c] = "atiende" => hiloCPU[c] = "atiende",
         \A s \in Sticks : hiloMS'[s] = "listo" /\ vivo'[s] =>
           hiloMS[s] = "listo" /\ vivo[s] /\ Posicion(s)' = Posicion(s)
  PROVE  Sabe(c)'
<1>1. ASSUME NEW s \in Sticks, hiloCPU'[c] = "atiende", hiloMS'[s] = "listo", vivo'[s]
      PROVE  Posicion(s)' \in Range(sticks'[c]) \/ Aviso(Posicion(s)') \in Range(canal'[c])
  BY <1>1 DEF Sabe
<1> QED BY <1>1 DEF Sabe, Aviso

LEMMA AnunciosConectar ==
  ASSUME Formas, Listas, \A c \in CPUs : Sabe(c), NEW s \in Sticks, Conectar(s)
  PROVE  Listas' /\ \A c \in CPUs : Sabe(c)'
<1>1. CASE AgregarHuecoMs(s)
  <2>1. /\ hiloMS[s] = "afuera" /\ hiloMS' = [hiloMS EXCEPT ![s] = "posicion"]
        /\ base' = [base EXCEPT ![s] = total]
        /\ UNCHANGED <<posiciones, conectadas, canal, hiloCPU, sticks, vivo>>
    BY <1>1 DEF AgregarHuecoMs, HiloMS, SoloHiloMS, kmCPU, enCPU, ms
  <2>2. /\ Conocidos' = Conocidos /\ \A x \in Conocidos : Posicion(x)' = Posicion(x)
        /\ \A x \in Sticks : hiloMS'[x] = "listo" => hiloMS[x] = "listo" /\ x \in Conocidos
    BY <2>1 DEF Formas, Conocidos, Posicion
  <2>3. Listas'
    BY <2>1, <2>2 DEF Listas
  <2>4. ASSUME NEW c \in CPUs PROVE Sabe(c)'
    BY <2>1, <2>2, SabeIgual
  <2> QED BY <2>3, <2>4
<1>2. CASE AgregarPosicionMs(s)
  <2>1. /\ hiloMS' = [hiloMS EXCEPT ![s] = "avisar"] /\ hiloMS[s] = "posicion"
        /\ posiciones' = posiciones \cup {Posicion(s)}
        /\ UNCHANGED <<base, conectadas, canal, hiloCPU, sticks, vivo>>
    BY <1>2 DEF AgregarPosicionMs, HiloMS, SoloHiloMS, kmCPU, enCPU, ms
  <2>2. /\ Conocidos' = Conocidos \cup {s} /\ \A x \in Sticks : Posicion(x)' = Posicion(x)
        /\ \A x \in Sticks : hiloMS'[x] = "listo" => hiloMS[x] = "listo"
    BY <2>1 DEF Formas, Conocidos, Posicion
  <2>3. IsFiniteSet(posiciones')
    BY <2>1, FS_AddElement DEF Listas
  <2>4. posiciones' = {Posicion(x)' : x \in Conocidos'}
    <3> DEFINE A == {Posicion(x) : x \in Conocidos}
               B == {Posicion(x)' : x \in Conocidos'}
    <3>1. \A x \in Conocidos : x \in Sticks BY DEF Conocidos
    <3>2. B = A \cup {Posicion(s)} BY <2>2, <3>1
    <3> QED BY <2>1, <3>2 DEF Listas
  <2>5. Listas'
    BY <2>1, <2>3, <2>4 DEF Listas
  <2>6. ASSUME NEW c \in CPUs PROVE Sabe(c)'
    BY <2>1, <2>2, SabeIgual
  <2> QED BY <2>5, <2>6
<1>3. CASE AvisarCPUs(s)
  <2>1. /\ hiloMS' = [hiloMS EXCEPT ![s] = "listo"] /\ hiloMS[s] = "avisar"
        /\ canal' = [c \in CPUs |-> IF c \in conectadas THEN Append(canal[c], Aviso(Posicion(s)))
                                                        ELSE canal[c]]
        /\ UNCHANGED <<base, posiciones, conectadas, hiloCPU, sticks, vivo>>
    BY <1>3 DEF AvisarCPUs, HiloMS, SoloHiloMS, kmCPU, enCPU, ms
  <2>2. /\ Conocidos' = Conocidos /\ s \in Conocidos
        /\ \A x \in Sticks : Posicion(x)' = Posicion(x)
        /\ \A x \in Sticks : hiloMS'[x] = "listo" => x = s \/ hiloMS[x] = "listo"
    BY <2>1 DEF Formas, Conocidos, Posicion
  <2>3. Listas'
    <3>1. {Posicion(x)' : x \in Conocidos'} = {Posicion(x) : x \in Conocidos}
      BY <2>2 DEF Conocidos
    <3> QED BY <2>1, <3>1 DEF Listas
  <2>4. ASSUME NEW c \in CPUs PROVE Sabe(c)'
    <3> DEFINE a == Aviso(Posicion(s))
    <3>1. a.ms \in posiciones
      BY <2>2 DEF Listas, Aviso
    <3>2. CASE c \in conectadas
      <4>1. canal'[c] = Append(canal[c], a)
        BY <2>1, <3>2
      <4>2. Range(canal'[c]) = Range(canal[c]) \cup {a}
        BY <4>1, Agregar DEF Formas
      <4>3. \A m \in Range(canal'[c]) : m.op = "MS_NUEVO_CPU" => m.ms \in posiciones'
        BY <2>1, <3>1, <4>2 DEF Sabe
      <4>4. ASSUME NEW x \in Sticks, hiloCPU'[c] = "atiende", hiloMS'[x] = "listo", vivo'[x]
            PROVE  Posicion(x)' \in Range(sticks'[c]) \/ Aviso(Posicion(x)') \in Range(canal'[c])
        BY <2>1, <2>2, <4>2, <4>4 DEF Sabe
      <4> QED BY <2>1, <4>3, <4>4 DEF Sabe, Aviso
    <3>3. CASE c \notin conectadas
      <4>1. canal'[c] = canal[c] /\ hiloCPU[c] # "atiende"
        BY <2>1, <3>3 DEF Listas, Formas
      <4> QED BY <2>1, <4>1 DEF Sabe
    <3> QED BY <3>2, <3>3
  <2> QED BY <2>3, <2>4
<1> QED BY <1>1, <1>2, <1>3 DEF Conectar

LEMMA AnunciosAtender ==
  ASSUME Formas, Listas, \A c \in CPUs : Sabe(c), NEW d \in CPUs, AtenderCPU(d)
  PROVE  Listas' /\ \A c \in CPUs : Sabe(c)'
<1>1. UNCHANGED <<hiloMS, base, posiciones, sticks, vivo>>
  BY DEF AtenderCPU, AgregarCPU, EnviarMSaCPU, AtenderPedido, km, enCPU, ms
<1>2. Conocidos' = Conocidos /\ \A x \in Sticks : Posicion(x)' = Posicion(x)
  BY <1>1 DEF Conocidos, Posicion
<1>3. /\ hiloCPU' = hiloCPU \/ \E a : hiloCPU' = [hiloCPU EXCEPT ![d] = a]
      /\ \A c \in CPUs : c # d => hiloCPU'[c] = hiloCPU[c]
  BY DEF AtenderCPU, AgregarCPU, EnviarMSaCPU, AtenderPedido, HiloCPU, Formas
<1>4. ASSUME \A c \in CPUs : hiloCPU'[c] # "conecta" => c \in conectadas'
      PROVE  Listas'
  <2>1. {Posicion(x)' : x \in Conocidos'} = {Posicion(x) : x \in Conocidos}
    BY <1>2 DEF Conocidos
  <2> QED BY <1>1, <1>4, <2>1 DEF Listas
<1>5. ASSUME NEW c \in CPUs, canal'[c] = canal[c], hiloCPU'[c] = "atiende" => hiloCPU[c] = "atiende"
      PROVE  Sabe(c)'
  BY <1>1, <1>2, <1>5, SabeIgual
<1>6. CASE AgregarCPU(d)
  <2>1. /\ hiloCPU' = [hiloCPU EXCEPT ![d] = "enviar"] /\ conectadas' = conectadas \cup {d}
        /\ canal' = canal
    BY <1>6 DEF AgregarCPU, HiloCPU
  <2>2. \A c \in CPUs : hiloCPU'[c] = IF c = d THEN "enviar" ELSE hiloCPU[c]
    BY <2>1 DEF Formas
  <2> QED BY <1>4, <1>5, <2>1, <2>2 DEF Listas
<1>7. CASE EnviarMSaCPU(d)
  <2> DEFINE t == SetToSeq({Aviso(q) : q \in posiciones})
             u == Append(t, [op |-> "SEG_MAX_SIZE", tam |-> SegMax])
  <2>1. /\ hiloCPU[d] = "enviar" /\ hiloCPU' = [hiloCPU EXCEPT ![d] = "atiende"]
        /\ conectadas' = conectadas /\ canal' = [canal EXCEPT ![d] = canal[d] \o u]
    BY <1>7 DEF EnviarMSaCPU, EnviarA, HiloCPU, km
  <2>2. EsSecuencia(t) /\ Range(t) = {Aviso(q) : q \in posiciones}
    BY AvisosDe DEF Listas
  <2> HIDE DEF t
  <2>3. EsSecuencia(u) /\ Range(u) = {Aviso(q) : q \in posiciones}
                                       \cup {[op |-> "SEG_MAX_SIZE", tam |-> SegMax]}
    BY <2>2, Agregar
  <2> HIDE DEF u
  <2>4. Range(canal'[d]) = Range(canal[d]) \cup Range(u)
    BY <2>1, <2>3, Concatenar DEF Formas
  <2>5. \A c \in CPUs : c # d => canal'[c] = canal[c] /\ hiloCPU'[c] = hiloCPU[c]
    BY <2>1 DEF Formas
  <2>6. Listas'
    BY <1>4, <2>1, <2>5 DEF Listas, Formas
  <2>7. \A m \in Range(canal'[d]) : m.op = "MS_NUEVO_CPU" => m.ms \in posiciones
    BY <2>3, <2>4 DEF Sabe, Aviso
  <2>8. \A x \in Conocidos : Aviso(Posicion(x)) \in Range(canal'[d])
    BY <2>3, <2>4 DEF Listas
  <2>9. Sabe(d)'
    <3>1. \A x \in Sticks : hiloMS'[x] = "listo" => Aviso(Posicion(x)') \in Range(canal'[d])
      BY <1>1, <1>2, <2>8 DEF Conocidos
    <3> QED BY <1>1, <2>7, <3>1 DEF Sabe, Aviso
  <2> QED BY <1>5, <2>5, <2>6, <2>9
<1>8. CASE AtenderPedido(d)
  <2>1. hiloCPU' = hiloCPU /\ conectadas' = conectadas
    BY <1>8 DEF AtenderPedido, km
  <2>2. \/ canal' = canal
        \/ \E m : canal' = [canal EXCEPT ![d] = canal[d] \o <<m>>] /\ m.op = "CONTEXT_RESPONSE"
    <3> DEFINE p == Head(pedidos[d]).pid
               r == [op |-> "CONTEXT_RESPONSE", pid |-> p, pc |-> pcGuardado[p], tabla |-> tabla[p]]
    <3>1. canal' = canal \/ canal' = [canal EXCEPT ![d] = canal[d] \o <<r>>]
      BY <1>8 DEF AtenderPedido, EnviarA
    <3>2. r.op = "CONTEXT_RESPONSE"
      OBVIOUS
    <3> HIDE DEF r
    <3> QED BY <3>1, <3>2
  <2>3. Listas'
    BY <1>4, <2>1 DEF Listas
  <2>4. ASSUME NEW m, canal' = [canal EXCEPT ![d] = canal[d] \o <<m>>], m.op = "CONTEXT_RESPONSE"
        PROVE  \A c \in CPUs : Sabe(c)'
    <3>1. \A c \in CPUs : c # d => canal'[c] = canal[c]
      BY <2>4 DEF Formas
    <3>2. canal'[d] = canal[d] \o <<m>>
      BY <2>4 DEF Formas
    <3>3. Range(canal'[d]) = Range(canal[d]) \cup {m}
      BY <3>2, Unitaria, Concatenar DEF Formas
    <3>4. Sabe(d)'
      BY <1>1, <1>2, <2>1, <2>4, <3>3 DEF Sabe, Aviso
    <3> QED BY <1>5, <2>1, <3>1, <3>4
  <2> QED BY <1>5, <2>1, <2>2, <2>3, <2>4
<1> QED BY <1>6, <1>7, <1>8 DEF AtenderCPU

LEMMA AnunciosEscuchar ==
  ASSUME Formas, Listas, \A c \in CPUs : Sabe(c), NEW d \in CPUs, EscucharKM(d)
  PROVE  Listas' /\ \A c \in CPUs : Sabe(c)'
<1> DEFINE m == Head(canal[d])
           s == sticks[d]
<1>1. /\ canal[d] # <<>> /\ canal' = [canal EXCEPT ![d] = Tail(canal[d])]
      /\ UNCHANGED <<hiloMS, base, posiciones, conectadas, hiloCPU, vivo>>
  BY Zenon DEF EscucharKM, km, kmCPU, ms
<1>2. Conocidos' = Conocidos /\ \A x \in Sticks : Posicion(x)' = Posicion(x)
  BY <1>1 DEF Conocidos, Posicion
<1>3. Listas'
  <2>1. {Posicion(x)' : x \in Conocidos'} = {Posicion(x) : x \in Conocidos}
    BY <1>2 DEF Conocidos
  <2> QED BY <1>1, <2>1 DEF Listas
<1>4. Range(canal[d]) = {m} \cup Range(canal'[d]) /\ \A c \in CPUs : c # d => canal'[c] = canal[c]
  BY <1>1, Quitar DEF Formas
<1>5. ASSUME sticks' = sticks, m.op # "MS_NUEVO_CPU" PROVE Sabe(d)'
  BY <1>1, <1>2, <1>4, <1>5 DEF Sabe, Aviso
<1>6. ASSUME ConectarMemoryStick(d, m.ms), m.op = "MS_NUEVO_CPU" PROVE Sabe(d)'
  <2> DEFINE q == m.ms
  <2>1. q \in posiciones
    BY <1>4, <1>6 DEF Sabe
  <2>2. sticks'[d] = IF vivo[q.ms] /\ \A r \in Range(s) : r.ms # q.ms THEN Append(s, q) ELSE s
    BY <1>6 DEF ConectarMemoryStick, Formas
  <2>3. PICK y \in Conocidos : q = Posicion(y)
    BY <2>1 DEF Listas
  <2>4. y \in Sticks /\ q.ms = y /\ \A x \in Sticks : Posicion(x).ms = x
    BY <2>3 DEF Conocidos, Posicion
  <2>5. CASE vivo[q.ms] /\ \A r \in Range(s) : r.ms # q.ms
    <3>1. sticks'[d] = Append(s, q) BY <2>2, <2>5
    <3>2. /\ Range(sticks'[d]) = Range(s) \cup {q}
          /\ Len(s) \in Nat /\ DOMAIN s = 1 .. Len(s) /\ DOMAIN sticks'[d] = 1 .. Len(s) + 1
          /\ \A i \in 1 .. Len(s) : sticks'[d][i] = s[i]
          /\ sticks'[d][Len(s) + 1] = q
      BY <3>1, Agregar DEF Formas
    <3>3. \A i, j \in DOMAIN sticks'[d] : sticks'[d][i].ms = sticks'[d][j].ms => i = j
      <4>1. \A i \in 1 .. Len(s) : sticks'[d][i] \in Range(s)
        BY <3>2 DEF Range
      <4>2. 1 .. Len(s) + 1 = (1 .. Len(s)) \cup {Len(s) + 1}
        BY <3>2
      <4>3. \A i, j \in 1 .. Len(s) : s[i].ms = s[j].ms => i = j
        BY <3>2 DEF Sabe
      <4>4. \A i \in 1 .. Len(s) : sticks'[d][i] = s[i] /\ sticks'[d][i].ms # q.ms
        BY <2>5, <3>2, <4>1
      <4> HIDE DEF s, q
      <4> QED BY <3>2, <4>2, <4>3, <4>4
    <3>4. ASSUME NEW x \in Sticks, hiloCPU'[d] = "atiende", hiloMS'[x] = "listo", vivo'[x]
          PROVE  Posicion(x)' \in Range(sticks'[d]) \/ Aviso(Posicion(x)') \in Range(canal'[d])
      <4>1. Posicion(x) \in Range(s) \/ Aviso(Posicion(x)) \in Range(canal[d])
        BY <1>1, <3>4 DEF Sabe
      <4>2. Aviso(Posicion(x)) = m => Posicion(x) = q
        BY DEF Aviso
      <4> QED BY <1>2, <1>4, <3>2, <4>1, <4>2
    <3> QED BY <1>1, <1>4, <2>1, <3>2, <3>3, <3>4 DEF Sabe, Aviso
  <2>6. CASE ~(vivo[q.ms] /\ \A r \in Range(s) : r.ms # q.ms)
    <3>1. sticks'[d] = s BY <2>2, <2>6
    <3>2. ASSUME NEW x \in Sticks, hiloCPU'[d] = "atiende", hiloMS'[x] = "listo", vivo'[x]
          PROVE  Posicion(x)' \in Range(sticks'[d]) \/ Aviso(Posicion(x)') \in Range(canal'[d])
      <4>1. Posicion(x) \in Range(s) \/ Aviso(Posicion(x)) \in Range(canal[d])
        BY <1>1, <3>2 DEF Sabe
      <4>2. CASE Aviso(Posicion(x)) = m
        <5>1. Posicion(x) = q /\ x = y /\ vivo[q.ms]
          BY <1>1, <2>4, <3>2, <4>2 DEF Aviso
        <5>2. PICK r \in Range(s) : r.ms = q.ms
          BY <2>6, <5>1
        <5>3. PICK z \in Conocidos : r = Posicion(z)
          BY <5>2 DEF Sabe, Listas
        <5>4. z = x
          BY <2>4, <5>1, <5>2, <5>3 DEF Conocidos
        <5> QED BY <1>2, <3>1, <5>2, <5>3, <5>4
      <4> QED BY <1>2, <1>4, <3>1, <4>1, <4>2
    <3> QED BY <1>1, <1>4, <3>1, <3>2 DEF Sabe, Aviso
  <2> QED BY <2>5, <2>6
<1>7. Sabe(d)'
  <2>1. \/ ConectarMemoryStick(d, m.ms) /\ m.op = "MS_NUEVO_CPU"
        \/ sticks' = sticks /\ m.op \in {"CONTEXT_RESPONSE", "SEG_MAX_SIZE"}
    BY DEF EscucharKM, RecibirContexto
  <2> QED BY <1>5, <1>6, <2>1
<1>8. ASSUME NEW c \in CPUs, c # d PROVE Sabe(c)'
  <2>1. sticks'[c] = sticks[c]
    BY <1>8 DEF EscucharKM, RecibirContexto, ConectarMemoryStick, Formas
  <2> QED BY <1>1, <1>2, <1>4, <1>8, <2>1, SabeIgual
<1> QED BY <1>3, <1>7, <1>8

LEMMA AnunciosAlInicio == Init => Listas /\ \A c \in CPUs : Sabe(c)
<1> SUFFICES ASSUME Init PROVE Listas /\ \A c \in CPUs : Sabe(c)
  OBVIOUS
<1>2. Listas
  <2>1. \A c \in CPUs : hiloCPU[c] # "conecta" => c \in conectadas
    BY DEF Init
  <2> QED BY <2>1, PosicionesIniciales DEF Listas
<1>3. ASSUME NEW c \in CPUs PROVE Sabe(c)
  <2>1. canal[c] = <<>> /\ Range(canal[c]) = {}
    BY DEF Init, Range
  <2>2. CASE c \notin Presentes
    <3>1. sticks[c] = <<>> /\ Range(sticks[c]) = {} /\ hiloCPU[c] = "conecta"
      BY <2>2 DEF Init, Range
    <3> QED BY <2>1, <3>1 DEF Sabe
  <2>3. CASE c \in Presentes
    <3> DEFINE t == SetToSeq(posiciones)
    <3>1. sticks[c] = t
      BY <2>3 DEF Init
    <3>2. Range(t) = posiciones /\ \A i, j \in DOMAIN t : t[i] = t[j] => i = j
      BY PosicionesIniciales, DeConjunto
    <3> HIDE DEF t
    <3>3. \A i \in DOMAIN t : t[i] \in posiciones
      BY <3>2 DEF Range
    <3>4. \A i, j \in DOMAIN t : i = j
      BY <3>2, <3>3, PosicionesIniciales
    <3>5. \A s \in Sticks : hiloMS[s] = "listo" => Posicion(s) \in posiciones
      BY PosicionesIniciales DEF Conocidos
    <3> QED BY <2>1, <3>1, <3>2, <3>4, <3>5 DEF Sabe
  <2> QED BY <2>2, <2>3
<1> QED BY <1>2, <1>3

LEMMA AnunciosAlCallar ==
  ASSUME Formas, Listas, \A c \in CPUs : Sabe(c), Callado
  PROVE  Listas' /\ \A c \in CPUs : Sabe(c)'
<1>1. /\ UNCHANGED <<hiloMS, base, posiciones, conectadas, hiloCPU, canal, sticks>>
      /\ \A s \in Sticks : vivo'[s] => vivo[s]
  BY DEF Callado, SinAvisos, CaerStick, km, kmCPU, enCPU, Formas
<1>2. Conocidos' = Conocidos /\ \A x \in Sticks : Posicion(x)' = Posicion(x)
  BY <1>1 DEF Conocidos, Posicion
<1>3. {Posicion(x)' : x \in Conocidos'} = {Posicion(x) : x \in Conocidos}
  BY <1>2 DEF Conocidos
<1>4. Listas'
  BY <1>1, <1>3 DEF Listas
<1>5. ASSUME NEW c \in CPUs PROVE Sabe(c)'
  BY <1>1, <1>2, SabeIgual
<1> QED BY <1>4, <1>5

-----------------------------------------------------------------------------
(* SEGMENT_MAX_SIZE.                                                       *)

LEMMA MaximoAlInicio == Init => \A c \in CPUs : MaximoDe(c)
<1> SUFFICES ASSUME Init, NEW c \in CPUs PROVE MaximoDe(c)
  OBVIOUS
<1>1. canal[c] = <<>> /\ Range(canal[c]) = {} /\ DOMAIN canal[c] = {}
  BY DEF Init, Range
<1>2. cpu[c] = Libre /\ (hiloCPU[c] = "atiende" => segMax[c] = SegMax)
  BY DEF Init
<1>3. Libre.fase = "libre" /\ Libre.frags = <<>>
  BY DEF Libre
<1> QED BY <1>1, <1>2, <1>3 DEF MaximoDe, Avisado

LEMMA MaximoIgual ==
  ASSUME NEW c \in CPUs, MaximoDe(c), canal'[c] = canal[c], segMax'[c] = segMax[c],
         hiloCPU'[c] = hiloCPU[c] \/ (hiloCPU[c] # "atiende" /\ hiloCPU'[c] # "atiende"),
         cpu'[c].fase \in {"libre", "contexto"} => cpu'[c].frags = <<>>,
         cpu'[c].fase \notin {"libre", "contexto"} => cpu[c].fase \notin {"libre", "contexto"}
  PROVE  MaximoDe(c)'
BY DEF MaximoDe, Avisado

LEMMA MaximoAlCallar ==
  ASSUME Formas, \A c \in CPUs : MaximoDe(c), Callado
  PROVE  \A c \in CPUs : MaximoDe(c)'
<1> SUFFICES ASSUME NEW c \in CPUs PROVE MaximoDe(c)'
  OBVIOUS
<1>1. UNCHANGED <<canal, segMax, hiloCPU>>
  BY DEF Callado, SinAvisos, CaerStick, km, kmCPU, enCPU
<1>2. /\ cpu'[c].fase \in {"libre", "contexto"} => cpu'[c].frags = <<>>
      /\ cpu'[c].fase \notin {"libre", "contexto"} => cpu[c].fase \notin {"libre", "contexto"}
  <2>1. CASE cpu'[c] = cpu[c]
    BY <2>1 DEF MaximoDe
  <2>2. ASSUME NEW d \in CPUs, NEW k, Ciclo(d, k), cpu'[c] # cpu[c]
        PROVE  /\ cpu'[c] = k /\ cpu[c].fase \notin {"libre", "contexto"}
               /\ k.fase # "contexto" /\ (k.fase = "libre" => k.frags = <<>>)
    BY <2>2 DEF Ciclo, Formas
  <2>3. ASSUME NEW d \in CPUs, NEW p \in Procesos, cpu'[c] # cpu[c],
               cpu' = [cpu EXCEPT ![d] = [Libre EXCEPT !.fase = "contexto", !.pid = p]]
        PROVE  cpu'[c].fase = "contexto" /\ cpu'[c].frags = <<>>
    <3> DEFINE k0 == [Libre EXCEPT !.fase = "contexto"]
               k  == [k0 EXCEPT !.pid = p]
    <3>1. cpu' = [cpu EXCEPT ![d] = k]
      BY <2>3
    <3>2. Campos(Libre) /\ Libre.frags = <<>> BY DEF Libre, Campos
    <3> HIDE DEF Libre
    <3>3. Campos(k0) /\ k0.fase = "contexto" /\ k0.frags = <<>> BY <3>2, PoneFase
    <3> HIDE DEF k0
    <3>4. k.fase = "contexto" /\ k.frags = <<>> BY <3>3, PonePid
    <3> HIDE DEF k
    <3>5. cpu'[c] = k
      BY <2>3, <3>1 DEF Formas
    <3> QED BY <3>4, <3>5
  <2>4. CASE cpu'[c] # cpu[c]
    <3>1. \/ \E d \in CPUs : \E k : Ciclo(d, k)
          \/ \E d \in CPUs, p \in Procesos :
               cpu' = [cpu EXCEPT ![d] = [Libre EXCEPT !.fase = "contexto", !.pid = p]]
      BY <2>4 DEF Callado, CaerStick, enCPU
    <3>2. CASE \E d \in CPUs : \E k : Ciclo(d, k)
      BY <2>2, <2>4, <3>2
    <3>3. CASE \E d \in CPUs, p \in Procesos :
                 cpu' = [cpu EXCEPT ![d] = [Libre EXCEPT !.fase = "contexto", !.pid = p]]
      BY <2>3, <2>4, <3>3
    <3> QED BY <3>1, <3>2, <3>3
  <2> QED BY <2>1, <2>4
<1> QED BY <1>1, <1>2, MaximoIgual

LEMMA MaximoConectar ==
  ASSUME Formas, \A c \in CPUs : MaximoDe(c), NEW s \in Sticks, Conectar(s)
  PROVE  \A c \in CPUs : MaximoDe(c)'
<1> SUFFICES ASSUME NEW c \in CPUs PROVE MaximoDe(c)'
  OBVIOUS
<1>1. UNCHANGED <<hiloCPU, segMax, cpu>>
  BY DEF Conectar, AgregarHuecoMs, AgregarPosicionMs, AvisarCPUs, SoloHiloMS, kmCPU, enCPU
<1>2. canal'[c] = canal[c] \/ canal'[c] = Append(canal[c], Aviso(Posicion(s)))
  BY DEF Conectar, AgregarHuecoMs, AgregarPosicionMs, AvisarCPUs
<1>3. CASE canal'[c] = canal[c]
  BY <1>1, <1>3 DEF MaximoDe, Avisado
<1>4. CASE canal'[c] = Append(canal[c], Aviso(Posicion(s)))
  <2> DEFINE a == Aviso(Posicion(s))
             t == canal[c]
  <2>1. a.op = "MS_NUEVO_CPU" BY DEF Aviso
  <2> HIDE DEF a
  <2>2. canal'[c] = Append(t, a) BY <1>4 DEF a
  <2>3. /\ Range(canal'[c]) = Range(t) \cup {a} /\ Len(t) \in Nat
        /\ DOMAIN t = 1 .. Len(t) /\ DOMAIN canal'[c] = 1 .. Len(t) + 1
        /\ \A i \in 1 .. Len(t) : canal'[c][i] = t[i]
        /\ canal'[c][Len(t) + 1] = a
    BY <2>2, Agregar DEF Formas
  <2>4. 1 .. Len(t) + 1 = (1 .. Len(t)) \cup {Len(t) + 1}
    BY <2>3
  <2>5. \A j \in DOMAIN canal'[c] : canal'[c][j].op = "CONTEXT_RESPONSE" =>
          segMax[c] = SegMax \/ \E i \in DOMAIN canal'[c] : i < j /\ canal'[c][i].op = "SEG_MAX_SIZE"
    <3> TAKE j \in DOMAIN canal'[c]
    <3> HAVE canal'[c][j].op = "CONTEXT_RESPONSE"
    <3>1. j \in 1 .. Len(t) /\ canal'[c][j] = t[j]
      BY <2>1, <2>3, <2>4
    <3>2. segMax[c] = SegMax \/ \E i \in DOMAIN t : i < j /\ t[i].op = "SEG_MAX_SIZE"
      BY <2>3, <3>1 DEF MaximoDe
    <3> QED BY <2>3, <2>4, <3>2
  <2> HIDE DEF t
  <2> QED BY <1>1, <2>1, <2>3, <2>5 DEF MaximoDe, Avisado, t
<1> QED BY <1>2, <1>3, <1>4

LEMMA MaximoAtender ==
  ASSUME Formas, IsFiniteSet(posiciones), \A c \in CPUs : MaximoDe(c),
         NEW d \in CPUs, AtenderCPU(d)
  PROVE  \A c \in CPUs : MaximoDe(c)'
<1>1. UNCHANGED <<segMax, cpu>>
  BY DEF AtenderCPU, AgregarCPU, EnviarMSaCPU, AtenderPedido, enCPU
<1>2. ASSUME NEW c \in CPUs, c # d PROVE MaximoDe(c)'
  <2>1. hiloCPU'[c] = hiloCPU[c] /\ canal'[c] = canal[c]
    BY <1>2 DEF AtenderCPU, AgregarCPU, EnviarMSaCPU, AtenderPedido, HiloCPU, EnviarA, Formas
  <2> QED BY <1>1, <2>1 DEF MaximoDe, Avisado
<1>3. CASE AgregarCPU(d)
  <2>1. hiloCPU[d] # "atiende" /\ hiloCPU'[d] # "atiende" /\ canal' = canal
    BY <1>3 DEF AgregarCPU, HiloCPU, Formas
  <2>2. MaximoDe(d)'
    BY <1>1, <2>1 DEF MaximoDe
  <2> QED BY <1>2, <2>2
<1>4. CASE EnviarMSaCPU(d)
  <2> DEFINE t == SetToSeq({Aviso(q) : q \in posiciones})
             m == [op |-> "SEG_MAX_SIZE", tam |-> SegMax]
             u == Append(t, m)
  <2>1. hiloCPU[d] = "enviar" /\ canal' = [canal EXCEPT ![d] = canal[d] \o u]
    BY <1>4 DEF EnviarMSaCPU, EnviarA, HiloCPU
  <2>2. EsSecuencia(t) /\ Range(t) = {Aviso(q) : q \in posiciones}
    BY AvisosDe
  <2> HIDE DEF t
  <2>3. m.op = "SEG_MAX_SIZE" /\ m.tam = SegMax
    OBVIOUS
  <2> HIDE DEF m
  <2>4. EsSecuencia(u) /\ Range(u) = {Aviso(q) : q \in posiciones} \cup {m}
    BY <2>2, Agregar
  <2> HIDE DEF u
  <2>5. EsSecuencia(canal'[d]) /\ Range(canal'[d]) = Range(canal[d]) \cup Range(u)
    BY <2>1, <2>4, Concatenar DEF Formas
  <2>6. \A x \in Range(canal'[d]) : x.op # "CONTEXT_RESPONSE" /\ (x.op = "SEG_MAX_SIZE" => x.tam = SegMax)
    BY <2>1, <2>3, <2>4, <2>5 DEF MaximoDe, Aviso
  <2>7. \A j \in DOMAIN canal'[d] : canal'[d][j].op # "CONTEXT_RESPONSE"
    BY <2>6 DEF Range
  <2>8. m \in Range(canal'[d])
    BY <2>4, <2>5
  <2>9. MaximoDe(d)'
    BY <1>1, <2>3, <2>6, <2>7, <2>8 DEF MaximoDe, Avisado
  <2> QED BY <1>2, <2>9
<1>5. CASE AtenderPedido(d)
  <2> DEFINE p == Head(pedidos[d]).pid
             m == [op |-> "CONTEXT_RESPONSE", pid |-> p, pc |-> pcGuardado[p], tabla |-> tabla[p]]
             t == canal[d]
  <2>1. /\ hiloCPU' = hiloCPU /\ hiloCPU[d] = "atiende"
        /\ canal' = canal \/ canal' = [canal EXCEPT ![d] = canal[d] \o <<m>>]
    BY <1>5 DEF AtenderPedido, EnviarA
  <2>2. m.op = "CONTEXT_RESPONSE"
    OBVIOUS
  <2> HIDE DEF m
  <2>3. CASE canal' = canal
    BY <1>1, <2>1, <2>3 DEF MaximoDe, Avisado
  <2>4. CASE canal' = [canal EXCEPT ![d] = canal[d] \o <<m>>]
    <3>1. canal'[d] = t \o <<m>>
      BY <2>4 DEF Formas
    <3>2. EsSecuencia(t)
      BY DEF Formas
    <3> HIDE DEF t
    <3>3. /\ Range(canal'[d]) = Range(t) \cup {m} /\ Len(t) \in Nat
          /\ DOMAIN t = 1 .. Len(t) /\ DOMAIN canal'[d] = 1 .. Len(t) + 1
          /\ \A i \in 1 .. Len(t) : canal'[d][i] = t[i]
      BY <3>1, <3>2, Unitaria, Concatenar
    <3>4. 1 .. Len(t) + 1 = (1 .. Len(t)) \cup {Len(t) + 1}
      BY <3>3
    <3>5. segMax[d] = SegMax \/ \E i \in 1 .. Len(t) : t[i].op = "SEG_MAX_SIZE"
      BY <2>1, <3>3 DEF MaximoDe, Avisado, Range, t
    <3>6. \A j \in 1 .. Len(t) : t[j].op = "CONTEXT_RESPONSE" =>
            segMax[d] = SegMax \/ \E i \in 1 .. Len(t) : i < j /\ t[i].op = "SEG_MAX_SIZE"
      BY <3>3 DEF MaximoDe, t
    <3>7. \A j \in 1 .. Len(t) + 1 : canal'[d][j].op = "CONTEXT_RESPONSE" =>
            segMax[d] = SegMax \/ \E i \in 1 .. Len(t) + 1 : i < j /\ canal'[d][i].op = "SEG_MAX_SIZE"
      <4> TAKE j \in 1 .. Len(t) + 1
      <4> HAVE canal'[d][j].op = "CONTEXT_RESPONSE"
      <4>1. CASE j \in 1 .. Len(t)
        BY <3>3, <3>4, <3>6, <4>1
      <4>2. CASE j = Len(t) + 1
        <5>1. \A i \in 1 .. Len(t) : i < j
          BY <3>3, <4>2
        <5> QED BY <3>3, <3>4, <3>5, <5>1
      <4> QED BY <3>4, <4>1, <4>2
    <3>8. MaximoDe(d)'
      BY <1>1, <2>1, <2>2, <3>3, <3>7 DEF MaximoDe, Avisado, t
    <3> QED BY <1>2, <3>8
  <2> QED BY <2>1, <2>3, <2>4
<1> QED BY <1>3, <1>4, <1>5 DEF AtenderCPU

LEMMA MaximoEscuchar ==
  ASSUME Formas, \A c \in CPUs : MaximoDe(c), NEW d \in CPUs, EscucharKM(d)
  PROVE  \A c \in CPUs : MaximoDe(c)'
<1> DEFINE m == Head(canal[d])
           t == canal[d]
<1>1. /\ t # <<>> /\ canal' = [canal EXCEPT ![d] = Tail(t)]
      /\ hiloCPU' = hiloCPU
  BY Zenon DEF EscucharKM, kmCPU
<1>2. /\ \/ m.op = "MS_NUEVO_CPU" /\ UNCHANGED <<segMax, cpu>>
         \/ m.op = "CONTEXT_RESPONSE" /\ RecibirContexto(d, m)
         \/ m.op = "SEG_MAX_SIZE" /\ segMax' = [segMax EXCEPT ![d] = m.tam] /\ cpu' = cpu
  BY DEF EscucharKM, ConectarMemoryStick
<1>3. ASSUME NEW c \in CPUs, c # d PROVE MaximoDe(c)'
  <2>1. /\ canal'[c] = canal[c] /\ segMax'[c] = segMax[c] /\ cpu'[c] = cpu[c]
        /\ hiloCPU'[c] = hiloCPU[c]
    BY <1>1, <1>2, <1>3 DEF RecibirContexto, Formas
  <2> HIDE DEF m, t
  <2>2. MaximoDe(c)
    OBVIOUS
  <2> QED BY ONLY <2>1, <2>2 DEF MaximoDe, Avisado
<1>4. /\ canal'[d] = Tail(t) /\ Range(t) = {m} \cup Range(canal'[d]) /\ m = t[1]
      /\ Len(t) \in Nat \ {0} /\ DOMAIN t = 1 .. Len(t) /\ DOMAIN canal'[d] = 1 .. Len(t) - 1
      /\ \A i \in 1 .. Len(t) - 1 : canal'[d][i] = t[i + 1]
  <2>1. EsSecuencia(t) /\ canal'[d] = Tail(t) /\ m = Head(t)
    BY <1>1 DEF Formas
  <2> HIDE DEF t, m
  <2> QED BY <1>1, <2>1, Quitar
<1>5. m.op = "CONTEXT_RESPONSE" => segMax[d] = SegMax
  <2>1. 1 \in DOMAIN t /\ \A i \in DOMAIN t : ~(i < 1)
    BY <1>4
  <2> QED BY <1>4, <2>1 DEF MaximoDe
<1>6. segMax'[d] = IF m.op = "SEG_MAX_SIZE" THEN SegMax ELSE segMax[d]
  <2>1. m.op = "SEG_MAX_SIZE" => m.tam = SegMax
    BY <1>4 DEF MaximoDe
  <2> QED BY <1>2, <2>1 DEF RecibirContexto, Formas
<1>7. \A j \in DOMAIN canal'[d] : canal'[d][j].op = "CONTEXT_RESPONSE" =>
        segMax'[d] = SegMax \/ \E i \in DOMAIN canal'[d] : i < j /\ canal'[d][i].op = "SEG_MAX_SIZE"
  <2> TAKE j \in DOMAIN canal'[d]
  <2> HAVE canal'[d][j].op = "CONTEXT_RESPONSE"
  <2>1. j \in 1 .. Len(t) - 1 /\ j + 1 \in 1 .. Len(t) /\ t[j + 1].op = "CONTEXT_RESPONSE"
    BY <1>4
  <2>2. CASE segMax[d] = SegMax BY <1>6, <2>2
  <2>3. ASSUME NEW i \in 1 .. Len(t), i < j + 1, t[i].op = "SEG_MAX_SIZE"
        PROVE segMax'[d] = SegMax \/ \E k \in DOMAIN canal'[d] : k < j /\ canal'[d][k].op = "SEG_MAX_SIZE"
    <3>1. CASE i = 1 BY <1>4, <1>6, <2>3, <3>1
    <3>2. CASE i # 1
      <4>1. i - 1 \in 1 .. Len(t) - 1 /\ i - 1 < j /\ (i - 1) + 1 = i
        BY <1>4, <2>1, <2>3, <3>2
      <4> QED BY <1>4, <2>3, <4>1
    <3> QED BY <3>1, <3>2
  <2>4. segMax[d] = SegMax \/ \E i \in 1 .. Len(t) : i < j + 1 /\ t[i].op = "SEG_MAX_SIZE"
    BY <1>4, <2>1 DEF MaximoDe
  <2> QED BY <2>2, <2>3, <2>4
<1>8. /\ cpu'[d].fase \in {"libre", "contexto"} => cpu'[d].frags = <<>>
      /\ cpu'[d].fase \notin {"libre", "contexto"} => segMax'[d] = SegMax
  <2>1. CASE cpu' = cpu
    BY <1>6, <2>1 DEF MaximoDe
  <2>2. CASE RecibirContexto(d, m) /\ m.op = "CONTEXT_RESPONSE"
    <3> DEFINE k1 == [cpu[d] EXCEPT !.fase = "busca"]
               k2 == [k1 EXCEPT !.pc = m.pc]
               k3 == [k2 EXCEPT !.tabla = m.tabla]
    <3>1. cpu'[d] = k3
      BY <2>2 DEF Formas, RecibirContexto
    <3>2. Campos(cpu[d]) BY DEF Formas
    <3> HIDE DEF m
    <3>5. Campos(k1) /\ k1.fase = "busca" BY <3>2, PoneFase
    <3> HIDE DEF k1
    <3>3. Campos(k2) /\ k2.fase = "busca" BY <3>5, PonePc
    <3> HIDE DEF k2
    <3>4. Campos(k3) /\ k3.fase = "busca" BY <3>3, PoneTabla
    <3> HIDE DEF k3
    <3> QED BY <1>5, <1>6, <2>2, <3>1, <3>4
  <2> QED BY <1>2, <2>1, <2>2
<1>9. MaximoDe(d)'
  <2>1. \A x \in Range(canal'[d]) : x.op = "SEG_MAX_SIZE" => x.tam = SegMax
    BY <1>4 DEF MaximoDe
  <2>2. IF hiloCPU'[d] = "atiende" THEN Avisado(d)'
        ELSE \A x \in Range(canal'[d]) : x.op # "CONTEXT_RESPONSE"
    BY <1>1, <1>4, <1>6 DEF MaximoDe, Avisado
  <2> QED BY <1>7, <1>8, <2>1, <2>2 DEF MaximoDe
<1> QED BY <1>3, <1>9

-----------------------------------------------------------------------------
LEMMA AccesoInvSiempre == Spec => []AccesoInv
<1>1. Init => AccesoInv
  BY FormasAlInicio, AnunciosAlInicio, MaximoAlInicio DEF AccesoInv
<1>2. AccesoInv /\ [Next]_vars => AccesoInv'
  <2> SUFFICES ASSUME AccesoInv, [Next]_vars PROVE AccesoInv'
    OBVIOUS
  <2>1. Formas /\ Listas /\ \A c \in CPUs : Sabe(c) /\ MaximoDe(c)
    BY DEF AccesoInv
  <2>2. \A c \in CPUs : Sabe(c)
    BY <2>1
  <2>3. \A c \in CPUs : MaximoDe(c)
    BY <2>1
  <2>4. IsFiniteSet(posiciones)
    BY <2>1 DEF Listas
  <2>5. \/ Callado
        \/ \E s \in Sticks : Conectar(s)
        \/ \E c \in CPUs : AtenderCPU(c) \/ EscucharKM(c)
    BY <2>1, <2>3, Pasos DEF Formas, MaximoDe
  <2>6. Formas'
    BY <2>1, <2>4, <2>5, FormasPaso
  <2>7. Listas' /\ \A c \in CPUs : Sabe(c)'
    BY <2>1, <2>2, <2>5, AnunciosAlCallar, AnunciosConectar, AnunciosAtender, AnunciosEscuchar
  <2>8. \A c \in CPUs : MaximoDe(c)'
    BY <2>1, <2>3, <2>4, <2>5, MaximoAlCallar, MaximoConectar, MaximoAtender, MaximoEscuchar
  <2> QED BY <2>6, <2>7, <2>8 DEF AccesoInv
<1> QED BY <1>1, <1>2, PTL DEF Spec

\* However the threads of kernel_memory that connect a stick and a CPU
\* interleave, and for any number of each, a CPU that has finished its
\* handshake knows or is about to hear of every stick that has finished its
\* own, and has no stick twice (agregar_cpu_conectada, enviar_ms_a_cpu,
\* agregar_posicion_ms, avisar_cpus_conectadas, conectar_memory_stick).
THEOREM LosAnunciosAlcanzan == Spec => []AnunciosAlcanzan
<1>1. AccesoInv => AnunciosAlcanzan
  BY Zenon DEF AccesoInv, Sabe, AnunciosAlcanzan
<1> QED BY <1>1, AccesoInvSiempre, PTL

\* A CPU that has a context has SEGMENT_MAX_SIZE: a context that was asked for
\* before kernel_memory answered the handshake waits behind it (enviar_ms_a_cpu,
\* solicitud_contexto, mmu_traducir_direccion).
THEOREM ElMaximoSeConoce == Spec => []SegMaxConocido
<1>1. AccesoInv => SegMaxConocido
  BY Zenon DEF AccesoInv, MaximoDe, SegMaxConocido
<1> QED BY <1>1, AccesoInvSiempre, PTL

-----------------------------------------------------------------------------
(* Who has each byte and each process, and what a CPU is at.               *)

Arriba     == {s \in Sticks : hiloMS[s] # "afuera"}
EnStick(s) == base[s] .. base[s] + Tamano[s] - 1
Fases      == {"libre", "contexto", "busca", "revisa", "lee", "escribe", "fallo"}
Segs       == [id : Segmentos, base : Nat, limite : Nat]

\* The sticks that have a place share out the global addresses.
Mapa ==
  /\ total = Capacidad(Arriba) /\ total \in Nat /\ huecos \subseteq 0 .. total - 1
  /\ base \in [Sticks -> 0 .. Espacio]
  /\ \A s \in Arriba : EnStick(s) \subseteq 0 .. total - 1
  /\ \A s, t \in Arriba : EnStick(s) \cap EnStick(t) # {} => s = t
  /\ \A d \in 0 .. total - 1 : \E s \in Arriba : d \in EnStick(s)

\* A segment is of one process, and none of its bytes is free.
Tablas ==
  /\ tabla \in [Procesos -> SUBSET Segs]
  /\ \A p \in Procesos : \A g \in tabla[p] :
       /\ g.limite - g.base \in 0 .. SegMax - 1 /\ g.limite < total
       /\ BytesDe(g) \cap huecos = {}
  /\ \A p, q \in Procesos : \A g \in tabla[p], h \in tabla[q] :
       BytesDe(g) \cap BytesDe(h) # {} \/ (p = q /\ g.id = h.id) => p = q /\ g = h

\* A process is in one CPU at most.
Turno(c) ==
  /\ IF cpu[c].fase = "libre" THEN cpu[c] = Libre
     ELSE cpu[c].pid \in Procesos /\ estado[cpu[c].pid] = "exec"
  /\ \A d \in CPUs : cpu[c].fase # "libre" /\ cpu[d].pid = cpu[c].pid => d = c

Mensajes == [op : {"REQUEST_CONTEXTO"}, pid : Procesos]
            \cup [op : {"ACTUALIZAR_CONTEXTO"}, pid : Procesos, pc : Nat]
EsPedido(m)    == m.op = "REQUEST_CONTEXTO"
EsRespuesta(m) == m.op = "CONTEXT_RESPONSE"
Espera(k, p)   == k.fase = "contexto" /\ p = k.pid

\* A CPU, at k, that waits for a context has asked for it once, and the table that comes is the
\* one the process has; ped and can are what it and kernel_memory have sent each other, t the tables.
Charla(k, ped, can, t) ==
  /\ ped \in Seq(Mensajes)
  /\ \A i \in DOMAIN ped : EsPedido(ped[i]) =>
       Espera(k, ped[i].pid) /\ \A j \in DOMAIN ped : EsPedido(ped[j]) => i = j
  /\ \A i \in DOMAIN can : EsRespuesta(can[i]) =>
       /\ Espera(k, can[i].pid) /\ can[i].pc \in Nat /\ can[i].tabla = t[can[i].pid]
       /\ \A j \in DOMAIN can : EsRespuesta(can[j]) => i = j
       /\ \A j \in DOMAIN ped : ~EsPedido(ped[j])
  /\ k.fase \in {"busca", "revisa", "lee", "escribe"} => k.tabla = t[k.pid]
Contexto(c) == Charla(cpu[c], pedidos[c], canal[c], tabla)

\* f is a piece, inside one stick, of the n bytes at the global address d.
Cabe(f, d, n) ==
  /\ f.ms \in Arriba /\ f.dir + f.tam <= Tamano[f.ms]
  /\ base[f.ms] + f.dir = d + f.offset /\ f.offset + f.tam <= n

Desde(k) == IF k.fase = "lee" THEN k.ins.origen ELSE k.ins.destino

EnCurso(k) ==
  /\ k.ins \in Privada!Ordenes
  /\ k.ins.op # IF k.fase = "lee" THEN "MOV_OUT" ELSE "MOV_IN"
  /\ Traduce(k.tabla, Desde(k), k.ins.tam)
  /\ k.ins.op = "COPY_MEM" => Traduce(k.tabla, k.ins.destino, k.ins.tam)
  /\ k.frags # <<>> => ConSigno(k.ins.tam) > 0
  /\ k.fase = "escribe" \/ k.ins.op = "MOV_IN" => k.frags # <<>>
  /\ k.buf \in [1 .. ConSigno(k.ins.tam) -> Nat]
  /\ \A f \in Range(k.frags) : Cabe(f, Fisica(k.tabla, Desde(k)), k.ins.tam)

Registro == [fase : Fases, pid : Procesos \cup {Ninguno}, pc : Nat, tabla : SUBSET Segs,
             ins : Privada!Ordenes \cup {Ninguna}, frags : Fragmentos, buf : Seq(Nat)]

EsCiclo(k) == /\ k \in Registro
              /\ IF k.fase \in {"lee", "escribe"} THEN EnCurso(k)
                 ELSE k.frags = <<>> /\ k.ins = Ninguna

Tipos ==
  /\ huecos \subseteq Nat /\ conectadas \subseteq CPUs
  /\ pcGuardado \in [Procesos -> Nat] /\ avance \in [Procesos -> Nat]
  /\ estado \in [Procesos -> {"listo", "exec", "fin", "borrado"}]
  /\ segMax \in [CPUs -> {0, SegMax}]
  /\ memoria = [s \in Sticks |-> memoria[s]] /\ pedidos = [c \in CPUs |-> pedidos[c]]
  /\ leido = [p \in Procesos |-> leido[p]]
  /\ \A s \in Sticks : memoria[s] \in [0 .. Tamano[s] - 1 -> Nat]

Anda(c) == EsCiclo(cpu[c])

Todos      == \A c \in CPUs : Turno(c) /\ Contexto(c) /\ Anda(c)
PrivadoInv == Mapa /\ Tablas /\ Tipos /\ Todos

Pendiente(k, i) == \E f \in Range(k.frags) : i \in f.offset .. f.offset + f.tam - 1
Lectura(c) == cpu[c].fase = "lee" /\ cpu[c].ins.op = "MOV_IN" =>
  \A i \in 0 .. cpu[c].ins.tam - 1 :
    Pendiente(cpu[c], i) \/ cpu[c].buf[i + 1] = Vista[Fisica(cpu[c].tabla, cpu[c].ins.origen) + i]
Lecturas == \A c \in CPUs : Lectura(c)

-----------------------------------------------------------------------------
(* The global addresses.                                                   *)

\* The bytes of one more stick add to those there are.
LEMMA CapacidadUno ==
  ASSUME NEW S \in SUBSET Sticks
  PROVE  /\ Capacidad(S) \in Nat /\ Capacidad(S) <= Espacio
         /\ \A k \in Sticks \ S : Capacidad(S \cup {k}) = Capacidad(S) + Tamano[k]
<1> DEFINE F(k) == {k} \X (1 .. Tamano[k])
           U(X) == UNION {F(k) : k \in X}
<1>1. IsFiniteSet(Sticks) /\ \A k \in Sticks : Tamano[k] \in Nat \ {0}
  BY AccesoMemoriaAssumption DEF AccesoMemoriaAssumption
<1>2. ASSUME NEW k \in Sticks
      PROVE  IsFiniteSet(F(k)) /\ Cardinality(F(k)) = Tamano[k]
  <2>1. IsFiniteSet(1 .. Tamano[k]) /\ Cardinality(1 .. Tamano[k]) = Tamano[k]
    <3>1. PICK n \in Nat \ {0} : n = Tamano[k]
      BY <1>1
    <3>2. IsFiniteSet(1 .. n) /\ Cardinality(1 .. n) = n
      BY FS_Interval
    <3> QED BY <3>1, <3>2
  <2>2. IsFiniteSet({k}) /\ Cardinality({k}) = 1
    BY FS_Singleton
  <2> QED BY <1>1, <2>1, <2>2, FS_Product
<1>3. ASSUME NEW X \in SUBSET Sticks PROVE IsFiniteSet(U(X))
  <2>1. IsFiniteSet(X)
    BY <1>1, FS_Subset
  <2>2. IsFiniteSet({F(k) : k \in X})
    <3> DEFINE f == [k \in X |-> F(k)]
    <3> HIDE DEF F
    <3>1. f \in Surjection(X, {F(k) : k \in X})
      BY DEF Surjection
    <3> HIDE DEF f
    <3> QED BY <2>1, <3>1, FS_Surjection
  <2>3. \A E \in {F(k) : k \in X} : IsFiniteSet(E)
    <3> HIDE DEF F
    <3> QED BY <1>2
  <2> HIDE DEF F
  <2> QED BY <2>2, <2>3, FS_UNION
<1>4. \A X \in SUBSET Sticks : Capacidad(X) = Cardinality(U(X))
  BY DEF Capacidad
<1>5. U(S) \subseteq U(Sticks)
  OBVIOUS
<1>6. Capacidad(S) \in Nat /\ Capacidad(S) <= Espacio
  <2> HIDE DEF U
  <2>1. Cardinality(U(S)) <= Cardinality(U(Sticks)) /\ Cardinality(U(S)) \in Nat
    BY <1>3, <1>5, FS_Subset, FS_CardinalityType
  <2> QED BY <1>4, <2>1 DEF Espacio
<1>7. ASSUME NEW k \in Sticks \ S PROVE Capacidad(S \cup {k}) = Capacidad(S) + Tamano[k]
  <2>1. U(S \cup {k}) = U(S) \cup F(k)
    <3> HIDE DEF F
    <3> QED OBVIOUS
  <2>2. U(S) \cap F(k) = {}
    OBVIOUS
  <2>3. IsFiniteSet(U(S)) /\ IsFiniteSet(F(k)) /\ Cardinality(F(k)) = Tamano[k]
    <3> HIDE DEF U, F
    <3> QED BY <1>2, <1>3
  <2>4. Cardinality(U(S)) + Cardinality(F(k)) = Cardinality(U(S) \cup F(k))
    <3> HIDE DEF U, F
    <3>1. Cardinality({}) = 0
      BY FS_EmptySet
    <3>2. Cardinality(U(S)) \in Nat /\ Cardinality(F(k)) \in Nat
      BY <2>3, FS_CardinalityType
    <3>3. Cardinality(U(S) \cup F(k))
            = Cardinality(U(S)) + Cardinality(F(k)) - Cardinality(U(S) \cap F(k))
      BY <2>3, FS_Union
    <3>4. Cardinality(U(S) \cap F(k)) = 0
      BY <2>2, <3>1
    <3>5. PICK a \in Nat, b \in Nat : a = Cardinality(U(S)) /\ b = Cardinality(F(k))
      BY <3>2
    <3> QED BY <3>3, <3>4, <3>5
  <2>5. Capacidad(S \cup {k}) = Cardinality(U(S \cup {k})) /\ Capacidad(S) = Cardinality(U(S))
    BY <1>4
  <2> QED BY <2>1, <2>3, <2>4, <2>5
<1> QED BY <1>6, <1>7

LEMMA Constantes ==
  /\ SegMax \in Nat \ {0} /\ Modulo \in Nat \ {0} /\ Segmentos \subseteq Nat
  /\ \A s \in Sticks : Tamano[s] \in Nat \ {0}
  BY AccesoMemoriaAssumption DEF AccesoMemoriaAssumption

LEMMA PideEntra == \A p \in Procesos : Pide[p] \subseteq 1 .. SegMax
  BY AccesoMemoriaAssumption DEF AccesoMemoriaAssumption

\* kernel_memory gives the stick that connects the addresses after the last one.
LEMMA MapaConectar ==
  ASSUME Formas, Mapa, NEW s \in Sticks, Conectar(s)
  PROVE  /\ Mapa' /\ total <= total' /\ Arriba \subseteq Arriba'
         /\ \A x \in Arriba : base'[x] = base[x]
         /\ \A h \in huecos' \ huecos : h >= total
<1>1. Tamano[s] \in Nat \ {0} /\ total \in Nat /\ \A x \in Sticks : base[x] \in Nat
  BY Constantes, CapacidadUno DEF Mapa, Espacio
<1>2. CASE AgregarPosicionMs(s) \/ AvisarCPUs(s)
  <2>1. UNCHANGED <<total, huecos, base>> /\ Arriba' = Arriba
    BY <1>2 DEF AgregarPosicionMs, AvisarCPUs, HiloMS, Formas, Arriba
  <2> QED BY <2>1, <1>1 DEF Mapa, EnStick, Capacidad
<1>3. CASE AgregarHuecoMs(s)
  <2>1. /\ base' = [base EXCEPT ![s] = total] /\ total' = total + Tamano[s]
        /\ huecos' = huecos \cup (total .. total' - 1)
        /\ s \in Sticks \ Arriba /\ Arriba' = Arriba \cup {s}
    BY <1>3 DEF AgregarHuecoMs, HiloMS, Formas, Arriba
  <2>2. base'[s] = total /\ \A x \in Arriba : base'[x] = base[x] /\ x # s
    BY <2>1 DEF Formas, Arriba
  <2>3. total' = Capacidad(Arriba') /\ total' \in Nat /\ huecos' \subseteq 0 .. total' - 1
    <3>1. Capacidad(Arriba \cup {s}) = Capacidad(Arriba) + Tamano[s]
      BY <2>1, CapacidadUno DEF Arriba
    <3>2. total = Capacidad(Arriba) /\ huecos \subseteq 0 .. total - 1
      BY DEF Mapa
    <3>3. total' = Capacidad(Arriba')
      BY <2>1, <3>1, <3>2
    <3>4. total' \in Nat /\ total <= total'
      BY <1>1, <2>1
    <3>5. huecos' \subseteq 0 .. total' - 1
      <4>1. ASSUME NEW h \in huecos' PROVE h \in 0 .. total' - 1
        <5>1. PICK n \in Nat, m \in Nat : n = total /\ m = total' /\ n <= m
          BY <1>1, <3>4
        <5>2. h \in 0 .. n - 1 \/ h \in n .. m - 1
          BY <2>1, <3>2, <4>1, <5>1
        <5>3. h \in 0 .. m - 1
          BY ONLY <5>1, <5>2, n \in Nat, m \in Nat
        <5> QED BY <5>1, <5>3
      <4> QED BY <4>1
    <3> QED BY <3>3, <3>4, <3>5
  <2>4. base' \in [Sticks -> 0 .. Espacio]
    <3>1. total \in 0 .. Espacio
      <4>1. Arriba \in SUBSET Sticks
        BY DEF Arriba
      <4> QED BY <4>1, <1>1, CapacidadUno DEF Mapa
    <3> QED BY <2>1, <3>1 DEF Mapa
  <2>5. EnStick(s)' = total .. total' - 1 /\ \A x \in Arriba : EnStick(x)' = EnStick(x)
    BY <1>1, <2>1, <2>2 DEF EnStick
  <2>6. \A x \in Arriba' : EnStick(x)' \subseteq 0 .. total' - 1
    BY <1>1, <2>1, <2>5 DEF Mapa
  <2>7. \A x, y \in Arriba' : EnStick(x)' \cap EnStick(y)' # {} => x = y
    <3>1. \A x \in Arriba : EnStick(x)' \cap EnStick(s)' = {}
      BY <1>1, <2>1, <2>5 DEF Mapa
    <3> QED BY <2>1, <2>5, <3>1 DEF Mapa
  <2>8. \A d \in 0 .. total' - 1 : \E x \in Arriba' : d \in EnStick(x)'
    <3> TAKE d \in 0 .. total' - 1
    <3>1. CASE d < total
      <4>1. PICK x \in Arriba : d \in EnStick(x)
        BY <1>1, <2>1, <3>1 DEF Mapa
      <4> QED BY <2>1, <2>5, <4>1
    <3>2. CASE d >= total
      BY <1>1, <2>1, <2>5, <3>2
    <3> QED BY <1>1, <2>1, <3>1, <3>2
  <2>9. Mapa'
    BY <2>3, <2>4, <2>6, <2>7, <2>8 DEF Mapa
  <2> QED BY <1>1, <2>1, <2>2, <2>9
<1> QED BY <1>2, <1>3 DEF Conectar

\* What the other steps leave of the map: a byte that is in use or free has a place.
LEMMA MapaIgual ==
  ASSUME Mapa, UNCHANGED <<total, hiloMS, base>>, huecos' \subseteq 0 .. total - 1
  PROVE  Mapa'
  BY DEF Mapa, Arriba, EnStick, Capacidad

LEMMA TablasIgual ==
  ASSUME Mapa, Tablas, UNCHANGED tabla, total' \in Nat, total <= total',
         \A h \in huecos' \ huecos : h >= total
  PROVE  Tablas'
<1>1. \A p \in Procesos : \A g \in tabla[p] :
         g.limite < total' /\ BytesDe(g) \cap huecos' = {}
  <2> TAKE p \in Procesos
  <2> TAKE g \in tabla[p]
  <2>1. g.limite \in Nat /\ g.base \in Nat /\ g.limite < total /\ BytesDe(g) \cap huecos = {}
    BY DEF Tablas, Segs
  <2>2. total \in Nat
    BY DEF Mapa
  <2>3. \A h \in BytesDe(g) : h \notin huecos /\ ~(h >= total)
    BY <2>1, <2>2 DEF BytesDe
  <2>4. BytesDe(g) \cap huecos' = {}
    BY <2>3
  <2> QED BY <2>1, <2>2, <2>4
<1> QED BY <1>1 DEF Tablas

\* A segment is of bytes that were free; those given back were of no other segment.
LEMMA TablasCrear ==
  ASSUME Mapa, Tablas, NEW p \in Procesos, CrearSegmento(p)
  PROVE  Mapa' /\ Tablas' /\ \A q \in Procesos \ {p} : tabla'[q] = tabla[q]
<1>1. PICK i \in Segmentos, b \in huecos, n \in 1 .. SegMax :
        LET g == [id |-> i, base |-> b, limite |-> b + n - 1] IN
          /\ \A h \in tabla[p] : h.id # i
          /\ BytesDe(g) \subseteq huecos
          /\ huecos' = huecos \ BytesDe(g)
          /\ tabla' = [tabla EXCEPT ![p] = @ \cup {g}]
  BY PideEntra DEF CrearSegmento
<1> DEFINE g == [id |-> i, base |-> b, limite |-> b + n - 1]
<1>2. /\ b \in Nat /\ n \in Nat \ {0} /\ SegMax \in Nat /\ total \in Nat
      /\ UNCHANGED <<total, hiloMS, base>>
  BY Constantes DEF Mapa, CrearSegmento, SoloTablas
<1>3. /\ g \in Segs /\ g.id = i /\ g.limite - g.base \in 0 .. SegMax - 1 /\ g.limite < total
      /\ BytesDe(g) # {}
  <2>1. b + n - 1 \in BytesDe(g) /\ b + n - 1 \in Nat
    BY <1>2 DEF BytesDe
  <2> QED BY <1>1, <1>2, <2>1 DEF Mapa, Segs
<1>4. /\ tabla' = [tabla EXCEPT ![p] = @ \cup {g}] /\ huecos' = huecos \ BytesDe(g)
      /\ BytesDe(g) \subseteq huecos /\ \A h \in tabla[p] : h.id # g.id
  BY <1>1, <1>3
<1> HIDE DEF g
<1>5. tabla'[p] = tabla[p] \cup {g} /\ \A q \in Procesos \ {p} : tabla'[q] = tabla[q]
  BY <1>4 DEF Tablas
<1>6. Mapa'
  BY <1>2, <1>4, MapaIgual DEF Mapa
<1>7. tabla' \in [Procesos -> SUBSET Segs]
  BY <1>3, <1>4 DEF Tablas
<1>8. \A q \in Procesos : \A h \in tabla'[q] :
        /\ h.limite - h.base \in 0 .. SegMax - 1 /\ h.limite < total'
        /\ BytesDe(h) \cap huecos' = {}
  <2> TAKE q \in Procesos
  <2> TAKE h \in tabla'[q]
  <2>1. CASE h = g BY <1>2, <1>3, <1>4, <2>1
  <2>2. CASE h \in tabla[q] BY <1>2, <1>4, <2>2 DEF Tablas
  <2> QED BY <1>5, <2>1, <2>2
<1>9. \A q, r \in Procesos : \A h \in tabla'[q], k \in tabla'[r] :
        BytesDe(h) \cap BytesDe(k) # {} \/ (q = r /\ h.id = k.id) => q = r /\ h = k
  <2>1. \A q \in Procesos : \A h \in tabla[q] : BytesDe(h) \cap BytesDe(g) = {}
    BY <1>4 DEF Tablas
  <2> TAKE q, r \in Procesos
  <2> TAKE h \in tabla'[q], k \in tabla'[r]
  <2>2. CASE h \in tabla[q] /\ k \in tabla[r] BY <2>2 DEF Tablas
  <2>3. CASE q = p /\ h = g /\ k \in tabla[r] BY <1>4, <2>1, <2>3
  <2>4. CASE r = p /\ k = g /\ h \in tabla[q] BY <1>4, <2>1, <2>4
  <2>5. CASE q = p /\ h = g /\ r = p /\ k = g BY <2>5
  <2> QED BY <1>5, <2>2, <2>3, <2>4, <2>5
<1> QED BY <1>5, <1>6, <1>7, <1>8, <1>9 DEF Tablas

LEMMA TablasDejar ==
  ASSUME Mapa, Tablas, NEW p \in Procesos, NEW D \in SUBSET tabla[p],
         tabla' = [tabla EXCEPT ![p] = @ \ D],
         huecos' = huecos \cup UNION {BytesDe(g) : g \in D}, UNCHANGED <<total, hiloMS, base>>
  PROVE  Mapa' /\ Tablas' /\ \A q \in Procesos \ {p} : tabla'[q] = tabla[q]
<1>1. \A g \in D : BytesDe(g) \subseteq 0 .. total - 1
  BY DEF Tablas, Mapa, BytesDe, Segs
<1>2. huecos' \subseteq 0 .. total - 1
  <2>1. huecos \subseteq 0 .. total - 1
    BY DEF Mapa
  <2>2. ASSUME NEW h \in huecos' PROVE h \in 0 .. total - 1
    <3>1. CASE h \in huecos BY <2>1, <3>1
    <3>2. ASSUME NEW g \in D, h \in BytesDe(g) PROVE h \in 0 .. total - 1
      BY <1>1, <3>2
    <3> QED BY <2>2, <3>1, <3>2
  <2> QED BY <2>2
<1>3. Mapa'
  BY <1>2, MapaIgual
<1>4. /\ tabla'[p] = tabla[p] \ D /\ \A q \in Procesos \ {p} : tabla'[q] = tabla[q]
      /\ tabla' \in [Procesos -> SUBSET Segs]
  BY DEF Tablas
<1>5. \A q \in Procesos : \A h \in tabla'[q] : h \in tabla[q] /\ BytesDe(h) \cap huecos' = {}
  <2> TAKE q \in Procesos
  <2> TAKE h \in tabla'[q]
  <2>1. h \in tabla[q] /\ (q = p => h \notin D)
    BY <1>4
  <2>2. \A g \in D : BytesDe(h) \cap BytesDe(g) = {}
    BY <2>1 DEF Tablas
  <2>3. BytesDe(h) \cap huecos = {}
    BY <2>1 DEF Tablas
  <2> QED BY <2>1, <2>2, <2>3
<1>6. Tablas'
  BY <1>4, <1>5 DEF Tablas
<1> QED BY <1>3, <1>4, <1>6

LEMMA TablasEliminar ==
  ASSUME Mapa, Tablas, NEW p \in Procesos, EliminarSegmento(p) \/ EliminarProceso(p)
  PROVE  Mapa' /\ Tablas' /\ \A q \in Procesos \ {p} : tabla'[q] = tabla[q]
<1>1. UNCHANGED <<total, hiloMS, base>>
  BY DEF EliminarSegmento, EliminarProceso, SoloTablas
<1>2. CASE EliminarSegmento(p)
  <2>1. PICK g \in tabla[p] : /\ huecos' = huecos \cup BytesDe(g)
                              /\ tabla' = [tabla EXCEPT ![p] = @ \ {g}]
    BY <1>2 DEF EliminarSegmento
  <2>2. UNION {BytesDe(h) : h \in {g}} = BytesDe(g)
    OBVIOUS
  <2>3. {g} \in SUBSET tabla[p]
    OBVIOUS
  <2> QED BY <1>1, <2>1, <2>2, <2>3, TablasDejar
<1>3. CASE EliminarProceso(p)
  <2>1. /\ huecos' = huecos \cup UNION {BytesDe(g) : g \in tabla[p]}
        /\ tabla' = [tabla EXCEPT ![p] = {}]
    BY <1>3 DEF EliminarProceso
  <2>2. tabla' = [tabla EXCEPT ![p] = @ \ tabla[p]]
    BY <2>1 DEF Tablas
  <2>3. tabla[p] \in SUBSET tabla[p]
    OBVIOUS
  <2> QED BY <1>1, <2>1, <2>2, <2>3, TablasDejar
<1> QED BY <1>2, <1>3

LEMMA MapaAlInicio == Init => Mapa /\ Tablas
<1> SUFFICES ASSUME Init PROVE Mapa /\ Tablas
  OBVIOUS
<1>1. Arriba = Presentes \cap Sticks /\ \A s, t \in Arriba : s = t
  BY AccesoMemoriaAssumption DEF Init, Arriba, AccesoMemoriaAssumption
<1>2. total = Capacidad(Arriba) /\ total \in Nat /\ huecos = 0 .. total - 1
  BY <1>1, CapacidadUno DEF Init
<1>3. base = [s \in Sticks |-> 0] /\ Espacio \in Nat
  BY CapacidadUno DEF Init, Espacio
<1>4. \A s \in Arriba : total = Tamano[s]
  <2> TAKE s \in Arriba
  <2>1. Arriba = {} \cup {s} /\ s \in Sticks \ {}
    BY <1>1 DEF Arriba
  <2>2. Capacidad({} \cup {s}) = Capacidad({}) + Tamano[s]
    BY <2>1, CapacidadUno
  <2>3. Capacidad({}) = 0
    <3>1. UNION {{s1} \X (1 .. Tamano[s1]) : s1 \in {}} = {}
      OBVIOUS
    <3>2. Capacidad({}) = Cardinality({})
      BY <3>1 DEF Capacidad
    <3> QED BY <3>2, FS_EmptySet
  <2> QED BY <1>2, <2>1, <2>2, <2>3, Constantes
<1>5. Arriba = {} => total = 0
  <2>1. UNION {{s1} \X (1 .. Tamano[s1]) : s1 \in {}} = {}
    OBVIOUS
  <2>2. Capacidad({}) = Cardinality({})
    BY <2>1 DEF Capacidad
  <2> QED BY <1>2, <2>2, FS_EmptySet
<1>6. \A s \in Arriba : EnStick(s) = 0 .. total - 1
  BY <1>3, <1>4, Constantes DEF EnStick, Arriba
<1>7. Mapa
  <2>1. \A d \in 0 .. total - 1 : \E s \in Arriba : d \in EnStick(s)
    BY <1>2, <1>5, <1>6
  <2>2. base \in [Sticks -> 0 .. Espacio]
    BY <1>3
  <2> QED BY <1>1, <1>2, <1>6, <2>1, <2>2 DEF Mapa
<1>8. Tablas
  BY DEF Init, Tablas
<1> QED BY <1>7, <1>8

-----------------------------------------------------------------------------
(* The MMU and the pieces of an access.                                    *)

\* The numbers of a uint32_t below its middle are those of an int.
LEMMA Enteros ==
  ASSUME NEW n \in Nat, n < Modulo
  PROVE  /\ ConSigno(n) \in Int /\ (ConSigno(n) > 0 => ConSigno(n) = n)
         /\ n \in 1 .. Modulo \div 2 - 1 => ConSigno(n) = n
<1>1. Modulo \in Nat \ {0} /\ Modulo \div 2 \in Nat
  BY Constantes
<1> QED BY <1>1 DEF ConSigno

LEMMA Tamanios ==
  ASSUME NEW n \in Registros \cup Copias
  PROVE  /\ n \in Nat /\ n < Modulo /\ (n \in Registros => ConSigno(n) = n /\ n > 0)
<1>1. Modulo \in Nat \ {0} /\ Modulo \div 2 \in Nat /\ Modulo \div 2 <= Modulo
  BY Constantes
<1>2. n \in 1 .. Modulo \div 2 - 1 \/ n \in 0 .. Modulo - 1
  BY AccesoMemoriaAssumption DEF AccesoMemoriaAssumption
<1>3. n \in Nat /\ n < Modulo
  BY <1>1, <1>2
<1>4. n \in Registros => n \in 1 .. Modulo \div 2 - 1
  BY AccesoMemoriaAssumption DEF AccesoMemoriaAssumption
<1> QED BY <1>1, <1>3, <1>4, Enteros

ConSticks(c, d, n) == \A e \in d .. d + n - 1 : StickDe(c, e) # {}

\* A piece of an access to bytes the CPU has sticks for.
LEMMA PiezaEs ==
  ASSUME Formas, Listas, Mapa, NEW c \in CPUs, Sabe(c), NEW d \in Nat, NEW n \in Nat,
         ConSticks(c, d, n),
         NEW r \in 1 .. n, NEW f, f = Pieza(c, d, n, r)
  PROVE  /\ f \in [ms : Sticks, dir : Nat, tam : Nat \ {0}, offset : Nat]
         /\ f.tam <= r /\ f.offset = n - r /\ Cabe(f, d, n)
<1> DEFINE e == d + n - r
           q == CHOOSE x \in StickDe(c, e) : TRUE
           cabe == q.limite - e + 1
<1>1. e \in d .. d + n - 1 /\ e \in Nat
  OBVIOUS
<1>2. q \in StickDe(c, e)
  BY <1>1 DEF ConSticks
<1> HIDE DEF q
<1>3. q \in posiciones /\ e \in q.base .. q.limite
  BY <1>2 DEF StickDe, Sabe
<1>4. PICK s \in Conocidos : q = Posicion(s)
  BY <1>3 DEF Listas
<1>5. /\ s \in Arriba /\ s \in Sticks /\ q.ms = s
      /\ q.base = base[s] /\ q.limite = base[s] + Tamano[s] - 1
  BY <1>4 DEF Conocidos, Arriba, Posicion
<1>6. base[s] \in Nat /\ Tamano[s] \in Nat \ {0}
  BY <1>5, Constantes, CapacidadUno DEF Mapa, Espacio
<1>7. PICK b \in Nat, k \in Nat \ {0} : b = base[s] /\ k = Tamano[s]
  BY <1>6
<1>8. e \in b .. b + k - 1 /\ cabe = b + k - e
  BY <1>1, <1>3, <1>5, <1>7
<1> DEFINE tam == IF r < cabe THEN r ELSE cabe
<1>9. f = [ms |-> s, dir |-> e - b, tam |-> tam, offset |-> n - r]
  BY <1>5, <1>7 DEF Pieza, q
<1>10. e - b \in Nat /\ tam \in Nat \ {0} /\ tam <= r /\ n - r \in Nat
  BY <1>1, <1>8
<1>11. f \in [ms : Sticks, dir : Nat, tam : Nat \ {0}, offset : Nat]
  BY <1>5, <1>9, <1>10
<1>12. f.ms = s /\ f.dir = e - b /\ f.tam = tam /\ f.offset = n - r
  BY <1>9
<1>13. /\ (e - b) + tam <= k /\ b + (e - b) = d + (n - r) /\ (n - r) + tam <= n
  BY <1>1, <1>8
<1>14. Cabe(f, d, n)
  BY <1>5, <1>7, <1>12, <1>13 DEF Cabe
<1> QED BY <1>10, <1>11, <1>12, <1>14

\* The function that cuts what is left of the access.
Cortes(c, d, n, F, r) == IF r = 0 THEN <<>>
                         ELSE <<Pieza(c, d, n, r)>> \o F[r - Pieza(c, d, n, r).tam]

LEMMA CortesHay ==
  ASSUME Formas, Listas, Mapa, NEW c \in CPUs, Sabe(c), NEW d \in Nat, NEW n \in Nat,
         ConSticks(c, d, n)
  PROVE  \E F : F = [r \in 0 .. n |-> Cortes(c, d, n, F, r)]
<1> DEFINE Hasta(m) == \E F : F = [r \in 0 .. m |-> Cortes(c, d, n, F, r)]
           S == {m \in 0 .. n : ~Hasta(m)}
<1>1. \A r \in 1 .. n : Pieza(c, d, n, r).tam \in 1 .. r
  <2> TAKE r \in 1 .. n
  <2>1. PICK f : f = Pieza(c, d, n, r)
    OBVIOUS
  <2>2. f.tam \in Nat \ {0} /\ f.tam <= r
    BY <2>1, PiezaEs
  <2> QED BY <2>1, <2>2
<1>2. Hasta(0)
  <2> DEFINE F == [r \in 0 .. 0 |-> <<>>]
  <2>1. F = [r \in 0 .. 0 |-> Cortes(c, d, n, F, r)]
    BY DEF Cortes
  <2> QED BY <2>1
<1>3. ASSUME NEW m \in 0 .. n, m # 0, Hasta(m - 1) PROVE Hasta(m)
  <2>1. PICK F : F = [r \in 0 .. m - 1 |-> Cortes(c, d, n, F, r)]
    BY <1>3
  <2> DEFINE G == [r \in 0 .. m |-> IF r = m THEN Cortes(c, d, n, F, m) ELSE F[r]]
  <2>2. ASSUME NEW r \in 0 .. m PROVE Cortes(c, d, n, G, r) = Cortes(c, d, n, F, r)
    <3>1. CASE r = 0 BY <3>1 DEF Cortes
    <3>2. CASE r # 0
      <4>1. PICK t \in 1 .. r : t = Pieza(c, d, n, r).tam
        BY <1>1, <1>3, <3>2
      <4>2. r - t \in 0 .. m /\ r - t # m
        BY <1>3, <4>1
      <4>3. G[r - t] = F[r - t]
        BY <4>2
      <4> HIDE DEF G
      <4> QED BY <3>2, <4>1, <4>3 DEF Cortes
    <3> QED BY <3>1, <3>2
  <2>3. \A r \in 0 .. m : G[r] = Cortes(c, d, n, G, r)
    <3> TAKE r \in 0 .. m
    <3>1. CASE r = m BY <2>2, <3>1
    <3>2. CASE r # m
      <4>1. r \in 0 .. m - 1
        BY <1>3, <3>2
      <4>2. G[r] = F[r] /\ F[r] = Cortes(c, d, n, F, r)
        BY <2>1, <3>2, <4>1
      <4> HIDE DEF G
      <4> QED BY <2>2, <4>2
    <3> QED BY <3>1, <3>2
  <2>4. G = [r \in 0 .. m |-> G[r]]
    OBVIOUS
  <2> HIDE DEF G
  <2>5. G = [r \in 0 .. m |-> Cortes(c, d, n, G, r)]
    BY <2>3, <2>4
  <2> QED BY <2>5
<1> HIDE DEF Hasta
<1>4. S = {}
  <2> SUFFICES ASSUME S # {} PROVE FALSE
    OBVIOUS
  <2>1. S \in SUBSET Nat
    OBVIOUS
  <2>2. PICK m \in S : \A k \in S : m <= k
    BY <2>1, MenorNatural
  <2>3. m # 0 /\ m \in 0 .. n
    BY <1>2, <2>2
  <2>4. m - 1 \in 0 .. n /\ m - 1 \notin S
    BY <2>2, <2>3
  <2> QED BY <1>3, <2>2, <2>3, <2>4
<1>5. Hasta(n)
  BY <1>4
<1> QED BY <1>5 DEF Hasta

\* fragmentar_acceso_memoria: every byte of the access is in a piece, and every piece is inside a
\* stick.
LEMMA FragmentarEs ==
  ASSUME Formas, Listas, Mapa, NEW c \in CPUs, Sabe(c), NEW d \in Nat, NEW n \in Nat,
         n < Modulo, Cubierto(c, d, n), NEW fr, fr = Fragmentar(c, d, n)
  PROVE  /\ fr \in Fragmentos /\ \A f \in Range(fr) : Cabe(f, d, n)
         /\ ConSigno(n) <= 0 => fr = <<>>
         /\ ConSigno(n) > 0 =>
              fr # <<>> /\ \A i \in 0 .. n - 1 :
                \E f \in Range(fr) : i \in f.offset .. f.offset + f.tam - 1
<1>1. ConSigno(n) \in Int /\ (ConSigno(n) > 0 => ConSigno(n) = n)
  BY Enteros
<1>2. CASE ConSigno(n) <= 0
  <2>1. fr = <<>>
    BY <1>2 DEF Fragmentar
  <2>2. <<>> \in Fragmentos /\ Range(<<>>) = {}
    BY DEF Fragmentos, Range
  <2> QED BY <1>1, <1>2, <2>1, <2>2
<1>3. CASE ConSigno(n) > 0
  <2> DEFINE K == CHOOSE F : F = [r \in 0 .. n |-> Cortes(c, d, n, F, r)]
  <2>1. ConSticks(c, d, n)
    BY <1>1, <1>3 DEF Cubierto, ConSticks
  <2>2. K = [r \in 0 .. n |-> Cortes(c, d, n, K, r)]
    BY <2>1, CortesHay
  <2>3. fr = K[n]
    BY <1>1, <1>3 DEF Fragmentar, Cortes
  <2> HIDE DEF K
  <2> DEFINE Bien(r) ==
        /\ K[r] \in Fragmentos /\ \A f \in Range(K[r]) : Cabe(f, d, n)
        /\ \A i \in n - r .. n - 1 :
             \E f \in Range(K[r]) : i \in f.offset .. f.offset + f.tam - 1
           S == {r \in 0 .. n : ~Bien(r)}
  <2>4. Bien(0)
    <3>1. K[0] = <<>>
      BY <2>2 DEF Cortes
    <3>2. <<>> \in Fragmentos /\ Range(<<>>) = {}
      BY DEF Fragmentos, Range
    <3> QED BY <3>1, <3>2
  <2>5. ASSUME NEW r \in 1 .. n, \A k \in 0 .. r - 1 : Bien(k) PROVE Bien(r)
    <3>1. PICK f : f = Pieza(c, d, n, r)
      OBVIOUS
    <3>2. /\ f \in [ms : Sticks, dir : Nat, tam : Nat \ {0}, offset : Nat]
          /\ f.tam <= r /\ f.offset = n - r /\ Cabe(f, d, n)
      BY <2>1, <2>5, <3>1, PiezaEs
    <3>3. PICK t \in Nat \ {0} : t = f.tam /\ t <= r
      BY <3>2
    <3>4. r - t \in 0 .. r - 1
      BY <3>3
    <3>5. PICK s : s = K[r - t]
      OBVIOUS
    <3>6. /\ s \in Fragmentos /\ \A g \in Range(s) : Cabe(g, d, n)
          /\ \A i \in n - (r - t) .. n - 1 :
               \E g \in Range(s) : i \in g.offset .. g.offset + g.tam - 1
      BY <2>5, <3>4, <3>5
    <3>7. K[r] = <<f>> \o s
      <4>1. K[r] = Cortes(c, d, n, K, r) /\ r # 0
        BY <2>2, <2>5
      <4> QED BY <3>1, <3>3, <3>5, <4>1 DEF Cortes
    <3>8. EsSecuencia(s) /\ EsSecuencia(<<f>>) /\ Range(<<f>>) = {f}
      BY <3>6, Unitaria DEF Fragmentos, EsSecuencia, Range
    <3>9. Range(K[r]) = {f} \cup Range(s)
      BY <3>7, <3>8, Concatenar
    <3>10. K[r] \in Fragmentos
      BY <3>2, <3>6, <3>7 DEF Fragmentos
    <3>11. ASSUME NEW i \in n - r .. n - 1
           PROVE  \E g \in Range(K[r]) : i \in g.offset .. g.offset + g.tam - 1
      <4>1. CASE i < (n - r) + t
        <5>1. i \in f.offset .. f.offset + f.tam - 1
          BY <3>2, <3>3, <4>1
        <5> QED BY <3>9, <5>1
      <4>2. CASE i >= (n - r) + t
        <5>1. i \in n - (r - t) .. n - 1
          BY <3>3, <4>2
        <5> QED BY <3>6, <3>9, <5>1
      <4> QED BY <3>3, <4>1, <4>2
    <3> QED BY <3>2, <3>6, <3>9, <3>10, <3>11
  <2> HIDE DEF Bien
  <2>6. S = {}
    <3> SUFFICES ASSUME S # {} PROVE FALSE
      OBVIOUS
    <3>1. S \in SUBSET Nat
      OBVIOUS
    <3>2. PICK r \in S : \A k \in S : r <= k
      BY <3>1, MenorNatural
    <3>3. r # 0 /\ r \in 0 .. n /\ r \in 1 .. n
      BY <2>4, <3>2
    <3>4. \A k \in 0 .. r - 1 : Bien(k)
      BY <3>2, <3>3
    <3> QED BY <2>5, <3>2, <3>3, <3>4
  <2>7. Bien(n)
    BY <2>6
  <2>8. /\ fr \in Fragmentos /\ \A f \in Range(fr) : Cabe(f, d, n)
        /\ \A i \in 0 .. n - 1 :
             \E f \in Range(fr) : i \in f.offset .. f.offset + f.tam - 1
    BY <2>3, <2>7 DEF Bien
  <2>9. fr # <<>>
    <3>1. 0 \in 0 .. n - 1
      BY <1>1, <1>3
    <3>2. Range(<<>>) = {}
      BY DEF Range
    <3> QED BY <2>8, <3>1, <3>2
  <2> QED BY <1>1, <1>3, <2>8, <2>9
<1> QED BY <1>1, <1>2, <1>3

LEMMA TraduceEs ==
  ASSUME NEW t \in SUBSET Segs, \A g, h \in t : g.id = h.id => g = h,
         NEW dir \in Nat, NEW n \in Nat, n < Modulo, Traduce(t, dir, n)
  PROVE  \E g \in t :
           /\ g.id = dir \div SegMax /\ Fisica(t, dir) = g.base + (dir % SegMax)
           /\ Fisica(t, dir) \in Nat
           /\ ConSigno(n) > 0 /\ g.limite - g.base < SegMax =>
                (dir % SegMax) + n <= g.limite - g.base + 1
<1>1. PICK g \in SegmentoDe(t, dir) : Uint((dir % SegMax) + n) <= g.limite - g.base + 1
  BY DEF Traduce
<1>2. g \in t /\ g.id = dir \div SegMax /\ \A h \in SegmentoDe(t, dir) : h = g
  BY DEF SegmentoDe
<1>3. Fisica(t, dir) = g.base + (dir % SegMax)
  BY <1>2 DEF Fisica
<1>4. PICK e \in Nat : e = dir % SegMax /\ e < SegMax
  <2>1. SegMax \in Nat \ {0}
    BY Constantes
  <2> QED BY <2>1
<1>5. g.base \in Nat /\ g.limite \in Nat
  BY <1>2 DEF Segs
<1>6. ASSUME ConSigno(n) > 0 PROVE e + n <= g.limite - g.base + 1
  <2>1. Modulo \in Nat \ {0} /\ SegMax \in 1 .. Modulo \div 2 - 1 /\ Modulo \div 2 \in Nat
    BY Constantes, AccesoMemoriaAssumption DEF AccesoMemoriaAssumption
  <2>2. 2 * (Modulo \div 2) <= Modulo
    BY <2>1
  <2>3. n < Modulo \div 2
    BY <1>6, <2>1 DEF ConSigno
  <2>4. e + n \in Nat /\ e + n < Modulo
    BY <1>4, <2>1, <2>2, <2>3
  <2>5. (e + n) % Modulo = e + n
    BY <2>1, <2>4
  <2> QED BY <1>1, <1>4, <2>5 DEF Uint
<1> QED BY <1>2, <1>3, <1>4, <1>5, <1>6

-----------------------------------------------------------------------------
(* What the instruction cycle makes of its record.                         *)

LEMMA EnCursoIgual ==
  ASSUME NEW k, NEW r, EnCurso(k), r.fase = k.fase, r.ins = k.ins, r.tabla = k.tabla,
         r.frags = k.frags, r.buf = k.buf
  PROVE  EnCurso(r)
  BY DEF EnCurso, Desde

LEMMA LibreEs ==
  /\ Libre \in Registro /\ EsCiclo(Libre) /\ Libre.fase = "libre" /\ Libre.pid = Ninguno
  /\ \A p \in Procesos :
       LET r == [Libre EXCEPT !.fase = "contexto", !.pid = p]
       IN  EsCiclo(r) /\ r.fase = "contexto" /\ r.pid = p
<1>1. <<>> \in Fragmentos /\ <<>> \in Seq(Nat)
  BY DEF Fragmentos
<1>2. Libre \in Registro
  BY <1>1 DEF Libre, Registro, Fases
<1>3. EsCiclo(Libre) /\ Libre.fase = "libre" /\ Libre.pid = Ninguno
  BY <1>2 DEF EsCiclo, Libre
<1>4. ASSUME NEW p \in Procesos, NEW r, r = [Libre EXCEPT !.fase = "contexto", !.pid = p]
      PROVE  EsCiclo(r) /\ r.fase = "contexto" /\ r.pid = p
  <2>1. /\ r = [fase |-> "contexto", pid |-> p, pc |-> 0, tabla |-> {}, ins |-> Ninguna,
                frags |-> <<>>, buf |-> <<>>]
    BY <1>4 DEF Libre
  <2>2. r \in Registro /\ r.fase = "contexto" /\ r.pid = p /\ r.frags = <<>> /\ r.ins = Ninguna
    <3>1. p \in Procesos \cup {Ninguno}
      BY <1>4
    <3> QED BY <1>1, <2>1, <3>1 DEF Registro, Fases
  <2> QED BY <2>2 DEF EsCiclo
<1> QED BY <1>2, <1>3, <1>4

LEMMA FalloEs ==
  ASSUME NEW k \in Registro, NEW r, r = Fallo(k)
  PROVE  EsCiclo(r) /\ r.fase = "fallo" /\ r.pid = k.pid /\ r.pc = k.pc
<1>1. r = [fase |-> "fallo", pid |-> k.pid, pc |-> k.pc, tabla |-> {}, ins |-> Ninguna,
           frags |-> <<>>, buf |-> <<>>]
  BY DEF Fallo, Libre
<1>2. r \in Registro /\ r.fase = "fallo" /\ r.pid = k.pid /\ r.pc = k.pc /\ r.frags = <<>>
      /\ r.ins = Ninguna
  <2>1. <<>> \in Fragmentos /\ <<>> \in Seq(Nat)
    BY DEF Fragmentos
  <2> QED BY <1>1, <2>1 DEF Registro, Fases
<1> QED BY <1>2 DEF EsCiclo

LEMMA SumaPc ==
  ASSUME NEW k, EsCiclo(k), NEW r, r = [k EXCEPT !.pc = @ + 1]
  PROVE  /\ EsCiclo(r) /\ r.fase = k.fase /\ r.pid = k.pid /\ r.pc = k.pc + 1 /\ r.tabla = k.tabla
         /\ r.ins = k.ins /\ r.frags = k.frags /\ r.buf = k.buf
<1>1. k \in Registro
  BY DEF EsCiclo
<1>2. /\ r \in Registro /\ r.fase = k.fase /\ r.pid = k.pid /\ r.pc = k.pc + 1 /\ r.tabla = k.tabla
      /\ r.ins = k.ins /\ r.frags = k.frags /\ r.buf = k.buf
  BY <1>1 DEF Registro
<1> QED BY <1>2, EnCursoIgual DEF EsCiclo

\* Any fields of the record but the process, the PC and the table.
ConAcceso(k, f, i, b, s) == [k EXCEPT !.fase = f, !.ins = i, !.buf = b, !.frags = s]

LEMMA PoneAcceso ==
  ASSUME NEW k \in Registro, NEW f \in Fases, NEW i \in Privada!Ordenes \cup {Ninguna},
         NEW b \in Seq(Nat), NEW s \in Fragmentos,
         NEW r, r = ConAcceso(k, f, i, b, s)
  PROVE  /\ r \in Registro /\ r.fase = f /\ r.ins = i /\ r.buf = b /\ r.frags = s
         /\ r.pid = k.pid /\ r.pc = k.pc /\ r.tabla = k.tabla
  BY DEF Registro, ConAcceso

LEMMA PoneFragmentos ==
  ASSUME NEW k \in Registro, NEW s \in Fragmentos, NEW r, r = [k EXCEPT !.frags = s]
  PROVE  /\ r \in Registro /\ r.frags = s /\ r.fase = k.fase /\ r.ins = k.ins /\ r.buf = k.buf
         /\ r.pid = k.pid /\ r.pc = k.pc /\ r.tabla = k.tabla
  BY DEF Registro

LEMMA PoneMemoria ==
  ASSUME NEW k \in Registro, NEW b \in Seq(Nat), NEW r, r = [k EXCEPT !.buf = b]
  PROVE  /\ r \in Registro /\ r.buf = b /\ r.fase = k.fase /\ r.ins = k.ins /\ r.frags = k.frags
         /\ r.pid = k.pid /\ r.pc = k.pc /\ r.tabla = k.tabla
  BY DEF Registro

LEMMA PoneEscribe ==
  ASSUME NEW k \in Registro, NEW r, r = [k EXCEPT !.fase = "escribe"]
  PROVE  /\ r \in Registro /\ r.fase = "escribe" /\ r.ins = k.ins /\ r.buf = k.buf
         /\ r.frags = k.frags /\ r.pid = k.pid /\ r.pc = k.pc /\ r.tabla = k.tabla
  BY DEF Registro, Fases

LEMMA SeguirEs ==
  ASSUME NEW k \in Registro, NEW s \in Fragmentos, NEW r, r = Seguir(k, s)
  PROVE  /\ r \in Registro /\ r.pid = k.pid /\ r.pc = k.pc /\ r.tabla = k.tabla
         /\ IF s # <<>> THEN r.fase = k.fase /\ r.ins = k.ins /\ r.buf = k.buf /\ r.frags = s
            ELSE r.fase = "revisa" /\ r.ins = Ninguna /\ r.frags = <<>>
<1>1. CASE s # <<>>
  <2>1. r = [k EXCEPT !.frags = s]
    BY <1>1 DEF Seguir
  <2> QED BY <1>1, <2>1, PoneFragmentos
<1>2. CASE s = <<>>
  <2>1. r = [k EXCEPT !.fase = "revisa", !.ins = Ninguna, !.frags = <<>>, !.buf = <<>>]
    BY <1>2 DEF Seguir
  <2>2. <<>> \in Fragmentos /\ <<>> \in Seq(Nat) /\ "revisa" \in Fases
    BY DEF Fragmentos, Fases
  <2> QED BY <1>2, <2>1, <2>2 DEF Registro
<1> QED BY <1>1, <1>2

LEMMA Bufer ==
  ASSUME NEW n \in Int, NEW b \in [1 .. n -> Nat]
  PROVE  b \in Seq(Nat)
<1>1. CASE n >= 0
  BY <1>1
<1>2. CASE n < 0
  <2>1. 1 .. n = 1 .. 0
    BY <1>2
  <2>2. b \in [1 .. 0 -> Nat]
    BY <2>1
  <2> QED BY <2>2
<1> QED BY <1>1, <1>2

LEMMA OrdenEs ==
  ASSUME NEW i \in Privada!Ordenes
  PROVE  /\ i.op \in {"MOV_IN", "MOV_OUT", "COPY_MEM"} /\ i.origen \in Nat /\ i.destino \in Nat
         /\ i.origen \in Direcciones \cup {0} /\ i.destino \in Direcciones \cup {0}
         /\ i.tam \in Registros \cup Copias /\ i # Ninguna
<1>1. Direcciones \cup {0} \subseteq Nat
  BY DEF Direcciones
<1> QED BY <1>1 DEF Privada!Ordenes, Ninguna, Ins

\* A CPU whose process has its context.
Activas   == {"busca", "revisa", "lee", "escribe"}
Listo(c)  == /\ c \in CPUs /\ Sabe(c) /\ EsCiclo(cpu[c]) /\ cpu[c].fase \in Activas
             /\ cpu[c].pid \in Procesos /\ cpu[c].tabla = tabla[cpu[c].pid]
Empezado(k) == \A j \in 0 .. k.ins.tam - 1 : Pendiente(k, j)

LEMMA ListoTabla ==
  ASSUME Tablas, NEW c, Listo(c), NEW t, t = cpu[c].tabla
  PROVE  /\ t \in SUBSET Segs /\ \A g, h \in t : g.id = h.id => g = h
         /\ \A g \in t : g \in tabla[cpu[c].pid] /\ g.limite - g.base \in 0 .. SegMax - 1
  BY DEF Tablas, Listo

\* An access that the MMU lets through and whose bytes are in sticks the CPU knows.
LEMMA AccesoEs ==
  ASSUME Formas, Listas, Mapa, Tablas, NEW c, Listo(c),
         NEW i \in Privada!Ordenes, NEW fase \in {"lee", "escribe"}, NEW dir \in Nat,
         dir = IF fase = "lee" THEN i.origen ELSE i.destino,
         NEW buf \in [1 .. ConSigno(i.tam) -> Nat],
         i.op # IF fase = "lee" THEN "MOV_OUT" ELSE "MOV_IN",
         i.op = "COPY_MEM" => Traduce(cpu[c].tabla, i.destino, i.tam),
         fase = "escribe" \/ i.op = "MOV_IN" => ConSigno(i.tam) > 0,
         NEW r, r = Acceso(c, i, fase, dir, buf)
  PROVE  \/ r = Fallo(cpu[c])
         \/ /\ EsCiclo(r) /\ r.fase = fase /\ r.ins = i /\ r.buf = buf /\ r.pid = cpu[c].pid
            /\ r.pc = cpu[c].pc /\ r.tabla = cpu[c].tabla
            /\ ConSigno(i.tam) > 0 => Empezado(r)
<1>1. PICK t : t = cpu[c].tabla
  OBVIOUS
<1>2. CASE ~(Traduce(t, dir, i.tam) /\ Cubierto(c, Fisica(t, dir), i.tam))
  BY <1>1, <1>2 DEF Acceso
<1>3. CASE Traduce(t, dir, i.tam) /\ Cubierto(c, Fisica(t, dir), i.tam)
  <2>1. i.tam \in Nat /\ i.tam < Modulo /\ ConSigno(i.tam) \in Int
    BY OrdenEs, Tamanios, Enteros
  <2>2. t \in SUBSET Segs /\ \A g, h \in t : g.id = h.id => g = h
    BY <1>1, ListoTabla
  <2>3. PICK d \in Nat : d = Fisica(t, dir)
    BY <1>3, <2>1, <2>2, TraduceEs
  <2>4. PICK fr : fr = Fragmentar(c, d, i.tam)
    OBVIOUS
  <2>5. /\ fr \in Fragmentos /\ \A f \in Range(fr) : Cabe(f, d, i.tam)
        /\ ConSigno(i.tam) <= 0 => fr = <<>>
        /\ ConSigno(i.tam) > 0 =>
             fr # <<>> /\ \A j \in 0 .. i.tam - 1 :
               \E f \in Range(fr) : j \in f.offset .. f.offset + f.tam - 1
    BY <1>3, <2>1, <2>3, <2>4, FragmentarEs DEF Listo
  <2>6. r = [cpu[c] EXCEPT !.fase = fase, !.ins = i, !.buf = buf, !.frags = fr]
    BY <1>1, <1>3, <2>3, <2>4 DEF Acceso
  <2>7. cpu[c] \in Registro /\ fase \in Fases /\ buf \in Seq(Nat)
    BY <2>1, Bufer DEF Listo, EsCiclo, Fases
  <2>8. /\ r \in Registro /\ r.fase = fase /\ r.ins = i /\ r.buf = buf /\ r.frags = fr
        /\ r.pid = cpu[c].pid /\ r.pc = cpu[c].pc /\ r.tabla = t
    <3>1. PICK k \in Registro : k = cpu[c]
      BY <2>7
    <3>2. i \in Privada!Ordenes \cup {Ninguna} /\ r = ConAcceso(k, fase, i, buf, fr)
      BY <2>6, <3>1 DEF ConAcceso
    <3>3. /\ r \in Registro /\ r.fase = fase /\ r.ins = i /\ r.buf = buf /\ r.frags = fr
          /\ r.pid = k.pid /\ r.pc = k.pc /\ r.tabla = k.tabla
      BY <2>5, <2>7, <3>2, PoneAcceso
    <3> QED BY <1>1, <3>1, <3>3
  <2>9. Desde(r) = dir /\ Fisica(r.tabla, Desde(r)) = d
    BY <2>3, <2>8 DEF Desde
  <2>10. EnCurso(r)
    <3>1. /\ r.ins \in Privada!Ordenes
          /\ r.ins.op # IF r.fase = "lee" THEN "MOV_OUT" ELSE "MOV_IN"
          /\ Traduce(r.tabla, Desde(r), r.ins.tam)
          /\ r.ins.op = "COPY_MEM" => Traduce(r.tabla, r.ins.destino, r.ins.tam)
      BY <1>1, <1>3, <2>8, <2>9
    <3>2. /\ r.frags # <<>> => ConSigno(r.ins.tam) > 0
          /\ r.fase = "escribe" \/ r.ins.op = "MOV_IN" => r.frags # <<>>
      BY <2>1, <2>5, <2>8
    <3>3. /\ r.buf \in [1 .. ConSigno(r.ins.tam) -> Nat]
          /\ \A f \in Range(r.frags) : Cabe(f, Fisica(r.tabla, Desde(r)), r.ins.tam)
      BY <2>5, <2>8, <2>9
    <3> QED BY <3>1, <3>2, <3>3 DEF EnCurso
  <2>11. EsCiclo(r)
    BY <2>8, <2>10 DEF EsCiclo
  <2>12. ConSigno(i.tam) > 0 => Empezado(r)
    BY <2>5, <2>8 DEF Empezado, Pendiente
  <2> QED BY <1>1, <2>8, <2>11, <2>12
<1> QED BY <1>2, <1>3

\* A step of the instruction cycle that does not give the process back.
Avanza(c, k) ==
  /\ cpu' = [cpu EXCEPT ![c] = k] /\ EsCiclo(k) /\ k.pid = cpu[c].pid
  /\ k.fase \in Activas \cup {"fallo"} /\ (k.fase # "fallo" => k.tabla = cpu[c].tabla)
  /\ UNCHANGED <<pedidos, estado>> /\ SoloCPU

\* What an access leaves in course: a fault, or all its bytes still to read or to write.
Intenta(c, k, i, fase, buf) ==
  \/ k.fase = "fallo" /\ k.ins = Ninguna
  \/ /\ k.fase = fase /\ k.ins = i /\ k.buf = buf
     /\ ConSigno(i.tam) > 0 => Empezado(k)

LEMMA EjecutarEs ==
  ASSUME Formas, Listas, Mapa, Tablas, Tipos, NEW c, Listo(c),
         NEW i \in Privada!Ordenes, NEW fase \in {"lee", "escribe"},
         NEW buf \in [1 .. ConSigno(i.tam) -> Nat],
         i.op # IF fase = "lee" THEN "MOV_OUT" ELSE "MOV_IN",
         fase = "escribe" \/ i.op = "MOV_IN" => ConSigno(i.tam) > 0,
         NEW r, Ejecutar(c, r),
         \/ r = Fallo(cpu[c])
         \/ /\ r = Acceso(c, i, fase, IF fase = "lee" THEN i.origen ELSE i.destino, buf)
            /\ i.op = "COPY_MEM" => Traduce(cpu[c].tabla, i.destino, i.tam)
  PROVE  /\ cpu[c].fase \in {"busca", "revisa"} /\ UNCHANGED <<memoria, leido, pcGuardado>>
         /\ avance' \in [Procesos -> Nat]
         /\ \E k : Avanza(c, k) /\ Intenta(c, k, i, fase, buf)
<1>1. PICK dir \in Nat : dir = IF fase = "lee" THEN i.origen ELSE i.destino
  BY OrdenEs
<1>2. \/ r = Fallo(cpu[c])
      \/ /\ EsCiclo(r) /\ r.fase = fase /\ r.ins = i /\ r.buf = buf /\ r.pid = cpu[c].pid
         /\ r.pc = cpu[c].pc /\ r.tabla = cpu[c].tabla
         /\ ConSigno(i.tam) > 0 => Empezado(r)
  <2>1. CASE r = Fallo(cpu[c]) BY <2>1
  <2>2. CASE r = Acceso(c, i, fase, dir, buf) /\ (i.op = "COPY_MEM" => Traduce(cpu[c].tabla, i.destino, i.tam))
    BY <1>1, <2>2, AccesoEs
  <2> QED BY <1>1, <2>1, <2>2
<1>3. cpu[c] \in Registro
  BY DEF Listo, EsCiclo
<1>4. r = Fallo(cpu[c]) => EsCiclo(r) /\ r.fase = "fallo" /\ r.pid = cpu[c].pid
  BY <1>3, FalloEs
<1>5. EsCiclo(r) /\ r.pid = cpu[c].pid /\ r.fase \in {fase, "fallo"} /\ (r.fase # "fallo" => r.tabla = cpu[c].tabla)
  BY <1>2, <1>4
<1>6. PICK k : k = [r EXCEPT !.pc = @ + 1]
  OBVIOUS
<1>7. /\ EsCiclo(k) /\ k.fase = r.fase /\ k.pid = r.pid /\ k.tabla = r.tabla
      /\ k.ins = r.ins /\ k.frags = r.frags /\ k.buf = r.buf
  BY <1>5, <1>6, SumaPc
<1>8. Avanza(c, k)
  BY <1>5, <1>6, <1>7 DEF Avanza, Ejecutar, Activas
<1>9. Intenta(c, k, i, fase, buf)
  <2>1. CASE r = Fallo(cpu[c])
    <3>1. r.fase = "fallo" /\ r.ins = Ninguna
      BY <1>4, <2>1 DEF EsCiclo
    <3> QED BY <1>7, <3>1 DEF Intenta
  <2>2. CASE r.fase = fase /\ r.ins = i /\ r.buf = buf /\ (ConSigno(i.tam) > 0 => Empezado(r))
    BY <1>7, <2>2 DEF Intenta, Empezado, Pendiente
  <2> QED BY <1>2, <2>1, <2>2
<1>10. avance' \in [Procesos -> Nat]
  BY DEF Ejecutar, Tipos, Listo
<1> QED BY <1>8, <1>9, <1>10 DEF Ejecutar, SoloCPU, kmCPU

LEMMA InsEs ==
  ASSUME NEW op \in {"MOV_IN", "MOV_OUT", "COPY_MEM"}, NEW o \in Direcciones \cup {0},
         NEW d \in Direcciones \cup {0}, NEW n \in Registros \cup Copias,
         NEW i, i = Ins(op, o, d, n)
  PROVE  i \in Privada!Ordenes /\ i.op = op /\ i.origen = o /\ i.destino = d /\ i.tam = n
  BY DEF Ins, Privada!Ordenes

\* What MOV_IN, MOV_OUT and COPY_MEM leave of the rest of the state.
SoloEmpieza(c) == /\ cpu[c].fase \in {"busca", "revisa"}
                  /\ UNCHANGED <<memoria, leido, pcGuardado>> /\ avance' \in [Procesos -> Nat]

LEMMA MovInEs ==
  ASSUME Formas, Listas, Mapa, Tablas, Tipos, NEW c, Listo(c),
         NEW d \in Direcciones, NEW n \in Registros, MovIn(c, d, n)
  PROVE  SoloEmpieza(c) /\ \E k : /\ Avanza(c, k)
                                  /\ Intenta(c, k, Ins("MOV_IN", d, 0, n), "lee", Ceros(n))
<1>1. PICK i : i = Ins("MOV_IN", d, 0, n)
  OBVIOUS
<1>2. i \in Privada!Ordenes /\ i.op = "MOV_IN" /\ i.origen = d /\ i.tam = n
  BY <1>1, InsEs
<1>3. ConSigno(n) = n /\ n \in Nat /\ n > 0
  BY Tamanios
<1>4. Ceros(n) \in [1 .. ConSigno(i.tam) -> Nat]
  BY <1>2, <1>3 DEF Ceros
<1>5. PICK r : r = Acceso(c, i, "lee", d, Ceros(n)) /\ Ejecutar(c, r)
  BY <1>1 DEF MovIn
<1> QED BY <1>1, <1>2, <1>3, <1>4, <1>5, EjecutarEs DEF SoloEmpieza

LEMMA MovOutEs ==
  ASSUME Formas, Listas, Mapa, Tablas, Tipos, NEW c, Listo(c),
         NEW d \in Direcciones, NEW n \in Registros, MovOut(c, d, n)
  PROVE  SoloEmpieza(c) /\ \E k : /\ Avanza(c, k)
                                  /\ Intenta(c, k, Ins("MOV_OUT", 0, d, n), "escribe",
                                             SubSeq(Valor[cpu[c].pid], 1, n))
<1>1. PICK i : i = Ins("MOV_OUT", 0, d, n)
  OBVIOUS
<1>2. i \in Privada!Ordenes /\ i.op = "MOV_OUT" /\ i.destino = d /\ i.tam = n
  BY <1>1, InsEs
<1>3. ConSigno(n) = n /\ n \in Nat /\ n > 0
  BY Tamanios
<1>4. PICK v : v = Valor[cpu[c].pid]
  OBVIOUS
<1>5. v \in Seq(Nat) /\ n <= Len(v) /\ Len(v) \in Nat
  BY <1>4, AccesoMemoriaAssumption DEF AccesoMemoriaAssumption, Listo
<1>6. SubSeq(v, 1, n) \in [1 .. ConSigno(i.tam) -> Nat]
  <2>1. SubSeq(v, 1, n) = [j \in 1 .. n |-> v[j]]
    BY <1>3, <1>5
  <2>2. \A j \in 1 .. n : v[j] \in Nat
    BY <1>3, <1>5
  <2> QED BY <1>2, <1>3, <2>1, <2>2
<1>7. PICK r : r = Acceso(c, i, "escribe", d, SubSeq(v, 1, n)) /\ Ejecutar(c, r)
  BY <1>1, <1>4 DEF MovOut
<1> QED BY <1>1, <1>2, <1>3, <1>4, <1>6, <1>7, EjecutarEs DEF SoloEmpieza

LEMMA CopyMemEs ==
  ASSUME Formas, Listas, Mapa, Tablas, Tipos, NEW c, Listo(c),
         NEW o \in Direcciones, NEW d \in Direcciones, NEW n \in Copias, CopyMem(c, o, d, n)
  PROVE  SoloEmpieza(c) /\ \E k : /\ Avanza(c, k)
                                  /\ Intenta(c, k, Ins("COPY_MEM", o, d, n), "lee",
                                             Ceros(ConSigno(n)))
<1>1. PICK i : i = Ins("COPY_MEM", o, d, n)
  OBVIOUS
<1>2. /\ i \in Privada!Ordenes /\ i.op = "COPY_MEM" /\ i.origen = o /\ i.destino = d
      /\ i.tam = n
  BY <1>1, InsEs
<1>3. ConSigno(n) \in Int
  BY Tamanios, Enteros
<1>4. PICK m : m = ConSigno(n)
  OBVIOUS
<1>5. Ceros(m) \in [1 .. ConSigno(i.tam) -> Nat]
  BY <1>2, <1>3, <1>4 DEF Ceros
<1>6. PICK r : /\ r = IF Traduce(cpu[c].tabla, d, n) THEN Acceso(c, i, "lee", o, Ceros(m))
                                                     ELSE Fallo(cpu[c])
               /\ Ejecutar(c, r)
  BY <1>1, <1>4 DEF CopyMem
<1> QED BY <1>1, <1>2, <1>4, <1>5, <1>6, EjecutarEs DEF SoloEmpieza

LEMMA Siguientes ==
  ASSUME NEW s \in Fragmentos, s # <<>>
  PROVE  /\ Tail(s) \in Fragmentos /\ Head(s) \in Range(s)
         /\ Range(s) = {Head(s)} \cup Range(Tail(s))
         /\ Head(s) \in [ms : Sticks, dir : Nat, tam : Nat \ {0}, offset : Nat]
<1>1. EsSecuencia(s)
  BY DEF Fragmentos, EsSecuencia, Range
<1>2. PICK X : X = [ms : Sticks, dir : Nat, tam : Nat \ {0}, offset : Nat]
  OBVIOUS
<1>3. Fragmentos = Seq(X)
  BY <1>2 DEF Fragmentos
<1>4. Tail(s) \in Seq(X) /\ Head(s) \in X
  BY <1>3
<1> QED BY <1>1, <1>2, <1>3, <1>4, Quitar

\* The piece of an access in course that comes next.
LEMMA FragmentoEs ==
  ASSUME Mapa, NEW k, EsCiclo(k), k.frags # <<>>, NEW f, f = Head(k.frags)
  PROVE  /\ k.fase \in {"lee", "escribe"} /\ EnCurso(k) /\ f \in Range(k.frags)
         /\ f.ms \in Sticks /\ f.dir \in Nat /\ f.tam \in Nat \ {0} /\ f.offset \in Nat
         /\ DentroDe(f) /\ f.dir + f.tam <= Tamano[f.ms] /\ f.offset + f.tam <= k.ins.tam
         /\ k.ins.tam = ConSigno(k.ins.tam) /\ k.ins.tam \in Nat
         /\ k.buf \in [1 .. k.ins.tam -> Nat] /\ DOMAIN k.buf = 1 .. k.ins.tam
<1>1. k \in Registro /\ k.fase \in {"lee", "escribe"} /\ EnCurso(k)
  BY DEF EsCiclo
<1>2. k.frags \in Fragmentos
  BY <1>1 DEF Registro
<1>3. f \in Range(k.frags) /\ f \in [ms : Sticks, dir : Nat, tam : Nat \ {0}, offset : Nat]
  BY <1>2, Siguientes
<1>4. f.ms \in Sticks /\ f.dir \in Nat /\ f.tam \in Nat \ {0} /\ f.offset \in Nat
  BY <1>3
<1>5. f.dir + f.tam <= Tamano[f.ms] /\ f.offset + f.tam <= k.ins.tam
  BY <1>1, <1>3 DEF EnCurso, Cabe
<1>6. k.ins \in Privada!Ordenes /\ ConSigno(k.ins.tam) > 0 /\ k.buf \in [1 .. ConSigno(k.ins.tam) -> Nat]
  BY <1>1 DEF EnCurso
<1>7. k.ins.tam \in Nat /\ ConSigno(k.ins.tam) = k.ins.tam
  BY <1>6, OrdenEs, Tamanios, Enteros
<1>8. DentroDe(f)
  <2>1. PICK m \in Nat : m = f.dir + f.tam
    BY <1>4
  <2>2. Modulo \in Nat \ {0} /\ Tamano[f.ms] \in Nat
    BY <1>4, Constantes
  <2>3. m % Modulo <= m /\ m % Modulo \in Nat
    BY <2>2
  <2> QED BY <1>5, <2>1, <2>2, <2>3 DEF DentroDe, Uint
<1> QED BY <1>1, <1>3, <1>4, <1>5, <1>6, <1>7, <1>8

LEMMA LeidoEs ==
  ASSUME Mapa, Tipos, NEW c \in CPUs, EsCiclo(cpu[c]), cpu[c].frags # <<>>,
         NEW f, f = Head(cpu[c].frags), NEW b, b = Leido(c, f)
  PROVE  /\ b \in [1 .. cpu[c].ins.tam -> Nat]
         /\ \A j \in 0 .. cpu[c].ins.tam - 1 :
              IF j \in f.offset .. f.offset + f.tam - 1
              THEN cpu[c].ins.op = "MOV_IN" => b[j + 1] = memoria[f.ms][f.dir + (j - f.offset)]
              ELSE b[j + 1] = cpu[c].buf[j + 1]
<1>1. /\ f.ms \in Sticks /\ f.dir \in Nat /\ f.tam \in Nat \ {0} /\ f.offset \in Nat
      /\ DentroDe(f) /\ f.dir + f.tam <= Tamano[f.ms] /\ f.offset + f.tam <= cpu[c].ins.tam
      /\ cpu[c].ins.tam \in Nat
      /\ cpu[c].buf \in [1 .. cpu[c].ins.tam -> Nat] /\ DOMAIN cpu[c].buf = 1 .. cpu[c].ins.tam
  BY FragmentoEs
<1>2. PICK o \in Nat, t \in Nat \ {0}, d \in Nat, n \in Nat :
        o = f.offset /\ t = f.tam /\ d = f.dir /\ n = cpu[c].ins.tam
  BY <1>1
<1>3. PICK mem \in [0 .. Tamano[f.ms] - 1 -> Nat] : mem = memoria[f.ms]
  BY <1>1 DEF Tipos
<1>4. d + t <= Tamano[f.ms] /\ Tamano[f.ms] \in Nat
  BY <1>1, <1>2, Constantes
<1>5. PICK R : R = Respuesta(c, f)
  OBVIOUS
<1>6. \A i \in 1 .. t : R[i] \in Nat /\ (cpu[c].ins.op = "MOV_IN" => R[i] = mem[d + i - 1])
  <2> TAKE i \in 1 .. t
  <2>1. d + i - 1 \in 0 .. Tamano[f.ms] - 1
    BY <1>4
  <2>2. mem[d + i - 1] \in Nat
    BY <2>1
  <2>3. CASE cpu[c].ins.op = "COPY_MEM"
    <3>1. R = [x \in 1 .. t |-> IF x = 1 THEN t ELSE 0]
      BY <1>2, <1>5, <2>3 DEF Respuesta
    <3> QED BY <2>3, <3>1
  <2>4. CASE cpu[c].ins.op # "COPY_MEM"
    <3>1. R = [x \in 1 .. t |-> mem[d + x - 1]]
      BY <1>2, <1>3, <1>5, <2>4 DEF Respuesta
    <3> QED BY <2>2, <3>1
  <2> QED BY <2>3, <2>4
<1>7. b = [i \in 1 .. n |-> IF i \in o + 1 .. o + t THEN R[i - o] ELSE cpu[c].buf[i]]
  BY <1>1, <1>2, <1>5 DEF Leido
<1>8. \A i \in 1 .. n : b[i] \in Nat
  <2> TAKE i \in 1 .. n
  <2>1. CASE i \in o + 1 .. o + t
    <3>1. i - o \in 1 .. t
      BY <2>1
    <3> QED BY <1>6, <1>7, <2>1, <3>1
  <2>2. CASE i \notin o + 1 .. o + t BY <1>1, <1>2, <1>7, <2>2
  <2> QED BY <2>1, <2>2
<1>9. b \in [1 .. n -> Nat]
  BY <1>7, <1>8
<1>10. ASSUME NEW j \in 0 .. n - 1
       PROVE  IF j \in o .. o + t - 1
              THEN cpu[c].ins.op = "MOV_IN" => b[j + 1] = mem[d + (j - o)]
              ELSE b[j + 1] = cpu[c].buf[j + 1]
  <2>1. j + 1 \in 1 .. n
    BY <1>10
  <2>2. CASE j \in o .. o + t - 1
    <3>1. j + 1 \in o + 1 .. o + t /\ (j + 1) - o \in 1 .. t /\ d + ((j + 1) - o) - 1 = d + (j - o)
      BY <2>2
    <3>2. b[j + 1] = R[(j + 1) - o]
      BY <1>7, <2>1, <3>1
    <3>3. cpu[c].ins.op = "MOV_IN" => R[(j + 1) - o] = mem[d + ((j + 1) - o) - 1]
      BY <1>6, <3>1
    <3> QED BY <2>2, <3>1, <3>2, <3>3
  <2>3. CASE j \notin o .. o + t - 1
    <3>1. j + 1 \notin o + 1 .. o + t
      BY <1>10, <2>3
    <3> QED BY <1>7, <2>1, <2>3, <3>1
  <2> QED BY <2>2, <2>3
<1> QED BY <1>2, <1>3, <1>9, <1>10

\* An access goes on with the pieces s, which were the rest of those it had.
LEMMA EnCursoSigue ==
  ASSUME NEW k, EnCurso(k), NEW r, r.fase = k.fase, r.ins = k.ins, r.tabla = k.tabla,
         Range(r.frags) \subseteq Range(k.frags), k.frags # <<>>,
         r.buf \in [1 .. ConSigno(k.ins.tam) -> Nat],
         k.fase = "escribe" \/ k.ins.op = "MOV_IN" => r.frags # <<>>
  PROVE  EnCurso(r)
<1>1. Desde(r) = Desde(k)
  BY DEF Desde
<1> QED BY <1>1 DEF EnCurso

\* c reads the piece f: b is what it has then, and s the pieces left.
Lee(c, k, f, b, s) ==
  /\ cpu[c].fase = "lee" /\ cpu[c].frags # <<>> /\ f = Head(cpu[c].frags)
  /\ b = Leido(c, f) /\ s = Tail(cpu[c].frags) /\ b \in [1 .. cpu[c].ins.tam -> Nat]
  /\ \/ /\ k.fase = "lee" /\ k.ins = cpu[c].ins /\ k.buf = b /\ k.frags = s
        /\ leido' = leido
     \/ /\ cpu[c].ins.op = "MOV_IN" /\ s = <<>> /\ k.fase = "revisa" /\ k.ins = Ninguna
        /\ leido' = [leido EXCEPT ![cpu[c].pid] = b]

LEMMA LeerEs ==
  ASSUME Formas, Mapa, Tablas, Tipos, NEW c, Listo(c), LeerFragmento(c)
  PROVE  /\ UNCHANGED <<memoria, avance, pcGuardado>>
         /\ leido' = [p \in Procesos |-> leido'[p]]
         /\ \E k, f, b, s : Avanza(c, k) /\ Lee(c, k, f, b, s)
<1>1. PICK q : q = cpu[c]
  OBVIOUS
<1>2. EsCiclo(q) /\ q.fase = "lee" /\ q.frags # <<>> /\ q.pid \in Procesos /\ q \in Registro
  BY <1>1 DEF Listo, LeerFragmento, EsCiclo
<1>3. PICK f, s : f = Head(q.frags) /\ s = Tail(q.frags)
  OBVIOUS
<1>4. PICK b : b = Leido(c, f)
  OBVIOUS
<1>5. /\ EnCurso(q) /\ q.ins.tam = ConSigno(q.ins.tam) /\ q.ins.tam \in Nat
  BY <1>2, <1>3, FragmentoEs
<1>6. b \in [1 .. q.ins.tam -> Nat]
  <2>1. c \in CPUs /\ EsCiclo(cpu[c]) /\ cpu[c].frags # <<>> /\ f = Head(cpu[c].frags)
    BY <1>1, <1>2, <1>3 DEF Listo
  <2> QED BY <1>1, <1>4, <2>1, LeidoEs
<1>7. s \in Fragmentos /\ Range(s) \subseteq Range(q.frags)
  <2>1. q.frags \in Fragmentos
    BY <1>2 DEF Registro
  <2> QED BY <1>2, <1>3, <2>1, Siguientes
<1>8. PICK k1 : k1 = [q EXCEPT !.buf = b]
  OBVIOUS
<1>9. /\ k1 \in Registro /\ k1.buf = b /\ k1.fase = "lee" /\ k1.ins = q.ins /\ k1.frags = q.frags
      /\ k1.pid = q.pid /\ k1.pc = q.pc /\ k1.tabla = q.tabla
  <2>1. b \in Seq(Nat)
    BY <1>5, <1>6, Bufer
  <2> QED BY <1>2, <1>8, <2>1, PoneMemoria
<1>10. PICK k : k = IF q.ins.op = "MOV_IN" THEN Seguir(k1, s) ELSE [k1 EXCEPT !.frags = s]
  OBVIOUS
<1>11. /\ cpu' = [cpu EXCEPT ![c] = k]
       /\ leido' = [leido EXCEPT ![q.pid] = IF q.ins.op = "MOV_IN" /\ s = <<>> THEN b ELSE @]
       /\ UNCHANGED <<pedidos, memoria, estado, avance>> /\ SoloCPU
  <2>1. k1.ins = q.ins /\ Tail(k1.frags) = s /\ k1.pid = q.pid /\ k1.buf = b
    BY <1>3, <1>9
  <2> QED BY <1>1, <1>3, <1>4, <1>8, <1>10, <2>1 DEF LeerFragmento
<1>12. CASE q.ins.op = "MOV_IN" /\ s = <<>>
  <2>1. k = Seguir(k1, s)
    BY <1>10, <1>12
  <2>2. /\ k \in Registro /\ k.pid = q.pid /\ k.fase = "revisa" /\ k.ins = Ninguna /\ k.frags = <<>>
        /\ k.tabla = q.tabla
    BY <1>7, <1>9, <1>12, <2>1, SeguirEs
  <2>3. Avanza(c, k)
    BY <1>1, <1>11, <2>2 DEF Avanza, EsCiclo, Activas
  <2>4. leido' = [leido EXCEPT ![q.pid] = b]
    BY <1>11, <1>12
  <2>5. Lee(c, k, f, b, s)
    BY <1>1, <1>2, <1>3, <1>4, <1>6, <1>12, <2>2, <2>4 DEF Lee
  <2> QED BY <1>11, <2>3, <2>4, <2>5 DEF Tipos, SoloCPU, kmCPU
<1>13. CASE ~(q.ins.op = "MOV_IN" /\ s = <<>>)
  <2>1. /\ k \in Registro /\ k.pid = q.pid /\ k.fase = "lee" /\ k.ins = q.ins /\ k.buf = b
        /\ k.frags = s /\ k.tabla = q.tabla
    <3>1. CASE q.ins.op = "MOV_IN"
      <4>1. k = Seguir(k1, s)
        BY <1>10, <3>1
      <4> QED BY <1>7, <1>9, <1>13, <3>1, <4>1, SeguirEs
    <3>2. CASE q.ins.op # "MOV_IN"
      <4>1. k = [k1 EXCEPT !.frags = s]
        BY <1>10, <3>2
      <4> QED BY <1>7, <1>9, <4>1, PoneFragmentos
    <3> QED BY <3>1, <3>2
  <2>2. EnCurso(k)
    <3>1. k.buf \in [1 .. ConSigno(q.ins.tam) -> Nat]
      BY <1>5, <1>6, <2>1
    <3>2. Range(k.frags) \subseteq Range(q.frags) /\ q.fase # "escribe"
      BY <1>2, <1>7, <2>1
    <3>3. k.fase = q.fase
      BY <1>2, <2>1
    <3> QED BY <1>2, <1>5, <1>13, <2>1, <3>1, <3>2, <3>3, EnCursoSigue
  <2>3. Avanza(c, k)
    BY <1>1, <1>11, <2>1, <2>2 DEF Avanza, EsCiclo, Activas
  <2>4. leido' = leido
    BY <1>11, <1>13 DEF Tipos
  <2>5. Lee(c, k, f, b, s)
    BY <1>1, <1>2, <1>3, <1>4, <1>6, <1>13, <2>1, <2>4 DEF Lee
  <2> QED BY <1>11, <2>3, <2>4, <2>5 DEF Tipos, SoloCPU, kmCPU
<1> QED BY <1>12, <1>13

\* COPY_MEM has read: it fails, ends, or has all its bytes to write.
Copia(c, k) ==
  /\ cpu[c].fase = "lee" /\ cpu[c].frags = <<>> /\ cpu[c].ins.op = "COPY_MEM"
  /\ \/ k.fase \in {"fallo", "revisa"} /\ k.ins = Ninguna
     \/ /\ k.fase = "escribe" /\ k.ins = cpu[c].ins /\ k.buf = cpu[c].buf
        /\ k.frags # <<>> /\ Empezado(k)

LEMMA CopiarEs ==
  ASSUME Formas, Listas, Mapa, Tablas, Tipos, NEW c, Listo(c), EmpezarCopia(c)
  PROVE  /\ UNCHANGED <<memoria, leido, avance, pcGuardado>>
         /\ \E k : Avanza(c, k) /\ Copia(c, k)
<1>1. PICK q : q = cpu[c]
  OBVIOUS
<1>2. EsCiclo(q) /\ q.fase = "lee" /\ q.frags = <<>> /\ q \in Registro /\ EnCurso(q)
  BY <1>1 DEF Listo, EmpezarCopia, EsCiclo
<1>3. /\ q.ins \in Privada!Ordenes /\ q.ins.op = "COPY_MEM"
      /\ q.buf \in [1 .. ConSigno(q.ins.tam) -> Nat]
      /\ Traduce(q.tabla, q.ins.destino, q.ins.tam)
  BY <1>2, OrdenEs DEF EnCurso
<1>4. /\ q.ins.tam \in Nat /\ q.ins.tam < Modulo /\ ConSigno(q.ins.tam) \in Int
      /\ q.ins.destino \in Nat
  BY <1>3, OrdenEs, Tamanios, Enteros
<1>5. PICK d \in Nat : d = Fisica(q.tabla, q.ins.destino)
  <2>1. q.tabla \in SUBSET Segs /\ \A g, h \in q.tabla : g.id = h.id => g = h
    BY <1>1, ListoTabla
  <2> QED BY <1>3, <1>4, <2>1, TraduceEs
<1>6. PICK fr : fr = Fragmentar(c, d, q.ins.tam)
  OBVIOUS
<1>7. PICK k1 : k1 = [q EXCEPT !.fase = "escribe"]
  OBVIOUS
<1>8. PICK k : k = IF Cubierto(c, d, q.ins.tam) THEN Seguir(k1, fr) ELSE Fallo(q)
  OBVIOUS
<1>9. /\ cpu' = [cpu EXCEPT ![c] = k] /\ UNCHANGED <<pedidos, memoria, proceso>> /\ SoloCPU
  BY <1>1, <1>5, <1>6, <1>7, <1>8 DEF EmpezarCopia
<1>10. UNCHANGED <<memoria, leido, avance, pcGuardado, estado, pedidos>>
  BY <1>9 DEF SoloCPU, kmCPU, proceso
<1>11. CASE ~Cubierto(c, d, q.ins.tam)
  <2>1. EsCiclo(k) /\ k.fase = "fallo" /\ k.pid = q.pid
    BY <1>2, <1>8, <1>11, FalloEs
  <2>2. k.ins = Ninguna
    BY <2>1 DEF EsCiclo
  <2> QED BY <1>1, <1>2, <1>3, <1>9, <1>10, <2>1, <2>2 DEF Avanza, Copia
<1>12. CASE Cubierto(c, d, q.ins.tam)
  <2>1. /\ k1 \in Registro /\ k1.fase = "escribe" /\ k1.ins = q.ins /\ k1.buf = q.buf
        /\ k1.pid = q.pid /\ k1.tabla = q.tabla
    BY <1>2, <1>7, PoneEscribe
  <2>2. /\ fr \in Fragmentos /\ \A f \in Range(fr) : Cabe(f, d, q.ins.tam)
        /\ ConSigno(q.ins.tam) <= 0 => fr = <<>>
        /\ ConSigno(q.ins.tam) > 0 =>
             fr # <<>> /\ \A j \in 0 .. q.ins.tam - 1 :
               \E f \in Range(fr) : j \in f.offset .. f.offset + f.tam - 1
    <3>1. c \in CPUs /\ Sabe(c)
      BY DEF Listo
    <3> QED BY <1>4, <1>5, <1>6, <1>12, <3>1, FragmentarEs
  <2>3. k = Seguir(k1, fr)
    BY <1>8, <1>12
  <2>4. /\ k \in Registro /\ k.pid = q.pid /\ k.tabla = q.tabla
        /\ IF fr # <<>> THEN k.fase = "escribe" /\ k.ins = q.ins /\ k.buf = q.buf /\ k.frags = fr
           ELSE k.fase = "revisa" /\ k.ins = Ninguna /\ k.frags = <<>>
    BY <2>1, <2>2, <2>3, SeguirEs
  <2>5. CASE fr = <<>>
    <3>1. EsCiclo(k)
      BY <2>4, <2>5 DEF EsCiclo
    <3> QED BY <1>1, <1>2, <1>3, <1>9, <1>10, <2>4, <2>5, <3>1 DEF Avanza, Copia, Activas
  <2>6. CASE fr # <<>>
    <3>1. Desde(k) = q.ins.destino /\ Fisica(k.tabla, Desde(k)) = d
      BY <1>5, <2>4, <2>6 DEF Desde
    <3>2. EnCurso(k)
      <4>1. ConSigno(q.ins.tam) > 0
        BY <1>4, <2>2, <2>6
      <4>2. /\ k.ins \in Privada!Ordenes
            /\ k.ins.op # IF k.fase = "lee" THEN "MOV_OUT" ELSE "MOV_IN"
            /\ Traduce(k.tabla, Desde(k), k.ins.tam)
            /\ k.ins.op = "COPY_MEM" => Traduce(k.tabla, k.ins.destino, k.ins.tam)
        BY <1>3, <2>4, <2>6, <3>1
      <4>3. /\ k.frags # <<>> => ConSigno(k.ins.tam) > 0
            /\ k.fase = "escribe" \/ k.ins.op = "MOV_IN" => k.frags # <<>>
            /\ k.buf \in [1 .. ConSigno(k.ins.tam) -> Nat]
        BY <1>3, <2>4, <2>6, <4>1
      <4>4. \A f \in Range(k.frags) : Cabe(f, Fisica(k.tabla, Desde(k)), k.ins.tam)
        BY <2>2, <2>4, <2>6, <3>1
      <4> QED BY <4>2, <4>3, <4>4 DEF EnCurso
    <3>3. EsCiclo(k)
      BY <2>4, <2>6, <3>2 DEF EsCiclo
    <3>4. Empezado(k)
      <4>1. ConSigno(q.ins.tam) > 0
        BY <1>4, <2>2, <2>6
      <4> QED BY <2>2, <2>4, <2>6, <4>1 DEF Empezado, Pendiente
    <3>5. Copia(c, k)
      BY <1>1, <1>2, <1>3, <2>4, <2>6, <3>4 DEF Copia
    <3>6. Avanza(c, k)
      BY <1>1, <1>9, <1>10, <2>4, <2>6, <3>3 DEF Avanza, Activas
    <3> QED BY <1>10, <3>5, <3>6
  <2> QED BY <2>5, <2>6
<1> QED BY <1>11, <1>12

\* c writes the piece f.
Escribe(c, k, f) ==
  /\ cpu[c].fase = "escribe" /\ cpu[c].frags # <<>> /\ f = Head(cpu[c].frags)
  /\ memoria' = [memoria EXCEPT ![f.ms] =
       [d \in 0 .. Tamano[f.ms] - 1 |->
          IF d \in f.dir .. f.dir + f.tam - 1 THEN cpu[c].buf[f.offset + d - f.dir + 1]
                                              ELSE memoria[f.ms][d]]]
  /\ \/ /\ k.fase = "escribe" /\ k.ins = cpu[c].ins /\ k.buf = cpu[c].buf
        /\ k.frags = Tail(cpu[c].frags)
     \/ Tail(cpu[c].frags) = <<>> /\ k.fase = "revisa" /\ k.ins = Ninguna

LEMMA EscribirEs ==
  ASSUME Formas, Mapa, Tablas, Tipos, NEW c, Listo(c), EscribirFragmento(c)
  PROVE  /\ UNCHANGED <<leido, avance, pcGuardado>>
         /\ memoria' = [s \in Sticks |-> memoria'[s]]
         /\ \A s \in Sticks : memoria'[s] \in [0 .. Tamano[s] - 1 -> Nat]
         /\ \E k, f : Avanza(c, k) /\ Escribe(c, k, f)
<1>1. PICK q : q = cpu[c]
  OBVIOUS
<1>2. EsCiclo(q) /\ q.fase = "escribe" /\ q.pid \in Procesos /\ q \in Registro /\ EnCurso(q)
  BY <1>1 DEF Listo, EscribirFragmento, EsCiclo
<1>3. q.frags # <<>> /\ q.frags \in Fragmentos
  BY <1>2 DEF EnCurso, Registro
<1>4. PICK f, s : f = Head(q.frags) /\ s = Tail(q.frags)
  OBVIOUS
<1>5. /\ f.ms \in Sticks /\ f.dir \in Nat /\ f.tam \in Nat \ {0} /\ f.offset \in Nat
      /\ DentroDe(f) /\ f.dir + f.tam <= Tamano[f.ms] /\ f.offset + f.tam <= q.ins.tam
      /\ q.ins.tam = ConSigno(q.ins.tam) /\ q.ins.tam \in Nat
      /\ q.buf \in [1 .. q.ins.tam -> Nat] /\ DOMAIN q.buf = 1 .. q.ins.tam
  BY <1>2, <1>3, <1>4, FragmentoEs
<1>6. s \in Fragmentos /\ Range(s) \subseteq Range(q.frags)
  BY <1>3, <1>4, Siguientes
<1>7. PICK k : k = Seguir(q, s)
  OBVIOUS
<1>8. PICK mem : mem = [d \in 0 .. Tamano[f.ms] - 1 |->
         IF d \in f.dir .. f.dir + f.tam - 1 THEN q.buf[f.offset + d - f.dir + 1]
                                             ELSE memoria[f.ms][d]]
  OBVIOUS
<1>9. /\ cpu' = [cpu EXCEPT ![c] = k] /\ memoria' = [memoria EXCEPT ![f.ms] = mem]
      /\ UNCHANGED <<pedidos, estado, leido, avance>> /\ SoloCPU
  <2>1. DOMAIN memoria[f.ms] = 0 .. Tamano[f.ms] - 1
    BY <1>5 DEF Tipos
  <2> QED BY <1>1, <1>4, <1>5, <1>7, <1>8, <2>1 DEF EscribirFragmento, proceso
<1>10. mem \in [0 .. Tamano[f.ms] - 1 -> Nat]
  <2>1. PICK fd \in Nat, ft \in Nat, fo \in Nat, n \in Nat :
          fd = f.dir /\ ft = f.tam /\ fo = f.offset /\ n = q.ins.tam
    BY <1>5
  <2>2. \A d \in fd .. fd + ft - 1 : fo + d - fd + 1 \in 1 .. n
    <3>1. fo + ft <= n
      BY <1>5, <2>1
    <3> QED BY ONLY <3>1, fd \in Nat, ft \in Nat, fo \in Nat, n \in Nat
  <2>3. \A d \in 0 .. Tamano[f.ms] - 1 : mem[d] \in Nat
    BY <1>5, <1>8, <2>1, <2>2 DEF Tipos
  <2> QED BY <1>8, <2>3
<1>11. /\ memoria' = [x \in Sticks |-> memoria'[x]]
       /\ \A x \in Sticks : memoria'[x] \in [0 .. Tamano[x] - 1 -> Nat]
  BY <1>5, <1>9, <1>10 DEF Tipos
<1>12. /\ k \in Registro /\ k.pid = q.pid /\ k.tabla = q.tabla
       /\ IF s # <<>> THEN k.fase = "escribe" /\ k.ins = q.ins /\ k.buf = q.buf /\ k.frags = s
          ELSE k.fase = "revisa" /\ k.ins = Ninguna /\ k.frags = <<>>
  BY <1>2, <1>6, <1>7, SeguirEs
<1>13. EsCiclo(k)
  <2>1. CASE s = <<>>
    BY <1>12, <2>1 DEF EsCiclo
  <2>2. CASE s # <<>>
    <3>1. k.buf \in [1 .. ConSigno(q.ins.tam) -> Nat] /\ k.fase = q.fase
      BY <1>2, <1>5, <1>12, <2>2
    <3>2. Range(k.frags) \subseteq Range(q.frags)
      BY <1>6, <1>12, <2>2
    <3>3. EnCurso(k)
      BY <1>2, <1>3, <1>12, <2>2, <3>1, <3>2, EnCursoSigue
    <3> QED BY <1>12, <2>2, <3>3 DEF EsCiclo
  <2> QED BY <2>1, <2>2
<1>14. Avanza(c, k)
  BY <1>1, <1>9, <1>12, <1>13 DEF Avanza, Activas
<1>15. Escribe(c, k, f)
  BY <1>1, <1>2, <1>3, <1>4, <1>8, <1>9, <1>12 DEF Escribe
<1> QED BY <1>9, <1>11, <1>14, <1>15 DEF SoloCPU, kmCPU

LEMMA FallarEs ==
  ASSUME NEW c, Listo(c), FallarFragmento(c)
  PROVE  /\ UNCHANGED <<memoria, leido, avance, pcGuardado>> /\ cpu[c].fase \in {"lee", "escribe"}
         /\ \E k : Avanza(c, k) /\ k.fase = "fallo" /\ k.ins = Ninguna
<1>1. PICK q : q = cpu[c]
  OBVIOUS
<1>2. EsCiclo(q) /\ q \in Registro /\ q.frags # <<>>
  BY <1>1 DEF Listo, EsCiclo, FallarFragmento
<1>3. PICK k : k = Fallo(q)
  OBVIOUS
<1>4. EsCiclo(k) /\ k.fase = "fallo" /\ k.pid = q.pid
  BY <1>2, <1>3, FalloEs
<1>5. k.ins = Ninguna
  BY <1>4 DEF EsCiclo
<1>6. cpu' = [cpu EXCEPT ![c] = k] /\ UNCHANGED <<pedidos, memoria, estado, leido, avance>> /\ SoloCPU
  BY <1>1, <1>3 DEF FallarFragmento, proceso
<1>7. Avanza(c, k)
  BY <1>1, <1>4, <1>6 DEF Avanza
<1>8. q.fase \in {"lee", "escribe"}
  BY <1>2 DEF EsCiclo
<1> QED BY <1>1, <1>4, <1>5, <1>6, <1>7, <1>8 DEF SoloCPU, kmCPU

\* c gives the process back.
Deja(c, pc, e) ==
  /\ cpu[c].fase \in {"busca", "revisa", "fallo"} /\ pc \in Nat /\ e \in {"listo", "fin"}
  /\ Devolver(c, pc, e) /\ UNCHANGED <<memoria, leido, pcGuardado>>
  /\ avance' \in [Procesos -> Nat]

LEMMA DejaEs ==
  ASSUME Tipos, NEW c \in CPUs, cpu[c].pid \in Procesos, EsCiclo(cpu[c]),
         DevolverInterrumpido(c) \/ AvisarSegFault(c) \/ PedirSyscall(c)
  PROVE  \E pc, e : Deja(c, pc, e)
<1>1. PICK q : q = cpu[c]
  OBVIOUS
<1>2. q.pc \in Nat /\ q.pc + 1 \in Nat
  BY <1>1 DEF EsCiclo, Registro
<1>3. \A pc, e : Devolver(c, pc, e) => UNCHANGED <<memoria, leido, pcGuardado>>
  BY DEF Devolver, SoloCPU, kmCPU
<1>4. avance' \in [Procesos -> Nat]
  BY DEF Tipos, DevolverInterrumpido, AvisarSegFault, PedirSyscall
<1>5. CASE DevolverInterrumpido(c)
  <2>1. Deja(c, q.pc, "listo")
    BY <1>1, <1>2, <1>3, <1>4, <1>5 DEF DevolverInterrumpido, Deja
  <2> QED BY <2>1
<1>6. CASE AvisarSegFault(c)
  <2>1. Deja(c, q.pc, "fin")
    BY <1>1, <1>2, <1>3, <1>4, <1>6 DEF AvisarSegFault, Deja
  <2> QED BY <2>1
<1>7. CASE PedirSyscall(c)
  <2>1. Deja(c, q.pc + 1, "listo")
    BY <1>1, <1>2, <1>3, <1>4, <1>7 DEF PedirSyscall, Deja
  <2> QED BY <2>1
<1> QED BY <1>5, <1>6, <1>7

-----------------------------------------------------------------------------
(* What a CPU and kernel_memory say to each other about a context.         *)

LEMMA CharlaIgual ==
  ASSUME NEW k, NEW ped, NEW can, NEW t, Charla(k, ped, can, t),
         NEW u, k.fase # "libre" => u[k.pid] = t[k.pid]
  PROVE  Charla(k, ped, can, u)
  BY DEF Charla, Espera

LEMMA CharlaSigue ==
  ASSUME NEW k, NEW ped, NEW can, NEW t, Charla(k, ped, can, t), k.fase # "contexto",
         NEW r, r.fase \in {"busca", "revisa", "lee", "escribe"} => r.tabla = t[r.pid]
  PROVE  Charla(r, ped, can, t)
  BY DEF Charla, Espera

LEMMA CharlaDice ==
  ASSUME NEW k, NEW ped, NEW can, NEW t, Charla(k, ped, can, t), NEW m \in Mensajes,
         IF EsPedido(m) THEN k.fase = "libre" ELSE k.fase # "contexto",
         NEW r, IF EsPedido(m) THEN Espera(r, m.pid) ELSE r.fase = "libre"
  PROVE  Charla(r, Append(ped, m), can, t)
<1>1. ped \in Seq(Mensajes) /\ Len(ped) \in Nat /\ DOMAIN ped = 1 .. Len(ped)
  BY DEF Charla
<1>2. PICK q : q = Append(ped, m)
  OBVIOUS
<1>3. /\ q \in Seq(Mensajes) /\ DOMAIN q = 1 .. Len(ped) + 1 /\ q[Len(ped) + 1] = m
      /\ \A i \in 1 .. Len(ped) : q[i] = ped[i]
  BY <1>1, <1>2
<1>4. /\ \A i \in DOMAIN ped : ~EsPedido(ped[i])
      /\ \A i \in DOMAIN can : ~EsRespuesta(can[i])
  BY DEF Charla, Espera
<1>5. \A i \in DOMAIN q : EsPedido(q[i]) => i = Len(ped) + 1 /\ EsPedido(m)
  BY <1>1, <1>3, <1>4
<1>6. /\ \A i \in DOMAIN q : EsPedido(q[i]) =>
           Espera(r, q[i].pid) /\ \A j \in DOMAIN q : EsPedido(q[j]) => i = j
      /\ r.fase \notin {"busca", "revisa", "lee", "escribe"}
  BY <1>3, <1>5 DEF Espera
<1>7. Charla(r, q, can, t)
  BY <1>3, <1>4, <1>6 DEF Charla
<1> QED BY <1>2, <1>7

LEMMA CharlaAvisa ==
  ASSUME NEW k, NEW ped, NEW can, NEW t, Charla(k, ped, can, t),
         NEW u, EsSecuencia(can), EsSecuencia(u), \A m \in Range(u) : ~EsRespuesta(m)
  PROVE  Charla(k, ped, can \o u, t)
<1>1. PICK w : w = can \o u
  OBVIOUS
<1>2. /\ Len(can) \in Nat /\ DOMAIN can = 1 .. Len(can) /\ DOMAIN w = 1 .. Len(can) + Len(u)
      /\ Len(u) \in Nat /\ DOMAIN u = 1 .. Len(u)
      /\ \A i \in 1 .. Len(can) : w[i] = can[i]
  BY <1>1, Concatenar
<1>3. ASSUME NEW i \in DOMAIN w, EsRespuesta(w[i]) PROVE i \in DOMAIN can /\ w[i] = can[i]
  <2>1. CASE i \in 1 .. Len(can)
    BY <1>2, <2>1
  <2>2. CASE i \notin 1 .. Len(can)
    <3>1. PICK j \in 1 .. Len(u) : i = Len(can) + j
      <4>1. i - Len(can) \in 1 .. Len(u) /\ i = Len(can) + (i - Len(can))
        BY <1>2, <1>3, <2>2
      <4> QED BY <4>1
    <3>2. w[i] = u[j] /\ u[j] \in Range(u)
      <4>1. \A x \in 1 .. Len(u) : u[x] \in Range(u)
        BY <1>2 DEF Range
      <4>2. \A x \in 1 .. Len(u) : w[Len(can) + x] = u[x]
        BY <1>1, Concatenar
      <4> QED BY <3>1, <4>1, <4>2
    <3> QED BY <1>3, <3>2
  <2> QED BY <2>1, <2>2
<1>4. \A i \in DOMAIN w : EsRespuesta(w[i]) => i \in DOMAIN can /\ w[i] = can[i]
  BY <1>3
<1>5. Charla(k, ped, w, t)
  BY <1>4 DEF Charla
<1> QED BY <1>1, <1>5

\* kernel_memory takes the first thing c said, and answers if it was a question.
LEMMA CharlaResponde ==
  ASSUME NEW k, NEW ped, NEW can, NEW t, Charla(k, ped, can, t), ped # <<>>,
         EsSecuencia(can), NEW m, m = Head(ped)
  PROVE  /\ m \in Mensajes
         /\ ~EsPedido(m) => Charla(k, Tail(ped), can, t)
         /\ \A r : EsPedido(m) /\ r.pid = m.pid /\ r.pc \in Nat /\ r.tabla = t[m.pid] =>
              Charla(k, Tail(ped), can \o <<r>>, t)
<1>1. /\ ped \in Seq(Mensajes) /\ Len(ped) \in Nat \ {0} /\ DOMAIN ped = 1 .. Len(ped)
      /\ m \in Mensajes /\ m = ped[1]
  BY DEF Charla
<1>2. PICK q : q = Tail(ped)
  OBVIOUS
<1>3. /\ q \in Seq(Mensajes) /\ DOMAIN q = 1 .. Len(ped) - 1
      /\ \A i \in 1 .. Len(ped) - 1 : q[i] = ped[i + 1]
  BY <1>1, <1>2
<1>4. \A i \in DOMAIN q : i + 1 \in DOMAIN ped /\ q[i] = ped[i + 1]
  BY <1>1, <1>3
<1>5. \A i, j \in DOMAIN q : i + 1 = j + 1 => i = j
  BY <1>3
<1>6. \A i \in DOMAIN q : EsPedido(q[i]) =>
        Espera(k, q[i].pid) /\ \A j \in DOMAIN q : EsPedido(q[j]) => i = j
  BY <1>4, <1>5 DEF Charla
<1>7. ASSUME ~EsPedido(m) PROVE Charla(k, q, can, t)
  <2>1. \A i \in DOMAIN can : EsRespuesta(can[i]) => \A j \in DOMAIN q : ~EsPedido(q[j])
    BY <1>4 DEF Charla
  <2> QED BY <1>3, <1>6, <2>1 DEF Charla
<1>8. ASSUME EsPedido(m)
      PROVE  /\ Espera(k, m.pid) /\ \A i \in DOMAIN q : ~EsPedido(q[i])
             /\ \A i \in DOMAIN can : ~EsRespuesta(can[i])
  <2>1. 1 \in DOMAIN ped /\ \A i \in DOMAIN q : i + 1 # 1
    BY <1>1, <1>3
  <2>2. Espera(k, m.pid) /\ \A j \in DOMAIN ped : EsPedido(ped[j]) => 1 = j
    BY <1>1, <1>8, <2>1 DEF Charla
  <2>3. \A i \in DOMAIN can : ~EsRespuesta(can[i])
    BY <1>1, <1>8, <2>1 DEF Charla
  <2> QED BY <1>4, <2>1, <2>2, <2>3
<1>9. ASSUME EsPedido(m), NEW r, r.pid = m.pid, r.pc \in Nat, r.tabla = t[m.pid]
      PROVE  Charla(k, q, can \o <<r>>, t)
  <2>1. PICK w : w = can \o <<r>>
    OBVIOUS
  <2>2. /\ Len(can) \in Nat /\ DOMAIN can = 1 .. Len(can) /\ DOMAIN w = 1 .. Len(can) + 1
        /\ \A i \in 1 .. Len(can) : w[i] = can[i]
        /\ \A i \in 1 .. 1 : w[Len(can) + i] = <<r>>[i]
    BY <2>1, Concatenar, Unitaria
  <2>3. w[Len(can) + 1] = r
    BY <2>2, Unitaria
  <2>4. \A i \in DOMAIN w : EsRespuesta(w[i]) => i = Len(can) + 1 /\ w[i] = r
    BY <1>8, <1>9, <2>2, <2>3
  <2>5. k.fase \notin {"busca", "revisa", "lee", "escribe"}
    BY <1>8, <1>9 DEF Espera
  <2>6. Charla(k, q, w, t)
    BY <1>3, <1>6, <1>8, <1>9, <2>4, <2>5 DEF Charla
  <2> QED BY <2>1, <2>6
<1> QED BY <1>1, <1>2, <1>7, <1>9

\* What the rest w of the channel is once m has been heard.
Escuchado(m, k, ped, w, t) ==
  /\ ~EsRespuesta(m) => Charla(k, ped, w, t)
  /\ EsRespuesta(m) =>
       /\ k.fase = "contexto" /\ m.pc \in Nat /\ m.tabla = t[k.pid]
       /\ \A r : r.pid = k.pid /\ r.tabla = m.tabla => Charla(r, ped, w, t)

LEMMA CharlaEscucha ==
  ASSUME NEW k, NEW ped, NEW can, NEW t, Charla(k, ped, can, t), can # <<>>,
         EsSecuencia(can), NEW m, m = Head(can)
  PROVE  Escuchado(m, k, ped, Tail(can), t)
<1>1. PICK w : w = Tail(can)
  OBVIOUS
<1>2. /\ m = can[1] /\ Len(can) \in Nat \ {0} /\ DOMAIN can = 1 .. Len(can)
      /\ DOMAIN w = 1 .. Len(can) - 1 /\ \A i \in 1 .. Len(can) - 1 : w[i] = can[i + 1]
  BY <1>1, Quitar
<1>3. /\ 1 \in DOMAIN can
      /\ \A i \in DOMAIN w : i + 1 \in DOMAIN can /\ w[i] = can[i + 1] /\ i + 1 # 1
      /\ \A i, j \in DOMAIN w : i + 1 = j + 1 => i = j
  BY <1>2
<1>4. Charla(k, ped, w, t)
  BY <1>3 DEF Charla
<1>5. ASSUME EsRespuesta(m)
      PROVE  /\ k.fase = "contexto" /\ m.pc \in Nat /\ m.tabla = t[k.pid]
             /\ \A i \in DOMAIN w : ~EsRespuesta(w[i])
             /\ \A j \in DOMAIN ped : ~EsPedido(ped[j])
  <2>1. /\ Espera(k, m.pid) /\ m.pc \in Nat /\ m.tabla = t[m.pid]
        /\ \A j \in DOMAIN can : EsRespuesta(can[j]) => 1 = j
        /\ \A j \in DOMAIN ped : ~EsPedido(ped[j])
    BY <1>2, <1>3, <1>5 DEF Charla
  <2> QED BY <1>3, <2>1 DEF Espera
<1>6. ASSUME EsRespuesta(m), NEW r, r.pid = k.pid, r.tabla = m.tabla PROVE Charla(r, ped, w, t)
  BY <1>4, <1>5, <1>6 DEF Charla
<1>7. Escuchado(m, k, ped, w, t)
  BY ONLY <1>4, <1>5, <1>6 DEF Escuchado
<1> QED BY <1>1, <1>7

-----------------------------------------------------------------------------
(* Each step keeps who has a process, what they say and what they are at.  *)

MapaSigue == Arriba \subseteq Arriba' /\ \A x \in Arriba : base'[x] = base[x]
Quieto(d) == /\ cpu'[d] = cpu[d] /\ pedidos'[d] = pedidos[d] /\ canal'[d] = canal[d]
             /\ cpu[d].fase # "libre" => tabla'[cpu[d].pid] = tabla[cpu[d].pid]

LEMMA AndaPasa ==
  ASSUME MapaSigue, NEW d \in CPUs, NEW k, EsCiclo(k), cpu'[d] = k
  PROVE  Anda(d)'
<1>1. \A f, n, m : Cabe(f, n, m) => Cabe(f, n, m)'
  BY DEF MapaSigue, Cabe
<1>2. EnCurso(k) => EnCurso(cpu[d])'
  BY <1>1 DEF EnCurso, Desde
<1> QED BY <1>2 DEF Anda, EsCiclo

LEMMA ContextoPasa ==
  ASSUME NEW d \in CPUs, NEW k, NEW ped, NEW can, NEW t, Charla(k, ped, can, t),
         cpu'[d] = k, pedidos'[d] = ped, canal'[d] = can, tabla' = t
  PROVE  Contexto(d)'
  BY DEF Contexto, Charla

LEMMA Quietos ==
  ASSUME MapaSigue, NEW d \in CPUs, Quieto(d), Contexto(d), Anda(d)
  PROVE  Contexto(d)' /\ Anda(d)'
<1>1. PICK k, t, u : k = cpu[d] /\ t = tabla /\ u = tabla'
  OBVIOUS
<1>2. PICK ped, can : ped = pedidos[d] /\ can = canal[d]
  OBVIOUS
<1>3. Charla(k, ped, can, t) /\ (k.fase # "libre" => u[k.pid] = t[k.pid])
  BY <1>1, <1>2 DEF Contexto, Quieto
<1>4. Charla(k, ped, can, u)
  BY <1>3, CharlaIgual
<1>5. cpu'[d] = k /\ pedidos'[d] = ped /\ canal'[d] = can /\ EsCiclo(k)
  BY <1>1, <1>2 DEF Quieto, Anda
<1> QED BY <1>1, <1>4, <1>5, ContextoPasa, AndaPasa

\* No CPU has a process that kernel_scheduler has not given out.
LEMMA NadieLoTiene ==
  ASSUME \A c \in CPUs : Turno(c), NEW p \in Procesos, estado[p] # "exec", NEW c \in CPUs
  PROVE  cpu[c].pid # p
<1>1. Libre.pid \notin Procesos
  BY AccesoMemoriaAssumption DEF AccesoMemoriaAssumption, Libre
<1> QED BY <1>1 DEF Turno

LEMMA TurnoPasa ==
  ASSUME Formas, \A x \in CPUs : Turno(x), NEW c \in CPUs, NEW k, cpu' = [cpu EXCEPT ![c] = k],
         IF k.fase = "libre" THEN k = Libre
         ELSE /\ k.pid \in Procesos /\ estado'[k.pid] = "exec"
              /\ \A d \in CPUs \ {c} : cpu[d].pid # k.pid,
         \A d \in CPUs \ {c} : cpu[d].fase # "libre" => estado'[cpu[d].pid] = "exec"
  PROVE  \A d \in CPUs : Turno(d)'
<1>1. cpu'[c] = k /\ \A d \in CPUs \ {c} : cpu'[d] = cpu[d]
  BY DEF Formas
<1>2. Libre.pid \notin Procesos /\ Libre.fase = "libre"
  BY AccesoMemoriaAssumption DEF AccesoMemoriaAssumption, Libre
<1>3. \A d \in CPUs : IF cpu'[d].fase = "libre" THEN cpu'[d] = Libre
                      ELSE cpu'[d].pid \in Procesos /\ estado'[cpu'[d].pid] = "exec"
  BY <1>1 DEF Turno
<1>4. ASSUME NEW d \in CPUs, NEW e \in CPUs, cpu'[d].fase # "libre", cpu'[e].pid = cpu'[d].pid
      PROVE  e = d
  <2>1. cpu'[e].fase # "libre"
    BY <1>2, <1>3, <1>4
  <2>2. CASE d = c /\ e # c
    BY <1>1, <1>4, <2>2
  <2>3. CASE d # c /\ e = c
    BY <1>1, <1>4, <2>1, <2>3
  <2>4. CASE d # c /\ e # c
    BY <1>1, <1>4, <2>4 DEF Turno
  <2> QED BY <2>2, <2>3, <2>4
<1> QED BY <1>3, <1>4 DEF Turno

LEMMA TurnosIgual ==
  ASSUME Formas, \A x \in CPUs : Turno(x), \A x \in CPUs : cpu'[x] = cpu[x],
         \A p \in Procesos : estado[p] = "exec" => estado'[p] = "exec"
  PROVE  \A d \in CPUs : Turno(d)'
  BY DEF Turno

LEMMA AvanzarPasa ==
  ASSUME Formas, Todos, NEW c, Listo(c), NEW k, Avanza(c, k)
  PROVE  Todos'
<1>1. /\ c \in CPUs /\ \A x \in CPUs : Turno(x) /\ Contexto(x) /\ Anda(x)
      /\ \A x \in CPUs : Turno(x)
  BY DEF Listo, Todos
<1>2. UNCHANGED <<hiloMS, base, tabla, canal, pedidos, estado>>
  BY DEF Avanza, SoloCPU, km
<1>3. cpu' = [cpu EXCEPT ![c] = k] /\ cpu'[c] = k /\ \A d \in CPUs \ {c} : cpu'[d] = cpu[d]
  BY <1>1 DEF Avanza, Formas
<1>4. MapaSigue
  BY <1>2 DEF MapaSigue, Arriba
<1>5. k.fase \notin {"libre", "contexto"} /\ k.pid = cpu[c].pid /\ k.pid \in Procesos
  BY DEF Avanza, Activas, Listo
<1>6. /\ cpu[c].fase \notin {"libre", "contexto"} /\ estado'[k.pid] = "exec"
      /\ \A d \in CPUs \ {c} : cpu[d].pid # k.pid
  BY <1>1, <1>2, <1>5 DEF Listo, Turno, Activas
<1>7. \A d \in CPUs \ {c} : cpu[d].fase # "libre" => estado'[cpu[d].pid] = "exec"
  BY <1>1, <1>2 DEF Turno
<1>8. \A d \in CPUs : Turno(d)'
  BY <1>1, <1>3, <1>5, <1>6, <1>7, TurnoPasa
<1>9. \A d \in CPUs \ {c} : Contexto(d)' /\ Anda(d)'
  <2> TAKE d \in CPUs \ {c}
  <2>1. Quieto(d)
    BY <1>2, <1>3 DEF Quieto
  <2> QED BY <1>1, <1>4, <2>1, Quietos
<1>10. Anda(c)'
  BY <1>1, <1>3, <1>4, AndaPasa DEF Avanza
<1>11. Contexto(c)'
  <2>1. PICK q, t, ped, can : q = cpu[c] /\ t = tabla /\ ped = pedidos[c] /\ can = canal[c]
    OBVIOUS
  <2>2. Charla(q, ped, can, t) /\ q.fase # "contexto"
    BY <1>1, <1>6, <2>1 DEF Contexto
  <2>3. k.fase \in {"busca", "revisa", "lee", "escribe"} => k.tabla = t[k.pid]
    BY <2>1 DEF Avanza, Listo
  <2>4. Charla(k, ped, can, t)
    BY <2>2, <2>3, CharlaSigue
  <2> QED BY <1>1, <1>2, <1>3, <2>1, <2>4, ContextoPasa
<1> QED BY <1>8, <1>9, <1>10, <1>11 DEF Todos

LEMMA DejarPasa ==
  ASSUME Formas, Tipos, Todos, NEW c \in CPUs, NEW pc, NEW e, Deja(c, pc, e)
  PROVE  Todos'
<1>1. /\ \A x \in CPUs : Turno(x) /\ Contexto(x) /\ Anda(x)
      /\ \A x \in CPUs : Turno(x)
  BY DEF Todos
<1>2. PICK p : p = cpu[c].pid
  OBVIOUS
<1>3. PICK m : m = [op |-> "ACTUALIZAR_CONTEXTO", pid |-> p, pc |-> pc]
  OBVIOUS
<1>4. /\ pedidos' = [pedidos EXCEPT ![c] = Append(pedidos[c], m)]
      /\ estado' = [estado EXCEPT ![p] = e] /\ cpu' = [cpu EXCEPT ![c] = Libre]
      /\ UNCHANGED <<hiloMS, base, tabla, canal>>
  BY <1>2, <1>3 DEF Deja, Devolver, SoloCPU, km
<1>5. cpu[c].fase \notin {"libre", "contexto"} /\ p \in Procesos
  BY <1>1, <1>2 DEF Deja, Turno
<1>6. m \in Mensajes /\ ~EsPedido(m)
  BY <1>3, <1>5 DEF Mensajes, EsPedido, Deja
<1>7. /\ cpu'[c] = Libre /\ \A d \in CPUs \ {c} : cpu'[d] = cpu[d]
      /\ pedidos'[c] = Append(pedidos[c], m) /\ \A d \in CPUs \ {c} : pedidos'[d] = pedidos[d]
      /\ \A q \in Procesos \ {p} : estado'[q] = estado[q]
  BY <1>4 DEF Formas, Tipos
<1>8. Libre.fase = "libre" /\ EsCiclo(Libre)
  BY LibreEs
<1>9. \A d \in CPUs \ {c} : cpu[d].fase # "libre" => estado'[cpu[d].pid] = "exec"
  BY <1>1, <1>2, <1>7 DEF Turno
<1>10. \A d \in CPUs : Turno(d)'
  BY <1>1, <1>4, <1>8, <1>9, TurnoPasa
<1>11. MapaSigue
  BY <1>4 DEF MapaSigue, Arriba
<1>12. \A d \in CPUs \ {c} : Contexto(d)' /\ Anda(d)'
  <2> TAKE d \in CPUs \ {c}
  <2>1. Quieto(d)
    BY <1>4, <1>7 DEF Quieto
  <2> QED BY <1>1, <1>11, <2>1, Quietos
<1>13. Anda(c)'
  BY <1>7, <1>8, <1>11, AndaPasa
<1>14. Contexto(c)'
  <2>1. PICK q, t, ped, can, k :
          q = cpu[c] /\ t = tabla /\ ped = pedidos[c] /\ can = canal[c] /\ k = Libre
    OBVIOUS
  <2>2. Charla(q, ped, can, t) /\ q.fase # "contexto" /\ k.fase = "libre"
    BY <1>1, <1>5, <1>8, <2>1 DEF Contexto
  <2>3. Charla(k, Append(ped, m), can, t)
    BY <1>6, <2>2, CharlaDice
  <2>4. cpu'[c] = k /\ pedidos'[c] = Append(ped, m) /\ canal'[c] = can /\ tabla' = t
    BY <1>4, <1>7, <2>1
  <2> QED BY <2>3, <2>4, ContextoPasa
<1> QED BY <1>10, <1>12, <1>13, <1>14 DEF Todos

LEMMA ListoSi ==
  ASSUME NEW c \in CPUs, Sabe(c), Turno(c), Contexto(c), Anda(c), cpu[c].fase \in Activas
  PROVE  Listo(c)
  BY DEF Listo, Turno, Contexto, Charla, Anda, Activas

\* An instruction: it goes on with the process, or gives it back.
LEMMA InstruccionEs ==
  ASSUME Formas, Listas, Mapa, Tablas, Tipos, Todos, NEW c \in CPUs, Sabe(c), Instruccion(c)
  PROVE  /\ UNCHANGED pcGuardado /\ avance' \in [Procesos -> Nat]
         /\ leido' = [p \in Procesos |-> leido'[p]] /\ memoria' = [s \in Sticks |-> memoria'[s]]
         /\ \A s \in Sticks : memoria'[s] \in [0 .. Tamano[s] - 1 -> Nat]
         /\ (Listo(c) /\ \E k : Avanza(c, k)) \/ \E pc, e : Deja(c, pc, e)
<1>1. Turno(c) /\ Contexto(c) /\ Anda(c)
  BY DEF Todos
<1>2. cpu[c].fase \in Activas => Listo(c)
  BY <1>1, ListoSi
<1>3. /\ leido = [p \in Procesos |-> leido[p]] /\ memoria = [s \in Sticks |-> memoria[s]]
      /\ \A s \in Sticks : memoria[s] \in [0 .. Tamano[s] - 1 -> Nat]
      /\ avance \in [Procesos -> Nat]
  BY DEF Tipos
<1>4. ASSUME NEW d \in Direcciones, NEW n \in Registros, MovIn(c, d, n)
      PROVE  Listo(c) /\ SoloEmpieza(c) /\ \E k : Avanza(c, k)
  <2>1. Listo(c)
    BY <1>2, <1>4 DEF MovIn, Ejecutar, Activas
  <2> QED BY <1>4, <2>1, MovInEs
<1>5. ASSUME NEW d \in Direcciones, NEW n \in Registros, MovOut(c, d, n)
      PROVE  Listo(c) /\ SoloEmpieza(c) /\ \E k : Avanza(c, k)
  <2>1. Listo(c)
    BY <1>2, <1>5 DEF MovOut, Ejecutar, Activas
  <2> QED BY <1>5, <2>1, MovOutEs
<1>6. ASSUME NEW d \in Direcciones, NEW e \in Direcciones, NEW n \in Copias, CopyMem(c, d, e, n)
      PROVE  Listo(c) /\ SoloEmpieza(c) /\ \E k : Avanza(c, k)
  <2>1. Listo(c)
    BY <1>2, <1>6 DEF CopyMem, Ejecutar, Activas
  <2> QED BY <1>6, <2>1, CopyMemEs
<1>7. CASE LeerFragmento(c)
  <2>1. Listo(c)
    BY <1>2, <1>7 DEF LeerFragmento, Activas
  <2> QED BY <1>3, <1>7, <2>1, LeerEs
<1>8. CASE EmpezarCopia(c)
  <2>1. Listo(c)
    BY <1>2, <1>8 DEF EmpezarCopia, Activas
  <2> QED BY <1>3, <1>8, <2>1, CopiarEs
<1>9. CASE EscribirFragmento(c)
  <2>1. Listo(c)
    BY <1>2, <1>9 DEF EscribirFragmento, Activas
  <2> QED BY <1>3, <1>9, <2>1, EscribirEs
<1>10. CASE FallarFragmento(c)
  <2>1. cpu[c].frags # <<>>
    BY <1>10 DEF FallarFragmento
  <2>2. cpu[c].fase \in {"lee", "escribe"}
    BY <1>1, <2>1 DEF Anda, EsCiclo
  <2>3. Listo(c)
    BY <1>2, <2>2 DEF Activas
  <2> QED BY <1>3, <1>10, <2>3, FallarEs
<1>11. CASE DevolverInterrumpido(c) \/ AvisarSegFault(c) \/ PedirSyscall(c)
  <2>1. cpu[c].fase # "libre"
    BY <1>11 DEF DevolverInterrumpido, AvisarSegFault, PedirSyscall
  <2>2. cpu[c].pid \in Procesos /\ EsCiclo(cpu[c])
    BY <1>1, <2>1 DEF Turno, Anda
  <2>3. \E pc, e : Deja(c, pc, e)
    BY <1>11, <2>2, DejaEs
  <2> QED BY <1>3, <2>3 DEF Deja
<1>12. ASSUME SoloEmpieza(c), Listo(c), \E k : Avanza(c, k)
       PROVE  /\ UNCHANGED pcGuardado /\ avance' \in [Procesos -> Nat]
         /\ leido' = [p \in Procesos |-> leido'[p]] /\ memoria' = [s \in Sticks |-> memoria'[s]]
         /\ \A s \in Sticks : memoria'[s] \in [0 .. Tamano[s] - 1 -> Nat]
  BY <1>3, <1>12 DEF SoloEmpieza
<1>13. \/ \E d \in Direcciones, n \in Registros : MovIn(c, d, n) \/ MovOut(c, d, n)
       \/ \E d, e \in Direcciones, n \in Copias : CopyMem(c, d, e, n)
       \/ LeerFragmento(c) \/ EmpezarCopia(c) \/ EscribirFragmento(c) \/ FallarFragmento(c)
       \/ DevolverInterrumpido(c) \/ AvisarSegFault(c) \/ PedirSyscall(c)
  BY Zenon DEF Instruccion
<1>14. CASE Listo(c) /\ SoloEmpieza(c) /\ \E k : Avanza(c, k)
  BY <1>12, <1>14
<1> QED BY <1>4, <1>5, <1>6, <1>7, <1>8, <1>9, <1>10, <1>11, <1>13, <1>14, Zenon

LEMMA InstruccionPasa ==
  ASSUME Formas, Listas, PrivadoInv, NEW c \in CPUs, Sabe(c), Instruccion(c)
  PROVE  PrivadoInv'
<1>1. Mapa /\ Tablas /\ Tipos /\ Todos
  BY DEF PrivadoInv
<1>2. /\ UNCHANGED pcGuardado /\ avance' \in [Procesos -> Nat]
      /\ leido' = [p \in Procesos |-> leido'[p]] /\ memoria' = [s \in Sticks |-> memoria'[s]]
      /\ \A s \in Sticks : memoria'[s] \in [0 .. Tamano[s] - 1 -> Nat]
      /\ (Listo(c) /\ \E k : Avanza(c, k)) \/ \E pc, e : Deja(c, pc, e)
  BY <1>1, InstruccionEs
<1>3. CASE Listo(c) /\ \E k : Avanza(c, k)
  <2>1. PICK k : Avanza(c, k)
    BY <1>3
  <2>2. Todos'
    BY <1>1, <1>3, <2>1, AvanzarPasa
  <2>3. UNCHANGED <<total, huecos, hiloMS, base, conectadas, tabla, segMax, pedidos, estado>>
    BY <2>1 DEF Avanza, SoloCPU, km
  <2>4. Mapa' /\ Tablas'
    <3>1. huecos' \subseteq 0 .. total - 1 /\ huecos' \ huecos = {} /\ total \in Nat
      BY <1>1, <2>3 DEF Mapa
    <3> QED BY <1>1, <2>3, <3>1, MapaIgual, TablasIgual
  <2>5. Tipos'
    BY <1>1, <1>2, <2>3 DEF Tipos
  <2> QED BY <2>2, <2>4, <2>5 DEF PrivadoInv
<1>4. ASSUME NEW pc, NEW e, Deja(c, pc, e) PROVE PrivadoInv'
  <2>1. Todos'
    BY <1>1, <1>4, DejarPasa
  <2>2. PICK p, m : /\ pedidos' = [pedidos EXCEPT ![c] = Append(pedidos[c], m)]
                    /\ estado' = [estado EXCEPT ![p] = e] /\ e \in {"listo", "fin"}
    BY <1>4 DEF Deja, Devolver
  <2>3. UNCHANGED <<total, huecos, hiloMS, base, conectadas, tabla, segMax>>
    BY <1>4 DEF Deja, Devolver, SoloCPU, km
  <2>4. Mapa' /\ Tablas'
    <3>1. huecos' \subseteq 0 .. total - 1 /\ huecos' \ huecos = {} /\ total \in Nat
      BY <1>1, <2>3 DEF Mapa
    <3> QED BY <1>1, <2>3, <3>1, MapaIgual, TablasIgual
  <2>5. Tipos'
    BY <1>1, <1>2, <2>2, <2>3 DEF Tipos
  <2> QED BY <2>1, <2>4, <2>5 DEF PrivadoInv
<1> QED BY <1>2, <1>3, <1>4

LEMMA AgregarUno ==
  ASSUME NEW s, NEW e, EsSecuencia(s)
  PROVE  Append(s, e) = s \o <<e>>
<1>1. PICK X : X = Range(s) \cup {e}
  OBVIOUS
<1>2. s \in Seq(X) /\ e \in X
  <2>1. s \in Seq(Range(s)) /\ Range(s) \subseteq X
    BY <1>1 DEF EsSecuencia
  <2> QED BY <1>1, <2>1
<1> QED BY <1>2

\* The steps that do not touch what the processes and the CPUs keep of their own.
LEMMA TiposIgual ==
  ASSUME Tipos, UNCHANGED <<pcGuardado, avance, estado, segMax, memoria, leido>>,
         conectadas' \subseteq CPUs, huecos' \subseteq Nat,
         pedidos' = [c \in CPUs |-> pedidos'[c]]
  PROVE  Tipos'
  BY DEF Tipos

LEMMA ConectarPasa ==
  ASSUME Formas, PrivadoInv, NEW s \in Sticks, Conectar(s)
  PROVE  PrivadoInv'
<1>1. /\ Mapa /\ Tablas /\ Tipos /\ Todos /\ \A x \in CPUs : Turno(x) /\ Contexto(x) /\ Anda(x)
      /\ \A x \in CPUs : Turno(x)
  BY DEF PrivadoInv, Todos
<1>2. /\ Mapa' /\ total <= total' /\ MapaSigue /\ \A h \in huecos' \ huecos : h >= total
  BY <1>1, MapaConectar DEF MapaSigue
<1>3. UNCHANGED <<tabla, pedidos, cpu, conectadas, pcGuardado, avance, estado, segMax, memoria, leido>>
  <2>1. SoloHiloMS /\ UNCHANGED conectadas
    BY DEF Conectar, AgregarHuecoMs, AgregarPosicionMs, AvisarCPUs
  <2> QED BY <2>1 DEF SoloHiloMS, kmCPU, enCPU, ms, proceso
<1>4. Tablas'
  <2>1. total' \in Nat
    BY <1>2 DEF Mapa
  <2> QED BY <1>1, <1>2, <1>3, <2>1, TablasIgual
<1>5. Tipos'
  <2>1. huecos' \subseteq Nat /\ conectadas \subseteq CPUs /\ pedidos = [c \in CPUs |-> pedidos[c]]
    BY <1>1, <1>2 DEF Mapa, Tipos
  <2> QED BY <1>1, <1>3, <2>1, TiposIgual
<1>6. \A d \in CPUs : Turno(d)'
  BY <1>1, <1>3, TurnosIgual
<1>7. ASSUME NEW d \in CPUs PROVE Contexto(d)' /\ Anda(d)'
  <2>1. CASE canal'[d] = canal[d]
    <3>1. Quieto(d)
      BY <1>3, <2>1 DEF Quieto
    <3> QED BY <1>1, <1>2, <3>1, Quietos
  <2>2. CASE canal'[d] # canal[d]
    <3>1. AvisarCPUs(s)
      BY <2>2 DEF Conectar, AgregarHuecoMs, AgregarPosicionMs
    <3>2. PICK m : m = Aviso(Posicion(s))
      OBVIOUS
    <3>3. canal' = [c \in CPUs |-> IF c \in conectadas THEN Append(canal[c], m) ELSE canal[c]]
      BY <3>1, <3>2 DEF AvisarCPUs
    <3>4. canal'[d] = Append(canal[d], m)
      BY <1>7, <2>2, <3>3
    <3>5. PICK can, u, ped, k, t :
            can = canal[d] /\ u = <<m>> /\ ped = pedidos[d] /\ k = cpu[d] /\ t = tabla
      OBVIOUS
    <3>6. EsSecuencia(can) /\ EsSecuencia(u) /\ \A x \in Range(u) : ~EsRespuesta(x)
      <4>1. EsSecuencia(can)
        BY <1>7, <3>5 DEF Formas
      <4>2. EsSecuencia(u) /\ Range(u) = {m}
        BY <3>5, Unitaria
      <4>3. ~EsRespuesta(m)
        BY <3>2 DEF Aviso, EsRespuesta
      <4> QED BY <4>1, <4>2, <4>3
    <3>7. Append(can, m) = can \o u
      BY <3>5, <3>6, AgregarUno
    <3>8. Charla(k, ped, can, t) /\ EsCiclo(k)
      BY <1>1, <1>7, <3>5 DEF Contexto, Anda
    <3>9. Charla(k, ped, can \o u, t)
      BY <3>6, <3>8, CharlaAvisa
    <3>10. cpu'[d] = k /\ pedidos'[d] = ped /\ canal'[d] = can \o u /\ tabla' = t
      BY <1>3, <3>4, <3>5, <3>7
    <3> QED BY <1>2, <1>7, <3>8, <3>9, <3>10, ContextoPasa, AndaPasa
  <2> QED BY <2>1, <2>2
<1> QED BY <1>2, <1>4, <1>5, <1>6, <1>7 DEF PrivadoInv, Todos

\* A step that leaves the map, the tables and the processes alone but for one CPU c.
LEMMA UnoPasa ==
  ASSUME Formas, PrivadoInv, NEW c \in CPUs,
         UNCHANGED <<total, huecos, hiloMS, base, tabla, avance, memoria, leido>>,
         \A d \in CPUs \ {c} : cpu'[d] = cpu[d] /\ pedidos'[d] = pedidos[d] /\ canal'[d] = canal[d],
         NEW k, cpu'[c] = k, EsCiclo(k), NEW ped, pedidos'[c] = ped, NEW can, canal'[c] = can,
         NEW t, tabla = t, Charla(k, ped, can, t), \A d \in CPUs : Turno(d)',
         conectadas' \subseteq CPUs, pedidos' = [x \in CPUs |-> pedidos'[x]],
         pcGuardado' \in [Procesos -> Nat], segMax' \in [CPUs -> {0, SegMax}],
         estado' \in [Procesos -> {"listo", "exec", "fin", "borrado"}]
  PROVE  PrivadoInv'
<1>1. Mapa /\ Tablas /\ Tipos /\ \A x \in CPUs : Turno(x) /\ Contexto(x) /\ Anda(x)
  BY DEF PrivadoInv, Todos
<1>2. Mapa' /\ Tablas'
  <2>1. huecos' \subseteq 0 .. total - 1 /\ huecos' \ huecos = {} /\ total \in Nat
    BY <1>1 DEF Mapa
  <2> QED BY <1>1, <2>1, MapaIgual, TablasIgual
<1>3. MapaSigue
  BY DEF MapaSigue, Arriba
<1>4. \A d \in CPUs \ {c} : Contexto(d)' /\ Anda(d)'
  <2> TAKE d \in CPUs \ {c}
  <2>1. Quieto(d)
    BY DEF Quieto
  <2> QED BY <1>1, <1>3, <2>1, Quietos
<1>5. Contexto(c)' /\ Anda(c)'
  BY <1>3, ContextoPasa, AndaPasa
<1>6. Tipos'
  BY <1>1 DEF Tipos
<1> QED BY <1>2, <1>4, <1>5, <1>6 DEF PrivadoInv, Todos

LEMMA AtenderPasa ==
  ASSUME Formas, Listas, PrivadoInv, NEW c \in CPUs, AtenderCPU(c)
  PROVE  PrivadoInv'
<1>1. /\ Mapa /\ Tablas /\ Tipos /\ \A x \in CPUs : Turno(x) /\ Contexto(x) /\ Anda(x)
      /\ \A x \in CPUs : Turno(x)
  BY DEF PrivadoInv, Todos
<1>2. /\ UNCHANGED <<total, huecos, hiloMS, base, tabla, avance, memoria, leido, cpu, segMax, estado>>
      /\ conectadas' \subseteq CPUs
  BY <1>1 DEF AtenderCPU, AgregarCPU, EnviarMSaCPU, AtenderPedido, km, enCPU, ms, proceso, Tipos
<1>3. \A d \in CPUs : Turno(d)'
  BY <1>1, <1>2, TurnosIgual
<1>4. PICK k, ped, can, t : k = cpu[c] /\ ped = pedidos[c] /\ can = canal[c] /\ t = tabla
  OBVIOUS
<1>5. Charla(k, ped, can, t) /\ EsCiclo(k) /\ EsSecuencia(can)
  BY <1>1, <1>4 DEF Contexto, Anda, Formas
<1>6. cpu'[c] = k /\ \A d \in CPUs : cpu'[d] = cpu[d]
  BY <1>2, <1>4
<1>7. segMax' \in [CPUs -> {0, SegMax}] /\ estado' \in [Procesos -> {"listo", "exec", "fin", "borrado"}]
  BY <1>1, <1>2 DEF Tipos
<1>8. ASSUME NEW ped2, NEW can2, Charla(k, ped2, can2, t),
             pedidos' = [pedidos EXCEPT ![c] = ped2], canal' = [canal EXCEPT ![c] = can2],
             pcGuardado' \in [Procesos -> Nat]
      PROVE  PrivadoInv'
  <2>1. /\ pedidos'[c] = ped2 /\ \A d \in CPUs \ {c} : pedidos'[d] = pedidos[d]
        /\ pedidos' = [x \in CPUs |-> pedidos'[x]]
    BY <1>1, <1>8 DEF Tipos
  <2>2. canal'[c] = can2 /\ \A d \in CPUs \ {c} : canal'[d] = canal[d]
    BY <1>8 DEF Formas
  <2> QED BY <1>2, <1>3, <1>4, <1>5, <1>6, <1>7, <1>8, <2>1, <2>2, UnoPasa
<1>9. CASE AgregarCPU(c)
  <2>1. UNCHANGED <<pedidos, canal, pcGuardado>>
    BY <1>9 DEF AgregarCPU
  <2>2. pedidos' = [pedidos EXCEPT ![c] = ped] /\ canal' = [canal EXCEPT ![c] = can]
    BY <1>1, <1>4, <2>1 DEF Tipos, Formas
  <2> QED BY <1>1, <1>5, <1>8, <2>1, <2>2 DEF Tipos
<1>10. CASE EnviarMSaCPU(c)
  <2>1. PICK a, m : a = SetToSeq({Aviso(q) : q \in posiciones}) /\ m = [op |-> "SEG_MAX_SIZE", tam |-> SegMax]
    OBVIOUS
  <2>2. EsSecuencia(a) /\ Range(a) = {Aviso(q) : q \in posiciones}
    BY <2>1, AvisosDe DEF Listas
  <2>3. PICK u : u = Append(a, m)
    OBVIOUS
  <2>4. EsSecuencia(u) /\ Range(u) = Range(a) \cup {m}
    BY <2>2, <2>3, Agregar
  <2>5. \A x \in Range(u) : ~EsRespuesta(x)
    BY <2>1, <2>2, <2>4 DEF EsRespuesta, Aviso
  <2>6. Charla(k, ped, can \o u, t)
    BY <1>5, <2>4, <2>5, CharlaAvisa
  <2>7. UNCHANGED <<pedidos, pcGuardado>> /\ canal' = [canal EXCEPT ![c] = can \o u]
    BY <1>4, <1>10, <2>1, <2>3 DEF EnviarMSaCPU, EnviarA
  <2>8. pedidos' = [pedidos EXCEPT ![c] = ped]
    BY <1>1, <1>4, <2>7 DEF Tipos
  <2> QED BY <1>1, <1>8, <2>6, <2>7, <2>8 DEF Tipos
<1>11. CASE AtenderPedido(c)
  <2>1. PICK m : m = Head(ped)
    OBVIOUS
  <2>2. ped # <<>> /\ pedidos' = [pedidos EXCEPT ![c] = Tail(ped)]
    BY <1>4, <1>11 DEF AtenderPedido
  <2>3. /\ m \in Mensajes
        /\ ~EsPedido(m) => Charla(k, Tail(ped), can, t)
        /\ \A r : EsPedido(m) /\ r.pid = m.pid /\ r.pc \in Nat /\ r.tabla = t[m.pid] =>
             Charla(k, Tail(ped), can \o <<r>>, t)
    BY <1>5, <2>1, <2>2, CharlaResponde
  <2>4. CASE EsPedido(m)
    <3>1. PICK r : r = [op |-> "CONTEXT_RESPONSE", pid |-> m.pid, pc |-> pcGuardado[m.pid],
                        tabla |-> t[m.pid]]
      OBVIOUS
    <3>2. canal' = [canal EXCEPT ![c] = can \o <<r>>] /\ UNCHANGED pcGuardado
      BY <1>4, <1>11, <2>1, <2>4, <3>1 DEF AtenderPedido, EnviarA, EsPedido
    <3>3. m.pid \in Procesos
      BY <2>3, <2>4 DEF Mensajes
    <3>4. r.pid = m.pid /\ r.pc \in Nat /\ r.tabla = t[m.pid]
      BY <1>1, <3>1, <3>3 DEF Tipos
    <3>5. Charla(k, Tail(ped), can \o <<r>>, t)
      BY <2>3, <2>4, <3>4
    <3> QED BY <1>1, <1>8, <2>2, <3>2, <3>5 DEF Tipos
  <2>5. CASE ~EsPedido(m)
    <3>1. /\ pcGuardado' = [pcGuardado EXCEPT ![m.pid] =
                              IF estado[m.pid] = "borrado" THEN pcGuardado[m.pid] ELSE m.pc]
          /\ UNCHANGED canal
      BY <1>4, <1>11, <2>1, <2>5 DEF AtenderPedido, EsPedido
    <3>2. m.pid \in Procesos /\ m.pc \in Nat
      BY <2>3, <2>5 DEF Mensajes, EsPedido
    <3>3. pcGuardado' \in [Procesos -> Nat]
      BY <1>1, <3>1, <3>2 DEF Tipos
    <3>4. canal' = [canal EXCEPT ![c] = can]
      BY <1>4, <3>1 DEF Formas
    <3> QED BY <1>8, <2>2, <2>3, <2>5, <3>3, <3>4
  <2> QED BY <2>4, <2>5
<1> QED BY <1>9, <1>10, <1>11 DEF AtenderCPU

ConContexto(k, n, t) == [k EXCEPT !.fase = "busca", !.pc = n, !.tabla = t]

LEMMA RecibeEs ==
  ASSUME NEW k, EsCiclo(k), k.fase = "contexto", NEW n \in Nat, NEW t \in SUBSET Segs,
         NEW r, r = ConContexto(k, n, t)
  PROVE  /\ EsCiclo(r) /\ r.fase = "busca" /\ r.pid = k.pid /\ r.tabla = t /\ r.ins = Ninguna
         /\ k.ins = Ninguna
<1>1. k \in Registro /\ k.ins = Ninguna /\ k.frags = <<>>
  BY DEF EsCiclo
<1>2. /\ r \in Registro /\ r.fase = "busca" /\ r.pid = k.pid /\ r.tabla = t /\ r.ins = Ninguna
      /\ r.frags = <<>>
  BY <1>1 DEF Registro, ConContexto, Fases
<1> QED BY <1>1, <1>2 DEF EsCiclo

LEMMA EscucharPasa ==
  ASSUME Formas, PrivadoInv, NEW c \in CPUs, MaximoDe(c), EscucharKM(c)
  PROVE  PrivadoInv'
<1>1. /\ Mapa /\ Tablas /\ Tipos /\ \A x \in CPUs : Turno(x) /\ Contexto(x) /\ Anda(x)
      /\ \A x \in CPUs : Turno(x)
  BY DEF PrivadoInv, Todos
<1>2. /\ UNCHANGED <<total, huecos, hiloMS, base, tabla, avance, memoria, leido, estado, pedidos,
                     conectadas, pcGuardado>>
  BY DEF EscucharKM, km, kmCPU, ms, proceso
<1>3. PICK k, ped, can, t, m :
        k = cpu[c] /\ ped = pedidos[c] /\ can = canal[c] /\ t = tabla /\ m = Head(can)
  OBVIOUS
<1>4. Charla(k, ped, can, t) /\ EsCiclo(k) /\ EsSecuencia(can) /\ Turno(c)
  BY <1>1, <1>3 DEF Contexto, Anda, Formas
<1>5. can # <<>> /\ canal' = [canal EXCEPT ![c] = Tail(can)]
  BY <1>3 DEF EscucharKM
<1>6. canal'[c] = Tail(can) /\ \A d \in CPUs \ {c} : canal'[d] = canal[d]
  BY <1>5 DEF Formas
<1>7. /\ ~EsRespuesta(m) => Charla(k, ped, Tail(can), t)
      /\ EsRespuesta(m) =>
           /\ k.fase = "contexto" /\ m.pc \in Nat /\ m.tabla = t[k.pid]
           /\ \A r : r.pid = k.pid /\ r.tabla = m.tabla => Charla(r, ped, Tail(can), t)
  <2>1. can # <<>> /\ m = Head(can)
    BY <1>3, <1>5
  <2>2. Charla(k, ped, can, t) /\ EsSecuencia(can)
    BY <1>4
  <2>3. Escuchado(m, k, ped, Tail(can), t)
    BY ONLY <2>1, <2>2, CharlaEscucha
  <2> QED BY ONLY <2>3 DEF Escuchado
<1>8. /\ conectadas' \subseteq CPUs /\ pedidos' = [x \in CPUs |-> pedidos'[x]]
      /\ pcGuardado' \in [Procesos -> Nat]
      /\ estado' \in [Procesos -> {"listo", "exec", "fin", "borrado"}]
      /\ \A d \in CPUs : pedidos'[d] = pedidos[d]
  BY <1>1, <1>2 DEF Tipos
<1>9. \/ m.op = "MS_NUEVO_CPU" /\ ConectarMemoryStick(c, m.ms)
      \/ m.op = "CONTEXT_RESPONSE" /\ RecibirContexto(c, m)
      \/ /\ m.op = "SEG_MAX_SIZE" /\ segMax' = [segMax EXCEPT ![c] = m.tam]
         /\ UNCHANGED <<sticks, cpu>>
  BY <1>3 DEF EscucharKM
<1>10. CASE ~EsRespuesta(m)
  <2>1. UNCHANGED cpu
    BY <1>9, <1>10 DEF EsRespuesta, ConectarMemoryStick
  <2>2. segMax' \in [CPUs -> {0, SegMax}]
    <3>1. segMax \in [CPUs -> {0, SegMax}]
      BY <1>1 DEF Tipos
    <3>2. CASE m.op = "SEG_MAX_SIZE" /\ segMax' = [segMax EXCEPT ![c] = m.tam]
      <4>1. m \in Range(can)
        BY <1>3, <1>4, <1>5, Quitar
      <4>2. m.tam = SegMax
        BY <1>3, <3>2, <4>1 DEF MaximoDe
      <4> QED BY <3>1, <3>2, <4>2
    <3> QED BY <1>9, <1>10, <3>1, <3>2 DEF EsRespuesta, ConectarMemoryStick
  <2>3. \A d \in CPUs : Turno(d)'
    BY <1>1, <1>2, <2>1, TurnosIgual
  <2>4. cpu'[c] = k /\ \A d \in CPUs \ {c} : cpu'[d] = cpu[d]
    BY <1>3, <2>1
  <2> QED BY <1>2, <1>3, <1>4, <1>6, <1>7, <1>8, <1>10, <2>2, <2>3, <2>4, UnoPasa
<1>11. CASE EsRespuesta(m)
  <2>1. RecibirContexto(c, m)
    BY <1>9, <1>11 DEF EsRespuesta
  <2>2. PICK r : r = ConContexto(k, m.pc, m.tabla)
    OBVIOUS
  <2>3. cpu' = [cpu EXCEPT ![c] = r] /\ UNCHANGED segMax
    BY <1>3, <2>1, <2>2 DEF RecibirContexto, ConContexto, Formas
  <2>4. cpu'[c] = r /\ \A d \in CPUs \ {c} : cpu'[d] = cpu[d]
    BY <2>3 DEF Formas
  <2>5. k.fase = "contexto" /\ m.pc \in Nat /\ m.tabla = t[k.pid]
    BY <1>7, <1>11
  <2>6. k.pid \in Procesos /\ estado[k.pid] = "exec" /\ \A d \in CPUs \ {c} : cpu[d].pid # k.pid
    BY <1>3, <1>4, <2>5 DEF Turno
  <2>7. m.tabla \in SUBSET Segs
    BY <1>1, <1>3, <2>5, <2>6 DEF Tablas
  <2>8. EsCiclo(r) /\ r.fase = "busca" /\ r.pid = k.pid /\ r.tabla = m.tabla
    BY <1>4, <2>2, <2>5, <2>7, RecibeEs
  <2>9. Charla(r, ped, Tail(can), t)
    BY <1>7, <1>11, <2>8
  <2>10. \A d \in CPUs \ {c} : cpu[d].fase # "libre" => estado'[cpu[d].pid] = "exec"
    BY <1>1, <1>2 DEF Turno
  <2>11. \A d \in CPUs : Turno(d)'
    <3>1. IF r.fase = "libre" THEN r = Libre
          ELSE /\ r.pid \in Procesos /\ estado'[r.pid] = "exec"
               /\ \A d \in CPUs \ {c} : cpu[d].pid # r.pid
      BY <1>2, <2>6, <2>8
    <3> QED BY <1>1, <2>3, <2>10, <3>1, TurnoPasa
  <2>12. segMax' \in [CPUs -> {0, SegMax}]
    BY <1>1, <2>3 DEF Tipos
  <2> QED BY <1>2, <1>3, <1>6, <1>8, <2>4, <2>8, <2>9, <2>11, <2>12, UnoPasa
<1> QED BY <1>10, <1>11

LEMMA DespacharPasa ==
  ASSUME Formas, PrivadoInv, NEW c \in CPUs, NEW p \in Procesos, Despachar(c, p)
  PROVE  PrivadoInv'
<1>1. /\ Mapa /\ Tablas /\ Tipos /\ \A x \in CPUs : Turno(x) /\ Contexto(x) /\ Anda(x)
      /\ \A x \in CPUs : Turno(x)
  BY DEF PrivadoInv, Todos
<1>2. PICK k, ped, can, t, r, m :
        /\ k = cpu[c] /\ ped = pedidos[c] /\ can = canal[c] /\ t = tabla
        /\ r = [Libre EXCEPT !.fase = "contexto", !.pid = p]
        /\ m = [op |-> "REQUEST_CONTEXTO", pid |-> p]
  OBVIOUS
<1>3. /\ estado[p] = "listo" /\ k.fase = "libre" /\ estado' = [estado EXCEPT ![p] = "exec"]
      /\ cpu' = [cpu EXCEPT ![c] = r] /\ pedidos' = [pedidos EXCEPT ![c] = Append(ped, m)]
      /\ UNCHANGED <<total, huecos, hiloMS, base, tabla, avance, memoria, leido, conectadas,
                     pcGuardado, canal, segMax>>
  BY <1>2 DEF Despachar, km, kmCPU, ms
<1>4. EsCiclo(r) /\ r.fase = "contexto" /\ r.pid = p
  BY <1>2, LibreEs
<1>5. Charla(r, Append(ped, m), can, t)
  <2>1. Charla(k, ped, can, t)
    BY <1>1, <1>2 DEF Contexto
  <2>2. m \in Mensajes /\ EsPedido(m) /\ Espera(r, m.pid)
    BY <1>2, <1>4 DEF Mensajes, EsPedido, Espera
  <2> QED BY <1>3, <2>1, <2>2, CharlaDice
<1>6. \A d \in CPUs : Turno(d)'
  <2>1. \A d \in CPUs : cpu[d].pid # p
    BY <1>1, <1>3, NadieLoTiene
  <2>2. estado'[p] = "exec" /\ \A q \in Procesos : estado[q] = "exec" => estado'[q] = "exec"
    BY <1>1, <1>3 DEF Tipos
  <2>3. \A d \in CPUs \ {c} : cpu[d].fase # "libre" => estado'[cpu[d].pid] = "exec"
    BY <1>1, <2>2 DEF Turno
  <2> QED BY <1>1, <1>3, <1>4, <2>1, <2>2, <2>3, TurnoPasa
<1>7. /\ \A d \in CPUs \ {c} : cpu'[d] = cpu[d] /\ pedidos'[d] = pedidos[d] /\ canal'[d] = canal[d]
      /\ cpu'[c] = r /\ pedidos'[c] = Append(ped, m) /\ canal'[c] = can
      /\ pedidos' = [x \in CPUs |-> pedidos'[x]]
  BY <1>1, <1>2, <1>3 DEF Formas, Tipos
<1>8. /\ conectadas' \subseteq CPUs /\ pcGuardado' \in [Procesos -> Nat]
      /\ segMax' \in [CPUs -> {0, SegMax}]
      /\ estado' \in [Procesos -> {"listo", "exec", "fin", "borrado"}]
  BY <1>1, <1>3 DEF Tipos
<1> QED BY <1>2, <1>3, <1>4, <1>5, <1>6, <1>7, <1>8, UnoPasa

LEMMA TablasPasa ==
  ASSUME Formas, PrivadoInv, NEW p \in Procesos,
         CrearSegmento(p) \/ EliminarSegmento(p) \/ EliminarProceso(p)
  PROVE  PrivadoInv'
<1>1. /\ Mapa /\ Tablas /\ Tipos /\ \A x \in CPUs : Turno(x) /\ Contexto(x) /\ Anda(x)
      /\ \A x \in CPUs : Turno(x)
  BY DEF PrivadoInv, Todos
<1>2. Mapa' /\ Tablas' /\ \A q \in Procesos \ {p} : tabla'[q] = tabla[q]
  BY <1>1, TablasCrear, TablasEliminar
<1>3. estado[p] # "exec"
  BY DEF CrearSegmento, EliminarSegmento, EliminarProceso
<1>4. UNCHANGED <<hiloMS, base, conectadas, pcGuardado, pedidos, canal, cpu, segMax, memoria, leido, avance>>
  BY DEF CrearSegmento, EliminarSegmento, EliminarProceso, SoloTablas, kmCPU, enCPU, ms
<1>5. estado' = estado \/ estado' = [estado EXCEPT ![p] = "borrado"]
  BY DEF CrearSegmento, EliminarSegmento, EliminarProceso
<1>6. Tipos'
  <2>1. huecos' \subseteq Nat
    BY <1>2 DEF Mapa
  <2> QED BY <1>1, <1>4, <1>5, <2>1 DEF Tipos
<1>7. MapaSigue
  BY <1>4 DEF MapaSigue, Arriba
<1>8. \A d \in CPUs : Contexto(d)' /\ Anda(d)'
  <2> TAKE d \in CPUs
  <2>1. cpu[d].pid # p /\ (cpu[d].fase # "libre" => cpu[d].pid \in Procesos)
    BY <1>1, <1>3, NadieLoTiene DEF Turno
  <2>2. Quieto(d)
    BY <1>2, <1>4, <2>1 DEF Quieto
  <2> QED BY <1>1, <1>7, <2>2, Quietos
<1>9. \A d \in CPUs : Turno(d)'
  <2>1. \A q \in Procesos : estado[q] = "exec" => estado'[q] = "exec"
    BY <1>1, <1>3, <1>5 DEF Tipos
  <2> QED BY <1>1, <1>4, <2>1, TurnosIgual
<1> QED BY <1>2, <1>6, <1>8, <1>9 DEF PrivadoInv, Todos

LEMMA NadaPasa ==
  ASSUME Formas, PrivadoInv, UNCHANGED <<total, huecos, hiloMS, base, conectadas, pcGuardado, tabla, pedidos,
                                   canal, cpu, segMax, memoria, leido, avance, estado>>
  PROVE  PrivadoInv'
<1>1. /\ Mapa /\ Tablas /\ Tipos /\ \A x \in CPUs : Turno(x) /\ Contexto(x) /\ Anda(x)
      /\ \A x \in CPUs : Turno(x)
  BY DEF PrivadoInv, Todos
<1>2. Mapa' /\ Tablas'
  <2>1. huecos' \subseteq 0 .. total - 1 /\ huecos' \ huecos = {} /\ total \in Nat
    BY <1>1 DEF Mapa
  <2> QED BY <1>1, <2>1, MapaIgual, TablasIgual
<1>3. MapaSigue
  BY DEF MapaSigue, Arriba
<1>4. \A d \in CPUs : Contexto(d)' /\ Anda(d)'
  <2> TAKE d \in CPUs
  <2>1. Quieto(d)
    BY DEF Quieto
  <2> QED BY <1>1, <1>3, <2>1, Quietos
<1>5. \A d \in CPUs : Turno(d)'
  BY <1>1, TurnosIgual
<1>6. Tipos'
  BY <1>1 DEF Tipos
<1> QED BY <1>2, <1>4, <1>5, <1>6 DEF PrivadoInv, Todos

LEMMA PrivadoAlInicio == Init => PrivadoInv
<1> SUFFICES ASSUME Init PROVE PrivadoInv
  OBVIOUS
<1>1. Mapa /\ Tablas
  BY MapaAlInicio
<1>2. Tipos
  <2>1. \A s \in Sticks : memoria[s] \in [0 .. Tamano[s] - 1 -> Nat]
    BY DEF Init
  <2>2. huecos \subseteq Nat
    BY <1>1 DEF Mapa
  <2> QED BY <2>1, <2>2 DEF Init, Tipos
<1>3. \A c \in CPUs : Turno(c)
  <2>1. Libre.fase = "libre"
    BY DEF Libre
  <2> QED BY <2>1 DEF Init, Turno
<1>4. ASSUME NEW c \in CPUs PROVE Contexto(c) /\ Anda(c)
  <2>1. cpu[c] = Libre /\ pedidos[c] = <<>> /\ canal[c] = <<>>
    BY <1>4 DEF Init
  <2>2. Anda(c)
    BY <2>1, LibreEs DEF Anda
  <2>3. Libre.fase = "libre" /\ <<>> \in Seq(Mensajes) /\ DOMAIN <<>> = {}
    BY DEF Libre
  <2> QED BY <2>1, <2>2, <2>3 DEF Contexto, Charla
<1> QED BY <1>1, <1>2, <1>3, <1>4 DEF PrivadoInv, Todos

-----------------------------------------------------------------------------
LEMMA PrivadoPaso ==
  ASSUME AccesoInv, PrivadoInv, [Next]_vars
  PROVE  PrivadoInv'
<1>1. Formas /\ Listas /\ \A c \in CPUs : Sabe(c) /\ MaximoDe(c)
  BY DEF AccesoInv
<1>2. ASSUME NEW s \in Sticks, CaerStick(s) PROVE PrivadoInv'
  <2>1. UNCHANGED <<total, huecos, hiloMS, base, conectadas, pcGuardado, tabla, pedidos, canal,
                    cpu, segMax, memoria, leido, avance, estado>>
    BY <1>2 DEF CaerStick, km, kmCPU, enCPU, proceso
  <2> QED BY <1>1, <2>1, NadaPasa
<1>3. CASE UNCHANGED vars
  <2>1. UNCHANGED <<total, huecos, hiloMS, base, conectadas, pcGuardado, tabla, pedidos, canal,
                    cpu, segMax, memoria, leido, avance, estado>>
    BY <1>3 DEF vars, km, kmCPU, enCPU, ms, proceso
  <2> QED BY <1>1, <2>1, NadaPasa
<1>4. CASE Next
  <2>1. \/ \E s \in Sticks : Conectar(s) \/ CaerStick(s)
        \/ \E c \in CPUs : AtenderCPU(c) \/ EscucharKM(c) \/ Instruccion(c)
        \/ \E p \in Procesos :
             \/ CrearSegmento(p) \/ EliminarSegmento(p) \/ EliminarProceso(p)
             \/ \E c \in CPUs : Despachar(c, p)
    BY <1>4, Zenon DEF Next
  <2>2. \A s \in Sticks : Conectar(s) => PrivadoInv'
    BY <1>1, ConectarPasa
  <2>3. \A c \in CPUs : AtenderCPU(c) => PrivadoInv'
    BY <1>1, AtenderPasa
  <2>4. \A c \in CPUs : EscucharKM(c) => PrivadoInv'
    BY <1>1, EscucharPasa
  <2>5. \A c \in CPUs : Instruccion(c) => PrivadoInv'
    BY <1>1, InstruccionPasa
  <2>6. \A p \in Procesos : CrearSegmento(p) \/ EliminarSegmento(p) \/ EliminarProceso(p) => PrivadoInv'
    BY <1>1, TablasPasa
  <2>7. \A c \in CPUs, p \in Procesos : Despachar(c, p) => PrivadoInv'
    BY <1>1, DespacharPasa
  <2> QED BY <1>2, <2>1, <2>2, <2>3, <2>4, <2>5, <2>6, <2>7, Zenon
<1> QED BY <1>3, <1>4

LEMMA PrivadoInvSiempre == Spec => []PrivadoInv
<1>1. AccesoInv /\ PrivadoInv /\ [Next]_vars => PrivadoInv'
  BY PrivadoPaso
<1> QED BY <1>1, PrivadoAlInicio, AccesoInvSiempre, PTL DEF Spec

\* The variables keep their types: the MMU and the fragmentation make no piece of no bytes, no
\* address is given beyond the memory there is, no byte is both free and lost, and the cycle of
\* a CPU that has no process is the one it started with (mmu_traducir_direccion,
\* fragmentar_acceso_memoria, aumentar_memoria_total, procesar_escritura).
THEOREM TiposBien == Spec => []TypeOK
<1>1. AccesoInv /\ PrivadoInv => TypeOK
  <2> SUFFICES ASSUME AccesoInv, PrivadoInv PROVE TypeOK
    OBVIOUS
  <2>1. /\ Mapa /\ Tablas /\ Tipos /\ Formas /\ Listas
        /\ \A c \in CPUs : Turno(c) /\ Anda(c) /\ Sabe(c)
    BY DEF AccesoInv, PrivadoInv, Todos
  <2>2. total \in 0 .. Espacio /\ huecos \subseteq 0 .. total - 1
    <3>1. Arriba \subseteq Sticks
      BY DEF Arriba
    <3>2. Capacidad(Arriba) \in Nat /\ Capacidad(Arriba) <= Espacio /\ Espacio \in Nat
      BY <3>1, CapacidadUno DEF Espacio
    <3> QED BY <2>1, <3>2 DEF Mapa
  <2>3. posiciones \subseteq [ms : Sticks, base : Nat, limite : Nat]
    <3>1. ASSUME NEW s \in Sticks PROVE Posicion(s) \in [ms : Sticks, base : Nat, limite : Nat]
      <4>1. PICK b \in Nat, n \in Nat \ {0} : b = base[s] /\ n = Tamano[s]
        BY <2>1, <3>1, Constantes, CapacidadUno DEF Mapa, Espacio
      <4>2. b + n - 1 \in Nat
        OBVIOUS
      <4> QED BY <3>1, <4>1, <4>2 DEF Posicion
    <3> QED BY <2>1, <3>1 DEF Listas, Conocidos
  <2>4. \A c \in CPUs : Range(sticks[c]) \subseteq posiciones /\ segMax[c] \in {0, SegMax}
    BY <2>1 DEF Sabe, Tipos
  <2>5. ASSUME NEW c \in CPUs
        PROVE  /\ cpu[c].fase \in {"libre", "contexto", "busca", "revisa", "lee", "escribe", "fallo"}
               /\ cpu[c].frags \in Fragmentos /\ (cpu[c].fase = "libre") = (cpu[c] = Libre)
    <3>1. cpu[c] \in Registro
      BY <2>1, <2>5 DEF Anda, EsCiclo
    <3>2. cpu[c].fase \in Fases /\ cpu[c].frags \in Fragmentos
      BY <3>1 DEF Registro
    <3>3. Libre.fase = "libre" /\ (cpu[c].fase = "libre" => cpu[c] = Libre)
      BY <2>1, <2>5, LibreEs DEF Turno
    <3> QED BY <3>2, <3>3 DEF Fases
  <2>6. \A p \in Procesos : tabla[p] \subseteq [id : Segmentos, base : Nat, limite : Nat]
    BY <2>1 DEF Tablas, Segs
  <2> QED BY <2>1, <2>2, <2>3, <2>4, <2>5, <2>6 DEF TypeOK, Formas, Tipos, Mapa
<1> QED BY <1>1, AccesoInvSiempre, PrivadoInvSiempre, PTL

\* A stick is never asked for bytes it does not have, nor for a range whose end wraps: the answer
\* ERROR_OPERACION of memory_stick, which the CPU takes for data, is never sent
\* (fragmentar_acceso_memoria, procesar_lectura, procesar_escritura).
PedazosDentro == \A c \in CPUs : \A f \in Range(cpu[c].frags) :
                   DentroDe(f) /\ f.dir + f.tam <= Tamano[f.ms]
THEOREM NuncaFueraDelStick == Spec => []PedazosDentro
<1>1. PrivadoInv => PedazosDentro
  <2> SUFFICES ASSUME PrivadoInv, NEW c \in CPUs, NEW f \in Range(cpu[c].frags)
               PROVE  DentroDe(f) /\ f.dir + f.tam <= Tamano[f.ms]
    BY DEF PedazosDentro
  <2>1. EsCiclo(cpu[c]) /\ cpu[c].frags # <<>>
    BY DEF PrivadoInv, Todos, Anda, Range
  <2>2. EnCurso(cpu[c]) /\ cpu[c].frags \in Fragmentos
    BY <2>1 DEF EsCiclo, Registro
  <2>3. f \in [ms : Sticks, dir : Nat, tam : Nat \ {0}, offset : Nat]
    <3>1. PICK X : X = [ms : Sticks, dir : Nat, tam : Nat \ {0}, offset : Nat]
      OBVIOUS
    <3>2. PICK s \in Seq(X) : s = cpu[c].frags
      BY <2>2, <3>1 DEF Fragmentos
    <3>3. PICK i \in DOMAIN s : f = s[i]
      BY <3>2 DEF Range
    <3>4. f \in X
      BY <3>2, <3>3
    <3> QED BY <3>1, <3>4
  <2>4. f.dir + f.tam <= Tamano[f.ms]
    BY <2>2 DEF EnCurso, Cabe
  <2>5. PICK m \in Nat : m = f.dir + f.tam
    BY <2>3
  <2>6. Modulo \in Nat \ {0} /\ Tamano[f.ms] \in Nat
    BY <2>3, Constantes
  <2>7. m % Modulo <= m /\ m % Modulo \in Nat
    BY <2>6
  <2> QED BY <2>4, <2>5, <2>6, <2>7 DEF DentroDe, Uint
<1> QED BY <1>1, PrivadoInvSiempre, PTL

-----------------------------------------------------------------------------
(* The memory of a process, read in the sticks and in the writes in course. *)

Donde(k)    == Fisica(k.tabla, k.ins.destino)
Envia(k, d) == k.fase = "escribe" /\ Pendiente(k, d - Donde(k))

VistaBien ==
  \A d \in 0 .. total - 1 :
    /\ Vista[d] \in Nat
    /\ \A c \in CPUs : Envia(cpu[c], d) => Vista[d] = cpu[c].buf[d - Donde(cpu[c]) + 1]
    /\ (\A c \in CPUs : ~Envia(cpu[c], d)) =>
         \A s \in Arriba : d \in EnStick(s) => Vista[d] = memoria[s][d - base[s]]

\* The bytes of a range that the MMU lets through are together in one segment.
LEMMA TramoEs ==
  ASSUME Tablas, NEW p \in Procesos, NEW t, t = tabla[p], NEW dir \in Nat, NEW n \in Nat,
         n < Modulo, ConSigno(n) > 0, Traduce(t, dir, n)
  PROVE  /\ ConSigno(n) = n
         /\ \E g \in tabla[p], D \in Nat :
              /\ D = Fisica(t, dir) /\ D = g.base + (dir - SegMax * g.id) /\ g.base \in Nat
              /\ g.id \in Nat /\ SegMax * g.id \in Nat
              /\ \A d \in D .. D + n - 1 : d \in BytesDe(g)
              /\ \A a \in dir .. dir + n - 1 : a \in Logicas(g)
<1>1. ConSigno(n) = n
  BY Enteros
<1>2. t \in SUBSET Segs /\ \A g, h \in t : g.id = h.id => g = h
  BY DEF Tablas
<1>3. PICK g \in t : /\ g.id = dir \div SegMax /\ Fisica(t, dir) = g.base + (dir % SegMax)
                     /\ Fisica(t, dir) \in Nat
                     /\ ConSigno(n) > 0 /\ g.limite - g.base < SegMax =>
                          (dir % SegMax) + n <= g.limite - g.base + 1
  BY <1>2, TraduceEs
<1>4. g.limite - g.base \in 0 .. SegMax - 1 /\ g \in Segs /\ g \in tabla[p]
  BY <1>2, <1>3 DEF Tablas
<1>5. SegMax \in Nat \ {0} /\ Segmentos \subseteq Nat
  BY Constantes
<1>6. PICK b \in Nat, l \in Nat, i \in Nat, e \in Nat, m \in Nat :
        b = g.base /\ l = g.limite /\ i = g.id /\ e = dir % SegMax /\ m = SegMax * i
  <2>1. g.base \in Nat /\ g.limite \in Nat /\ g.id \in Nat
    BY <1>4, <1>5 DEF Segs
  <2>2. dir % SegMax \in Nat
    BY <1>5
  <2>3. \A x \in Nat : SegMax * x \in Nat
    BY <1>5
  <2> QED BY <2>1, <2>2, <2>3
<1>7. l - b \in 0 .. SegMax - 1 /\ l - b < SegMax
  BY <1>4, <1>5, <1>6
<1>8. e + n <= l - b + 1
  BY <1>3, <1>6, <1>7
<1>9. dir = m + e
  <2>1. dir = SegMax * (dir \div SegMax) + (dir % SegMax)
    BY <1>5
  <2> QED BY <1>3, <1>6, <2>1
<1>10. PICK D \in Nat : D = Fisica(t, dir) /\ D = b + e /\ D = b + (dir - m)
  <2>1. b + e \in Nat /\ b + (dir - m) = b + e
    BY <1>9
  <2> QED BY <1>3, <1>6, <2>1
<1>11. \A d \in D .. D + n - 1 : d \in BytesDe(g)
  <2>1. \A d \in D .. D + n - 1 : d \in b .. l
    BY <1>7, <1>8, <1>10
  <2> QED BY <1>6, <2>1 DEF BytesDe
<1>12. \A a \in dir .. dir + n - 1 : a \in Logicas(g)
  <2>1. \A a \in dir .. dir + n - 1 : a \in m .. m + l - b
    BY <1>7, <1>8, <1>9
  <2> QED BY <1>6, <2>1 DEF Logicas
<1> QED BY <1>1, <1>4, <1>6, <1>10, <1>11, <1>12

\* A write in course.
LEMMA EscrituraEs ==
  ASSUME PrivadoInv, NEW c \in CPUs, NEW k, k = cpu[c], k.fase = "escribe"
  PROVE  /\ k.pid \in Procesos /\ k.tabla = tabla[k.pid] /\ EnCurso(k) /\ k \in Registro
         /\ k.ins \in Privada!Ordenes /\ k.ins.op # "MOV_IN"
         /\ k.ins.tam \in Nat /\ k.ins.tam < Modulo /\ ConSigno(k.ins.tam) > 0
         /\ ConSigno(k.ins.tam) = k.ins.tam
         /\ k.ins.destino \in Nat /\ k.buf \in [1 .. k.ins.tam -> Nat]
         /\ Traduce(k.tabla, k.ins.destino, k.ins.tam) /\ Donde(k) \in Nat
         /\ \E g \in tabla[k.pid] : \A d \in Donde(k) .. Donde(k) + k.ins.tam - 1 : d \in BytesDe(g)
<1>1. Tablas /\ Turno(c) /\ Contexto(c) /\ Anda(c)
  BY DEF PrivadoInv, Todos
<1>2. k.pid \in Procesos /\ k.tabla = tabla[k.pid]
  BY <1>1 DEF Turno, Contexto, Charla
<1>3. EnCurso(k) /\ k \in Registro
  BY <1>1 DEF Anda, EsCiclo
<1>4. /\ k.ins \in Privada!Ordenes /\ k.ins.op # "MOV_IN" /\ ConSigno(k.ins.tam) > 0
      /\ Traduce(k.tabla, k.ins.destino, k.ins.tam)
      /\ k.buf \in [1 .. ConSigno(k.ins.tam) -> Nat]
  BY <1>3 DEF EnCurso, Desde
<1>5. k.ins.tam \in Nat /\ k.ins.tam < Modulo /\ k.ins.destino \in Nat
  BY <1>4, OrdenEs, Tamanios
<1>6. /\ ConSigno(k.ins.tam) = k.ins.tam /\ Donde(k) \in Nat
      /\ \E g \in tabla[k.pid] : \A d \in Donde(k) .. Donde(k) + k.ins.tam - 1 : d \in BytesDe(g)
  <2>1. PICK n, dir, t, p : n = k.ins.tam /\ dir = k.ins.destino /\ t = k.tabla /\ p = k.pid
    OBVIOUS
  <2>3. n \in Nat /\ dir \in Nat /\ p \in Procesos
    BY <1>2, <1>5, <2>1
  <2>2. /\ ConSigno(n) = n
        /\ \E g \in tabla[p], D \in Nat :
             D = Fisica(t, dir) /\ \A d \in D .. D + n - 1 : d \in BytesDe(g)
    BY <1>1, <1>2, <1>4, <1>5, <2>1, <2>3, TramoEs
  <2> QED BY <2>1, <2>2 DEF Donde
<1> QED BY <1>2, <1>3, <1>4, <1>5, <1>6

LEMMA PedazoEs ==
  ASSUME PrivadoInv, NEW c \in CPUs, NEW k, k = cpu[c], k.fase = "escribe",
         NEW f \in Range(k.frags)
  PROVE  /\ f \in [ms : Sticks, dir : Nat, tam : Nat \ {0}, offset : Nat] /\ f.ms \in Arriba
         /\ base[f.ms] \in Nat /\ f.dir + f.tam <= Tamano[f.ms]
         /\ base[f.ms] + f.dir = Donde(k) + f.offset /\ f.offset + f.tam <= k.ins.tam
<1>1. EnCurso(k) /\ k \in Registro
  BY EscrituraEs
<1>2. Cabe(f, Donde(k), k.ins.tam)
  BY <1>1 DEF EnCurso, Desde, Donde
<1>3. f \in [ms : Sticks, dir : Nat, tam : Nat \ {0}, offset : Nat]
  <2>1. PICK X : X = [ms : Sticks, dir : Nat, tam : Nat \ {0}, offset : Nat]
    OBVIOUS
  <2>2. PICK s \in Seq(X) : s = k.frags
    BY <1>1, <2>1 DEF Registro, Fragmentos
  <2>3. PICK i \in DOMAIN s : f = s[i]
    BY <2>2 DEF Range
  <2>4. f \in X
    BY <2>2, <2>3
  <2> QED BY <2>1, <2>4
<1>4. f.ms \in Arriba /\ f.ms \in Sticks
  BY <1>2 DEF Cabe, Arriba
<1>5. base[f.ms] \in Nat
  BY <1>4, CapacidadUno DEF PrivadoInv, Mapa, Espacio
<1> QED BY <1>2, <1>3, <1>4, <1>5 DEF Cabe

LEMMA EnviandoEs ==
  ASSUME PrivadoInv, NEW d \in Nat, NEW c \in CPUs
  PROVE  c \in Enviando(d) <=> Envia(cpu[c], d)
<1>1. PICK k : k = cpu[c]
  OBVIOUS
<1>2. CASE k.fase # "escribe"
  BY <1>1, <1>2 DEF Enviando, Envia
<1>3. CASE k.fase = "escribe"
  <2>1. ASSUME NEW f \in Range(k.frags)
        PROVE  d \in Globales(f) <=> d - Donde(k) \in f.offset .. f.offset + f.tam - 1
    <3>1. PICK b, r, n, o, D :
            b = base[f.ms] /\ r = f.dir /\ n = f.tam /\ o = f.offset /\ D = Donde(k)
      OBVIOUS
    <3>3. /\ f \in [ms : Sticks, dir : Nat, tam : Nat \ {0}, offset : Nat]
          /\ b \in Nat /\ b + r = D + o /\ D \in Nat
      BY <1>1, <1>3, <2>1, <3>1, PedazoEs, EscrituraEs
    <3>4. r \in Nat /\ n \in Nat /\ o \in Nat
      BY <3>1, <3>3
    <3>2. d \in b + r .. b + r + n - 1 <=> d - D \in o .. o + n - 1
      BY ONLY <3>3, <3>4, d \in Nat
    <3> QED BY <3>1, <3>2 DEF Globales
  <2> QED BY <1>1, <1>3, <2>1 DEF Enviando, Envia, Pendiente
<1> QED BY <1>2, <1>3

\* What is pending of a write is of a segment of its process, which one CPU has.
LEMMA EnviaEs ==
  ASSUME PrivadoInv, NEW c \in CPUs, NEW k, k = cpu[c], NEW d \in Nat, Envia(k, d)
  PROVE  /\ k.fase = "escribe" /\ d - Donde(k) \in 0 .. k.ins.tam - 1
         /\ d \in Donde(k) .. Donde(k) + k.ins.tam - 1
         /\ \A p \in Procesos : \A g \in tabla[p] : d \in BytesDe(g) => p = k.pid
<1>1. k.fase = "escribe"
  BY DEF Envia
<1>2. PICK f \in Range(k.frags) : d - Donde(k) \in f.offset .. f.offset + f.tam - 1
  BY DEF Envia, Pendiente
<1>3. PICK n \in Nat, o \in Nat, t \in Nat, D \in Nat :
        n = k.ins.tam /\ o = f.offset /\ t = f.tam /\ D = Donde(k) /\ o + t <= n
  BY <1>1, PedazoEs, EscrituraEs
<1>4. d - D \in 0 .. n - 1 /\ d \in D .. D + n - 1
  <2>1. d - D \in o .. o + t - 1
    BY <1>2, <1>3
  <2> QED BY ONLY <2>1, <1>3, d \in Nat, n \in Nat, o \in Nat, t \in Nat, D \in Nat
<1>5. PICK g \in tabla[k.pid] : \A x \in D .. D + n - 1 : x \in BytesDe(g)
  BY <1>1, <1>3, EscrituraEs
<1>6. k.pid \in Procesos /\ d \in BytesDe(g)
  BY <1>1, <1>4, <1>5, EscrituraEs
<1>7. \A p \in Procesos : \A h \in tabla[p] : d \in BytesDe(h) => p = k.pid
  BY <1>6 DEF PrivadoInv, Tablas
<1> QED BY <1>1, <1>3, <1>4, <1>7

LEMMA UnoEnvia ==
  ASSUME PrivadoInv, NEW d \in Nat, NEW c \in CPUs, Envia(cpu[c], d),
         NEW e \in CPUs, Envia(cpu[e], d)
  PROVE  c = e
<1>1. PICK k, r : k = cpu[c] /\ r = cpu[e]
  OBVIOUS
<1>2. k.fase = "escribe" /\ r.fase = "escribe"
  BY <1>1, EnviaEs
<1>3. PICK g \in tabla[k.pid] : \A x \in Donde(k) .. Donde(k) + k.ins.tam - 1 : x \in BytesDe(g)
  BY <1>1, <1>2, EscrituraEs
<1>4. d \in BytesDe(g) /\ k.pid \in Procesos
  BY <1>1, <1>2, <1>3, EnviaEs, EscrituraEs
<1>5. k.pid = r.pid
  BY <1>1, <1>3, <1>4, EnviaEs
<1> QED BY <1>1, <1>2, <1>5 DEF PrivadoInv, Todos, Turno

LEMMA VistaEs == PrivadoInv => VistaBien
<1> SUFFICES ASSUME PrivadoInv, NEW d \in 0 .. total - 1
             PROVE  /\ Vista[d] \in Nat
                    /\ \A c \in CPUs : Envia(cpu[c], d) => Vista[d] = cpu[c].buf[d - Donde(cpu[c]) + 1]
                    /\ (\A c \in CPUs : ~Envia(cpu[c], d)) =>
                         \A s \in Arriba : d \in EnStick(s) => Vista[d] = memoria[s][d - base[s]]
  BY DEF VistaBien
<1>1. d \in Nat /\ Vista[d] = Byte(d)
  BY DEF PrivadoInv, Mapa, Vista
<1>2. ASSUME NEW c \in CPUs, Envia(cpu[c], d)
      PROVE  Vista[d] \in Nat /\ Vista[d] = cpu[c].buf[d - Donde(cpu[c]) + 1]
  <2>1. PICK k : k = cpu[c]
    OBVIOUS
  <2>2. c \in Enviando(d)
    BY <1>1, <1>2, EnviandoEs
  <2>3. \A e \in Enviando(d) : e = c
    <3> TAKE e \in Enviando(d)
    <3>1. e \in CPUs /\ Envia(cpu[e], d)
      <4>1. e \in CPUs
        BY DEF Enviando
      <4> QED BY <1>1, <4>1, EnviandoEs
    <3> QED BY <1>1, <1>2, <3>1, UnoEnvia
  <2>4. c = CHOOSE x \in Enviando(d) : TRUE
    BY <2>2, <2>3
  <2>5. PICK f : f = CHOOSE x \in Range(k.frags) : d \in Globales(x)
    OBVIOUS
  <2>6. f \in Range(k.frags) /\ d \in Globales(f)
    <3>1. \E x \in Range(k.frags) : d \in Globales(x)
      BY <2>1, <2>2 DEF Enviando
    <3> QED BY <2>5, <3>1
  <2>7. Byte(d) = k.buf[f.offset + d - (base[f.ms] + f.dir) + 1]
    BY <2>1, <2>2, <2>4, <2>5 DEF Byte
  <2>8. k.fase = "escribe" /\ d - Donde(k) \in 0 .. k.ins.tam - 1
    BY <1>1, <1>2, <2>1, EnviaEs
  <2>9. /\ base[f.ms] + f.dir = Donde(k) + f.offset /\ f.offset \in Nat /\ Donde(k) \in Nat
        /\ k.buf \in [1 .. k.ins.tam -> Nat] /\ k.ins.tam \in Nat
    <3>1. /\ f \in [ms : Sticks, dir : Nat, tam : Nat \ {0}, offset : Nat]
          /\ base[f.ms] + f.dir = Donde(k) + f.offset
      BY <2>1, <2>6, <2>8, PedazoEs
    <3>2. f.offset \in Nat
      BY <3>1
    <3> QED BY <2>1, <2>8, <3>1, <3>2, EscrituraEs
  <2>10. f.offset + d - (base[f.ms] + f.dir) + 1 = d - Donde(k) + 1
    BY <1>1, <2>9
  <2>11. d - Donde(k) + 1 \in 1 .. k.ins.tam
    BY <2>8, <2>9
  <2> QED BY <1>1, <2>1, <2>7, <2>9, <2>10, <2>11
<1>3. ASSUME \A c \in CPUs : ~Envia(cpu[c], d)
      PROVE  Vista[d] \in Nat /\ \A s \in Arriba : d \in EnStick(s) => Vista[d] = memoria[s][d - base[s]]
  <2>1. Enviando(d) = {}
    <3>1. \A c \in Enviando(d) : c \in CPUs
      BY DEF Enviando
    <3> QED BY <1>1, <1>3, <3>1, EnviandoEs
  <2>2. PICK s \in Arriba : d \in EnStick(s)
    BY DEF PrivadoInv, Mapa
  <2>3. ASSUME NEW x \in Sticks PROVE d - base[x] \in DOMAIN memoria[x] <=> d \in EnStick(x)
    <3>1. DOMAIN memoria[x] = 0 .. Tamano[x] - 1
      BY <2>3 DEF PrivadoInv, Tipos
    <3>2. PICK b \in Nat, n \in Nat : b = base[x] /\ n = Tamano[x]
      BY <2>3, Constantes, CapacidadUno DEF PrivadoInv, Mapa, Espacio
    <3>3. d - b \in 0 .. n - 1 <=> d \in b .. b + n - 1
      BY <1>1, <3>2
    <3> QED BY <3>1, <3>2, <3>3 DEF EnStick
  <2>4. s \in Sticks /\ hiloMS[s] # "afuera" /\ d - base[s] \in DOMAIN memoria[s]
    BY <2>2, <2>3 DEF Arriba
  <2>5. \A x \in Sticks : hiloMS[x] # "afuera" /\ d - base[x] \in DOMAIN memoria[x] => x = s
    <3> SUFFICES ASSUME NEW x \in Sticks, hiloMS[x] # "afuera", d - base[x] \in DOMAIN memoria[x]
                 PROVE  x = s
      OBVIOUS
    <3>1. x \in Arriba /\ d \in EnStick(x)
      BY <2>3 DEF Arriba
    <3> QED BY <2>2, <3>1 DEF PrivadoInv, Mapa
  <2>6. s = CHOOSE x \in Sticks : hiloMS[x] # "afuera" /\ d - base[x] \in DOMAIN memoria[x]
    BY <2>4, <2>5
  <2>7. Byte(d) = memoria[s][d - base[s]]
    BY <2>1, <2>6 DEF Byte
  <2>8. memoria[s][d - base[s]] \in Nat
    BY <2>4 DEF PrivadoInv, Tipos
  <2>9. \A x \in Arriba : d \in EnStick(x) => x = s
    BY <2>2 DEF PrivadoInv, Mapa
  <2> QED BY <1>1, <2>7, <2>8, <2>9
<1> QED BY <1>2, <1>3

LEMMA VistaLuego == PrivadoInv' => VistaBien'
  BY VistaEs, PTL

\* Each address of a process is that of one byte of one segment.
LEMMA LogicasEs ==
  ASSUME Mapa, Tablas, NEW p \in Procesos, NEW g \in tabla[p], NEW a \in Logicas(g)
  PROVE  /\ a \in Nat /\ g.base \in Nat /\ g.id \in Segmentos /\ SegMax * g.id \in Nat
         /\ SegMax * g.id <= a /\ a - SegMax * g.id < SegMax
         /\ g.base + (a - SegMax * g.id) \in BytesDe(g)
         /\ g.base + (a - SegMax * g.id) \in 0 .. total - 1
         /\ \A h \in tabla[p] : a \in Logicas(h) => h = g
<1>1. SegMax \in Nat \ {0} /\ Segmentos \subseteq Nat
  BY Constantes
<1>2. ASSUME NEW h \in tabla[p]
      PROVE  /\ h.base \in Nat /\ h.limite \in Nat /\ h.id \in Segmentos /\ SegMax * h.id \in Nat
             /\ h.limite - h.base < SegMax /\ h.limite < total
  <2>1. h \in Segs /\ h.limite - h.base \in 0 .. SegMax - 1 /\ h.limite < total
    BY <1>2 DEF Tablas
  <2>2. h.base \in Nat /\ h.limite \in Nat /\ h.id \in Segmentos
    BY <2>1 DEF Segs
  <2>3. \A x \in Nat : SegMax * x \in Nat
    BY <1>1
  <2>4. PICK e \in 0 .. SegMax - 1 : e = h.limite - h.base
    BY <2>1
  <2>5. e < SegMax
    BY <1>1, <2>4
  <2>6. h.limite - h.base < SegMax
    BY <2>4, <2>5
  <2>7. h.id \in Nat
    BY <1>1, <2>2
  <2>8. SegMax * h.id \in Nat
    BY <2>3, <2>7
  <2> QED BY <2>1, <2>2, <2>6, <2>8
<1>3. PICK b \in Nat, l \in Nat, m \in Nat : b = g.base /\ l = g.limite /\ m = SegMax * g.id
  BY <1>2
<1>4. a \in m .. m + l - b
  BY <1>3 DEF Logicas
<1>5. l - b < SegMax /\ l < total
  BY <1>2, <1>3
<1>6. a \in Nat /\ m <= a /\ a - m < SegMax /\ b + (a - m) \in b .. l
  BY <1>1, <1>4, <1>5
<1>7. \A h \in tabla[p] : a \in Logicas(h) => h = g
  <2> SUFFICES ASSUME NEW h \in tabla[p], a \in Logicas(h) PROVE h = g
    OBVIOUS
  <2>1. PICK b2 \in Nat, l2 \in Nat, m2 \in Nat : b2 = h.base /\ l2 = h.limite /\ m2 = SegMax * h.id
    BY <1>2
  <2>2. a \in m2 .. m2 + l2 - b2 /\ l2 - b2 < SegMax
    BY <1>2, <2>1 DEF Logicas
  <2>3. m2 <= a /\ a - m2 < SegMax
    BY <1>1, <1>6, <2>1, <2>2
  <2>4. PICK i \in Nat, j \in Nat : i = g.id /\ j = h.id
    BY <1>1, <1>2
  <2>5. m = SegMax * i /\ m2 = SegMax * j
    BY <1>3, <2>1, <2>4
  <2>6. i = j
    <3>1. CASE i < j
      <4>1. SegMax * i + SegMax <= SegMax * j
        <5>1. PICK e \in Nat : j = i + 1 + e
          <6>1. j - i - 1 \in Nat /\ j = i + 1 + (j - i - 1)
            BY ONLY <3>1, i \in Nat, j \in Nat
          <6> QED BY <6>1
        <5>2. SegMax * j = SegMax * i + SegMax + SegMax * e
          BY <1>1, <5>1
        <5>3. SegMax * e \in Nat
          BY <1>1
        <5>4. SegMax * i \in Nat
          BY <1>1
        <5> QED BY <1>1, <5>2, <5>3, <5>4
      <4> QED BY <1>1, <1>6, <2>3, <2>5, <4>1
    <3>2. CASE j < i
      <4>1. SegMax * j + SegMax <= SegMax * i
        <5>1. PICK e \in Nat : i = j + 1 + e
          <6>1. i - j - 1 \in Nat /\ i = j + 1 + (i - j - 1)
            BY ONLY <3>2, i \in Nat, j \in Nat
          <6> QED BY <6>1
        <5>2. SegMax * i = SegMax * j + SegMax + SegMax * e
          BY <1>1, <5>1
        <5>3. SegMax * e \in Nat
          BY <1>1
        <5>4. SegMax * j \in Nat
          BY <1>1
        <5> QED BY <1>1, <5>2, <5>3, <5>4
      <4> QED BY <1>1, <1>6, <2>3, <2>5, <4>1
    <3> QED BY <2>4, <3>1, <3>2
  <2> QED BY <2>4, <2>6 DEF Tablas
<1>8. total \in Nat
  BY DEF Mapa
<1>9. b + (a - m) \in 0 .. total - 1
  <2>1. PICK x, y : x = b + (a - m) /\ y = total
    OBVIOUS
  <2>2. x \in b .. l /\ l < y /\ y \in Nat
    BY <1>5, <1>6, <1>8, <2>1
  <2>3. x \in 0 .. y - 1
    BY ONLY <2>2, b \in Nat, l \in Nat
  <2> QED BY <2>1, <2>3
<1> QED BY <1>2, <1>3, <1>6, <1>7, <1>9 DEF BytesDe

DatosBien ==
  /\ Datos = [p \in Procesos |-> Datos[p]]
  /\ \A p \in Procesos :
       /\ Datos[p] = [a \in DOMAIN Datos[p] |-> Datos[p][a]]
       /\ \A a : a \in DOMAIN Datos[p] <=> \E g \in tabla[p] : a \in Logicas(g)
       /\ \A g \in tabla[p] : \A a \in Logicas(g) :
            Datos[p][a] = Vista[g.base + (a - SegMax * g.id)]

LEMMA DatosEs == PrivadoInv => DatosBien
<1> SUFFICES ASSUME PrivadoInv PROVE DatosBien
  OBVIOUS
<1>1. ASSUME NEW p \in Procesos
      PROVE  /\ Datos[p] = [a \in DOMAIN Datos[p] |-> Datos[p][a]]
             /\ \A a : a \in DOMAIN Datos[p] <=> \E g \in tabla[p] : a \in Logicas(g)
             /\ \A g \in tabla[p] : \A a \in Logicas(g) :
                  Datos[p][a] = Vista[g.base + (a - SegMax * g.id)]
  <2>1. Datos[p] = [a \in UNION {Logicas(g) : g \in tabla[p]} |->
          LET g == CHOOSE x \in tabla[p] : a \in Logicas(x) IN Vista[g.base + a - SegMax * g.id]]
    BY <1>1 DEF Datos, DatosDe
  <2>2. \A a : a \in DOMAIN Datos[p] <=> \E g \in tabla[p] : a \in Logicas(g)
    BY <2>1
  <2>3. Datos[p] = [a \in DOMAIN Datos[p] |-> Datos[p][a]]
    BY <2>1
  <2>4. ASSUME NEW g \in tabla[p], NEW a \in Logicas(g)
        PROVE  Datos[p][a] = Vista[g.base + (a - SegMax * g.id)]
    <3>1. /\ a \in Nat /\ g.base \in Nat /\ SegMax * g.id \in Nat
          /\ g.base + (a - SegMax * g.id) \in 0 .. total - 1
          /\ \A h \in tabla[p] : a \in Logicas(h) => h = g
      BY <1>1, <2>4, LogicasEs DEF PrivadoInv
    <3>2. g = CHOOSE x \in tabla[p] : a \in Logicas(x)
      BY <2>4, <3>1
    <3>3. Datos[p][a] = Vista[g.base + a - SegMax * g.id]
      BY <2>1, <2>4, <3>2
    <3>4. PICK d \in 0 .. total - 1 : d = g.base + (a - SegMax * g.id)
      BY <3>1
    <3>5. d = g.base + a - SegMax * g.id
      BY <3>1, <3>4
    <3> QED BY <3>3, <3>4, <3>5
  <2> QED BY <2>2, <2>3, <2>4
<1>2. Datos = [p \in Procesos |-> Datos[p]]
  BY DEF Datos, DatosDe
<1> QED BY <1>1, <1>2 DEF DatosBien

LEMMA DatosLuego == PrivadoInv' => DatosBien'
  BY DatosEs, PTL

OrdenesBien ==
  /\ EnOrden = [p \in Procesos |-> EnOrden[p]]
  /\ \A p \in Procesos :
       /\ \A c \in CPUs : cpu[c].pid = p => EnOrden[p] = cpu[c].ins
       /\ (\A c \in CPUs : cpu[c].pid # p) => EnOrden[p] = Ninguna

LEMMA OrdenesEs == PrivadoInv => OrdenesBien
<1> SUFFICES ASSUME PrivadoInv PROVE OrdenesBien
  OBVIOUS
<1>1. EnOrden = [p \in Procesos |-> EnOrden[p]]
  BY DEF EnOrden, OrdenDe
<1>2. ASSUME NEW p \in Procesos
      PROVE  /\ \A c \in CPUs : cpu[c].pid = p => EnOrden[p] = cpu[c].ins
             /\ (\A c \in CPUs : cpu[c].pid # p) => EnOrden[p] = Ninguna
  <2>1. PICK C : C = {c \in CPUs : cpu[c].pid = p}
    OBVIOUS
  <2>2. EnOrden[p] = IF C = {} THEN Ninguna ELSE cpu[CHOOSE c \in C : TRUE].ins
    BY <1>2, <2>1 DEF EnOrden, OrdenDe
  <2>3. ASSUME NEW c \in CPUs, cpu[c].pid = p PROVE EnOrden[p] = cpu[c].ins
    <3>1. Libre.pid \notin Procesos
      BY AccesoMemoriaAssumption DEF AccesoMemoriaAssumption, Libre
    <3>2. cpu[c].fase # "libre"
      BY <1>2, <2>3, <3>1 DEF PrivadoInv, Todos, Turno
    <3>3. \A d \in C : d = c
      BY <2>1, <2>3, <3>2 DEF PrivadoInv, Todos, Turno
    <3>4. c \in C
      BY <2>1, <2>3
    <3>5. c = CHOOSE d \in C : TRUE
      BY <3>3, <3>4
    <3> QED BY <2>2, <3>4, <3>5
  <2>4. (\A c \in CPUs : cpu[c].pid # p) => EnOrden[p] = Ninguna
    BY <2>1, <2>2
  <2> QED BY <2>3, <2>4
<1> QED BY <1>1, <1>2 DEF OrdenesBien

LEMMA OrdenesLuego == PrivadoInv' => OrdenesBien'
  BY OrdenesEs, PTL

-----------------------------------------------------------------------------
(* What a step changes of the memory of the processes.                     *)

LEMMA VistaOtra ==
  ASSUME PrivadoInv, PrivadoInv', VistaBien, VistaBien', MapaSigue, total <= total',
         NEW d \in 0 .. total - 1,
         \A x \in CPUs : cpu'[x] = cpu[x] \/ (~Envia(cpu[x], d) /\ ~Envia(cpu'[x], d)),
         \A s \in Arriba : d \in EnStick(s) => memoria'[s][d - base[s]] = memoria[s][d - base[s]]
  PROVE  Vista'[d] = Vista[d]
<1>1. d \in 0 .. total' - 1
  BY DEF PrivadoInv, Mapa
<1>2. CASE \E x \in CPUs : Envia(cpu[x], d)
  <2>1. PICK x \in CPUs : Envia(cpu[x], d)
    BY <1>2
  <2>2. cpu'[x] = cpu[x]
    BY <2>1
  <2>3. Vista[d] = cpu[x].buf[d - Donde(cpu[x]) + 1]
    BY <2>1 DEF VistaBien
  <2>4. Vista'[d] = cpu'[x].buf[d - Donde(cpu'[x]) + 1]
    <3>1. Envia(cpu'[x], d)
      BY <2>1, <2>2
    <3> QED BY <1>1, <3>1 DEF VistaBien
  <2> QED BY <2>2, <2>3, <2>4
<1>3. CASE \A x \in CPUs : ~Envia(cpu[x], d)
  <2>1. \A x \in CPUs : ~Envia(cpu'[x], d)
    BY <1>3
  <2>2. PICK s \in Arriba : d \in EnStick(s)
    BY DEF PrivadoInv, Mapa
  <2>3. s \in Arriba' /\ d \in EnStick(s)' /\ base'[s] = base[s]
    BY <2>2 DEF MapaSigue, EnStick
  <2>4. Vista[d] = memoria[s][d - base[s]]
    BY <1>3, <2>2 DEF VistaBien
  <2>5. Vista'[d] = memoria'[s][d - base'[s]]
    BY <1>1, <2>1, <2>3 DEF VistaBien
  <2> QED BY <2>2, <2>3, <2>4, <2>5
<1> QED BY <1>2, <1>3

\* A CPU writes a piece: the process saw its bytes already.
LEMMA VistaEscribe ==
  ASSUME PrivadoInv, PrivadoInv', VistaBien, VistaBien', UNCHANGED <<total, base, hiloMS>>,
         NEW c \in CPUs, NEW k, cpu' = [cpu EXCEPT ![c] = k], k.tabla = cpu[c].tabla,
         NEW f, Escribe(c, k, f), NEW d \in 0 .. total - 1, Formas
  PROVE  Vista'[d] = Vista[d]
<1>1. PICK q : q = cpu[c]
  OBVIOUS
<1>2. cpu'[c] = k /\ (\A x \in CPUs \ {c} : cpu'[x] = cpu[x]) /\ MapaSigue /\ d \in Nat
  BY DEF Formas, MapaSigue, Arriba
<1>3. /\ q.fase = "escribe" /\ q.frags # <<>> /\ f = Head(q.frags) /\ q.frags \in Fragmentos
      /\ q \in Registro
  <2>1. q.fase = "escribe" /\ q.frags # <<>> /\ f = Head(q.frags)
    BY <1>1 DEF Escribe
  <2>2. q \in Registro
    BY <1>1, <2>1, EscrituraEs
  <2> QED BY <2>1, <2>2 DEF Registro
<1>4. Range(q.frags) = {f} \cup Range(Tail(q.frags)) /\ f \in Range(q.frags)
  BY <1>3, Siguientes
<1>5. /\ f \in [ms : Sticks, dir : Nat, tam : Nat \ {0}, offset : Nat] /\ f.ms \in Arriba
      /\ base[f.ms] \in Nat /\ f.dir + f.tam <= Tamano[f.ms]
      /\ base[f.ms] + f.dir = Donde(q) + f.offset /\ f.offset + f.tam <= q.ins.tam
  BY <1>1, <1>3, <1>4, PedazoEs
<1>6. PICK D, b, e, t, o : D = Donde(q) /\ b = base[f.ms] /\ e = f.dir /\ t = f.tam /\ o = f.offset
  OBVIOUS
<1>7. /\ D \in Nat /\ b \in Nat /\ e \in Nat /\ t \in Nat /\ o \in Nat /\ b + e = D + o
      /\ f.ms \in Sticks /\ Tamano[f.ms] \in Nat /\ e + t <= Tamano[f.ms]
  <2>1. D \in Nat
    BY <1>1, <1>3, <1>6, EscrituraEs
  <2>2. e \in Nat /\ t \in Nat /\ o \in Nat /\ f.ms \in Sticks
    BY <1>5, <1>6
  <2> QED BY <1>5, <1>6, <2>1, <2>2, Constantes
<1>8. PICK mem : mem = [x \in 0 .. Tamano[f.ms] - 1 |->
                         IF x \in e .. e + t - 1 THEN q.buf[o + x - e + 1] ELSE memoria[f.ms][x]]
  OBVIOUS
<1>9. memoria'[f.ms] = mem /\ \A s \in Sticks \ {f.ms} : memoria'[s] = memoria[s]
  <2>1. memoria' = [memoria EXCEPT ![f.ms] = mem]
    BY <1>1, <1>6, <1>8 DEF Escribe
  <2>2. memoria = [s \in Sticks |-> memoria[s]]
    BY DEF PrivadoInv, Tipos
  <2> QED BY <1>7, <2>1, <2>2
<1>10. CASE Envia(k, d)
  <2>1. k.fase = "escribe"
    BY <1>10 DEF Envia
  <2>2. k.ins = q.ins /\ k.buf = q.buf /\ Range(k.frags) \subseteq Range(q.frags)
    BY <1>1, <1>4, <2>1 DEF Escribe
  <2>3. Donde(k) = D
    BY <1>1, <1>6, <2>2 DEF Donde
  <2>4. Envia(q, d)
    BY <1>3, <1>6, <1>10, <2>2, <2>3 DEF Envia, Pendiente
  <2>5. Vista[d] = q.buf[d - D + 1]
    BY <1>1, <1>6, <2>4 DEF VistaBien
  <2>6. Vista'[d] = k.buf[d - D + 1]
    BY <1>2, <1>10, <2>3 DEF VistaBien
  <2> QED BY <2>2, <2>5, <2>6
<1>11. CASE ~Envia(k, d) /\ d - D \in o .. o + t - 1
  <2>1. Envia(q, d)
    BY <1>3, <1>4, <1>6, <1>11 DEF Envia, Pendiente
  <2>2. Vista[d] = q.buf[d - D + 1]
    BY <1>1, <1>6, <2>1 DEF VistaBien
  <2>3. \A x \in CPUs : ~Envia(cpu'[x], d)
    <3> TAKE x \in CPUs
    <3>1. CASE x = c
      BY <1>2, <1>11, <3>1
    <3>2. CASE x # c
      <4>1. ~Envia(cpu[x], d)
        BY <1>1, <1>2, <2>1, <3>2, UnoEnvia
      <4> QED BY <1>2, <3>2, <4>1
    <3> QED BY <3>1, <3>2
  <2>4. d - b \in e .. e + t - 1 /\ d - b \in 0 .. Tamano[f.ms] - 1 /\ o + (d - b) - e + 1 = d - D + 1
        /\ d \in b .. b + Tamano[f.ms] - 1
    <3>1. PICK T \in Nat : T = Tamano[f.ms]
      BY <1>7
    <3>2. d - b \in e .. e + t - 1 /\ d - b \in 0 .. T - 1 /\ o + (d - b) - e + 1 = d - D + 1
          /\ d \in b .. b + T - 1
      BY ONLY <1>2, <1>7, <1>11, <3>1
    <3> QED BY <3>1, <3>2
  <2>5. mem[d - b] = q.buf[d - D + 1]
    BY <1>8, <2>4
  <2>6. d \in EnStick(f.ms)' /\ f.ms \in Arriba' /\ base'[f.ms] = b
    BY <1>2, <1>5, <1>6, <2>4 DEF EnStick, MapaSigue
  <2>7. Vista'[d] = memoria'[f.ms][d - base'[f.ms]]
    BY <2>3, <2>6 DEF VistaBien
  <2> QED BY <1>9, <2>2, <2>5, <2>6, <2>7
<1>12. CASE ~Envia(k, d) /\ d - D \notin o .. o + t - 1
  <2>1. ~Envia(q, d)
    <3> SUFFICES ASSUME Envia(q, d) PROVE FALSE
      OBVIOUS
    <3>1. PICK h \in Range(q.frags) : d - D \in h.offset .. h.offset + h.tam - 1
      BY <1>6 DEF Envia, Pendiente
    <3>2. h \in Range(Tail(q.frags))
      BY <1>4, <1>6, <1>12, <3>1
    <3>3. Tail(q.frags) # <<>>
      BY <3>2 DEF Range
    <3>4. k.fase = "escribe" /\ k.ins = q.ins /\ k.frags = Tail(q.frags)
      BY <1>1, <3>3 DEF Escribe
    <3>5. Donde(k) = D
      BY <1>1, <1>6, <3>4 DEF Donde
    <3> QED BY <1>12, <3>1, <3>2, <3>4, <3>5 DEF Envia, Pendiente
  <2>2. \A x \in CPUs : cpu'[x] = cpu[x] \/ (~Envia(cpu[x], d) /\ ~Envia(cpu'[x], d))
    BY <1>1, <1>2, <1>12, <2>1
  <2>3. ASSUME NEW s \in Arriba, d \in EnStick(s)
        PROVE  memoria'[s][d - base[s]] = memoria[s][d - base[s]]
    <3>1. CASE s # f.ms
      BY <1>9, <2>3, <3>1 DEF Arriba
    <3>2. CASE s = f.ms
      <4>1. PICK T \in Nat : T = Tamano[f.ms]
        BY <1>7
      <4>2. d \in b .. b + T - 1
        BY <1>6, <2>3, <3>2, <4>1 DEF EnStick
      <4>3. d - b \in 0 .. T - 1 /\ d - b \notin e .. e + t - 1
        BY ONLY <1>2, <1>7, <1>12, <4>1, <4>2
      <4>4. mem[d - b] = memoria[f.ms][d - b]
        BY <1>8, <4>1, <4>3
      <4> QED BY <1>6, <1>9, <3>2, <4>4
    <3> QED BY <3>1, <3>2
  <2>4. total <= total'
    BY DEF PrivadoInv, Mapa
  <2> QED BY <1>2, <2>2, <2>3, <2>4, VistaOtra
<1> QED BY <1>10, <1>11, <1>12

\* A process whose table and bytes stay sees the same memory.
LEMMA DatosIgual ==
  ASSUME Mapa, Tablas, DatosBien, DatosBien', NEW p \in Procesos, tabla'[p] = tabla[p],
         \A g \in tabla[p] : \A d \in 0 .. total - 1 : d \in BytesDe(g) => Vista'[d] = Vista[d]
  PROVE  Datos'[p] = Datos[p]
<1>1. \A a : a \in DOMAIN Datos'[p] <=> a \in DOMAIN Datos[p]
  BY DEF DatosBien
<1>2. \A a \in DOMAIN Datos[p] : Datos'[p][a] = Datos[p][a]
  <2> TAKE a \in DOMAIN Datos[p]
  <2>1. PICK g \in tabla[p] : a \in Logicas(g)
    BY DEF DatosBien
  <2>2. PICK d : d = g.base + (a - SegMax * g.id)
    OBVIOUS
  <2>3. d \in BytesDe(g) /\ d \in 0 .. total - 1
    BY <2>1, <2>2, LogicasEs
  <2>4. Datos[p][a] = Vista[d] /\ Datos'[p][a] = Vista'[d]
    BY <2>1, <2>2 DEF DatosBien
  <2> QED BY <2>3, <2>4
<1>3. Datos[p] = [a \in DOMAIN Datos[p] |-> Datos[p][a]] /\ Datos'[p] = [a \in DOMAIN Datos'[p] |-> Datos'[p][a]]
  BY DEF DatosBien
<1> QED BY <1>1, <1>2, <1>3

\* Only the bytes from D on, n of them, have changed: they are those of a range of p.
LEMMA DatosDestino ==
  ASSUME Mapa, Tablas, DatosBien, DatosBien', UNCHANGED tabla, NEW p \in Procesos, NEW t, t = tabla[p],
         NEW dir \in Nat, NEW n \in Nat, n < Modulo, ConSigno(n) > 0, Traduce(t, dir, n),
         NEW D, D = Fisica(t, dir),
         \A d \in 0 .. total - 1 : d \notin D .. D + n - 1 => Vista'[d] = Vista[d]
  PROVE  /\ \A q \in Procesos \ {p} : Datos'[q] = Datos[q]
         /\ DOMAIN Datos'[p] = DOMAIN Datos[p]
         /\ \A a \in dir .. dir + n - 1 : /\ a \in DOMAIN Datos[p] /\ D + (a - dir) \in 0 .. total - 1
                                          /\ Datos[p][a] = Vista[D + (a - dir)]
                                          /\ Datos'[p][a] = Vista'[D + (a - dir)]
         /\ \A a \in DOMAIN Datos[p] : a \notin dir .. dir + n - 1 => Datos'[p][a] = Datos[p][a]
<1>1. PICK g \in tabla[p] :
        /\ D \in Nat /\ D = g.base + (dir - SegMax * g.id) /\ g.base \in Nat
        /\ SegMax * g.id \in Nat
        /\ \A d \in D .. D + n - 1 : d \in BytesDe(g)
        /\ \A a \in dir .. dir + n - 1 : a \in Logicas(g)
  <2>1. PICK g \in tabla[p], E \in Nat :
          /\ E = Fisica(t, dir) /\ E = g.base + (dir - SegMax * g.id) /\ g.base \in Nat
          /\ SegMax * g.id \in Nat
          /\ \A d \in E .. E + n - 1 : d \in BytesDe(g)
          /\ \A a \in dir .. dir + n - 1 : a \in Logicas(g)
    <3>1. t = tabla[p]
      OBVIOUS
    <3> QED BY <3>1, TramoEs
  <2> QED BY <2>1
<1>2. ASSUME NEW q \in Procesos \ {p} PROVE Datos'[q] = Datos[q]
  <2>1. ASSUME NEW h \in tabla[q], NEW d \in 0 .. total - 1, d \in BytesDe(h)
        PROVE  Vista'[d] = Vista[d]
    <3>1. d \notin BytesDe(g)
      BY <1>2, <2>1 DEF Tablas
    <3>2. d \notin D .. D + n - 1
      BY <1>1, <3>1
    <3> QED BY <2>1, <3>2
  <2> QED BY <1>2, <2>1, DatosIgual
<1>3. DOMAIN Datos'[p] = DOMAIN Datos[p]
  BY DEF DatosBien
<1>4. ASSUME NEW a \in dir .. dir + n - 1
      PROVE  /\ a \in DOMAIN Datos[p] /\ D + (a - dir) \in 0 .. total - 1
             /\ Datos[p][a] = Vista[D + (a - dir)] /\ Datos'[p][a] = Vista'[D + (a - dir)]
  <2>1. a \in Logicas(g)
    BY <1>1, <1>4
  <2>2. PICK d : d = g.base + (a - SegMax * g.id)
    OBVIOUS
  <2>3. d \in 0 .. total - 1
    BY <2>1, <2>2, LogicasEs
  <2>4. d = D + (a - dir)
    <3>1. PICK m \in Nat, b \in Nat : m = SegMax * g.id /\ b = g.base
      BY <1>1
    <3>2. D = b + (dir - m) /\ d = b + (a - m) /\ a \in Int
      BY <1>1, <1>4, <2>2, <3>1
    <3> QED BY ONLY <3>1, <3>2, dir \in Nat, m \in Nat, b \in Nat
  <2>5. a \in DOMAIN Datos[p] /\ Datos[p][a] = Vista[d] /\ Datos'[p][a] = Vista'[d]
    BY <2>1, <2>2 DEF DatosBien
  <2> QED BY <2>3, <2>4, <2>5
<1>5. ASSUME NEW a \in DOMAIN Datos[p], a \notin dir .. dir + n - 1
      PROVE  Datos'[p][a] = Datos[p][a]
  <2>1. PICK h \in tabla[p] : a \in Logicas(h)
    BY <1>5 DEF DatosBien
  <2>2. PICK d : d = h.base + (a - SegMax * h.id)
    OBVIOUS
  <2>3. d \in 0 .. total - 1 /\ d \in BytesDe(h) /\ a \in Nat
    BY <2>1, <2>2, LogicasEs
  <2>4. d \notin D .. D + n - 1
    <3> SUFFICES ASSUME d \in D .. D + n - 1 PROVE FALSE
      OBVIOUS
    <3>1. h = g
      BY <1>1, <2>3 DEF Tablas
    <3>2. PICK m \in Nat, b \in Nat : m = SegMax * g.id /\ b = g.base
      BY <1>1
    <3>3. D = b + (dir - m) /\ d = b + (a - m) /\ D \in Nat
      BY <1>1, <2>2, <3>1, <3>2
    <3>4. a \in dir .. dir + n - 1
      <4>1. d \in D .. D + n - 1 /\ a \in Nat
        BY <2>3
      <4> QED BY ONLY <3>2, <3>3, <4>1, dir \in Nat, m \in Nat, b \in Nat, n \in Nat
    <3> QED BY <1>5, <3>4
  <2>5. Datos[p][a] = Vista[d] /\ Datos'[p][a] = Vista'[d]
    BY <2>1, <2>2 DEF DatosBien
  <2> QED BY <2>3, <2>4, <2>5
<1> QED BY <1>2, <1>3, <1>4, <1>5

IgualVista == \A d \in 0 .. total - 1 : Vista'[d] = Vista[d]

LEMMA VistaSerena ==
  ASSUME PrivadoInv, PrivadoInv', MapaSigue, total <= total', UNCHANGED memoria,
         \A x \in CPUs : cpu'[x] = cpu[x] \/ (cpu[x].fase # "escribe" /\ cpu'[x].fase # "escribe")
  PROVE  IgualVista
<1> SUFFICES ASSUME NEW d \in 0 .. total - 1 PROVE Vista'[d] = Vista[d]
  BY DEF IgualVista
<1>1. VistaBien /\ VistaBien'
  BY VistaEs, VistaLuego
<1>2. \A x \in CPUs : cpu'[x] = cpu[x] \/ (~Envia(cpu[x], d) /\ ~Envia(cpu'[x], d))
  BY DEF Envia
<1> QED BY <1>1, <1>2, VistaOtra

LEMMA DatosIguales ==
  ASSUME PrivadoInv, PrivadoInv', UNCHANGED tabla, IgualVista
  PROVE  UNCHANGED Datos
<1>1. DatosBien /\ DatosBien' /\ Mapa /\ Tablas
  BY DatosEs, DatosLuego DEF PrivadoInv
<1>2. \A p \in Procesos : Datos'[p] = Datos[p]
  BY <1>1, DatosIgual DEF IgualVista
<1>3. Datos = [p \in Procesos |-> Datos[p]] /\ Datos' = [p \in Procesos |-> Datos'[p]]
  BY <1>1 DEF DatosBien
<1> QED BY <1>2, <1>3

\* A CPU shows no instruction before the step nor after it.
Callada(x) == cpu[x].ins = Ninguna /\ cpu'[x].ins = Ninguna
Sigue(x)   == cpu'[x].pid = cpu[x].pid /\ cpu'[x].ins = cpu[x].ins

LEMMA OrdenesIguales ==
  ASSUME PrivadoInv, PrivadoInv', \A x \in CPUs : Sigue(x) \/ Callada(x)
  PROVE  UNCHANGED EnOrden
<1>1. OrdenesBien /\ OrdenesBien'
  BY OrdenesEs, OrdenesLuego
<1>2. ASSUME NEW p \in Procesos PROVE EnOrden'[p] = EnOrden[p]
  <2>1. ASSUME NEW x \in CPUs, cpu[x].pid = p, Sigue(x) PROVE EnOrden'[p] = EnOrden[p]
    BY <1>1, <1>2, <2>1 DEF Sigue, OrdenesBien
  <2>2. ASSUME NEW x \in CPUs, cpu'[x].pid = p, Sigue(x) PROVE EnOrden'[p] = EnOrden[p]
    BY <1>1, <1>2, <2>2 DEF Sigue, OrdenesBien
  <2>3. CASE \A x \in CPUs : (cpu[x].pid = p \/ cpu'[x].pid = p) => Callada(x)
    <3>1. EnOrden[p] = Ninguna
      BY <1>1, <1>2, <2>3 DEF Callada, OrdenesBien
    <3>2. EnOrden'[p] = Ninguna
      BY <1>1, <1>2, <2>3 DEF Callada, OrdenesBien
    <3> QED BY <3>1, <3>2
  <2> QED BY <2>1, <2>2, <2>3
<1>3. EnOrden = [p \in Procesos |-> EnOrden[p]] /\ EnOrden' = [p \in Procesos |-> EnOrden'[p]]
  BY <1>1 DEF OrdenesBien
<1> QED BY <1>2, <1>3

LEMMA OrdenCambia ==
  ASSUME PrivadoInv, PrivadoInv', NEW c \in CPUs, \A x \in CPUs \ {c} : cpu'[x] = cpu[x],
         NEW p \in Procesos, cpu[c].pid = p, cpu'[c].pid = p
  PROVE  /\ EnOrden[p] = cpu[c].ins /\ EnOrden'[p] = cpu'[c].ins
         /\ EnOrden' = [EnOrden EXCEPT ![p] = cpu'[c].ins]
<1>1. OrdenesBien /\ OrdenesBien'
  BY OrdenesEs, OrdenesLuego
<1>2. EnOrden[p] = cpu[c].ins /\ EnOrden'[p] = cpu'[c].ins
  BY <1>1 DEF OrdenesBien
<1>3. ASSUME NEW q \in Procesos \ {p} PROVE EnOrden'[q] = EnOrden[q]
  <2>1. CASE \E x \in CPUs : cpu[x].pid = q
    <3>1. PICK x \in CPUs : cpu[x].pid = q
      BY <2>1
    <3>2. cpu'[x] = cpu[x]
      BY <1>3, <3>1
    <3> QED BY <1>1, <1>3, <3>1, <3>2 DEF OrdenesBien
  <2>2. CASE \A x \in CPUs : cpu[x].pid # q
    <3>1. \A x \in CPUs : cpu'[x].pid # q
      BY <1>3, <2>2
    <3> QED BY <1>1, <1>3, <2>2, <3>1 DEF OrdenesBien
  <2> QED BY <2>1, <2>2
<1>4. EnOrden = [q \in Procesos |-> EnOrden[q]] /\ EnOrden' = [q \in Procesos |-> EnOrden'[q]]
  BY <1>1 DEF OrdenesBien
<1> QED BY <1>2, <1>3, <1>4

\* A MOV_IN in course.
LEMMA LecturaEs ==
  ASSUME PrivadoInv, NEW c \in CPUs, NEW k, k = cpu[c], k.fase = "lee", k.ins.op = "MOV_IN",
         NEW D, D = Fisica(k.tabla, k.ins.origen)
  PROVE  /\ k.pid \in Procesos /\ k.tabla = tabla[k.pid] /\ EnCurso(k) /\ k \in Registro
         /\ k.ins \in Privada!Ordenes /\ k.ins.tam \in Nat /\ k.ins.tam < Modulo
         /\ ConSigno(k.ins.tam) > 0 /\ ConSigno(k.ins.tam) = k.ins.tam
         /\ k.ins.origen \in Nat /\ Traduce(k.tabla, k.ins.origen, k.ins.tam) /\ D \in Nat
         /\ \E g \in tabla[k.pid] : \A i \in 0 .. k.ins.tam - 1 :
              D + i \in BytesDe(g) /\ D + i \in 0 .. total - 1
<1>1. Mapa /\ Tablas /\ Turno(c) /\ Contexto(c) /\ Anda(c)
  BY DEF PrivadoInv, Todos
<1>2. k.pid \in Procesos /\ k.tabla = tabla[k.pid]
  BY <1>1 DEF Turno, Contexto, Charla
<1>3. EnCurso(k) /\ k \in Registro
  BY <1>1 DEF Anda, EsCiclo
<1>4. /\ k.ins \in Privada!Ordenes /\ k.frags # <<>> /\ ConSigno(k.ins.tam) > 0
      /\ Traduce(k.tabla, k.ins.origen, k.ins.tam)
  BY <1>3 DEF EnCurso, Desde
<1>5. k.ins.tam \in Nat /\ k.ins.tam < Modulo /\ k.ins.origen \in Nat
  BY <1>4, OrdenEs, Tamanios
<1>6. PICK n, dir, t, p : n = k.ins.tam /\ dir = k.ins.origen /\ t = k.tabla /\ p = k.pid
  OBVIOUS
<1>7. n \in Nat /\ dir \in Nat /\ p \in Procesos /\ t = tabla[p]
  BY <1>2, <1>5, <1>6
<1>8. /\ ConSigno(n) = n
      /\ \E g \in tabla[p], E \in Nat :
           E = Fisica(t, dir) /\ \A d \in E .. E + n - 1 : d \in BytesDe(g)
  BY <1>1, <1>4, <1>5, <1>6, <1>7, TramoEs
<1>9. PICK g \in tabla[p] : D \in Nat /\ \A d \in D .. D + n - 1 : d \in BytesDe(g)
  BY <1>6, <1>8
<1>10. \A d \in BytesDe(g) : d \in Nat => d \in 0 .. total - 1
  <2>1. g.base \in Nat /\ g.limite \in Nat /\ g.limite < total /\ total \in Nat
    BY <1>1, <1>7, <1>9 DEF Tablas, Mapa, Segs
  <2> QED BY <2>1 DEF BytesDe
<1>11. \A i \in 0 .. n - 1 : D + i \in BytesDe(g) /\ D + i \in 0 .. total - 1
  <2> TAKE i \in 0 .. n - 1
  <2>1. D + i \in D .. D + n - 1 /\ D + i \in Nat
    BY <1>7, <1>9
  <2> QED BY <1>9, <1>10, <2>1
<1> QED BY <1>2, <1>3, <1>4, <1>5, <1>6, <1>8, <1>9, <1>11

\* A CPU that is not the one of the step keeps what it has read.
LEMMA LecturasSiguen ==
  ASSUME PrivadoInv, Lecturas, NEW x \in CPUs, cpu'[x] = cpu[x],
         \A g \in tabla[cpu[x].pid] : \A d \in 0 .. total - 1 : d \in BytesDe(g) => Vista'[d] = Vista[d]
  PROVE  Lectura(x)'
<1> SUFFICES ASSUME cpu[x].fase = "lee", cpu[x].ins.op = "MOV_IN",
                    NEW i \in 0 .. cpu[x].ins.tam - 1, ~Pendiente(cpu[x], i)
             PROVE  cpu[x].buf[i + 1] = Vista'[Fisica(cpu[x].tabla, cpu[x].ins.origen) + i]
  BY DEF Lectura
<1>1. PICK k, D : k = cpu[x] /\ D = Fisica(k.tabla, k.ins.origen)
  OBVIOUS
<1>2. PICK g \in tabla[k.pid] : \A j \in 0 .. k.ins.tam - 1 :
        D + j \in BytesDe(g) /\ D + j \in 0 .. total - 1
  BY <1>1, LecturaEs
<1>3. k.buf[i + 1] = Vista[D + i]
  BY <1>1 DEF Lecturas, Lectura
<1>4. Vista'[D + i] = Vista[D + i]
  BY <1>1, <1>2
<1> QED BY <1>1, <1>3, <1>4

LEMMA LecturasIguales ==
  ASSUME PrivadoInv, Lecturas, IgualVista,
         \A x \in CPUs : cpu'[x] = cpu[x] \/ cpu'[x].fase # "lee" \/ cpu'[x].ins.op # "MOV_IN"
  PROVE  Lecturas'
<1>1. ASSUME NEW x \in CPUs PROVE Lectura(x)'
  <2>1. CASE cpu'[x] = cpu[x]
    BY <1>1, <2>1, LecturasSiguen DEF IgualVista
  <2>2. CASE cpu'[x].fase # "lee" \/ cpu'[x].ins.op # "MOV_IN"
    BY <2>2 DEF Lectura
  <2> QED BY <1>1, <2>1, <2>2
<1> QED BY <1>1 DEF Lecturas

\* Each step is one of the memory of a process, or does not show in it.
Muestra == Privada!Next /\ Lecturas'

LEMMA NoSeVeSi ==
  ASSUME PrivadoInv, PrivadoInv', Lecturas, IgualVista, UNCHANGED <<tabla, leido>>,
         \A x \in CPUs : cpu'[x] = cpu[x]
           \/ ((Sigue(x) \/ Callada(x)) /\ (cpu'[x].fase # "lee" \/ cpu'[x].ins.op # "MOV_IN"))
  PROVE  Muestra
<1>1. UNCHANGED Datos
  BY DatosIguales
<1>2. UNCHANGED EnOrden
  <2>1. \A x \in CPUs : Sigue(x) \/ Callada(x)
    BY DEF Sigue
  <2> QED BY <2>1, OrdenesIguales
<1>3. Lecturas'
  BY LecturasIguales
<1>4. Privada!Next
  BY <1>1, <1>2, Zenon DEF Privada!Next, Privada!NoSeVe, Privada!vars
<1> QED BY <1>3, <1>4 DEF Muestra

LEMMA ConectarMuestra ==
  ASSUME Formas, PrivadoInv, PrivadoInv', Lecturas, NEW s \in Sticks, Conectar(s)
  PROVE  Muestra
<1>1. UNCHANGED <<cpu, memoria, leido, tabla>>
  BY DEF Conectar, AgregarHuecoMs, AgregarPosicionMs, AvisarCPUs, SoloHiloMS, enCPU, ms, proceso
<1>2. Mapa
  BY DEF PrivadoInv
<1>3. MapaSigue /\ total <= total'
  BY <1>2, MapaConectar DEF MapaSigue
<1>4. IgualVista
  BY <1>1, <1>3, VistaSerena
<1> QED BY <1>1, <1>4, NoSeVeSi

\* Steps that leave the bytes and their places.
Reposo == UNCHANGED <<total, hiloMS, base, memoria, tabla, leido>>

LEMMA ReposoMuestra ==
  ASSUME PrivadoInv, PrivadoInv', Lecturas, Reposo,
         \A x \in CPUs : cpu'[x] = cpu[x]
           \/ /\ cpu[x].fase # "escribe" /\ cpu'[x].fase # "escribe"
              /\ Sigue(x) \/ Callada(x)
              /\ cpu'[x].fase # "lee" \/ cpu'[x].ins.op # "MOV_IN"
  PROVE  Muestra
<1>1. MapaSigue /\ total <= total'
  BY DEF Reposo, MapaSigue, Arriba, PrivadoInv, Mapa
<1>2. IgualVista
  BY <1>1, VistaSerena DEF Reposo
<1> QED BY <1>2, NoSeVeSi DEF Reposo

LEMMA QuietoMuestra ==
  ASSUME PrivadoInv, PrivadoInv', Lecturas,
         (\E s \in Sticks : CaerStick(s)) \/ (\E c \in CPUs : AtenderCPU(c)) \/ UNCHANGED vars
  PROVE  Muestra
<1>1. Reposo /\ UNCHANGED cpu
  <2>1. ASSUME NEW s \in Sticks, CaerStick(s) PROVE Reposo /\ UNCHANGED cpu
    BY <2>1 DEF CaerStick, Reposo, km, enCPU, proceso
  <2>2. ASSUME NEW c \in CPUs, AtenderCPU(c) PROVE Reposo /\ UNCHANGED cpu
    BY <2>2 DEF AtenderCPU, AgregarCPU, EnviarMSaCPU, AtenderPedido, Reposo, km, enCPU, ms, proceso
  <2>3. CASE UNCHANGED vars
    BY <2>3 DEF vars, Reposo, km, enCPU, ms, proceso
  <2> QED BY <2>1, <2>2, <2>3
<1> QED BY <1>1, ReposoMuestra

\* A CPU that is free or has a process but no access has no instruction in course.
LEMMA SinAcceso ==
  ASSUME PrivadoInv, NEW c \in CPUs, cpu[c].fase \notin {"lee", "escribe"}
  PROVE  cpu[c].ins = Ninguna
  BY DEF PrivadoInv, Todos, Anda, EsCiclo

LEMMA SinAccesoLuego ==
  ASSUME PrivadoInv', NEW c \in CPUs, cpu'[c].fase \notin {"lee", "escribe"}
  PROVE  cpu'[c].ins = Ninguna
  BY DEF PrivadoInv, Todos, Anda, EsCiclo

\* A step of one CPU that has no access in course, neither before nor after.
LEMMA SinAccesoMuestra ==
  ASSUME PrivadoInv, PrivadoInv', Lecturas, Reposo, NEW c \in CPUs,
         \A x \in CPUs \ {c} : cpu'[x] = cpu[x],
         cpu[c].fase \notin {"lee", "escribe"}, cpu'[c].fase \notin {"lee", "escribe"}
  PROVE  Muestra
<1>1. Callada(c)
  BY SinAcceso, SinAccesoLuego DEF Callada
<1> QED BY <1>1, ReposoMuestra

LEMMA EscucharMuestra ==
  ASSUME Formas, PrivadoInv, PrivadoInv', Lecturas, NEW c \in CPUs, EscucharKM(c)
  PROVE  Muestra
<1>1. Reposo
  BY DEF EscucharKM, Reposo, km, ms, proceso
<1>2. PICK m : m = Head(canal[c])
  OBVIOUS
<1>3. \/ UNCHANGED cpu
      \/ EsRespuesta(m) /\ cpu' = [cpu EXCEPT ![c].fase = "busca", ![c].pc = m.pc, ![c].tabla = m.tabla]
  BY <1>2 DEF EscucharKM, ConectarMemoryStick, RecibirContexto, EsRespuesta
<1>4. CASE UNCHANGED cpu
  BY <1>1, <1>4, ReposoMuestra
<1>5. CASE EsRespuesta(m) /\ cpu' = [cpu EXCEPT ![c].fase = "busca", ![c].pc = m.pc, ![c].tabla = m.tabla]
  <2>1. PICK r : r = ConContexto(cpu[c], m.pc, m.tabla)
    OBVIOUS
  <2>2. cpu' = [cpu EXCEPT ![c] = r]
    BY <1>5, <2>1 DEF ConContexto, Formas
  <2>3. cpu'[c] = r /\ \A x \in CPUs \ {c} : cpu'[x] = cpu[x]
    BY <2>2 DEF Formas
  <2>4. cpu[c].fase = "contexto"
    <3>1. PICK k, ped, can, t :
            k = cpu[c] /\ ped = pedidos[c] /\ can = canal[c] /\ t = tabla
      OBVIOUS
    <3>2. Charla(k, ped, can, t) /\ EsSecuencia(can)
      BY <3>1 DEF PrivadoInv, Todos, Contexto, Formas
    <3>3. can # <<>> /\ m = Head(can)
      BY <1>2, <3>1 DEF EscucharKM
    <3>4. k.fase = "contexto"
      BY ONLY <1>5, <3>2, <3>3, CharlaEscucha DEF Escuchado
    <3> QED BY <3>1, <3>4
  <2>5. r.fase = "busca"
    <3>1. cpu[c] \in Registro
      BY DEF PrivadoInv, Todos, Anda, EsCiclo
    <3> QED BY <2>1, <3>1 DEF ConContexto, Registro
  <2> QED BY <1>1, <2>3, <2>4, <2>5, SinAccesoMuestra
<1> QED BY <1>3, <1>4, <1>5

LEMMA DespacharMuestra ==
  ASSUME Formas, PrivadoInv, PrivadoInv', Lecturas, NEW c \in CPUs, NEW p \in Procesos, Despachar(c, p)
  PROVE  Muestra
<1>1. Reposo
  BY DEF Despachar, Reposo, km, ms
<1>2. PICK r : r = [Libre EXCEPT !.fase = "contexto", !.pid = p]
  OBVIOUS
<1>3. cpu[c].fase = "libre" /\ cpu' = [cpu EXCEPT ![c] = r]
  BY <1>2 DEF Despachar
<1>4. cpu'[c] = r /\ \A x \in CPUs \ {c} : cpu'[x] = cpu[x]
  BY <1>3 DEF Formas
<1>5. r.fase = "contexto"
  BY <1>2 DEF Libre
<1> QED BY <1>1, <1>3, <1>4, <1>5, SinAccesoMuestra

LEMMA DejarMuestra ==
  ASSUME Formas, PrivadoInv, PrivadoInv', Lecturas, NEW c \in CPUs, NEW pc, NEW e, Deja(c, pc, e)
  PROVE  Muestra
<1>1. Reposo
  BY DEF Deja, Devolver, SoloCPU, Reposo, km
<1>2. cpu[c].fase \in {"busca", "revisa", "fallo"} /\ cpu' = [cpu EXCEPT ![c] = Libre]
  BY DEF Deja, Devolver
<1>3. cpu'[c] = Libre /\ \A x \in CPUs \ {c} : cpu'[x] = cpu[x]
  BY <1>2 DEF Formas
<1>4. Libre.fase = "libre"
  BY DEF Libre
<1> QED BY <1>1, <1>2, <1>3, <1>4, SinAccesoMuestra

LEMMA MaximoHay ==
  ASSUME NEW S \in SUBSET Nat, IsFiniteSet(S), S # {}
  PROVE  Max(S) \in S /\ \A y \in S : y <= Max(S)
<1> DEFINE Mayores(x) == {y \in S : y > x}
           T == {Cardinality(Mayores(x)) : x \in S}
<1>1. \A x \in S : IsFiniteSet(Mayores(x)) /\ Cardinality(Mayores(x)) \in Nat
  <2> TAKE x \in S
  <2>1. Mayores(x) \in SUBSET S
    OBVIOUS
  <2>2. IsFiniteSet(Mayores(x))
    BY <2>1, FS_Subset
  <2> QED BY <2>2, FS_CardinalityType
<1>2. T \in SUBSET Nat /\ T # {}
  BY <1>1
<1>3. PICK n \in T : \A m \in T : n <= m
  BY <1>2, MenorNatural
<1>4. PICK x \in S : n = Cardinality(Mayores(x))
  BY <1>3
<1>5. \A y \in S : y <= x
  <2> SUFFICES ASSUME NEW y \in S, y > x PROVE FALSE
    OBVIOUS
  <2>1. Mayores(y) \in SUBSET Mayores(x) /\ y \in Mayores(x) /\ y \notin Mayores(y)
    <3>1. x \in Nat /\ y \in Nat /\ \A z \in S : z \in Nat
      OBVIOUS
    <3>2. \A z \in S : z > y => z > x
      BY <3>1
    <3>3. ~(y > y)
      BY <3>1
    <3> QED BY <3>2, <3>3
  <2>2. Cardinality(Mayores(y)) <= Cardinality(Mayores(x))
        /\ Cardinality(Mayores(x)) # Cardinality(Mayores(y))
    BY <1>1, <2>1, FS_Subset
  <2>3. Cardinality(Mayores(y)) \in T
    OBVIOUS
  <2>4. Cardinality(Mayores(x)) <= Cardinality(Mayores(y))
    BY <1>3, <1>4, <2>3
  <2> QED BY <1>1, <2>2, <2>4
<1>6. \A z \in S : x >= z
  BY <1>5
<1>7. Max(S) \in S /\ \A y \in S : Max(S) >= y
  BY <1>6 DEF Max
<1> QED BY <1>7

LEMMA DireccionesDe ==
  ASSUME NEW g \in Segs, g.limite - g.base \in 0 .. SegMax - 1
  PROVE  Logicas(g) \subseteq Direcciones
<1>1. SegMax \in Nat \ {0} /\ Segmentos \in SUBSET Nat
  BY Constantes
<1>2. PICK M \in Nat : M = Max(Segmentos) /\ \A y \in Segmentos : y <= M
  <2>1. IsFiniteSet(Segmentos) /\ Segmentos # {}
    BY AccesoMemoriaAssumption DEF AccesoMemoriaAssumption
  <2>2. Max(Segmentos) \in Segmentos /\ \A y \in Segmentos : y <= Max(Segmentos)
    BY <1>1, <2>1, MaximoHay
  <2> QED BY <1>1, <2>2
<1>3. PICK i \in Nat, b \in Nat, l \in Nat :
        i = g.id /\ b = g.base /\ l = g.limite /\ i <= M /\ l - b \in 0 .. SegMax - 1
  BY <1>1, <1>2 DEF Segs
<1>4. PICK m \in Nat : m = SegMax * i
  BY <1>1
<1>5. m + SegMax <= SegMax * (1 + M) /\ SegMax * (1 + M) \in Nat
  <2>1. PICK e \in Nat : M = i + e
    <3>1. M - i \in Nat /\ M = i + (M - i)
      BY <1>2, <1>3
    <3> QED BY <3>1
  <2>2. SegMax * (1 + (i + e)) = SegMax * i + SegMax + SegMax * e /\ SegMax * e \in Nat
    BY <1>1
  <2> QED BY <1>1, <1>4, <2>1, <2>2
<1>6. PICK z \in Nat : z = SegMax * (1 + M)
  BY <1>5
<1>7. m .. m + l - b \subseteq 0 .. z - 1
  BY ONLY <1>1, <1>3, <1>5, <1>6, m \in Nat, z \in Nat, l \in Nat, b \in Nat
<1>8. Logicas(g) = m .. m + l - b
  BY <1>3, <1>4 DEF Logicas
<1> QED BY <1>2, <1>6, <1>7, <1>8 DEF Direcciones

\* kernel_memory changes the table of p.
SoloTabla(p) ==
  /\ UNCHANGED <<total, hiloMS, base, memoria, cpu, leido>>
  /\ \A q \in Procesos \ {p} : tabla'[q] = tabla[q]

LEMMA TablaDeUno ==
  ASSUME PrivadoInv, PrivadoInv', Lecturas, NEW p \in Procesos, SoloTabla(p),
         NEW V, V = tabla[p] \cap tabla'[p]
  PROVE  /\ UNCHANGED EnOrden /\ Lecturas' /\ IgualVista
         /\ Datos' = [Datos EXCEPT ![p] = Datos'[p]]
         /\ \A g \in V : \A a \in Logicas(g) : Datos'[p][a] = Datos[p][a]
<1>1. MapaSigue /\ total <= total'
  BY DEF SoloTabla, MapaSigue, Arriba, PrivadoInv, Mapa
<1>2. IgualVista
  BY <1>1, VistaSerena DEF SoloTabla
<1>3. Lecturas'
  BY <1>2, LecturasIguales DEF SoloTabla
<1>4. UNCHANGED EnOrden
  BY OrdenesIguales DEF SoloTabla, Sigue
<1>5. DatosBien /\ DatosBien' /\ Mapa /\ Tablas /\ Mapa' /\ Tablas'
  BY DatosEs, DatosLuego DEF PrivadoInv
<1>6. \A q \in Procesos \ {p} : Datos'[q] = Datos[q]
  <2> TAKE q \in Procesos \ {p}
  <2>1. tabla'[q] = tabla[q]
    BY DEF SoloTabla
  <2>2. \A g \in tabla[q] : \A d \in 0 .. total - 1 : d \in BytesDe(g) => Vista'[d] = Vista[d]
    BY <1>2 DEF IgualVista
  <2> QED BY <1>5, <2>1, <2>2, DatosIgual
<1>7. Datos' = [Datos EXCEPT ![p] = Datos'[p]]
  <2>1. Datos = [q \in Procesos |-> Datos[q]] /\ Datos' = [q \in Procesos |-> Datos'[q]]
    BY <1>5 DEF DatosBien
  <2> QED BY <1>6, <2>1
<1>8. ASSUME NEW g \in V, NEW a \in Logicas(g) PROVE Datos'[p][a] = Datos[p][a]
  <2>1. PICK d : d = g.base + (a - SegMax * g.id)
    OBVIOUS
  <2>2. d \in 0 .. total - 1
    BY <1>5, <1>8, <2>1, LogicasEs
  <2>3. Datos[p][a] = Vista[d] /\ Datos'[p][a] = Vista'[d]
    BY <1>5, <1>8, <2>1 DEF DatosBien
  <2> QED BY <1>2, <2>2, <2>3 DEF IgualVista
<1> QED BY <1>2, <1>3, <1>4, <1>7, <1>8

LogicasBien ==
  \A p \in Procesos : \A g \in tabla[p] : \A a \in Logicas(g) :
    g.base + (a - SegMax * g.id) \in 0 .. total - 1
LEMMA LogicasTodas == PrivadoInv => LogicasBien
<1> SUFFICES ASSUME PrivadoInv, NEW p \in Procesos, NEW g \in tabla[p], NEW a \in Logicas(g)
             PROVE  g.base + (a - SegMax * g.id) \in 0 .. total - 1
  BY DEF LogicasBien
<1> QED BY LogicasEs DEF PrivadoInv
LEMMA LogicasLuego == PrivadoInv' => LogicasBien'
  BY LogicasTodas, PTL

LEMMA CrearMuestra ==
  ASSUME PrivadoInv, PrivadoInv', Lecturas, NEW p \in Procesos, CrearSegmento(p)
  PROVE  Muestra
<1>1. PICK g : g \notin tabla[p] /\ tabla' = [tabla EXCEPT ![p] = tabla[p] \cup {g}]
  <2>1. PICK i \in Segmentos, b \in huecos, n \in 1 .. SegMax :
          /\ \A h \in tabla[p] : h.id # i
          /\ tabla' = [tabla EXCEPT ![p] = @ \cup {[id |-> i, base |-> b, limite |-> b + n - 1]}]
    BY PideEntra DEF CrearSegmento
  <2>2. [id |-> i, base |-> b, limite |-> b + n - 1].id = i
    OBVIOUS
  <2> QED BY <2>1, <2>2
<1>2. Mapa /\ Tablas /\ Mapa' /\ Tablas' /\ tabla \in [Procesos -> SUBSET Segs]
  BY DEF PrivadoInv, Tablas
<1>3. tabla'[p] = tabla[p] \cup {g} /\ \A q \in Procesos \ {p} : tabla'[q] = tabla[q]
  BY <1>1, <1>2
<1>4. SoloTabla(p)
  BY <1>3 DEF CrearSegmento, SoloTablas, enCPU, ms, SoloTabla
<1>5. /\ UNCHANGED EnOrden /\ Lecturas' /\ Datos' = [Datos EXCEPT ![p] = Datos'[p]]
      /\ \A h \in tabla[p] : \A a \in Logicas(h) : Datos'[p][a] = Datos[p][a]
  BY <1>3, <1>4, TablaDeUno
<1>6. PICK A, L, D : A = DOMAIN Datos[p] /\ L = DOMAIN Datos'[p] /\ D = L \ A
  OBVIOUS
<1>7. DatosBien /\ DatosBien' /\ VistaBien'
  BY DatosEs, DatosLuego, VistaLuego
<1>8. A \subseteq L /\ D \subseteq Direcciones \ A /\ L = D \cup A
  <2>1. \A a \in A : a \in L
    BY <1>3, <1>6, <1>7 DEF DatosBien
  <2>2. \A a \in L : a \in Direcciones
    <3> SUFFICES ASSUME NEW a \in L PROVE a \in Direcciones
      OBVIOUS
    <3>1. PICK h \in tabla'[p] : a \in Logicas(h)
      BY <1>6, <1>7 DEF DatosBien
    <3>2. h \in Segs /\ h.limite - h.base \in 0 .. SegMax - 1
      BY <1>2, <3>1 DEF Tablas
    <3> QED BY <3>1, <3>2, DireccionesDe
  <2> QED BY <1>6, <2>1, <2>2
<1>9. ASSUME NEW a \in L PROVE Datos'[p][a] \in IF a \in D THEN Nat ELSE {Datos[p][a]}
  <2>1. CASE a \in A
    <3>1. PICK h \in tabla[p] : a \in Logicas(h)
      BY <1>6, <1>7, <2>1 DEF DatosBien
    <3> QED BY <1>5, <1>6, <2>1, <3>1
  <2>2. CASE a \notin A
    <3>1. PICK h \in tabla'[p] : a \in Logicas(h)
      BY <1>6, <1>7, <1>9 DEF DatosBien
    <3>2. PICK d : d = h.base + (a - SegMax * h.id)
      OBVIOUS
    <3>3. d \in 0 .. total' - 1
      BY <3>1, <3>2, LogicasLuego DEF LogicasBien
    <3>4. Datos'[p][a] = Vista'[d]
      BY <1>7, <3>1, <3>2 DEF DatosBien
    <3>5. Vista'[d] \in Nat
      BY <1>7, <3>3 DEF VistaBien
    <3> QED BY <1>6, <1>9, <2>2, <3>4, <3>5
  <2> QED BY <2>1, <2>2
<1>10. UNCHANGED leido
  BY <1>4 DEF SoloTabla
<1>11. Privada!Cambiar(p, D \cup A, D)
  BY <1>5, <1>6, <1>8, <1>9 DEF Privada!Cambiar, Privada!Solo
<1>12. Privada!Reservar(p, DOMAIN Datos'[p] \ DOMAIN Datos[p])
  BY <1>5, <1>6, <1>8, <1>10, <1>11 DEF Privada!Reservar
<1>13. Privada!Next
  BY <1>12, Zenon DEF Privada!Next
<1> QED BY <1>5, <1>13 DEF Muestra

LEMMA EliminarMuestra ==
  ASSUME PrivadoInv, PrivadoInv', Lecturas, NEW p \in Procesos,
         EliminarSegmento(p) \/ EliminarProceso(p)
  PROVE  Muestra
<1>1. PICK G \in SUBSET tabla[p] : tabla' = [tabla EXCEPT ![p] = G]
  <2>1. CASE EliminarSegmento(p)
    BY <2>1 DEF EliminarSegmento
  <2>2. CASE EliminarProceso(p)
    BY <2>2 DEF EliminarProceso
  <2> QED BY <2>1, <2>2
<1>2. Mapa /\ Tablas /\ tabla \in [Procesos -> SUBSET Segs]
  BY DEF PrivadoInv, Tablas
<1>3. tabla'[p] = G /\ \A q \in Procesos \ {p} : tabla'[q] = tabla[q]
  BY <1>1, <1>2
<1>4. SoloTabla(p)
  BY <1>3 DEF EliminarSegmento, EliminarProceso, SoloTablas, enCPU, ms, SoloTabla
<1>5. /\ UNCHANGED EnOrden /\ Lecturas' /\ Datos' = [Datos EXCEPT ![p] = Datos'[p]]
      /\ \A h \in G : \A a \in Logicas(h) : Datos'[p][a] = Datos[p][a]
  BY <1>1, <1>3, <1>4, TablaDeUno
<1>6. PICK A, L, D : A = DOMAIN Datos[p] /\ L = DOMAIN Datos'[p] /\ D = A \ L
  OBVIOUS
<1>7. DatosBien /\ DatosBien'
  BY DatosEs, DatosLuego
<1>8. L \subseteq A /\ D \subseteq A /\ L = A \ D
  <2>1. \A a \in L : a \in A
    BY <1>1, <1>3, <1>6, <1>7 DEF DatosBien
  <2> QED BY <1>6, <2>1
<1>9. ASSUME NEW a \in L PROVE Datos'[p][a] = Datos[p][a]
  <2>1. PICK h \in G : a \in Logicas(h)
    BY <1>3, <1>6, <1>7, <1>9 DEF DatosBien
  <2> QED BY <1>5, <2>1
<1>10. UNCHANGED leido
  BY <1>4 DEF SoloTabla
<1>11. Privada!Cambiar(p, A \ D, {})
  BY <1>5, <1>6, <1>8, <1>9 DEF Privada!Cambiar, Privada!Solo
<1>12. Privada!Devolver(p, DOMAIN Datos[p] \ DOMAIN Datos'[p])
  BY <1>5, <1>6, <1>8, <1>10, <1>11 DEF Privada!Devolver
<1>13. Privada!Next
  BY <1>12, Zenon DEF Privada!Next
<1> QED BY <1>5, <1>13 DEF Muestra

LEMMA Avanzado ==
  ASSUME Formas, NEW c \in CPUs, NEW k, Avanza(c, k)
  PROVE  /\ cpu'[c] = k /\ (\A x \in CPUs \ {c} : cpu'[x] = cpu[x]) /\ k.pid = cpu[c].pid
         /\ EsCiclo(k) /\ k.fase \in Activas \cup {"fallo"}
         /\ UNCHANGED <<total, hiloMS, base, tabla>> /\ MapaSigue
<1>1. cpu' = [cpu EXCEPT ![c] = k] /\ UNCHANGED <<total, hiloMS, base, tabla>>
  BY DEF Avanza, SoloCPU, km
<1>2. MapaSigue
  BY <1>1 DEF MapaSigue, Arriba
<1> QED BY <1>1, <1>2 DEF Formas, Avanza

LEMMA ListoEs ==
  ASSUME PrivadoInv, NEW c \in CPUs, cpu[c].fase # "libre"
  PROVE  /\ cpu[c].pid \in Procesos /\ \A x \in CPUs \ {c} : cpu[x].pid # cpu[c].pid
         /\ cpu[c].fase \in Activas => cpu[c].tabla = tabla[cpu[c].pid]
  BY DEF PrivadoInv, Todos, Turno, Contexto, Charla, Activas

\* An access in course.
LEMMA AccesoDe ==
  ASSUME NEW k, EsCiclo(k), k.fase \in {"lee", "escribe"}
  PROVE  /\ k.ins \in Privada!Ordenes /\ k.ins # Ninguna /\ k.ins.tam \in Nat /\ k.ins.tam < Modulo
         /\ k.ins.origen \in Nat /\ k.ins.destino \in Nat
         /\ Traduce(k.tabla, Desde(k), k.ins.tam)
         /\ k.ins.op = "COPY_MEM" => Traduce(k.tabla, k.ins.destino, k.ins.tam)
         /\ k.frags # <<>> => ConSigno(k.ins.tam) > 0 /\ ConSigno(k.ins.tam) = k.ins.tam
         /\ k.fase = "escribe" => k.frags # <<>> /\ k.ins.op # "MOV_IN"
         /\ k.ins.op = "MOV_IN" => k.frags # <<>>
         /\ k.buf \in [1 .. ConSigno(k.ins.tam) -> Nat]
<1>1. EnCurso(k)
  BY DEF EsCiclo
<1>2. k.ins \in Privada!Ordenes
  BY <1>1 DEF EnCurso
<1>3. /\ k.ins # Ninguna /\ k.ins.tam \in Nat /\ k.ins.tam < Modulo
      /\ k.ins.origen \in Nat /\ k.ins.destino \in Nat
  BY <1>2, OrdenEs, Tamanios
<1>4. ConSigno(k.ins.tam) > 0 => ConSigno(k.ins.tam) = k.ins.tam
  BY <1>3, Enteros
<1> QED BY <1>1, <1>2, <1>3, <1>4 DEF EnCurso

EnviosBien ==
  \A c \in CPUs : \A d \in 0 .. total - 1 : Envia(cpu[c], d) =>
    d \in Donde(cpu[c]) .. Donde(cpu[c]) + cpu[c].ins.tam - 1
LEMMA EnviosEs == PrivadoInv => EnviosBien
<1> SUFFICES ASSUME PrivadoInv, NEW c \in CPUs, NEW d \in 0 .. total - 1, Envia(cpu[c], d)
             PROVE  d \in Donde(cpu[c]) .. Donde(cpu[c]) + cpu[c].ins.tam - 1
  BY DEF EnviosBien
<1>1. d \in Nat
  BY DEF PrivadoInv, Mapa
<1> QED BY <1>1, EnviaEs
LEMMA EnviosLuego == PrivadoInv' => EnviosBien'
  BY EnviosEs, PTL

\* The bytes of a range of p are the only ones that this step of the CPU that has p may change.
Fuera(D, n, d) == d \notin D .. D + n - 1
SoloEnvian(c, k, D, n) ==
  \A d \in 0 .. total - 1 : Fuera(D, n, d) => ~Envia(cpu[c], d) /\ ~Envia(k, d)

LEMMA RangoCambia ==
  ASSUME Formas, PrivadoInv, PrivadoInv', Lecturas, NEW c \in CPUs, NEW k, Avanza(c, k),
         UNCHANGED memoria, k.fase # "lee", NEW p \in Procesos, p = cpu[c].pid,
         NEW dir \in Nat, NEW n \in Nat, n < Modulo, ConSigno(n) > 0,
         NEW t, t = tabla[p], Traduce(t, dir, n), NEW D, D = Fisica(t, dir),
         SoloEnvian(c, k, D, n)
  PROVE  /\ Lecturas' /\ Datos' = [Datos EXCEPT ![p] = Datos'[p]]
         /\ DOMAIN Datos'[p] = DOMAIN Datos[p] /\ D \in Nat
         /\ \A a \in dir .. dir + n - 1 : /\ a \in DOMAIN Datos[p] /\ D + (a - dir) \in 0 .. total - 1
                                          /\ Datos'[p][a] = Vista'[D + (a - dir)]
         /\ \A a \in DOMAIN Datos[p] : a \notin dir .. dir + n - 1 => Datos'[p][a] = Datos[p][a]
         /\ Privada!Cambiar(p, DOMAIN Datos[p], Privada!Tramo(dir, n))
<1>1. /\ cpu'[c] = k /\ (\A x \in CPUs \ {c} : cpu'[x] = cpu[x])
      /\ UNCHANGED <<total, hiloMS, base, tabla>> /\ MapaSigue
  BY Avanzado
<1>2. /\ VistaBien /\ VistaBien' /\ DatosBien /\ DatosBien' /\ Mapa /\ Tablas
      /\ total <= total' /\ total \in Nat
  BY <1>1, VistaEs, VistaLuego, DatosEs, DatosLuego DEF PrivadoInv, Mapa
<1>3. \A d \in 0 .. total - 1 : d \notin D .. D + n - 1 => Vista'[d] = Vista[d]
  <2> SUFFICES ASSUME NEW d \in 0 .. total - 1, d \notin D .. D + n - 1 PROVE Vista'[d] = Vista[d]
    OBVIOUS
  <2>1. \A x \in CPUs : cpu'[x] = cpu[x] \/ (~Envia(cpu[x], d) /\ ~Envia(cpu'[x], d))
    BY <1>1 DEF SoloEnvian, Fuera
  <2> QED BY <1>1, <1>2, <2>1, VistaOtra
<1>4. /\ \A q \in Procesos \ {p} : Datos'[q] = Datos[q]
      /\ DOMAIN Datos'[p] = DOMAIN Datos[p]
      /\ \A a \in dir .. dir + n - 1 : /\ a \in DOMAIN Datos[p] /\ D + (a - dir) \in 0 .. total - 1
                                       /\ Datos[p][a] = Vista[D + (a - dir)]
                                       /\ Datos'[p][a] = Vista'[D + (a - dir)]
      /\ \A a \in DOMAIN Datos[p] : a \notin dir .. dir + n - 1 => Datos'[p][a] = Datos[p][a]
  BY <1>1, <1>2, <1>3, DatosDestino
<1>5. Datos' = [Datos EXCEPT ![p] = Datos'[p]]
  <2>1. Datos = [q \in Procesos |-> Datos[q]] /\ Datos' = [q \in Procesos |-> Datos'[q]]
    BY <1>2 DEF DatosBien
  <2> QED BY <1>4, <2>1
<1>6. PICK g \in tabla[p] : D \in Nat /\ \A d \in D .. D + n - 1 : d \in BytesDe(g)
  BY <1>2, TramoEs
<1>7. ASSUME NEW x \in CPUs PROVE Lectura(x)'
  <2>1. CASE x = c
    BY <1>1, <2>1 DEF Lectura
  <2>2. CASE cpu'[x].fase # "lee"
    BY <2>2 DEF Lectura
  <2>3. CASE x # c /\ cpu'[x].fase = "lee"
    <3>1. cpu'[x] = cpu[x] /\ cpu[x].fase # "libre"
      BY <1>1, <1>7, <2>3
    <3>2. cpu[x].pid \in Procesos /\ cpu[x].pid # p
      BY <2>3, <3>1, ListoEs
    <3>3. ASSUME NEW h \in tabla[cpu[x].pid], NEW d \in 0 .. total - 1, d \in BytesDe(h)
          PROVE  Vista'[d] = Vista[d]
      <4>1. d \notin BytesDe(g)
        BY <1>2, <3>2, <3>3 DEF Tablas
      <4> QED BY <1>3, <1>6, <3>3, <4>1
    <3> QED BY <1>7, <3>1, <3>3, LecturasSiguen
  <2> QED BY <2>1, <2>2, <2>3
<1>8. Lecturas'
  BY <1>7 DEF Lecturas
<1>9. ASSUME NEW a \in DOMAIN Datos[p]
      PROVE  Datos'[p][a] \in IF a \in dir .. dir + n - 1 THEN Nat ELSE {Datos[p][a]}
  <2>1. CASE a \in dir .. dir + n - 1
    <3>1. PICK d : d = D + (a - dir)
      OBVIOUS
    <3>2. d \in 0 .. total' - 1 /\ Datos'[p][a] = Vista'[d]
      BY <1>1, <1>4, <2>1, <3>1
    <3> QED BY <1>2, <2>1, <3>2 DEF VistaBien
  <2>2. CASE a \notin dir .. dir + n - 1
    BY <1>4, <1>9, <2>2
  <2> QED BY <2>1, <2>2
<1>10. Privada!Cambiar(p, DOMAIN Datos[p], Privada!Tramo(dir, n))
  BY <1>4, <1>5, <1>9 DEF Privada!Cambiar, Privada!Solo, Privada!Tramo
<1> QED BY <1>4, <1>5, <1>6, <1>8, <1>10

LEMMA FueraDelDestino ==
  ASSUME PrivadoInv, PrivadoInv', NEW c \in CPUs, UNCHANGED total,
         NEW k, k = cpu'[c], NEW i, NEW t, NEW D, D = Fisica(t, i.destino),
         cpu[c].fase = "escribe" => cpu[c].ins = i /\ cpu[c].tabla = t,
         k.fase = "escribe" => k.ins = i /\ k.tabla = t
  PROVE  SoloEnvian(c, k, D, i.tam)
<1>1. EnviosBien /\ EnviosBien'
  BY EnviosEs, EnviosLuego
<1>2. ASSUME NEW d \in 0 .. total - 1, Envia(cpu[c], d) PROVE ~Fuera(D, i.tam, d)
  <2>1. d \in Donde(cpu[c]) .. Donde(cpu[c]) + cpu[c].ins.tam - 1
    BY <1>1, <1>2 DEF EnviosBien
  <2>2. cpu[c].fase = "escribe"
    BY <1>2 DEF Envia
  <2> QED BY <2>1, <2>2 DEF Fuera, Donde
<1>3. ASSUME NEW d \in 0 .. total - 1, Envia(cpu'[c], d) PROVE ~Fuera(D, i.tam, d)
  <2>1. d \in Donde(cpu'[c]) .. Donde(cpu'[c]) + cpu'[c].ins.tam - 1
    BY <1>1, <1>3 DEF EnviosBien
  <2>2. cpu'[c].fase = "escribe"
    BY <1>3 DEF Envia
  <2> QED BY <2>1, <2>2 DEF Fuera, Donde
<1> QED BY <1>2, <1>3 DEF SoloEnvian

\* MOV_OUT starts.
LEMMA EscribirMuestra ==
  ASSUME Formas, PrivadoInv, PrivadoInv', Lecturas, NEW c \in CPUs, NEW k, Avanza(c, k),
         cpu[c].fase \in {"busca", "revisa"}, UNCHANGED <<memoria, leido>>,
         NEW p \in Procesos, p = cpu[c].pid, NEW i, i = k.ins, i.op = "MOV_OUT", i.tam \in Registros,
         k.fase = "escribe", k.buf = SubSeq(Valor[p], 1, i.tam), Empezado(k)
  PROVE  Muestra
<1>1. /\ cpu'[c] = k /\ (\A x \in CPUs \ {c} : cpu'[x] = cpu[x]) /\ k.pid = p /\ EsCiclo(k)
      /\ UNCHANGED <<total, hiloMS, base, tabla>>
  BY Avanzado
<1>2. k.tabla = tabla[p]
  BY ListoEs DEF Avanza, Activas
<1>3. /\ i \in Privada!Ordenes /\ i.tam \in Nat /\ i.tam < Modulo /\ i.destino \in Nat
      /\ ConSigno(i.tam) > 0
  BY <1>1, AccesoDe
<1>4. Traduce(k.tabla, i.destino, i.tam)
  BY <1>1, AccesoDe DEF Desde
<1>5. PICK n, dir, D, t :
        n = i.tam /\ dir = i.destino /\ t = tabla[p] /\ D = Fisica(t, dir)
  OBVIOUS
<1>6. SoloEnvian(c, k, D, n)
  BY <1>1, <1>2, <1>5, FueraDelDestino
<1>7. /\ Lecturas' /\ Datos' = [Datos EXCEPT ![p] = Datos'[p]]
      /\ DOMAIN Datos'[p] = DOMAIN Datos[p] /\ D \in Nat
      /\ \A a \in dir .. dir + n - 1 : /\ a \in DOMAIN Datos[p] /\ D + (a - dir) \in 0 .. total - 1
                                       /\ Datos'[p][a] = Vista'[D + (a - dir)]
      /\ \A a \in DOMAIN Datos[p] : a \notin dir .. dir + n - 1 => Datos'[p][a] = Datos[p][a]
  <2>1. /\ ConSigno(n) > 0 /\ n < Modulo /\ Traduce(t, dir, n) /\ k.fase # "lee"
        /\ n \in Nat /\ dir \in Nat
    BY <1>2, <1>3, <1>4, <1>5
  <2>2. UNCHANGED memoria /\ p = cpu[c].pid /\ t = tabla[p] /\ D = Fisica(t, dir)
    BY <1>5
  <2>3. c \in CPUs /\ Avanza(c, k) /\ p \in Procesos /\ Formas /\ PrivadoInv /\ PrivadoInv' /\ Lecturas
    OBVIOUS
  <2> QED BY ONLY <1>6, <2>1, <2>2, <2>3, RangoCambia
<1>8. ASSUME NEW a \in dir .. dir + n - 1
      PROVE  a \in DOMAIN Datos[p] /\ Datos'[p][a] = Valor[p][a - dir + 1]
  <2>1. PICK j, d : j = a - dir /\ d = D + j
    OBVIOUS
  <2>0. j \in 0 .. n - 1 /\ n \in Nat
    BY <1>3, <1>5, <1>8, <2>1
  <2>2. d \in 0 .. total - 1 /\ Datos'[p][a] = Vista'[d] /\ a \in DOMAIN Datos[p]
    BY <1>7, <1>8, <2>1
  <2>3. Donde(k) = D
    BY <1>2, <1>5 DEF Donde
  <2>4. d - D = j /\ d - D + 1 = j + 1
    BY <1>7, <2>0, <2>1
  <2>5. Envia(k, d)
    BY <1>5, <2>0, <2>1, <2>3, <2>4 DEF Envia, Empezado
  <2>6. Vista'[d] = k.buf[j + 1]
    <3>1. VistaBien'
      BY VistaLuego
    <3> QED BY <1>1, <2>2, <2>3, <2>4, <2>5, <3>1 DEF VistaBien
  <2>7. k.buf[j + 1] = Valor[p][j + 1]
    <3>1. Valor[p] \in Seq(Nat) /\ n <= Len(Valor[p])
      BY <1>5, AccesoMemoriaAssumption DEF AccesoMemoriaAssumption
    <3>2. j + 1 \in 1 .. n
      BY <2>0
    <3>3. PICK v : v = Valor[p]
      OBVIOUS
    <3>4. k.buf = SubSeq(v, 1, n)
      BY <1>5, <3>3
    <3>5. v \in Seq(Nat) /\ n <= Len(v) /\ n \in Nat
      BY <2>0, <3>1, <3>3
    <3>6. SubSeq(v, 1, n)[j + 1] = v[j + 1]
      BY ONLY <3>2, <3>5
    <3> QED BY <3>3, <3>4, <3>6
  <2> QED BY <2>1, <2>2, <2>6, <2>7
<1>9. /\ EnOrden[p] = Ninguna /\ EnOrden'[p] = i /\ EnOrden' = [EnOrden EXCEPT ![p] = i]
  BY <1>1, OrdenCambia, SinAcceso
<1>10. Privada!Empezar(p, i)
  BY <1>9 DEF Privada!Empezar, Privada!Solo
<1>11. Datos' = [Datos EXCEPT ![p] =
         [a \in DOMAIN Datos[p] |-> IF a \in Privada!Tramo(i.destino, i.tam)
                                     THEN Valor[p][a - i.destino + 1] ELSE Datos[p][a]]]
  <2>1. PICK W : W = [a \in DOMAIN Datos[p] |-> IF a \in dir .. dir + n - 1
                                     THEN Valor[p][a - dir + 1] ELSE Datos[p][a]]
    OBVIOUS
  <2>2. Datos'[p] = W
    <3>1. DatosBien'
      BY DatosLuego
    <3>2. Datos'[p] = [a \in DOMAIN Datos'[p] |-> Datos'[p][a]]
      BY <3>1 DEF DatosBien
    <3>3. ASSUME NEW a \in DOMAIN Datos[p]
          PROVE  Datos'[p][a] = W[a]
      <4>1. CASE a \in dir .. dir + n - 1
        <5>1. Datos'[p][a] = Valor[p][a - dir + 1]
          BY <1>8, <4>1
        <5> QED BY <2>1, <3>3, <4>1, <5>1, Zenon
      <4>2. CASE a \notin dir .. dir + n - 1
        <5>1. Datos'[p][a] = Datos[p][a]
          BY <1>7, <3>3, <4>2
        <5> QED BY <2>1, <3>3, <4>2, <5>1, Zenon
      <4> QED BY <4>1, <4>2
    <3>4. PICK X, A : X = Datos'[p] /\ A = DOMAIN Datos[p]
      OBVIOUS
    <3>5. X = [a \in A |-> X[a]]
      BY <1>7, <3>2, <3>4
    <3>6. W = [a \in A |-> W[a]]
      BY <2>1, <3>4
    <3>7. \A a \in A : X[a] = W[a]
      BY <3>3, <3>4
    <3>8. X = W
      BY ONLY <3>5, <3>6, <3>7
    <3> QED BY <3>4, <3>8
  <2>3. i.destino = dir /\ i.tam = n /\ Privada!Tramo(dir, n) = dir .. dir + n - 1
    BY <1>5 DEF Privada!Tramo
  <2>4. W = [a \in DOMAIN Datos[p] |-> IF a \in Privada!Tramo(i.destino, i.tam)
                                     THEN Valor[p][a - i.destino + 1] ELSE Datos[p][a]]
    BY ONLY <2>1, <2>3, Zenon
  <2>5. Datos' = [Datos EXCEPT ![p] = W]
    BY <1>7, <2>2
  <2> QED BY ONLY <2>4, <2>5, Zenon
<1>12. Privada!Tramo(i.destino, i.tam) \subseteq DOMAIN Datos[p]
  BY <1>5, <1>8 DEF Privada!Tramo
<1>13. Privada!Escribir(p, i)
  BY <1>10, <1>11, <1>12 DEF Privada!Escribir, Privada!Solo
<1>14. Privada!Next
  <2>1. EnOrden'[p] \in Privada!Ordenes
    BY <1>3, <1>9
  <2>2. Privada!Escribir(p, EnOrden'[p])
    BY <1>9, <1>13 DEF Privada!Escribir, Privada!Empezar, Privada!Solo
  <2> QED BY <2>1, <2>2, Zenon DEF Privada!Next
<1> QED BY <1>7, <1>14 DEF Muestra

\* MOV_IN or COPY_MEM starts.
LEMMA PedirMuestra ==
  ASSUME Formas, PrivadoInv, PrivadoInv', Lecturas, NEW c \in CPUs, NEW k, Avanza(c, k),
         cpu[c].fase \in {"busca", "revisa"}, UNCHANGED <<memoria, leido>>,
         NEW i, i = k.ins, i.op # "MOV_OUT", k.fase = "lee", ConSigno(i.tam) > 0 => Empezado(k)
  PROVE  Muestra
<1>1. /\ cpu'[c] = k /\ (\A x \in CPUs \ {c} : cpu'[x] = cpu[x]) /\ k.pid = cpu[c].pid /\ EsCiclo(k)
      /\ UNCHANGED <<total, hiloMS, base, tabla>> /\ MapaSigue
  BY Avanzado
<1>2. PICK p \in Procesos : p = cpu[c].pid
  BY ListoEs
<1>3. k.tabla = tabla[p]
  BY <1>2, ListoEs DEF Avanza, Activas
<1>4. /\ i \in Privada!Ordenes /\ i.tam \in Nat /\ i.tam < Modulo /\ i.origen \in Nat
      /\ i.op = "MOV_IN" => ConSigno(i.tam) > 0
  BY <1>1, AccesoDe
<1>5. Traduce(k.tabla, i.origen, i.tam)
  BY <1>1, AccesoDe DEF Desde
<1>6. IgualVista
  <2>1. total <= total'
    BY <1>1 DEF PrivadoInv, Mapa
  <2>2. \A x \in CPUs : cpu'[x] = cpu[x] \/ (cpu[x].fase # "escribe" /\ cpu'[x].fase # "escribe")
    BY <1>1
  <2> QED BY <1>1, <2>1, <2>2, VistaSerena
<1>7. UNCHANGED Datos
  BY <1>1, <1>6, DatosIguales
<1>8. Lecturas'
  <2>1. ASSUME NEW x \in CPUs PROVE Lectura(x)'
    <3>1. CASE x = c
      <4>1. i.op = "MOV_IN" => Empezado(k)
        BY <1>4
      <4> QED BY <1>1, <3>1, <4>1 DEF Lectura, Empezado
    <3>2. CASE x # c
      <4>1. cpu'[x] = cpu[x]
        BY <1>1, <2>1, <3>2
      <4> QED BY <1>6, <2>1, <4>1, LecturasSiguen DEF IgualVista
    <3> QED BY <3>1, <3>2
  <2> QED BY <2>1 DEF Lecturas
<1>9. /\ EnOrden[p] = Ninguna /\ EnOrden'[p] = i /\ EnOrden' = [EnOrden EXCEPT ![p] = i]
  BY <1>1, <1>2, OrdenCambia, SinAcceso
<1>10. i.op = "MOV_IN" => Privada!Tramo(i.origen, i.tam) \subseteq DOMAIN Datos[p]
  <2> SUFFICES ASSUME i.op = "MOV_IN", NEW a \in i.origen .. i.origen + i.tam - 1
               PROVE  a \in DOMAIN Datos[p]
    BY DEF Privada!Tramo
  <2>1. PICK n, dir, t : n = i.tam /\ dir = i.origen /\ t = tabla[p]
    OBVIOUS
  <2>2. /\ n \in Nat /\ dir \in Nat /\ n < Modulo /\ ConSigno(n) > 0 /\ Traduce(t, dir, n) /\ Tablas
    BY <1>3, <1>4, <1>5, <2>1 DEF PrivadoInv
  <2>3. PICK g \in tabla[p] : \A e \in dir .. dir + n - 1 : e \in Logicas(g)
    BY <2>1, <2>2, TramoEs
  <2>4. DatosBien
    BY DatosEs
  <2> QED BY <2>1, <2>3, <2>4 DEF DatosBien
<1>11. EnOrden'[p] \in Privada!Ordenes
  BY <1>4, <1>9
<1>12. Privada!Pedir(p, EnOrden'[p])
  BY <1>7, <1>9, <1>10 DEF Privada!Pedir, Privada!Empezar, Privada!Solo
<1>13. Privada!Next
  BY <1>11, <1>12, Zenon DEF Privada!Next
<1> QED BY <1>8, <1>13 DEF Muestra

\* The end of an instruction, or of what it had read.
LEMMA TerminarEs ==
  ASSUME Formas, PrivadoInv, PrivadoInv', NEW c \in CPUs, NEW k, Avanza(c, k),
         cpu[c].fase \in {"lee", "escribe"}, k.ins = Ninguna, NEW p \in Procesos, p = cpu[c].pid
  PROVE  Privada!Terminar(p) /\ EnOrden[p] = cpu[c].ins
<1>1. /\ cpu'[c] = k /\ (\A x \in CPUs \ {c} : cpu'[x] = cpu[x]) /\ k.pid = p
  BY Avanzado
<1>2. cpu[c].ins # Ninguna
  BY AccesoDe DEF PrivadoInv, Todos, Anda
<1>3. EnOrden[p] = cpu[c].ins /\ EnOrden' = [EnOrden EXCEPT ![p] = Ninguna]
  BY <1>1, OrdenCambia
<1> QED BY <1>2, <1>3 DEF Privada!Terminar, Privada!Solo

\* The instruction ends and the bytes stay.
LEMMA SoltarMuestra ==
  ASSUME Formas, PrivadoInv, PrivadoInv', Lecturas, NEW c \in CPUs, NEW k, Avanza(c, k),
         cpu[c].fase \in {"lee", "escribe"}, k.ins = Ninguna, k.fase # "lee", UNCHANGED leido, IgualVista
  PROVE  Muestra
<1>1. /\ cpu'[c] = k /\ (\A x \in CPUs \ {c} : cpu'[x] = cpu[x]) /\ UNCHANGED tabla
  BY Avanzado
<1>2. PICK p \in Procesos : p = cpu[c].pid
  BY ListoEs
<1>3. Privada!Terminar(p)
  BY <1>2, TerminarEs
<1>4. UNCHANGED Datos
  BY <1>1, DatosIguales
<1>5. Lecturas'
  BY <1>1, LecturasIguales
<1>6. Privada!Soltar(p)
  BY <1>3, <1>4 DEF Privada!Soltar
<1>7. Privada!Next
  BY <1>6, Zenon DEF Privada!Next
<1> QED BY <1>5, <1>7 DEF Muestra

\* A fault, with nothing read or with the destination not touched yet.
LEMMA VistaDeAvance ==
  ASSUME Formas, PrivadoInv, PrivadoInv', NEW c \in CPUs, NEW k, Avanza(c, k), UNCHANGED memoria,
         cpu[c].fase # "escribe", k.fase # "escribe"
  PROVE  IgualVista
<1>1. /\ cpu'[c] = k /\ (\A x \in CPUs \ {c} : cpu'[x] = cpu[x]) /\ UNCHANGED total /\ MapaSigue
  BY Avanzado
<1>2. total <= total'
  BY <1>1 DEF PrivadoInv, Mapa
<1>3. \A x \in CPUs : cpu'[x] = cpu[x] \/ (cpu[x].fase # "escribe" /\ cpu'[x].fase # "escribe")
  BY <1>1
<1> QED BY <1>1, <1>2, <1>3, VistaSerena

\* The byte of a read comes from a stick that nobody is writing there.
LEMMA BytePropio ==
  ASSUME PrivadoInv, NEW c \in CPUs, NEW k, k = cpu[c], k.fase = "lee", k.ins.op = "MOV_IN",
         NEW f \in Range(k.frags), NEW j \in f.offset .. f.offset + f.tam - 1,
         f \in [ms : Sticks, dir : Nat, tam : Nat \ {0}, offset : Nat],
         NEW D, D = Fisica(k.tabla, k.ins.origen)
  PROVE  Vista[D + j] = memoria[f.ms][f.dir + (j - f.offset)]
<1>1. /\ k.pid \in Procesos /\ EnCurso(k) /\ D \in Nat
      /\ \E g \in tabla[k.pid] : \A i \in 0 .. k.ins.tam - 1 :
           D + i \in BytesDe(g) /\ D + i \in 0 .. total - 1
  BY LecturaEs
<1>2. Cabe(f, D, k.ins.tam)
  BY <1>1 DEF EnCurso, Desde
<1>3. PICK b, e, t, o, n, m, T : /\ b = base[f.ms] /\ e = f.dir /\ t = f.tam /\ o = f.offset /\ n = k.ins.tam
                                 /\ m = f.ms /\ T = Tamano[f.ms]
  OBVIOUS
<1>4. /\ m \in Arriba /\ b \in Nat /\ e \in Nat /\ t \in Nat /\ o \in Nat /\ T \in Nat
      /\ e + t <= T /\ b + e = D + o /\ o + t <= n /\ j \in o .. o + t - 1 /\ n \in Nat
  <2>1. m \in Arriba /\ m \in Sticks
    BY <1>2, <1>3 DEF Cabe, Arriba
  <2>2. b \in Nat /\ T \in Nat
    BY <1>3, <2>1, CapacidadUno, Constantes DEF PrivadoInv, Mapa, Espacio
  <2>3. n \in Nat
    BY <1>3, LecturaEs
  <2> QED BY <1>2, <1>3, <2>1, <2>2, <2>3 DEF Cabe
<1>5. PICK d : d = D + j
  OBVIOUS
<1>6. j \in 0 .. n - 1 /\ d - b = e + (j - o) /\ d \in b .. b + T - 1 /\ d \in Nat
  BY ONLY <1>1, <1>4, <1>5
<1>7. PICK g \in tabla[k.pid] : d \in BytesDe(g) /\ d \in 0 .. total - 1
  BY <1>1, <1>3, <1>5, <1>6
<1>8. \A x \in CPUs : ~Envia(cpu[x], d)
  <2> SUFFICES ASSUME NEW x \in CPUs, Envia(cpu[x], d) PROVE FALSE
    OBVIOUS
  <2>1. cpu[x].fase = "escribe" /\ k.pid = cpu[x].pid
    BY <1>1, <1>6, <1>7, EnviaEs
  <2>2. x = c
    BY <2>1, ListoEs
  <2> QED BY <2>1, <2>2
<1>9. VistaBien
  BY VistaEs
<1>10. d \in EnStick(m)
  BY <1>3, <1>6 DEF EnStick
<1>11. Vista[d] = memoria[m][d - b]
  BY <1>3, <1>4, <1>7, <1>8, <1>9, <1>10 DEF VistaBien
<1> QED BY <1>3, <1>5, <1>6, <1>11

LEMMA LeidoBien ==
  ASSUME PrivadoInv, Lecturas, NEW c \in CPUs, NEW q, q = cpu[c], q.fase = "lee",
         q.ins.op = "MOV_IN", q.frags # <<>>, NEW f, f = Head(q.frags), NEW b, b = Leido(c, f),
         NEW D, D = Fisica(q.tabla, q.ins.origen), NEW j \in 0 .. q.ins.tam - 1,
         \A h \in Range(Tail(q.frags)) : j \notin h.offset .. h.offset + h.tam - 1
  PROVE  b[j + 1] = Vista[D + j]
<1>1. Mapa /\ Tipos /\ EsCiclo(q) /\ Lectura(c) /\ q.frags \in Fragmentos
  BY DEF PrivadoInv, Todos, Anda, Lecturas, EsCiclo, Registro
<1>2. /\ f \in [ms : Sticks, dir : Nat, tam : Nat \ {0}, offset : Nat]
      /\ Range(q.frags) = {f} \cup Range(Tail(q.frags))
  BY <1>1, Siguientes
<1>3. IF j \in f.offset .. f.offset + f.tam - 1
      THEN b[j + 1] = memoria[f.ms][f.dir + (j - f.offset)]
      ELSE b[j + 1] = q.buf[j + 1]
  BY <1>1, LeidoEs
<1>4. CASE j \in f.offset .. f.offset + f.tam - 1
  <2>1. f \in Range(q.frags)
    BY <1>2
  <2>2. Vista[D + j] = memoria[f.ms][f.dir + (j - f.offset)]
    BY ONLY PrivadoInv, c \in CPUs, q = cpu[c], q.fase = "lee", q.ins.op = "MOV_IN",
            D = Fisica(q.tabla, q.ins.origen), <1>2, <1>4, <2>1, BytePropio
  <2> QED BY <1>3, <1>4, <2>2
<1>5. CASE j \notin f.offset .. f.offset + f.tam - 1
  <2>1. ~Pendiente(q, j)
    BY <1>2, <1>5 DEF Pendiente
  <2> QED BY <1>1, <1>3, <1>5, <2>1 DEF Lectura
<1> QED BY <1>4, <1>5

\* What p sees in a range that the MMU lets through.
LEMMA TramoVisto ==
  ASSUME PrivadoInv, NEW p \in Procesos, NEW t, t = tabla[p], NEW dir \in Nat, NEW n \in Nat,
         n < Modulo, ConSigno(n) > 0, Traduce(t, dir, n), NEW D, D = Fisica(t, dir),
         NEW j \in 0 .. n - 1
  PROVE  Datos[p][dir + j] = Vista[D + j]
<1>1. DatosBien /\ Tablas
  BY DatosEs DEF PrivadoInv
<1>2. PICK g \in tabla[p] :
        /\ D \in Nat /\ D = g.base + (dir - SegMax * g.id) /\ g.base \in Nat
        /\ SegMax * g.id \in Nat /\ \A a \in dir .. dir + n - 1 : a \in Logicas(g)
  <2>1. PICK g \in tabla[p], E \in Nat :
          /\ E = Fisica(t, dir) /\ E = g.base + (dir - SegMax * g.id) /\ g.base \in Nat
          /\ SegMax * g.id \in Nat /\ \A a \in dir .. dir + n - 1 : a \in Logicas(g)
    BY <1>1, TramoEs
  <2> QED BY <2>1
<1>3. PICK m, b, a : m = SegMax * g.id /\ b = g.base /\ a = dir + j /\ m \in Nat /\ b \in Nat
  BY <1>2
<1>4. a \in dir .. dir + n - 1 /\ D + j = b + (a - m)
  <2>1. D = b + (dir - m)
    BY <1>2, <1>3
  <2> QED BY ONLY <1>3, <2>1, dir \in Nat, n \in Nat, j \in 0 .. n - 1
<1>5. Datos[p][a] = Vista[b + (a - m)]
  BY <1>1, <1>2, <1>3, <1>4 DEF DatosBien
<1> QED BY <1>3, <1>4, <1>5

LEMMA LeerMuestra ==
  ASSUME Formas, PrivadoInv, PrivadoInv', Lecturas, NEW c \in CPUs, NEW k, Avanza(c, k),
         NEW f, NEW b, NEW s, Lee(c, k, f, b, s), UNCHANGED memoria
  PROVE  Muestra
<1>1. /\ cpu'[c] = k /\ (\A x \in CPUs \ {c} : cpu'[x] = cpu[x]) /\ k.pid = cpu[c].pid
      /\ UNCHANGED tabla /\ (k.fase # "fallo" => k.tabla = cpu[c].tabla)
  BY Avanzado DEF Avanza
<1>2. PICK q, D : q = cpu[c] /\ D = Fisica(q.tabla, q.ins.origen)
  OBVIOUS
<1>3. /\ q.fase = "lee" /\ q.frags # <<>> /\ f = Head(q.frags) /\ b = Leido(c, f) /\ s = Tail(q.frags)
      /\ b \in [1 .. q.ins.tam -> Nat]
      /\ \/ k.fase = "lee" /\ k.ins = q.ins /\ k.buf = b /\ k.frags = s /\ UNCHANGED leido
         \/ /\ q.ins.op = "MOV_IN" /\ s = <<>> /\ k.fase = "revisa" /\ k.ins = Ninguna
            /\ leido' = [leido EXCEPT ![q.pid] = b]
  BY <1>2 DEF Lee
<1>4. IgualVista
  BY <1>2, <1>3, VistaDeAvance
<1>5. UNCHANGED Datos
  BY <1>1, <1>4, DatosIguales
<1>6. ASSUME q.ins.op = "MOV_IN", NEW j \in 0 .. q.ins.tam - 1,
             \A h \in Range(s) : j \notin h.offset .. h.offset + h.tam - 1
      PROVE  b[j + 1] = Vista[D + j]
  BY <1>2, <1>3, <1>6, LeidoBien
<1>7. CASE k.fase = "lee" /\ k.ins = q.ins /\ k.buf = b /\ k.frags = s /\ UNCHANGED leido
  <2>1. UNCHANGED EnOrden
    BY <1>1, <1>2, <1>7, OrdenesIguales DEF Sigue
  <2>2. Privada!Next
    BY <1>5, <1>7, <2>1, Zenon DEF Privada!Next, Privada!NoSeVe, Privada!vars
  <2>3. ASSUME NEW x \in CPUs PROVE Lectura(x)'
    <3>1. CASE x # c
      <4>1. cpu'[x] = cpu[x]
        BY <1>1, <2>3, <3>1
      <4> QED BY <1>4, <2>3, <4>1, LecturasSiguen DEF IgualVista
    <3>2. CASE x = c
      <4>1. ASSUME q.ins.op = "MOV_IN", NEW j \in 0 .. q.ins.tam - 1, ~Pendiente(k, j)
            PROVE  k.buf[j + 1] = Vista'[D + j]
        <5>1. b[j + 1] = Vista[D + j]
          BY <1>6, <1>7, <4>1 DEF Pendiente
        <5>2. D + j \in 0 .. total - 1
          BY <1>2, <1>3, <4>1, LecturaEs
        <5> QED BY <1>4, <1>7, <5>1, <5>2 DEF IgualVista
      <4>2. k.tabla = q.tabla
        BY <1>1, <1>2, <1>7
      <4> QED BY <1>1, <1>2, <1>7, <3>2, <4>1, <4>2 DEF Lectura
    <3> QED BY <3>1, <3>2
  <2> QED BY <2>2, <2>3 DEF Muestra, Lecturas
<1>8. CASE /\ q.ins.op = "MOV_IN" /\ s = <<>> /\ k.fase = "revisa" /\ k.ins = Ninguna
           /\ leido' = [leido EXCEPT ![q.pid] = b]
  <2>1. PICK p \in Procesos : p = q.pid
    BY <1>2, <1>3, ListoEs
  <2>2. Privada!Terminar(p) /\ EnOrden[p] = q.ins
    BY <1>2, <1>3, <1>8, <2>1, TerminarEs
  <2>3. Lecturas'
    BY <1>1, <1>4, <1>8, LecturasIguales
  <2>4. /\ q.ins.tam \in Nat /\ q.ins.tam < Modulo /\ ConSigno(q.ins.tam) > 0 /\ q.ins.origen \in Nat
        /\ Traduce(q.tabla, q.ins.origen, q.ins.tam) /\ q.tabla = tabla[p]
    BY <1>2, <1>3, <1>8, <2>1, LecturaEs
  <2>5. PICK n, o, t : n = q.ins.tam /\ o = q.ins.origen /\ t = q.tabla
    OBVIOUS
  <2>6. ASSUME NEW m \in 1 .. n PROVE b[m] = Datos[p][o + m - 1]
    <3>1. PICK j \in 0 .. n - 1 : m = j + 1
      <4>1. m - 1 \in 0 .. n - 1 /\ m = (m - 1) + 1
        BY <2>4, <2>5, <2>6
      <4> QED BY <4>1
    <3>2. \A h \in Range(s) : FALSE
      BY <1>8 DEF Range
    <3>3. b[j + 1] = Vista[D + j]
      BY <1>6, <1>8, <2>5, <3>2
    <3>4. Datos[p][o + j] = Vista[D + j]
      BY <1>2, <2>4, <2>5, TramoVisto
    <3>5. o + m - 1 = o + j
      BY <2>4, <2>5, <3>1
    <3> QED BY <3>1, <3>3, <3>4, <3>5
  <2>7. b = [m \in 1 .. n |-> Datos[p][o + m - 1]]
    BY <1>3, <2>5, <2>6
  <2>8. Privada!Leer(p)
    BY <1>5, <1>8, <2>1, <2>2, <2>5, <2>7 DEF Privada!Leer, Privada!Solo
  <2>9. Privada!Next
    BY <2>8, Zenon DEF Privada!Next
  <2> QED BY <2>3, <2>9 DEF Muestra
<1> QED BY <1>3, <1>7, <1>8

LEMMA CopiarMuestra ==
  ASSUME Formas, PrivadoInv, PrivadoInv', Lecturas, NEW c \in CPUs, NEW k, Avanza(c, k),
         Copia(c, k), UNCHANGED <<memoria, leido>>
  PROVE  Muestra
<1>1. /\ cpu'[c] = k /\ (\A x \in CPUs \ {c} : cpu'[x] = cpu[x]) /\ k.pid = cpu[c].pid
      /\ UNCHANGED <<tabla, total>> /\ (k.fase # "fallo" => k.tabla = cpu[c].tabla)
  BY Avanzado DEF Avanza
<1>2. PICK q : q = cpu[c]
  OBVIOUS
<1>3. /\ q.fase = "lee" /\ q.ins.op = "COPY_MEM"
      /\ \/ k.fase \in {"fallo", "revisa"} /\ k.ins = Ninguna
         \/ k.fase = "escribe" /\ k.ins = q.ins
  BY <1>2 DEF Copia
<1>4. CASE k.fase \in {"fallo", "revisa"} /\ k.ins = Ninguna
  <2>1. IgualVista
    BY <1>2, <1>3, <1>4, VistaDeAvance
  <2> QED BY <1>2, <1>3, <1>4, <2>1, SoltarMuestra
<1>5. CASE k.fase = "escribe" /\ k.ins = q.ins
  <2>1. PICK p, t : p = q.pid /\ t = tabla[p] /\ k.tabla = t /\ p \in Procesos
    BY <1>1, <1>2, <1>3, <1>5, ListoEs DEF Activas
  <2>2. EsCiclo(k)
    BY DEF Avanza
  <2>3. PICK dir, n, D : dir = q.ins.destino /\ n = q.ins.tam /\ D = Fisica(t, dir)
    OBVIOUS
  <2>4. dir \in Nat /\ n \in Nat /\ n < Modulo /\ ConSigno(n) > 0 /\ Traduce(t, dir, n)
    BY <1>3, <1>5, <2>1, <2>2, <2>3, AccesoDe
  <2>5. SoloEnvian(c, k, D, n)
    BY <1>1, <1>2, <1>3, <1>5, <2>1, <2>3, FueraDelDestino
  <2>6. Lecturas' /\ Privada!Cambiar(p, DOMAIN Datos[p], Privada!Tramo(dir, n))
    BY <1>2, <1>5, <2>1, <2>3, <2>4, <2>5, RangoCambia
  <2>7. UNCHANGED EnOrden /\ EnOrden[p] = q.ins
    <3>1. EnOrden[p] = q.ins
      BY <1>1, <1>2, <2>1, OrdenCambia
    <3>2. UNCHANGED EnOrden
      BY <1>1, <1>2, <1>5, OrdenesIguales DEF Sigue
    <3> QED BY <3>1, <3>2
  <2>8. Privada!CambiarDestino(p)
    BY <2>3, <2>6, <2>7 DEF Privada!CambiarDestino
  <2>9. Privada!Copiar(p)
    BY <1>3, <2>7, <2>8 DEF Privada!Copiar
  <2>10. Privada!Next
    BY <2>1, <2>9, Zenon DEF Privada!Next
  <2> QED BY <2>6, <2>10 DEF Muestra
<1> QED BY <1>3, <1>4, <1>5

LEMMA PiezaMuestra ==
  ASSUME Formas, PrivadoInv, PrivadoInv', Lecturas, NEW c \in CPUs, NEW k, Avanza(c, k),
         NEW f, Escribe(c, k, f), UNCHANGED leido
  PROVE  Muestra
<1>1. /\ cpu'[c] = k /\ (\A x \in CPUs \ {c} : cpu'[x] = cpu[x]) /\ k.pid = cpu[c].pid
      /\ UNCHANGED <<tabla, total, base, hiloMS>> /\ cpu' = [cpu EXCEPT ![c] = k]
  BY Avanzado DEF Avanza
<1>2. /\ cpu[c].fase = "escribe"
      /\ (k.fase = "escribe" /\ k.ins = cpu[c].ins) \/ (k.fase = "revisa" /\ k.ins = Ninguna)
  BY DEF Escribe
<1>3. k.tabla = cpu[c].tabla
  BY <1>2 DEF Avanza
<1>4. IgualVista
  <2> SUFFICES ASSUME NEW d \in 0 .. total - 1 PROVE Vista'[d] = Vista[d]
    BY DEF IgualVista
  <2>1. VistaBien /\ VistaBien'
    BY VistaEs, VistaLuego
  <2> QED BY <1>1, <1>3, <2>1, VistaEscribe
<1>5. CASE k.fase = "revisa" /\ k.ins = Ninguna
  BY <1>2, <1>4, <1>5, SoltarMuestra
<1>6. CASE k.fase = "escribe" /\ k.ins = cpu[c].ins
  BY <1>1, <1>4, <1>6, NoSeVeSi DEF Sigue
<1> QED BY <1>2, <1>5, <1>6

LEMMA FallarMuestra ==
  ASSUME Formas, PrivadoInv, PrivadoInv', Lecturas, NEW c \in CPUs, NEW k, Avanza(c, k),
         cpu[c].fase \in {"lee", "escribe"}, k.fase = "fallo", k.ins = Ninguna,
         UNCHANGED <<memoria, leido>>
  PROVE  Muestra
<1>1. /\ cpu'[c] = k /\ (\A x \in CPUs \ {c} : cpu'[x] = cpu[x]) /\ UNCHANGED <<tabla, total>>
  BY Avanzado
<1>2. CASE cpu[c].fase = "lee"
  <2>1. IgualVista
    BY <1>2, VistaDeAvance
  <2> QED BY <2>1, SoltarMuestra
<1>3. CASE cpu[c].fase = "escribe"
  <2>1. PICK p, t, i : /\ p = cpu[c].pid /\ t = tabla[p] /\ cpu[c].tabla = t /\ i = cpu[c].ins
                       /\ p \in Procesos
    BY <1>3, ListoEs DEF Activas
  <2>2. PICK dir, n, D : dir = i.destino /\ n = i.tam /\ D = Fisica(t, dir)
    OBVIOUS
  <2>3. EsCiclo(cpu[c])
    BY DEF PrivadoInv, Todos, Anda
  <2>4. dir \in Nat /\ n \in Nat /\ n < Modulo /\ ConSigno(n) > 0 /\ Traduce(t, dir, n) /\ i.op # "MOV_IN"
    BY <1>3, <2>1, <2>2, <2>3, AccesoDe DEF Desde
  <2>5. SoloEnvian(c, k, D, n)
    BY <1>1, <1>3, <2>1, <2>2, FueraDelDestino
  <2>6. Lecturas' /\ Privada!Cambiar(p, DOMAIN Datos[p], Privada!Tramo(dir, n))
    BY <2>1, <2>2, <2>4, <2>5, RangoCambia
  <2>7. Privada!Terminar(p) /\ EnOrden[p] = i
    BY <2>1, TerminarEs
  <2>8. Privada!CambiarDestino(p)
    BY <2>2, <2>6, <2>7 DEF Privada!CambiarDestino
  <2>9. Privada!Soltar(p)
    BY <2>4, <2>7, <2>8 DEF Privada!Soltar
  <2>10. Privada!Next
    BY <2>1, <2>9, Zenon DEF Privada!Next
  <2> QED BY <2>6, <2>10 DEF Muestra
<1> QED BY <1>2, <1>3

LEMMA AccesoMuestra ==
  ASSUME Formas, PrivadoInv, PrivadoInv', Lecturas, NEW c \in CPUs, SoloEmpieza(c),
         NEW k, NEW i, NEW fase, NEW buf, Avanza(c, k), Intenta(c, k, i, fase, buf),
         \/ fase = "lee" /\ i.op # "MOV_OUT"
         \/ /\ fase = "escribe" /\ i.op = "MOV_OUT" /\ i.tam \in Registros
            /\ buf = SubSeq(Valor[cpu[c].pid], 1, i.tam)
  PROVE  Muestra
<1>1. cpu[c].fase \in {"busca", "revisa"} /\ UNCHANGED <<memoria, leido>>
  BY DEF SoloEmpieza
<1>2. CASE k.fase = "fallo"
  <2>1. cpu'[c] = k /\ \A x \in CPUs \ {c} : cpu'[x] = cpu[x]
    BY Avanzado
  <2>2. Reposo
    BY <1>1 DEF Avanza, SoloCPU, km, Reposo
  <2> QED BY <1>1, <1>2, <2>1, <2>2, SinAccesoMuestra
<1>3. CASE k.fase = "lee" /\ k.ins = i /\ i.op # "MOV_OUT" /\ (ConSigno(i.tam) > 0 => Empezado(k))
  BY <1>1, <1>3, PedirMuestra
<1>4. CASE /\ k.fase = "escribe" /\ k.ins = i /\ i.op = "MOV_OUT" /\ i.tam \in Registros
           /\ k.buf = SubSeq(Valor[cpu[c].pid], 1, i.tam) /\ (ConSigno(i.tam) > 0 => Empezado(k))
  <2>1. PICK p \in Procesos : p = cpu[c].pid
    BY <1>1, ListoEs
  <2>2. i.tam \in Registros /\ ConSigno(i.tam) > 0
    BY <1>4, Tamanios
  <2> QED BY <1>1, <1>4, <2>1, <2>2, EscribirMuestra
<1> QED BY <1>2, <1>3, <1>4 DEF Intenta

LEMMA InstruccionMuestra ==
  ASSUME Formas, Listas, PrivadoInv, PrivadoInv', Lecturas, NEW c \in CPUs, Sabe(c), Instruccion(c)
  PROVE  Muestra
<1>1. Mapa /\ Tablas /\ Tipos /\ Turno(c) /\ Contexto(c) /\ Anda(c)
  BY DEF PrivadoInv, Todos
<1>2. cpu[c].fase \in Activas => Listo(c)
  BY <1>1, ListoSi
<1>4. ASSUME NEW d \in Direcciones, NEW n \in Registros, MovIn(c, d, n) PROVE Muestra
  <2>1. Listo(c)
    BY <1>2, <1>4 DEF MovIn, Ejecutar, Activas
  <2>2. PICK i : i = Ins("MOV_IN", d, 0, n)
    OBVIOUS
  <2>4. i.op # "MOV_OUT"
    BY <2>2 DEF Ins
  <2>3. SoloEmpieza(c) /\ \E k : Avanza(c, k) /\ Intenta(c, k, i, "lee", Ceros(n))
    BY <1>1, <1>4, <2>1, <2>2, MovInEs
  <2> QED BY <2>3, <2>4, AccesoMuestra
<1>5. ASSUME NEW d \in Direcciones, NEW n \in Registros, MovOut(c, d, n) PROVE Muestra
  <2>1. Listo(c)
    BY <1>2, <1>5 DEF MovOut, Ejecutar, Activas
  <2>2. PICK i : i = Ins("MOV_OUT", 0, d, n)
    OBVIOUS
  <2>4. i.op = "MOV_OUT" /\ i.tam = n
    BY <2>2 DEF Ins
  <2>3. /\ SoloEmpieza(c)
        /\ \E k : Avanza(c, k) /\ Intenta(c, k, i, "escribe", SubSeq(Valor[cpu[c].pid], 1, n))
    BY <1>1, <1>5, <2>1, <2>2, MovOutEs
  <2> QED BY <1>5, <2>3, <2>4, AccesoMuestra
<1>6. ASSUME NEW o \in Direcciones, NEW d \in Direcciones, NEW n \in Copias, CopyMem(c, o, d, n)
      PROVE  Muestra
  <2>1. Listo(c)
    BY <1>2, <1>6 DEF CopyMem, Ejecutar, Activas
  <2>2. PICK i : i = Ins("COPY_MEM", o, d, n)
    OBVIOUS
  <2>4. i.op # "MOV_OUT"
    BY <2>2 DEF Ins
  <2>3. SoloEmpieza(c) /\ \E k : Avanza(c, k) /\ Intenta(c, k, i, "lee", Ceros(ConSigno(n)))
    BY <1>1, <1>6, <2>1, <2>2, CopyMemEs
  <2> QED BY <2>3, <2>4, AccesoMuestra
<1>7. CASE LeerFragmento(c)
  <2>1. Listo(c)
    BY <1>2, <1>7 DEF LeerFragmento, Activas
  <2>2. UNCHANGED memoria /\ \E k, f, b, s : Avanza(c, k) /\ Lee(c, k, f, b, s)
    BY <1>1, <1>7, <2>1, LeerEs
  <2> QED BY <2>2, LeerMuestra
<1>8. CASE EmpezarCopia(c)
  <2>1. Listo(c)
    BY <1>2, <1>8 DEF EmpezarCopia, Activas
  <2>2. UNCHANGED <<memoria, leido>> /\ \E k : Avanza(c, k) /\ Copia(c, k)
    BY <1>1, <1>8, <2>1, CopiarEs
  <2> QED BY <2>2, CopiarMuestra
<1>9. CASE EscribirFragmento(c)
  <2>1. Listo(c)
    BY <1>2, <1>9 DEF EscribirFragmento, Activas
  <2>2. UNCHANGED leido /\ \E k, f : Avanza(c, k) /\ Escribe(c, k, f)
    BY <1>1, <1>9, <2>1, EscribirEs
  <2> QED BY <2>2, PiezaMuestra
<1>10. CASE FallarFragmento(c)
  <2>1. cpu[c].frags # <<>>
    BY <1>10 DEF FallarFragmento
  <2>2. cpu[c].fase \in {"lee", "escribe"}
    BY <1>1, <2>1 DEF Anda, EsCiclo
  <2>3. Listo(c)
    BY <1>2, <2>2 DEF Activas
  <2>4. UNCHANGED <<memoria, leido>> /\ \E k : Avanza(c, k) /\ k.fase = "fallo" /\ k.ins = Ninguna
    BY <1>10, <2>3, FallarEs
  <2> QED BY <2>2, <2>4, FallarMuestra
<1>11. CASE DevolverInterrumpido(c) \/ AvisarSegFault(c) \/ PedirSyscall(c)
  <2>1. cpu[c].fase # "libre"
    BY <1>11 DEF DevolverInterrumpido, AvisarSegFault, PedirSyscall
  <2>2. cpu[c].pid \in Procesos /\ EsCiclo(cpu[c])
    BY <1>1, <2>1 DEF Turno, Anda
  <2>3. \E pc, e : Deja(c, pc, e)
    BY <1>1, <1>11, <2>2, DejaEs
  <2> QED BY <2>3, DejarMuestra
<1>12. \/ \E d \in Direcciones, n \in Registros : MovIn(c, d, n) \/ MovOut(c, d, n)
       \/ \E d, e \in Direcciones, n \in Copias : CopyMem(c, d, e, n)
       \/ LeerFragmento(c) \/ EmpezarCopia(c) \/ EscribirFragmento(c) \/ FallarFragmento(c)
       \/ DevolverInterrumpido(c) \/ AvisarSegFault(c) \/ PedirSyscall(c)
  BY Zenon DEF Instruccion
<1> QED BY <1>4, <1>5, <1>6, <1>7, <1>8, <1>9, <1>10, <1>11, <1>12, Zenon

LEMMA PasoMuestra ==
  ASSUME AccesoInv, PrivadoInv, PrivadoInv', Lecturas, [Next]_vars
  PROVE  Muestra
<1>1. Formas /\ Listas /\ \A c \in CPUs : Sabe(c)
  BY DEF AccesoInv
<1>2. \A s \in Sticks : Conectar(s) => Muestra
  BY <1>1, ConectarMuestra
<1>3. (\E s \in Sticks : CaerStick(s)) \/ (\E c \in CPUs : AtenderCPU(c)) \/ UNCHANGED vars => Muestra
  BY QuietoMuestra
<1>4. \A c \in CPUs : EscucharKM(c) => Muestra
  BY <1>1, EscucharMuestra
<1>5. \A c \in CPUs : Instruccion(c) => Muestra
  BY <1>1, InstruccionMuestra
<1>6. \A p \in Procesos : CrearSegmento(p) => Muestra
  BY CrearMuestra
<1>7. \A p \in Procesos : EliminarSegmento(p) \/ EliminarProceso(p) => Muestra
  BY EliminarMuestra
<1>8. \A c \in CPUs, p \in Procesos : Despachar(c, p) => Muestra
  BY <1>1, DespacharMuestra
<1>9. CASE Next
  <2>1. \/ \E s \in Sticks : Conectar(s) \/ CaerStick(s)
        \/ \E c \in CPUs : AtenderCPU(c) \/ EscucharKM(c) \/ Instruccion(c)
        \/ \E p \in Procesos :
             \/ CrearSegmento(p) \/ EliminarSegmento(p) \/ EliminarProceso(p)
             \/ \E c \in CPUs : Despachar(c, p)
    BY <1>9, Zenon DEF Next
  <2> QED BY <1>2, <1>3, <1>4, <1>5, <1>6, <1>7, <1>8, <2>1, Zenon
<1> QED BY <1>3, <1>9

LEMMA MuestraAlInicio == Init => Privada!Init /\ Lecturas
<1> SUFFICES ASSUME Init PROVE Privada!Init /\ Lecturas
  OBVIOUS
<1>1. PrivadoInv
  BY PrivadoAlInicio
<1>2. \A c \in CPUs : cpu[c] = Libre
  BY DEF Init
<1>3. Libre.fase = "libre" /\ Libre.pid = Ninguno
  BY LibreEs
<1>4. Lecturas
  BY <1>2, <1>3 DEF Lecturas, Lectura
<1>5. Datos = [p \in Procesos |-> <<>>]
  <2>1. DatosBien
    BY <1>1, DatosEs
  <2>2. ASSUME NEW p \in Procesos PROVE Datos[p] = <<>>
    <3>1. tabla[p] = {}
      BY <2>2 DEF Init
    <3>2. DOMAIN Datos[p] = {} /\ Datos[p] = [a \in DOMAIN Datos[p] |-> Datos[p][a]]
      BY <2>1, <2>2, <3>1 DEF DatosBien
    <3> QED BY <3>2
  <2> QED BY <2>1, <2>2 DEF DatosBien
<1>6. EnOrden = [p \in Procesos |-> Ninguna]
  <2>1. OrdenesBien
    BY <1>1, OrdenesEs
  <2>2. Ninguno \notin Procesos
    BY AccesoMemoriaAssumption DEF AccesoMemoriaAssumption
  <2>3. \A p \in Procesos : EnOrden[p] = Ninguna
    BY <1>2, <1>3, <2>1, <2>2 DEF OrdenesBien
  <2> QED BY <2>1, <2>3 DEF OrdenesBien
<1>7. leido = [p \in Procesos |-> <<>>]
  BY DEF Init
<1> QED BY <1>4, <1>5, <1>6, <1>7 DEF Privada!Init

LEMMA LecturasSiempre == Spec => []Lecturas
<1>1. AccesoInv /\ PrivadoInv /\ PrivadoInv' /\ Lecturas /\ [Next]_vars => Lecturas'
  BY PasoMuestra DEF Muestra
<1> QED BY <1>1, MuestraAlInicio, AccesoInvSiempre, PrivadoInvSiempre, PTL DEF Spec

\* Whatever the sticks that connect or fall, the CPUs, the accesses cut where a stick ends and the
\* segments that go from a process to another, each process has a memory that only its own
\* instructions change, in which a MOV_OUT is one step and a MOV_IN returns what one whole earlier
\* write left (mmu_traducir_direccion, fragmentar_acceso_memoria, procesar_lectura,
\* procesar_escritura).
THEOREM CadaProcesoSuMemoria == Spec => ImplementaMemoriaPrivada
<1>1. AccesoInv /\ PrivadoInv /\ PrivadoInv' /\ Lecturas /\ [Next]_vars => [Privada!Next]_(Privada!vars)
  BY PasoMuestra DEF Muestra
<1>2. Init => Privada!Init
  BY MuestraAlInicio
<1> QED BY <1>1, <1>2, AccesoInvSiempre, PrivadoInvSiempre, LecturasSiempre, PTL
        DEF Spec, ImplementaMemoriaPrivada, Privada!Spec
=============================================================================
