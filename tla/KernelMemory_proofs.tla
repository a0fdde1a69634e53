------------------------- MODULE KernelMemory_proofs -------------------------
(***************************************************************************)
(* Proofs about the memory of kernel_memory, for any processes, sizes,     *)
(* sticks and swap: types; desuspension is all or nothing; a block of swap *)
(* has one user; the memory is partitioned; compaction leaves no hole; a   *)
(* segment keeps what its program wrote, wherever it is moved.             *)
(***************************************************************************)
EXTENDS KernelMemory, ColasPCB, FiniteSetTheorems, SequenceTheorems

LEMMA MaxBitNatural ==
  ASSUME KernelMemoryAssumption
  PROVE  MaxBit \in Nat
<1>1. PICK n \in Nat : n = (NumBloques + PorByte - 1) \div PorByte
  BY DEF KernelMemoryAssumption
<1>2. PorByte \in Nat
  BY DEF KernelMemoryAssumption
<1>3. n * PorByte \in Nat
  BY <1>2
<1> QED BY <1>1, <1>3 DEF MaxBit

\* Who has byte a, family by family.
Cubre(w, a)  == \E i \in DOMAIN w : a \in Bytes(w[i])
UnaVez(w, a) == \A i, j \in DOMAIN w : a \in Bytes(w[i]) /\ a \in Bytes(w[j]) => i = j
DeSegmento(a, x) == x \in Residentes /\ a \in Bytes(segs[x[1]][x[2]])
ConCola      == ks.fase \in {"devolver", "reservar", "traer", "trabado"}

EnHueco(a)    == ~Compactando /\ Cubre(huecos, a)
EnSegmento(a) == \E x : DeSegmento(a, x)
EnKs(a)       == ks.fase = "registrar" /\ a \in Bytes(ks)
EnCola(a)     == ConCola /\ Cubre(ks.cola, a)
EnStick(a)    == \E k \in Sticks : stick[k].fase = "hueco"
                   /\ a \in stick[k].base .. stick[k].base + TamStick[k] - 1
EnNadie(a)    == a \in fugas /\ ~Compactando

\* At most one of six.
ALoSumo(a, b, c, d, e, f) ==
  /\ a => ~(b \/ c \/ d \/ e \/ f)
  /\ b => ~(c \/ d \/ e \/ f)
  /\ c => ~(d \/ e \/ f)
  /\ d => ~(e \/ f)
  /\ e => ~f

HuecosUna(a)   == ~Compactando => UnaVez(huecos, a)
SegmentoUno(a) == \A x, y : DeSegmento(a, x) /\ DeSegmento(a, y) => x = y
ColaUna(a)     == ConCola => UnaVez(ks.cola, a)
UnoSolo(a) ==
  /\ ALoSumo(EnHueco(a), EnSegmento(a), EnKs(a), EnCola(a), EnStick(a), EnNadie(a))
  /\ HuecosUna(a) /\ SegmentoUno(a) /\ ColaUna(a)
Alguno(a) == EnHueco(a) \/ EnSegmento(a) \/ EnKs(a) \/ EnCola(a) \/ EnStick(a) \/ EnNadie(a)

Exacto(a) ==
  /\ UnoSolo(a)
  /\ a >= total => ~Alguno(a)
  /\ a < total /\ ~Compactando => Alguno(a)
Reparto == \A a \in Nat \ dobles : Exacto(a)

\* What the program counter of the serving thread says of its locals.
EnCurso ==
  /\ ks.fase \in {"registrar", "mover", "gran", "crear"} =>
       ks.pid \in Procesos /\ ks.id \in Ids /\ ks.tam \in Tamanios
  /\ ks.fase = "devolver" => ks.cola # <<>> /\ \A j \in DOMAIN ks.cola : ks.cola[j].tam # 0
  /\ ks.fase = "suspender" \/ (ks.fase = "devolver" /\ ks.i # 0) =>
       ks.pid \in procesos \ suspendidos /\ ks.i # 0
  /\ ks.fase \in {"reservar", "traer", "trabado"} => ks.pid \in suspendidos /\ ks.i # 0
  /\ ks.fase \in {"gran", "crear"} => ks.cola = <<>>

\* Desuspension reserved a hole for each segment in swap it has looked at.
Reservas ==
  ks.fase \in {"reservar", "traer"} =>
    /\ \A j \in DOMAIN ks.cola :
         /\ ks.cola[j].pid = ks.pid /\ ks.cola[j].i \in DOMAIN segs[ks.pid]
         /\ segs[ks.pid][ks.cola[j].i].enSwap /\ ks.cola[j].tam = segs[ks.pid][ks.cola[j].i].tam
         /\ ks.fase = "reservar" => ks.cola[j].i < ks.i
    /\ \A j, l \in DOMAIN ks.cola : ks.cola[j].i = ks.cola[l].i => j = l
    /\ \A i \in DOMAIN segs[ks.pid] :
         segs[ks.pid][i].enSwap /\ (ks.fase = "reservar" => i < ks.i) =>
           \E j \in DOMAIN ks.cola : ks.cola[j].i = i

SinSegmentos == \A p \in Procesos \ procesos : segs[p] = <<>>

Orden(k, l) == stick[k].base + TamStick[k] <= stick[l].base
SticksAparte ==
  /\ \A k \in Sticks : stick[k].fase # "no" => stick[k].base + TamStick[k] <= total
  /\ \A k, l \in Sticks : stick[k].fase # "no" /\ stick[l].fase # "no" /\ k # l =>
       Orden(k, l) \/ Orden(l, k)
  /\ total = Capacidad({k \in Sticks : stick[k].fase # "no"})

\* Compaction: what it moved fills the memory up to ks.base, the rest is above, in order.
PorMover == {<<ks.cola[j].pid, ks.cola[j].i>> : j \in DOMAIN ks.cola}
Movidos  == Residentes \ PorMover
Compacta ==
  /\ ks.fase \in {"mover", "gran", "crear"} =>
       /\ ks.base <= total
       /\ \A x \in Movidos : segs[x[1]][x[2]].base + segs[x[1]][x[2]].tam <= ks.base
       /\ \A a \in Nat : a < ks.base => \E x \in Movidos : a \in Bytes(segs[x[1]][x[2]])
  /\ ks.fase = "mover" =>
       /\ \A j \in DOMAIN ks.cola : LET t == ks.cola[j] IN
            /\ <<t.pid, t.i>> \in Residentes /\ ks.base <= t.base
            /\ segs[t.pid][t.i].base = t.base /\ segs[t.pid][t.i].tam = t.tam
       /\ \A i, j \in DOMAIN ks.cola : i < j => ks.cola[i].base + ks.cola[i].tam <= ks.cola[j].base
  /\ ks.fase \in {"gran", "crear"} => \A i \in DOMAIN huecos : ks.base <= huecos[i].base
  /\ ks.fase = "gran" => \A i \in DOMAIN huecos : huecos[i].base + huecos[i].tam <= total

\* Who uses block b of swap.
Usa(b, x) == x \in EnTabla /\ segs[x[1]][x[2]].enSwap /\ b \in BloquesDe(segs[x[1]][x[2]])
Bloque(b) ==
  /\ \A x, y : Usa(b, x) /\ Usa(b, y) => x = y
  /\ b \in bloques <=> b \in sinDuenio \/ \E x : Usa(b, x)
  /\ b \in sinDuenio => \A x : ~Usa(b, x)
EnSwapOK == \A b \in Bits : Bloque(b)

-----------------------------------------------------------------------------
(* Sequences, holes and segments                                           *)

FasesKS  == {"libre", "registrar", "devolver", "suspender", "reservar", "traer",
             "trabado", "mover", "gran", "crear"}
Locales  == [fase : FasesKS, pid : Procesos \cup {Ninguno}, id : Ids \cup {0}, tam : Nat,
             base : Nat, i : Nat, cola : Seq(TramoTipo)]
Segmento == [id : Ids, base : Nat, tam : Tamanios, enSwap : BOOLEAN,
             bloque : Bits \cup {MaxBit}]
Hueco    == [base : Nat, tam : Nat \ {0}]

\* The locals of a thread that does nothing.
LEMMA OciosoTipado ==
  /\ Ocioso \in Locales
  /\ Ocioso.fase = "libre" /\ Ocioso.pid = Ninguno /\ Ocioso.id = 0 /\ Ocioso.tam = 0
  /\ Ocioso.base = 0 /\ Ocioso.i = 0 /\ Ocioso.cola = <<>>
BY DEF Ocioso, Locales, FasesKS

\* Min is a CHOOSE: a set of naturals that is not empty has a least one.
LEMMA MinEsMenor ==
  ASSUME NEW S \in SUBSET Nat, S # {} PROVE Min(S) \in S /\ \A m \in S : Min(S) <= m
BY MenorNatural DEF Min

\* Among the holes where it fits there is a best one: one such that the set of those that
\* are better has no smaller one.
LEMMA ElegidoEsCandidato ==
  ASSUME huecos \in Seq(Hueco), NEW tam \in Nat, Candidatos(tam) # {}
  PROVE  HuecoElegido(tam) \in Candidatos(tam)
<1> DEFINE C == Candidatos(tam)
           Antes(i, j) == Mejor(i, j) \/ (i < j /\ ~Mejor(j, i))
           A(i) == {j \in C : j # i /\ Antes(j, i)}
           R == StrictSubsetOrdering(C)
           T == {A(i) : i \in C}
<1>1. C \subseteq Nat /\ IsFiniteSet(C) /\ \A i \in C : huecos[i].tam \in Nat
  <2>1. Len(huecos) \in Nat /\ DOMAIN huecos = 1 .. Len(huecos) /\ C \subseteq 1 .. Len(huecos)
    BY DEF Candidatos
  <2>2. IsFiniteSet(1 .. Len(huecos))
    BY <2>1, FS_Interval
  <2>3. ASSUME NEW i \in C PROVE huecos[i].tam \in Nat
    <3>1. huecos[i] \in Hueco
      BY <2>1
    <3> QED BY <3>1 DEF Hueco
  <2>4. IsFiniteSet(C)
    BY <2>1, <2>2, FS_Subset
  <2> HIDE DEF C
  <2> QED BY <2>1, <2>3, <2>4
<1>2. \A i, j \in C : i # j => Antes(i, j) \/ Antes(j, i)
  BY <1>1 DEF Mejor
<1>3. \A i, j, k \in C : Antes(i, j) /\ Antes(j, k) => Antes(i, k)
  <2>1. CASE Estrategia = "BEST"
    BY <1>1, <2>1 DEF Mejor
  <2>2. CASE Estrategia # "BEST"
    BY <1>1, <2>2 DEF Mejor
  <2> QED BY <2>1, <2>2
<1>4. \A i, j \in C : Antes(i, j) /\ Antes(j, i) => i = j
  BY <1>1 DEF Mejor
<1>5. IsWellFoundedOn(R, FiniteSubsetsOf(C))
  BY FS_StrictSubsetOrderingWellFounded
<1>6. T \subseteq FiniteSubsetsOf(C) /\ T # {}
  <2>1. ASSUME NEW i \in C PROVE A(i) \in FiniteSubsetsOf(C)
    BY <1>1, FS_Subset DEF FiniteSubsetsOf
  <2> QED BY <2>1
<1>7. PICK x \in T : \A y \in T : ~(<<y, x>> \in R)
  <2> HIDE DEF R, T, C
  <2> QED BY <1>5, <1>6, WFMin
<1>8. PICK i \in C : x = A(i)
  OBVIOUS
<1> HIDE DEF C, Antes
<1>9. ASSUME NEW j \in C, j # i, Antes(j, i) PROVE FALSE
  <2>1. A(j) \subseteq A(i) /\ j \in A(i) /\ j \notin A(j)
    BY <1>3, <1>4, <1>9
  <2>2. <<A(j), x>> \in R
    BY <1>8, <2>1 DEF StrictSubsetOrdering
  <2> QED BY <1>7, <2>2
<1>10. \A j \in C \ {i} : Antes(i, j)
  BY <1>2, <1>9
<1> QED BY <1>10 DEF HuecoElegido, C, Antes

\* One segment of p is another.
LEMMA ConSegmentoEs ==
  ASSUME NEW T, segs \in [Procesos -> Seq(T)], NEW p \in Procesos,
         NEW i \in DOMAIN segs[p], NEW s \in T
  PROVE  /\ ConSegmento(p, i, s) \in [Procesos -> Seq(T)]
         /\ \A q \in Procesos : DOMAIN ConSegmento(p, i, s)[q] = DOMAIN segs[q]
         /\ \A q \in Procesos \ {p} : ConSegmento(p, i, s)[q] = segs[q]
         /\ ConSegmento(p, i, s)[p][i] = s
         /\ \A q \in Procesos : \A j \in DOMAIN segs[q] :
              q # p \/ j # i => ConSegmento(p, i, s)[q][j] = segs[q][j]
<1> DEFINE r == [segs[p] EXCEPT ![i] = s]
<1>1. r \in Seq(T) /\ DOMAIN r = DOMAIN segs[p] /\ r[i] = s
      /\ \A j \in DOMAIN segs[p] : j # i => r[j] = segs[p][j]
  <2>1. segs[p] \in Seq(T)
    OBVIOUS
  <2> DEFINE w == segs[p]
  <2> HIDE DEF w
  <2>2. w \in Seq(T) /\ i \in DOMAIN w
    BY <2>1 DEF w
  <2>3. [w EXCEPT ![i] = s] \in Seq(T)
    BY <2>2, ExceptSeq
  <2> QED BY <2>2, <2>3 DEF w
<1>2. ConSegmento(p, i, s) = [segs EXCEPT ![p] = r]
  BY DEF ConSegmento
<1> HIDE DEF r
<1> QED BY <1>1, <1>2

\* A table without one of its segments, and with one more.
LEMMA QuitarDeLaTabla ==
  ASSUME NEW T, NEW w \in Seq(T), NEW i \in DOMAIN w
  PROVE  /\ RemoveAt(w, i) \in Seq(T) /\ DOMAIN RemoveAt(w, i) = 1 .. Len(w) - 1
         /\ \A k \in DOMAIN RemoveAt(w, i) : \E j \in DOMAIN w : RemoveAt(w, i)[k] = w[j]
<1>1. /\ RemoveAt(w, i) \in Seq(T) /\ DOMAIN RemoveAt(w, i) = 1 .. Len(w) - 1
      /\ \A k \in 1 .. i - 1 : RemoveAt(w, i)[k] = w[k]
      /\ \A k \in i .. Len(w) - 1 : RemoveAt(w, i)[k] = w[k + 1]
  BY QuitarUno
<1>2. \A k \in 1 .. Len(w) - 1 : \E j \in DOMAIN w : RemoveAt(w, i)[k] = w[j]
  <2> TAKE k \in 1 .. Len(w) - 1
  <2>1. Len(w) \in Nat /\ DOMAIN w = 1 .. Len(w) /\ i \in 1 .. Len(w)
    OBVIOUS
  <2>2. CASE k < i
    <3>1. k \in 1 .. i - 1 /\ k \in DOMAIN w
      BY <2>1, <2>2
    <3> QED BY <1>1, <3>1
  <2>3. CASE k >= i
    <3>1. k \in i .. Len(w) - 1 /\ k + 1 \in DOMAIN w
      BY <2>1, <2>3
    <3> QED BY <1>1, <3>1
  <2> QED BY <2>1, <2>2, <2>3
<1> QED BY <1>1, <1>2

\* The elements of a sequence with one more at the end.
LEMMA AgregarALaTabla ==
  ASSUME NEW T, NEW w \in Seq(T), NEW e
  PROVE  \A k \in DOMAIN Append(w, e) :
           Append(w, e)[k] = e \/ (k \in DOMAIN w /\ Append(w, e)[k] = w[k])
OBVIOUS

\* The parts of TypeOK that most steps use.
LEMMA Tipos ==
  ASSUME TypeOK
  PROVE  /\ huecos \in Seq(Hueco) /\ segs \in [Procesos -> Seq(Segmento)] /\ ks \in Locales
         /\ ks.fase \in FasesKS /\ ks.tam \in Nat /\ ks.base \in Nat /\ ks.i \in Nat
         /\ ks.cola \in Seq(TramoTipo) /\ total \in Nat
<1>1. ks \in Locales
  BY DEF TypeOK, Locales, FasesKS
<1>2. /\ ks.fase \in FasesKS /\ ks.tam \in Nat /\ ks.base \in Nat /\ ks.i \in Nat
      /\ ks.cola \in Seq(TramoTipo)
  BY <1>1 DEF Locales
<1>3. huecos \in Seq(Hueco)
  BY DEF TypeOK, Hueco
<1>4. segs \in [Procesos -> Seq(Segmento)]
  BY DEF TypeOK, Segmento
<1>5. total \in Nat
  BY DEF TypeOK
<1> QED BY <1>1, <1>2, <1>3, <1>4, <1>5

\* The fields of a segment.
LEMMA SegmentoEs ==
  ASSUME KernelMemoryAssumption, NEW s \in Segmento
  PROVE  /\ s.id \in Ids /\ s.base \in Nat /\ s.tam \in Tamanios /\ s.tam \in Nat \ {0}
         /\ s.enSwap \in BOOLEAN /\ s.bloque \in Nat
<1>1. /\ s.id \in Ids /\ s.base \in Nat /\ s.tam \in Tamanios /\ s.enSwap \in BOOLEAN
      /\ s.bloque \in Bits \cup {MaxBit}
  BY DEF Segmento
<1>2. s.tam \in Nat \ {0}
  BY <1>1 DEF KernelMemoryAssumption
<1>3. s.bloque \in Nat
  BY <1>1, MaxBitNatural DEF Bits
<1> QED BY <1>1, <1>2, <1>3

\* Taking bytes from a hole leaves holes of at least one byte.
LEMMA ConsumirTipado ==
  ASSUME huecos \in Seq(Hueco), NEW tam \in Nat \ {0}, NEW i \in Candidatos(tam)
  PROVE  ConsumirHueco(i, tam) \in Seq(Hueco) /\ huecos[i].base \in Nat
<1>0. i \in DOMAIN huecos /\ huecos[i].tam >= tam
  BY DEF Candidatos
<1>1. /\ i \in DOMAIN huecos /\ huecos[i] \in Hueco /\ huecos[i].tam >= tam
      /\ huecos[i].base \in Nat /\ huecos[i].tam \in Nat
  <2>1. huecos[i] \in Hueco
    BY <1>0
  <2> QED BY <1>0, <2>1 DEF Hueco
<1>2. CASE huecos[i].tam = tam
  BY <1>1, <1>2, QuitarUno DEF ConsumirHueco
<1>3. CASE huecos[i].tam # tam
  <2> DEFINE h == [base |-> huecos[i].base + tam, tam |-> huecos[i].tam - tam]
  <2>1. huecos[i].tam - tam \in Nat \ {0} /\ huecos[i].base + tam \in Nat
    BY <1>1, <1>3
  <2>2. h \in Hueco
    BY <2>1 DEF Hueco
  <2>3. ConsumirHueco(i, tam) = [huecos EXCEPT ![i] = h]
    BY <1>1, <1>3 DEF ConsumirHueco
  <2> HIDE DEF h
  <2> QED BY <1>1, <2>2, <2>3, ExceptSeq
<1> QED BY <1>1, <1>2, <1>3

\* So does giving bytes back, and a stick that joins the hole before it.
LEMMA AgregarTipado ==
  ASSUME huecos \in Seq(Hueco), NEW b \in Nat, NEW t \in Nat \ {0}
  PROVE  AgregarHuecoLibre(b, t) \in Seq(Hueco) /\ AgregarHuecoMs(b, t) \in Seq(Hueco)
<1> DEFINE pegados == {i \in DOMAIN huecos : huecos[i].base + huecos[i].tam = b}
<1>1. AgregarHuecoLibre(b, t) \in Seq(Hueco)
  <2>1. [base |-> b, tam |-> t] \in Hueco
    BY DEF Hueco
  <2> QED BY <2>1 DEF AgregarHuecoLibre
<1>2. CASE pegados = {}
  BY <1>1, <1>2 DEF AgregarHuecoMs
<1>3. CASE pegados # {}
  <2>1. pegados \in SUBSET Nat
    OBVIOUS
  <2>2. PICK i \in pegados : i = Min(pegados)
    BY <1>3, <2>1, MinEsMenor
  <2>3. i \in DOMAIN huecos /\ huecos[i] \in Hueco
    BY <2>2
  <2>4. [base |-> huecos[i].base, tam |-> huecos[i].tam + t] \in Hueco
    BY <2>3 DEF Hueco
  <2>5. RemoveAt(huecos, i) \in Seq(Hueco)
    BY <2>3, QuitarUno
  <2>6. AgregarHuecoMs(b, t)
          = Append(RemoveAt(huecos, i), [base |-> huecos[i].base, tam |-> huecos[i].tam + t])
    BY <1>3, <2>2 DEF AgregarHuecoMs
  <2> QED BY <1>1, <2>4, <2>5, <2>6
<1> QED BY <1>1, <1>2, <1>3

\* A segment needs a block of swap at least.
LEMMA BloquesPositivos ==
  ASSUME KernelMemoryAssumption, NEW tam \in Nat \ {0}
  PROVE  BloquesNecesarios(tam) \in Nat \ {0}
BY DEF BloquesNecesarios, KernelMemoryAssumption

\* The size of some sticks is a natural, and one more stick adds its own.
LEMMA CapacidadUno ==
  ASSUME KernelMemoryAssumption, NEW S \in SUBSET Sticks
  PROVE  /\ Capacidad(S) \in Nat /\ Capacidad(S) <= Tope
         /\ \A k \in Sticks \ S : Capacidad(S \cup {k}) = Capacidad(S) + TamStick[k]
<1> DEFINE F(k) == {k} \X (1 .. TamStick[k])
           U(X) == UNION {F(k) : k \in X}
<1>1. IsFiniteSet(Sticks) /\ \A k \in Sticks : TamStick[k] \in Nat \ {0}
  <2>1. Sticks = 1 .. Len(TamStick) /\ Len(TamStick) \in Nat
    BY DEF Sticks, KernelMemoryAssumption
  <2>2. IsFiniteSet(1 .. Len(TamStick))
    BY <2>1, FS_Interval
  <2> QED BY <2>1, <2>2 DEF KernelMemoryAssumption
<1>2. ASSUME NEW k \in Sticks
      PROVE  IsFiniteSet(F(k)) /\ Cardinality(F(k)) = TamStick[k]
  <2>1. IsFiniteSet(1 .. TamStick[k]) /\ Cardinality(1 .. TamStick[k]) = TamStick[k]
    <3>1. PICK n \in Nat \ {0} : n = TamStick[k]
      BY <1>1
    <3>2. IsFiniteSet(1 .. n) /\ Cardinality(1 .. n) = n
      BY FS_Interval
    <3> QED BY <3>1, <3>2
  <2>2. IsFiniteSet({k}) /\ Cardinality({k}) = 1
    BY FS_Singleton
  <2> QED BY <1>1, <2>1, <2>2, FS_Product
<1>3. ASSUME NEW X \in SUBSET Sticks PROVE IsFiniteSet(U(X))
  <2>1. IsFiniteSet(X)
    BY <1>1, FS_Subset
  <2>2. IsFiniteSet({F(k) : k \in X})
    <3> DEFINE f == [k \in X |-> F(k)]
    <3> HIDE DEF F
    <3>1. f \in Surjection(X, {F(k) : k \in X})
      BY DEF Surjection
    <3> HIDE DEF f
    <3> QED BY <2>1, <3>1, FS_Surjection
  <2>3. \A E \in {F(k) : k \in X} : IsFiniteSet(E)
    <3> HIDE DEF F
    <3> QED BY <1>2
  <2> HIDE DEF F
  <2> QED BY <2>2, <2>3, FS_UNION
<1>4. \A X \in SUBSET Sticks : Capacidad(X) = Cardinality(U(X))
  BY DEF Capacidad
<1>5. U(S) \subseteq U(Sticks)
  OBVIOUS
<1>6. Capacidad(S) \in Nat /\ Capacidad(S) <= Tope
  <2> HIDE DEF U
  <2>1. Cardinality(U(S)) <= Cardinality(U(Sticks)) /\ Cardinality(U(S)) \in Nat
    BY <1>3, <1>5, FS_Subset, FS_CardinalityType
  <2> QED BY <1>4, <2>1 DEF Tope
<1>7. ASSUME NEW k \in Sticks \ S PROVE Capacidad(S \cup {k}) = Capacidad(S) + TamStick[k]
  <2>1. U(S \cup {k}) = U(S) \cup F(k)
    <3> HIDE DEF F
    <3> QED OBVIOUS
  <2>2. U(S) \cap F(k) = {}
    OBVIOUS
  <2>3. IsFiniteSet(U(S)) /\ IsFiniteSet(F(k)) /\ Cardinality(F(k)) = TamStick[k]
    <3> HIDE DEF U, F
    <3> QED BY <1>2, <1>3
  <2>4. Cardinality(U(S)) + Cardinality(F(k)) = Cardinality(U(S) \cup F(k))
    <3> HIDE DEF U, F
    <3>1. Cardinality({}) = 0
      BY FS_EmptySet
    <3>2. Cardinality(U(S)) \in Nat /\ Cardinality(F(k)) \in Nat
      BY <2>3, FS_CardinalityType
    <3>3. Cardinality(U(S) \cup F(k))
            = Cardinality(U(S)) + Cardinality(F(k)) - Cardinality(U(S) \cap F(k))
      BY <2>3, FS_Union
    <3>4. Cardinality(U(S) \cap F(k)) = 0
      BY <2>2, <3>1
    <3>5. PICK a \in Nat, b \in Nat : a = Cardinality(U(S)) /\ b = Cardinality(F(k))
      BY <3>2
    <3> QED BY <3>3, <3>4, <3>5
  <2>5. Capacidad(S \cup {k}) = Cardinality(U(S \cup {k})) /\ Capacidad(S) = Cardinality(U(S))
    BY <1>4
  <2> QED BY <2>1, <2>3, <2>4, <2>5
<1> QED BY <1>6, <1>7

-----------------------------------------------------------------------------
(* Types.  They need to know what the program counter of the serving       *)
(* thread says of its locals, and where the sticks are.                    *)

TiposDeSticks == /\ total \in 0 .. Tope
                 /\ stick \in [Sticks -> [fase : {"no", "hueco", "posicion", "listo"}, base : Nat]]
TiposDeTablas == procesos \subseteq Procesos /\ suspendidos \subseteq procesos
TiposDeSwap   == bloques \subseteq Bits /\ DOMAIN disco = Bits /\ sinDuenio \subseteq Bits
TiposDePedidas == pedidas \in Seq([pid : Procesos, id : Ids, tam : Tamanios])
TiposDeHistoria == /\ fugas \subseteq Nat /\ dobles \subseteq Nat /\ caida \in BOOLEAN
                   /\ DOMAIN mem = 0 .. Tope - 1

\* What waits in ks.cola is of a segment of its table.
Indices ==
  ks.fase \in {"mover", "reservar", "traer"} =>
    \A j \in DOMAIN ks.cola :
      ks.cola[j].pid \in Procesos /\ ks.cola[j].i \in DOMAIN segs[ks.cola[j].pid]

CabenEnSwap ==
  \A p \in Procesos : \A i \in DOMAIN segs[p] :
    segs[p][i].enSwap =>
      segs[p][i].bloque + BloquesNecesarios(segs[p][i].tam) <= MaxBit

TypeInv == TypeOK /\ EnCurso /\ Indices /\ CabenEnSwap /\ SticksAparte

\* TypeOK, taken apart by the variables that change together.
LEMMA TypeOKPartes ==
  TypeOK <=> /\ huecos \in Seq(Hueco) /\ segs \in [Procesos -> Seq(Segmento)]
             /\ ks \in Locales
             /\ TiposDeSticks /\ TiposDeTablas /\ TiposDeSwap /\ TiposDePedidas
             /\ TiposDeHistoria
<1>1. TypeOK => ks \in Locales
  BY DEF TypeOK, Locales, FasesKS
<1>2. TypeOK => huecos \in Seq(Hueco) /\ segs \in [Procesos -> Seq(Segmento)]
  BY DEF TypeOK, Hueco, Segmento
<1>3. TypeOK => TiposDeSticks /\ TiposDeTablas /\ TiposDeSwap /\ TiposDePedidas
                /\ TiposDeHistoria
  BY DEF TypeOK, TiposDeSticks, TiposDeTablas, TiposDeSwap, TiposDePedidas, TiposDeHistoria
<1>4. ASSUME huecos \in Seq(Hueco), segs \in [Procesos -> Seq(Segmento)], ks \in Locales,
             TiposDeSticks, TiposDeTablas, TiposDeSwap, TiposDePedidas, TiposDeHistoria
      PROVE  TypeOK
  BY <1>4, Zenon DEF TypeOK, Hueco, Segmento, Locales, FasesKS, TiposDeSticks, TiposDeTablas,
                     TiposDeSwap, TiposDePedidas, TiposDeHistoria
<1> QED BY <1>1, <1>2, <1>3, <1>4

LEMMA TypeOKPrima ==
  ASSUME huecos' \in Seq(Hueco), segs' \in [Procesos -> Seq(Segmento)], ks' \in Locales,
         TiposDeSticks', TiposDeTablas', TiposDeSwap', TiposDePedidas', TiposDeHistoria'
  PROVE  TypeOK'
BY Zenon DEF TypeOK, Hueco, Segmento, Locales, FasesKS, TiposDeSticks, TiposDeTablas,
             TiposDeSwap, TiposDePedidas, TiposDeHistoria

\* A step of the serving thread leaves the sticks where they are.
LEMMA SticksQuietos ==
  ASSUME TypeInv, UNCHANGED <<total, stick>> PROVE TiposDeSticks' /\ SticksAparte'
<1>1. TiposDeSticks' = TiposDeSticks
  BY Zenon DEF TiposDeSticks
<1>2. SticksAparte' = SticksAparte
  BY Zenon DEF SticksAparte, Orden
<1> QED BY <1>1, <1>2, TypeOKPartes DEF TypeInv

LEMMA TipoInicial == ASSUME KernelMemoryAssumption, Init PROVE TypeInv
<1>1. huecos \in Seq(Hueco) /\ ks \in Locales /\ ks.fase = "libre"
  BY OciosoTipado DEF Init
<1>2. segs \in [Procesos -> Seq(Segmento)] /\ CabenEnSwap
  BY DEF Init, CabenEnSwap
<1>3. Capacidad({}) = 0 /\ Tope \in Nat
  <2>1. Cardinality({}) = 0
    BY FS_EmptySet
  <2>2. Capacidad({}) = Cardinality({})
    BY DEF Capacidad
  <2> QED BY <2>1, <2>2, CapacidadUno DEF Tope
<1>4. TiposDeSticks
  BY <1>3 DEF Init, TiposDeSticks
<1>5. TiposDeTablas /\ TiposDeSwap /\ TiposDePedidas /\ TiposDeHistoria
  <2>1. TiposDeTablas /\ TiposDePedidas
    BY DEF Init, TiposDeTablas, TiposDePedidas
  <2>2. TiposDeSwap
    BY DEF Init, TiposDeSwap
  <2>3. TiposDeHistoria
    BY DEF Init, TiposDeHistoria
  <2> QED BY <2>1, <2>2, <2>3
<1>6. SticksAparte
  <2>1. \A k \in Sticks : stick[k].fase = "no"
    BY DEF Init
  <2>2. {k \in Sticks : stick[k].fase # "no"} = {}
    BY <2>1
  <2>3. total = 0
    BY DEF Init
  <2> QED BY <1>3, <2>1, <2>2, <2>3 DEF SticksAparte
<1>7. EnCurso /\ Indices
  <2>1. ks.fase = "libre"
    BY <1>1
  <2> QED BY <2>1 DEF EnCurso, Indices
<1> QED BY <1>1, <1>2, <1>4, <1>5, <1>6, <1>7, TypeOKPartes DEF TypeInv

\* A stick connects above all the others.
LEMMA TipoAumentar ==
  ASSUME KernelMemoryAssumption, TypeInv, NEW k \in Sticks, AumentarMemoriaTotal(k)
  PROVE  TypeInv'
<1> DEFINE n == [fase |-> "hueco", base |-> total]
           S == {j \in Sticks : stick[j].fase # "no"}
<1>1. /\ stick[k].fase = "no" /\ total' = total + TamStick[k] /\ stick' = [stick EXCEPT ![k] = n]
      /\ UNCHANGED <<huecos, tablas, swap, mem, pedidas, ks, historia>>
  BY DEF AumentarMemoriaTotal
<1>2. TamStick[k] \in Nat \ {0} /\ total \in Nat
  BY Tipos DEF KernelMemoryAssumption, Sticks, TypeInv
<1>3. /\ n.fase = "hueco" /\ n.base = total
      /\ stick \in [Sticks -> [fase : {"no", "hueco", "posicion", "listo"}, base : Nat]]
      /\ n \in [fase : {"no", "hueco", "posicion", "listo"}, base : Nat]
  BY <1>2 DEF TypeInv, TypeOK
<1> HIDE DEF n
<1>4. /\ stick'[k] = n /\ \A j \in Sticks \ {k} : stick'[j] = stick[j]
      /\ stick' \in [Sticks -> [fase : {"no", "hueco", "posicion", "listo"}, base : Nat]]
  BY <1>1, <1>3
<1>5. total' = Capacidad(S \cup {k}) /\ total' <= Tope /\ total' \in Nat
  <2>1. k \in Sticks \ S /\ total = Capacidad(S)
    BY <1>1 DEF TypeInv, SticksAparte
  <2>2. Capacidad(S \cup {k}) = Capacidad(S) + TamStick[k]
    BY <2>1, CapacidadUno
  <2>3. Capacidad(S \cup {k}) <= Tope
    BY CapacidadUno
  <2> QED BY <1>1, <1>2, <2>1, <2>2, <2>3
<1>6. {j \in Sticks : stick'[j].fase # "no"} = S \cup {k}
  BY <1>1, <1>3, <1>4
<1>7. TiposDeSticks'
  <2>1. Tope \in Nat
    BY CapacidadUno DEF Tope
  <2> QED BY <1>4, <1>5, <2>1 DEF TiposDeSticks
<1>8. SticksAparte'
  <2>1. \A j \in Sticks : TamStick[j] \in Nat /\ stick[j].base \in Nat
    BY <1>3 DEF KernelMemoryAssumption, Sticks
  <2>2. /\ \A j \in Sticks : stick[j].fase # "no" => stick[j].base + TamStick[j] <= total
        /\ \A j, l \in Sticks : stick[j].fase # "no" /\ stick[l].fase # "no" /\ j # l =>
             \/ stick[j].base + TamStick[j] <= stick[l].base
             \/ stick[l].base + TamStick[l] <= stick[j].base
    BY DEF TypeInv, SticksAparte, Orden
  <2>3. \A j \in Sticks : stick'[j].fase # "no" => stick'[j].base + TamStick[j] <= total'
    BY <1>1, <1>2, <1>3, <1>4, <2>1, <2>2
  <2>4. \A j, l \in Sticks : stick'[j].fase # "no" /\ stick'[l].fase # "no" /\ j # l =>
             \/ stick'[j].base + TamStick[j] <= stick'[l].base
             \/ stick'[l].base + TamStick[l] <= stick'[j].base
    BY <1>3, <1>4, <2>1, <2>2
  <2> QED BY <1>5, <1>6, <2>3, <2>4 DEF SticksAparte, Orden
<1>9. /\ huecos' \in Seq(Hueco) /\ segs' \in [Procesos -> Seq(Segmento)] /\ ks' \in Locales
      /\ TiposDeTablas' /\ TiposDeSwap' /\ TiposDePedidas' /\ TiposDeHistoria'
  BY <1>1, TypeOKPartes, Zenon DEF TypeInv, TiposDeTablas, TiposDeSwap, TiposDePedidas,
     TiposDeHistoria, tablas, swap, historia
<1>10. EnCurso' /\ Indices' /\ CabenEnSwap'
  BY <1>1, Zenon DEF TypeInv, EnCurso, Indices, CabenEnSwap, tablas
<1> QED BY <1>7, <1>8, <1>9, <1>10, TypeOKPrima DEF TypeInv

\* The other two sections of its thread change only the phase, and the list of holes.
LEMMA TipoStick ==
  ASSUME KernelMemoryAssumption, TypeInv, NEW k \in Sticks,
         AgregarHuecoDeStick(k) \/ AgregarPosicion(k)
  PROVE  TypeInv'
<1>1. PICK f \in {"posicion", "listo"} :
        /\ stick' = [stick EXCEPT ![k].fase = f] /\ stick[k].fase # "no"
        /\ UNCHANGED <<total, tablas, swap, mem, pedidas, ks, historia>>
  BY DEF AgregarHuecoDeStick, AgregarPosicion
<1>2. stick \in [Sticks -> [fase : {"no", "hueco", "posicion", "listo"}, base : Nat]]
  BY DEF TypeInv, TypeOK
<1>3. /\ \A j \in Sticks : stick'[j].base = stick[j].base
      /\ \A j \in Sticks : stick'[j].fase # "no" <=> stick[j].fase # "no"
      /\ stick' \in [Sticks -> [fase : {"no", "hueco", "posicion", "listo"}, base : Nat]]
  BY <1>1, <1>2
<1>4. SticksAparte'
  <2>1. {j \in Sticks : stick'[j].fase # "no"} = {j \in Sticks : stick[j].fase # "no"}
    BY <1>3
  <2> QED BY <1>1, <1>3, <2>1 DEF TypeInv, SticksAparte, Orden
<1>5. TiposDeSticks'
  BY <1>1, <1>3, TypeOKPartes DEF TypeInv, TiposDeSticks
<1>6. huecos' \in Seq(Hueco)
  <2>1. huecos \in Seq(Hueco) /\ stick[k].base \in Nat /\ TamStick[k] \in Nat \ {0}
    BY <1>2, Tipos DEF TypeInv, KernelMemoryAssumption, Sticks
  <2>2. CASE AgregarHuecoDeStick(k)
    BY <2>1, <2>2, AgregarTipado DEF AgregarHuecoDeStick
  <2>3. CASE AgregarPosicion(k)
    BY <2>1, <2>3 DEF AgregarPosicion
  <2> QED BY <2>2, <2>3
<1>9. /\ segs' \in [Procesos -> Seq(Segmento)] /\ ks' \in Locales
      /\ TiposDeTablas' /\ TiposDeSwap' /\ TiposDePedidas' /\ TiposDeHistoria'
  BY <1>1, TypeOKPartes, Zenon DEF TypeInv, TiposDeTablas, TiposDeSwap, TiposDePedidas,
     TiposDeHistoria, tablas, swap, historia
<1>10. EnCurso' /\ Indices' /\ CabenEnSwap'
  BY <1>1, Zenon DEF TypeInv, EnCurso, Indices, CabenEnSwap, tablas
<1> QED BY <1>4, <1>5, <1>6, <1>9, <1>10, TypeOKPrima DEF TypeInv

\* What a step of the serving thread has to show.
LEMMA TipoKS ==
  ASSUME TypeInv, UNCHANGED <<total, stick>>,
         huecos' \in Seq(Hueco), segs' \in [Procesos -> Seq(Segmento)], ks' \in Locales,
         TiposDeTablas', TiposDeSwap', TiposDePedidas', TiposDeHistoria',
         EnCurso', Indices', CabenEnSwap'
  PROVE  TypeInv'
BY SticksQuietos, TypeOKPrima DEF TypeInv

\* A step that changes neither the tables nor the list of holes.
LEMMA TipoSoloKS ==
  ASSUME TypeInv, UNCHANGED <<total, huecos, stick, tablas, swap, mem, historia>>,
         ks' \in Locales, TiposDePedidas', EnCurso', Indices'
  PROVE  TypeInv'
<1>1. /\ huecos' \in Seq(Hueco) /\ segs' \in [Procesos -> Seq(Segmento)]
      /\ TiposDeTablas' /\ TiposDeSwap' /\ TiposDeHistoria'
  BY TypeOKPartes, Zenon DEF TypeInv, TiposDeTablas, TiposDeSwap, TiposDeHistoria, tablas, swap,
     historia
<1>2. CabenEnSwap'
  BY Zenon DEF TypeInv, CabenEnSwap, tablas
<1> QED BY <1>1, <1>2, TipoKS

LEMMA TipoCrearProceso ==
  ASSUME TypeInv, NEW p \in Procesos, CrearProceso(p) PROVE TypeInv'
<1>1. /\ ks.fase = "libre" /\ ks' = ks /\ procesos' = procesos \cup {p}
      /\ segs' = [segs EXCEPT ![p] = <<>>]
      /\ UNCHANGED <<total, huecos, stick, suspendidos, swap, mem, pedidas, historia>>
  BY DEF CrearProceso
<1>2. /\ huecos' \in Seq(Hueco) /\ ks' \in Locales
      /\ TiposDeTablas' /\ TiposDeSwap' /\ TiposDePedidas' /\ TiposDeHistoria'
  BY <1>1, TypeOKPartes DEF TypeInv, TiposDeTablas, TiposDeSwap, TiposDePedidas,
     TiposDeHistoria, swap, historia
<1>3. segs \in [Procesos -> Seq(Segmento)] /\ <<>> \in Seq(Segmento)
  BY Tipos DEF TypeInv
<1>4. segs' \in [Procesos -> Seq(Segmento)]
  BY <1>1, <1>3
<1>5. CabenEnSwap'
  <2> SUFFICES ASSUME NEW q \in Procesos, NEW i \in DOMAIN segs'[q]
               PROVE  segs'[q][i].enSwap =>
                        segs'[q][i].bloque + BloquesNecesarios(segs'[q][i].tam) <= MaxBit
    BY DEF CabenEnSwap
  <2>1. q # p /\ segs'[q] = segs[q]
    BY <1>1, <1>3
  <2> QED BY <2>1 DEF TypeInv, CabenEnSwap
<1>6. EnCurso' /\ Indices'
  BY <1>1 DEF EnCurso, Indices
<1> QED BY <1>1, <1>2, <1>4, <1>5, <1>6, TipoKS

LEMMA TipoSuspender ==
  ASSUME TypeInv, NEW p \in Procesos, Suspender(p) \/ Desuspender(p) PROVE TypeInv'
<1>1. PICK f \in {"suspender", "reservar"} :
        /\ ks' = [Ocioso EXCEPT !.fase = f, !.pid = p, !.i = 1]
        /\ p \in procesos /\ (f = "suspender" => p \notin suspendidos)
        /\ (f = "reservar" => p \in suspendidos)
        /\ UNCHANGED <<total, huecos, stick, tablas, swap, mem, pedidas, historia>>
  BY DEF Suspender, Desuspender, Corre, TypeInv, TypeOK
<1>2. /\ ks' \in Locales /\ ks'.fase = f /\ ks'.pid = p /\ ks'.i = 1 /\ ks'.cola = <<>>
  BY <1>1, OciosoTipado DEF Locales, FasesKS
<1>3. TiposDePedidas'
  BY <1>1, TypeOKPartes DEF TypeInv, TiposDePedidas
<1>4. EnCurso' /\ Indices'
  BY <1>1, <1>2 DEF EnCurso, Indices, tablas
<1> QED BY <1>1, <1>2, <1>3, <1>4, TipoSoloKS

\* TomarHueco consumes a hole where the segment fits, or ends the request.
LEMMA TipoTomarHueco ==
  ASSUME KernelMemoryAssumption, TypeInv,
         NEW p \in Procesos, NEW id \in Ids, NEW tam \in Tamanios, TomarHueco(p, id, tam)
  PROVE  TypeInv'
<1>0. tam \in Nat \ {0} /\ huecos \in Seq(Hueco)
  BY Tipos DEF KernelMemoryAssumption, TypeInv
<1>1. UNCHANGED <<total, stick, tablas, swap, mem, historia>>
  BY DEF TomarHueco
<1>2. /\ segs' \in [Procesos -> Seq(Segmento)]
      /\ TiposDeTablas' /\ TiposDeSwap' /\ TiposDeHistoria' /\ CabenEnSwap'
  BY <1>1, TypeOKPartes, Zenon DEF TypeInv, TiposDeTablas, TiposDeSwap, TiposDeHistoria, tablas,
     swap, historia, CabenEnSwap
<1>3. CASE Candidatos(tam) # {}
  <2>1. PICK i \in Candidatos(tam) : i = HuecoElegido(tam)
    BY <1>0, <1>3, ElegidoEsCandidato
  <2>2. /\ huecos' = ConsumirHueco(i, tam) /\ pedidas' = pedidas
        /\ ks' = [Ocioso EXCEPT !.fase = "registrar", !.pid = p, !.id = id, !.tam = tam,
                                !.base = huecos[i].base]
    BY <1>3, <2>1 DEF TomarHueco
  <2>3. huecos' \in Seq(Hueco) /\ huecos[i].base \in Nat
    BY <1>0, <2>1, <2>2, ConsumirTipado
  <2>4. ks' \in Locales /\ ks'.fase = "registrar" /\ ks'.pid = p /\ ks'.id = id /\ ks'.tam = tam
    BY <1>0, <2>2, <2>3, OciosoTipado DEF Locales, FasesKS
  <2>5. EnCurso' /\ Indices'
    BY <2>4 DEF EnCurso, Indices
  <2>6. TiposDePedidas'
    BY <2>2, TypeOKPartes DEF TypeInv, TiposDePedidas
  <2> QED BY <1>1, <1>2, <2>3, <2>4, <2>5, <2>6, TipoKS
<1>4. CASE Candidatos(tam) = {}
  <2>1. /\ ks' = Ocioso /\ huecos' = huecos
        /\ \/ pedidas' = pedidas
           \/ pedidas' = Append(pedidas, [pid |-> p, id |-> id, tam |-> tam])
    BY <1>4 DEF TomarHueco
  <2>2. TiposDePedidas'
    <3> DEFINE T == [pid : Procesos, id : Ids, tam : Tamanios]
    <3>1. PICK e \in T : e = [pid |-> p, id |-> id, tam |-> tam]
      OBVIOUS
    <3>2. pedidas \in Seq(T)
      BY TypeOKPartes DEF TypeInv, TiposDePedidas
    <3> HIDE DEF T
    <3>3. pedidas' \in Seq(T)
      BY <2>1, <3>1, <3>2
    <3> QED BY <3>3 DEF TiposDePedidas, T
  <2>3. EnCurso' /\ Indices'
    BY <2>1, OciosoTipado DEF EnCurso, Indices
  <2> QED BY <1>0, <1>1, <1>2, <2>1, <2>2, <2>3, OciosoTipado, TipoKS
<1> QED BY <1>3, <1>4

\* The bytes of a segment go back: one, of a segment in swap.
LEMMA TramoDeTipado ==
  ASSUME KernelMemoryAssumption, NEW s \in Segmento
  PROVE  TramoDe(s) \in TramoTipo /\ TramoDe(s).tam # 0
<1>1. s.base \in Nat /\ s.tam \in Nat \ {0}
  BY SegmentoEs
<1> QED BY <1>1 DEF TramoDe, Tramo, TramoTipo

LEMMA TipoEliminar ==
  ASSUME KernelMemoryAssumption, TypeInv, NEW p \in Procesos, NEW i \in DOMAIN segs[p],
         EliminarSegmento(p, i)
  PROVE  TypeInv'
<1> DEFINE r == RemoveAt(segs[p], i)
           t == TramoDe(segs[p][i])
<1>1. /\ segs' = [segs EXCEPT ![p] = r] /\ mem' = BorrarMem(mem, Bytes(segs[p][i]))
      /\ ks' = [Ocioso EXCEPT !.fase = "devolver", !.cola = <<t>>]
      /\ UNCHANGED <<total, huecos, stick, procesos, suspendidos, swap, pedidas, historia>>
  BY DEF EliminarSegmento
<1>2. segs \in [Procesos -> Seq(Segmento)] /\ segs[p] \in Seq(Segmento)
      /\ segs[p][i] \in Segmento
  BY Tipos DEF TypeInv
<1>3. /\ r \in Seq(Segmento) /\ DOMAIN r = 1 .. Len(segs[p]) - 1
      /\ \A k \in DOMAIN r : \E j \in DOMAIN segs[p] : r[k] = segs[p][j]
  BY <1>2, QuitarDeLaTabla
<1>4. t \in TramoTipo /\ t.tam # 0
  BY <1>2, TramoDeTipado
<1> HIDE DEF r, t
<1>5. segs' \in [Procesos -> Seq(Segmento)]
  BY <1>1, <1>2, <1>3
<1>6. CabenEnSwap'
  <2> SUFFICES ASSUME NEW q \in Procesos, NEW k \in DOMAIN segs'[q]
               PROVE  segs'[q][k].enSwap =>
                        segs'[q][k].bloque + BloquesNecesarios(segs'[q][k].tam) <= MaxBit
    BY DEF CabenEnSwap
  <2>1. PICK j \in DOMAIN segs[q] : segs'[q][k] = segs[q][j]
    BY <1>1, <1>2, <1>3
  <2> QED BY <2>1 DEF TypeInv, CabenEnSwap
<1>7. ks' \in Locales /\ ks'.fase = "devolver" /\ ks'.cola = <<t>> /\ ks'.i = 0
  <2>1. <<t>> \in Seq(TramoTipo)
    BY <1>4
  <2> QED BY <1>1, <2>1, OciosoTipado DEF Locales, FasesKS
<1>8. EnCurso' /\ Indices'
  BY <1>4, <1>7 DEF EnCurso, Indices
<1>9. /\ huecos' \in Seq(Hueco)
      /\ TiposDeTablas' /\ TiposDeSwap' /\ TiposDePedidas' /\ TiposDeHistoria'
  BY <1>1, TypeOKPartes DEF TypeInv, TiposDeTablas, TiposDeSwap, TiposDePedidas,
     TiposDeHistoria, swap, historia, BorrarMem
<1> QED BY <1>1, <1>5, <1>6, <1>7, <1>8, <1>9, TipoKS

\* The keys of the tables of segments are a process and an index of its table.
LEMMA EnTablaEs ==
  ASSUME segs \in [Procesos -> Seq(Segmento)], NEW x
  PROVE  x \in EnTabla <=> \E p \in Procesos : \E i \in DOMAIN segs[p] : x = <<p, i>>
BY DEF EnTabla

LEMMA EnTablaTipo ==
  ASSUME segs \in [Procesos -> Seq(Segmento)], NEW x \in EnTabla
  PROVE  /\ x[1] \in Procesos /\ x[2] \in DOMAIN segs[x[1]] /\ x = <<x[1], x[2]>>
         /\ segs[x[1]][x[2]] \in Segmento /\ x[2] \in Nat \ {0}
<1>0. PICK p \in Procesos : \E i \in DOMAIN segs[p] : x = <<p, i>>
  BY EnTablaEs
<1>1. PICK i \in DOMAIN segs[p] : x = <<p, i>>
  BY <1>0
<1>2. segs[p] \in Seq(Segmento) /\ i \in 1 .. Len(segs[p]) /\ Len(segs[p]) \in Nat
  BY <1>1
<1>3. segs[p][i] \in Segmento /\ i \in Nat \ {0}
  BY <1>2
<1> QED BY <1>1, <1>3

\* There are finitely many segments.
LEMMA TablaFinita ==
  ASSUME KernelMemoryAssumption, segs \in [Procesos -> Seq(Segmento)]
  PROVE  IsFiniteSet(EnTabla)
<1> DEFINE F(p) == {p} \X DOMAIN segs[p]
<1>1. ASSUME NEW p \in Procesos PROVE IsFiniteSet(F(p))
  <2>1. PICK n \in Nat : DOMAIN segs[p] = 1 .. n
    BY LenProperties
  <2>2. IsFiniteSet(1 .. n)
    BY FS_Interval
  <2>3. IsFiniteSet({p})
    BY FS_Singleton
  <2> QED BY <2>1, <2>2, <2>3, FS_Product
<1>2. EnTabla = UNION {F(p) : p \in Procesos}
  BY DEF EnTabla
<1> HIDE DEF F
<1>3. IsFiniteSet({F(p) : p \in Procesos})
  <2> DEFINE f == [p \in Procesos |-> F(p)]
  <2>1. f \in Surjection(Procesos, {F(p) : p \in Procesos})
    BY DEF Surjection
  <2> HIDE DEF f
  <2> QED BY <2>1, FS_Surjection DEF KernelMemoryAssumption
<1>4. \A E \in {F(p) : p \in Procesos} : IsFiniteSet(E)
  BY <1>1
<1> QED BY <1>2, <1>3, <1>4, FS_UNION

\* The pieces of a set of entries of the tables.
LEMMA TramosSon ==
  ASSUME KernelMemoryAssumption, segs \in [Procesos -> Seq(Segmento)], NEW C \in SUBSET EnTabla
  PROVE  /\ IsFiniteSet(TramosDe(C))
         /\ \A t \in TramosDe(C) :
              /\ t \in TramoTipo /\ <<t.pid, t.i>> \in C
              /\ t.base = segs[t.pid][t.i].base /\ t.tam = segs[t.pid][t.i].tam
         /\ \A x \in C : \E t \in TramosDe(C) : <<t.pid, t.i>> = x
<1> DEFINE F(x) == [pid |-> x[1], i |-> x[2], base |-> segs[x[1]][x[2]].base,
                    tam |-> segs[x[1]][x[2]].tam]
<1>1. TramosDe(C) = {F(x) : x \in C}
  BY DEF TramosDe
<1>2. ASSUME NEW x \in C
      PROVE  /\ F(x) \in TramoTipo /\ <<F(x).pid, F(x).i>> = x
             /\ F(x).base = segs[F(x).pid][F(x).i].base
             /\ F(x).tam = segs[F(x).pid][F(x).i].tam
  <2>1. /\ x[1] \in Procesos /\ x = <<x[1], x[2]>> /\ segs[x[1]][x[2]] \in Segmento
        /\ x[2] \in Nat
    BY EnTablaTipo
  <2>2. segs[x[1]][x[2]].base \in Nat /\ segs[x[1]][x[2]].tam \in Nat
    BY <2>1, SegmentoEs
  <2> QED BY <2>1, <2>2 DEF TramoTipo
<1> HIDE DEF F
<1>3. IsFiniteSet({F(x) : x \in C})
  <2> DEFINE f == [x \in C |-> F(x)]
  <2>1. f \in Surjection(C, {F(x) : x \in C})
    BY DEF Surjection
  <2> HIDE DEF f
  <2>2. IsFiniteSet(C)
    BY TablaFinita, FS_Subset
  <2> QED BY <2>1, <2>2, FS_Surjection
<1> QED BY <1>1, <1>2, <1>3

\* A sorted sequence of them.
LEMMA OrdenesSon ==
  ASSUME KernelMemoryAssumption, segs \in [Procesos -> Seq(Segmento)],
         NEW cola \in SegmentosOrdenados
  PROVE  /\ cola \in Seq(TramoTipo)
         /\ \A j \in DOMAIN cola :
              /\ <<cola[j].pid, cola[j].i>> \in Residentes
              /\ cola[j].base = segs[cola[j].pid][cola[j].i].base
              /\ cola[j].tam = segs[cola[j].pid][cola[j].i].tam
         /\ \A x \in Residentes : \E j \in DOMAIN cola : <<cola[j].pid, cola[j].i>> = x
         /\ \A i, j \in DOMAIN cola : i < j => cola[i].base < cola[j].base
<1> DEFINE T == TramosDe(Residentes)
<1>1. Residentes \in SUBSET EnTabla
  BY DEF Residentes
<1>2. /\ IsFiniteSet(T)
      /\ \A t \in T :
              /\ t \in TramoTipo /\ <<t.pid, t.i>> \in Residentes
              /\ t.base = segs[t.pid][t.i].base /\ t.tam = segs[t.pid][t.i].tam
      /\ \A x \in Residentes : \E t \in T : <<t.pid, t.i>> = x
  BY <1>1, TramosSon
<1>3. /\ cola \in [1 .. Cardinality(T) -> T] /\ Range(cola) = T
      /\ \A i, j \in DOMAIN cola : i < j => cola[i].base < cola[j].base
  BY DEF SegmentosOrdenados, Ordenes
<1> HIDE DEF T
<1>4. PICK n \in Nat : n = Cardinality(T)
  BY <1>2, FS_CardinalityType
<1>5. cola \in [1 .. n -> TramoTipo] /\ DOMAIN cola = 1 .. n /\ \A j \in 1 .. n : cola[j] \in T
  BY <1>2, <1>3, <1>4
<1>6. cola \in Seq(TramoTipo)
  BY <1>5, SeqDef
<1>7. \A t \in T : \E j \in DOMAIN cola : cola[j] = t
  BY <1>3 DEF Range
<1>8. ASSUME NEW j \in DOMAIN cola
      PROVE  /\ <<cola[j].pid, cola[j].i>> \in Residentes
             /\ cola[j].base = segs[cola[j].pid][cola[j].i].base
             /\ cola[j].tam = segs[cola[j].pid][cola[j].i].tam
  <2>1. cola[j] \in T
    BY <1>5
  <2> QED BY <1>2, <2>1
<1>9. ASSUME NEW x \in Residentes PROVE \E j \in DOMAIN cola : <<cola[j].pid, cola[j].i>> = x
  <2>1. PICK t \in T : <<t.pid, t.i>> = x
    BY <1>2
  <2> QED BY <1>7, <2>1
<1> QED BY <1>3, <1>6, <1>8, <1>9

LEMMA TipoCompactar ==
  ASSUME KernelMemoryAssumption, TypeInv, Compactar PROVE TypeInv'
<1>1. PICK cola \in SegmentosOrdenados :
        /\ ks' = [Ocioso EXCEPT !.fase = "mover", !.pid = pedidas[1].pid, !.id = pedidas[1].id,
                                !.tam = pedidas[1].tam, !.cola = cola]
        /\ pedidas # <<>> /\ pedidas' = Tail(pedidas)
        /\ UNCHANGED <<total, huecos, stick, tablas, swap, mem, historia>>
  BY DEF Compactar
<1>2. segs \in [Procesos -> Seq(Segmento)]
  BY Tipos DEF TypeInv
<1>3. /\ cola \in Seq(TramoTipo)
      /\ \A j \in DOMAIN cola : <<cola[j].pid, cola[j].i>> \in Residentes
  BY <1>2, OrdenesSon
<1>4. \A j \in DOMAIN cola : cola[j].pid \in Procesos /\ cola[j].i \in DOMAIN segs[cola[j].pid]
  <2> TAKE j \in DOMAIN cola
  <2>1. <<cola[j].pid, cola[j].i>> \in EnTabla
    BY <1>3 DEF Residentes
  <2> QED BY <1>2, <2>1, EnTablaTipo
<1>5. /\ pedidas[1].pid \in Procesos /\ pedidas[1].id \in Ids /\ pedidas[1].tam \in Tamanios
      /\ TiposDePedidas'
  <2> DEFINE T == [pid : Procesos, id : Ids, tam : Tamanios]
  <2>1. pedidas \in Seq(T)
    BY TypeOKPartes DEF TypeInv, TiposDePedidas
  <2> HIDE DEF T
  <2>2. pedidas[1] \in T /\ Tail(pedidas) \in Seq(T)
    BY <1>1, <2>1
  <2> QED BY <1>1, <2>2 DEF T, TiposDePedidas
<1>6. pedidas[1].tam \in Nat
  BY <1>5 DEF KernelMemoryAssumption
<1>7. /\ ks' \in Locales /\ ks'.fase = "mover" /\ ks'.cola = cola /\ ks'.pid \in Procesos
      /\ ks'.id \in Ids /\ ks'.tam \in Tamanios
  BY <1>1, <1>3, <1>5, <1>6, OciosoTipado DEF Locales, FasesKS
<1>8. EnCurso' /\ Indices'
  BY <1>1, <1>4, <1>7 DEF EnCurso, Indices, tablas
<1> QED BY <1>1, <1>5, <1>7, <1>8, TipoSoloKS

LEMMA TipoSuspensionLista ==
  ASSUME TypeInv, SuspensionLista PROVE TypeInv'
<1>1. /\ ks.fase = "suspender" /\ ks' = Ocioso /\ suspendidos' = suspendidos \cup {ks.pid}
      /\ UNCHANGED <<total, huecos, stick, procesos, segs, swap, mem, pedidas, historia>>
  BY DEF SuspensionLista
<1>2. ks.pid \in procesos
  BY <1>1 DEF TypeInv, EnCurso
<1>3. /\ huecos' \in Seq(Hueco) /\ segs' \in [Procesos -> Seq(Segmento)]
      /\ TiposDeTablas' /\ TiposDeSwap' /\ TiposDePedidas' /\ TiposDeHistoria'
  BY <1>1, <1>2, TypeOKPartes DEF TypeInv, TiposDeTablas, TiposDeSwap, TiposDePedidas,
     TiposDeHistoria, swap, historia
<1>4. CabenEnSwap'
  BY <1>1, Zenon DEF TypeInv, CabenEnSwap
<1>5. EnCurso' /\ Indices'
  BY <1>1, OciosoTipado DEF EnCurso, Indices
<1> QED BY <1>1, <1>3, <1>4, <1>5, OciosoTipado, TipoKS

LEMMA TipoVaciarHuecos ==
  ASSUME TypeInv, VaciarHuecos PROVE TypeInv'
<1>1. /\ ks.fase = "mover" /\ ks.cola = <<>> /\ huecos' = <<>>
      /\ ks' = [ks EXCEPT !.fase = "gran"]
      /\ UNCHANGED <<total, stick, tablas, swap, mem, pedidas, historia>>
  BY DEF VaciarHuecos
<1>2. /\ ks' \in Locales /\ ks'.fase = "gran" /\ ks'.cola = <<>> /\ ks'.pid = ks.pid
      /\ ks'.id = ks.id /\ ks'.tam = ks.tam
  BY <1>1, Tipos DEF TypeInv, Locales, FasesKS
<1>3. EnCurso' /\ Indices'
  BY <1>1, <1>2 DEF TypeInv, EnCurso, Indices
<1>4. /\ segs' \in [Procesos -> Seq(Segmento)] /\ CabenEnSwap'
      /\ TiposDeTablas' /\ TiposDeSwap' /\ TiposDePedidas' /\ TiposDeHistoria'
  BY <1>1, TypeOKPartes, Zenon DEF TypeInv, TiposDeTablas, TiposDeSwap, TiposDePedidas,
     TiposDeHistoria, tablas, swap, historia, CabenEnSwap
<1> QED BY <1>1, <1>2, <1>3, <1>4, TipoKS

LEMMA TipoGranHueco ==
  ASSUME TypeInv, GranHueco PROVE TypeInv'
<1>1. /\ ks.fase = "gran" /\ ks' = [ks EXCEPT !.fase = "crear"]
      /\ huecos' = IF total > ks.base THEN AgregarHuecoLibre(ks.base, total - ks.base)
                   ELSE huecos
      /\ dobles' = dobles \cup ((ks.base .. total - 1) \cap (DeSticks \cup EnHuecos))
      /\ fugas' = {}
      /\ UNCHANGED <<total, stick, tablas, swap, mem, pedidas, sinDuenio, caida>>
  BY DEF GranHueco
<1>2. /\ ks' \in Locales /\ ks'.fase = "crear" /\ ks'.cola = ks.cola /\ ks'.pid = ks.pid
      /\ ks'.id = ks.id /\ ks'.tam = ks.tam
  BY <1>1, Tipos DEF TypeInv, Locales, FasesKS
<1>3. EnCurso' /\ Indices'
  BY <1>1, <1>2 DEF TypeInv, EnCurso, Indices
<1>4. huecos' \in Seq(Hueco)
  <2>1. huecos \in Seq(Hueco) /\ total \in Nat /\ ks.base \in Nat
    BY Tipos DEF TypeInv
  <2>2. CASE total > ks.base
    <3>1. total - ks.base \in Nat \ {0}
      BY <2>1, <2>2
    <3> QED BY <1>1, <2>1, <2>2, <3>1, AgregarTipado
  <2>3. CASE ~(total > ks.base)
    BY <1>1, <2>1, <2>3
  <2> QED BY <2>2, <2>3
<1>5. TiposDeHistoria'
  <2>1. ks.base \in Nat /\ dobles \subseteq Nat /\ TiposDeHistoria
    BY Tipos, TypeOKPartes DEF TypeInv, TiposDeHistoria
  <2>2. dobles' \subseteq Nat
    BY <1>1, <2>1
  <2> QED BY <1>1, <2>1, <2>2 DEF TiposDeHistoria
<1>6. /\ segs' \in [Procesos -> Seq(Segmento)] /\ CabenEnSwap'
      /\ TiposDeTablas' /\ TiposDeSwap' /\ TiposDePedidas'
  BY <1>1, TypeOKPartes, Zenon DEF TypeInv, TiposDeTablas, TiposDeSwap, TiposDePedidas,
     tablas, swap, CabenEnSwap
<1> QED BY <1>1, <1>2, <1>3, <1>4, <1>5, <1>6, TipoKS

\* The blocks of a segment in swap are bits of the bitmap.
LEMMA BloquesDeTipado ==
  ASSUME KernelMemoryAssumption, NEW s \in Segmento,
         s.bloque + BloquesNecesarios(s.tam) <= MaxBit
  PROVE  BloquesDe(s) \subseteq Bits
<1>1. s.bloque \in Nat /\ s.tam \in Nat \ {0} /\ MaxBit \in Nat
  BY SegmentoEs, MaxBitNatural
<1>2. PICK n \in Nat \ {0} : n = BloquesNecesarios(s.tam)
  BY <1>1, BloquesPositivos
<1> QED BY <1>1, <1>2 DEF BloquesDe, Bits

LEMMA TipoFinalizar ==
  ASSUME KernelMemoryAssumption, TypeInv, NEW p \in Procesos, FinalizarProceso(p)
  PROVE  TypeInv'
<1> DEFINE cola == [i \in DOMAIN segs[p] |-> TramoDe(segs[p][i])]
           enSwap == {segs[p][i] : i \in {j \in DOMAIN segs[p] : segs[p][j].enSwap}}
<1>1. /\ ks.fase = "libre" /\ procesos' = procesos \ {p} /\ suspendidos' = suspendidos \ {p}
      /\ segs' = [segs EXCEPT ![p] = <<>>] /\ mem' = BorrarMem(mem, BytesDe(p))
      /\ ks' = IF cola = <<>> THEN Ocioso ELSE [Ocioso EXCEPT !.fase = "devolver", !.cola = cola]
      /\ sinDuenio' = sinDuenio \cup UNION {BloquesDe(s) : s \in enSwap}
      /\ dobles' = IF enSwap = {} THEN dobles ELSE dobles \cup {0}
      /\ UNCHANGED <<total, huecos, stick, swap, pedidas, fugas, caida>>
  BY DEF FinalizarProceso
<1>2. segs \in [Procesos -> Seq(Segmento)] /\ segs[p] \in Seq(Segmento)
  BY Tipos DEF TypeInv
<1>3. \A i \in DOMAIN segs[p] : segs[p][i] \in Segmento
  BY <1>2
<1>4. cola \in Seq(TramoTipo) /\ \A j \in DOMAIN cola : cola[j].tam # 0
  <2>1. \A i \in DOMAIN segs[p] : TramoDe(segs[p][i]) \in TramoTipo
                                  /\ TramoDe(segs[p][i]).tam # 0
    BY <1>3, TramoDeTipado
  <2>2. PICK n \in Nat : DOMAIN segs[p] = 1 .. n
    BY <1>2, LenProperties
  <2>3. cola \in [1 .. n -> TramoTipo] /\ \A j \in 1 .. n : cola[j].tam # 0
    BY <2>1, <2>2
  <2> HIDE DEF cola
  <2>4. DOMAIN cola = 1 .. n
    BY <2>3
  <2> QED BY <2>3, <2>4, SeqDef
<1>5. \A s \in enSwap : BloquesDe(s) \subseteq Bits
  <2> TAKE s \in enSwap
  <2>1. PICK i \in DOMAIN segs[p] : s = segs[p][i] /\ segs[p][i].enSwap
    OBVIOUS
  <2>2. s.bloque + BloquesNecesarios(s.tam) <= MaxBit
    BY <2>1 DEF TypeInv, CabenEnSwap
  <2> QED BY <1>3, <2>1, <2>2, BloquesDeTipado
<1> HIDE DEF cola, enSwap
<1>6. ks' \in Locales /\ EnCurso' /\ Indices'
  <2>1. CASE cola = <<>>
    BY <1>1, <2>1, OciosoTipado DEF EnCurso, Indices
  <2>2. CASE cola # <<>>
    <3>1. ks' \in Locales /\ ks'.fase = "devolver" /\ ks'.cola = cola /\ ks'.i = 0
      BY <1>1, <1>4, <2>2, OciosoTipado DEF Locales, FasesKS
    <3> QED BY <1>4, <2>2, <3>1 DEF EnCurso, Indices
  <2> QED BY <2>1, <2>2
<1>7. segs' \in [Procesos -> Seq(Segmento)]
  <2>1. <<>> \in Seq(Segmento)
    OBVIOUS
  <2> QED BY <1>1, <1>2, <2>1
<1>8. CabenEnSwap'
  <2> SUFFICES ASSUME NEW q \in Procesos, NEW i \in DOMAIN segs'[q]
               PROVE  segs'[q][i].enSwap =>
                        segs'[q][i].bloque + BloquesNecesarios(segs'[q][i].tam) <= MaxBit
    BY DEF CabenEnSwap
  <2>1. q # p /\ segs'[q] = segs[q]
    BY <1>1, <1>2
  <2> QED BY <2>1 DEF TypeInv, CabenEnSwap
<1>9. /\ huecos' \in Seq(Hueco) /\ TiposDeTablas' /\ TiposDePedidas'
  BY <1>1, TypeOKPartes DEF TypeInv, TiposDeTablas, TiposDePedidas
<1>10. TiposDeSwap'
  BY <1>1, <1>5, TypeOKPartes DEF TypeInv, TiposDeSwap, swap
<1>11. TiposDeHistoria'
  BY <1>1, TypeOKPartes DEF TypeInv, TiposDeHistoria, BorrarMem
<1> QED BY <1>1, <1>6, <1>7, <1>8, <1>9, <1>10, <1>11, TipoKS

\* The bytes of a piece are numbers.
LEMMA BytesSon ==
  ASSUME NEW t, t.base \in Nat, t.tam \in Nat
  PROVE  /\ Bytes(t) \subseteq Nat
         /\ \A a : a \in Bytes(t) <=> a \in Nat /\ t.base <= a /\ a < t.base + t.tam
BY DEF Bytes

LEMMA TipoRegistrar ==
  ASSUME KernelMemoryAssumption, TypeInv, Registrar PROVE TypeInv'
<1> DEFINE s == [id |-> ks.id, base |-> ks.base, tam |-> ks.tam, enSwap |-> FALSE,
                 bloque |-> MaxBit]
<1>1. /\ ks.fase = "registrar" /\ ks' = Ocioso
      /\ UNCHANGED <<total, huecos, stick, procesos, suspendidos, swap, pedidas, sinDuenio,
                     dobles, caida>>
  BY DEF Registrar
<1>2. /\ ks.pid \in Procesos /\ ks.id \in Ids /\ ks.tam \in Tamanios
      /\ ks.base \in Nat /\ ks.tam \in Nat
      /\ segs \in [Procesos -> Seq(Segmento)] /\ segs[ks.pid] \in Seq(Segmento)
  BY <1>1, Tipos DEF TypeInv, EnCurso
<1>3. s \in Segmento /\ ~s.enSwap
  BY <1>2 DEF Segmento
<1>4. EnCurso' /\ Indices'
  BY <1>1, OciosoTipado DEF EnCurso, Indices
<1>5. /\ huecos' \in Seq(Hueco) /\ ks' \in Locales /\ TiposDeTablas' /\ TiposDeSwap'
      /\ TiposDePedidas'
  BY <1>1, OciosoTipado, TypeOKPartes DEF TypeInv, TiposDeTablas, TiposDeSwap, TiposDePedidas,
     swap
<1> HIDE DEF s
<1>6. CASE ks.pid \in procesos
  <2> DEFINE r == Append(segs[ks.pid], s)
  <2>1. /\ segs' = [segs EXCEPT ![ks.pid] = r] /\ fugas' = fugas
        /\ mem' = EscribirMem(mem, ks.base, [j \in 1 .. ks.tam |-> Marca(ks.pid, ks.id, j)])
    BY <1>6 DEF Registrar, s
  <2>2. /\ r \in Seq(Segmento) /\ DOMAIN r = 1 .. Len(segs[ks.pid]) + 1
        /\ DOMAIN segs[ks.pid] = 1 .. Len(segs[ks.pid]) /\ Len(segs[ks.pid]) \in Nat
        /\ \A k \in DOMAIN segs[ks.pid] : r[k] = segs[ks.pid][k]
        /\ r[Len(segs[ks.pid]) + 1] = s
    <3> DEFINE w == segs[ks.pid]
    <3>1. w \in Seq(Segmento)
      BY <1>2
    <3> HIDE DEF w
    <3> QED BY <1>3, <3>1, r = Append(w, s) DEF w
  <2>3. \A k \in DOMAIN r : k \in DOMAIN segs[ks.pid] \/ r[k] = s
    BY <2>2
  <2> HIDE DEF r
  <2>4. segs' \in [Procesos -> Seq(Segmento)]
    BY <1>2, <2>1, <2>2
  <2>5. CabenEnSwap'
    <3> SUFFICES ASSUME NEW q \in Procesos, NEW i \in DOMAIN segs'[q], segs'[q][i].enSwap
                 PROVE  segs'[q][i].bloque + BloquesNecesarios(segs'[q][i].tam) <= MaxBit
      BY DEF CabenEnSwap
    <3>1. i \in DOMAIN segs[q] /\ segs'[q][i] = segs[q][i]
      BY <1>2, <1>3, <2>1, <2>2, <2>3
    <3> QED BY <3>1 DEF TypeInv, CabenEnSwap
  <2>6. TiposDeHistoria'
    BY <1>1, <2>1, TypeOKPartes DEF TypeInv, TiposDeHistoria, EscribirMem
  <2> QED BY <1>1, <1>4, <1>5, <2>4, <2>5, <2>6, TipoKS
<1>7. CASE ks.pid \notin procesos
  <2>1. fugas' = fugas \cup Bytes(ks) /\ UNCHANGED <<segs, mem>>
    BY <1>7 DEF Registrar
  <2>2. Bytes(ks) \subseteq Nat
    BY <1>2, BytesSon
  <2>3. TiposDeHistoria'
    BY <1>1, <2>1, <2>2, TypeOKPartes DEF TypeInv, TiposDeHistoria
  <2>4. segs' \in [Procesos -> Seq(Segmento)] /\ CabenEnSwap'
    BY <1>2, <2>1 DEF TypeInv, CabenEnSwap
  <2> QED BY <1>1, <1>4, <1>5, <2>3, <2>4, TipoKS
<1> QED BY <1>6, <1>7

\* The first piece of ks.cola.
LEMMA PrimeroDeLaCola ==
  ASSUME ks \in Locales, ks.cola # <<>>
  PROVE  /\ Head(ks.cola) = ks.cola[1] /\ 1 \in DOMAIN ks.cola /\ ks.cola[1] \in TramoTipo
         /\ Tail(ks.cola) \in Seq(TramoTipo) /\ Len(ks.cola) \in Nat \ {0}
         /\ DOMAIN ks.cola = 1 .. Len(ks.cola)
         /\ DOMAIN Tail(ks.cola) = 1 .. Len(ks.cola) - 1
         /\ \A j \in 1 .. Len(ks.cola) - 1 : Tail(ks.cola)[j] = ks.cola[j + 1]
         /\ \A j \in DOMAIN Tail(ks.cola) : j + 1 \in DOMAIN ks.cola
         /\ Tail(ks.cola) = <<>> <=> Len(ks.cola) = 1
         /\ ks.cola[1].base \in Nat /\ ks.cola[1].tam \in Nat /\ ks.cola[1].i \in Nat
<1> DEFINE w == ks.cola
<1>1. w \in Seq(TramoTipo) /\ w # <<>>
  BY DEF Locales
<1> HIDE DEF w
<1>2. /\ Head(w) = w[1] /\ 1 \in DOMAIN w /\ w[1] \in TramoTipo
      /\ Tail(w) \in Seq(TramoTipo) /\ Len(w) \in Nat \ {0}
      /\ DOMAIN w = 1 .. Len(w) /\ DOMAIN Tail(w) = 1 .. Len(w) - 1
      /\ \A j \in 1 .. Len(w) - 1 : Tail(w)[j] = w[j + 1]
  BY <1>1
<1>3. \A j \in DOMAIN Tail(w) : j + 1 \in DOMAIN w
  BY <1>2
<1>4. Tail(w) = <<>> <=> Len(w) = 1
  <2>1. PICK n \in Nat \ {0} : n = Len(w)
    BY <1>2
  <2>2. Len(Tail(w)) = n - 1
    BY <1>2, <2>1, LenProperties
  <2>3. PICK t \in Seq(TramoTipo) : t = Tail(w)
    BY <1>2
  <2>4. t = <<>> <=> Len(t) = 0
    BY EmptySeq
  <2> QED BY <2>1, <2>2, <2>3, <2>4
<1>5. w[1].base \in Nat /\ w[1].tam \in Nat /\ w[1].i \in Nat
  BY <1>2 DEF TramoTipo
<1> QED BY <1>2, <1>3, <1>4, <1>5 DEF w

LEMMA TipoDevolver ==
  ASSUME TypeInv, Devolver PROVE TypeInv'
<1> DEFINE f == IF Len(ks.cola) > 1 THEN "devolver" ELSE IF ks.i = 0 THEN "libre" ELSE "suspender"
<1>1. /\ ks.fase = "devolver"
      /\ huecos' = AgregarHuecoLibre(Head(ks.cola).base, Head(ks.cola).tam)
      /\ ks' = [ks EXCEPT !.cola = Tail(@), !.fase = f]
      /\ UNCHANGED <<total, stick, tablas, swap, mem, pedidas, historia>>
  BY DEF Devolver
<1>2. /\ ks \in Locales /\ ks.cola # <<>> /\ \A j \in DOMAIN ks.cola : ks.cola[j].tam # 0
      /\ ks.i # 0 => ks.pid \in procesos \ suspendidos
  BY <1>1, Tipos DEF TypeInv, EnCurso
<1>3. /\ Head(ks.cola) = ks.cola[1] /\ 1 \in DOMAIN ks.cola
      /\ Tail(ks.cola) \in Seq(TramoTipo) /\ Len(ks.cola) \in Nat \ {0}
      /\ DOMAIN Tail(ks.cola) = 1 .. Len(ks.cola) - 1
      /\ \A j \in 1 .. Len(ks.cola) - 1 : Tail(ks.cola)[j] = ks.cola[j + 1]
      /\ \A j \in DOMAIN Tail(ks.cola) : j + 1 \in DOMAIN ks.cola
      /\ Tail(ks.cola) = <<>> <=> Len(ks.cola) = 1
      /\ ks.cola[1].base \in Nat /\ ks.cola[1].tam \in Nat
  BY <1>2, PrimeroDeLaCola
<1>4. huecos' \in Seq(Hueco)
  BY <1>1, <1>2, <1>3, AgregarTipado, Tipos DEF TypeInv
<1> HIDE DEF f
<1>5. f \in {"devolver", "libre", "suspender"} /\ f \in FasesKS
  BY DEF f, FasesKS
<1>6. /\ ks' \in Locales /\ ks'.fase = f /\ ks'.cola = Tail(ks.cola) /\ ks'.pid = ks.pid
      /\ ks'.i = ks.i
  BY <1>1, <1>2, <1>3, <1>5 DEF Locales
<1>7. EnCurso' /\ Indices'
  <2>1. f = "devolver" => Tail(ks.cola) # <<>>
    <3>1. PICK n \in Nat \ {0} : n = Len(ks.cola)
      BY <1>3
    <3>2. f = "devolver" => n # 1
      <4> SUFFICES ASSUME n = 1 PROVE f # "devolver"
        OBVIOUS
      <4>0. Len(ks.cola) = 1
        BY <3>1
      <4>1. ~(Len(ks.cola) > 1)
        BY ONLY <4>0
      <4>2. f = IF ks.i = 0 THEN "libre" ELSE "suspender"
        BY <4>1 DEF f
      <4> QED BY <4>2
    <3> QED BY <1>3, <3>1, <3>2
  <2>2. \A j \in DOMAIN Tail(ks.cola) : Tail(ks.cola)[j].tam # 0
    BY <1>2, <1>3
  <2>3. f = "suspender" => ks.i # 0
    BY DEF f
  <2>4. ks'.fase \in {"devolver", "libre", "suspender"}
    BY <1>5, <1>6
  <2>5. procesos' = procesos /\ suspendidos' = suspendidos
    BY <1>1 DEF tablas
  <2>6. EnCurso'
    BY <1>2, <1>6, <2>1, <2>2, <2>3, <2>4, <2>5 DEF EnCurso
  <2> QED BY <2>4, <2>6 DEF Indices
<1>8. /\ segs' \in [Procesos -> Seq(Segmento)] /\ CabenEnSwap'
      /\ TiposDeTablas' /\ TiposDeSwap' /\ TiposDePedidas' /\ TiposDeHistoria'
  BY <1>1, TypeOKPartes, Zenon DEF TypeInv, TiposDeTablas, TiposDeSwap, TiposDePedidas,
     TiposDeHistoria, tablas, swap, historia, CabenEnSwap
<1> QED BY <1>1, <1>4, <1>6, <1>7, <1>8, TipoKS

\* One segment becomes s: every other keeps its blocks, and s fits if it is in swap.
LEMMA TipoConSegmento ==
  ASSUME segs \in [Procesos -> Seq(Segmento)], CabenEnSwap,
         NEW p \in Procesos, NEW i \in DOMAIN segs[p], NEW s \in Segmento,
         s.enSwap => s.bloque + BloquesNecesarios(s.tam) <= MaxBit,
         segs' = ConSegmento(p, i, s)
  PROVE  /\ segs' \in [Procesos -> Seq(Segmento)] /\ CabenEnSwap'
         /\ \A q \in Procesos : DOMAIN segs'[q] = DOMAIN segs[q]
<1>1. /\ segs' \in [Procesos -> Seq(Segmento)]
      /\ \A q \in Procesos : DOMAIN segs'[q] = DOMAIN segs[q]
      /\ segs'[p][i] = s
      /\ \A q \in Procesos : \A j \in DOMAIN segs[q] :
           q # p \/ j # i => segs'[q][j] = segs[q][j]
  BY ConSegmentoEs
<1>2. CabenEnSwap'
  <2> SUFFICES ASSUME NEW q \in Procesos, NEW j \in DOMAIN segs'[q], segs'[q][j].enSwap
               PROVE  segs'[q][j].bloque + BloquesNecesarios(segs'[q][j].tam) <= MaxBit
    BY DEF CabenEnSwap
  <2>1. CASE q = p /\ j = i
    BY <1>1, <2>1
  <2>2. CASE q # p \/ j # i
    BY <1>1, <2>2 DEF CabenEnSwap
  <2> QED BY <2>1, <2>2
<1> QED BY <1>1, <1>2

LEMMA TipoMover ==
  ASSUME KernelMemoryAssumption, TypeInv, Mover PROVE TypeInv'
<1>1. /\ ks.fase = "mover" /\ ks.cola # <<>>
      /\ UNCHANGED <<total, huecos, stick, procesos, suspendidos, swap, pedidas, fugas, sinDuenio,
                     dobles>>
  BY DEF Mover
<1>2. /\ ks \in Locales /\ segs \in [Procesos -> Seq(Segmento)] /\ ks.base \in Nat
  BY Tipos DEF TypeInv
<1>3. PICK s : s = Head(ks.cola)
  OBVIOUS
<1>4. /\ s = ks.cola[1] /\ 1 \in DOMAIN ks.cola /\ s \in TramoTipo /\ s.tam \in Nat
      /\ Tail(ks.cola) \in Seq(TramoTipo)
      /\ DOMAIN Tail(ks.cola) = 1 .. Len(ks.cola) - 1
      /\ \A j \in 1 .. Len(ks.cola) - 1 : Tail(ks.cola)[j] = ks.cola[j + 1]
      /\ \A j \in DOMAIN Tail(ks.cola) : j + 1 \in DOMAIN ks.cola
  BY <1>1, <1>2, <1>3, PrimeroDeLaCola
<1>5. /\ s.pid \in Procesos /\ s.i \in DOMAIN segs[s.pid]
      /\ \A j \in DOMAIN Tail(ks.cola) :
           Tail(ks.cola)[j].pid \in Procesos
           /\ Tail(ks.cola)[j].i \in DOMAIN segs[Tail(ks.cola)[j].pid]
  BY <1>1, <1>4 DEF TypeInv, Indices
<1>6. segs[s.pid][s.i] \in Segmento
  BY <1>2, <1>5
<1>7. /\ huecos' \in Seq(Hueco) /\ TiposDeTablas' /\ TiposDeSwap' /\ TiposDePedidas'
  BY <1>1, TypeOKPartes DEF TypeInv, TiposDeTablas, TiposDeSwap, TiposDePedidas, swap
<1>8. CASE caida' = TRUE /\ UNCHANGED <<segs, mem, ks>>
  <2>1. TiposDeHistoria'
    BY <1>1, <1>8, TypeOKPartes DEF TypeInv, TiposDeHistoria
  <2>2. EnCurso' /\ Indices' /\ CabenEnSwap'
    BY <1>1, <1>8, Zenon DEF TypeInv, EnCurso, Indices, CabenEnSwap
  <2> QED BY <1>1, <1>2, <1>7, <1>8, <2>1, <2>2, TipoKS
<1>9. CASE /\ segs' = ConSegmento(s.pid, s.i, [segs[s.pid][s.i] EXCEPT !.base = ks.base])
           /\ mem' = EscribirMem(BorrarMem(mem, Bytes(s)), ks.base, LeerMem(s))
           /\ ks' = [ks EXCEPT !.base = @ + s.tam, !.cola = Tail(@)] /\ caida' = caida
  <2> DEFINE w == segs[s.pid][s.i]
  <2>1. PICK n : n = [w EXCEPT !.base = ks.base]
    OBVIOUS
  <2>2. n \in Segmento /\ n.enSwap = w.enSwap /\ n.bloque = w.bloque /\ n.tam = w.tam
    BY <1>2, <1>6, <2>1 DEF Segmento
  <2>3. n.enSwap => n.bloque + BloquesNecesarios(n.tam) <= MaxBit
    BY <1>5, <2>2 DEF TypeInv, CabenEnSwap
  <2>4. segs' = ConSegmento(s.pid, s.i, n)
    BY <1>9, <2>1
  <2>5. /\ segs' \in [Procesos -> Seq(Segmento)] /\ CabenEnSwap'
        /\ \A q \in Procesos : DOMAIN segs'[q] = DOMAIN segs[q]
    BY <1>2, <1>5, <2>2, <2>3, <2>4, TipoConSegmento DEF TypeInv
  <2>6. /\ ks' \in Locales /\ ks'.fase = "mover" /\ ks'.cola = Tail(ks.cola)
        /\ ks'.pid = ks.pid /\ ks'.id = ks.id /\ ks'.tam = ks.tam
    <3>1. PICK b \in Nat : b = ks.base + s.tam
      BY <1>2, <1>4
    <3>2. ks' = [ks EXCEPT !.base = b, !.cola = Tail(ks.cola)]
      BY <1>9, <3>1
    <3> QED BY <1>1, <1>2, <1>4, <3>1, <3>2 DEF Locales
  <2>7. EnCurso'
    BY <1>1, <2>6 DEF TypeInv, EnCurso
  <2>8. Indices'
    BY <1>5, <2>5, <2>6 DEF Indices
  <2>9. TiposDeHistoria'
    BY <1>1, <1>9, TypeOKPartes DEF TypeInv, TiposDeHistoria, EscribirMem, BorrarMem
  <2> QED BY <1>1, <1>7, <2>5, <2>6, <2>7, <2>8, <2>9, TipoKS
<1> QED BY <1>3, <1>8, <1>9 DEF Mover

\* Where a run of n blocks starts.
LEMMA LibresSon ==
  ASSUME KernelMemoryAssumption, NEW n \in Nat \ {0}, LibresEnSwap(n) # {}
  PROVE  /\ Min(LibresEnSwap(n)) \in LibresEnSwap(n)
         /\ \A b \in LibresEnSwap(n) :
              /\ b \in Bits /\ b + n <= MaxBit /\ b .. b + n - 1 \subseteq Bits
              /\ \A k \in b .. b + n - 1 : k \notin bloques
<1>1. MaxBit \in Nat /\ LibresEnSwap(n) \in SUBSET Nat
  BY MaxBitNatural DEF LibresEnSwap
<1>2. Min(LibresEnSwap(n)) \in LibresEnSwap(n)
  BY <1>1, MinEsMenor
<1>3. \A b \in LibresEnSwap(n) :
              /\ b \in Bits /\ b + n <= MaxBit /\ b .. b + n - 1 \subseteq Bits
              /\ \A k \in b .. b + n - 1 : k \notin bloques
  BY <1>1 DEF LibresEnSwap, Bits
<1> QED BY <1>2, <1>3

\* The three outcomes of a turn of the loop, with what they change.
LEMMA SuspenderSegmentoEs ==
  ASSUME KernelMemoryAssumption, TypeInv, SuspenderSegmento,
         NEW s, s = segs[ks.pid][ks.i]
  PROVE  /\ ks.fase = "suspender" /\ ks.i \in DOMAIN segs[ks.pid] /\ ks.i \in Nat \ {0}
         /\ ks.pid \in procesos \ suspendidos /\ ks.pid \in Procesos
         /\ s \in Segmento /\ BloquesNecesarios(s.tam) \in Nat \ {0}
         /\ UNCHANGED <<total, huecos, stick, procesos, suspendidos, pedidas, fugas, sinDuenio,
                        dobles>>
         /\ \/ /\ ks' = [ks EXCEPT !.i = @ + 1] /\ UNCHANGED <<segs, swap, mem, caida>>
            \/ /\ ~s.enSwap /\ Mapeado(s)
               /\ \E b0 \in LibresEnSwap(BloquesNecesarios(s.tam)) :
                    /\ bloques' = bloques \cup (b0 .. b0 + BloquesNecesarios(s.tam) - 1)
                    /\ disco' = [b \in Bits |-> IF b \in b0 .. b0 + BloquesNecesarios(s.tam) - 1
                                                  THEN TrozoDe(LeerMem(s), b - b0) ELSE disco[b]]
                    /\ segs' = ConSegmento(ks.pid, ks.i, [s EXCEPT !.enSwap = TRUE, !.base = 0,
                                                                   !.bloque = b0])
               /\ mem' = BorrarMem(mem, Bytes(s))
               /\ ks' = [ks EXCEPT !.fase = "devolver", !.i = @ + 1,
                                   !.cola = <<Tramo(s.base, s.tam)>>]
               /\ caida' = caida
            \/ caida' = TRUE /\ UNCHANGED <<ks, segs, swap, mem>>
<1> DEFINE n == BloquesNecesarios(s.tam)
<1>1. /\ ks.fase = "suspender" /\ ks.i \in DOMAIN segs[ks.pid]
      /\ UNCHANGED <<total, huecos, stick, procesos, suspendidos, pedidas, fugas, sinDuenio,
                        dobles>>
  BY DEF SuspenderSegmento
<1>2. ks.pid \in procesos \ suspendidos /\ ks.i \in Nat \ {0} /\ ks.pid \in Procesos
  BY <1>1, Tipos, TypeOKPartes DEF TypeInv, EnCurso, TiposDeTablas
<1>3. s \in Segmento
  BY <1>1, <1>2, Tipos DEF TypeInv
<1>4. n \in Nat \ {0}
  BY <1>3, SegmentoEs, BloquesPositivos
<1>5. LibresEnSwap(n) # {} => Min(LibresEnSwap(n)) \in LibresEnSwap(n)
  BY <1>4, LibresSon
<1>6. \/ /\ ks' = [ks EXCEPT !.i = @ + 1] /\ UNCHANGED <<segs, swap, mem, caida>>
      \/ /\ ~s.enSwap /\ Mapeado(s) /\ LibresEnSwap(n) # {}
         /\ LET b0 == Min(LibresEnSwap(n)) IN
              /\ bloques' = bloques \cup (b0 .. b0 + n - 1)
              /\ disco' = [b \in Bits |-> IF b \in b0 .. b0 + n - 1
                                            THEN TrozoDe(LeerMem(s), b - b0) ELSE disco[b]]
              /\ segs' = ConSegmento(ks.pid, ks.i, [s EXCEPT !.enSwap = TRUE, !.base = 0,
                                                             !.bloque = b0])
         /\ mem' = BorrarMem(mem, Bytes(s))
         /\ ks' = [ks EXCEPT !.fase = "devolver", !.i = @ + 1,
                             !.cola = <<Tramo(s.base, s.tam)>>]
         /\ caida' = caida
      \/ caida' = TRUE /\ UNCHANGED <<ks, segs, swap, mem>>
  BY Zenon DEF SuspenderSegmento
<1>7. CASE ~(LibresEnSwap(n) # {})
  BY <1>1, <1>2, <1>3, <1>4, <1>6, <1>7, Zenon
<1>8. CASE LibresEnSwap(n) # {}
  <2> HIDE DEF n
  <2>1. PICK b0 \in LibresEnSwap(n) : b0 = Min(LibresEnSwap(n))
    BY <1>5, <1>8
  <2> QED BY <1>1, <1>2, <1>3, <1>4, <1>6, <2>1, Zenon DEF n
<1> QED BY <1>7, <1>8

LEMMA TipoSuspenderSegmento ==
  ASSUME KernelMemoryAssumption, TypeInv, SuspenderSegmento PROVE TypeInv'
<1>0. PICK s : s = segs[ks.pid][ks.i]
  OBVIOUS
<1>1. /\ ks.fase = "suspender" /\ ks.i \in DOMAIN segs[ks.pid] /\ ks.i \in Nat \ {0}
      /\ ks.pid \in procesos \ suspendidos /\ ks.pid \in Procesos
      /\ s \in Segmento /\ BloquesNecesarios(s.tam) \in Nat \ {0}
      /\ UNCHANGED <<total, huecos, stick, procesos, suspendidos, pedidas, fugas, sinDuenio,
                     dobles>>
  BY <1>0, SuspenderSegmentoEs
<1>2. ks \in Locales /\ segs \in [Procesos -> Seq(Segmento)]
  BY Tipos DEF TypeInv
<1>3. huecos' \in Seq(Hueco) /\ TiposDeTablas' /\ TiposDePedidas'
  BY <1>1, TypeOKPartes DEF TypeInv, TiposDeTablas, TiposDePedidas
<1>4. CASE /\ ks' = [ks EXCEPT !.i = @ + 1] /\ UNCHANGED <<segs, swap, mem, caida>>
  <2>1. ks' \in Locales /\ ks'.fase = "suspender" /\ ks'.i = ks.i + 1 /\ ks'.pid = ks.pid
    <3>1. PICK j \in Nat : j = ks.i + 1
      BY <1>1
    <3>2. ks' = [ks EXCEPT !.i = j]
      BY <1>4, <3>1
    <3> QED BY <1>1, <1>2, <3>1, <3>2 DEF Locales
  <2>2. EnCurso' /\ Indices'
    BY <1>1, <2>1 DEF EnCurso, Indices
  <2>3. TiposDeSwap' /\ TiposDeHistoria'
    BY <1>1, <1>4, TypeOKPartes DEF TypeInv, TiposDeHistoria, TiposDeSwap, swap
  <2>4. CabenEnSwap' /\ segs' \in [Procesos -> Seq(Segmento)]
    BY <1>2, <1>4 DEF TypeInv, CabenEnSwap
  <2> QED BY <1>1, <1>3, <2>1, <2>2, <2>3, <2>4, TipoKS
<1>5. CASE caida' = TRUE /\ UNCHANGED <<ks, segs, swap, mem>>
  <2>1. TiposDeSwap' /\ TiposDeHistoria'
    BY <1>1, <1>5, TypeOKPartes DEF TypeInv, TiposDeHistoria, TiposDeSwap, swap
  <2>2. EnCurso' /\ Indices' /\ CabenEnSwap'
    BY <1>1, <1>5, Zenon DEF TypeInv, EnCurso, Indices, CabenEnSwap
  <2> QED BY <1>1, <1>2, <1>3, <1>5, <2>1, <2>2, TipoKS
<1>6. ASSUME NEW b0 \in LibresEnSwap(BloquesNecesarios(s.tam)),
             bloques' = bloques \cup (b0 .. b0 + BloquesNecesarios(s.tam) - 1),
             DOMAIN disco' = Bits,
             segs' = ConSegmento(ks.pid, ks.i, [s EXCEPT !.enSwap = TRUE, !.base = 0,
                                                         !.bloque = b0]),
             mem' = BorrarMem(mem, Bytes(s)), caida' = caida,
             ks' = [ks EXCEPT !.fase = "devolver", !.i = @ + 1,
                              !.cola = <<Tramo(s.base, s.tam)>>]
      PROVE  TypeInv'
  <2>1. PICK n \in Nat \ {0} : n = BloquesNecesarios(s.tam)
    BY <1>1
  <2>2. b0 \in Bits /\ b0 + n <= MaxBit /\ b0 .. b0 + n - 1 \subseteq Bits /\ b0 \in Nat
    <3>1. LibresEnSwap(n) # {} /\ b0 \in LibresEnSwap(n)
      BY <1>6, <2>1
    <3>2. b0 \in Bits /\ b0 + n <= MaxBit /\ b0 .. b0 + n - 1 \subseteq Bits
      BY <3>1, LibresSon
    <3> QED BY <3>2 DEF Bits
  <2>3. PICK m : m = [s EXCEPT !.enSwap = TRUE, !.base = 0, !.bloque = b0]
    OBVIOUS
  <2>4. m \in Segmento /\ m.bloque = b0 /\ m.tam = s.tam
    BY <1>1, <2>2, <2>3 DEF Segmento
  <2>5. /\ segs' \in [Procesos -> Seq(Segmento)] /\ CabenEnSwap'
        /\ \A q \in Procesos : DOMAIN segs'[q] = DOMAIN segs[q]
    <3>1. m.enSwap => m.bloque + BloquesNecesarios(m.tam) <= MaxBit
      BY <2>1, <2>2, <2>4
    <3> QED BY <1>1, <1>2, <1>6, <2>3, <2>4, <3>1, TipoConSegmento DEF TypeInv
  <2>6. PICK t \in TramoTipo : t = Tramo(s.base, s.tam) /\ t.tam # 0
    <3>1. s.base \in Nat /\ s.tam \in Nat \ {0}
      BY <1>1, SegmentoEs
    <3>2. Tramo(s.base, s.tam) \in TramoTipo /\ Tramo(s.base, s.tam).tam = s.tam
      BY <3>1 DEF Tramo, TramoTipo
    <3> QED BY <3>1, <3>2
  <2>7. <<t>> \in Seq(TramoTipo)
    BY <2>6
  <2>8. /\ ks' \in Locales /\ ks'.fase = "devolver" /\ ks'.cola = <<t>> /\ ks'.i = ks.i + 1
        /\ ks'.pid = ks.pid
    <3>1. PICK j \in Nat : j = ks.i + 1
      BY <1>1
    <3>2. ks' = [ks EXCEPT !.fase = "devolver", !.i = j, !.cola = <<t>>]
      BY <1>6, <2>6, <3>1
    <3> QED BY <1>1, <1>2, <2>7, <3>1, <3>2 DEF Locales, FasesKS
  <2>9. EnCurso' /\ Indices'
    BY <1>1, <2>6, <2>8 DEF EnCurso, Indices
  <2>10. TiposDeSwap'
    BY <1>1, <1>6, <2>1, <2>2, TypeOKPartes DEF TypeInv, TiposDeSwap
  <2>11. TiposDeHistoria'
    BY <1>1, <1>6, TypeOKPartes DEF TypeInv, TiposDeHistoria, BorrarMem
  <2> QED BY <1>1, <1>3, <2>5, <2>8, <2>9, <2>10, <2>11, TipoKS
<1> QED BY <1>0, <1>4, <1>5, <1>6, SuspenderSegmentoEs

\* The outcomes of a turn of the PRE-CHECK loop: the next segment, a hole for it, the end of
\* the loop, and no hole.
LEMMA ReservarEs ==
  ASSUME KernelMemoryAssumption, TypeInv, Reservar
  PROVE  /\ ks.fase = "reservar" /\ ks.i \in Nat \ {0} /\ ks.pid \in suspendidos
         /\ ks.pid \in Procesos
         /\ UNCHANGED <<total, stick, tablas, swap, mem, pedidas, historia>>
         /\ \/ /\ ks.i \in DOMAIN segs[ks.pid] /\ ~segs[ks.pid][ks.i].enSwap
               /\ ks' = [ks EXCEPT !.i = @ + 1] /\ huecos' = huecos
            \/ /\ ks.i \in DOMAIN segs[ks.pid] /\ segs[ks.pid][ks.i].enSwap
               /\ \E h \in Candidatos(segs[ks.pid][ks.i].tam) :
                    /\ huecos' = ConsumirHueco(h, segs[ks.pid][ks.i].tam)
                    /\ ks' = [ks EXCEPT !.i = @ + 1, !.cola = Append(@,
                                [pid |-> ks.pid, i |-> ks.i, base |-> huecos[h].base,
                                 tam |-> segs[ks.pid][ks.i].tam])]
            \/ /\ ks.i > Len(segs[ks.pid])
               /\ ks' = [ks EXCEPT !.fase = "traer"] /\ huecos' = huecos
            \/ ks' = NoEntra /\ huecos' = huecos
<1>1. /\ ks.fase = "reservar" /\ ks.pid \in suspendidos /\ ks.i \in Nat \ {0}
      /\ ks.pid \in Procesos
      /\ UNCHANGED <<total, stick, tablas, swap, mem, pedidas, historia>>
  BY Tipos, TypeOKPartes DEF Reservar, TypeInv, EnCurso, TiposDeTablas
<1>2. CASE ks.i \in DOMAIN segs[ks.pid] /\ segs[ks.pid][ks.i].enSwap
            /\ Candidatos(segs[ks.pid][ks.i].tam) # {}
            /\ ~(ks.i > Len(segs[ks.pid]))
  <2>1. segs[ks.pid][ks.i] \in Segmento
    BY <1>1, <1>2, Tipos DEF TypeInv
  <2>2. PICK tam \in Nat : tam = segs[ks.pid][ks.i].tam
    BY <2>1, SegmentoEs
  <2>3. PICK h \in Candidatos(tam) : h = HuecoElegido(tam)
    BY <1>2, <2>2, ElegidoEsCandidato, Tipos DEF TypeInv
  <2>4. /\ huecos' = ConsumirHueco(h, tam)
        /\ ks' = [ks EXCEPT !.i = @ + 1, !.cola = Append(@,
                                [pid |-> ks.pid, i |-> ks.i, base |-> huecos[h].base,
                                 tam |-> tam])]
    BY <1>1, <1>2, <2>2, <2>3, Zenon DEF Reservar
  <2> QED BY <1>1, <1>2, <2>2, <2>3, <2>4, Zenon
<1>3. CASE ~(/\ ks.i \in DOMAIN segs[ks.pid] /\ segs[ks.pid][ks.i].enSwap
             /\ Candidatos(segs[ks.pid][ks.i].tam) # {}
             /\ ~(ks.i > Len(segs[ks.pid])))
  <2>1. \/ /\ ks.i \in DOMAIN segs[ks.pid] /\ ~segs[ks.pid][ks.i].enSwap
           /\ ks' = [ks EXCEPT !.i = @ + 1] /\ huecos' = huecos
        \/ /\ ks.i > Len(segs[ks.pid])
           /\ ks' = [ks EXCEPT !.fase = "traer"] /\ huecos' = huecos
        \/ ks' = NoEntra /\ huecos' = huecos
    <3>1. ~(ks.i \in DOMAIN segs[ks.pid] /\ ks.i > Len(segs[ks.pid]))
      <4>1. segs[ks.pid] \in Seq(Segmento)
        BY <1>1, Tipos DEF TypeInv
      <4>2. DOMAIN segs[ks.pid] = 1 .. Len(segs[ks.pid]) /\ Len(segs[ks.pid]) \in Nat
        BY <4>1, LenProperties
      <4> QED BY <4>2
    <3> QED BY <1>3, <3>1, Zenon DEF Reservar
  <2> QED BY <1>1, <2>1
<1> QED BY <1>2, <1>3

LEMMA TipoReservar ==
  ASSUME KernelMemoryAssumption, TypeInv, Reservar PROVE TypeInv'
<1>1. /\ ks.fase = "reservar" /\ ks.i \in Nat \ {0} /\ ks.pid \in suspendidos
      /\ ks.pid \in Procesos
      /\ UNCHANGED <<total, stick, tablas, swap, mem, pedidas, historia>>
  BY ReservarEs
<1>2. ks \in Locales /\ huecos \in Seq(Hueco) /\ segs \in [Procesos -> Seq(Segmento)]
  BY Tipos DEF TypeInv
<1>3. /\ segs' \in [Procesos -> Seq(Segmento)] /\ CabenEnSwap'
      /\ TiposDeTablas' /\ TiposDeSwap' /\ TiposDePedidas' /\ TiposDeHistoria'
  BY <1>1, TypeOKPartes, Zenon DEF TypeInv, TiposDeTablas, TiposDeSwap, TiposDePedidas,
     TiposDeHistoria, tablas, swap, historia, CabenEnSwap
<1>4. suspendidos' = suspendidos /\ segs' = segs
  BY <1>1 DEF tablas
<1>5. PICK j \in Nat \ {0} : j = ks.i + 1
  BY <1>1
<1>6. CASE ks' = [ks EXCEPT !.i = @ + 1] /\ huecos' = huecos
  <2>1. ks' = [ks EXCEPT !.i = j]
    BY <1>5, <1>6
  <2>2. /\ ks' \in Locales /\ ks'.fase = "reservar" /\ ks'.i = j /\ ks'.pid = ks.pid
        /\ ks'.cola = ks.cola
    BY <1>1, <1>2, <2>1 DEF Locales
  <2>3. EnCurso' /\ Indices'
    BY <1>1, <1>4, <2>2 DEF TypeInv, EnCurso, Indices
  <2> QED BY <1>1, <1>2, <1>3, <1>6, <2>2, <2>3, TipoKS
<1>7. ASSUME ks.i \in DOMAIN segs[ks.pid],
             NEW h \in Candidatos(segs[ks.pid][ks.i].tam),
             huecos' = ConsumirHueco(h, segs[ks.pid][ks.i].tam),
             ks' = [ks EXCEPT !.i = @ + 1, !.cola = Append(@,
                       [pid |-> ks.pid, i |-> ks.i, base |-> huecos[h].base,
                        tam |-> segs[ks.pid][ks.i].tam])]
      PROVE  TypeInv'
  <2>1. segs[ks.pid][ks.i] \in Segmento
    BY <1>1, <1>2, <1>7
  <2>2. PICK tam \in Nat \ {0} : tam = segs[ks.pid][ks.i].tam
    BY <2>1, SegmentoEs
  <2>3. huecos' \in Seq(Hueco) /\ huecos[h].base \in Nat
    BY <1>2, <1>7, <2>2, ConsumirTipado
  <2>4. PICK t \in TramoTipo :
          /\ t = [pid |-> ks.pid, i |-> ks.i, base |-> huecos[h].base, tam |-> tam]
          /\ t.pid = ks.pid /\ t.i = ks.i
    <3>1. PICK b \in Nat : b = huecos[h].base
      BY <2>3
    <3>2. [pid |-> ks.pid, i |-> ks.i, base |-> b, tam |-> tam] \in TramoTipo
      BY <1>1 DEF TramoTipo
    <3> QED BY <3>1, <3>2
  <2>5. ks' = [ks EXCEPT !.i = j, !.cola = Append(ks.cola, t)]
    BY <1>5, <1>7, <2>2, <2>4
  <2>6. /\ Append(ks.cola, t) \in Seq(TramoTipo)
        /\ \A l \in DOMAIN Append(ks.cola, t) :
             \/ l \in DOMAIN ks.cola /\ Append(ks.cola, t)[l] = ks.cola[l]
             \/ Append(ks.cola, t)[l] = t
    <3> DEFINE w == ks.cola
    <3>1. w \in Seq(TramoTipo)
      BY <1>2 DEF Locales
    <3> HIDE DEF w
    <3> QED BY <3>1, <2>4, AppendProperties DEF w
  <2>7. /\ ks' \in Locales /\ ks'.fase = "reservar" /\ ks'.i = j /\ ks'.pid = ks.pid
        /\ ks'.cola = Append(ks.cola, t)
    BY <1>1, <1>2, <2>5, <2>6 DEF Locales
  <2>8. EnCurso'
    BY <1>1, <1>4, <2>7 DEF EnCurso
  <2>9. Indices'
    <3>1. \A l \in DOMAIN ks.cola :
            ks.cola[l].pid \in Procesos /\ ks.cola[l].i \in DOMAIN segs[ks.cola[l].pid]
      BY <1>1 DEF TypeInv, Indices
    <3>2. t.pid \in Procesos /\ t.i \in DOMAIN segs[t.pid]
      BY <1>1, <1>7, <2>4
    <3> QED BY <1>4, <2>6, <2>7, <3>1, <3>2 DEF Indices
  <2> QED BY <1>1, <1>3, <2>3, <2>7, <2>8, <2>9, TipoKS
<1>8. CASE ks' = [ks EXCEPT !.fase = "traer"] /\ huecos' = huecos
  <2>1. /\ ks' \in Locales /\ ks'.fase = "traer" /\ ks'.i = ks.i /\ ks'.pid = ks.pid
        /\ ks'.cola = ks.cola
    BY <1>2, <1>8 DEF Locales, FasesKS
  <2>2. EnCurso' /\ Indices'
    BY <1>1, <1>4, <2>1 DEF TypeInv, EnCurso, Indices
  <2> QED BY <1>1, <1>2, <1>3, <1>8, <2>1, <2>2, TipoKS
<1>9. CASE ks' = NoEntra /\ huecos' = huecos
  <2>1. CASE ks.cola = <<>>
    <3>1. ks' = Ocioso
      BY <1>9, <2>1 DEF NoEntra
    <3>2. ks' \in Locales /\ EnCurso' /\ Indices'
      BY <3>1, OciosoTipado DEF EnCurso, Indices
    <3> QED BY <1>1, <1>2, <1>3, <1>9, <3>2, TipoKS
  <2>2. CASE ks.cola # <<>>
    <3>1. ks' = [ks EXCEPT !.fase = "trabado"]
      BY <1>9, <2>2 DEF NoEntra
    <3>2. /\ ks' \in Locales /\ ks'.fase = "trabado" /\ ks'.i = ks.i /\ ks'.pid = ks.pid
      BY <1>2, <3>1 DEF Locales, FasesKS
    <3>3. EnCurso' /\ Indices'
      BY <1>1, <1>4, <3>2 DEF EnCurso, Indices
    <3> QED BY <1>1, <1>2, <1>3, <1>9, <3>2, <3>3, TipoKS
  <2> QED BY <2>1, <2>2
<1> QED BY <1>6, <1>7, <1>8, <1>9, ReservarEs

LEMMA TipoTraer ==
  ASSUME KernelMemoryAssumption, TypeInv, Traer PROVE TypeInv'
<1>1. /\ ks.fase = "traer"
      /\ UNCHANGED <<total, huecos, stick, procesos, pedidas, fugas, sinDuenio, dobles>>
  BY DEF Traer
<1>2. /\ ks \in Locales /\ segs \in [Procesos -> Seq(Segmento)] /\ ks.i \in Nat \ {0}
      /\ ks.pid \in suspendidos
  BY <1>1, Tipos DEF TypeInv, EnCurso
<1>3. huecos' \in Seq(Hueco) /\ TiposDePedidas'
  BY <1>1, TypeOKPartes DEF TypeInv, TiposDePedidas
<1>4. CASE ks.cola = <<>>
  <2>1. suspendidos' = suspendidos \ {ks.pid} /\ ks' = Ocioso /\ UNCHANGED <<segs, swap, mem, caida>>
    BY <1>4 DEF Traer
  <2>2. ks' \in Locales /\ EnCurso' /\ Indices'
    BY <2>1, OciosoTipado DEF EnCurso, Indices
  <2>3. /\ segs' \in [Procesos -> Seq(Segmento)] /\ CabenEnSwap' /\ TiposDeTablas'
        /\ TiposDeSwap' /\ TiposDeHistoria'
    BY <1>1, <1>2, <2>1, TypeOKPartes DEF TypeInv, TiposDeTablas, TiposDeSwap, TiposDeHistoria,
       swap, CabenEnSwap
  <2> QED BY <1>1, <1>3, <2>2, <2>3, TipoKS
<1>5. CASE ks.cola # <<>>
  <2>1. PICK r : r = Head(ks.cola)
    OBVIOUS
  <2>2. /\ r = ks.cola[1] /\ 1 \in DOMAIN ks.cola /\ r \in TramoTipo /\ r.base \in Nat
        /\ Tail(ks.cola) \in Seq(TramoTipo)
        /\ DOMAIN Tail(ks.cola) = 1 .. Len(ks.cola) - 1
        /\ \A j \in 1 .. Len(ks.cola) - 1 : Tail(ks.cola)[j] = ks.cola[j + 1]
        /\ \A j \in DOMAIN Tail(ks.cola) : j + 1 \in DOMAIN ks.cola
    BY <1>2, <1>5, <2>1, PrimeroDeLaCola
  <2>3. /\ r.pid \in Procesos /\ r.i \in DOMAIN segs[r.pid]
        /\ \A j \in DOMAIN Tail(ks.cola) :
             Tail(ks.cola)[j].pid \in Procesos
             /\ Tail(ks.cola)[j].i \in DOMAIN segs[Tail(ks.cola)[j].pid]
    BY <1>1, <2>2 DEF TypeInv, Indices
  <2>4. CASE ~Mapeado(r)
    <3>1. caida' = TRUE /\ UNCHANGED <<ks, segs, suspendidos, swap, mem>>
      BY <1>5, <2>1, <2>4 DEF Traer
    <3>2. TiposDeSwap' /\ TiposDeHistoria' /\ TiposDeTablas'
      BY <1>1, <3>1, TypeOKPartes DEF TypeInv, TiposDeHistoria, TiposDeSwap, TiposDeTablas, swap
    <3>3. EnCurso' /\ Indices' /\ CabenEnSwap'
      BY <1>1, <3>1, Zenon DEF TypeInv, EnCurso, Indices, CabenEnSwap
    <3> QED BY <1>1, <1>2, <1>3, <3>1, <3>2, <3>3, TipoKS
  <2>5. CASE Mapeado(r)
    <3>1. PICK s : s = segs[r.pid][r.i]
      OBVIOUS
    <3>2. PICK m : m = [s EXCEPT !.enSwap = FALSE, !.base = r.base, !.bloque = MaxBit]
      OBVIOUS
    <3>3. /\ mem' = EscribirMem(mem, r.base, LeerSwap(s))
          /\ segs' = ConSegmento(r.pid, r.i, m)
          /\ bloques' = bloques \ BloquesDe(s)
          /\ disco' = [b \in Bits |-> IF b \in BloquesDe(s) THEN Nada ELSE disco[b]]
          /\ ks' = [ks EXCEPT !.cola = Tail(@)]
          /\ UNCHANGED <<suspendidos, caida>>
      BY <1>5, <2>1, <2>5, <3>1, <3>2 DEF Traer
    <3>4. s \in Segmento
      BY <1>2, <2>3, <3>1
    <3>5. m \in Segmento /\ ~m.enSwap
      BY <2>2, <3>2, <3>4 DEF Segmento
    <3>6. /\ segs' \in [Procesos -> Seq(Segmento)] /\ CabenEnSwap'
          /\ \A q \in Procesos : DOMAIN segs'[q] = DOMAIN segs[q]
      BY <1>2, <2>3, <3>3, <3>5, TipoConSegmento DEF TypeInv
    <3>7. /\ ks' \in Locales /\ ks'.fase = "traer" /\ ks'.cola = Tail(ks.cola)
          /\ ks'.pid = ks.pid /\ ks'.i = ks.i
      BY <1>1, <1>2, <2>2, <3>3 DEF Locales
    <3>8. EnCurso' /\ Indices'
      <4>1. EnCurso'
        BY <1>2, <3>3, <3>7 DEF EnCurso
      <4>2. Indices'
        BY <2>3, <3>6, <3>7 DEF Indices
      <4> QED BY <4>1, <4>2
    <3>9. TiposDeTablas' /\ TiposDeSwap' /\ TiposDeHistoria'
      BY <1>1, <3>3, TypeOKPartes DEF TypeInv, TiposDeTablas, TiposDeSwap, TiposDeHistoria,
         EscribirMem
    <3> QED BY <1>1, <1>3, <3>6, <3>7, <3>8, <3>9, TipoKS
  <2> QED BY <2>4, <2>5
<1> QED BY <1>4, <1>5

\* Every step keeps the types and what the program counters imply.
LEMMA TipoPaso == ASSUME KernelMemoryAssumption, TypeInv, [Next]_vars PROVE TypeInv'
<1>1. ASSUME NEW p \in Procesos, CrearProceso(p) PROVE TypeInv'
  BY <1>1, TipoCrearProceso
<1>2. ASSUME NEW p \in Procesos, FinalizarProceso(p) PROVE TypeInv'
  BY <1>2, TipoFinalizar
<1>3. ASSUME NEW p \in Procesos, Suspender(p) \/ Desuspender(p) PROVE TypeInv'
  BY <1>3, TipoSuspender
<1>4. ASSUME NEW p \in Procesos, NEW id \in Ids, NEW tam \in Tamanios, CrearSegmento(p, id, tam)
      PROVE  TypeInv'
  BY <1>4, TipoTomarHueco DEF CrearSegmento
<1>5. ASSUME NEW p \in Procesos, NEW i \in DOMAIN segs[p], EliminarSegmento(p, i) PROVE TypeInv'
  BY <1>5, TipoEliminar
<1>6. ASSUME CrearTrasCompactar PROVE TypeInv'
  <2>1. ks.pid \in Procesos /\ ks.id \in Ids /\ ks.tam \in Tamanios
    BY <1>6 DEF CrearTrasCompactar, TypeInv, EnCurso
  <2> QED BY <1>6, <2>1, TipoTomarHueco DEF CrearTrasCompactar
<1>7. ASSUME NEW k \in Sticks, PasoStick(k) PROVE TypeInv'
  BY <1>7, TipoAumentar, TipoStick DEF PasoStick
<1>8. ASSUME UNCHANGED vars PROVE TypeInv'
  <2>1. /\ huecos' \in Seq(Hueco) /\ segs' \in [Procesos -> Seq(Segmento)] /\ ks' \in Locales
        /\ TiposDePedidas'
    BY <1>8, TypeOKPartes DEF TypeInv, vars, tablas, TiposDePedidas
  <2>2. EnCurso' /\ Indices'
    BY <1>8, Zenon DEF TypeInv, EnCurso, Indices, vars, tablas
  <2> QED BY <1>8, <2>1, <2>2, TipoSoloKS DEF vars
<1> QED BY <1>1, <1>2, <1>3, <1>4, <1>5, <1>6, <1>7, <1>8, TipoCompactar, TipoRegistrar,
        TipoDevolver, TipoMover, TipoVaciarHuecos, TipoGranHueco, TipoSuspenderSegmento,
        TipoSuspensionLista, TipoReservar, TipoTraer
     DEF Next, Pedido, PasoKS

\* Every variable keeps its type: the holes have at least a byte, a suspended process is in
\* the dictionary, memoria_total never passes the capacity of the sticks, and the blocks of a
\* segment in swap are bits of the bitmap (conexiones.c, procesos.c, huecos.c, swap.c).
THEOREM TiposDeLaMemoria == Spec => []TypeOK
<1>1. Init => TypeInv
  BY KernelMemoryAssumption, TipoInicial
<1>2. TypeInv /\ [Next]_vars => TypeInv'
  BY KernelMemoryAssumption, TipoPaso
<1>3. TypeInv => TypeOK
  BY DEF TypeInv
<1> QED BY <1>1, <1>2, <1>3, PTL DEF Spec

-----------------------------------------------------------------------------
(* Desuspension is all or nothing.                                         *)

\* The phase each request of kernel_scheduler starts with.
LEMMA FaseDelPedido ==
  ASSUME KernelMemoryAssumption, TypeInv
  PROVE  /\ \A p \in Procesos :
              /\ Suspender(p) => /\ ks'.fase = "suspender" /\ ks'.pid = p /\ ks'.i = 1
                                 /\ ks'.cola = <<>>
              /\ Desuspender(p) => /\ ks'.fase = "reservar" /\ ks'.pid = p /\ ks'.i = 1
                                   /\ ks'.cola = <<>>
              /\ FinalizarProceso(p) => ks'.fase \in {"libre", "devolver"} /\ ks'.i = 0
              /\ \A id \in Ids, tam \in Tamanios :
                   TomarHueco(p, id, tam) => ks'.fase \in {"libre", "registrar"} /\ ks'.i = 0
              /\ \A i \in DOMAIN segs[p] :
                   EliminarSegmento(p, i) => ks'.fase = "devolver" /\ ks'.i = 0
         /\ Compactar => ks'.fase = "mover" /\ ks'.i = 0
<1>3. Compactar => ks'.fase = "mover" /\ ks'.i = 0
  BY DEF Compactar, Ocioso
<1>4. ASSUME NEW p \in Procesos
      PROVE  /\ Suspender(p) => /\ ks'.fase = "suspender" /\ ks'.pid = p /\ ks'.i = 1
                                /\ ks'.cola = <<>>
             /\ Desuspender(p) => /\ ks'.fase = "reservar" /\ ks'.pid = p /\ ks'.i = 1
                                  /\ ks'.cola = <<>>
  BY DEF Suspender, Desuspender, Ocioso
<1>5. ASSUME NEW p \in Procesos, FinalizarProceso(p)
      PROVE  ks'.fase \in {"libre", "devolver"} /\ ks'.i = 0
  <2>1. PICK c : ks' = Ocioso \/ ks' = [Ocioso EXCEPT !.fase = "devolver", !.cola = c]
    BY <1>5 DEF FinalizarProceso
  <2>2. CASE ks' = Ocioso
    BY <2>2, OciosoTipado
  <2>3. CASE ks' = [Ocioso EXCEPT !.fase = "devolver", !.cola = c]
    BY <2>3 DEF Ocioso
  <2> QED BY <2>1, <2>2, <2>3
<1>6. ASSUME NEW p \in Procesos, NEW id \in Ids, NEW tam \in Tamanios, TomarHueco(p, id, tam)
      PROVE  ks'.fase \in {"libre", "registrar"} /\ ks'.i = 0
  <2>1. PICK b : \/ ks' = Ocioso
                 \/ ks' = [Ocioso EXCEPT !.fase = "registrar", !.pid = p, !.id = id,
                                         !.tam = tam, !.base = b]
    BY <1>6 DEF TomarHueco
  <2>2. CASE ks' = Ocioso
    BY <2>2, OciosoTipado
  <2>3. CASE ks' = [Ocioso EXCEPT !.fase = "registrar", !.pid = p, !.id = id,
                                  !.tam = tam, !.base = b]
    BY <2>3 DEF Ocioso
  <2> QED BY <2>1, <2>2, <2>3
<1>7. ASSUME NEW p \in Procesos, NEW i \in DOMAIN segs[p], EliminarSegmento(p, i)
      PROVE  ks'.fase = "devolver" /\ ks'.i = 0
  BY <1>7 DEF EliminarSegmento, Ocioso
<1> QED BY <1>3, <1>4, <1>5, <1>6, <1>7

\* The phase each step of a request leaves.
LEMMA FaseDelPaso ==
  ASSUME KernelMemoryAssumption, TypeInv
  PROVE  /\ Registrar => ks.fase = "registrar" /\ ks'.fase = "libre" /\ ks'.i = 0
         /\ Devolver => /\ ks.fase = "devolver" /\ ks'.pid = ks.pid /\ ks'.i = ks.i
                        /\ \/ ks'.fase \in {"devolver", "suspender"}
                           \/ ks'.fase = "libre" /\ ks.i = 0
         /\ Mover => ks.fase = "mover" /\ ks'.fase = "mover"
         /\ VaciarHuecos => ks.fase = "mover" /\ ks'.fase = "gran"
         /\ GranHueco => ks.fase = "gran" /\ ks'.fase = "crear"
         /\ SuspenderSegmento => /\ ks.fase = "suspender" /\ ks'.pid = ks.pid
                                 /\ ks'.fase \in {"suspender", "devolver"} /\ ks'.i \in Nat \ {0}
         /\ SuspensionLista => ks.fase = "suspender" /\ ks'.fase = "libre"
<1>0. ks \in Locales
  BY Tipos DEF TypeInv
<1>1. Registrar => ks.fase = "registrar" /\ ks'.fase = "libre" /\ ks'.i = 0
  BY OciosoTipado DEF Registrar
<1>2. SuspensionLista => ks.fase = "suspender" /\ ks'.fase = "libre"
  BY OciosoTipado DEF SuspensionLista
<1>3. /\ VaciarHuecos => ks.fase = "mover" /\ ks'.fase = "gran"
      /\ GranHueco => ks.fase = "gran" /\ ks'.fase = "crear"
  BY <1>0 DEF VaciarHuecos, GranHueco, Locales
<1>4. Mover => ks.fase = "mover" /\ ks'.fase = "mover"
  <2> SUFFICES ASSUME Mover PROVE ks.fase = "mover" /\ ks'.fase = "mover"
    OBVIOUS
  <2>1. PICK b, c : ks' = ks \/ ks' = [ks EXCEPT !.base = b, !.cola = c]
    BY DEF Mover
  <2>2. ks.fase = "mover"
    BY DEF Mover
  <2> QED BY <1>0, <2>1, <2>2 DEF Locales
<1>5. ASSUME Devolver
      PROVE  /\ ks.fase = "devolver" /\ ks'.pid = ks.pid /\ ks'.i = ks.i
             /\ \/ ks'.fase \in {"devolver", "suspender"}
                \/ ks'.fase = "libre" /\ ks.i = 0
  <2>1. PICK f, c : /\ ks' = [ks EXCEPT !.cola = c, !.fase = f]
                    /\ f \in {"devolver", "suspender"} \/ (f = "libre" /\ ks.i = 0)
    <3>1. PICK f : f = IF Len(ks.cola) > 1 THEN "devolver"
                       ELSE IF ks.i = 0 THEN "libre" ELSE "suspender"
      OBVIOUS
    <3>2. ks' = [ks EXCEPT !.cola = Tail(@), !.fase = f]
      BY <1>5, <3>1 DEF Devolver
    <3>3. f \in {"devolver", "suspender"} \/ (f = "libre" /\ ks.i = 0)
      BY <3>1
    <3> QED BY <3>2, <3>3
  <2>2. ks.fase = "devolver"
    BY <1>5 DEF Devolver
  <2>3. ks'.pid = ks.pid /\ ks'.i = ks.i /\ ks'.fase = f
    BY <1>0, <2>1 DEF Locales
  <2> QED BY <2>1, <2>2, <2>3
<1>6. ASSUME SuspenderSegmento
      PROVE  /\ ks.fase = "suspender" /\ ks'.pid = ks.pid
             /\ ks'.fase \in {"suspender", "devolver"} /\ ks'.i \in Nat \ {0}
  <2>1. PICK s : s = segs[ks.pid][ks.i]
    OBVIOUS
  <2>2. /\ ks.fase = "suspender" /\ ks.i \in Nat \ {0}
        /\ \/ ks' = [ks EXCEPT !.i = @ + 1]
           \/ ks' = [ks EXCEPT !.fase = "devolver", !.i = @ + 1, !.cola = <<Tramo(s.base, s.tam)>>]
           \/ ks' = ks
    BY <1>6, <2>1, SuspenderSegmentoEs
  <2>3. PICK j \in Nat \ {0} : j = ks.i + 1
    BY <2>2
  <2>4. PICK c : \/ ks' = [ks EXCEPT !.i = j]
                 \/ ks' = [ks EXCEPT !.fase = "devolver", !.i = j, !.cola = c]
                 \/ ks' = ks
    BY <2>2, <2>3
  <2> QED BY <1>0, <2>2, <2>4 DEF Locales
<1> QED BY <1>1, <1>2, <1>3, <1>4, <1>5, <1>6

\* Outside the two loops of desuspension nothing is reserved.
LEMMA ReservasVacias == ASSUME ks'.fase \notin {"reservar", "traer"} PROVE Reservas'
BY DEF Reservas

\* The next step of either loop: it looks at the same tables, and the queue says what it said.
LEMMA ReservasSiguen ==
  ASSUME NEW p, NEW c, NEW T, NEW k,
         segs'[p] = T, ks'.pid = p, ks'.cola = c, ks'.i = k,
         \A j \in DOMAIN c : /\ c[j].pid = p /\ c[j].i \in DOMAIN T
                             /\ T[c[j].i].enSwap /\ c[j].tam = T[c[j].i].tam
                             /\ ks'.fase = "reservar" => c[j].i < k,
         \A j, l \in DOMAIN c : c[j].i = c[l].i => j = l,
         \A i \in DOMAIN T : T[i].enSwap /\ (ks'.fase = "reservar" => i < k) =>
           \E j \in DOMAIN c : c[j].i = i
  PROVE  Reservas'
BY DEF Reservas

\* One turn of the PRE-CHECK adds the hole of the segment it looks at.
LEMMA ReservasReservar ==
  ASSUME KernelMemoryAssumption, TypeInv, Reservas, Reservar PROVE Reservas'
<1>1. /\ ks.fase = "reservar" /\ ks.i \in Nat \ {0} /\ ks.pid \in Procesos /\ segs' = segs
      /\ ks \in Locales /\ segs[ks.pid] \in Seq(Segmento) /\ ks.cola \in Seq(TramoTipo)
      /\ DOMAIN segs[ks.pid] \subseteq Nat
  <2>1. ks.fase = "reservar" /\ ks.i \in Nat \ {0} /\ ks.pid \in Procesos /\ segs' = segs
    BY ReservarEs, Zenon DEF tablas
  <2>2. segs \in [Procesos -> Seq(Segmento)] /\ ks \in Locales /\ ks.cola \in Seq(TramoTipo)
    BY Tipos DEF TypeInv
  <2>3. segs[ks.pid] \in Seq(Segmento)
    BY <2>1, <2>2
  <2>4. DOMAIN segs[ks.pid] \subseteq Nat
    BY <2>3
  <2> QED BY <2>1, <2>2, <2>3, <2>4
<1>2. /\ \A j \in DOMAIN ks.cola :
           /\ ks.cola[j].pid = ks.pid /\ ks.cola[j].i \in DOMAIN segs[ks.pid]
           /\ segs[ks.pid][ks.cola[j].i].enSwap
           /\ ks.cola[j].tam = segs[ks.pid][ks.cola[j].i].tam
           /\ ks.cola[j].i < ks.i
      /\ \A j, l \in DOMAIN ks.cola : ks.cola[j].i = ks.cola[l].i => j = l
      /\ \A i \in DOMAIN segs[ks.pid] :
           segs[ks.pid][i].enSwap /\ i < ks.i => \E j \in DOMAIN ks.cola : ks.cola[j].i = i
  BY <1>1 DEF Reservas
<1>3. PICK n \in Nat \ {0} : n = ks.i + 1
  BY <1>1
<1>4. CASE ~segs[ks.pid][ks.i].enSwap /\ ks' = [ks EXCEPT !.i = @ + 1]
  <2>1. ks' = [ks EXCEPT !.i = n]
    BY <1>3, <1>4
  <2>2. ks'.fase = "reservar" /\ ks'.i = n /\ ks'.pid = ks.pid /\ ks'.cola = ks.cola
    BY <1>1, <2>1 DEF Locales
  <2>3. \A j \in DOMAIN ks.cola : ks.cola[j].i < n
    BY <1>1, <1>2, <1>3
  <2>4. \A i \in DOMAIN segs[ks.pid] : segs[ks.pid][i].enSwap /\ i < n => i < ks.i
    <3> SUFFICES ASSUME NEW i \in DOMAIN segs[ks.pid], segs[ks.pid][i].enSwap, i < n
                 PROVE  i < ks.i
      OBVIOUS
    <3>1. PICK k \in Nat : k = ks.i
      BY <1>1
    <3>2. i \in Nat /\ i # k
      BY <1>1, <1>4, <3>1
    <3>3. n = k + 1
      BY <1>3, <3>1
    <3> QED BY <3>1, <3>2, <3>3
  <2>5. \A i \in DOMAIN segs[ks.pid] :
          segs[ks.pid][i].enSwap /\ i < n => \E j \in DOMAIN ks.cola : ks.cola[j].i = i
    BY <1>2, <2>4
  <2>6. \A j \in DOMAIN ks.cola :
           /\ ks.cola[j].pid = ks.pid /\ ks.cola[j].i \in DOMAIN segs[ks.pid]
           /\ segs[ks.pid][ks.cola[j].i].enSwap
           /\ ks.cola[j].tam = segs[ks.pid][ks.cola[j].i].tam /\ ks.cola[j].i < n
    BY <1>2, <2>3
  <2>7. \A j, l \in DOMAIN ks.cola : ks.cola[j].i = ks.cola[l].i => j = l
    BY <1>2
  <2>8. segs' = segs
    BY <1>1
  <2>9. PICK p, c, T : p = ks.pid /\ c = ks.cola /\ T = segs[ks.pid]
    OBVIOUS
  <2>10. segs'[p] = T /\ ks'.pid = p /\ ks'.cola = c /\ ks'.i = n
    BY <2>2, <2>8, <2>9
  <2>11. /\ \A j \in DOMAIN c : /\ c[j].pid = p /\ c[j].i \in DOMAIN T
                               /\ T[c[j].i].enSwap /\ c[j].tam = T[c[j].i].tam /\ c[j].i < n
         /\ \A j, l \in DOMAIN c : c[j].i = c[l].i => j = l
         /\ \A i \in DOMAIN T : T[i].enSwap /\ i < n => \E j \in DOMAIN c : c[j].i = i
    BY ONLY <2>5, <2>6, <2>7, <2>9
  <2> QED BY ONLY <2>2, <2>10, <2>11, ReservasSiguen
<1>5. ASSUME ks.i \in DOMAIN segs[ks.pid], segs[ks.pid][ks.i].enSwap, NEW h,
             ks' = [ks EXCEPT !.i = @ + 1, !.cola = Append(@,
                       [pid |-> ks.pid, i |-> ks.i, base |-> huecos[h].base,
                        tam |-> segs[ks.pid][ks.i].tam])]
      PROVE  Reservas'
  <2>1. PICK t : t = [pid |-> ks.pid, i |-> ks.i, base |-> huecos[h].base,
                      tam |-> segs[ks.pid][ks.i].tam]
    OBVIOUS
  <2>2. t.pid = ks.pid /\ t.i = ks.i /\ t.tam = segs[ks.pid][ks.i].tam
    BY <2>1
  <2>3. PICK c : c = Append(ks.cola, t)
    OBVIOUS
  <2>4. ks' = [ks EXCEPT !.i = n, !.cola = c]
    BY <1>3, <1>5, <2>1, <2>3
  <2>5. ks'.fase = "reservar" /\ ks'.i = n /\ ks'.pid = ks.pid /\ ks'.cola = c
    BY <1>1, <2>4 DEF Locales
  <2>6. PICK m \in Nat : /\ m = Len(ks.cola) /\ DOMAIN ks.cola = 1 .. m
    BY <1>1, LenProperties
  <2>7. /\ DOMAIN c = 1 .. m + 1 /\ c[m + 1] = t
        /\ \A l \in 1 .. m : c[l] = ks.cola[l]
    <3> DEFINE w == ks.cola
    <3>1. w \in Seq(TramoTipo) /\ Len(w) = m
      BY <1>1, <2>6
    <3> HIDE DEF w
    <3> QED BY <2>3, <3>1 DEF w
  <2>8. \A l \in 1 .. m + 1 : l = m + 1 \/ l \in 1 .. m
    OBVIOUS
  <2>9. \A j \in DOMAIN c :
           /\ c[j].pid = ks.pid /\ c[j].i \in DOMAIN segs[ks.pid]
           /\ segs[ks.pid][c[j].i].enSwap
           /\ c[j].tam = segs[ks.pid][c[j].i].tam
           /\ c[j].i < n
    <3> TAKE j \in DOMAIN c
    <3>1. CASE j = m + 1
      <4>1. c[j] = t /\ ks.i < n
        BY <1>1, <1>3, <2>7, <3>1
      <4> QED BY <1>5, <2>2, <4>1
    <3>2. CASE j \in 1 .. m
      <4>1. c[j] = ks.cola[j] /\ j \in DOMAIN ks.cola /\ ks.cola[j].i \in Nat
        BY <1>1, <1>2, <2>6, <2>7, <3>2
      <4> QED BY <1>1, <1>2, <1>3, <4>1
    <3> QED BY <2>7, <2>8, <3>1, <3>2
  <2>10. \A j, l \in DOMAIN c : c[j].i = c[l].i => j = l
    <3>1. \A j \in 1 .. m : c[j].i = ks.cola[j].i /\ c[j].i \in Nat /\ c[j].i < ks.i
      BY <1>1, <1>2, <2>6, <2>7
    <3>2. c[m + 1].i = ks.i
      BY <2>2, <2>7
    <3> SUFFICES ASSUME NEW j \in 1 .. m + 1, NEW l \in 1 .. m + 1, c[j].i = c[l].i
                 PROVE  j = l
      BY <2>7
    <3>3. CASE j \in 1 .. m /\ l \in 1 .. m
      <4>1. ks.cola[j].i = ks.cola[l].i
        BY <3>1, <3>3
      <4> QED BY <1>2, <2>6, <3>3, <4>1
    <3>4. CASE j = m + 1 /\ l \in 1 .. m
      BY <1>1, <3>1, <3>2, <3>4
    <3>5. CASE l = m + 1 /\ j \in 1 .. m
      BY <1>1, <3>1, <3>2, <3>5
    <3> QED BY <2>8, <3>3, <3>4, <3>5
  <2>11. \A i \in DOMAIN segs[ks.pid] :
           segs[ks.pid][i].enSwap /\ i < n => \E j \in DOMAIN c : c[j].i = i
    <3> SUFFICES ASSUME NEW i \in DOMAIN segs[ks.pid], segs[ks.pid][i].enSwap, i < n
                 PROVE  \E j \in DOMAIN c : c[j].i = i
      OBVIOUS
    <3>1. CASE i = ks.i
      <4>1. m + 1 \in DOMAIN c /\ c[m + 1].i = i
        BY <2>2, <2>7, <3>1
      <4> QED BY <4>1
    <3>2. CASE i # ks.i
      <4>1. i < ks.i
        BY <1>1, <1>3, <3>2
      <4>2. PICK j \in DOMAIN ks.cola : ks.cola[j].i = i
        BY <1>2, <4>1
      <4>3. j \in DOMAIN c /\ c[j].i = i
        BY <2>6, <2>7, <4>2
      <4> QED BY <4>3
    <3> QED BY <3>1, <3>2
  <2> QED BY <1>1, <2>5, <2>9, <2>10, <2>11 DEF Reservas
<1>6. CASE ks.i > Len(segs[ks.pid]) /\ ks' = [ks EXCEPT !.fase = "traer"]
  <2>1. ks'.fase = "traer" /\ ks'.pid = ks.pid /\ ks'.cola = ks.cola
    BY <1>1, <1>6 DEF Locales
  <2>2. \A i \in DOMAIN segs[ks.pid] : i < ks.i
    <3>1. DOMAIN segs[ks.pid] = 1 .. Len(segs[ks.pid]) /\ Len(segs[ks.pid]) \in Nat
      BY <1>1, LenProperties
    <3> QED BY <1>1, <1>6, <3>1
  <2>3. ks'.fase # "reservar" /\ segs' = segs
    BY <1>1, <2>1
  <2>4. \A i \in DOMAIN segs[ks.pid] :
          segs[ks.pid][i].enSwap => \E j \in DOMAIN ks.cola : ks.cola[j].i = i
    BY <1>2, <2>2
  <2>5. \A j \in DOMAIN ks.cola :
           /\ ks.cola[j].pid = ks.pid /\ ks.cola[j].i \in DOMAIN segs[ks.pid]
           /\ segs[ks.pid][ks.cola[j].i].enSwap
           /\ ks.cola[j].tam = segs[ks.pid][ks.cola[j].i].tam
    BY <1>2
  <2>6. \A j, l \in DOMAIN ks.cola : ks.cola[j].i = ks.cola[l].i => j = l
    BY <1>2
  <2>7. PICK p, c, T : p = ks.pid /\ c = ks.cola /\ T = segs[ks.pid]
    OBVIOUS
  <2>8. segs'[p] = T /\ ks'.pid = p /\ ks'.cola = c
    BY <2>1, <2>3, <2>7
  <2>9. /\ \A j \in DOMAIN c : /\ c[j].pid = p /\ c[j].i \in DOMAIN T
                              /\ T[c[j].i].enSwap /\ c[j].tam = T[c[j].i].tam
        /\ \A j, l \in DOMAIN c : c[j].i = c[l].i => j = l
        /\ \A i \in DOMAIN T : T[i].enSwap => \E j \in DOMAIN c : c[j].i = i
    BY ONLY <2>4, <2>5, <2>6, <2>7
  <2> QED BY ONLY <2>3, <2>8, <2>9, ReservasSiguen
<1>7. CASE ks' = NoEntra
  <2>1. ks' = Ocioso \/ ks' = [ks EXCEPT !.fase = "trabado"]
    BY <1>7 DEF NoEntra
  <2>2. ks'.fase \in {"libre", "trabado"}
    BY <1>1, <2>1, OciosoTipado DEF Locales
  <2> QED BY <2>2, ReservasVacias
<1> QED BY <1>4, <1>5, <1>6, <1>7, ReservarEs

\* What Traer does with the first reserved piece.
LEMMA TraerEs ==
  ASSUME KernelMemoryAssumption, TypeInv, Traer
  PROVE  /\ ks.fase = "traer" /\ ks.pid \in suspendidos /\ ks.pid \in Procesos
         /\ UNCHANGED <<total, huecos, stick, procesos, pedidas, fugas, sinDuenio, dobles>>
         /\ \/ /\ ks.cola = <<>> /\ suspendidos' = suspendidos \ {ks.pid} /\ ks' = Ocioso
               /\ UNCHANGED <<segs, swap, mem, caida>>
            \/ UNCHANGED <<ks, segs, suspendidos, swap, mem>>
            \/ /\ ks.cola # <<>>
               /\ ks'.fase = "traer" /\ ks'.pid = ks.pid /\ ks'.cola = Tail(ks.cola)
               /\ ks.cola[1].pid \in Procesos /\ ks.cola[1].i \in DOMAIN segs[ks.cola[1].pid]
               /\ UNCHANGED <<suspendidos, caida>>
               /\ \E s, m \in Segmento :
                    /\ s = segs[ks.cola[1].pid][ks.cola[1].i]
                    /\ m = [s EXCEPT !.enSwap = FALSE, !.base = ks.cola[1].base,
                                     !.bloque = MaxBit]
                    /\ ~m.enSwap /\ m.base = ks.cola[1].base /\ m.tam = s.tam /\ m.id = s.id
                    /\ segs' = ConSegmento(ks.cola[1].pid, ks.cola[1].i, m)
                    /\ bloques' = bloques \ BloquesDe(s)
<1>1. /\ ks.fase = "traer" /\ ks.pid \in suspendidos /\ ks.pid \in Procesos
      /\ UNCHANGED <<total, huecos, stick, procesos, pedidas, fugas, sinDuenio, dobles>>
  <2>1. /\ ks.fase = "traer"
        /\ UNCHANGED <<total, huecos, stick, procesos, pedidas, fugas, sinDuenio, dobles>>
    BY DEF Traer
  <2>2. ks.pid \in suspendidos
    BY <2>1 DEF TypeInv, EnCurso
  <2> QED BY <2>1, <2>2, TypeOKPartes DEF TypeInv, TiposDeTablas
<1>2. CASE ks.cola = <<>>
  BY <1>1, <1>2 DEF Traer
<1>3. CASE ks.cola # <<>> /\ ~Mapeado(Head(ks.cola))
  BY <1>1, <1>3, Zenon DEF Traer
<1>4. CASE ks.cola # <<>> /\ Mapeado(Head(ks.cola))
  <2>1. PICK r : r = Head(ks.cola)
    OBVIOUS
  <2>2. /\ ks \in Locales /\ segs \in [Procesos -> Seq(Segmento)]
    BY Tipos DEF TypeInv
  <2>3. /\ r = ks.cola[1] /\ 1 \in DOMAIN ks.cola /\ r.base \in Nat
        /\ Tail(ks.cola) \in Seq(TramoTipo)
    BY <1>4, <2>1, <2>2, PrimeroDeLaCola
  <2>4. r.pid \in Procesos /\ r.i \in DOMAIN segs[r.pid]
    BY <1>1, <2>3 DEF TypeInv, Indices
  <2>5. PICK s \in Segmento : s = segs[r.pid][r.i]
    BY <2>2, <2>4
  <2>6. PICK m : m = [s EXCEPT !.enSwap = FALSE, !.base = r.base, !.bloque = MaxBit]
    OBVIOUS
  <2>7. m \in Segmento /\ ~m.enSwap /\ m.base = r.base /\ m.tam = s.tam /\ m.id = s.id
    BY <2>3, <2>5, <2>6 DEF Segmento
  <2>8. /\ segs' = ConSegmento(r.pid, r.i, m) /\ bloques' = bloques \ BloquesDe(s)
        /\ ks' = [ks EXCEPT !.cola = Tail(@)] /\ UNCHANGED <<suspendidos, caida>>
    BY <1>4, <2>1, <2>5, <2>6 DEF Traer
  <2>9. ks'.fase = "traer" /\ ks'.pid = ks.pid /\ ks'.cola = Tail(ks.cola)
    BY <1>1, <2>2, <2>3, <2>8 DEF Locales
  <2> HIDE <2>2
  <2>10. \E s0, m0 \in Segmento :
                    /\ s0 = segs[ks.cola[1].pid][ks.cola[1].i]
                    /\ m0 = [s0 EXCEPT !.enSwap = FALSE, !.base = ks.cola[1].base,
                                     !.bloque = MaxBit]
                    /\ ~m0.enSwap /\ m0.base = ks.cola[1].base /\ m0.tam = s0.tam
                    /\ m0.id = s0.id
                    /\ segs' = ConSegmento(ks.cola[1].pid, ks.cola[1].i, m0)
                    /\ bloques' = bloques \ BloquesDe(s0)
    BY <2>3, <2>5, <2>6, <2>7, <2>8, Zenon
  <2> QED BY <1>1, <1>4, <2>3, <2>4, <2>8, <2>9, <2>10
<1> QED BY <1>2, <1>3, <1>4

\* Bringing the first reserved segment back takes it out of the queue and of swap.
LEMMA ReservasTraer ==
  ASSUME KernelMemoryAssumption, TypeInv, Reservas, Traer PROVE Reservas'
<1>1. /\ ks.fase = "traer" /\ ks.pid \in Procesos /\ ks \in Locales
      /\ segs \in [Procesos -> Seq(Segmento)]
  BY TraerEs, Tipos DEF TypeInv
<1>2. /\ \A j \in DOMAIN ks.cola :
           /\ ks.cola[j].pid = ks.pid /\ ks.cola[j].i \in DOMAIN segs[ks.pid]
           /\ segs[ks.pid][ks.cola[j].i].enSwap
           /\ ks.cola[j].tam = segs[ks.pid][ks.cola[j].i].tam
      /\ \A j, l \in DOMAIN ks.cola : ks.cola[j].i = ks.cola[l].i => j = l
      /\ \A i \in DOMAIN segs[ks.pid] :
           segs[ks.pid][i].enSwap => \E j \in DOMAIN ks.cola : ks.cola[j].i = i
  BY <1>1 DEF Reservas
<1>3. CASE ks' = Ocioso
  BY <1>3, OciosoTipado, ReservasVacias
<1>4. CASE UNCHANGED <<ks, segs>>
  BY <1>4, Zenon DEF Reservas
<1>5. ASSUME ks.cola # <<>>, ks'.fase = "traer", ks'.pid = ks.pid, ks'.cola = Tail(ks.cola),
             ks.cola[1].pid \in Procesos, ks.cola[1].i \in DOMAIN segs[ks.cola[1].pid],
             NEW m \in Segmento, ~m.enSwap, segs' = ConSegmento(ks.cola[1].pid, ks.cola[1].i, m)
      PROVE  Reservas'
  <2>1. /\ 1 \in DOMAIN ks.cola /\ Len(ks.cola) \in Nat \ {0}
        /\ DOMAIN ks.cola = 1 .. Len(ks.cola)
        /\ DOMAIN Tail(ks.cola) = 1 .. Len(ks.cola) - 1
        /\ \A j \in 1 .. Len(ks.cola) - 1 : Tail(ks.cola)[j] = ks.cola[j + 1]
    BY <1>1, <1>5, PrimeroDeLaCola
  <2>2. PICK c, i0, n : c = Tail(ks.cola) /\ i0 = ks.cola[1].i /\ n = Len(ks.cola)
    OBVIOUS
  <2>3. /\ n \in Nat \ {0} /\ DOMAIN ks.cola = 1 .. n /\ DOMAIN c = 1 .. n - 1
        /\ \A j \in 1 .. n - 1 : c[j] = ks.cola[j + 1] /\ j + 1 \in DOMAIN ks.cola /\ j + 1 # 1
        /\ ks.cola[1].pid = ks.pid /\ i0 \in DOMAIN segs[ks.pid]
    BY <1>2, <2>1, <2>2
  <2>4. /\ DOMAIN segs'[ks.pid] = DOMAIN segs[ks.pid]
        /\ segs'[ks.pid][i0] = m
        /\ \A j \in DOMAIN segs[ks.pid] : j # i0 => segs'[ks.pid][j] = segs[ks.pid][j]
    <3>1. segs' = ConSegmento(ks.pid, i0, m) /\ m \in Segmento
      BY <1>5, <2>2, <2>3
    <3>2. segs \in [Procesos -> Seq(Segmento)] /\ ks.pid \in Procesos /\ i0 \in DOMAIN segs[ks.pid]
      BY <1>1, <2>3
    <3>3. PICK p \in Procesos : p = ks.pid
      BY <3>2
    <3>4. /\ DOMAIN ConSegmento(p, i0, m)[p] = DOMAIN segs[p]
          /\ ConSegmento(p, i0, m)[p][i0] = m
          /\ \A j \in DOMAIN segs[p] : j # i0 => ConSegmento(p, i0, m)[p][j] = segs[p][j]
      BY <3>1, <3>2, <3>3, ConSegmentoEs
    <3> QED BY <3>1, <3>3, <3>4
  <2>5. \A j \in DOMAIN c :
           /\ c[j].pid = ks.pid /\ c[j].i \in DOMAIN segs'[ks.pid]
           /\ segs'[ks.pid][c[j].i].enSwap
           /\ c[j].tam = segs'[ks.pid][c[j].i].tam
    <3> TAKE j \in DOMAIN c
    <3>1. c[j] = ks.cola[j + 1] /\ j + 1 \in DOMAIN ks.cola /\ j + 1 # 1
      BY <2>3
    <3>2. c[j].i # i0
      BY <1>2, <2>1, <2>2, <3>1
    <3> QED BY <1>2, <2>4, <3>1, <3>2
  <2>6. \A j, l \in DOMAIN c : c[j].i = c[l].i => j = l
    <3> TAKE j, l \in DOMAIN c
    <3>1. /\ c[j] = ks.cola[j + 1] /\ j + 1 \in DOMAIN ks.cola
          /\ c[l] = ks.cola[l + 1] /\ l + 1 \in DOMAIN ks.cola /\ j \in Nat /\ l \in Nat
      BY <2>3
    <3>2. c[j].i = c[l].i => j + 1 = l + 1
      BY <1>2, <3>1
    <3> QED BY <3>1, <3>2
  <2>7. \A i \in DOMAIN segs'[ks.pid] :
           segs'[ks.pid][i].enSwap => \E j \in DOMAIN c : c[j].i = i
    <3> SUFFICES ASSUME NEW i \in DOMAIN segs'[ks.pid], segs'[ks.pid][i].enSwap
                 PROVE  \E j \in DOMAIN c : c[j].i = i
      OBVIOUS
    <3>1. i # i0 /\ i \in DOMAIN segs[ks.pid] /\ segs[ks.pid][i].enSwap
      BY <1>5, <2>4
    <3>2. PICK j \in DOMAIN ks.cola : ks.cola[j].i = i
      BY <1>2, <3>1
    <3>3. j # 1 /\ j \in 1 .. n
      BY <2>2, <2>3, <3>1, <3>2
    <3>4. j - 1 \in DOMAIN c /\ c[j - 1] = ks.cola[j]
      BY <2>3, <3>3
    <3> QED BY <3>2, <3>4
  <2>8. ks'.fase # "reservar" /\ ks'.cola = c /\ ks'.pid = ks.pid
    BY <1>5, <2>2
  <2> QED BY <2>5, <2>6, <2>7, <2>8 DEF Reservas
<1> QED BY <1>3, <1>4, <1>5, TraerEs

Exento(q) == ks.fase \in {"suspender", "devolver"} /\ ks.i > 0 /\ ks.pid = q

MemInv == TypeInv /\ Reservas /\ SinSegmentos /\ MemoriaCompleta

\* MemoriaCompleta, process by process and index by index.
LEMMA CompletaEs ==
  ASSUME TypeInv
  PROVE  MemoriaCompleta <=>
           \A q \in Procesos : \A j \in DOMAIN segs[q] :
             segs[q][j].enSwap => ~(q \in procesos \ suspendidos /\ ~Exento(q))
<1>1. segs \in [Procesos -> Seq(Segmento)]
  BY Tipos DEF TypeInv
<1>2. ASSUME MemoriaCompleta, NEW q \in Procesos, NEW j \in DOMAIN segs[q], segs[q][j].enSwap
      PROVE  ~(q \in procesos \ suspendidos /\ ~Exento(q))
  <2>1. <<q, j>> \in EnTabla /\ <<q, j>>[1] = q /\ <<q, j>>[2] = j
    BY <1>1, EnTablaEs
  <2> QED BY <1>2, <2>1 DEF MemoriaCompleta, Exento
<1>3. ASSUME \A q \in Procesos : \A j \in DOMAIN segs[q] :
               segs[q][j].enSwap => ~(q \in procesos \ suspendidos /\ ~Exento(q))
      PROVE  MemoriaCompleta
  <2> SUFFICES ASSUME NEW x \in EnTabla, x[1] \in procesos \ suspendidos, ~Exento(x[1]),
                      segs[x[1]][x[2]].enSwap
               PROVE  FALSE
    BY DEF MemoriaCompleta, Exento
  <2>1. x[1] \in Procesos /\ x[2] \in DOMAIN segs[x[1]]
    BY <1>1, EnTablaTipo
  <2> QED BY <1>3, <2>1
<1> QED BY <1>2, <1>3

\* It is enough that a process that has a segment in swap and should not had one already.
LEMMA CompletaSi ==
  ASSUME TypeInv, TypeInv', MemoriaCompleta,
         \A q \in Procesos : \A j \in DOMAIN segs'[q] :
           segs'[q][j].enSwap /\ q \in procesos' \ suspendidos' /\ ~Exento(q)' =>
             /\ q \in procesos \ suspendidos /\ ~Exento(q)
             /\ \E i \in DOMAIN segs[q] : segs[q][i].enSwap
  PROVE  MemoriaCompleta'
<1>1. segs' \in [Procesos -> Seq(Segmento)] /\ segs \in [Procesos -> Seq(Segmento)]
  BY Tipos, TypeOKPartes DEF TypeInv, TypeOK, Segmento
<1>2. \A q \in Procesos : \A j \in DOMAIN segs'[q] :
        segs'[q][j].enSwap => ~(q \in procesos' \ suspendidos' /\ ~Exento(q)')
  BY CompletaEs
<1> SUFFICES ASSUME NEW x \in EnTabla', x[1] \in procesos' \ suspendidos', ~Exento(x[1])',
                    segs'[x[1]][x[2]].enSwap
             PROVE  FALSE
  BY DEF MemoriaCompleta, Exento
<1>3. PICK p \in Procesos : \E i \in DOMAIN segs'[p] : x = <<p, i>>
  BY DEF EnTabla
<1> QED BY <1>2, <1>3

\* The segments of the other processes, and whether one is in swap, stay.
LEMMA SegmentosQuedan ==
  ASSUME KernelMemoryAssumption, TypeInv, NEW p \in Procesos, NEW i \in DOMAIN segs[p],
         NEW s \in Segmento, segs' = ConSegmento(p, i, s), s.enSwap => segs[p][i].enSwap
  PROVE  /\ \A q \in Procesos : \A j \in DOMAIN segs'[q] :
              segs'[q][j].enSwap => \E k \in DOMAIN segs[q] : segs[q][k].enSwap
         /\ SinSegmentos /\ procesos' = procesos => SinSegmentos'
<1>1. /\ \A q \in Procesos : DOMAIN segs'[q] = DOMAIN segs[q]
      /\ segs'[p][i] = s
      /\ \A q \in Procesos \ {p} : segs'[q] = segs[q]
      /\ \A q \in Procesos : \A j \in DOMAIN segs[q] :
           q # p \/ j # i => segs'[q][j] = segs[q][j]
  BY ConSegmentoEs, Tipos DEF TypeInv
<1>2. ASSUME NEW q \in Procesos, NEW j \in DOMAIN segs'[q], segs'[q][j].enSwap
      PROVE  \E k \in DOMAIN segs[q] : segs[q][k].enSwap
  <2>1. CASE q = p /\ j = i
    BY <1>1, <1>2, <2>1
  <2>2. CASE q # p \/ j # i
    BY <1>1, <1>2, <2>2
  <2> QED BY <2>1, <2>2
<1>3. SinSegmentos /\ procesos' = procesos => SinSegmentos'
  <2>1. SinSegmentos => p \in procesos
    BY DEF SinSegmentos
  <2> QED BY <1>1, <2>1 DEF SinSegmentos
<1> QED BY <1>2, <1>3

\* Every step keeps the reservations, and with them the segments of who is not suspended.
LEMMA MemPaso == ASSUME KernelMemoryAssumption, MemInv, [Next]_vars PROVE MemInv'
<1>0. TypeInv /\ TypeInv' /\ Reservas /\ SinSegmentos /\ MemoriaCompleta
  BY TipoPaso DEF MemInv
<1>1. segs \in [Procesos -> Seq(Segmento)] /\ ks.i \in Nat
  BY <1>0, Tipos DEF TypeInv
\* Steps that leave the tables of processes and segments.
<1>2. ASSUME UNCHANGED tablas, ks'.fase \notin {"reservar", "traer"} \/ Reservas',
             \A q \in Procesos : ~Exento(q)' => ~Exento(q)
      PROVE  MemInv'
  <2>1. SinSegmentos'
    BY <1>0, <1>2 DEF SinSegmentos, tablas
  <2>2. MemoriaCompleta'
    BY <1>0, <1>2, CompletaSi DEF tablas
  <2> QED BY <1>0, <1>2, <2>1, <2>2, ReservasVacias DEF MemInv
<1>3. ASSUME UNCHANGED <<tablas, ks>> PROVE MemInv'
  <2>1. Reservas'
    BY <1>0, <1>3, Zenon DEF Reservas, tablas
  <2>2. \A q \in Procesos : ~Exento(q)' => ~Exento(q)
    BY <1>3 DEF Exento
  <2> QED BY <1>2, <1>3, <2>1, <2>2
<1>4. ASSUME NEW k \in Sticks, PasoStick(k) PROVE MemInv'
  BY <1>3, <1>4 DEF PasoStick, AumentarMemoriaTotal, AgregarHuecoDeStick, AgregarPosicion
<1>5. ASSUME UNCHANGED vars PROVE MemInv'
  BY <1>3, <1>5 DEF vars
<1>6. ASSUME NEW p \in Procesos, Suspender(p) \/ Desuspender(p) PROVE MemInv'
  <2>1. /\ ks.fase = "libre" /\ ks'.cola = <<>> /\ ks'.i = 1 /\ UNCHANGED tablas
        /\ ks'.fase \in {"suspender", "reservar"}
    BY <1>0, <1>6, FaseDelPedido DEF Suspender, Desuspender
  <2>2. \A q \in Procesos : ~Exento(q)
    BY <2>1 DEF Exento
  <2>3. Reservas'
    <3>1. \A i \in DOMAIN segs'[ks'.pid] : ks'.fase = "reservar" => ~(i < 1)
      <4>1. ks'.fase = "reservar" => ks'.pid = p
        BY <1>0, <1>6, FaseDelPedido
      <4>2. \A i \in DOMAIN segs[p] : ~(i < 1)
        <5>1. segs[p] \in Seq(Segmento)
          BY <1>1
        <5> QED BY <5>1
      <4> QED BY <2>1, <4>1, <4>2 DEF tablas
    <3> QED BY <2>1, <3>1 DEF Reservas
  <2> QED BY <1>2, <2>1, <2>2, <2>3
<1>7. ASSUME Reservar PROVE MemInv'
  <2>1. ks.fase = "reservar" /\ UNCHANGED tablas
    BY <1>7 DEF Reservar
  <2>2. \A q \in Procesos : ~Exento(q)
    BY <2>1 DEF Exento
  <2>3. Reservas'
    BY <1>0, <1>7, ReservasReservar
  <2> QED BY <1>2, <2>1, <2>2, <2>3
<1>8. ASSUME Compactar \/ VaciarHuecos \/ GranHueco \/ CrearTrasCompactar
             \/ \E p \in Procesos, id \in Ids, tam \in Tamanios : CrearSegmento(p, id, tam)
      PROVE  MemInv'
  <2>1. UNCHANGED tablas /\ ks'.fase \notin {"reservar", "traer"}
        /\ ks.fase \in {"libre", "mover", "gran", "crear"}
    <3>1. CASE Compactar
      BY <1>0, <3>1, FaseDelPedido DEF Compactar
    <3>2. CASE VaciarHuecos \/ GranHueco
      BY <1>0, <3>2, FaseDelPaso DEF VaciarHuecos, GranHueco
    <3>3. CASE CrearTrasCompactar
      <4>1. ks.pid \in Procesos /\ ks.id \in Ids /\ ks.tam \in Tamanios
        BY <1>0, <3>3 DEF CrearTrasCompactar, TypeInv, EnCurso
      <4> QED BY <1>0, <3>3, <4>1, FaseDelPedido DEF CrearTrasCompactar, TomarHueco
    <3>4. CASE \E p \in Procesos, id \in Ids, tam \in Tamanios : CrearSegmento(p, id, tam)
      BY <1>0, <3>4, FaseDelPedido DEF CrearSegmento, TomarHueco
    <3> QED BY <1>8, <3>1, <3>2, <3>3, <3>4
  <2>2. \A q \in Procesos : ~Exento(q)
    BY <2>1 DEF Exento
  <2> QED BY <1>2, <2>1, <2>2
<1>9. ASSUME Devolver PROVE MemInv'
  <2>1. /\ UNCHANGED tablas /\ ks'.fase \notin {"reservar", "traer"}
        /\ ks.fase = "devolver" /\ ks'.pid = ks.pid /\ ks'.i = ks.i
        /\ ks'.fase \in {"devolver", "suspender"} \/ ks.i = 0
    BY <1>0, <1>9, FaseDelPaso DEF Devolver
  <2>2. \A q \in Procesos : ~Exento(q)' => ~Exento(q)
    BY <1>1, <2>1 DEF Exento
  <2> QED BY <1>2, <2>1, <2>2
<1>10. ASSUME SuspensionLista PROVE MemInv'
  <2>1. /\ ks'.fase = "libre" /\ suspendidos' = suspendidos \cup {ks.pid} /\ segs' = segs
        /\ procesos' = procesos
    BY <1>0, <1>10, FaseDelPaso DEF SuspensionLista
  <2>2. SinSegmentos'
    BY <1>0, <2>1 DEF SinSegmentos
  <2>3. MemoriaCompleta'
    BY <1>0, <2>1, CompletaSi DEF Exento
  <2> QED BY <1>0, <2>1, <2>2, <2>3, ReservasVacias DEF MemInv
\* Steps that change the segments, of no process in the middle of a suspension.
<1>11. ASSUME ks'.fase \notin {"reservar", "traer"} \/ Reservas', SinSegmentos',
              procesos' \ suspendidos' \subseteq (procesos \ suspendidos)
                \cup {q \in Procesos : segs'[q] = <<>>},
              \A q \in Procesos : ~Exento(q)' => ~Exento(q),
              \A q \in Procesos : \A j \in DOMAIN segs'[q] :
                segs'[q][j].enSwap /\ ~Exento(q)' => \E i \in DOMAIN segs[q] : segs[q][i].enSwap
       PROVE  MemInv'
  <2>1. MemoriaCompleta'
    BY <1>0, <1>11, CompletaSi
  <2> QED BY <1>0, <1>11, <2>1, ReservasVacias DEF MemInv
<1>12. ASSUME NEW p \in Procesos, CrearProceso(p) PROVE MemInv'
  <2>1. /\ ks.fase = "libre" /\ ks' = ks /\ procesos' = procesos \cup {p}
        /\ segs' = [segs EXCEPT ![p] = <<>>] /\ suspendidos' = suspendidos
    BY <1>12 DEF CrearProceso
  <2>2. segs'[p] = <<>> /\ \A q \in Procesos \ {p} : segs'[q] = segs[q]
    BY <1>1, <2>1
  <2>3. SinSegmentos'
    BY <1>0, <2>1, <2>2 DEF SinSegmentos
  <2>4. procesos' \ suspendidos' \subseteq (procesos \ suspendidos)
                \cup {q \in Procesos : segs'[q] = <<>>}
    BY <2>1, <2>2
  <2>5. \A q \in Procesos : ~Exento(q)
    BY <2>1 DEF Exento
  <2>6. \A q \in Procesos : \A j \in DOMAIN segs'[q] :
                segs'[q][j].enSwap => \E i \in DOMAIN segs[q] : segs[q][i].enSwap
    BY <2>2
  <2> QED BY <1>11, <2>1, <2>3, <2>4, <2>5, <2>6
<1>13. ASSUME NEW p \in Procesos, FinalizarProceso(p) PROVE MemInv'
  <2>1. /\ ks.fase = "libre" /\ procesos' = procesos \ {p} /\ suspendidos' = suspendidos \ {p}
        /\ segs' = [segs EXCEPT ![p] = <<>>] /\ ks'.fase \notin {"reservar", "traer"}
    BY <1>0, <1>13, FaseDelPedido DEF FinalizarProceso
  <2>2. segs'[p] = <<>> /\ \A q \in Procesos \ {p} : segs'[q] = segs[q]
    BY <1>1, <2>1
  <2>3. SinSegmentos'
    BY <1>0, <2>1, <2>2 DEF SinSegmentos
  <2>5. \A q \in Procesos : ~Exento(q)
    BY <2>1 DEF Exento
  <2>6. \A q \in Procesos : \A j \in DOMAIN segs'[q] :
                segs'[q][j].enSwap => \E i \in DOMAIN segs[q] : segs[q][i].enSwap
    BY <2>2
  <2>7. procesos' \ suspendidos' \subseteq procesos \ suspendidos
    BY <2>1
  <2> QED BY <1>11, <2>1, <2>3, <2>5, <2>6, <2>7
<1>14. ASSUME NEW p \in Procesos, NEW i \in DOMAIN segs[p], EliminarSegmento(p, i) PROVE MemInv'
  <2>1. /\ ks.fase = "libre" /\ p \in procesos /\ UNCHANGED <<procesos, suspendidos>>
        /\ segs' = [segs EXCEPT ![p] = RemoveAt(segs[p], i)]
        /\ ks'.fase \notin {"reservar", "traer"}
    BY <1>0, <1>14, FaseDelPedido DEF EliminarSegmento, Corre
  <2>2. segs'[p] = RemoveAt(segs[p], i) /\ \A q \in Procesos \ {p} : segs'[q] = segs[q]
    BY <1>1, <2>1
  <2>3. \A j \in DOMAIN segs'[p] : \E k \in DOMAIN segs[p] : segs'[p][j] = segs[p][k]
    BY <1>1, <2>2, QuitarDeLaTabla
  <2>4. SinSegmentos'
    BY <1>0, <2>1, <2>2 DEF SinSegmentos
  <2>5. \A q \in Procesos : ~Exento(q)
    BY <2>1 DEF Exento
  <2>6. \A q \in Procesos : \A j \in DOMAIN segs'[q] :
                segs'[q][j].enSwap => \E k \in DOMAIN segs[q] : segs[q][k].enSwap
    BY <2>2, <2>3
  <2> QED BY <1>11, <2>1, <2>4, <2>5, <2>6
<1>15. ASSUME Registrar PROVE MemInv'
  <2>1. /\ ks.fase = "registrar" /\ ks'.fase = "libre" /\ UNCHANGED <<procesos, suspendidos>>
    BY <1>0, <1>15, FaseDelPaso DEF Registrar
  <2>2. \A q \in Procesos : ~Exento(q)
    BY <2>1 DEF Exento
  <2>3. CASE ks.pid \in procesos
    <3>1. PICK s : s = [id |-> ks.id, base |-> ks.base, tam |-> ks.tam, enSwap |-> FALSE,
                        bloque |-> MaxBit]
      OBVIOUS
    <3>2. ~s.enSwap
      BY <3>1
    <3>3. segs' = [segs EXCEPT ![ks.pid] = Append(segs[ks.pid], s)] /\ ks.pid \in Procesos
      BY <1>0, <1>15, <2>3, <3>1, TypeOKPartes DEF Registrar, TypeInv, TiposDeTablas
    <3>4. /\ segs'[ks.pid] = Append(segs[ks.pid], s)
          /\ \A q \in Procesos \ {ks.pid} : segs'[q] = segs[q]
      BY <1>1, <3>3
    <3>5. \A j \in DOMAIN segs'[ks.pid] :
            segs'[ks.pid][j] = s \/ (j \in DOMAIN segs[ks.pid] /\ segs'[ks.pid][j] = segs[ks.pid][j])
      <4>1. segs[ks.pid] \in Seq(Segmento)
        BY <1>1, <3>3
      <4> QED BY <3>4, <4>1, AgregarALaTabla
    <3>6. \A q \in Procesos : \A j \in DOMAIN segs'[q] :
                segs'[q][j].enSwap => \E k \in DOMAIN segs[q] : segs[q][k].enSwap
      BY <3>2, <3>4, <3>5
    <3>7. SinSegmentos'
      BY <1>0, <2>1, <2>3, <3>4 DEF SinSegmentos
    <3> QED BY <1>11, <2>1, <2>2, <3>6, <3>7
  <2>4. CASE ks.pid \notin procesos
    <3>1. UNCHANGED tablas
      BY <1>15, <2>1, <2>4 DEF Registrar, tablas
    <3> QED BY <1>2, <2>1, <2>2, <3>1
  <2> QED BY <2>3, <2>4
<1>16. ASSUME Mover PROVE MemInv'
  <2>1. /\ ks.fase = "mover" /\ ks'.fase = "mover" /\ UNCHANGED <<procesos, suspendidos>>
        /\ ks.cola # <<>>
    BY <1>0, <1>16, FaseDelPaso DEF Mover
  <2>2. \A q \in Procesos : ~Exento(q)
    BY <2>1 DEF Exento
  <2>3. PICK s : s = Head(ks.cola)
    OBVIOUS
  <2>4. s.pid \in Procesos /\ s.i \in DOMAIN segs[s.pid] /\ segs[s.pid][s.i] \in Segmento
        /\ ks.base \in Nat
    BY <1>0, <1>1, <2>1, <2>3, PrimeroDeLaCola, Tipos DEF TypeInv, Indices
  <2>5. CASE segs' = segs
    BY <1>2, <2>1, <2>2, <2>5 DEF tablas
  <2>6. CASE segs' # segs
    <3>1. PICK m : m = [segs[s.pid][s.i] EXCEPT !.base = ks.base]
      OBVIOUS
    <3>2. segs' = ConSegmento(s.pid, s.i, m)
      BY <1>16, <2>3, <2>6, <3>1 DEF Mover
    <3>3. m \in Segmento /\ m.enSwap = segs[s.pid][s.i].enSwap
      BY <2>4, <3>1 DEF Segmento
    <3>4. /\ \A q \in Procesos : \A j \in DOMAIN segs'[q] :
               segs'[q][j].enSwap => \E k \in DOMAIN segs[q] : segs[q][k].enSwap
          /\ SinSegmentos'
      BY <1>0, <2>1, <2>4, <3>2, <3>3, SegmentosQuedan
    <3> QED BY <1>11, <2>1, <2>2, <3>4
  <2> QED BY <2>5, <2>6
<1>17. ASSUME SuspenderSegmento PROVE MemInv'
  <2>0. PICK s : s = segs[ks.pid][ks.i]
    OBVIOUS
  <2>1. /\ ks.fase = "suspender" /\ ks'.fase \in {"suspender", "devolver"} /\ ks'.pid = ks.pid
        /\ ks'.i \in Nat \ {0} /\ UNCHANGED <<procesos, suspendidos>> /\ ks.i \in Nat \ {0}
        /\ ks.i \in DOMAIN segs[ks.pid] /\ ks.pid \in Procesos /\ ks.pid \in procesos
    BY <1>0, <1>17, <2>0, FaseDelPaso, SuspenderSegmentoEs
  <2>2. \A q \in Procesos : Exento(q)' <=> q = ks.pid
    BY <2>1 DEF Exento
  <2>3. \A q \in Procesos : ~Exento(q)' => ~Exento(q)
    BY <2>2 DEF Exento
  <2>4. \A q \in Procesos \ {ks.pid} : segs'[q] = segs[q]
    <3>1. segs' = segs \/ \E m : segs' = ConSegmento(ks.pid, ks.i, m)
      BY <1>0, <1>17, <2>0, SuspenderSegmentoEs
    <3> QED BY <1>1, <3>1 DEF ConSegmento
  <2>5. SinSegmentos'
    BY <1>0, <2>1, <2>4 DEF SinSegmentos
  <2> QED BY <1>11, <2>1, <2>2, <2>3, <2>4, <2>5
<1>18. ASSUME Traer PROVE MemInv'
  <2>1. /\ ks.fase = "traer" /\ procesos' = procesos /\ ks.pid \in Procesos
        /\ ks.pid \in suspendidos
    BY <1>0, <1>18, TraerEs
  <2>2. \A q \in Procesos : ~Exento(q)
    BY <2>1 DEF Exento
  <2>3. Reservas'
    BY <1>0, <1>18, ReservasTraer
  <2>4. CASE ks.cola = <<>> /\ suspendidos' = suspendidos \ {ks.pid} /\ ks' = Ocioso /\ segs' = segs
    <3>1. \A i \in DOMAIN segs[ks.pid] : ~segs[ks.pid][i].enSwap
      BY <1>0, <2>1, <2>4 DEF Reservas
    <3>2. SinSegmentos'
      BY <1>0, <2>1, <2>4 DEF SinSegmentos
    <3>3. MemoriaCompleta'
      BY <1>0, <2>1, <2>2, <2>4, <3>1, CompletaSi
    <3> QED BY <1>0, <2>3, <3>2, <3>3 DEF MemInv
  <2>5. CASE UNCHANGED <<ks, segs, suspendidos>>
    BY <1>3, <2>1, <2>5 DEF tablas
  <2>6. ASSUME ks.cola[1].pid \in Procesos, ks.cola[1].i \in DOMAIN segs[ks.cola[1].pid],
               suspendidos' = suspendidos, NEW m \in Segmento, ~m.enSwap,
               segs' = ConSegmento(ks.cola[1].pid, ks.cola[1].i, m)
        PROVE  MemInv'
    <3>1. /\ \A q \in Procesos : \A j \in DOMAIN segs'[q] :
               segs'[q][j].enSwap => \E k \in DOMAIN segs[q] : segs[q][k].enSwap
          /\ SinSegmentos'
      BY <1>0, <2>1, <2>6, SegmentosQuedan
    <3> QED BY <1>11, <2>1, <2>2, <2>3, <2>6, <3>1
  <2> QED BY <1>0, <1>18, <2>4, <2>5, <2>6, TraerEs
<1> QED BY <1>4, <1>5, <1>6, <1>7, <1>8, <1>9, <1>10, <1>12, <1>13, <1>14, <1>15, <1>16, <1>17,
        <1>18
     DEF Next, Pedido, PasoKS

LEMMA MemInicial == ASSUME KernelMemoryAssumption, Init PROVE MemInv
<1>1. TypeInv
  BY TipoInicial
<1>2. ks.fase = "libre"
  BY OciosoTipado DEF Init
<1>3. Reservas
  BY <1>2 DEF Reservas
<1>4. SinSegmentos /\ procesos = {}
  BY DEF SinSegmentos, Init
<1>5. MemoriaCompleta
  BY <1>4 DEF MemoriaCompleta
<1> QED BY <1>1, <1>3, <1>4, <1>5 DEF MemInv

\* A process that is not suspended, nor in the middle of it, has every segment in memory: a
\* desuspension that started reserved a hole for each segment in swap, and it ends only when
\* it has brought back every one (desuspender_proceso_memoria).
THEOREM DesuspensionEntera == Spec => []MemoriaCompleta
<1>1. Init => MemInv
  BY KernelMemoryAssumption, MemInicial
<1>2. MemInv /\ [Next]_vars => MemInv'
  BY KernelMemoryAssumption, MemPaso
<1>3. MemInv => MemoriaCompleta
  BY DEF MemInv
<1> QED BY <1>1, <1>2, <1>3, PTL DEF Spec

-----------------------------------------------------------------------------
(* The bitmap of swap.                                                     *)

SwapInv == MemInv /\ EnSwapOK

\* Who uses a block, process by process and index by index; the same after a step.
LEMMA UsaEs ==
  ASSUME TypeInv, NEW b, NEW x
  PROVE  Usa(b, x) <=> \E p \in Procesos : \E i \in DOMAIN segs[p] :
                         x = <<p, i>> /\ segs[p][i].enSwap /\ b \in BloquesDe(segs[p][i])
<1>1. segs \in [Procesos -> Seq(Segmento)]
  BY Tipos DEF TypeInv
<1>2. ASSUME Usa(b, x)
      PROVE  \E p \in Procesos : \E i \in DOMAIN segs[p] :
                         x = <<p, i>> /\ segs[p][i].enSwap /\ b \in BloquesDe(segs[p][i])
  <2>1. x \in EnTabla /\ segs[x[1]][x[2]].enSwap /\ b \in BloquesDe(segs[x[1]][x[2]])
    BY <1>2 DEF Usa
  <2>2. x[1] \in Procesos /\ x[2] \in DOMAIN segs[x[1]] /\ x = <<x[1], x[2]>>
    BY <1>1, <2>1, EnTablaTipo
  <2> QED BY <2>1, <2>2
<1>3. ASSUME NEW p \in Procesos, NEW i \in DOMAIN segs[p], x = <<p, i>>, segs[p][i].enSwap,
             b \in BloquesDe(segs[p][i])
      PROVE  Usa(b, x)
  <2>1. x \in EnTabla /\ x[1] = p /\ x[2] = i
    BY <1>1, <1>3, EnTablaEs
  <2> QED BY <1>3, <2>1 DEF Usa
<1> QED BY <1>2, <1>3

LEMMA UsaPrima ==
  ASSUME TypeInv', NEW b, NEW x
  PROVE  Usa(b, x)' <=> \E p \in Procesos : \E i \in DOMAIN segs'[p] :
                          x = <<p, i>> /\ segs'[p][i].enSwap /\ b \in BloquesDe(segs'[p][i])
<1>1. \A z : (z \in EnTabla)' <=> \E p \in Procesos : \E i \in DOMAIN segs'[p] : z = <<p, i>>
  BY DEF EnTabla
<1> QED BY <1>1 DEF Usa, BloquesDe

\* Nothing changes for the blocks when every segment in swap stays where it was.
LEMMA SwapQuieto ==
  ASSUME TypeInv, TypeInv', EnSwapOK, bloques' = bloques, sinDuenio' = sinDuenio,
         \A p \in Procesos : \A i \in DOMAIN segs[p] \cup DOMAIN segs'[p] :
           \/ i \in DOMAIN segs[p] /\ i \in DOMAIN segs'[p]
              /\ segs'[p][i].enSwap = segs[p][i].enSwap
              /\ segs'[p][i].bloque = segs[p][i].bloque /\ segs'[p][i].tam = segs[p][i].tam
           \/ /\ i \in DOMAIN segs[p] => ~segs[p][i].enSwap
              /\ i \in DOMAIN segs'[p] => ~segs'[p][i].enSwap
  PROVE  EnSwapOK'
<1>1. \A b, x : Usa(b, x)' <=> Usa(b, x)
  <2> SUFFICES ASSUME NEW b, NEW x PROVE Usa(b, x)' <=> Usa(b, x)
    OBVIOUS
  <2>1. ASSUME NEW p \in Procesos, NEW i \in DOMAIN segs[p], segs[p][i].enSwap,
               b \in BloquesDe(segs[p][i])
        PROVE  i \in DOMAIN segs'[p] /\ segs'[p][i].enSwap /\ b \in BloquesDe(segs'[p][i])
    BY <2>1 DEF BloquesDe
  <2>2. ASSUME NEW p \in Procesos, NEW i \in DOMAIN segs'[p], segs'[p][i].enSwap,
               b \in BloquesDe(segs'[p][i])
        PROVE  i \in DOMAIN segs[p] /\ segs[p][i].enSwap /\ b \in BloquesDe(segs[p][i])
    BY <2>2 DEF BloquesDe
  <2> QED BY <2>1, <2>2, UsaEs, UsaPrima
<1> QED BY <1>1, Zenon DEF EnSwapOK, Bloque

\* A step that leaves the tables of segments and the bitmap.
LEMMA SwapIgual ==
  ASSUME EnSwapOK, UNCHANGED <<segs, bloques, sinDuenio>> PROVE EnSwapOK'
<1>1. \A b, x : Usa(b, x)' <=> Usa(b, x)
  BY Zenon DEF Usa, EnTabla, BloquesDe
<1>2. bloques' = bloques /\ sinDuenio' = sinDuenio
  OBVIOUS
<1> QED BY <1>1, <1>2, Zenon DEF EnSwapOK, Bloque

\* A segment less, which was in memory: those behind it go one place forward.
LEMMA SwapEliminar ==
  ASSUME KernelMemoryAssumption, SwapInv, TypeInv', NEW p \in Procesos, NEW i \in DOMAIN segs[p],
         EliminarSegmento(p, i)
  PROVE  EnSwapOK'
<1>1. segs \in [Procesos -> Seq(Segmento)] /\ TypeInv /\ segs[p] \in Seq(Segmento)
  BY Tipos DEF SwapInv, MemInv, TypeInv
<1>2. /\ segs' = [segs EXCEPT ![p] = RemoveAt(segs[p], i)] /\ ks.fase = "libre"
      /\ p \in procesos \ suspendidos /\ bloques' = bloques /\ sinDuenio' = sinDuenio
  BY DEF EliminarSegmento, Corre, swap, historia
<1>3. ~segs[p][i].enSwap
  BY <1>1, <1>2, CompletaEs DEF SwapInv, MemInv, Exento
<1>4. PICK n \in Nat : n = Len(segs[p]) /\ DOMAIN segs[p] = 1 .. n
  BY <1>1, LenProperties
<1>5. /\ \A q \in Procesos \ {p} : segs'[q] = segs[q]
      /\ DOMAIN segs'[p] = 1 .. n - 1 /\ i \in 1 .. n
      /\ \A k \in 1 .. i - 1 : segs'[p][k] = segs[p][k]
      /\ \A k \in i .. n - 1 : segs'[p][k] = segs[p][k + 1]
  <2>1. segs'[p] = RemoveAt(segs[p], i) /\ \A q \in Procesos \ {p} : segs'[q] = segs[q]
    BY <1>1, <1>2
  <2>2. /\ DOMAIN RemoveAt(segs[p], i) = 1 .. n - 1
        /\ \A k \in 1 .. i - 1 : RemoveAt(segs[p], i)[k] = segs[p][k]
        /\ \A k \in i .. n - 1 : RemoveAt(segs[p], i)[k] = segs[p][k + 1]
    <3>1. PICK w \in Seq(Segmento) : w = segs[p]
      BY <1>1
    <3>2. i \in DOMAIN w /\ n = Len(w)
      BY <1>4, <3>1
    <3>3. /\ DOMAIN RemoveAt(w, i) = 1 .. n - 1
          /\ \A k \in 1 .. i - 1 : RemoveAt(w, i)[k] = w[k]
          /\ \A k \in i .. n - 1 : RemoveAt(w, i)[k] = w[k + 1]
      BY <3>2, QuitarUno
    <3> QED BY <3>1, <3>3
  <2> QED BY <1>4, <2>1, <2>2
<1> DEFINE de(x) == IF x[1] = p /\ x[2] >= i THEN <<p, x[2] + 1>> ELSE x
\* Where a segment in swap is now, and where it was.
<1>6. ASSUME NEW b, NEW x, Usa(b, x)' PROVE Usa(b, de(x)) /\ x[2] \in Nat /\ x = <<x[1], x[2]>>
  <2>1. PICK q \in Procesos : \E k \in DOMAIN segs'[q] :
          x = <<q, k>> /\ segs'[q][k].enSwap /\ b \in BloquesDe(segs'[q][k])
    BY <1>6, UsaPrima
  <2>2. PICK k \in DOMAIN segs'[q] :
          x = <<q, k>> /\ segs'[q][k].enSwap /\ b \in BloquesDe(segs'[q][k])
    BY <2>1
  <2>3. CASE q # p
    <3>1. k \in DOMAIN segs[q] /\ segs'[q][k] = segs[q][k] /\ segs[q] \in Seq(Segmento)
      BY <1>1, <1>5, <2>2, <2>3
    <3>2. k \in Nat /\ de(x) = x
      BY <2>2, <2>3, <3>1
    <3> QED BY <1>1, <2>2, <3>1, <3>2, UsaEs
  <2>4. CASE q = p /\ k < i
    <3>1. k \in 1 .. i - 1 /\ k \in DOMAIN segs[p]
      BY <1>4, <1>5, <2>2, <2>4
    <3>2. de(x) = x /\ segs'[p][k] = segs[p][k]
      BY <1>5, <2>2, <2>4, <3>1
    <3> QED BY <1>1, <2>2, <2>4, <3>1, <3>2, UsaEs
  <2>5. CASE q = p /\ k >= i
    <3>1. k \in i .. n - 1 /\ k + 1 \in DOMAIN segs[p]
      BY <1>4, <1>5, <2>2, <2>5
    <3>2. de(x) = <<p, k + 1>> /\ segs'[p][k] = segs[p][k + 1]
      BY <1>5, <2>2, <2>5, <3>1
    <3> QED BY <1>1, <2>2, <2>5, <3>1, <3>2, UsaEs
  <2>6. q = p => k < i \/ k >= i
    BY <1>4, <1>5, <2>2
  <2> QED BY <2>3, <2>4, <2>5, <2>6
<1>7. ASSUME NEW b, NEW y, Usa(b, y) PROVE \E x : Usa(b, x)'
  <2>1. PICK q \in Procesos : \E k \in DOMAIN segs[q] :
          y = <<q, k>> /\ segs[q][k].enSwap /\ b \in BloquesDe(segs[q][k])
    BY <1>1, <1>7, UsaEs
  <2>2. PICK k \in DOMAIN segs[q] :
          y = <<q, k>> /\ segs[q][k].enSwap /\ b \in BloquesDe(segs[q][k])
    BY <2>1
  <2>3. CASE q # p
    <3>1. k \in DOMAIN segs'[q] /\ segs'[q][k] = segs[q][k]
      BY <1>5, <2>2, <2>3
    <3>2. Usa(b, <<q, k>>)'
      BY <2>2, <3>1, UsaPrima
    <3> QED BY <3>2
  <2>4. CASE q = p /\ k < i
    <3>1. k \in 1 .. i - 1 /\ k \in DOMAIN segs'[p]
      BY <1>4, <1>5, <2>2, <2>4
    <3>2. segs'[p][k] = segs[p][k]
      BY <1>5, <3>1
    <3>3. Usa(b, <<p, k>>)'
      BY <2>2, <2>4, <3>1, <3>2, UsaPrima
    <3> QED BY <3>3
  <2>5. CASE q = p /\ k > i
    <3>1. PICK j \in Nat : j = k - 1
      BY <1>4, <1>5, <2>2, <2>5
    <3>2. j \in i .. n - 1 /\ j \in DOMAIN segs'[p] /\ j + 1 = k
      BY <1>4, <1>5, <2>2, <2>5, <3>1
    <3>3. segs'[p][j] = segs[p][k]
      BY <1>5, <3>2
    <3>4. Usa(b, <<p, j>>)'
      BY <2>2, <2>5, <3>2, <3>3, UsaPrima
    <3> QED BY <3>4
  <2>6. q = p => k # i
    BY <1>3, <2>2
  <2>7. q = p => k < i \/ k = i \/ k > i
    BY <1>4, <1>5, <2>2
  <2> QED BY <2>3, <2>4, <2>5, <2>6, <2>7
<1> HIDE DEF de
<1>8. ASSUME NEW x, NEW y, x = <<x[1], x[2]>>, y = <<y[1], y[2]>>,
             x[2] \in Nat, y[2] \in Nat, de(x) = de(y)
      PROVE  x = y
  <2>1. i \in Nat
    BY <1>4, <1>5
  <2>2. ASSUME NEW z, z = <<z[1], z[2]>>
        PROVE  de(z)[1] = z[1] /\ de(z)[2] = IF z[1] = p /\ z[2] >= i THEN z[2] + 1 ELSE z[2]
    BY <2>2 DEF de
  <2>3. x[1] = y[1]
    BY <1>8, <2>2
  <2>4. (IF x[1] = p /\ x[2] >= i THEN x[2] + 1 ELSE x[2])
          = (IF y[1] = p /\ y[2] >= i THEN y[2] + 1 ELSE y[2])
    <3>1. de(x)[2] = IF x[1] = p /\ x[2] >= i THEN x[2] + 1 ELSE x[2]
      BY <1>8, <2>2
    <3>2. de(y)[2] = IF y[1] = p /\ y[2] >= i THEN y[2] + 1 ELSE y[2]
      BY <1>8, <2>2
    <3>3. de(x)[2] = de(y)[2]
      BY <1>8
    <3> QED BY <3>1, <3>2, <3>3
  <2>5. x[2] = y[2]
    BY <1>8, <2>1, <2>3, <2>4
  <2> QED BY <1>8, <2>3, <2>5
<1> SUFFICES ASSUME NEW b \in Bits PROVE Bloque(b)'
  BY DEF EnSwapOK
<1>9. Bloque(b)
  BY DEF SwapInv, EnSwapOK
<1>10. \A x, y : Usa(b, x)' /\ Usa(b, y)' => x = y
  BY <1>6, <1>8, <1>9 DEF Bloque
<1>11. (\E x : Usa(b, x)') <=> \E y : Usa(b, y)
  BY <1>6, <1>7
<1> QED BY <1>2, <1>9, <1>10, <1>11 DEF Bloque

\* A segment goes to a run of free blocks.
LEMMA SwapSuspender ==
  ASSUME KernelMemoryAssumption, SwapInv, TypeInv', SuspenderSegmento PROVE EnSwapOK'
<1>0. PICK s : s = segs[ks.pid][ks.i]
  OBVIOUS
<1>1. /\ ks.i \in DOMAIN segs[ks.pid] /\ ks.pid \in Procesos /\ s \in Segmento /\ TypeInv
      /\ segs \in [Procesos -> Seq(Segmento)] /\ sinDuenio' = sinDuenio
      /\ BloquesNecesarios(s.tam) \in Nat \ {0} /\ EnSwapOK
  BY <1>0, SuspenderSegmentoEs, Tipos DEF SwapInv, MemInv, TypeInv
<1>2. CASE UNCHANGED <<segs, swap>>
  BY <1>1, <1>2, SwapIgual DEF swap
<1>3. ASSUME ~s.enSwap, NEW b0 \in LibresEnSwap(BloquesNecesarios(s.tam)),
             bloques' = bloques \cup (b0 .. b0 + BloquesNecesarios(s.tam) - 1),
             segs' = ConSegmento(ks.pid, ks.i, [s EXCEPT !.enSwap = TRUE, !.base = 0,
                                                         !.bloque = b0])
      PROVE  EnSwapOK'
  <2>1. PICK n \in Nat \ {0} : n = BloquesNecesarios(s.tam)
    BY <1>1
  <2>2. /\ b0 \in Bits /\ b0 + n <= MaxBit
        /\ \A b \in b0 .. b0 + n - 1 : b \notin bloques
    BY <1>3, <2>1, LibresSon
  <2>3. PICK m : m = [s EXCEPT !.enSwap = TRUE, !.base = 0, !.bloque = b0]
    OBVIOUS
  <2>4. m \in Segmento /\ m.enSwap /\ m.bloque = b0 /\ m.tam = s.tam
    BY <1>1, <2>2, <2>3 DEF Segmento, Bits
  <2>5a. PICK p \in Procesos : p = ks.pid
    BY <1>1
  <2>5b. PICK i : i = ks.i
    OBVIOUS
  <2>5. p = ks.pid /\ i = ks.i
    BY <2>5a, <2>5b
  <2>6. segs' = ConSegmento(p, i, m) /\ i \in DOMAIN segs[p] /\ ~segs[p][i].enSwap
    BY <1>0, <1>1, <1>3, <2>3, <2>5
  <2>7. /\ \A q \in Procesos : DOMAIN segs'[q] = DOMAIN segs[q]
        /\ segs'[p][i] = m
        /\ \A q \in Procesos : \A j \in DOMAIN segs[q] :
             q # p \/ j # i => segs'[q][j] = segs[q][j]
    <3>1. segs \in [Procesos -> Seq(Segmento)] /\ m \in Segmento
      BY <1>1, <2>4
    <3>2. segs' = ConSegmento(p, i, m) /\ i \in DOMAIN segs[p]
      BY <2>6
    <3> QED BY <3>1, <3>2, ConSegmentoEs
  <2>8. \A b : b \in BloquesDe(m) <=> b \in b0 .. b0 + n - 1
    BY <2>1, <2>4 DEF BloquesDe
  <2>9. \A b, x : Usa(b, x)' <=> Usa(b, x) \/ (x = <<p, i>> /\ b \in b0 .. b0 + n - 1)
    <3> SUFFICES ASSUME NEW b, NEW x
                 PROVE  Usa(b, x)' <=> Usa(b, x) \/ (x = <<p, i>> /\ b \in b0 .. b0 + n - 1)
      OBVIOUS
    <3>1. ASSUME Usa(b, x) PROVE Usa(b, x)'
      <4>1. PICK q \in Procesos : \E j \in DOMAIN segs[q] :
              x = <<q, j>> /\ segs[q][j].enSwap /\ b \in BloquesDe(segs[q][j])
        BY <1>1, <3>1, UsaEs
      <4>2. PICK j \in DOMAIN segs[q] :
              x = <<q, j>> /\ segs[q][j].enSwap /\ b \in BloquesDe(segs[q][j])
        BY <4>1
      <4>3. j \in DOMAIN segs'[q] /\ segs'[q][j] = segs[q][j]
        BY <2>6, <2>7, <4>2
      <4> QED BY <4>2, <4>3, UsaPrima
    <3>2. ASSUME x = <<p, i>>, b \in b0 .. b0 + n - 1 PROVE Usa(b, x)'
      <4>1. i \in DOMAIN segs'[p] /\ segs'[p][i].enSwap /\ b \in BloquesDe(segs'[p][i])
        BY <2>4, <2>6, <2>7, <2>8, <3>2
      <4> QED BY <3>2, <4>1, UsaPrima
    <3>3. ASSUME Usa(b, x)' PROVE Usa(b, x) \/ (x = <<p, i>> /\ b \in b0 .. b0 + n - 1)
      <4>1. PICK q \in Procesos : \E j \in DOMAIN segs'[q] :
              x = <<q, j>> /\ segs'[q][j].enSwap /\ b \in BloquesDe(segs'[q][j])
        BY <3>3, UsaPrima
      <4>2. PICK j \in DOMAIN segs'[q] :
              x = <<q, j>> /\ segs'[q][j].enSwap /\ b \in BloquesDe(segs'[q][j])
        BY <4>1
      <4>3. CASE q = p /\ j = i
        BY <2>7, <2>8, <4>2, <4>3
      <4>4. CASE q # p \/ j # i
        <5>1. j \in DOMAIN segs[q] /\ segs'[q][j] = segs[q][j]
          BY <2>7, <4>2, <4>4
        <5> QED BY <1>1, <4>2, <5>1, UsaEs
      <4> QED BY <4>3, <4>4
    <3> QED BY <3>1, <3>2, <3>3
  <2>10. bloques' = bloques \cup (b0 .. b0 + n - 1)
    BY <1>3, <2>1
  <2> SUFFICES ASSUME NEW b \in Bits PROVE Bloque(b)'
    BY DEF EnSwapOK
  <2>11. Bloque(b)
    BY <1>1 DEF EnSwapOK
  <2>12. b \in b0 .. b0 + n - 1 => b \notin sinDuenio /\ \A x : ~Usa(b, x)
    BY <2>2, <2>11 DEF Bloque
  <2> QED BY <1>1, <2>9, <2>10, <2>11, <2>12 DEF Bloque
<1>4. \/ UNCHANGED <<segs, swap>>
      \/ /\ ~s.enSwap
         /\ \E b0 \in LibresEnSwap(BloquesNecesarios(s.tam)) :
              /\ bloques' = bloques \cup (b0 .. b0 + BloquesNecesarios(s.tam) - 1)
              /\ segs' = ConSegmento(ks.pid, ks.i, [s EXCEPT !.enSwap = TRUE, !.base = 0,
                                                             !.bloque = b0])
  <2>1. TypeInv
    BY <1>1
  <2> QED BY <1>0, <2>1, SuspenderSegmentoEs, Zenon
<1> QED BY <1>2, <1>3, <1>4, Zenon

\* A segment comes back: its blocks are of nobody.
LEMMA SwapTraer ==
  ASSUME KernelMemoryAssumption, SwapInv, TypeInv', Traer PROVE EnSwapOK'
<1>1. /\ TypeInv /\ EnSwapOK /\ Reservas /\ segs \in [Procesos -> Seq(Segmento)]
      /\ ks.fase = "traer" /\ sinDuenio' = sinDuenio
  BY TraerEs, Tipos DEF SwapInv, MemInv, TypeInv
<1>2. CASE UNCHANGED <<segs, swap>>
  BY <1>1, <1>2, SwapIgual DEF swap
<1>3. ASSUME ks.cola # <<>>, NEW p \in Procesos, NEW i \in DOMAIN segs[p],
             p = ks.cola[1].pid, i = ks.cola[1].i,
             NEW m \in Segmento, ~m.enSwap, segs' = ConSegmento(p, i, m),
             bloques' = bloques \ BloquesDe(segs[p][i])
      PROVE  EnSwapOK'
  <2>1. /\ \A q \in Procesos : DOMAIN segs'[q] = DOMAIN segs[q]
        /\ segs'[p][i] = m
        /\ \A q \in Procesos : \A j \in DOMAIN segs[q] :
             q # p \/ j # i => segs'[q][j] = segs[q][j]
    BY <1>1, <1>3, ConSegmentoEs
  <2>2. segs[p][i].enSwap
    <3>1. 1 \in DOMAIN ks.cola
      BY <1>1, <1>3, PrimeroDeLaCola, Tipos DEF TypeInv
    <3> QED BY <1>1, <1>3, <3>1 DEF Reservas
  <2>3. \A b, x : Usa(b, x)' <=> Usa(b, x) /\ x # <<p, i>>
    <3> SUFFICES ASSUME NEW b, NEW x PROVE Usa(b, x)' <=> Usa(b, x) /\ x # <<p, i>>
      OBVIOUS
    <3>1. ASSUME Usa(b, x), x # <<p, i>> PROVE Usa(b, x)'
      <4>1. PICK q \in Procesos : \E j \in DOMAIN segs[q] :
              x = <<q, j>> /\ segs[q][j].enSwap /\ b \in BloquesDe(segs[q][j])
        BY <1>1, <3>1, UsaEs
      <4>2. PICK j \in DOMAIN segs[q] :
              x = <<q, j>> /\ segs[q][j].enSwap /\ b \in BloquesDe(segs[q][j])
        BY <4>1
      <4>3. j \in DOMAIN segs'[q] /\ segs'[q][j] = segs[q][j]
        BY <2>1, <3>1, <4>2
      <4> QED BY <4>2, <4>3, UsaPrima
    <3>2. ASSUME Usa(b, x)' PROVE Usa(b, x) /\ x # <<p, i>>
      <4>1. PICK q \in Procesos : \E j \in DOMAIN segs'[q] :
              x = <<q, j>> /\ segs'[q][j].enSwap /\ b \in BloquesDe(segs'[q][j])
        BY <3>2, UsaPrima
      <4>2. PICK j \in DOMAIN segs'[q] :
              x = <<q, j>> /\ segs'[q][j].enSwap /\ b \in BloquesDe(segs'[q][j])
        BY <4>1
      <4>3. q # p \/ j # i
        <5>1. ~segs'[p][i].enSwap
          BY <1>3, <2>1
        <5> QED BY <4>2, <5>1
      <4>4. j \in DOMAIN segs[q] /\ segs'[q][j] = segs[q][j]
        BY <2>1, <4>2, <4>3
      <4> QED BY <1>1, <4>2, <4>3, <4>4, UsaEs
    <3> QED BY <3>1, <3>2
  <2>4. \A b : b \in BloquesDe(segs[p][i]) <=> Usa(b, <<p, i>>)
    <3>1. \A b : b \in BloquesDe(segs[p][i]) => Usa(b, <<p, i>>)
      BY <1>1, <2>2, UsaEs
    <3>2. \A b : Usa(b, <<p, i>>) => b \in BloquesDe(segs[p][i])
      BY DEF Usa
    <3> QED BY <3>1, <3>2
  <2> SUFFICES ASSUME NEW b \in Bits PROVE Bloque(b)'
    BY DEF EnSwapOK
  <2>5. Bloque(b)
    BY <1>1 DEF EnSwapOK
  <2>6. b \in bloques' <=> b \in bloques /\ ~Usa(b, <<p, i>>)
    BY <1>3, <2>4
  <2> QED BY <1>1, <2>3, <2>5, <2>6 DEF Bloque
<1>4. CASE ks.cola # <<>> /\ ~(UNCHANGED <<segs, swap>>)
  <2>1. PICK s \in Segmento, m \in Segmento :
          /\ s = segs[ks.cola[1].pid][ks.cola[1].i] /\ ~m.enSwap
          /\ segs' = ConSegmento(ks.cola[1].pid, ks.cola[1].i, m)
          /\ bloques' = bloques \ BloquesDe(s)
          /\ ks.cola[1].pid \in Procesos /\ ks.cola[1].i \in DOMAIN segs[ks.cola[1].pid]
    BY <1>1, <1>4, TraerEs
  <2>2a. PICK p \in Procesos : p = ks.cola[1].pid
    BY <2>1
  <2>2b. PICK i : i = ks.cola[1].i
    OBVIOUS
  <2>2. p = ks.cola[1].pid /\ i = ks.cola[1].i
    BY <2>2a, <2>2b
  <2> QED BY <1>3, <1>4, <2>1, <2>2
<1>5. ks.cola = <<>> => UNCHANGED <<segs, swap>>
  BY DEF Traer
<1> QED BY <1>2, <1>4, <1>5

\* A process ends: nobody clears the bits of the blocks it had.
LEMMA SwapFinalizar ==
  ASSUME KernelMemoryAssumption, SwapInv, TypeInv', NEW p \in Procesos, FinalizarProceso(p)
  PROVE  EnSwapOK'
<1>1. TypeInv /\ EnSwapOK /\ segs \in [Procesos -> Seq(Segmento)]
  BY Tipos DEF SwapInv, MemInv, TypeInv
<1>2. /\ segs' = [segs EXCEPT ![p] = <<>>] /\ bloques' = bloques
      /\ sinDuenio' = sinDuenio \cup
           UNION {BloquesDe(s) : s \in {segs[p][i] : i \in {j \in DOMAIN segs[p] :
                                                              segs[p][j].enSwap}}}
  BY DEF FinalizarProceso, swap
<1>3. \A b : b \in sinDuenio' <=> \/ b \in sinDuenio
                                  \/ \E i \in DOMAIN segs[p] : segs[p][i].enSwap
                                                               /\ b \in BloquesDe(segs[p][i])
  <2> HIDE DEF BloquesDe
  <2> QED BY <1>2
<1>4. segs'[p] = <<>> /\ \A q \in Procesos \ {p} : segs'[q] = segs[q]
  BY <1>1, <1>2
<1>5. \A b, x : Usa(b, x)' <=> Usa(b, x) /\ x[1] # p
  <2> SUFFICES ASSUME NEW b, NEW x PROVE Usa(b, x)' <=> Usa(b, x) /\ x[1] # p
    OBVIOUS
  <2>1. ASSUME Usa(b, x), x[1] # p PROVE Usa(b, x)'
    <3>1. PICK q \in Procesos : \E j \in DOMAIN segs[q] :
            x = <<q, j>> /\ segs[q][j].enSwap /\ b \in BloquesDe(segs[q][j])
      BY <1>1, <2>1, UsaEs
    <3>2. q # p
      BY <2>1, <3>1
    <3> QED BY <1>4, <3>1, <3>2, UsaPrima
  <2>2. ASSUME Usa(b, x)' PROVE Usa(b, x) /\ x[1] # p
    <3>1. PICK q \in Procesos : \E j \in DOMAIN segs'[q] :
            x = <<q, j>> /\ segs'[q][j].enSwap /\ b \in BloquesDe(segs'[q][j])
      BY <2>2, UsaPrima
    <3>2. q # p
      BY <1>4, <3>1
    <3>3. x[1] = q
      BY <3>1
    <3> QED BY <1>1, <1>4, <3>1, <3>2, <3>3, UsaEs
  <2> QED BY <2>1, <2>2
<1>6. \A b : b \in sinDuenio' <=> b \in sinDuenio \/ \E x : Usa(b, x) /\ x[1] = p
  <2> SUFFICES ASSUME NEW b
               PROVE  b \in sinDuenio' <=> b \in sinDuenio \/ \E x : Usa(b, x) /\ x[1] = p
    OBVIOUS
  <2>1. ASSUME NEW i \in DOMAIN segs[p], segs[p][i].enSwap, b \in BloquesDe(segs[p][i])
        PROVE  \E x : Usa(b, x) /\ x[1] = p
    <3>1. Usa(b, <<p, i>>) /\ <<p, i>>[1] = p
      BY <1>1, <2>1, UsaEs
    <3> QED BY <3>1
  <2>2. ASSUME NEW x, Usa(b, x), x[1] = p
        PROVE  \E i \in DOMAIN segs[p] : segs[p][i].enSwap /\ b \in BloquesDe(segs[p][i])
    <3>1. PICK q \in Procesos : \E j \in DOMAIN segs[q] :
            x = <<q, j>> /\ segs[q][j].enSwap /\ b \in BloquesDe(segs[q][j])
      BY <1>1, <2>2, UsaEs
    <3>2. q = p
      BY <2>2, <3>1
    <3> QED BY <3>1, <3>2
  <2> QED BY <1>3, <2>1, <2>2
<1> SUFFICES ASSUME NEW b \in Bits PROVE Bloque(b)'
  BY DEF EnSwapOK
<1>7. Bloque(b)
  BY <1>1 DEF EnSwapOK
<1> QED BY <1>2, <1>5, <1>6, <1>7 DEF Bloque

\* Every step leaves each block to one segment, or to nobody.
LEMMA SwapPaso == ASSUME KernelMemoryAssumption, SwapInv, [Next]_vars PROVE SwapInv'
<1>0. MemInv /\ MemInv' /\ TypeInv /\ TypeInv' /\ EnSwapOK /\ SinSegmentos
      /\ segs \in [Procesos -> Seq(Segmento)]
  BY MemPaso, Tipos DEF SwapInv, MemInv, TypeInv
<1>1. ASSUME UNCHANGED <<segs, bloques, sinDuenio>> PROVE EnSwapOK'
  BY <1>0, <1>1, SwapIgual
<1>2. ASSUME NEW p \in Procesos, CrearProceso(p) PROVE EnSwapOK'
  <2>1. segs' = [segs EXCEPT ![p] = <<>>] /\ segs[p] = <<>>
        /\ bloques' = bloques /\ sinDuenio' = sinDuenio
    BY <1>0, <1>2 DEF CrearProceso, SinSegmentos, swap, historia
  <2>2. segs' = segs
    BY <1>0, <2>1
  <2> QED BY <1>1, <2>1, <2>2
<1>3. ASSUME NEW p \in Procesos, FinalizarProceso(p) PROVE EnSwapOK'
  BY <1>0, <1>3, SwapFinalizar
<1>4. ASSUME NEW p \in Procesos, NEW i \in DOMAIN segs[p], EliminarSegmento(p, i) PROVE EnSwapOK'
  BY <1>0, <1>4, SwapEliminar
<1>5. ASSUME NEW p \in Procesos, Suspender(p) \/ Desuspender(p) PROVE EnSwapOK'
  BY <1>1, <1>5 DEF Suspender, Desuspender, tablas, swap, historia
<1>6. ASSUME NEW p \in Procesos, NEW id \in Ids, NEW tam \in Tamanios, TomarHueco(p, id, tam)
      PROVE  EnSwapOK'
  BY <1>1, <1>6 DEF TomarHueco, tablas, swap, historia
<1>7. ASSUME Compactar \/ VaciarHuecos \/ GranHueco \/ Devolver \/ SuspensionLista \/ Reservar
      PROVE  EnSwapOK'
  BY <1>1, <1>7 DEF Compactar, VaciarHuecos, GranHueco, Devolver, SuspensionLista, Reservar,
     tablas, swap, historia
<1>8. ASSUME Registrar PROVE EnSwapOK'
  <2>1. bloques' = bloques /\ sinDuenio' = sinDuenio
    BY <1>8 DEF Registrar, swap
  <2>2. CASE ks.pid \in procesos
    <3>1. PICK p \in Procesos : p = ks.pid
      BY <1>0, <2>2, TypeOKPartes DEF TypeInv, TiposDeTablas
    <3>2. PICK s : s = [id |-> ks.id, base |-> ks.base, tam |-> ks.tam, enSwap |-> FALSE,
                        bloque |-> MaxBit]
      OBVIOUS
    <3>3. ~s.enSwap /\ segs' = [segs EXCEPT ![p] = Append(segs[p], s)]
      BY <1>8, <2>2, <3>1, <3>2 DEF Registrar
    <3>4. /\ segs'[p] = Append(segs[p], s) /\ segs[p] \in Seq(Segmento)
          /\ \A q \in Procesos \ {p} : segs'[q] = segs[q]
      BY <1>0, <3>3
    <3>5. /\ \A k \in DOMAIN segs'[p] :
               segs'[p][k] = s \/ (k \in DOMAIN segs[p] /\ segs'[p][k] = segs[p][k])
          /\ \A k \in DOMAIN segs[p] : k \in DOMAIN segs'[p] /\ segs'[p][k] = segs[p][k]
      <4> DEFINE w == segs[p]
      <4>1. w \in Seq(Segmento) /\ segs'[p] = Append(w, s)
        BY <3>4
      <4> HIDE DEF w
      <4>2. /\ \A k \in DOMAIN Append(w, s) :
                 Append(w, s)[k] = s \/ (k \in DOMAIN w /\ Append(w, s)[k] = w[k])
            /\ \A k \in DOMAIN w : k \in DOMAIN Append(w, s) /\ Append(w, s)[k] = w[k]
        BY <4>1
      <4> QED BY <4>1, <4>2 DEF w
    <3>6. \A q \in Procesos : \A i \in DOMAIN segs[q] \cup DOMAIN segs'[q] :
           \/ i \in DOMAIN segs[q] /\ i \in DOMAIN segs'[q] /\ segs'[q][i] = segs[q][i]
           \/ /\ i \notin DOMAIN segs[q]
              /\ i \in DOMAIN segs'[q] => ~segs'[q][i].enSwap
      BY <3>3, <3>4, <3>5
    <3> QED BY <1>0, <2>1, <3>6, SwapQuieto
  <2>3. CASE ks.pid \notin procesos
    BY <1>1, <1>8, <2>1, <2>3 DEF Registrar
  <2> QED BY <2>2, <2>3
<1>9. ASSUME Mover PROVE EnSwapOK'
  <2>1. bloques' = bloques /\ sinDuenio' = sinDuenio /\ ks.fase = "mover" /\ ks.cola # <<>>
    BY <1>9 DEF Mover, swap
  <2>2. PICK s : s = Head(ks.cola)
    OBVIOUS
  <2>3. s.pid \in Procesos /\ s.i \in DOMAIN segs[s.pid] /\ segs[s.pid][s.i] \in Segmento
        /\ ks.base \in Nat
    <3>1. ks \in Locales /\ ks.base \in Nat
      BY <1>0, Tipos DEF TypeInv
    <3>2. s = ks.cola[1] /\ 1 \in DOMAIN ks.cola
      BY <2>1, <2>2, <3>1, PrimeroDeLaCola
    <3>3. s.pid \in Procesos /\ s.i \in DOMAIN segs[s.pid]
      BY <1>0, <2>1, <3>2 DEF TypeInv, Indices
    <3> QED BY <1>0, <3>1, <3>3
  <2>4. CASE segs' = segs
    BY <1>1, <2>1, <2>4
  <2>5. CASE segs' # segs
    <3>1. PICK m : m = [segs[s.pid][s.i] EXCEPT !.base = ks.base]
      OBVIOUS
    <3>2. segs' = ConSegmento(s.pid, s.i, m)
      BY <1>9, <2>2, <2>5, <3>1 DEF Mover
    <3>3. /\ m \in Segmento /\ m.enSwap = segs[s.pid][s.i].enSwap
          /\ m.bloque = segs[s.pid][s.i].bloque /\ m.tam = segs[s.pid][s.i].tam
      BY <2>3, <3>1 DEF Segmento
    <3>4a. PICK p \in Procesos : p = s.pid
      BY <2>3
    <3>4b. PICK i : i = s.i
      OBVIOUS
    <3>4. p = s.pid /\ i = s.i
      BY <3>4a, <3>4b
    <3>5. segs' = ConSegmento(p, i, m) /\ i \in DOMAIN segs[p]
      BY <2>3, <3>2, <3>4
    <3>6. /\ \A q \in Procesos : DOMAIN segs'[q] = DOMAIN segs[q]
          /\ segs'[p][i] = m
          /\ \A q \in Procesos : \A j \in DOMAIN segs[q] :
               q # p \/ j # i => segs'[q][j] = segs[q][j]
      BY <1>0, <3>3, <3>5, ConSegmentoEs
    <3>7. \A q \in Procesos : \A j \in DOMAIN segs[q] \cup DOMAIN segs'[q] :
              /\ j \in DOMAIN segs[q] /\ j \in DOMAIN segs'[q]
              /\ segs'[q][j].enSwap = segs[q][j].enSwap
              /\ segs'[q][j].bloque = segs[q][j].bloque /\ segs'[q][j].tam = segs[q][j].tam
      <4> TAKE q \in Procesos
      <4> TAKE j \in DOMAIN segs[q] \cup DOMAIN segs'[q]
      <4>1. j \in DOMAIN segs[q] /\ j \in DOMAIN segs'[q]
        BY <3>6
      <4>2. CASE q = p /\ j = i
        BY <3>3, <3>4, <3>6, <4>1, <4>2
      <4>3. CASE q # p \/ j # i
        BY <3>6, <4>1, <4>3
      <4> QED BY <4>2, <4>3
    <3> QED BY <1>0, <2>1, <3>7, SwapQuieto
  <2> QED BY <2>4, <2>5
<1>10. ASSUME SuspenderSegmento \/ Traer PROVE EnSwapOK'
  BY <1>0, <1>10, SwapSuspender, SwapTraer
<1>11. ASSUME NEW k \in Sticks, PasoStick(k) PROVE EnSwapOK'
  BY <1>1, <1>11 DEF PasoStick, AumentarMemoriaTotal, AgregarHuecoDeStick, AgregarPosicion,
     tablas, swap, historia
<1>12. ASSUME UNCHANGED vars PROVE EnSwapOK'
  BY <1>1, <1>12 DEF vars, tablas, swap, historia
<1>13. ASSUME CrearTrasCompactar PROVE EnSwapOK'
  BY <1>1, <1>13 DEF CrearTrasCompactar, TomarHueco, tablas, swap, historia
<1>14. EnSwapOK'
  BY <1>2, <1>3, <1>4, <1>5, <1>6, <1>7, <1>8, <1>9, <1>10, <1>11, <1>12, <1>13
  DEF Next, Pedido, PasoKS, CrearSegmento
<1> QED BY <1>0, <1>14 DEF SwapInv

\* Nobody uses swap at first.
LEMMA SwapInicial == ASSUME KernelMemoryAssumption, Init PROVE SwapInv
<1>1. MemInv /\ TypeInv
  BY MemInicial DEF MemInv
<1>2. bloques = {} /\ sinDuenio = {} /\ \A p \in Procesos : segs[p] = <<>>
  BY DEF Init
<1>3. \A b, x : ~Usa(b, x)
  BY <1>1, <1>2, UsaEs
<1> QED BY <1>1, <1>2, <1>3 DEF SwapInv, EnSwapOK, Bloque

\* A bit of bitmap_swap is set exactly when one segment uses the block, or when the process
\* that used it ended there: desuspension frees the blocks of its segments and no others, and
\* a suspension takes blocks nobody has (swap.c, suspender_ and desuspender_proceso_memoria).
THEOREM BloquesSinCompartir == Spec => []BloquesDeUnSegmento
<1>1. Init => SwapInv
  BY KernelMemoryAssumption, SwapInicial
<1>2. SwapInv /\ [Next]_vars => SwapInv'
  BY KernelMemoryAssumption, SwapPaso
<1>3. SwapInv => BloquesDeUnSegmento
  <2> SUFFICES ASSUME EnSwapOK, NEW b \in Bits
               PROVE  LET usan == {x \in EnTabla : segs[x[1]][x[2]].enSwap
                                                   /\ b \in BloquesDe(segs[x[1]][x[2]])}
                      IN Cardinality(usan) + (IF b \in sinDuenio THEN 1 ELSE 0)
                           = (IF b \in bloques THEN 1 ELSE 0)
    BY DEF SwapInv, BloquesDeUnSegmento
  <2> DEFINE usan == {x \in EnTabla : segs[x[1]][x[2]].enSwap
                                      /\ b \in BloquesDe(segs[x[1]][x[2]])}
  <2>1. \A x : x \in usan <=> Usa(b, x)
    BY DEF Usa
  <2>2. Bloque(b)
    BY DEF EnSwapOK
  <2> HIDE DEF usan
  <2>3. CASE usan = {}
    <3>1. Cardinality(usan) = 0
      BY <2>3, FS_EmptySet
    <3> QED BY <2>1, <2>2, <2>3, <3>1 DEF Bloque, usan
  <2>4. CASE usan # {}
    <3>1. PICK x : usan = {x}
      BY <2>1, <2>2, <2>4 DEF Bloque
    <3>2. Cardinality(usan) = 1
      BY <3>1, FS_Singleton
    <3> QED BY <2>1, <2>2, <2>4, <3>2 DEF Bloque, usan
  <2> QED BY <2>3, <2>4 DEF usan
<1> QED BY <1>1, <1>2, <1>3, PTL DEF Spec

-----------------------------------------------------------------------------
(* Who has a byte: what the operations on lists do to it.                  *)

\* The bytes of a sequence of pieces: none, one, and what each operation on it does to them.
LEMMA CubreNada == ASSUME NEW a PROVE ~Cubre(<<>>, a) /\ UnaVez(<<>>, a)
BY DEF Cubre, UnaVez

LEMMA CubreUno == ASSUME NEW e, NEW a PROVE (Cubre(<<e>>, a) <=> a \in Bytes(e)) /\ UnaVez(<<e>>, a)
<1>1. DOMAIN <<e>> = {1} /\ <<e>>[1] = e
  OBVIOUS
<1> QED BY <1>1 DEF Cubre, UnaVez

LEMMA CubreAgregar ==
  ASSUME NEW S, NEW w \in Seq(S), NEW e, NEW a
  PROVE  /\ Cubre(Append(w, e), a) <=> Cubre(w, a) \/ a \in Bytes(e)
         /\ UnaVez(w, a) /\ ~(Cubre(w, a) /\ a \in Bytes(e)) => UnaVez(Append(w, e), a)
<1>1. PICK n \in Nat : n = Len(w) /\ DOMAIN w = 1 .. n
  BY LenProperties
<1>2. PICK v : v = Append(w, e)
  OBVIOUS
<1>3. DOMAIN v = 1 .. n + 1 /\ v[n + 1] = e /\ \A i \in 1 .. n : v[i] = w[i]
  BY <1>1, <1>2
<1>4. \A i \in 1 .. n + 1 : i = n + 1 \/ i \in 1 .. n
  OBVIOUS
<1>5. 1 .. n \subseteq 1 .. n + 1 /\ n + 1 \in 1 .. n + 1 /\ n + 1 \notin 1 .. n
  OBVIOUS
<1>6. Cubre(v, a) <=> Cubre(w, a) \/ a \in Bytes(e)
  BY <1>1, <1>3, <1>4, <1>5 DEF Cubre
<1>7. UnaVez(w, a) /\ ~(Cubre(w, a) /\ a \in Bytes(e)) => UnaVez(v, a)
  BY <1>1, <1>3, <1>4, <1>5 DEF Cubre, UnaVez
<1> QED BY <1>2, <1>6, <1>7

\* A list from which element i is missing, the others in the same order.
LEMMA CubreSin ==
  ASSUME NEW w, NEW v, NEW n \in Nat, NEW i \in 1 .. n, DOMAIN w = 1 .. n,
         DOMAIN v = 1 .. n - 1,
         \A k \in 1 .. i - 1 : v[k] = w[k], \A k \in i .. n - 1 : v[k] = w[k + 1],
         NEW a, UnaVez(w, a)
  PROVE  (Cubre(v, a) <=> Cubre(w, a) /\ a \notin Bytes(w[i])) /\ UnaVez(v, a)
<1>1. \A k \in 1 .. n - 1 : \/ k \in 1 .. i - 1 /\ k \in 1 .. n /\ k # i
                            \/ k \in i .. n - 1 /\ k + 1 \in 1 .. n /\ k + 1 # i
  OBVIOUS
<1>2. ASSUME NEW k \in 1 .. n - 1, a \in Bytes(v[k])
      PROVE  \E j \in 1 .. n : a \in Bytes(w[j]) /\ j # i /\ (j = k \/ j = k + 1)
                               /\ (j = k => k < i) /\ (j = k + 1 => k >= i)
  <2>1. CASE k < i
    <3>1. k \in 1 .. i - 1 /\ k \in 1 .. n
      BY <2>1
    <3> QED BY <1>2, <3>1
  <2>2. CASE k >= i
    <3>1. k \in i .. n - 1 /\ k + 1 \in 1 .. n
      BY <2>2
    <3> QED BY <1>2, <3>1
  <2> QED BY <2>1, <2>2
<1>3. ASSUME NEW j \in 1 .. n, j # i, a \in Bytes(w[j]) PROVE Cubre(v, a)
  <2>1. CASE j < i
    <3>1. j \in 1 .. i - 1 /\ j \in DOMAIN v
      BY <2>1
    <3> QED BY <1>3, <3>1 DEF Cubre
  <2>2. CASE j > i
    <3>1. PICK k \in i .. n - 1 : k + 1 = j
      BY <2>2, j - 1 \in i .. n - 1
    <3>2. v[k] = w[j] /\ k \in DOMAIN v
      BY <3>1
    <3> QED BY <1>3, <3>2 DEF Cubre
  <2> QED BY <1>3, <2>1, <2>2
<1>4. Cubre(v, a) => Cubre(w, a) /\ a \notin Bytes(w[i])
  <2> SUFFICES ASSUME NEW k \in 1 .. n - 1, a \in Bytes(v[k])
               PROVE  Cubre(w, a) /\ a \notin Bytes(w[i])
    BY DEF Cubre
  <2>1. PICK j \in 1 .. n : a \in Bytes(w[j]) /\ j # i
    BY <1>2
  <2> QED BY <2>1 DEF Cubre, UnaVez
<1>5. Cubre(w, a) /\ a \notin Bytes(w[i]) => Cubre(v, a)
  BY <1>3 DEF Cubre
<1>6. UnaVez(v, a)
  <2> SUFFICES ASSUME NEW k \in 1 .. n - 1, NEW l \in 1 .. n - 1, a \in Bytes(v[k]), a \in Bytes(v[l])
               PROVE  k = l
    BY DEF UnaVez
  <2>1. PICK j \in 1 .. n : /\ a \in Bytes(w[j]) /\ (j = k \/ j = k + 1)
                            /\ (j = k => k < i) /\ (j = k + 1 => k >= i)
    BY <1>2
  <2>2. PICK m \in 1 .. n : /\ a \in Bytes(w[m]) /\ (m = l \/ m = l + 1)
                            /\ (m = l => l < i) /\ (m = l + 1 => l >= i)
    BY <1>2
  <2>3. j = m
    BY <2>1, <2>2 DEF UnaVez
  <2> QED BY <2>1, <2>2, <2>3
<1> QED BY <1>4, <1>5, <1>6

LEMMA CubreQuitar ==
  ASSUME NEW S, NEW w \in Seq(S), NEW i \in DOMAIN w, NEW a, UnaVez(w, a)
  PROVE  /\ Cubre(RemoveAt(w, i), a) <=> Cubre(w, a) /\ a \notin Bytes(w[i])
         /\ UnaVez(RemoveAt(w, i), a)
<1>1. PICK n \in Nat : n = Len(w) /\ DOMAIN w = 1 .. n
  BY LenProperties
<1>2. PICK v : v = RemoveAt(w, i)
  OBVIOUS
<1>3. /\ DOMAIN v = 1 .. n - 1 /\ i \in 1 .. n
      /\ \A k \in 1 .. i - 1 : v[k] = w[k]
      /\ \A k \in i .. n - 1 : v[k] = w[k + 1]
  BY <1>1, <1>2, QuitarUno
<1> QED
  <2>1. \A k \in 1 .. i - 1 : v[k] = w[k]
    BY <1>1, <1>2, QuitarUno
  <2>2. \A k \in i .. n - 1 : v[k] = w[k + 1]
    BY <1>1, <1>2, QuitarUno
  <2> QED BY <1>1, <1>2, <1>3, <2>1, <2>2, CubreSin

LEMMA CubreSinPrimero ==
  ASSUME NEW S, NEW w \in Seq(S), w # <<>>, NEW a, UnaVez(w, a)
  PROVE  /\ Cubre(Tail(w), a) <=> Cubre(w, a) /\ a \notin Bytes(w[1])
         /\ UnaVez(Tail(w), a)
<1>1. PICK n \in Nat : n = Len(w) /\ DOMAIN w = 1 .. n /\ n # 0
  BY EmptySeq, LenProperties
<1>2. PICK v : v = Tail(w)
  OBVIOUS
<1>3. DOMAIN v = 1 .. n - 1 /\ \A k \in 1 .. n - 1 : v[k] = w[k + 1]
  BY <1>1, <1>2
<1>4. 1 \in 1 .. n /\ \A k \in 1 .. 1 - 1 : v[k] = w[k]
  BY <1>1
<1> QED BY <1>1, <1>2, <1>3, <1>4, CubreSin

\* Another value at place i.
LEMMA CubreOtro ==
  ASSUME NEW w, NEW v, NEW i \in DOMAIN w, DOMAIN v = DOMAIN w,
         \A k \in DOMAIN w : k # i => v[k] = w[k], NEW a, UnaVez(w, a)
  PROVE  /\ Cubre(v, a) <=> (Cubre(w, a) /\ a \notin Bytes(w[i])) \/ a \in Bytes(v[i])
         /\ ~(a \in Bytes(v[i]) /\ Cubre(w, a) /\ a \notin Bytes(w[i])) => UnaVez(v, a)
BY DEF Cubre, UnaVez

LEMMA CubreConsumir ==
  ASSUME huecos \in Seq(Hueco), NEW tam \in Nat \ {0}, NEW i \in Candidatos(tam), NEW a \in Nat,
         UnaVez(huecos, a)
  PROVE  LET toma == huecos[i].base <= a /\ a < huecos[i].base + tam IN
         /\ toma => Cubre(huecos, a)
         /\ Cubre(ConsumirHueco(i, tam), a) <=> Cubre(huecos, a) /\ ~toma
         /\ UnaVez(ConsumirHueco(i, tam), a)
<1>1. i \in DOMAIN huecos /\ huecos[i].tam >= tam /\ huecos[i] \in Hueco
  BY DEF Candidatos
<1>2. PICK b \in Nat, t \in Nat \ {0} : b = huecos[i].base /\ t = huecos[i].tam
  BY <1>1 DEF Hueco
<1>3. t >= tam /\ (a \in Bytes(huecos[i]) <=> b <= a /\ a < b + t)
  BY <1>1, <1>2, BytesSon
<1>4. b <= a /\ a < b + tam => Cubre(huecos, a)
  BY <1>1, <1>3 DEF Cubre
<1>5. CASE t = tam
  <2>1. ConsumirHueco(i, tam) = RemoveAt(huecos, i)
    BY <1>2, <1>5 DEF ConsumirHueco
  <2>2. /\ Cubre(RemoveAt(huecos, i), a) <=> Cubre(huecos, a) /\ a \notin Bytes(huecos[i])
        /\ UnaVez(RemoveAt(huecos, i), a)
    BY <1>1, CubreQuitar
  <2> QED BY <1>2, <1>3, <1>4, <1>5, <2>1, <2>2
<1>6. CASE t # tam
  <2>1. PICK h : h = [base |-> b + tam, tam |-> t - tam]
    OBVIOUS
  <2>2. PICK v : v = ConsumirHueco(i, tam)
    OBVIOUS
  <2>3. v = [huecos EXCEPT ![i] = h]
    BY <1>1, <1>2, <1>6, <2>1, <2>2 DEF ConsumirHueco
  <2>4. DOMAIN v = DOMAIN huecos /\ v[i] = h /\ \A k \in DOMAIN huecos : k # i => v[k] = huecos[k]
    BY <1>1, <2>3
  <2>5. h.base = b + tam /\ h.tam = t - tam /\ h.base \in Nat /\ h.tam \in Nat
    BY <1>3, <2>1
  <2>6. a \in Bytes(h) <=> b + tam <= a /\ a < b + t
    BY <1>3, <2>5, BytesSon
  <2>7. /\ Cubre(v, a) <=> (Cubre(huecos, a) /\ a \notin Bytes(huecos[i])) \/ a \in Bytes(v[i])
        /\ ~(a \in Bytes(v[i]) /\ Cubre(huecos, a) /\ a \notin Bytes(huecos[i])) => UnaVez(v, a)
    BY <1>1, <2>4, CubreOtro
  <2>8. a \in Bytes(h) => a \in Bytes(huecos[i])
    BY <1>3, <2>6
  <2>9. Cubre(v, a) <=> Cubre(huecos, a) /\ ~(b <= a /\ a < b + tam)
    <3>1. a \in Bytes(huecos[i]) => Cubre(huecos, a)
      BY <1>1 DEF Cubre
    <3>2. a \in Bytes(h) <=> a \in Bytes(huecos[i]) /\ ~(b <= a /\ a < b + tam)
      BY <1>3, <2>6
    <3> QED BY <1>3, <2>4, <2>7, <3>1, <3>2
  <2> QED BY <1>2, <1>4, <2>2, <2>4, <2>7, <2>8, <2>9
<1> QED BY <1>5, <1>6

LEMMA CubreLibre ==
  ASSUME huecos \in Seq(Hueco), NEW b \in Nat, NEW t \in Nat, NEW a \in Nat, UnaVez(huecos, a)
  PROVE  LET da == b <= a /\ a < b + t IN
         /\ Cubre(AgregarHuecoLibre(b, t), a) <=> Cubre(huecos, a) \/ da
         /\ ~(Cubre(huecos, a) /\ da) => UnaVez(AgregarHuecoLibre(b, t), a)
<1>1. PICK h : h = [base |-> b, tam |-> t]
  OBVIOUS
<1>2. h.base = b /\ h.tam = t
  BY <1>1
<1>3. a \in Bytes(h) <=> b <= a /\ a < b + t
  BY <1>2, BytesSon
<1>4. AgregarHuecoLibre(b, t) = Append(huecos, h)
  BY <1>1 DEF AgregarHuecoLibre
<1> QED BY <1>3, <1>4, CubreAgregar

LEMMA CubreMs ==
  ASSUME huecos \in Seq(Hueco), NEW b \in Nat, NEW t \in Nat, NEW a \in Nat, UnaVez(huecos, a)
  PROVE  LET da == b <= a /\ a < b + t IN
         /\ Cubre(AgregarHuecoMs(b, t), a) <=> Cubre(huecos, a) \/ da
         /\ ~(Cubre(huecos, a) /\ da) => UnaVez(AgregarHuecoMs(b, t), a)
<1> DEFINE pegados == {i \in DOMAIN huecos : huecos[i].base + huecos[i].tam = b}
<1>1. CASE pegados = {}
  <2>1. AgregarHuecoMs(b, t) = AgregarHuecoLibre(b, t)
    BY <1>1 DEF AgregarHuecoMs
  <2> QED BY <2>1, CubreLibre
<1>2. CASE pegados # {}
  <2>1. pegados \in SUBSET Nat
    OBVIOUS
  <2>2. PICK i \in pegados : i = Min(pegados)
    BY <1>2, <2>1, MinEsMenor
  <2>3. i \in DOMAIN huecos /\ huecos[i] \in Hueco /\ huecos[i].base + huecos[i].tam = b
    BY <2>2
  <2>4. PICK hb \in Nat, ht \in Nat : hb = huecos[i].base /\ ht = huecos[i].tam
    BY <2>3 DEF Hueco
  <2>5. PICK h : h = [base |-> hb, tam |-> ht + t]
    OBVIOUS
  <2>6. AgregarHuecoMs(b, t) = Append(RemoveAt(huecos, i), h)
    BY <1>2, <2>2, <2>4, <2>5 DEF AgregarHuecoMs
  <2>7. h.base = hb /\ h.tam = ht + t /\ ht + t \in Nat /\ hb + ht = b
    BY <2>3, <2>4, <2>5
  <2>8. /\ a \in Bytes(h) <=> hb <= a /\ a < b + t
        /\ a \in Bytes(huecos[i]) <=> hb <= a /\ a < b
    <3>1. a \in Bytes(h) <=> hb <= a /\ a < hb + (ht + t)
      BY <2>7, BytesSon
    <3>2. a \in Bytes(huecos[i]) <=> hb <= a /\ a < hb + ht
      BY <2>4, BytesSon
    <3>3. hb + (ht + t) = b + t /\ hb + ht = b
      BY <2>7
    <3> QED BY <3>1, <3>2, <3>3
  <2>9. /\ Cubre(RemoveAt(huecos, i), a) <=> Cubre(huecos, a) /\ a \notin Bytes(huecos[i])
        /\ UnaVez(RemoveAt(huecos, i), a)
    BY <2>3, CubreQuitar
  <2>10. RemoveAt(huecos, i) \in Seq(Hueco)
    BY <2>3, QuitarUno
  <2>11. /\ Cubre(Append(RemoveAt(huecos, i), h), a)
              <=> Cubre(RemoveAt(huecos, i), a) \/ a \in Bytes(h)
         /\ ~(Cubre(RemoveAt(huecos, i), a) /\ a \in Bytes(h)) =>
              UnaVez(Append(RemoveAt(huecos, i), h), a)
    BY <2>9, <2>10, CubreAgregar
  <2>12. a \in Bytes(huecos[i]) => Cubre(huecos, a)
    BY <2>3 DEF Cubre
  <2>13. a \in Bytes(h) <=> a \in Bytes(huecos[i]) \/ (b <= a /\ a < b + t)
    BY <2>7, <2>8
  <2>14. a \in Bytes(huecos[i]) => ~(b <= a /\ a < b + t)
    BY <2>8
  <2> QED BY <2>6, <2>9, <2>11, <2>12, <2>13, <2>14
<1> QED BY <1>1, <1>2

-----------------------------------------------------------------------------
(* Who has a byte: what a step does to the segments.                       *)

\* Whether byte a is of the resident segment i of p, now and after a step.
LEMMA DeSegmentoEs ==
  ASSUME TypeInv, NEW a, NEW x
  PROVE  DeSegmento(a, x) <=> \E p \in Procesos : \E i \in DOMAIN segs[p] :
                         x = <<p, i>> /\ ~segs[p][i].enSwap /\ a \in Bytes(segs[p][i])
<1>1. segs \in [Procesos -> Seq(Segmento)]
  BY Tipos DEF TypeInv
<1>2. ASSUME DeSegmento(a, x)
      PROVE  \E p \in Procesos : \E i \in DOMAIN segs[p] :
                         x = <<p, i>> /\ ~segs[p][i].enSwap /\ a \in Bytes(segs[p][i])
  <2>1. x \in EnTabla /\ ~segs[x[1]][x[2]].enSwap /\ a \in Bytes(segs[x[1]][x[2]])
    BY <1>2 DEF DeSegmento, Residentes
  <2>2. x[1] \in Procesos /\ x[2] \in DOMAIN segs[x[1]] /\ x = <<x[1], x[2]>>
    BY <1>1, <2>1, EnTablaTipo
  <2> QED BY <2>1, <2>2
<1>3. ASSUME NEW p \in Procesos, NEW i \in DOMAIN segs[p], x = <<p, i>>, ~segs[p][i].enSwap,
             a \in Bytes(segs[p][i])
      PROVE  DeSegmento(a, x)
  <2>1. x \in EnTabla /\ x[1] = p /\ x[2] = i
    BY <1>1, <1>3, EnTablaEs
  <2> QED BY <1>3, <2>1 DEF DeSegmento, Residentes
<1> QED BY <1>2, <1>3

LEMMA DeSegmentoPrima ==
  ASSUME TypeInv', NEW a, NEW x
  PROVE  DeSegmento(a, x)' <=> \E p \in Procesos : \E i \in DOMAIN segs'[p] :
                          x = <<p, i>> /\ ~segs'[p][i].enSwap /\ a \in Bytes(segs'[p][i])
<1>1. \A z : (z \in EnTabla)' <=> \E p \in Procesos : \E i \in DOMAIN segs'[p] : z = <<p, i>>
  BY DEF EnTabla
<1> QED BY <1>1 DEF DeSegmento, Residentes, Bytes

LEMMA SegmentosIguales ==
  ASSUME segs' = segs, NEW a
  PROVE  /\ \A x : DeSegmento(a, x)' <=> DeSegmento(a, x)
         /\ EnSegmento(a)' <=> EnSegmento(a)
         /\ SegmentoUno(a)' <=> SegmentoUno(a)
<1>1. \A x : DeSegmento(a, x)' <=> DeSegmento(a, x)
  BY Zenon DEF DeSegmento, Residentes, EnTabla, Bytes
<1> QED BY <1>1 DEF EnSegmento, SegmentoUno

\* Segment i of p becomes s: whatever it had it has no more, and it has the bytes of s unless
\* s is in swap.
LEMMA SegmentoCambia ==
  ASSUME KernelMemoryAssumption, TypeInv, TypeInv', NEW p \in Procesos, NEW i \in DOMAIN segs[p],
         NEW s \in Segmento, segs' = ConSegmento(p, i, s), NEW a, SegmentoUno(a),
         NEW tenia, NEW tiene, tenia \in BOOLEAN, tiene \in BOOLEAN,
         tenia <=> ~segs[p][i].enSwap /\ a \in Bytes(segs[p][i]),
         tiene <=> ~s.enSwap /\ a \in Bytes(s)
  PROVE  /\ tenia => EnSegmento(a)
         /\ EnSegmento(a)' <=> (EnSegmento(a) /\ ~tenia) \/ tiene
         /\ ~(EnSegmento(a) /\ ~tenia /\ tiene) => SegmentoUno(a)'
<1>1. /\ \A q \in Procesos : DOMAIN segs'[q] = DOMAIN segs[q]
      /\ segs'[p][i] = s
      /\ \A q \in Procesos : \A j \in DOMAIN segs[q] :
           q # p \/ j # i => segs'[q][j] = segs[q][j]
  <2>1. segs \in [Procesos -> Seq(Segmento)]
    BY Tipos DEF TypeInv
  <2> QED BY <2>1, ConSegmentoEs
<1>2. DeSegmento(a, <<p, i>>) <=> tenia
  BY DeSegmentoEs
<1>3. DeSegmento(a, <<p, i>>)' <=> tiene
  <2>1. i \in DOMAIN segs'[p]
    BY <1>1
  <2> QED BY <1>1, <2>1, DeSegmentoPrima
<1>4. \A x : x # <<p, i>> => (DeSegmento(a, x)' <=> DeSegmento(a, x))
  <2> SUFFICES ASSUME NEW x, x # <<p, i>> PROVE DeSegmento(a, x)' <=> DeSegmento(a, x)
    OBVIOUS
  <2>1. ASSUME DeSegmento(a, x) PROVE DeSegmento(a, x)'
    <3>1. PICK q \in Procesos : \E j \in DOMAIN segs[q] :
            x = <<q, j>> /\ ~segs[q][j].enSwap /\ a \in Bytes(segs[q][j])
      BY <2>1, DeSegmentoEs
    <3>2. PICK j \in DOMAIN segs[q] :
            x = <<q, j>> /\ ~segs[q][j].enSwap /\ a \in Bytes(segs[q][j])
      BY <3>1
    <3>3. j \in DOMAIN segs'[q] /\ segs'[q][j] = segs[q][j]
      BY <1>1, <3>2
    <3> QED BY <3>2, <3>3, DeSegmentoPrima
  <2>2. ASSUME DeSegmento(a, x)' PROVE DeSegmento(a, x)
    <3>1. PICK q \in Procesos : \E j \in DOMAIN segs'[q] :
            x = <<q, j>> /\ ~segs'[q][j].enSwap /\ a \in Bytes(segs'[q][j])
      BY <2>2, DeSegmentoPrima
    <3>2. PICK j \in DOMAIN segs'[q] :
            x = <<q, j>> /\ ~segs'[q][j].enSwap /\ a \in Bytes(segs'[q][j])
      BY <3>1
    <3>3. j \in DOMAIN segs[q] /\ segs'[q][j] = segs[q][j]
      BY <1>1, <3>2
    <3> QED BY <3>2, <3>3, DeSegmentoEs
  <2> QED BY <2>1, <2>2
<1>5. EnSegmento(a)' <=> (EnSegmento(a) /\ ~tenia) \/ tiene
  <2>1. ASSUME NEW x, DeSegmento(a, x)' PROVE (EnSegmento(a) /\ ~tenia) \/ tiene
    BY <1>2, <1>3, <1>4, <2>1 DEF EnSegmento, SegmentoUno
  <2>2. ASSUME NEW x, DeSegmento(a, x), ~tenia PROVE DeSegmento(a, x)'
    BY <1>2, <1>4, <2>2
  <2> QED BY <1>3, <2>1, <2>2 DEF EnSegmento
<1>6. ~(EnSegmento(a) /\ ~tenia /\ tiene) => SegmentoUno(a)'
  BY <1>2, <1>3, <1>4 DEF EnSegmento, SegmentoUno
<1> QED BY <1>2, <1>5, <1>6 DEF EnSegmento

\* A process has one segment more.
LEMMA SegmentoNuevo ==
  ASSUME KernelMemoryAssumption, TypeInv, TypeInv', NEW p \in Procesos,
         NEW s, ~s.enSwap, segs' = [segs EXCEPT ![p] = Append(segs[p], s)],
         NEW a, SegmentoUno(a)
  PROVE  /\ EnSegmento(a)' <=> EnSegmento(a) \/ a \in Bytes(s)
         /\ ~(EnSegmento(a) /\ a \in Bytes(s)) => SegmentoUno(a)'
<1>1. segs \in [Procesos -> Seq(Segmento)]
  BY Tipos DEF TypeInv
<1>2. /\ segs'[p] = Append(segs[p], s) /\ segs[p] \in Seq(Segmento)
      /\ \A q \in Procesos \ {p} : segs'[q] = segs[q]
  BY <1>1
<1>3. PICK n \in Nat : /\ DOMAIN segs[p] = 1 .. n /\ DOMAIN segs'[p] = 1 .. n + 1
                       /\ segs'[p][n + 1] = s /\ \A k \in 1 .. n : segs'[p][k] = segs[p][k]
  <2> DEFINE w == segs[p]
  <2>1. w \in Seq(Segmento) /\ segs'[p] = Append(w, s)
    BY <1>2
  <2> HIDE DEF w
  <2>2. PICK n \in Nat : n = Len(w) /\ DOMAIN w = 1 .. n
    BY <2>1, LenProperties
  <2>3. /\ DOMAIN Append(w, s) = 1 .. n + 1 /\ Append(w, s)[n + 1] = s
        /\ \A k \in 1 .. n : Append(w, s)[k] = w[k]
    BY <2>1, <2>2
  <2> QED BY <2>1, <2>2, <2>3 DEF w
<1>4. n + 1 \notin 1 .. n /\ n + 1 \in 1 .. n + 1 /\ 1 .. n \subseteq 1 .. n + 1
      /\ \A k \in 1 .. n + 1 : k = n + 1 \/ k \in 1 .. n
  OBVIOUS
<1>5. DeSegmento(a, <<p, n + 1>>)' <=> a \in Bytes(s)
  BY <1>3, <1>4, DeSegmentoPrima
<1>6. ~DeSegmento(a, <<p, n + 1>>)
  BY <1>3, <1>4, DeSegmentoEs
<1>7. \A x : x # <<p, n + 1>> => (DeSegmento(a, x)' <=> DeSegmento(a, x))
  <2> SUFFICES ASSUME NEW x, x # <<p, n + 1>> PROVE DeSegmento(a, x)' <=> DeSegmento(a, x)
    OBVIOUS
  <2>1. ASSUME DeSegmento(a, x) PROVE DeSegmento(a, x)'
    <3>1. PICK q \in Procesos : \E j \in DOMAIN segs[q] :
            x = <<q, j>> /\ ~segs[q][j].enSwap /\ a \in Bytes(segs[q][j])
      BY <2>1, DeSegmentoEs
    <3>2. PICK j \in DOMAIN segs[q] :
            x = <<q, j>> /\ ~segs[q][j].enSwap /\ a \in Bytes(segs[q][j])
      BY <3>1
    <3>3. j \in DOMAIN segs'[q] /\ segs'[q][j] = segs[q][j]
      BY <1>2, <1>3, <1>4, <3>2
    <3> QED BY <3>2, <3>3, DeSegmentoPrima
  <2>2. ASSUME DeSegmento(a, x)' PROVE DeSegmento(a, x)
    <3>1. PICK q \in Procesos : \E j \in DOMAIN segs'[q] :
            x = <<q, j>> /\ ~segs'[q][j].enSwap /\ a \in Bytes(segs'[q][j])
      BY <2>2, DeSegmentoPrima
    <3>2. PICK j \in DOMAIN segs'[q] :
            x = <<q, j>> /\ ~segs'[q][j].enSwap /\ a \in Bytes(segs'[q][j])
      BY <3>1
    <3>3. j \in DOMAIN segs[q] /\ segs'[q][j] = segs[q][j]
      BY <1>2, <1>3, <1>4, <3>2
    <3> QED BY <3>2, <3>3, DeSegmentoEs
  <2> QED BY <2>1, <2>2
<1>8. EnSegmento(a)' <=> EnSegmento(a) \/ a \in Bytes(s)
  BY <1>5, <1>6, <1>7 DEF EnSegmento
<1>9. ~(EnSegmento(a) /\ a \in Bytes(s)) => SegmentoUno(a)'
  BY <1>5, <1>6, <1>7 DEF EnSegmento, SegmentoUno
<1> QED BY <1>8, <1>9

\* A process has none left.
LEMMA SegmentosFuera ==
  ASSUME KernelMemoryAssumption, TypeInv, TypeInv', NEW p \in Procesos,
         segs' = [segs EXCEPT ![p] = <<>>], NEW a, SegmentoUno(a),
         NEW tenia, tenia \in BOOLEAN,
         tenia <=> \E i \in DOMAIN segs[p] : ~segs[p][i].enSwap /\ a \in Bytes(segs[p][i])
  PROVE  /\ tenia => EnSegmento(a)
         /\ EnSegmento(a)' <=> EnSegmento(a) /\ ~tenia
         /\ SegmentoUno(a)'
<1>1. segs \in [Procesos -> Seq(Segmento)]
  BY Tipos DEF TypeInv
<1>2. segs'[p] = <<>> /\ \A q \in Procesos \ {p} : segs'[q] = segs[q]
  BY <1>1
<1>3. tenia <=> \E x : DeSegmento(a, x) /\ x[1] = p
  <2>1. ASSUME NEW i \in DOMAIN segs[p], ~segs[p][i].enSwap, a \in Bytes(segs[p][i])
        PROVE  \E x : DeSegmento(a, x) /\ x[1] = p
    <3>1. DeSegmento(a, <<p, i>>) /\ <<p, i>>[1] = p
      BY <2>1, DeSegmentoEs
    <3> QED BY <3>1
  <2>2. ASSUME NEW x, DeSegmento(a, x), x[1] = p PROVE tenia
    <3>1. PICK q \in Procesos : \E j \in DOMAIN segs[q] :
            x = <<q, j>> /\ ~segs[q][j].enSwap /\ a \in Bytes(segs[q][j])
      BY <2>2, DeSegmentoEs
    <3>2. q = p
      BY <2>2, <3>1
    <3> QED BY <3>1, <3>2
  <2> QED BY <2>1, <2>2
<1>4. \A x : DeSegmento(a, x)' <=> DeSegmento(a, x) /\ x[1] # p
  <2> SUFFICES ASSUME NEW x PROVE DeSegmento(a, x)' <=> DeSegmento(a, x) /\ x[1] # p
    OBVIOUS
  <2>1. ASSUME DeSegmento(a, x), x[1] # p PROVE DeSegmento(a, x)'
    <3>1. PICK q \in Procesos : \E j \in DOMAIN segs[q] :
            x = <<q, j>> /\ ~segs[q][j].enSwap /\ a \in Bytes(segs[q][j])
      BY <2>1, DeSegmentoEs
    <3>2. q # p
      BY <2>1, <3>1
    <3> QED BY <1>2, <3>1, <3>2, DeSegmentoPrima
  <2>2. ASSUME DeSegmento(a, x)' PROVE DeSegmento(a, x) /\ x[1] # p
    <3>1. PICK q \in Procesos : \E j \in DOMAIN segs'[q] :
            x = <<q, j>> /\ ~segs'[q][j].enSwap /\ a \in Bytes(segs'[q][j])
      BY <2>2, DeSegmentoPrima
    <3>2. q # p
      BY <1>2, <3>1
    <3>3. x[1] = q
      BY <3>1
    <3> QED BY <1>2, <3>1, <3>2, <3>3, DeSegmentoEs
  <2> QED BY <2>1, <2>2
<1> QED BY <1>3, <1>4 DEF EnSegmento, SegmentoUno

\* A process has one less: those behind it go one place forward.
LEMMA SegmentoMenos ==
  ASSUME KernelMemoryAssumption, TypeInv, TypeInv', NEW p \in Procesos, NEW i \in DOMAIN segs[p],
         segs' = [segs EXCEPT ![p] = RemoveAt(segs[p], i)], NEW a, SegmentoUno(a),
         NEW tenia, tenia \in BOOLEAN,
         tenia <=> ~segs[p][i].enSwap /\ a \in Bytes(segs[p][i])
  PROVE  /\ tenia => EnSegmento(a)
         /\ EnSegmento(a)' <=> EnSegmento(a) /\ ~tenia
         /\ SegmentoUno(a)'
<1>1. segs \in [Procesos -> Seq(Segmento)] /\ segs[p] \in Seq(Segmento)
  BY Tipos DEF TypeInv
<1>4. PICK n \in Nat : n = Len(segs[p]) /\ DOMAIN segs[p] = 1 .. n
  BY <1>1, LenProperties
<1>5. /\ \A q \in Procesos \ {p} : segs'[q] = segs[q]
      /\ DOMAIN segs'[p] = 1 .. n - 1 /\ i \in 1 .. n
      /\ \A k \in 1 .. i - 1 : segs'[p][k] = segs[p][k]
      /\ \A k \in i .. n - 1 : segs'[p][k] = segs[p][k + 1]
  <2>1. segs'[p] = RemoveAt(segs[p], i) /\ \A q \in Procesos \ {p} : segs'[q] = segs[q]
    BY <1>1
  <2>2. /\ DOMAIN RemoveAt(segs[p], i) = 1 .. n - 1
        /\ \A k \in 1 .. i - 1 : RemoveAt(segs[p], i)[k] = segs[p][k]
        /\ \A k \in i .. n - 1 : RemoveAt(segs[p], i)[k] = segs[p][k + 1]
    <3>1. PICK w \in Seq(Segmento) : w = segs[p]
      BY <1>1
    <3>2. i \in DOMAIN w /\ n = Len(w)
      BY <1>4, <3>1
    <3>3. /\ DOMAIN RemoveAt(w, i) = 1 .. n - 1
          /\ \A k \in 1 .. i - 1 : RemoveAt(w, i)[k] = w[k]
          /\ \A k \in i .. n - 1 : RemoveAt(w, i)[k] = w[k + 1]
      BY <3>2, QuitarUno
    <3> QED BY <3>1, <3>3
  <2> QED BY <1>4, <2>1, <2>2
<1>3. DeSegmento(a, <<p, i>>) <=> tenia
  BY DeSegmentoEs
<1> DEFINE de(x) == IF x[1] = p /\ x[2] >= i THEN <<p, x[2] + 1>> ELSE x
\* Where a segment is now, and where it was.
<1>6. ASSUME NEW x, DeSegmento(a, x)'
      PROVE  DeSegmento(a, de(x)) /\ de(x) # <<p, i>> /\ x[2] \in Nat /\ x = <<x[1], x[2]>>
  <2>1. PICK q \in Procesos : \E k \in DOMAIN segs'[q] :
          x = <<q, k>> /\ ~segs'[q][k].enSwap /\ a \in Bytes(segs'[q][k])
    BY <1>6, DeSegmentoPrima
  <2>2. PICK k \in DOMAIN segs'[q] :
          x = <<q, k>> /\ ~segs'[q][k].enSwap /\ a \in Bytes(segs'[q][k])
    BY <2>1
  <2>3. CASE q # p
    <3>1. k \in DOMAIN segs[q] /\ segs'[q][k] = segs[q][k] /\ segs[q] \in Seq(Segmento)
      BY <1>1, <1>5, <2>2, <2>3
    <3>2. k \in Nat /\ de(x) = x /\ x # <<p, i>>
      BY <2>2, <2>3, <3>1
    <3> QED BY <2>2, <3>1, <3>2, DeSegmentoEs
  <2>4. CASE q = p /\ k < i
    <3>1. k \in 1 .. i - 1 /\ k \in DOMAIN segs[p]
      BY <1>4, <1>5, <2>2, <2>4
    <3>2. de(x) = x /\ segs'[p][k] = segs[p][k] /\ x # <<p, i>>
      BY <1>5, <2>2, <2>4, <3>1
    <3> QED BY <2>2, <2>4, <3>1, <3>2, DeSegmentoEs
  <2>5. CASE q = p /\ k >= i
    <3>1. k \in i .. n - 1 /\ k + 1 \in DOMAIN segs[p] /\ k + 1 # i
      BY <1>4, <1>5, <2>2, <2>5
    <3>2. de(x) = <<p, k + 1>> /\ segs'[p][k] = segs[p][k + 1]
      BY <1>5, <2>2, <2>5, <3>1
    <3>3. DeSegmento(a, <<p, k + 1>>) /\ <<p, k + 1>> # <<p, i>> /\ k \in Nat
      BY <1>5, <2>2, <2>5, <3>1, <3>2, DeSegmentoEs
    <3> QED BY <2>2, <2>5, <3>2, <3>3
  <2>6. q = p => k < i \/ k >= i
    BY <1>4, <1>5, <2>2
  <2> QED BY <2>3, <2>4, <2>5, <2>6
<1>7. ASSUME NEW y, DeSegmento(a, y), y # <<p, i>> PROVE EnSegmento(a)'
  <2>1. PICK q \in Procesos : \E k \in DOMAIN segs[q] :
          y = <<q, k>> /\ ~segs[q][k].enSwap /\ a \in Bytes(segs[q][k])
    BY <1>7, DeSegmentoEs
  <2>2. PICK k \in DOMAIN segs[q] :
          y = <<q, k>> /\ ~segs[q][k].enSwap /\ a \in Bytes(segs[q][k])
    BY <2>1
  <2>3. CASE q # p
    <3>1. k \in DOMAIN segs'[q] /\ segs'[q][k] = segs[q][k]
      BY <1>5, <2>2, <2>3
    <3>2. DeSegmento(a, <<q, k>>)'
      BY <2>2, <3>1, DeSegmentoPrima
    <3> QED BY <3>2 DEF EnSegmento
  <2>4. CASE q = p /\ k < i
    <3>1. k \in 1 .. i - 1 /\ k \in DOMAIN segs'[p]
      BY <1>4, <1>5, <2>2, <2>4
    <3>2. segs'[p][k] = segs[p][k]
      BY <1>5, <3>1
    <3>3. DeSegmento(a, <<p, k>>)'
      BY <2>2, <2>4, <3>1, <3>2, DeSegmentoPrima
    <3> QED BY <3>3 DEF EnSegmento
  <2>5. CASE q = p /\ k > i
    <3>1. PICK j \in Nat : j = k - 1
      BY <1>4, <1>5, <2>2, <2>5
    <3>2. j \in i .. n - 1 /\ j \in DOMAIN segs'[p] /\ j + 1 = k
      BY <1>4, <1>5, <2>2, <2>5, <3>1
    <3>3. segs'[p][j] = segs[p][k]
      BY <1>5, <3>2
    <3>4. DeSegmento(a, <<p, j>>)'
      BY <2>2, <2>5, <3>2, <3>3, DeSegmentoPrima
    <3> QED BY <3>4 DEF EnSegmento
  <2>6. q = p => k # i
    BY <1>7, <2>2
  <2>7. q = p => k < i \/ k = i \/ k > i
    BY <1>4, <1>5, <2>2
  <2> QED BY <2>3, <2>4, <2>5, <2>6, <2>7
<1> HIDE DEF de
<1>8. ASSUME NEW x, NEW y, x = <<x[1], x[2]>>, y = <<y[1], y[2]>>,
             x[2] \in Nat, y[2] \in Nat, de(x) = de(y)
      PROVE  x = y
  <2>1. i \in Nat
    BY <1>4, <1>5
  <2>2. ASSUME NEW z, z = <<z[1], z[2]>>
        PROVE  de(z)[1] = z[1] /\ de(z)[2] = IF z[1] = p /\ z[2] >= i THEN z[2] + 1 ELSE z[2]
    BY <2>2 DEF de
  <2>3. x[1] = y[1]
    BY <1>8, <2>2
  <2>4. (IF x[1] = p /\ x[2] >= i THEN x[2] + 1 ELSE x[2])
          = (IF y[1] = p /\ y[2] >= i THEN y[2] + 1 ELSE y[2])
    <3>1. de(x)[2] = IF x[1] = p /\ x[2] >= i THEN x[2] + 1 ELSE x[2]
      BY <1>8, <2>2
    <3>2. de(y)[2] = IF y[1] = p /\ y[2] >= i THEN y[2] + 1 ELSE y[2]
      BY <1>8, <2>2
    <3>3. de(x)[2] = de(y)[2]
      BY <1>8
    <3> QED BY <3>1, <3>2, <3>3
  <2>5. x[2] = y[2]
    BY <1>8, <2>1, <2>3, <2>4
  <2> QED BY <1>8, <2>3, <2>5
<1>9. SegmentoUno(a)'
  BY <1>6, <1>8 DEF SegmentoUno
<1>10. EnSegmento(a)' <=> EnSegmento(a) /\ ~tenia
  <2>1. ASSUME NEW x, DeSegmento(a, x)' PROVE EnSegmento(a) /\ ~tenia
    BY <1>3, <1>6, <2>1 DEF EnSegmento, SegmentoUno
  <2>2. ASSUME NEW y, DeSegmento(a, y), ~tenia PROVE EnSegmento(a)'
    BY <1>3, <1>7, <2>2
  <2> QED BY <2>1, <2>2 DEF EnSegmento
<1> QED BY <1>3, <1>9, <1>10 DEF EnSegmento

-----------------------------------------------------------------------------
(* The memory is partitioned.                                              *)

RepInv == MemInv /\ Reparto /\ Compacta

\* What a step does not touch keeps its bytes: holes, sticks, and those that nobody has.
LEMMA HuecosIguales ==
  ASSUME huecos' = huecos, Compactando' <=> Compactando, NEW a
  PROVE  (EnHueco(a)' <=> EnHueco(a)) /\ (HuecosUna(a)' <=> HuecosUna(a))
BY Zenon DEF EnHueco, HuecosUna, Cubre, UnaVez, Bytes

LEMMA SticksIguales == ASSUME stick' = stick, NEW a PROVE EnStick(a)' <=> EnStick(a)
BY Zenon DEF EnStick

LEMMA NadieIgual ==
  ASSUME fugas' = fugas, Compactando' <=> Compactando, NEW a PROVE EnNadie(a)' <=> EnNadie(a)
BY Zenon DEF EnNadie

\* What the phase of the serving thread says of the families.
LEMMA FaseEs ==
  ASSUME NEW a
  PROVE  /\ ks.fase # "registrar" => ~EnKs(a)
         /\ ~ConCola => ~EnCola(a) /\ ColaUna(a)
         /\ Compactando => ~EnHueco(a) /\ ~EnNadie(a) /\ HuecosUna(a)
BY DEF EnKs, EnCola, ColaUna, EnHueco, EnNadie, HuecosUna

LEMMA FaseEsPrima ==
  ASSUME NEW a
  PROVE  /\ ks'.fase # "registrar" => ~EnKs(a)'
         /\ ks'.fase \notin {"devolver", "reservar", "traer", "trabado"} =>
              ~EnCola(a)' /\ ColaUna(a)'
         /\ ks'.fase \in {"mover", "gran"} => ~EnHueco(a)' /\ ~EnNadie(a)' /\ HuecosUna(a)'
BY DEF EnKs, EnCola, ConCola, ColaUna, EnHueco, EnNadie, HuecosUna, Compactando

\* Outside compaction Compacta says nothing.
LEMMA CompactaVacia == ASSUME ks'.fase \notin {"mover", "gran", "crear"} PROVE Compacta'
BY DEF Compacta

\* While no byte is in two lists, the inventory holds of every byte.
LEMMA RepartoTodos ==
  ASSUME RepInv, dobles = {}
  PROVE  /\ \A a \in Nat : Exacto(a)
         /\ TypeInv /\ TypeOK /\ Reservas /\ SinSegmentos /\ MemoriaCompleta /\ Compacta
         /\ segs \in [Procesos -> Seq(Segmento)] /\ huecos \in Seq(Hueco) /\ ks \in Locales
         /\ ks.cola \in Seq(TramoTipo) /\ ks.base \in Nat /\ ks.tam \in Nat /\ total \in Nat
BY Tipos DEF RepInv, MemInv, TypeInv, Reparto

\* A step that leaves the bytes where they are.
LEMMA RepartoIgual ==
  ASSUME RepInv, UNCHANGED <<total, huecos, segs, stick, ks, fugas, dobles>>
  PROVE  Reparto' /\ Compacta'
<1>1. ASSUME NEW a PROVE Exacto(a)' <=> Exacto(a)
  <2>1. (Compactando' <=> Compactando) /\ (ConCola' <=> ConCola)
    BY DEF Compactando, ConCola
  <2>2. (EnKs(a)' <=> EnKs(a)) /\ (EnCola(a)' <=> EnCola(a)) /\ (ColaUna(a)' <=> ColaUna(a))
    BY <2>1, Zenon DEF EnKs, EnCola, ColaUna, Cubre, UnaVez, Bytes
  <2>3. (EnHueco(a)' <=> EnHueco(a)) /\ (HuecosUna(a)' <=> HuecosUna(a))
        /\ (EnNadie(a)' <=> EnNadie(a)) /\ (EnStick(a)' <=> EnStick(a))
    BY <2>1, HuecosIguales, NadieIgual, SticksIguales
  <2>4. (EnSegmento(a)' <=> EnSegmento(a)) /\ (SegmentoUno(a)' <=> SegmentoUno(a))
    BY SegmentosIguales
  <2>5. total' = total
    OBVIOUS
  <2> QED BY <2>1, <2>2, <2>3, <2>4, <2>5 DEF Exacto, UnoSolo, ALoSumo, Alguno
<1>2. Reparto'
  BY <1>1 DEF RepInv, Reparto
<1>3. Residentes' = Residentes
  BY Zenon DEF Residentes, EnTabla
<1>4. Compacta'
  <2>1. Movidos' = Movidos
    BY <1>3, Zenon DEF Movidos, PorMover
  <2> QED BY <1>3, <2>1, Zenon DEF RepInv, Compacta, Bytes
<1> QED BY <1>2, <1>4

\* The serving thread goes on and no byte changes hands.
LEMMA RepartoSoloKS ==
  ASSUME RepInv, dobles = {}, UNCHANGED <<total, huecos, segs, stick, fugas, dobles>>,
         ks.fase \notin {"registrar", "mover", "gran"},
         ks'.fase \notin {"registrar", "mover", "gran", "crear"},
         \/ /\ ks.fase \notin {"devolver", "reservar", "traer", "trabado"} \/ ks.cola = <<>>
            /\ ks'.fase \notin {"devolver", "reservar", "traer", "trabado"} \/ ks'.cola = <<>>
         \/ /\ ks.fase \in {"devolver", "reservar", "traer", "trabado"}
            /\ ks'.fase \in {"devolver", "reservar", "traer", "trabado"}
            /\ ks'.cola = ks.cola
  PROVE  Reparto' /\ Compacta'
<1>1. Compacta'
  BY CompactaVacia
<1>2. ASSUME NEW a \in Nat PROVE Exacto(a)'
  <2>1. ~Compactando' /\ ~Compactando
    BY DEF Compactando
  <2>2. (EnCola(a)' <=> EnCola(a)) /\ (ColaUna(a) => ColaUna(a)')
    <3>1. CASE /\ ks.fase \notin {"devolver", "reservar", "traer", "trabado"} \/ ks.cola = <<>>
               /\ ks'.fase \notin {"devolver", "reservar", "traer", "trabado"} \/ ks'.cola = <<>>
      <4>1. ~EnCola(a)
        BY <3>1, CubreNada DEF EnCola, ConCola
      <4>2. ~EnCola(a)' /\ ColaUna(a)'
        <5>1. ks'.cola = <<>> => ~Cubre(ks'.cola, a) /\ UnaVez(ks'.cola, a)
          BY DEF Cubre, UnaVez
        <5> QED BY <3>1, <5>1 DEF EnCola, ColaUna, ConCola, Cubre, UnaVez, Bytes
      <4> QED BY <4>1, <4>2
    <3>2. CASE /\ ks.fase \in {"devolver", "reservar", "traer", "trabado"}
               /\ ks'.fase \in {"devolver", "reservar", "traer", "trabado"}
               /\ ks'.cola = ks.cola
      <4>1. ConCola /\ ConCola'
        BY <3>2 DEF ConCola
      <4> QED BY <3>2, <4>1, Zenon DEF EnCola, ColaUna, Cubre, UnaVez, Bytes
    <3> QED BY <3>1, <3>2
  <2>3. ~EnKs(a) /\ ~EnKs(a)'
    BY FaseEs, FaseEsPrima
  <2>4. (EnHueco(a)' <=> EnHueco(a)) /\ (HuecosUna(a)' <=> HuecosUna(a))
        /\ (EnNadie(a)' <=> EnNadie(a)) /\ (EnStick(a)' <=> EnStick(a))
    BY <2>1, HuecosIguales, NadieIgual, SticksIguales
  <2>5. (EnSegmento(a)' <=> EnSegmento(a)) /\ (SegmentoUno(a)' <=> SegmentoUno(a))
    BY SegmentosIguales
  <2>6. Exacto(a) /\ total' = total
    BY RepartoTodos
  <2> QED BY <2>1, <2>2, <2>3, <2>4, <2>5, <2>6 DEF Exacto, UnoSolo, ALoSumo, Alguno
<1> QED BY <1>1, <1>2 DEF Reparto

\* A hole is taken, or part of one, and the serving thread has it.
LEMMA RepartoTomarHueco ==
  ASSUME KernelMemoryAssumption, RepInv, dobles = {}, NEW p \in Procesos, NEW id \in Ids,
         NEW tam \in Tamanios, TomarHueco(p, id, tam), ks.fase \in {"libre", "crear"}
  PROVE  Reparto' /\ Compacta'
<1>1. UNCHANGED <<total, segs, stick, fugas, dobles>>
  BY DEF TomarHueco, tablas, historia
<1>2. huecos \in Seq(Hueco) /\ tam \in Nat \ {0} /\ \A a \in Nat : Exacto(a)
  BY RepartoTodos DEF KernelMemoryAssumption
<1>3. CASE Candidatos(tam) = {}
  <2>1. huecos' = huecos /\ ks'.fase = "libre"
    BY <1>3, OciosoTipado DEF TomarHueco
  <2>2. ASSUME NEW a \in Nat PROVE Exacto(a)'
    <3>1. ~Compactando /\ ~Compactando'
      BY <2>1 DEF Compactando
    <3>2. /\ (EnHueco(a)' <=> EnHueco(a)) /\ (HuecosUna(a)' <=> HuecosUna(a))
          /\ (EnNadie(a)' <=> EnNadie(a)) /\ (EnStick(a)' <=> EnStick(a))
          /\ (EnSegmento(a)' <=> EnSegmento(a)) /\ (SegmentoUno(a)' <=> SegmentoUno(a))
      BY <1>1, <2>1, <3>1, HuecosIguales, NadieIgual, SticksIguales, SegmentosIguales
    <3>3. ~EnKs(a) /\ ~EnKs(a)' /\ ~EnCola(a) /\ ~EnCola(a)' /\ ColaUna(a)'
      BY <2>1, FaseEs, FaseEsPrima DEF ConCola
    <3>4. Exacto(a) /\ total' = total
      BY <1>1, <1>2
    <3> QED BY <3>1, <3>2, <3>3, <3>4 DEF Exacto, UnoSolo, ALoSumo, Alguno
  <2>3. Compacta'
    BY <2>1, CompactaVacia
  <2> QED BY <2>2, <2>3 DEF Reparto
<1>4. CASE Candidatos(tam) # {}
  <2>1. PICK i \in Candidatos(tam) : i = HuecoElegido(tam)
    BY <1>2, <1>4, ElegidoEsCandidato
  <2>2. PICK b \in Nat : b = huecos[i].base
    BY <1>2, <2>1, ConsumirTipado
  <2>3. /\ huecos' = ConsumirHueco(i, tam)
        /\ ks' = [Ocioso EXCEPT !.fase = "registrar", !.pid = p, !.id = id, !.tam = tam,
                                !.base = b]
    BY <1>4, <2>1, <2>2 DEF TomarHueco
  <2>4. ks'.fase = "registrar" /\ ks'.tam = tam /\ ks'.base = b
    BY <2>3 DEF Ocioso
  <2>5. ASSUME NEW a \in Nat PROVE Exacto(a)'
    <3>1. ~Compactando /\ ~Compactando'
      BY <2>4 DEF Compactando
    <3>2. /\ (EnNadie(a)' <=> EnNadie(a)) /\ (EnStick(a)' <=> EnStick(a))
          /\ (EnSegmento(a)' <=> EnSegmento(a)) /\ (SegmentoUno(a)' <=> SegmentoUno(a))
      BY <1>1, <3>1, NadieIgual, SticksIguales, SegmentosIguales
    <3>3. ~EnKs(a) /\ ~EnCola(a) /\ ~EnCola(a)' /\ ColaUna(a)'
      BY <2>4, FaseEs, FaseEsPrima DEF ConCola
    <3>4. Exacto(a) /\ total' = total
      BY <1>1, <1>2
    <3> DEFINE toma == b <= a /\ a < b + tam
    <3>5. EnKs(a)' <=> toma
      <4>1. a \in Bytes(ks') <=> a \in Nat /\ ks'.base <= a /\ a < ks'.base + ks'.tam
        BY <1>2, <2>4, BytesSon
      <4> QED BY <2>4, <4>1 DEF EnKs, Bytes
    <3>6. UnaVez(huecos, a)
      BY <3>1, <3>4 DEF Exacto, UnoSolo, HuecosUna
    <3>7. /\ toma => Cubre(huecos, a)
          /\ Cubre(huecos', a) <=> Cubre(huecos, a) /\ ~toma
          /\ UnaVez(huecos', a)
      BY <1>2, <2>1, <2>2, <2>3, <3>6, CubreConsumir
    <3>8. /\ EnHueco(a) <=> Cubre(huecos, a)
          /\ EnHueco(a)' <=> Cubre(huecos', a)
          /\ HuecosUna(a)' <=> UnaVez(huecos', a)
      BY <3>1 DEF EnHueco, HuecosUna, Cubre, UnaVez, Bytes
    <3> HIDE DEF toma
    <3> QED BY <3>1, <3>2, <3>3, <3>4, <3>5, <3>7, <3>8
            DEF Exacto, UnoSolo, ALoSumo, Alguno
  <2>6. Compacta'
    BY <2>4, CompactaVacia
  <2> QED BY <2>5, <2>6 DEF Reparto
<1> QED BY <1>3, <1>4

\* The thread goes on giving back until the queue is empty.
LEMMA FaseDevolver ==
  ASSUME TypeInv, Devolver
  PROVE  /\ ks'.fase \in {"devolver", "libre", "suspender"} /\ ks'.cola = Tail(ks.cola)
         /\ ks'.fase # "devolver" => Tail(ks.cola) = <<>>
<1> DEFINE f == IF Len(ks.cola) > 1 THEN "devolver" ELSE IF ks.i = 0 THEN "libre" ELSE "suspender"
<1>1. ks.fase = "devolver" /\ ks' = [ks EXCEPT !.cola = Tail(@), !.fase = f]
  BY DEF Devolver
<1>2. ks \in Locales /\ ks.cola # <<>>
  BY <1>1, Tipos DEF TypeInv, EnCurso
<1>3. /\ Tail(ks.cola) \in Seq(TramoTipo) /\ Len(ks.cola) \in Nat \ {0}
      /\ Tail(ks.cola) = <<>> <=> Len(ks.cola) = 1
  BY <1>2, PrimeroDeLaCola
<1>4. f \in {"devolver", "libre", "suspender"} /\ (f # "devolver" => Tail(ks.cola) = <<>>)
  <2>1. PICK n \in Nat \ {0} : n = Len(ks.cola)
    BY <1>3
  <2>2. n > 1 \/ n = 1
    OBVIOUS
  <2>3. n = 1 => Tail(ks.cola) = <<>>
    BY <1>3, <2>1
  <2>4. (Len(ks.cola) > 1) <=> n > 1
    BY ONLY <2>1
  <2>5. f = IF n > 1 THEN "devolver" ELSE IF ks.i = 0 THEN "libre" ELSE "suspender"
    BY <2>4, Zenon DEF f
  <2> HIDE DEF f
  <2> QED BY <2>2, <2>3, <2>5
<1> HIDE DEF f
<1> QED BY <1>1, <1>2, <1>3, <1>4 DEF Locales

\* When the thread has a queue of pieces in hand, they are its bytes.
LEMMA ColaPrima ==
  ASSUME ks'.fase \in {"devolver", "reservar", "traer", "trabado"}, NEW a
  PROVE  (EnCola(a)' <=> Cubre(ks'.cola, a)) /\ (ColaUna(a)' <=> UnaVez(ks'.cola, a))
BY DEF EnCola, ColaUna, ConCola, Cubre, UnaVez, Bytes

LEMMA ColaAhora ==
  ASSUME ks.fase \in {"devolver", "reservar", "traer", "trabado"}, NEW a
  PROVE  (EnCola(a) <=> Cubre(ks.cola, a)) /\ (ColaUna(a) <=> UnaVez(ks.cola, a))
BY DEF EnCola, ColaUna, ConCola

LEMMA BytesIguales ==
  ASSUME NEW t, NEW u, t.base = u.base, t.tam = u.tam PROVE Bytes(t) = Bytes(u)
BY DEF Bytes

\* The bytes the serving thread had are a segment's, or nobody's for good.
LEMMA RepartoRegistrar ==
  ASSUME KernelMemoryAssumption, RepInv, TypeInv', dobles = {}, Registrar
  PROVE  Reparto' /\ Compacta'
<1>1. /\ ks.fase = "registrar" /\ ks'.fase = "libre"
      /\ UNCHANGED <<total, huecos, stick, dobles>>
  BY OciosoTipado DEF Registrar
<1>2. /\ \A a \in Nat : Exacto(a)
      /\ segs \in [Procesos -> Seq(Segmento)] /\ TypeInv
  BY RepartoTodos
<1>3. PICK p \in Procesos : p = ks.pid
  BY <1>1, <1>2 DEF TypeInv, EnCurso
<1>4. PICK s : s = [id |-> ks.id, base |-> ks.base, tam |-> ks.tam, enSwap |-> FALSE,
                    bloque |-> MaxBit]
  OBVIOUS
<1>5. s.base = ks.base /\ s.tam = ks.tam /\ ~s.enSwap
  BY <1>4
<1>6. Bytes(s) = Bytes(ks)
  BY <1>5, BytesIguales
<1>7. ASSUME NEW a \in Nat PROVE Exacto(a)'
  <2>1. ~Compactando /\ ~Compactando'
    BY <1>1 DEF Compactando
  <2>2. /\ (EnHueco(a)' <=> EnHueco(a)) /\ (HuecosUna(a)' <=> HuecosUna(a))
        /\ (EnStick(a)' <=> EnStick(a))
    BY <1>1, <2>1, HuecosIguales, SticksIguales
  <2>3. /\ ~EnKs(a)' /\ ~EnCola(a) /\ ~EnCola(a)' /\ ColaUna(a)'
        /\ EnKs(a) <=> a \in Bytes(ks)
    BY <1>1, FaseEs, FaseEsPrima DEF ConCola, EnKs
  <2>4. Exacto(a) /\ total' = total
    BY <1>1, <1>2
  <2>5. CASE ks.pid \in procesos
    <3>1. segs' = [segs EXCEPT ![p] = Append(segs[p], s)] /\ fugas' = fugas
      BY <1>3, <1>4, <2>5 DEF Registrar
    <3>2. SegmentoUno(a)
      BY <2>4 DEF Exacto, UnoSolo
    <3>3. /\ EnSegmento(a)' <=> EnSegmento(a) \/ a \in Bytes(s)
          /\ ~(EnSegmento(a) /\ a \in Bytes(s)) => SegmentoUno(a)'
      BY <1>2, <1>5, <3>1, <3>2, SegmentoNuevo
    <3>4. EnNadie(a)' <=> EnNadie(a)
      BY <2>1, <3>1, NadieIgual
    <3> QED BY <1>6, <2>1, <2>2, <2>3, <2>4, <3>3, <3>4 DEF Exacto, UnoSolo, ALoSumo, Alguno
  <2>6. CASE ks.pid \notin procesos
    <3>1. segs' = segs /\ fugas' = fugas \cup Bytes(ks)
      BY <2>6 DEF Registrar
    <3>2. (EnSegmento(a)' <=> EnSegmento(a)) /\ (SegmentoUno(a)' <=> SegmentoUno(a))
      BY <3>1, SegmentosIguales
    <3>3. EnNadie(a)' <=> EnNadie(a) \/ a \in Bytes(ks)
      BY <2>1, <3>1 DEF EnNadie
    <3> QED BY <2>1, <2>2, <2>3, <2>4, <3>2, <3>3 DEF Exacto, UnoSolo, ALoSumo, Alguno
  <2> QED BY <2>5, <2>6
<1>8. Compacta'
  BY <1>1, CompactaVacia
<1> QED BY <1>1, <1>7, <1>8 DEF Reparto

\* The bytes of the segment wait to go back.  It was in memory: its process is complete.
LEMMA RepartoEliminar ==
  ASSUME KernelMemoryAssumption, RepInv, TypeInv', dobles = {},
         NEW p \in Procesos, NEW i \in DOMAIN segs[p], EliminarSegmento(p, i)
  PROVE  Reparto' /\ Compacta'
<1>1. /\ \A a \in Nat : Exacto(a)
      /\ segs \in [Procesos -> Seq(Segmento)] /\ TypeInv /\ MemoriaCompleta
  BY RepartoTodos
<1>2. PICK t : t = TramoDe(segs[p][i])
  OBVIOUS
<1>3. /\ segs' = [segs EXCEPT ![p] = RemoveAt(segs[p], i)] /\ ks.fase = "libre"
      /\ p \in procesos \ suspendidos /\ UNCHANGED <<total, huecos, stick, fugas, dobles>>
      /\ ks' = [Ocioso EXCEPT !.fase = "devolver", !.cola = <<t>>]
  BY <1>2 DEF EliminarSegmento, Corre, historia
<1>4. ~segs[p][i].enSwap
  BY <1>1, <1>3, CompletaEs DEF Exento
<1>5. t.base = segs[p][i].base /\ t.tam = segs[p][i].tam
  BY <1>2, <1>4 DEF TramoDe, Tramo
<1>6. ks'.fase = "devolver" /\ ks'.cola = <<t>> /\ Bytes(t) = Bytes(segs[p][i])
  BY <1>3, <1>5, BytesIguales DEF Ocioso
<1>7. ASSUME NEW a \in Nat PROVE Exacto(a)'
  <2>1. ~Compactando /\ ~Compactando'
    BY <1>3, <1>6 DEF Compactando
  <2>2. /\ (EnHueco(a)' <=> EnHueco(a)) /\ (HuecosUna(a)' <=> HuecosUna(a))
        /\ (EnStick(a)' <=> EnStick(a)) /\ (EnNadie(a)' <=> EnNadie(a))
    BY <1>3, <2>1, HuecosIguales, NadieIgual, SticksIguales
  <2>3. ~EnKs(a) /\ ~EnKs(a)' /\ ~EnCola(a)
    BY <1>3, <1>6, FaseEs, FaseEsPrima DEF ConCola
  <2>4. Exacto(a) /\ total' = total
    BY <1>1, <1>3
  <2>5. PICK tenia \in BOOLEAN : tenia <=> a \in Bytes(t)
    OBVIOUS
  <2>6. (EnCola(a)' <=> tenia) /\ ColaUna(a)'
    <3>1. (Cubre(<<t>>, a) <=> a \in Bytes(t)) /\ UnaVez(<<t>>, a)
      BY CubreUno
    <3> QED BY <1>6, <2>5, <3>1, ColaPrima
  <2>7. SegmentoUno(a)
    BY <2>4 DEF Exacto, UnoSolo
  <2>8. /\ tenia => EnSegmento(a)
        /\ EnSegmento(a)' <=> EnSegmento(a) /\ ~tenia
        /\ SegmentoUno(a)'
    <3>1. tenia <=> ~segs[p][i].enSwap /\ a \in Bytes(segs[p][i])
      BY <1>4, <1>6, <2>5
    <3> QED BY <1>1, <1>3, <2>7, <3>1, SegmentoMenos
  <2> QED BY <2>1, <2>2, <2>3, <2>4, <2>6, <2>8 DEF Exacto, UnoSolo, ALoSumo, Alguno
<1>8. Compacta'
  BY <1>6, CompactaVacia
<1> QED BY <1>3, <1>7, <1>8 DEF Reparto

\* The bytes of its segments wait to go back.  A segment in swap gives back byte 0, which
\* is not its own.
LEMMA RepartoFinalizar ==
  ASSUME KernelMemoryAssumption, RepInv, TypeInv', dobles = {}, NEW p \in Procesos,
         FinalizarProceso(p)
  PROVE  Reparto' /\ Compacta'
<1> DEFINE cola == [i \in DOMAIN segs[p] |-> TramoDe(segs[p][i])]
           enSwap == {segs[p][i] : i \in {j \in DOMAIN segs[p] : segs[p][j].enSwap}}
<1>1. /\ ks.fase = "libre" /\ segs' = [segs EXCEPT ![p] = <<>>]
      /\ ks' = IF cola = <<>> THEN Ocioso ELSE [Ocioso EXCEPT !.fase = "devolver", !.cola = cola]
      /\ dobles' = IF enSwap = {} THEN dobles ELSE dobles \cup {0}
      /\ UNCHANGED <<total, huecos, stick, fugas>>
  BY DEF FinalizarProceso
<1>2. /\ \A a \in Nat : Exacto(a)
      /\ segs \in [Procesos -> Seq(Segmento)] /\ TypeInv
  BY RepartoTodos
<1>3. /\ DOMAIN cola = DOMAIN segs[p]
      /\ \A i \in DOMAIN segs[p] : cola[i] = TramoDe(segs[p][i])
  OBVIOUS
<1>4. \A i \in DOMAIN segs[p] : segs[p][i].enSwap => 0 \in dobles'
  BY <1>1
<1> HIDE DEF cola, enSwap
<1>5. \/ ks'.fase = "libre" /\ cola = <<>>
      \/ ks'.fase = "devolver" /\ ks'.cola = cola
  <2>1. CASE cola = <<>>
    BY <1>1, <2>1, OciosoTipado
  <2>2. CASE cola # <<>>
    BY <1>1, <2>2 DEF Ocioso
  <2> QED BY <2>1, <2>2
<1>6. ASSUME NEW a \in Nat \ dobles' PROVE Exacto(a)'
  <2>1. ~Compactando /\ ~Compactando'
    BY <1>1, <1>5 DEF Compactando
  <2>2. /\ (EnHueco(a)' <=> EnHueco(a)) /\ (HuecosUna(a)' <=> HuecosUna(a))
        /\ (EnStick(a)' <=> EnStick(a)) /\ (EnNadie(a)' <=> EnNadie(a))
    BY <1>1, <2>1, HuecosIguales, NadieIgual, SticksIguales
  <2>3. ~EnKs(a) /\ ~EnKs(a)' /\ ~EnCola(a)
    BY <1>1, <1>5, FaseEs, FaseEsPrima DEF ConCola
  <2>4. Exacto(a) /\ total' = total
    BY <1>1, <1>2
  <2>5. SegmentoUno(a)
    BY <2>4 DEF Exacto, UnoSolo
  <2>6. \A i \in DOMAIN segs[p] :
          a \in Bytes(cola[i]) <=> ~segs[p][i].enSwap /\ a \in Bytes(segs[p][i])
    <3> TAKE i \in DOMAIN segs[p]
    <3>1. CASE segs[p][i].enSwap
      <4>0. cola[i] = Tramo(0, 1)
        BY <1>3, <3>1 DEF TramoDe
      <4>1. cola[i].base = 0 /\ cola[i].tam = 1
        BY <4>0 DEF Tramo
      <4>2. a \in Bytes(cola[i]) => a = 0
        BY <4>1, BytesSon
      <4> QED BY <1>4, <3>1, <4>2
    <3>2. CASE ~segs[p][i].enSwap
      <4>0. cola[i] = Tramo(segs[p][i].base, segs[p][i].tam)
        BY <1>3, <3>2 DEF TramoDe
      <4>1. cola[i].base = segs[p][i].base /\ cola[i].tam = segs[p][i].tam
        BY <4>0 DEF Tramo
      <4> QED BY <3>2, <4>1, BytesIguales
    <3> QED BY <3>1, <3>2
  <2>7. PICK tenia \in BOOLEAN : tenia <=> Cubre(cola, a)
    OBVIOUS
  <2>8. /\ tenia => EnSegmento(a)
        /\ EnSegmento(a)' <=> EnSegmento(a) /\ ~tenia
        /\ SegmentoUno(a)'
    <3>1. tenia <=> \E i \in DOMAIN segs[p] : ~segs[p][i].enSwap /\ a \in Bytes(segs[p][i])
      BY <1>3, <2>6, <2>7 DEF Cubre
    <3> QED BY <1>1, <1>2, <2>5, <3>1, SegmentosFuera
  <2>9. UnaVez(cola, a)
    <3> SUFFICES ASSUME NEW i \in DOMAIN segs[p], NEW j \in DOMAIN segs[p],
                        a \in Bytes(cola[i]), a \in Bytes(cola[j])
                 PROVE  i = j
      BY <1>3 DEF UnaVez
    <3>1. DeSegmento(a, <<p, i>>) /\ DeSegmento(a, <<p, j>>)
      BY <1>2, <2>6, DeSegmentoEs
    <3>2. <<p, i>> = <<p, j>>
      BY <2>5, <3>1 DEF SegmentoUno
    <3> QED BY <3>2
  <2>10. (EnCola(a)' <=> tenia) /\ ColaUna(a)'
    <3>1. CASE ks'.fase = "libre" /\ cola = <<>>
      BY <2>7, <3>1, CubreNada, FaseEsPrima
    <3>2. CASE ks'.fase = "devolver" /\ ks'.cola = cola
      BY <2>7, <2>9, <3>2, ColaPrima
    <3> QED BY <1>5, <3>1, <3>2
  <2> QED BY <2>1, <2>2, <2>3, <2>4, <2>8, <2>10 DEF Exacto, UnoSolo, ALoSumo, Alguno
<1>7. Compacta'
  BY <1>5, CompactaVacia
<1> QED BY <1>6, <1>7 DEF Reparto

\* The first piece that waits is a hole.
LEMMA RepartoDevolver ==
  ASSUME RepInv, dobles = {}, Devolver PROVE Reparto' /\ Compacta'
<1>1. /\ \A a \in Nat : Exacto(a)
      /\ TypeInv /\ huecos \in Seq(Hueco) /\ ks \in Locales /\ ks.cola \in Seq(TramoTipo)
  BY RepartoTodos
<1>2. /\ ks.fase = "devolver" /\ UNCHANGED <<total, segs, stick, fugas, dobles>>
      /\ ks'.fase \in {"devolver", "libre", "suspender"}
  BY <1>1, FaseDevolver DEF Devolver, tablas, historia
<1>3. ks.cola # <<>>
  BY <1>1, <1>2 DEF TypeInv, EnCurso
<1>4. PICK t : t = ks.cola[1]
  OBVIOUS
<1>5. PICK b \in Nat, n \in Nat : b = t.base /\ n = t.tam
  BY <1>1, <1>3, <1>4, PrimeroDeLaCola
<1>6. huecos' = AgregarHuecoLibre(b, n)
  BY <1>1, <1>3, <1>4, <1>5, PrimeroDeLaCola DEF Devolver
<1>7. ks'.cola = Tail(ks.cola) /\ (ks'.fase # "devolver" => Tail(ks.cola) = <<>>)
  BY <1>1, FaseDevolver
<1>8. ASSUME NEW a \in Nat PROVE Exacto(a)'
  <2>1. ~Compactando /\ ~Compactando'
    BY <1>2 DEF Compactando
  <2>2. /\ (EnStick(a)' <=> EnStick(a)) /\ (EnNadie(a)' <=> EnNadie(a))
        /\ (EnSegmento(a)' <=> EnSegmento(a)) /\ (SegmentoUno(a)' <=> SegmentoUno(a))
    BY <1>2, <2>1, NadieIgual, SticksIguales, SegmentosIguales
  <2>3. ~EnKs(a) /\ ~EnKs(a)'
    BY <1>2, FaseEs, FaseEsPrima
  <2>4. Exacto(a) /\ total' = total
    BY <1>1, <1>2
  <2>5. PICK da \in BOOLEAN : da <=> b <= a /\ a < b + n
    OBVIOUS
  <2>6. da <=> a \in Bytes(t)
    BY <1>5, <2>5, BytesSon
  <2>7. UnaVez(huecos, a) /\ UnaVez(ks.cola, a) /\ (EnCola(a) <=> Cubre(ks.cola, a))
    BY <1>2, <2>1, <2>4, ColaAhora DEF Exacto, UnoSolo, HuecosUna
  <2>8. /\ Cubre(Tail(ks.cola), a) <=> Cubre(ks.cola, a) /\ ~da
        /\ UnaVez(Tail(ks.cola), a)
        /\ da => Cubre(ks.cola, a)
    <3>1. da => Cubre(ks.cola, a)
      BY <1>1, <1>3, <1>4, <2>6, PrimeroDeLaCola DEF Cubre
    <3> QED BY <1>1, <1>3, <1>4, <2>6, <2>7, <3>1, CubreSinPrimero
  <2>9. (EnCola(a)' <=> Cubre(Tail(ks.cola), a)) /\ ColaUna(a)'
    <3>1. CASE ks'.fase = "devolver"
      BY <1>7, <2>8, <3>1, ColaPrima
    <3>2. CASE ks'.fase # "devolver"
      BY <1>2, <1>7, <3>2, CubreNada, FaseEsPrima
    <3> QED BY <3>1, <3>2
  <2>10. /\ Cubre(huecos', a) <=> Cubre(huecos, a) \/ da
         /\ ~(Cubre(huecos, a) /\ da) => UnaVez(huecos', a)
    BY <1>1, <1>6, <2>5, <2>7, CubreLibre
  <2>11. /\ EnHueco(a) <=> Cubre(huecos, a)
         /\ EnHueco(a)' <=> Cubre(huecos', a)
         /\ HuecosUna(a)' <=> UnaVez(huecos', a)
    BY <2>1 DEF EnHueco, HuecosUna, Cubre, UnaVez, Bytes
  <2> QED BY <2>1, <2>2, <2>3, <2>4, <2>7, <2>8, <2>9, <2>10, <2>11
          DEF Exacto, UnoSolo, ALoSumo, Alguno
<1>9. Compacta'
  BY <1>2, CompactaVacia
<1> QED BY <1>8, <1>9 DEF Reparto

\* The bytes of a segment that goes to swap wait to go back.
LEMMA RepartoSuspender ==
  ASSUME KernelMemoryAssumption, RepInv, TypeInv', dobles = {}, SuspenderSegmento
  PROVE  Reparto' /\ Compacta'
<1>1. /\ \A a \in Nat : Exacto(a)
      /\ segs \in [Procesos -> Seq(Segmento)] /\ TypeInv /\ ks \in Locales
  BY RepartoTodos
<1>2. PICK s : s = segs[ks.pid][ks.i]
  OBVIOUS
<1>3. /\ ks.fase = "suspender" /\ ks.i \in DOMAIN segs[ks.pid] /\ ks.i \in Nat \ {0}
      /\ ks.pid \in Procesos /\ s \in Segmento
      /\ UNCHANGED <<total, huecos, stick, procesos, suspendidos, pedidas, fugas, sinDuenio,
                     dobles>>
  BY <1>1, <1>2, SuspenderSegmentoEs
<1>4. CASE /\ ks' = [ks EXCEPT !.i = @ + 1] /\ UNCHANGED <<segs, swap, mem, caida>>
  <2>1. PICK j : j = ks.i + 1
    OBVIOUS
  <2>2. ks' = [ks EXCEPT !.i = j]
    BY <1>4, <2>1
  <2>3. ks'.fase = "suspender"
    BY <1>1, <1>3, <2>2 DEF Locales
  <2> QED BY <1>3, <1>4, <2>3, RepartoSoloKS
<1>5. CASE caida' = TRUE /\ UNCHANGED <<ks, segs, swap, mem>>
  BY <1>3, <1>5, RepartoIgual
<1>6. ASSUME ~s.enSwap, NEW b0 \in LibresEnSwap(BloquesNecesarios(s.tam)),
             segs' = ConSegmento(ks.pid, ks.i, [s EXCEPT !.enSwap = TRUE, !.base = 0,
                                                         !.bloque = b0]),
             ks' = [ks EXCEPT !.fase = "devolver", !.i = @ + 1,
                              !.cola = <<Tramo(s.base, s.tam)>>]
      PROVE  Reparto' /\ Compacta'
  <2>1. PICK n \in Nat \ {0} : n = BloquesNecesarios(s.tam)
    BY <1>1, <1>3, BloquesPositivos, SegmentoEs
  <2>2. b0 \in Bits
    <3>1. LibresEnSwap(n) # {} /\ b0 \in LibresEnSwap(n)
      BY <1>6, <2>1
    <3> QED BY <3>1, LibresSon
  <2>3. PICK m : m = [s EXCEPT !.enSwap = TRUE, !.base = 0, !.bloque = b0]
    OBVIOUS
  <2>4. m \in Segmento /\ m.enSwap
    BY <1>3, <2>2, <2>3 DEF Segmento
  <2>5a. PICK p \in Procesos : p = ks.pid
    BY <1>3
  <2>5b. PICK i : i = ks.i
    OBVIOUS
  <2>5. p = ks.pid /\ i = ks.i
    BY <2>5a, <2>5b
  <2>6. segs' = ConSegmento(p, i, m) /\ i \in DOMAIN segs[p] /\ ~segs[p][i].enSwap
        /\ s = segs[p][i]
    BY <1>2, <1>3, <1>6, <2>3, <2>5
  <2>7. PICK t : t = Tramo(s.base, s.tam)
    OBVIOUS
  <2>8. t.base = s.base /\ t.tam = s.tam
    BY <2>7 DEF Tramo
  <2>9. ks'.fase = "devolver" /\ ks'.cola = <<t>>
    <3>1. PICK j : j = ks.i + 1
      OBVIOUS
    <3>2. ks' = [ks EXCEPT !.fase = "devolver", !.i = j, !.cola = <<t>>]
      BY <1>6, <2>7, <3>1
    <3> QED BY <1>1, <3>2 DEF Locales
  <2>10. ASSUME NEW a \in Nat PROVE Exacto(a)'
    <3>1. ~Compactando /\ ~Compactando'
      BY <1>3, <2>9 DEF Compactando
    <3>2. /\ (EnHueco(a)' <=> EnHueco(a)) /\ (HuecosUna(a)' <=> HuecosUna(a))
          /\ (EnStick(a)' <=> EnStick(a)) /\ (EnNadie(a)' <=> EnNadie(a))
      BY <1>3, <3>1, HuecosIguales, NadieIgual, SticksIguales
    <3>3. ~EnKs(a) /\ ~EnKs(a)' /\ ~EnCola(a)
      BY <1>3, <2>9, FaseEs, FaseEsPrima DEF ConCola
    <3>4. Exacto(a) /\ total' = total
      BY <1>1, <1>3
    <3>5. PICK tenia \in BOOLEAN : tenia <=> a \in Bytes(t)
      OBVIOUS
    <3>6. (EnCola(a)' <=> tenia) /\ ColaUna(a)'
      <4>1. (Cubre(<<t>>, a) <=> a \in Bytes(t)) /\ UnaVez(<<t>>, a)
        BY CubreUno
      <4> QED BY <2>9, <3>5, <4>1, ColaPrima
    <3>7. SegmentoUno(a)
      BY <3>4 DEF Exacto, UnoSolo
    <3>8. /\ tenia => EnSegmento(a)
          /\ EnSegmento(a)' <=> EnSegmento(a) /\ ~tenia
          /\ SegmentoUno(a)'
      <4>1. tenia <=> ~segs[p][i].enSwap /\ a \in Bytes(segs[p][i])
        BY <2>6, <2>8, <3>5, BytesIguales
      <4>2. FALSE <=> ~m.enSwap /\ a \in Bytes(m)
        BY <2>4
      <4> QED BY <1>1, <2>4, <2>6, <3>7, <4>1, <4>2, SegmentoCambia
    <3> QED BY <3>1, <3>2, <3>3, <3>4, <3>6, <3>8 DEF Exacto, UnoSolo, ALoSumo, Alguno
  <2>11. Compacta'
    BY <2>9, CompactaVacia
  <2> QED BY <1>3, <2>10, <2>11 DEF Reparto
<1>7. QED
  BY <1>1, <1>2, <1>4, <1>5, <1>6, SuspenderSegmentoEs

\* A hole for a segment in swap waits with those taken before.
LEMMA RepartoReservar ==
  ASSUME KernelMemoryAssumption, RepInv, dobles = {}, Reservar PROVE Reparto' /\ Compacta'
<1>1. /\ \A a \in Nat : Exacto(a)
      /\ segs \in [Procesos -> Seq(Segmento)] /\ TypeInv /\ ks \in Locales
      /\ huecos \in Seq(Hueco) /\ ks.cola \in Seq(TramoTipo)
  BY RepartoTodos
<1>2. /\ ks.fase = "reservar" /\ ks.i \in Nat \ {0} /\ ks.pid \in Procesos
      /\ UNCHANGED <<total, segs, stick, fugas, dobles>>
  BY <1>1, ReservarEs, Zenon DEF tablas, historia
<1>3. CASE ks' = [ks EXCEPT !.i = @ + 1] /\ huecos' = huecos
  <2>1. PICK j : j = ks.i + 1
    OBVIOUS
  <2>2. ks' = [ks EXCEPT !.i = j]
    BY <1>3, <2>1
  <2>3. ks'.fase = "reservar" /\ ks'.cola = ks.cola
    BY <1>1, <1>2, <2>2 DEF Locales
  <2> QED BY <1>2, <1>3, <2>3, RepartoSoloKS
<1>4. CASE ks' = [ks EXCEPT !.fase = "traer"] /\ huecos' = huecos
  <2>1. ks'.fase = "traer" /\ ks'.cola = ks.cola
    BY <1>1, <1>4 DEF Locales
  <2> QED BY <1>2, <1>4, <2>1, RepartoSoloKS
<1>5. CASE ks' = NoEntra /\ huecos' = huecos
  <2>1. CASE ks.cola = <<>>
    <3>1. ks'.fase = "libre"
      BY <1>5, <2>1, OciosoTipado DEF NoEntra
    <3> QED BY <1>2, <1>5, <2>1, <3>1, RepartoSoloKS
  <2>2. CASE ks.cola # <<>>
    <3>1. ks' = [ks EXCEPT !.fase = "trabado"]
      BY <1>5, <2>2 DEF NoEntra
    <3>2. ks'.fase = "trabado" /\ ks'.cola = ks.cola
      BY <1>1, <3>1 DEF Locales
    <3> QED BY <1>2, <1>5, <3>2, RepartoSoloKS
  <2> QED BY <2>1, <2>2
<1>6. ASSUME ks.i \in DOMAIN segs[ks.pid], NEW h \in Candidatos(segs[ks.pid][ks.i].tam),
             huecos' = ConsumirHueco(h, segs[ks.pid][ks.i].tam),
             ks' = [ks EXCEPT !.i = @ + 1, !.cola = Append(@,
                       [pid |-> ks.pid, i |-> ks.i, base |-> huecos[h].base,
                        tam |-> segs[ks.pid][ks.i].tam])]
      PROVE  Reparto' /\ Compacta'
  <2>1. PICK tam \in Nat \ {0} : tam = segs[ks.pid][ks.i].tam
    <3>1. segs[ks.pid][ks.i] \in Segmento
      BY <1>1, <1>2, <1>6
    <3> QED BY <3>1, SegmentoEs
  <2>2. h \in Candidatos(tam) /\ huecos' = ConsumirHueco(h, tam)
    BY <1>6, <2>1
  <2>3. PICK b \in Nat : b = huecos[h].base
    BY <1>1, <2>2, ConsumirTipado
  <2>4. PICK t : t = [pid |-> ks.pid, i |-> ks.i, base |-> b, tam |-> tam]
    OBVIOUS
  <2>5. t.base = b /\ t.tam = tam
    BY <2>4
  <2>6. ks'.fase = "reservar" /\ ks'.cola = Append(ks.cola, t)
    <3>1. PICK j, c : j = ks.i + 1 /\ c = Append(ks.cola, t)
      OBVIOUS
    <3>2. ks' = [ks EXCEPT !.i = j, !.cola = c]
      BY <1>6, <2>1, <2>3, <2>4, <3>1
    <3> QED BY <1>1, <1>2, <3>1, <3>2 DEF Locales
  <2>7. ASSUME NEW a \in Nat PROVE Exacto(a)'
    <3>1. ~Compactando /\ ~Compactando'
      BY <1>2, <2>6 DEF Compactando
    <3>2. /\ (EnStick(a)' <=> EnStick(a)) /\ (EnNadie(a)' <=> EnNadie(a))
          /\ (EnSegmento(a)' <=> EnSegmento(a)) /\ (SegmentoUno(a)' <=> SegmentoUno(a))
      BY <1>2, <3>1, NadieIgual, SticksIguales, SegmentosIguales
    <3>3. ~EnKs(a) /\ ~EnKs(a)'
      BY <1>2, <2>6, FaseEs, FaseEsPrima
    <3>4. Exacto(a) /\ total' = total
      BY <1>1, <1>2
    <3>5. PICK toma \in BOOLEAN : toma <=> b <= a /\ a < b + tam
      OBVIOUS
    <3>6. toma <=> a \in Bytes(t)
      BY <2>5, <3>5, BytesSon
    <3>7. UnaVez(huecos, a) /\ UnaVez(ks.cola, a) /\ (EnCola(a) <=> Cubre(ks.cola, a))
      BY <1>2, <3>1, <3>4, ColaAhora DEF Exacto, UnoSolo, HuecosUna
    <3>8. /\ toma => Cubre(huecos, a)
          /\ Cubre(huecos', a) <=> Cubre(huecos, a) /\ ~toma
          /\ UnaVez(huecos', a)
      BY <1>1, <2>2, <2>3, <3>5, <3>7, CubreConsumir
    <3>9. /\ EnCola(a)' <=> Cubre(ks.cola, a) \/ toma
          /\ ~(Cubre(ks.cola, a) /\ toma) => ColaUna(a)'
      <4>1. /\ Cubre(Append(ks.cola, t), a) <=> Cubre(ks.cola, a) \/ a \in Bytes(t)
            /\ ~(Cubre(ks.cola, a) /\ a \in Bytes(t)) => UnaVez(Append(ks.cola, t), a)
        BY <1>1, <3>7, CubreAgregar
      <4> QED BY <2>6, <3>6, <4>1, ColaPrima
    <3>10. /\ EnHueco(a) <=> Cubre(huecos, a)
           /\ EnHueco(a)' <=> Cubre(huecos', a)
           /\ HuecosUna(a)' <=> UnaVez(huecos', a)
      BY <3>1 DEF EnHueco, HuecosUna, Cubre, UnaVez, Bytes
    <3> QED BY <3>1, <3>2, <3>3, <3>4, <3>7, <3>8, <3>9, <3>10
            DEF Exacto, UnoSolo, ALoSumo, Alguno
  <2>8. Compacta'
    BY <2>6, CompactaVacia
  <2> QED BY <1>2, <2>7, <2>8 DEF Reparto
<1>7. QED
  BY <1>1, <1>3, <1>4, <1>5, <1>6, ReservarEs

\* The first hole that waits is the segment's it was reserved for.
LEMMA RepartoTraer ==
  ASSUME KernelMemoryAssumption, RepInv, TypeInv', dobles = {}, Traer
  PROVE  Reparto' /\ Compacta'
<1>1. /\ \A a \in Nat : Exacto(a)
      /\ segs \in [Procesos -> Seq(Segmento)] /\ TypeInv /\ ks \in Locales /\ Reservas
      /\ ks.cola \in Seq(TramoTipo)
  BY RepartoTodos
<1>2. /\ ks.fase = "traer" /\ ks.pid \in Procesos
      /\ UNCHANGED <<total, huecos, stick, procesos, pedidas, fugas, sinDuenio, dobles>>
  BY <1>1, TraerEs
<1>3. CASE ks.cola = <<>> /\ ks' = Ocioso /\ UNCHANGED <<segs, swap, mem, caida>>
  <2>1. ks'.fase = "libre"
    BY <1>3, OciosoTipado
  <2> QED BY <1>2, <1>3, <2>1, RepartoSoloKS
<1>4. CASE UNCHANGED <<ks, segs, suspendidos, swap, mem>>
  BY <1>2, <1>4, RepartoIgual
<1>5. ASSUME ks.cola # <<>>, ks'.fase = "traer", ks'.cola = Tail(ks.cola),
             ks.cola[1].pid \in Procesos, ks.cola[1].i \in DOMAIN segs[ks.cola[1].pid],
             NEW m \in Segmento, ~m.enSwap, m.base = ks.cola[1].base,
             m.tam = segs[ks.cola[1].pid][ks.cola[1].i].tam,
             segs' = ConSegmento(ks.cola[1].pid, ks.cola[1].i, m)
      PROVE  Reparto' /\ Compacta'
  <2>1a. PICK p \in Procesos : p = ks.cola[1].pid
    BY <1>5
  <2>1b. PICK i : i = ks.cola[1].i
    OBVIOUS
  <2>1c. PICK t : t = ks.cola[1]
    OBVIOUS
  <2>1. p = ks.cola[1].pid /\ i = ks.cola[1].i /\ t = ks.cola[1]
    BY <2>1a, <2>1b, <2>1c
  <2>2. 1 \in DOMAIN ks.cola /\ t.base \in Nat /\ t.tam \in Nat
    BY <1>1, <1>5, <2>1, PrimeroDeLaCola
  <2>3. i \in DOMAIN segs[p] /\ segs' = ConSegmento(p, i, m)
    BY <1>5, <2>1
  <2>4. segs[p][i].enSwap /\ t.tam = segs[p][i].tam
    BY <1>1, <1>2, <2>1, <2>2 DEF Reservas
  <2>5. Bytes(m) = Bytes(t)
    <3>1. m.base = t.base /\ m.tam = t.tam
      BY <1>5, <2>1, <2>4
    <3> QED BY <3>1, BytesIguales
  <2>6. ASSUME NEW a \in Nat PROVE Exacto(a)'
    <3>1. ~Compactando /\ ~Compactando'
      BY <1>2, <1>5 DEF Compactando
    <3>2. /\ (EnHueco(a)' <=> EnHueco(a)) /\ (HuecosUna(a)' <=> HuecosUna(a))
          /\ (EnStick(a)' <=> EnStick(a)) /\ (EnNadie(a)' <=> EnNadie(a))
      BY <1>2, <3>1, HuecosIguales, NadieIgual, SticksIguales
    <3>3. ~EnKs(a) /\ ~EnKs(a)'
      BY <1>2, <1>5, FaseEs, FaseEsPrima
    <3>4. Exacto(a) /\ total' = total
      BY <1>1, <1>2
    <3>5. PICK da \in BOOLEAN : da <=> a \in Bytes(t)
      OBVIOUS
    <3>6. UnaVez(ks.cola, a) /\ (EnCola(a) <=> Cubre(ks.cola, a)) /\ SegmentoUno(a)
      BY <1>2, <3>4, ColaAhora DEF Exacto, UnoSolo
    <3>7. /\ Cubre(Tail(ks.cola), a) <=> Cubre(ks.cola, a) /\ ~da
          /\ UnaVez(Tail(ks.cola), a)
          /\ da => Cubre(ks.cola, a)
      <4>1. da => Cubre(ks.cola, a)
        BY <2>1, <2>2, <3>5 DEF Cubre
      <4> QED BY <1>1, <1>5, <2>1, <3>5, <3>6, <4>1, CubreSinPrimero
    <3>8. (EnCola(a)' <=> Cubre(ks.cola, a) /\ ~da) /\ ColaUna(a)'
      BY <1>5, <3>7, ColaPrima
    <3>9. /\ EnSegmento(a)' <=> EnSegmento(a) \/ da
          /\ ~(EnSegmento(a) /\ da) => SegmentoUno(a)'
      <4>1. FALSE <=> ~segs[p][i].enSwap /\ a \in Bytes(segs[p][i])
        BY <2>4
      <4>2. da <=> ~m.enSwap /\ a \in Bytes(m)
        BY <1>5, <2>5, <3>5
      <4> QED BY <1>1, <1>5, <2>3, <3>6, <4>1, <4>2, SegmentoCambia
    <3> QED BY <3>1, <3>2, <3>3, <3>4, <3>6, <3>7, <3>8, <3>9
            DEF Exacto, UnoSolo, ALoSumo, Alguno
  <2>7. Compacta'
    BY <1>5, CompactaVacia
  <2> QED BY <1>2, <2>6, <2>7 DEF Reparto
<1>6. QED
  BY <1>1, <1>3, <1>4, <1>5, TraerEs

\* The tables of segments and what compaction has still to move decide what it has moved.
LEMMA MovidosIguales ==
  ASSUME segs' = segs, ks'.cola = ks.cola PROVE Residentes' = Residentes /\ Movidos' = Movidos
<1>1. Residentes' = Residentes
  BY Zenon DEF Residentes, EnTabla
<1>2. PorMover' = PorMover
  BY Zenon DEF PorMover
<1> QED BY <1>1, <1>2, Zenon DEF Movidos

\* Below ks.base there are only segments.
LEMMA BajoLaBase ==
  ASSUME Compacta, ks.fase \in {"mover", "gran", "crear"}, NEW a \in Nat, a < ks.base
  PROVE  EnSegmento(a)
<1>1. PICK x \in Movidos : a \in Bytes(segs[x[1]][x[2]])
  BY DEF Compacta
<1>2. DeSegmento(a, x)
  BY <1>1 DEF DeSegmento, Movidos
<1> QED BY <1>2 DEF EnSegmento

\* A stick connects: its bytes are new.
LEMMA RepartoAumentar ==
  ASSUME KernelMemoryAssumption, RepInv, dobles = {}, NEW k \in Sticks, AumentarMemoriaTotal(k)
  PROVE  Reparto' /\ Compacta'
<1>1. /\ \A a \in Nat : Exacto(a)
      /\ TypeInv /\ TypeOK /\ total \in Nat /\ huecos \in Seq(Hueco) /\ ks.base \in Nat
      /\ Compacta
  BY RepartoTodos
<1>2. PICK T \in Nat \ {0} : T = TamStick[k]
  BY DEF KernelMemoryAssumption, Sticks
<1>3. PICK n : n = [fase |-> "hueco", base |-> total]
  OBVIOUS
<1>4. n.fase = "hueco" /\ n.base = total
  BY <1>3
<1>5. /\ stick[k].fase = "no" /\ stick' = [stick EXCEPT ![k] = n] /\ total' = total + T
      /\ UNCHANGED <<huecos, segs, ks, fugas, dobles>>
  BY <1>2, <1>3 DEF AumentarMemoriaTotal, tablas, historia
<1>6. stick'[k] = n /\ \A j \in Sticks \ {k} : stick'[j] = stick[j]
  BY <1>1, <1>5 DEF TypeOK
<1>7. ASSUME NEW a \in Nat PROVE Exacto(a)'
  <2>1. (Compactando' <=> Compactando) /\ (ConCola' <=> ConCola)
    BY <1>5 DEF Compactando, ConCola
  <2>2. (EnKs(a)' <=> EnKs(a)) /\ (EnCola(a)' <=> EnCola(a)) /\ (ColaUna(a)' <=> ColaUna(a))
    BY <1>5, <2>1, Zenon DEF EnKs, EnCola, ColaUna, Cubre, UnaVez, Bytes
  <2>3. /\ (EnHueco(a)' <=> EnHueco(a)) /\ (HuecosUna(a)' <=> HuecosUna(a))
        /\ (EnNadie(a)' <=> EnNadie(a))
        /\ (EnSegmento(a)' <=> EnSegmento(a)) /\ (SegmentoUno(a)' <=> SegmentoUno(a))
    BY <1>5, <2>1, HuecosIguales, NadieIgual, SegmentosIguales
  <2>4. PICK da \in BOOLEAN : da <=> total <= a /\ a < total + T
    OBVIOUS
  <2>5. EnStick(a)' <=> EnStick(a) \/ da
    <3>1. a \in stick'[k].base .. stick'[k].base + TamStick[k] - 1 <=> da
      BY <1>1, <1>2, <1>4, <1>6, <2>4
    <3>2. ASSUME NEW j \in Sticks \ {k}
          PROVE  (stick'[j].fase = "hueco" /\ a \in stick'[j].base .. stick'[j].base + TamStick[j] - 1)
             <=> (stick[j].fase = "hueco" /\ a \in stick[j].base .. stick[j].base + TamStick[j] - 1)
      BY <1>6
    <3>3. stick'[k].fase = "hueco" /\ stick[k].fase # "hueco"
      BY <1>4, <1>5, <1>6
    <3> QED BY <3>1, <3>2, <3>3, Zenon DEF EnStick
  <2>6. Exacto(a)
    BY <1>1
  <2>7. /\ da => a >= total
        /\ a >= total' => a >= total
        /\ a < total' <=> a < total \/ da
        /\ a < total <=> ~(a >= total)
        /\ a >= total' => ~da
    BY <1>1, <1>5, <2>4
  <2> QED BY <2>1, <2>2, <2>3, <2>5, <2>6, <2>7 DEF Exacto, UnoSolo, ALoSumo, Alguno
<1>8. Compacta'
  <2>1. Residentes' = Residentes /\ Movidos' = Movidos
    BY <1>5, MovidosIguales
  <2>2. ks.base <= total => ks.base <= total'
    BY <1>1, <1>5
  <2>3. ASSUME NEW i \in DOMAIN huecos, huecos[i].base + huecos[i].tam <= total
        PROVE  huecos[i].base + huecos[i].tam <= total'
    <3>1. huecos[i] \in Hueco
      BY <1>1
    <3> QED BY <1>1, <1>5, <2>3, <3>1 DEF Hueco
  <2>4. UNCHANGED <<ks, segs, huecos>>
    BY <1>5
  <2> QED BY <1>1, <2>1, <2>2, <2>3, <2>4, Zenon DEF Compacta, Bytes
<1> QED BY <1>5, <1>7, <1>8 DEF Reparto

\* The holes once a stick has put its own.
LEMMA HuecosConMs ==
  ASSUME huecos \in Seq(Hueco), NEW b \in Nat, NEW t \in Nat,
         NEW j \in DOMAIN AgregarHuecoMs(b, t), NEW h, h = AgregarHuecoMs(b, t)[j]
  PROVE  \/ \E i \in DOMAIN huecos : h = huecos[i]
         \/ /\ h.base = b \/ \E i \in DOMAIN huecos : h.base = huecos[i].base
            /\ h.base + h.tam = b + t
<1> DEFINE pegados == {i \in DOMAIN huecos : huecos[i].base + huecos[i].tam = b}
<1>1. CASE pegados = {}
  <2>1. PICK nuevo : nuevo = [base |-> b, tam |-> t]
    OBVIOUS
  <2>2. nuevo.base = b /\ nuevo.tam = t
    BY <2>1
  <2>3. AgregarHuecoMs(b, t) = Append(huecos, nuevo)
    BY <1>1, <2>1 DEF AgregarHuecoMs, AgregarHuecoLibre
  <2>4. \/ Append(huecos, nuevo)[j] = nuevo
        \/ j \in DOMAIN huecos /\ Append(huecos, nuevo)[j] = huecos[j]
    BY <2>3, AgregarALaTabla
  <2> QED BY <2>2, <2>3, <2>4
<1>2. CASE pegados # {}
  <2>1. pegados \in SUBSET Nat
    OBVIOUS
  <2>2. PICK i \in pegados : i = Min(pegados)
    BY <1>2, <2>1, MinEsMenor
  <2>3. i \in DOMAIN huecos /\ huecos[i] \in Hueco /\ huecos[i].base + huecos[i].tam = b
    BY <2>2
  <2>4. PICK hb \in Nat, ht \in Nat : hb = huecos[i].base /\ ht = huecos[i].tam
    BY <2>3 DEF Hueco
  <2>5. PICK nuevo : nuevo = [base |-> hb, tam |-> ht + t]
    OBVIOUS
  <2>6. AgregarHuecoMs(b, t) = Append(RemoveAt(huecos, i), nuevo)
    BY <1>2, <2>2, <2>4, <2>5 DEF AgregarHuecoMs
  <2>7. nuevo.base = hb /\ nuevo.base + nuevo.tam = b + t
    <3>1. nuevo.base = hb /\ nuevo.tam = ht + t
      BY <2>5
    <3>2. hb + ht = b
      BY <2>3, <2>4
    <3>3. hb + (ht + t) = b + t
      BY <3>2
    <3> QED BY <3>1, <3>3
  <2>8. PICK w \in Seq(Hueco) : w = RemoveAt(huecos, i)
    BY <2>3, QuitarDeLaTabla
  <2>9. \A l \in DOMAIN w : \E m \in DOMAIN huecos : w[l] = huecos[m]
    BY <2>3, <2>8, QuitarDeLaTabla
  <2>10. Append(w, nuevo)[j] = nuevo \/ (j \in DOMAIN w /\ Append(w, nuevo)[j] = w[j])
    BY <2>6, <2>8, AgregarALaTabla
  <2> QED BY <2>3, <2>4, <2>6, <2>7, <2>8, <2>9, <2>10
<1> QED BY <1>1, <1>2

\* The bytes of the stick are a hole.
LEMMA RepartoHuecoDeStick ==
  ASSUME KernelMemoryAssumption, RepInv, dobles = {}, NEW k \in Sticks, AgregarHuecoDeStick(k)
  PROVE  Reparto' /\ Compacta'
<1>1. /\ \A a \in Nat : Exacto(a)
      /\ TypeInv /\ TypeOK /\ total \in Nat /\ huecos \in Seq(Hueco) /\ ks.base \in Nat
      /\ Compacta /\ SticksAparte
  BY RepartoTodos DEF TypeInv
<1>2. PICK T \in Nat \ {0} : T = TamStick[k]
  BY DEF KernelMemoryAssumption, Sticks
<1>3. PICK b \in Nat : b = stick[k].base
  BY <1>1 DEF TypeOK
<1>4. /\ stick[k].fase = "hueco" /\ stick' = [stick EXCEPT ![k].fase = "posicion"]
      /\ huecos' = AgregarHuecoMs(b, T)
      /\ UNCHANGED <<total, segs, ks, fugas, dobles>>
  BY <1>2, <1>3 DEF AgregarHuecoDeStick, tablas, historia
<1>5. stick'[k].fase = "posicion" /\ \A j \in Sticks \ {k} : stick'[j] = stick[j]
  BY <1>1, <1>4 DEF TypeOK
<1>6. ASSUME NEW a \in Nat PROVE Exacto(a)'
  <2>1. (Compactando' <=> Compactando) /\ (ConCola' <=> ConCola)
    BY <1>4 DEF Compactando, ConCola
  <2>2. (EnKs(a)' <=> EnKs(a)) /\ (EnCola(a)' <=> EnCola(a)) /\ (ColaUna(a)' <=> ColaUna(a))
    BY <1>4, <2>1, Zenon DEF EnKs, EnCola, ColaUna, Cubre, UnaVez, Bytes
  <2>3. /\ (EnNadie(a)' <=> EnNadie(a))
        /\ (EnSegmento(a)' <=> EnSegmento(a)) /\ (SegmentoUno(a)' <=> SegmentoUno(a))
    BY <1>4, <2>1, NadieIgual, SegmentosIguales
  <2>4. PICK da \in BOOLEAN : da <=> b <= a /\ a < b + T
    OBVIOUS
  <2> DEFINE De(j) == /\ stick[j].fase = "hueco"
                      /\ a \in stick[j].base .. stick[j].base + TamStick[j] - 1
  <2>5. De(k) <=> da
    BY <1>2, <1>3, <1>4, <2>4
  <2>6. ASSUME NEW j \in Sticks \ {k}, De(j) PROVE ~da
    <3>1. TamStick[j] \in Nat /\ stick[j].base \in Nat
      BY <1>1 DEF KernelMemoryAssumption, Sticks, TypeOK
    <3>2. Orden(j, k) \/ Orden(k, j)
      BY <1>1, <1>4, <2>6 DEF SticksAparte
    <3>3. PICK c \in Nat, U \in Nat : c = stick[j].base /\ U = TamStick[j]
      BY <3>1
    <3>4. c + U <= b \/ b + T <= c
      BY <1>2, <1>3, <3>2, <3>3 DEF Orden
    <3>5. c <= a /\ a < c + U
      BY <2>6, <3>3
    <3> QED BY ONLY <2>4, <3>4, <3>5, a \in Nat, b \in Nat, T \in Nat, c \in Nat, U \in Nat
  <2>7. (EnStick(a) <=> \E j \in Sticks : De(j)) /\ (EnStick(a)' <=> \E j \in Sticks \ {k} : De(j))
    <3>1. EnStick(a) <=> \E j \in Sticks : De(j)
      BY DEF EnStick
    <3>2. stick'[k].fase # "hueco"
      BY <1>5
    <3>3. EnStick(a)' <=> \E j \in Sticks \ {k} : De(j)
      BY <1>5, <3>2, Zenon DEF EnStick
    <3> QED BY <3>1, <3>3
  <2> HIDE DEF De
  <2>8. /\ EnStick(a)' <=> EnStick(a) /\ ~da
        /\ da => EnStick(a)
    BY <2>5, <2>6, <2>7
  <2>9. Exacto(a) /\ total' = total
    BY <1>1, <1>4
  <2>10. CASE Compactando
    <3>1. ~EnHueco(a) /\ ~EnHueco(a)' /\ HuecosUna(a)'
      BY <2>1, <2>10 DEF EnHueco, HuecosUna
    <3> QED BY <2>1, <2>2, <2>3, <2>8, <2>9, <2>10, <3>1 DEF Exacto, UnoSolo, ALoSumo, Alguno
  <2>11. CASE ~Compactando
    <3>1. UnaVez(huecos, a)
      BY <2>9, <2>11 DEF Exacto, UnoSolo, HuecosUna
    <3>2. /\ Cubre(huecos', a) <=> Cubre(huecos, a) \/ da
          /\ ~(Cubre(huecos, a) /\ da) => UnaVez(huecos', a)
      BY <1>1, <1>4, <2>4, <3>1, CubreMs
    <3>3. /\ EnHueco(a) <=> Cubre(huecos, a)
          /\ EnHueco(a)' <=> Cubre(huecos', a)
          /\ HuecosUna(a)' <=> UnaVez(huecos', a)
      BY <2>1, <2>11 DEF EnHueco, HuecosUna, Cubre, UnaVez, Bytes
    <3> QED BY <2>1, <2>2, <2>3, <2>8, <2>9, <2>11, <3>2, <3>3
            DEF Exacto, UnoSolo, ALoSumo, Alguno
  <2> QED BY <2>10, <2>11
<1>7. Compacta'
  <2>1. Residentes' = Residentes /\ Movidos' = Movidos
    BY <1>4, MovidosIguales
  <2>2. ks.fase \in {"gran", "crear"} => ks.base <= b
    <3> SUFFICES ASSUME ks.fase \in {"gran", "crear"}, b < ks.base PROVE FALSE
      BY <1>1
    <3>1. EnSegmento(b)
      BY <1>1, BajoLaBase
    <3>2. b \in stick[k].base .. stick[k].base + TamStick[k] - 1
      BY <1>2, <1>3
    <3>3. EnStick(b)
      BY <1>4, <3>2 DEF EnStick
    <3> QED BY <1>1, <3>1, <3>3 DEF Exacto, UnoSolo, ALoSumo
  <2>3. b + T <= total
    BY <1>1, <1>2, <1>3, <1>4 DEF SticksAparte
  <2>4. ks.fase \in {"gran", "crear"} => \A j \in DOMAIN huecos' : ks.base <= huecos'[j].base
    <3> SUFFICES ASSUME ks.fase \in {"gran", "crear"}, NEW j \in DOMAIN huecos'
                 PROVE  ks.base <= huecos'[j].base
      OBVIOUS
    <3>1. \/ \E i \in DOMAIN huecos : huecos'[j] = huecos[i]
          \/ /\ huecos'[j].base = b \/ \E i \in DOMAIN huecos : huecos'[j].base = huecos[i].base
             /\ huecos'[j].base + huecos'[j].tam = b + T
      <4>1. huecos' = AgregarHuecoMs(b, T) /\ huecos \in Seq(Hueco) /\ b \in Nat /\ T \in Nat
        BY <1>1, <1>4
      <4>2. j \in DOMAIN AgregarHuecoMs(b, T)
        BY <4>1
      <4>3. PICK h : h = AgregarHuecoMs(b, T)[j] /\ h = huecos'[j]
        BY <4>1
      <4>4. \/ \E i \in DOMAIN huecos : h = huecos[i]
            \/ /\ h.base = b \/ \E i \in DOMAIN huecos : h.base = huecos[i].base
               /\ h.base + h.tam = b + T
        BY <4>1, <4>2, <4>3, HuecosConMs
      <4> QED BY <4>3, <4>4, Zenon
    <3>2. \A i \in DOMAIN huecos : ks.base <= huecos[i].base
      BY <1>1 DEF Compacta
    <3> QED BY <2>2, <3>1, <3>2
  <2>5. ks.fase = "gran" => \A j \in DOMAIN huecos' : huecos'[j].base + huecos'[j].tam <= total
    <3> SUFFICES ASSUME ks.fase = "gran", NEW j \in DOMAIN huecos'
                 PROVE  huecos'[j].base + huecos'[j].tam <= total
      OBVIOUS
    <3>1. \/ \E i \in DOMAIN huecos : huecos'[j] = huecos[i]
          \/ /\ huecos'[j].base = b \/ \E i \in DOMAIN huecos : huecos'[j].base = huecos[i].base
             /\ huecos'[j].base + huecos'[j].tam = b + T
      <4>1. huecos' = AgregarHuecoMs(b, T) /\ huecos \in Seq(Hueco) /\ b \in Nat /\ T \in Nat
        BY <1>1, <1>4
      <4>2. j \in DOMAIN AgregarHuecoMs(b, T)
        BY <4>1
      <4>3. PICK h : h = AgregarHuecoMs(b, T)[j] /\ h = huecos'[j]
        BY <4>1
      <4>4. \/ \E i \in DOMAIN huecos : h = huecos[i]
            \/ /\ h.base = b \/ \E i \in DOMAIN huecos : h.base = huecos[i].base
               /\ h.base + h.tam = b + T
        BY <4>1, <4>2, <4>3, HuecosConMs
      <4> QED BY <4>3, <4>4, Zenon
    <3>2. \A i \in DOMAIN huecos : huecos[i].base + huecos[i].tam <= total
      BY <1>1 DEF Compacta
    <3> QED BY <2>3, <3>1, <3>2
  <2>6. UNCHANGED <<ks, segs, total>>
    BY <1>4
  <2> QED BY <1>1, <2>1, <2>4, <2>5, <2>6, Zenon DEF Compacta, Bytes
<1> QED BY <1>4, <1>6, <1>7 DEF Reparto

\* A stick that is in the list of positions changes no list of bytes.
LEMMA RepartoPosicion ==
  ASSUME KernelMemoryAssumption, RepInv, dobles = {}, NEW k \in Sticks, AgregarPosicion(k)
  PROVE  Reparto' /\ Compacta'
<1>1. /\ \A a \in Nat : Exacto(a)
      /\ TypeInv /\ TypeOK /\ Compacta
  BY RepartoTodos
<1>2. /\ stick[k].fase = "posicion" /\ stick' = [stick EXCEPT ![k].fase = "listo"]
      /\ UNCHANGED <<total, huecos, segs, ks, fugas, dobles>>
  BY DEF AgregarPosicion, tablas, historia
<1>3. stick'[k].fase = "listo" /\ \A j \in Sticks \ {k} : stick'[j] = stick[j]
  BY <1>1, <1>2 DEF TypeOK
<1>4. ASSUME NEW a \in Nat PROVE Exacto(a)'
  <2>1. (Compactando' <=> Compactando) /\ (ConCola' <=> ConCola)
    BY <1>2 DEF Compactando, ConCola
  <2>2. (EnKs(a)' <=> EnKs(a)) /\ (EnCola(a)' <=> EnCola(a)) /\ (ColaUna(a)' <=> ColaUna(a))
    BY <1>2, <2>1, Zenon DEF EnKs, EnCola, ColaUna, Cubre, UnaVez, Bytes
  <2>3. /\ (EnNadie(a)' <=> EnNadie(a))
        /\ (EnHueco(a)' <=> EnHueco(a)) /\ (HuecosUna(a)' <=> HuecosUna(a))
        /\ (EnSegmento(a)' <=> EnSegmento(a)) /\ (SegmentoUno(a)' <=> SegmentoUno(a))
    BY <1>2, <2>1, HuecosIguales, NadieIgual, SegmentosIguales
  <2>4. EnStick(a)' <=> EnStick(a)
    <3>1. stick'[k].fase # "hueco" /\ stick[k].fase # "hueco"
      BY <1>2, <1>3
    <3> QED BY <1>3, <3>1, Zenon DEF EnStick
  <2>5. Exacto(a) /\ total' = total
    BY <1>1, <1>2
  <2> QED BY <2>1, <2>2, <2>3, <2>4, <2>5 DEF Exacto, UnoSolo, ALoSumo, Alguno
<1>5. Compacta'
  <2>1. Residentes' = Residentes /\ Movidos' = Movidos
    BY <1>2, MovidosIguales
  <2> QED BY <1>1, <1>2, <2>1, Zenon DEF Compacta, Bytes
<1> QED BY <1>2, <1>4, <1>5 DEF Reparto

-----------------------------------------------------------------------------
(* Compaction.                                                             *)

\* A byte of a segment in memory is below memoria_total.
LEMMA SegmentosDebajo ==
  ASSUME KernelMemoryAssumption, RepInv, dobles = {}, NEW x \in Residentes
  PROVE  /\ segs[x[1]][x[2]] \in Segmento /\ x \in EnTabla
         /\ segs[x[1]][x[2]].base \in Nat /\ segs[x[1]][x[2]].tam \in Nat \ {0}
         /\ segs[x[1]][x[2]].base + segs[x[1]][x[2]].tam <= total
<1>1. /\ \A a \in Nat : Exacto(a)
      /\ segs \in [Procesos -> Seq(Segmento)] /\ total \in Nat
  BY RepartoTodos
<1>2. x \in EnTabla
  BY DEF Residentes
<1>3. segs[x[1]][x[2]] \in Segmento
  BY <1>1, <1>2, EnTablaTipo
<1>4. PICK s : s = segs[x[1]][x[2]]
  OBVIOUS
<1>5. s \in Segmento /\ s.base \in Nat /\ s.tam \in Nat \ {0}
  BY <1>3, <1>4, SegmentoEs
<1>6. PICK b \in Nat, t \in Nat \ {0} : b = s.base /\ t = s.tam
  BY <1>5
<1>7. PICK a \in Nat : a = b + t - 1
  OBVIOUS
<1>8. a \in Bytes(s)
  <2>1. b <= a /\ a < b + t
    BY <1>7
  <2> QED BY <1>5, <1>6, <2>1, BytesSon
<1>9. EnSegmento(a)
  BY <1>4, <1>8 DEF EnSegmento, DeSegmento
<1>10. a < total
  BY <1>1, <1>9 DEF Exacto, Alguno
<1>11. b + t <= total
  BY <1>1, <1>7, <1>10
<1>12. s.base + s.tam <= total
  BY <1>6, <1>11
<1> QED BY <1>2, <1>4, <1>5, <1>12

\* Two segments in memory, the first with the lower base: it ends before the other.
LEMMA SegmentosAparte ==
  ASSUME KernelMemoryAssumption, RepInv, dobles = {}, NEW x \in Residentes, NEW y \in Residentes,
         segs[x[1]][x[2]].base < segs[y[1]][y[2]].base
  PROVE  segs[x[1]][x[2]].base + segs[x[1]][x[2]].tam <= segs[y[1]][y[2]].base
<1>1. \A a \in Nat : Exacto(a)
  BY RepartoTodos
<1>2. PICK s, r : s = segs[x[1]][x[2]] /\ r = segs[y[1]][y[2]]
  OBVIOUS
<1>3. /\ s.base \in Nat /\ s.tam \in Nat /\ r.base \in Nat /\ r.tam \in Nat \ {0}
      /\ s.base < r.base
  BY <1>2, SegmentosDebajo
<1>4. PICK b \in Nat, t \in Nat, c \in Nat, u \in Nat \ {0} :
        b = s.base /\ t = s.tam /\ c = r.base /\ u = r.tam
  BY <1>3
<1>5. ASSUME c < b + t PROVE FALSE
  <2>1. c \in Bytes(s)
    <3>1. b <= c /\ c < b + t
      BY <1>3, <1>4, <1>5
    <3> QED BY <1>3, <1>4, <3>1, BytesSon
  <2>2. c \in Bytes(r)
    <3>1. c <= c /\ c < c + u
      OBVIOUS
    <3> QED BY <1>3, <1>4, <3>1, BytesSon
  <2>3. DeSegmento(c, x) /\ DeSegmento(c, y)
    BY <1>2, <2>1, <2>2 DEF DeSegmento
  <2>4. x = y
    BY <1>1, <2>3 DEF Exacto, UnoSolo, SegmentoUno
  <2>5. b = c
    BY <1>2, <1>4, <2>4
  <2> QED BY <1>3, <1>4, <2>5
<1>6. b + t <= c
  BY <1>5
<1> QED BY <1>2, <1>4, <1>6

\* CPUS_DESALOJADAS: the segments in order, none moved yet.
LEMMA RepartoCompactar ==
  ASSUME KernelMemoryAssumption, RepInv, TypeInv', dobles = {}, Compactar
  PROVE  Reparto' /\ Compacta'
<1>1. /\ \A a \in Nat : Exacto(a)
      /\ segs \in [Procesos -> Seq(Segmento)] /\ TypeInv /\ total \in Nat
  BY RepartoTodos
<1>2. PICK cola \in SegmentosOrdenados :
        /\ ks.fase = "libre"
        /\ ks' = [Ocioso EXCEPT !.fase = "mover", !.pid = pedidas[1].pid, !.id = pedidas[1].id,
                                !.tam = pedidas[1].tam, !.cola = cola]
        /\ UNCHANGED <<total, huecos, segs, stick, fugas, dobles>>
  BY DEF Compactar, tablas, historia
<1>3. ks'.fase = "mover" /\ ks'.base = 0 /\ ks'.cola = cola
  BY <1>2 DEF Ocioso
<1>4. /\ \A j \in DOMAIN cola :
              /\ <<cola[j].pid, cola[j].i>> \in Residentes
              /\ cola[j].base = segs[cola[j].pid][cola[j].i].base
              /\ cola[j].tam = segs[cola[j].pid][cola[j].i].tam
      /\ \A x \in Residentes : \E j \in DOMAIN cola : <<cola[j].pid, cola[j].i>> = x
      /\ \A i, j \in DOMAIN cola : i < j => cola[i].base < cola[j].base
  BY <1>1, OrdenesSon
<1>5. ASSUME NEW a \in Nat PROVE Exacto(a)'
  <2>1. ~Compactando /\ Compactando'
    BY <1>2, <1>3 DEF Compactando
  <2>2. /\ (EnStick(a)' <=> EnStick(a))
        /\ (EnSegmento(a)' <=> EnSegmento(a)) /\ (SegmentoUno(a)' <=> SegmentoUno(a))
    BY <1>2, SticksIguales, SegmentosIguales
  <2>3. /\ ~EnKs(a)' /\ ~EnCola(a)' /\ ColaUna(a)'
        /\ ~EnHueco(a)' /\ ~EnNadie(a)' /\ HuecosUna(a)'
    BY <1>3, FaseEsPrima
  <2>4. Exacto(a) /\ total' = total
    BY <1>1, <1>2
  <2> QED BY <2>1, <2>2, <2>3, <2>4 DEF Exacto, UnoSolo, ALoSumo, Alguno
<1>6. Residentes' = Residentes
  BY <1>2, Zenon DEF Residentes, EnTabla
<1>7. Movidos' = {}
  <2>1. \A x \in Residentes : x \in PorMover'
    BY <1>3, <1>4 DEF PorMover
  <2> QED BY <1>6, <2>1 DEF Movidos
<1>8. Compacta'
  <2>1. \A a \in Nat : ~(a < ks'.base)
    BY <1>3
  <2>2. ks'.base <= total'
    BY <1>1, <1>2, <1>3
  <2>3. ASSUME NEW j \in DOMAIN ks'.cola
        PROVE  /\ <<ks'.cola[j].pid, ks'.cola[j].i>> \in Residentes'
               /\ ks'.base <= ks'.cola[j].base
               /\ segs'[ks'.cola[j].pid][ks'.cola[j].i].base = ks'.cola[j].base
               /\ segs'[ks'.cola[j].pid][ks'.cola[j].i].tam = ks'.cola[j].tam
    <3>1. PICK x \in Residentes : x = <<cola[j].pid, cola[j].i>>
      BY <1>3, <1>4
    <3>2. segs[x[1]][x[2]].base \in Nat
      BY <3>1, SegmentosDebajo
    <3>3. cola[j].base \in Nat
      BY <1>3, <1>4, <3>1, <3>2
    <3> QED BY <1>2, <1>3, <1>4, <1>6, <3>3
  <2>4. ASSUME NEW i \in DOMAIN cola, NEW j \in DOMAIN cola, i < j
        PROVE  cola[i].base + cola[i].tam <= cola[j].base
    <3>1. PICK x \in Residentes : x = <<cola[i].pid, cola[i].i>>
      BY <1>4
    <3>2. PICK y \in Residentes : y = <<cola[j].pid, cola[j].i>>
      BY <1>4
    <3>3. /\ cola[i].base = segs[x[1]][x[2]].base /\ cola[i].tam = segs[x[1]][x[2]].tam
          /\ cola[j].base = segs[y[1]][y[2]].base
      BY <1>4, <3>1, <3>2
    <3>4. segs[x[1]][x[2]].base < segs[y[1]][y[2]].base
      BY <1>4, <2>4, <3>3
    <3> QED BY <3>3, <3>4, SegmentosAparte
  <2>5. ks'.fase \notin {"gran", "crear"}
    BY <1>3
  <2> QED BY <1>3, <1>7, <2>1, <2>2, <2>3, <2>4, <2>5 DEF Compacta
<1> QED BY <1>2, <1>5, <1>8 DEF Reparto

\* The holes are forgotten; the bytes of none of them are counted while compaction runs.
LEMMA RepartoVaciar ==
  ASSUME KernelMemoryAssumption, RepInv, dobles = {}, VaciarHuecos
  PROVE  Reparto' /\ Compacta'
<1>1. /\ \A a \in Nat : Exacto(a)
      /\ ks \in Locales /\ Compacta
  BY RepartoTodos
<1>2. /\ ks.fase = "mover" /\ huecos' = <<>> /\ ks' = [ks EXCEPT !.fase = "gran"]
      /\ ks.cola = <<>> /\ UNCHANGED <<total, segs, stick, fugas, dobles>>
  BY DEF VaciarHuecos, tablas, historia
<1>3. ks'.fase = "gran" /\ ks'.base = ks.base /\ ks'.cola = ks.cola
  BY <1>1, <1>2 DEF Locales
<1>4. ASSUME NEW a \in Nat PROVE Exacto(a)'
  <2>1. Compactando /\ Compactando'
    BY <1>2, <1>3 DEF Compactando
  <2>2. /\ (EnStick(a)' <=> EnStick(a))
        /\ (EnSegmento(a)' <=> EnSegmento(a)) /\ (SegmentoUno(a)' <=> SegmentoUno(a))
    BY <1>2, SticksIguales, SegmentosIguales
  <2>3. /\ ~EnKs(a)' /\ ~EnCola(a)' /\ ColaUna(a)'
        /\ ~EnHueco(a)' /\ ~EnNadie(a)' /\ HuecosUna(a)'
    BY <1>3, FaseEsPrima
  <2>4. Exacto(a) /\ total' = total
    BY <1>1, <1>2
  <2> QED BY <2>1, <2>2, <2>3, <2>4 DEF Exacto, UnoSolo, ALoSumo, Alguno
<1>5. Compacta'
  <2>1. Residentes' = Residentes /\ Movidos' = Movidos
    BY <1>2, <1>3, MovidosIguales
  <2>2. UNCHANGED <<segs, total>> /\ \A i \in DOMAIN huecos' : FALSE
    BY <1>2
  <2> QED BY <1>1, <1>2, <1>3, <2>1, <2>2, Zenon DEF Compacta, Bytes
<1> QED BY <1>2, <1>4, <1>5 DEF Reparto

\* The rest of the memory is a hole, except what a stick that connects has put, or will.
LEMMA RepartoGran ==
  ASSUME KernelMemoryAssumption, RepInv, dobles = {}, GranHueco
  PROVE  Reparto' /\ Compacta'
<1>1. /\ \A a \in Nat : Exacto(a)
      /\ ks \in Locales /\ Compacta /\ TypeInv /\ huecos \in Seq(Hueco)
      /\ total \in Nat /\ ks.base \in Nat /\ segs \in [Procesos -> Seq(Segmento)]
  BY RepartoTodos
<1>2. /\ ks.fase = "gran" /\ ks' = [ks EXCEPT !.fase = "crear"]
      /\ huecos' = IF total > ks.base THEN AgregarHuecoLibre(ks.base, total - ks.base)
                   ELSE huecos
      /\ dobles' = dobles \cup ((ks.base .. total - 1) \cap (DeSticks \cup EnHuecos))
      /\ fugas' = {} /\ UNCHANGED <<total, segs, stick>>
  BY DEF GranHueco, tablas
<1>3. ks'.fase = "crear" /\ ks'.base = ks.base /\ ks'.cola = ks.cola
  BY <1>1, <1>2 DEF Locales
<1>4. ks.cola = <<>> /\ ks.base <= total
  BY <1>1, <1>2 DEF TypeInv, EnCurso, Compacta
<1>5. /\ \A i \in DOMAIN huecos : ks.base <= huecos[i].base
                                  /\ huecos[i].base + huecos[i].tam <= total
      /\ \A x \in Residentes : segs[x[1]][x[2]].base + segs[x[1]][x[2]].tam <= ks.base
  <2>1. Movidos = Residentes
    BY <1>4 DEF Movidos, PorMover
  <2> QED BY <1>1, <1>2, <2>1 DEF Compacta
<1>6. PICK d \in Nat : d = total - ks.base
  BY <1>1, <1>4, total - ks.base \in Nat
<1>7. ASSUME NEW a \in Nat \ dobles' PROVE Exacto(a)'
  <2>1. Compactando /\ ~Compactando'
    BY <1>2, <1>3 DEF Compactando
  <2>2. /\ (EnStick(a)' <=> EnStick(a))
        /\ (EnSegmento(a)' <=> EnSegmento(a)) /\ (SegmentoUno(a)' <=> SegmentoUno(a))
    BY <1>2, SticksIguales, SegmentosIguales
  <2>3. ~EnKs(a)' /\ ~EnCola(a)' /\ ColaUna(a)'
    BY <1>3, FaseEsPrima
  <2>4. ~EnNadie(a)'
    BY <1>2 DEF EnNadie
  <2>5. Exacto(a) /\ total' = total
    BY <1>1, <1>2
  <2>6. PICK da \in BOOLEAN : da <=> ks.base <= a /\ a < ks.base + d
    OBVIOUS
  <2>7. da <=> ks.base <= a /\ a < total
    BY <1>1, <1>4, <1>6, <2>6
  <2>8. ~Cubre(huecos, a)
    <3> SUFFICES ASSUME NEW i \in DOMAIN huecos, a \in Bytes(huecos[i]) PROVE FALSE
      BY DEF Cubre
    <3>1. huecos[i] \in Hueco
      BY <1>1
    <3>2. huecos[i].base <= a /\ a < huecos[i].base + huecos[i].tam
      BY <3>1, BytesSon DEF Hueco
    <3>3. ks.base <= a /\ a < total
      BY <1>1, <1>5, <3>1, <3>2 DEF Hueco
    <3>4. a \in EnHuecos
      BY DEF EnHuecos
    <3>5. a \in dobles'
      BY <1>1, <1>2, <3>3, <3>4
    <3> QED BY <3>5
  <2>9. Cubre(huecos', a) <=> da
    <3>1. CASE total > ks.base
      <4>1. huecos' = AgregarHuecoLibre(ks.base, d)
        BY <1>2, <1>6, <3>1
      <4>2. UnaVez(huecos, a)
        BY <2>8 DEF Cubre, UnaVez
      <4> QED BY <1>1, <2>6, <2>8, <4>1, <4>2, CubreLibre
    <3>2. CASE ~(total > ks.base)
      BY <1>1, <1>2, <2>7, <2>8, <3>2
    <3> QED BY <3>1, <3>2
  <2>10. UnaVez(huecos', a)
    <3>1. UnaVez(huecos, a)
      BY <2>8 DEF Cubre, UnaVez
    <3>2. CASE total > ks.base
      <4>1. huecos' = AgregarHuecoLibre(ks.base, d)
        BY <1>2, <1>6, <3>2
      <4> QED BY <1>1, <2>6, <2>8, <3>1, <4>1, CubreLibre
    <3>3. CASE ~(total > ks.base)
      BY <1>2, <3>1, <3>3
    <3> QED BY <3>2, <3>3
  <2>11. (EnHueco(a)' <=> da) /\ HuecosUna(a)'
    BY <2>1, <2>9, <2>10 DEF EnHueco, HuecosUna, Cubre, UnaVez, Bytes
  <2>12. EnSegmento(a) <=> a < ks.base
    <3>1. a < ks.base => EnSegmento(a)
      BY <1>1, <1>2, BajoLaBase
    <3>2. ASSUME NEW x, DeSegmento(a, x) PROVE a < ks.base
      <4>1. x \in Residentes /\ a \in Bytes(segs[x[1]][x[2]])
        BY <3>2 DEF DeSegmento
      <4>2. PICK s : s = segs[x[1]][x[2]]
        OBVIOUS
      <4>3. s.base \in Nat /\ s.tam \in Nat /\ s.base + s.tam <= ks.base /\ a \in Bytes(s)
        BY <1>5, <4>1, <4>2, SegmentosDebajo
      <4>4. PICK e \in Nat : e = s.base + s.tam
        BY <4>3
      <4>5. a < e /\ e <= ks.base
        BY <4>3, <4>4, BytesSon
      <4> QED BY <1>1, <4>4, <4>5
    <3> QED BY <3>1, <3>2 DEF EnSegmento
  <2>13. EnStick(a) => a < ks.base \/ a >= total
    <3> SUFFICES ASSUME EnStick(a), ks.base <= a, a < total PROVE FALSE
      BY <1>1
    <3>1. a \in DeSticks
      BY DEF EnStick, DeSticks
    <3>2. a \in dobles'
      BY <1>1, <1>2, <3>1
    <3> QED BY <3>2
  <2>14. /\ a < ks.base => ~da /\ a < total
         /\ a >= total => ~da /\ ~(a < ks.base)
         /\ a < total => a < ks.base \/ da
         /\ da => ~(a < ks.base) /\ ~(a >= total)
    BY <1>1, <1>4, <2>7
  <2> QED BY <2>1, <2>2, <2>3, <2>4, <2>5, <2>11, <2>12, <2>13, <2>14
          DEF Exacto, UnoSolo, ALoSumo, Alguno
<1>8. Compacta'
  <2>1. Residentes' = Residentes /\ Movidos' = Movidos
    BY <1>2, <1>3, MovidosIguales
  <2>2. \A j \in DOMAIN huecos' : ks.base <= huecos'[j].base
    <3>1. CASE total > ks.base
      <4>1. PICK h : h = [base |-> ks.base, tam |-> d]
        OBVIOUS
      <4>2. h.base = ks.base /\ huecos' = Append(huecos, h)
        BY <1>2, <1>6, <3>1, <4>1 DEF AgregarHuecoLibre
      <4>3. \A j \in DOMAIN Append(huecos, h) :
              Append(huecos, h)[j] = h \/ (j \in DOMAIN huecos /\ Append(huecos, h)[j] = huecos[j])
        BY <1>1, AgregarALaTabla
      <4>4. ks.base <= ks.base
        BY <1>1
      <4> QED BY <1>5, <4>2, <4>3, <4>4
    <3>2. CASE ~(total > ks.base)
      BY <1>2, <1>5, <3>2
    <3> QED BY <3>1, <3>2
  <2>3. UNCHANGED <<segs, total>>
    BY <1>2
  <2> QED BY <1>1, <1>2, <1>3, <2>1, <2>2, <2>3, Zenon DEF Compacta, Bytes
<1> QED BY <1>7, <1>8 DEF Reparto

\* Segment i of p, at sb and of st bytes, is the first that waits, and goes down to B.
Baja(p, i, m, B, sb, st) ==
  /\ i \in DOMAIN segs[p] /\ <<p, i>> \in Residentes
  /\ p = ks.cola[1].pid /\ i = ks.cola[1].i /\ B = ks.base
  /\ sb = ks.cola[1].base /\ st = ks.cola[1].tam
  /\ sb = segs[p][i].base /\ st = segs[p][i].tam /\ ~segs[p][i].enSwap
  /\ B <= sb /\ sb + st <= total
  /\ m.base = B /\ m.tam = st /\ ~m.enSwap
  /\ segs' = ConSegmento(p, i, m)
  /\ ks'.fase = "mover" /\ ks'.base = B + st /\ ks'.cola = Tail(ks.cola)
  /\ sb = B \/ \A a \in Nat : B <= a /\ a < B + st =>
                 \E k \in Sticks : stick[k].fase = "listo"
                   /\ a \in stick[k].base .. stick[k].base + TamStick[k] - 1

\* One turn of the loop: the segment goes down to ks.base.
LEMMA MoverEs ==
  ASSUME KernelMemoryAssumption, RepInv, dobles = {}, Mover
  PROVE  /\ ks.fase = "mover" /\ ks.cola # <<>> /\ UNCHANGED <<total, huecos, stick, fugas, dobles>>
         /\ \/ UNCHANGED <<segs, ks>>
            \/ \E p \in Procesos, i \in Nat, m \in Segmento, B \in Nat, sb \in Nat,
                  st \in Nat \ {0} :
                 Baja(p, i, m, B, sb, st)
<1>1. /\ Compacta /\ segs \in [Procesos -> Seq(Segmento)] /\ TypeInv /\ ks \in Locales
      /\ ks.base \in Nat /\ total \in Nat
  BY RepartoTodos
<1>2. /\ ks.fase = "mover" /\ ks.cola # <<>> /\ UNCHANGED <<total, huecos, stick, fugas, dobles>>
  BY DEF Mover
<1>3. PICK s : s = Head(ks.cola)
  OBVIOUS
<1>4. /\ s = ks.cola[1] /\ 1 \in DOMAIN ks.cola /\ s.base \in Nat /\ s.tam \in Nat /\ s.i \in Nat
      /\ Tail(ks.cola) \in Seq(TramoTipo)
  BY <1>1, <1>2, <1>3, PrimeroDeLaCola
<1>5. PICK p, i : p = s.pid /\ i = s.i /\ i \in Nat
  BY <1>4
<1>6. /\ <<p, i>> \in Residentes /\ ks.base <= s.base
      /\ segs[p][i].base = s.base /\ segs[p][i].tam = s.tam
  BY <1>1, <1>2, <1>4, <1>5 DEF Compacta
<1>7. p \in Procesos /\ i \in DOMAIN segs[p] /\ ~segs[p][i].enSwap
  <2>1. <<p, i>> \in EnTabla /\ ~segs[<<p, i>>[1]][<<p, i>>[2]].enSwap
    BY <1>6 DEF Residentes
  <2>2. <<p, i>>[1] \in Procesos /\ <<p, i>>[2] \in DOMAIN segs[<<p, i>>[1]]
    BY <1>1, <2>1, EnTablaTipo
  <2> QED BY <2>1, <2>2
<1>8. PICK w \in Segmento : w = segs[p][i]
  BY <1>1, <1>7
<1>9. w.base + w.tam <= total /\ w.tam \in Nat \ {0}
  <2>1. segs[<<p, i>>[1]][<<p, i>>[2]] = w
    BY <1>8
  <2> QED BY <1>6, <2>1, SegmentosDebajo
<1>10. PICK B \in Nat, sb \in Nat, st \in Nat \ {0} : B = ks.base /\ sb = s.base /\ st = s.tam
  BY <1>1, <1>4, <1>6, <1>8, <1>9
<1>11. B <= sb /\ sb + st <= total
  BY <1>6, <1>8, <1>9, <1>10
<1>12. CASE UNCHANGED <<segs, ks>>
  BY <1>2, <1>12
<1>13. CASE ~(UNCHANGED <<segs, ks>>)
  <2>1. PICK m : m = [w EXCEPT !.base = B]
    OBVIOUS
  <2>2. m \in Segmento /\ m.base = B /\ m.tam = st /\ ~m.enSwap
    BY <1>6, <1>7, <1>8, <1>10, <2>1 DEF Segmento
  <2>3. /\ segs' = ConSegmento(s.pid, s.i, [segs[s.pid][s.i] EXCEPT !.base = ks.base])
        /\ ks' = [ks EXCEPT !.base = @ + s.tam, !.cola = Tail(@)]
        /\ s.base = ks.base \/ Mapeado([s EXCEPT !.base = ks.base])
    BY <1>2, <1>3, <1>13, Zenon DEF Mover
  <2>4. segs' = ConSegmento(p, i, m)
    BY <1>5, <1>8, <1>10, <2>1, <2>3
  <2>5. ks'.fase = "mover" /\ ks'.base = B + st /\ ks'.cola = Tail(ks.cola)
    <3>1. PICK e \in Nat : e = B + st
      OBVIOUS
    <3>2. ks' = [ks EXCEPT !.base = e, !.cola = Tail(ks.cola)]
      BY <1>10, <2>3, <3>1
    <3> QED BY <1>1, <1>2, <1>4, <3>1, <3>2 DEF Locales
  <2>6. sb = B \/ \A a \in Nat : B <= a /\ a < B + st =>
                    \E k \in Sticks : stick[k].fase = "listo"
                      /\ a \in stick[k].base .. stick[k].base + TamStick[k] - 1
    <3>1. CASE s.base = ks.base
      BY <1>10, <3>1
    <3>2. CASE Mapeado([s EXCEPT !.base = ks.base])
      <4>1. PICK t : t = [s EXCEPT !.base = B]
        OBVIOUS
      <4>2. s \in TramoTipo
        BY <1>1, <1>2, <1>4, PrimeroDeLaCola
      <4>3. t.base = B /\ t.tam = st
        BY <1>10, <4>1, <4>2 DEF TramoTipo
      <4>4. Mapeado(t)
        BY <1>10, <3>2, <4>1
      <4>5. \A a \in Nat : B <= a /\ a < B + st => a \in Bytes(t)
        BY <4>3, BytesSon
      <4> QED BY <4>4, <4>5 DEF Mapeado
    <3> QED BY <2>3, <3>1, <3>2
  <2>7. /\ i \in DOMAIN segs[p] /\ <<p, i>> \in Residentes
        /\ p = ks.cola[1].pid /\ i = ks.cola[1].i /\ B = ks.base
        /\ sb = ks.cola[1].base /\ st = ks.cola[1].tam
        /\ sb = segs[p][i].base /\ st = segs[p][i].tam /\ ~segs[p][i].enSwap
    BY <1>4, <1>5, <1>6, <1>7, <1>10
  <2>8. Baja(p, i, m, B, sb, st)
    BY <1>11, <2>2, <2>4, <2>5, <2>6, <2>7, Zenon DEF Baja
  <2>9. i \in Nat /\ p \in Procesos /\ m \in Segmento
    BY <1>5, <1>7, <2>2
  <2> QED BY <1>2, <2>8, <2>9, Zenon
<1> QED BY <1>12, <1>13

\* Two sticks, one before the other, have no byte in common.
LEMMA SticksSeparados ==
  ASSUME KernelMemoryAssumption, TypeOK, NEW k \in Sticks, NEW l \in Sticks,
         Orden(k, l) \/ Orden(l, k), NEW a \in Nat,
         a \in stick[k].base .. stick[k].base + TamStick[k] - 1,
         a \in stick[l].base .. stick[l].base + TamStick[l] - 1
  PROVE  FALSE
<1>1. stick \in [Sticks -> [fase : {"no", "hueco", "posicion", "listo"}, base : Nat]]
  BY DEF TypeOK
<1>2. TamStick[k] \in Nat /\ TamStick[l] \in Nat
  BY DEF KernelMemoryAssumption, Sticks
<1>3. stick[k].base \in Nat /\ stick[l].base \in Nat
  BY <1>1
<1>4. PICK kb \in Nat, kt \in Nat, lb \in Nat, lt \in Nat :
        kb = stick[k].base /\ kt = TamStick[k] /\ lb = stick[l].base /\ lt = TamStick[l]
  BY <1>2, <1>3
<1>5. a \in kb .. kb + kt - 1 /\ a \in lb .. lb + lt - 1
  BY <1>4
<1>6. kb + kt <= lb \/ lb + lt <= kb
  BY <1>4 DEF Orden
<1> QED BY ONLY kb \in Nat, kt \in Nat, lb \in Nat, lt \in Nat, a \in Nat, <1>5, <1>6

\* Nobody has the bytes the segment goes to: they are above the segments already moved and
\* below those that wait, and a stick that still connects cannot be written.
LEMMA RepartoMover ==
  ASSUME KernelMemoryAssumption, RepInv, TypeInv', dobles = {}, Mover
  PROVE  Reparto' /\ Compacta'
<1>1. /\ \A a \in Nat : Exacto(a)
      /\ Compacta /\ segs \in [Procesos -> Seq(Segmento)] /\ TypeInv /\ ks \in Locales
      /\ total \in Nat /\ ks.cola \in Seq(TramoTipo)
      /\ SticksAparte /\ TypeOK
  BY RepartoTodos DEF TypeInv
<1>2. ks.fase = "mover" /\ ks.cola # <<>> /\ UNCHANGED <<total, huecos, stick, fugas, dobles>>
  BY MoverEs
<1>3. CASE UNCHANGED <<segs, ks>>
  BY <1>2, <1>3, RepartoIgual
<1>4. ASSUME NEW p \in Procesos, NEW i \in Nat, NEW m \in Segmento, NEW B \in Nat,
             NEW sb \in Nat, NEW st \in Nat \ {0},
             Baja(p, i, m, B, sb, st)
      PROVE  Reparto' /\ Compacta'
  <2>a. /\ i \in DOMAIN segs[p] /\ <<p, i>> \in Residentes
        /\ p = ks.cola[1].pid /\ i = ks.cola[1].i /\ B = ks.base
        /\ sb = ks.cola[1].base /\ st = ks.cola[1].tam
        /\ sb = segs[p][i].base /\ st = segs[p][i].tam /\ ~segs[p][i].enSwap
    BY <1>4, Zenon DEF Baja
  <2>b. /\ m.base = B /\ m.tam = st /\ ~m.enSwap
        /\ segs' = ConSegmento(p, i, m)
        /\ ks'.fase = "mover" /\ ks'.base = B + st /\ ks'.cola = Tail(ks.cola)
    BY <1>4, Zenon DEF Baja
  <2>c. sb = B \/ \A a \in Nat : B <= a /\ a < B + st =>
                    \E k \in Sticks : stick[k].fase = "listo"
                      /\ a \in stick[k].base .. stick[k].base + TamStick[k] - 1
    BY <1>4, Zenon DEF Baja
  <2>0. B <= sb /\ sb + st <= total
    BY <1>4, Zenon DEF Baja
  <2>0a. B + st <= total /\ B \in Nat /\ sb \in Nat /\ st \in Nat \ {0}
    BY ONLY <2>0, <1>1, B \in Nat, sb \in Nat, st \in Nat \ {0}
  <2>1. PICK n \in Nat \ {0} : n = Len(ks.cola) /\ DOMAIN ks.cola = 1 .. n
    BY <1>1, <1>2, PrimeroDeLaCola
  <2>2. PICK c : c = ks.cola
    OBVIOUS
  <2>3. /\ \A j \in 1 .. n : /\ <<c[j].pid, c[j].i>> \in Residentes
                             /\ segs[c[j].pid][c[j].i].base = c[j].base
                             /\ segs[c[j].pid][c[j].i].tam = c[j].tam
                             /\ c[j].base \in Nat /\ c[j].tam \in Nat
        /\ \A j, l \in 1 .. n : j < l => c[j].base + c[j].tam <= c[l].base
        /\ c[1].pid = p /\ c[1].i = i /\ c[1].base = sb /\ c[1].tam = st /\ 1 \in 1 .. n
    <3>1. ASSUME NEW j \in 1 .. n PROVE c[j].base \in Nat /\ c[j].tam \in Nat
      <4>1. c[j] \in TramoTipo
        BY <1>1, <2>1, <2>2
      <4> QED BY <4>1 DEF TramoTipo
    <3>2. ks.fase = "mover" /\ DOMAIN c = 1 .. n
      BY <1>2, <2>1, <2>2
    <3>3. \A j \in DOMAIN c : /\ <<c[j].pid, c[j].i>> \in Residentes
                               /\ segs[c[j].pid][c[j].i].base = c[j].base
                               /\ segs[c[j].pid][c[j].i].tam = c[j].tam
      BY <1>1, <2>2, <3>2 DEF Compacta
    <3>4. \A j, l \in DOMAIN c : j < l => c[j].base + c[j].tam <= c[l].base
      BY <1>1, <2>2, <3>2 DEF Compacta
    <3>5. c[1].pid = p /\ c[1].i = i /\ c[1].base = sb /\ c[1].tam = st /\ 1 \in 1 .. n
      <4>1. c[1].pid = p /\ c[1].i = i /\ c[1].base = sb /\ c[1].tam = st
        BY <2>a, <2>2, Zenon
      <4>2. 1 \in 1 .. n
        BY ONLY n \in Nat \ {0}
      <4> QED BY <4>1, <4>2
    <3> QED BY <3>1, <3>2, <3>3, <3>4, <3>5
  <2>4. \A j \in 1 .. n : j # 1 => sb + st <= c[j].base /\ <<c[j].pid, c[j].i>> # <<p, i>>
    <3> SUFFICES ASSUME NEW j \in 1 .. n, j # 1
                 PROVE  sb + st <= c[j].base /\ <<c[j].pid, c[j].i>> # <<p, i>>
      OBVIOUS
    <3>1. 1 < j
      OBVIOUS
    <3>2. sb + st <= c[j].base
      BY <2>3, <3>1
    <3>3. c[j].base # sb
      BY <2>3, <3>2
    <3>4. ASSUME c[j].pid = p, c[j].i = i PROVE FALSE
      BY <2>a, <2>b, <2>3, <3>3, <3>4
    <3> QED BY <3>2, <3>4
  <2>5. \A x : x \in PorMover <=> \E j \in 1 .. n : x = <<c[j].pid, c[j].i>>
    BY <2>1, <2>2 DEF PorMover
  <2>6. \A x \in Movidos : segs[x[1]][x[2]].base + segs[x[1]][x[2]].tam <= B
    BY <1>1, <1>2, <2>a, <2>b DEF Compacta
  <2>7. ASSUME NEW a \in Nat, B <= a, a < B + st, ~(sb <= a /\ a < sb + st)
        PROVE  ~EnSegmento(a) /\ ~EnStick(a)
    <3>1. ASSUME NEW x, DeSegmento(a, x) PROVE FALSE
      <4>1. x \in Residentes /\ a \in Bytes(segs[x[1]][x[2]])
        BY <3>1 DEF DeSegmento
      <4>2. PICK r : r = segs[x[1]][x[2]]
        OBVIOUS
      <4>3. r.base \in Nat /\ r.tam \in Nat
        BY <4>1, <4>2, SegmentosDebajo
      <4>4. PICK rb \in Nat, rt \in Nat : rb = r.base /\ rt = r.tam
        BY <4>3
      <4>5. rb <= a /\ a < rb + rt
        BY <4>1, <4>2, <4>3, <4>4, BytesSon
      <4>6. CASE x \in PorMover
        <5>1. PICK j \in 1 .. n : x = <<c[j].pid, c[j].i>>
          BY <2>5, <4>6
        <5>2. r.base = c[j].base /\ r.tam = c[j].tam
          BY <2>3, <4>2, <5>1
        <5>5. rb <= a /\ a < B + st /\ rb \in Nat /\ a \in Nat
          BY <4>5, rb \in Nat, a < B + st, a \in Nat
        <5>3. CASE j = 1
          BY <2>3, <4>4, <4>5, <5>2, <5>3, ~(sb <= a /\ a < sb + st)
        <5>4. CASE j # 1
          <6>1. sb + st <= rb
            BY <2>4, <4>4, <5>2, <5>4
          <6> QED BY ONLY <2>0, <2>0a, <5>5, <6>1
        <5> QED BY <5>3, <5>4
      <4>7. CASE x \notin PorMover
        <5>1. x \in Movidos
          BY <4>1, <4>7 DEF Movidos
        <5>2. rb + rt <= B
          BY <2>6, <4>2, <4>4, <5>1
        <5> QED BY <4>5, <5>2, B <= a
      <4> QED BY <4>6, <4>7
    <3>2. ASSUME EnStick(a) PROVE FALSE
      <4>1. PICK k \in Sticks : stick[k].fase = "hueco"
                                /\ a \in stick[k].base .. stick[k].base + TamStick[k] - 1
        BY <3>2 DEF EnStick
      <4>2. sb # B
        BY B <= a, a < B + st, ~(sb <= a /\ a < sb + st)
      <4>3. PICK l \in Sticks : stick[l].fase = "listo"
                                /\ a \in stick[l].base .. stick[l].base + TamStick[l] - 1
        <5>1. \A z \in Nat : B <= z /\ z < B + st =>
                         \E k1 \in Sticks : stick[k1].fase = "listo"
                           /\ z \in stick[k1].base .. stick[k1].base + TamStick[k1] - 1
          BY <2>c, <4>2, Zenon
        <5> QED BY <5>1, B <= a, a < B + st
      <4>4. Orden(k, l) \/ Orden(l, k)
        BY <1>1, <4>1, <4>3 DEF SticksAparte
      <4> QED BY <1>1, <4>1, <4>3, <4>4, SticksSeparados
    <3> QED BY <3>1, <3>2 DEF EnSegmento
  <2>8. ASSUME NEW a \in Nat PROVE Exacto(a)'
    <3>1. Compactando /\ Compactando'
      BY <1>2, <2>a, <2>b DEF Compactando
    <3>2. EnStick(a)' <=> EnStick(a)
      BY <1>2, SticksIguales
    <3>3. /\ ~EnKs(a)' /\ ~EnCola(a)' /\ ColaUna(a)'
          /\ ~EnHueco(a)' /\ ~EnNadie(a)' /\ HuecosUna(a)'
      BY <2>a, <2>b, FaseEsPrima
    <3>4. Exacto(a) /\ total' = total
      BY <1>1, <1>2
    <3>5. PICK tenia \in BOOLEAN, tiene \in BOOLEAN :
            (tenia <=> sb <= a /\ a < sb + st) /\ (tiene <=> B <= a /\ a < B + st)
      OBVIOUS
    <3>6. SegmentoUno(a)
      BY <3>4 DEF Exacto, UnoSolo
    <3>7. /\ tenia => EnSegmento(a)
          /\ EnSegmento(a)' <=> (EnSegmento(a) /\ ~tenia) \/ tiene
          /\ ~(EnSegmento(a) /\ ~tenia /\ tiene) => SegmentoUno(a)'
      <4>1. tenia <=> ~segs[p][i].enSwap /\ a \in Bytes(segs[p][i])
        <5>1. PICK w : w = segs[p][i]
          OBVIOUS
        <5>2. w.base = sb /\ w.tam = st /\ ~w.enSwap
          BY <2>a, <2>b, <5>1
        <5> QED BY <3>5, <5>1, <5>2, BytesSon
      <4>2. tiene <=> ~m.enSwap /\ a \in Bytes(m)
        BY <2>a, <2>b, <3>5, BytesSon
      <4>3. segs' = ConSegmento(p, i, m) /\ i \in DOMAIN segs[p]
        BY <2>a, <2>b, Zenon
      <4> QED BY <1>1, <3>6, <4>1, <4>2, <4>3, SegmentoCambia
    <3>8. tiene /\ ~tenia => ~EnSegmento(a) /\ ~EnStick(a)
      BY <2>7, <3>5
    <3>9. tiene => ~(a >= total)
      BY <1>1, <2>0a, <3>5
    <3> QED BY <3>1, <3>2, <3>3, <3>4, <3>7, <3>8, <3>9
            DEF Exacto, UnoSolo, ALoSumo, Alguno
  <2>9. /\ \A q \in Procesos : DOMAIN segs'[q] = DOMAIN segs[q]
        /\ segs'[p][i] = m
        /\ \A q \in Procesos : \A j \in DOMAIN segs[q] :
             q # p \/ j # i => segs'[q][j] = segs[q][j]
    <3>1. segs' = ConSegmento(p, i, m) /\ i \in DOMAIN segs[p] /\ m \in Segmento
      BY <2>a, <2>b, Zenon
    <3> QED BY <3>1, <1>1, p \in Procesos, ConSegmentoEs
  <2>10. ASSUME NEW x \in EnTabla, x # <<p, i>> PROVE segs'[x[1]][x[2]] = segs[x[1]][x[2]]
    <3>1. x[1] \in Procesos /\ x[2] \in DOMAIN segs[x[1]] /\ x = <<x[1], x[2]>>
      BY <1>1, EnTablaTipo
    <3> QED BY <2>9, <2>10, <3>1
  <2>11. EnTabla' = EnTabla
    BY <2>9 DEF EnTabla
  <2>12. Residentes' = Residentes
    <3>1. \A x \in EnTabla : segs'[x[1]][x[2]].enSwap <=> segs[x[1]][x[2]].enSwap
      <4> TAKE x \in EnTabla
      <4>1. CASE x = <<p, i>>
        BY <2>a, <2>b, <2>9, <4>1
      <4>2. CASE x # <<p, i>>
        BY <2>10, <4>2
      <4> QED BY <4>1, <4>2
    <3> QED BY <2>11, <3>1 DEF Residentes
  <2>13. PICK d : d = ks'.cola
    OBVIOUS
  <2>14. DOMAIN d = 1 .. n - 1 /\ \A j \in 1 .. n - 1 : d[j] = c[j + 1]
    BY <1>1, <1>2, <2>a, <2>b, <2>1, <2>2, <2>13, PrimeroDeLaCola
  <2>15. \A x : x \in PorMover' <=> x \in PorMover /\ x # <<p, i>>
    <3>1. \A x : x \in PorMover' <=> \E j \in 1 .. n - 1 : x = <<c[j + 1].pid, c[j + 1].i>>
      BY <2>13, <2>14 DEF PorMover
    <3>2. ASSUME NEW j \in 1 .. n - 1
          PROVE  <<c[j + 1].pid, c[j + 1].i>> \in PorMover
                 /\ <<c[j + 1].pid, c[j + 1].i>> # <<p, i>>
      <4>1. PICK l \in 1 .. n : l = j + 1 /\ l # 1
        OBVIOUS
      <4> QED BY <2>4, <2>5, <4>1
    <3>3. ASSUME NEW l \in 1 .. n, <<c[l].pid, c[l].i>> # <<p, i>>
          PROVE  \E j \in 1 .. n - 1 : <<c[l].pid, c[l].i>> = <<c[j + 1].pid, c[j + 1].i>>
      <4>1. l # 1
        BY <2>3, <3>3
      <4>2. PICK j \in 1 .. n - 1 : l = j + 1
        BY <4>1, l - 1 \in 1 .. n - 1
      <4> QED BY <4>2
    <3>4. ASSUME NEW x, x \in PorMover' PROVE x \in PorMover /\ x # <<p, i>>
      <4>1. PICK j \in 1 .. n - 1 : x = <<c[j + 1].pid, c[j + 1].i>>
        BY <3>1, <3>4
      <4> QED BY <3>2, <4>1
    <3>5. ASSUME NEW x, x \in PorMover, x # <<p, i>> PROVE x \in PorMover'
      <4>1. PICK l \in 1 .. n : x = <<c[l].pid, c[l].i>>
        BY <2>5, <3>5
      <4> QED BY <3>1, <3>3, <3>5, <4>1
    <3> QED BY <3>4, <3>5
  <2>16. \A x : x \in Movidos' <=> x \in Movidos \/ x = <<p, i>>
    BY <2>a, <2>b, <2>12, <2>15 DEF Movidos
  <2>17. <<p, i>> \notin Movidos /\ Movidos \subseteq EnTabla
    BY <2>3, <2>5 DEF Movidos, Residentes
  <2>18. Compacta'
    <3>1. B + st <= total
      BY <2>0a
    <3>2. ASSUME NEW x \in Movidos' PROVE segs'[x[1]][x[2]].base + segs'[x[1]][x[2]].tam <= B + st
      <4>1. CASE x = <<p, i>>
        <5>1. segs'[x[1]][x[2]] = m
          BY <2>9, <4>1
        <5>2. m.base = B /\ m.tam = st
          BY <2>a, <2>b, Zenon
        <5> QED BY <2>0a, <5>1, <5>2
      <4>2. CASE x # <<p, i>>
        <5>1. x \in Movidos /\ x \in Residentes
          BY <2>16, <3>2, <4>2 DEF Movidos
        <5>2. PICK r : r = segs[x[1]][x[2]]
          OBVIOUS
        <5>3. r.base \in Nat /\ r.tam \in Nat /\ r.base + r.tam <= B
          BY <2>6, <5>1, <5>2, SegmentosDebajo
        <5>4. segs'[x[1]][x[2]] = r
          BY <2>10, <2>17, <4>2, <5>1, <5>2
        <5>5. PICK e \in Nat : e = r.base + r.tam
          BY <5>3
        <5>6. e <= B + st
          BY <2>0a, <5>3, <5>5
        <5> QED BY <5>4, <5>5, <5>6
      <4> QED BY <4>1, <4>2
    <3>3. ASSUME NEW a \in Nat, a < B + st
          PROVE  \E x \in Movidos' : a \in Bytes(segs'[x[1]][x[2]])
      <4>1. CASE a < B
        <5>1. PICK x \in Movidos : a \in Bytes(segs[x[1]][x[2]])
          BY <1>1, <1>2, <2>a, <2>b, <4>1 DEF Compacta
        <5>2. x \in Movidos' /\ segs'[x[1]][x[2]] = segs[x[1]][x[2]]
          BY <2>10, <2>16, <2>17, <5>1
        <5> QED BY <5>1, <5>2
      <4>2. CASE ~(a < B)
        <5>1. B <= a
          BY <4>2
        <5>1a. m.base = B /\ m.tam = st
          BY <2>a, <2>b, Zenon
        <5>2. a \in Bytes(m)
          BY <2>0a, <3>3, <5>1, <5>1a, BytesSon
        <5>3. <<p, i>> \in Movidos' /\ segs'[<<p, i>>[1]][<<p, i>>[2]] = m
          BY <2>9, <2>16
        <5> QED BY <5>2, <5>3
      <4> QED BY <4>1, <4>2
    <3>4. ASSUME NEW j \in 1 .. n - 1
          PROVE  /\ <<d[j].pid, d[j].i>> \in Residentes'
                 /\ B + st <= d[j].base
                 /\ segs'[d[j].pid][d[j].i].base = d[j].base
                 /\ segs'[d[j].pid][d[j].i].tam = d[j].tam
      <4>1. PICK l \in 1 .. n : l = j + 1 /\ l # 1
        OBVIOUS
      <4>2. d[j] = c[l]
        BY <2>14, <4>1
      <4>3. /\ <<c[l].pid, c[l].i>> \in Residentes /\ <<c[l].pid, c[l].i>> # <<p, i>>
            /\ sb + st <= c[l].base /\ c[l].base \in Nat
        BY <2>3, <2>4, <4>1
      <4>4. segs'[c[l].pid][c[l].i] = segs[c[l].pid][c[l].i]
        <5>1. PICK x \in EnTabla : x = <<c[l].pid, c[l].i>>
          BY <4>3 DEF Residentes
        <5>2. segs'[x[1]][x[2]] = segs[x[1]][x[2]]
          BY <2>10, <4>3, <5>1
        <5> QED BY <5>1, <5>2
      <4>5. B + st <= c[l].base
        <5>1. PICK cb \in Nat : cb = c[l].base
          BY <4>3
        <5>2. sb + st <= cb
          BY <4>3, <5>1
        <5>3. B + st <= cb
          BY ONLY <2>0, <2>0a, <1>1, <5>2, cb \in Nat
        <5> QED BY <5>1, <5>3
      <4>6. segs[c[l].pid][c[l].i].base = c[l].base /\ segs[c[l].pid][c[l].i].tam = c[l].tam
        BY <2>3
      <4> QED BY <2>12, <4>2, <4>3, <4>4, <4>5, <4>6
    <3>5. ASSUME NEW j \in 1 .. n - 1, NEW l \in 1 .. n - 1, j < l
          PROVE  d[j].base + d[j].tam <= d[l].base
      <4>1. PICK j1 \in 1 .. n, l1 \in 1 .. n : j1 = j + 1 /\ l1 = l + 1 /\ j1 < l1
        BY <3>5, j + 1 \in 1 .. n, l + 1 \in 1 .. n
      <4>2. d[j] = c[j1] /\ d[l] = c[l1]
        BY <2>14, <4>1
      <4> QED BY <2>3, <4>1, <4>2
    <3>6. ks'.fase = "mover" /\ ks'.base = B + st /\ total' = total /\ DOMAIN ks'.cola = 1 .. n - 1
          /\ ks'.cola = d
      BY <1>2, <2>a, <2>b, <2>13, <2>14
    <3>7. ks'.fase \notin {"gran", "crear"}
      BY <3>6
    <3> QED BY <3>1, <3>2, <3>3, <3>4, <3>5, <3>6, <3>7 DEF Compacta, Bytes
  <2> QED BY <1>2, <2>8, <2>18 DEF Reparto
<1>5. CASE ~(UNCHANGED <<segs, ks>>)
  <2>1. PICK p \in Procesos, i \in Nat, m \in Segmento, B \in Nat, sb \in Nat,
             st \in Nat \ {0} : Baja(p, i, m, B, sb, st)
    BY <1>5, MoverEs
  <2> QED BY <1>4, <2>1
<1> QED
  BY <1>3, <1>5

-----------------------------------------------------------------------------
(* All the steps together, and the two theorems.                           *)

\* The thirteen kinds of step keep the inventory.
LEMMA RepPaso == ASSUME KernelMemoryAssumption, RepInv, [Next]_vars PROVE RepInv'
<1>0. /\ MemInv /\ MemInv' /\ TypeInv /\ TypeInv' /\ SinSegmentos
      /\ segs \in [Procesos -> Seq(Segmento)]
  BY MemPaso, Tipos DEF RepInv, MemInv, TypeInv
<1>1. CASE UNCHANGED vars
  <2>1. UNCHANGED <<total, huecos, segs, stick, ks, fugas, dobles>>
    BY <1>1 DEF vars, tablas, historia
  <2> QED BY <1>0, <2>1, RepartoIgual DEF RepInv
<1>2. CASE Next
  <2>1. dobles = {}
    BY <1>2 DEF Next, Parado
  <2>2. ASSUME NEW p \in Procesos, CrearProceso(p) PROVE Reparto' /\ Compacta'
    <3>1. segs' = [segs EXCEPT ![p] = <<>>] /\ segs[p] = <<>>
          /\ UNCHANGED <<total, huecos, stick, ks, fugas, dobles>>
      BY <1>0, <2>2 DEF CrearProceso, SinSegmentos, historia
    <3>2. segs' = segs
      BY <1>0, <3>1
    <3> QED BY <3>1, <3>2, RepartoIgual
  <2>3. ASSUME NEW p \in Procesos, FinalizarProceso(p) PROVE Reparto' /\ Compacta'
    BY <1>0, <2>1, <2>3, RepartoFinalizar
  <2>4. ASSUME NEW p \in Procesos, NEW i \in DOMAIN segs[p], EliminarSegmento(p, i)
        PROVE  Reparto' /\ Compacta'
    BY <1>0, <2>1, <2>4, RepartoEliminar
  <2>5. ASSUME NEW p \in Procesos, Suspender(p) \/ Desuspender(p) PROVE Reparto' /\ Compacta'
    <3>1. /\ ks.fase = "libre"
          /\ UNCHANGED <<total, huecos, segs, stick, fugas, dobles>>
      BY <2>5 DEF Suspender, Desuspender, tablas, historia
    <3>2. ks'.fase \in {"suspender", "reservar"} /\ ks'.cola = <<>>
      BY <1>0, <2>5, FaseDelPedido
    <3> QED BY <2>1, <3>1, <3>2, RepartoSoloKS
  <2>6. ASSUME NEW p \in Procesos, NEW id \in Ids, NEW tam \in Tamanios,
               CrearSegmento(p, id, tam)
        PROVE  Reparto' /\ Compacta'
    BY <2>1, <2>6, RepartoTomarHueco DEF CrearSegmento
  <2>7. ASSUME Compactar PROVE Reparto' /\ Compacta'
    BY <1>0, <2>1, <2>7, RepartoCompactar
  <2>8. ASSUME CrearTrasCompactar PROVE Reparto' /\ Compacta'
    <3>1. ks.fase = "crear" /\ TomarHueco(ks.pid, ks.id, ks.tam)
      BY <2>8 DEF CrearTrasCompactar
    <3>2. ks.pid \in Procesos /\ ks.id \in Ids /\ ks.tam \in Tamanios
      BY <1>0, <3>1 DEF TypeInv, EnCurso
    <3>3. PICK p \in Procesos, id \in Ids, tam \in Tamanios :
            p = ks.pid /\ id = ks.id /\ tam = ks.tam
      BY <3>2
    <3>4. TomarHueco(p, id, tam)
      BY <3>1, <3>3
    <3> QED BY <2>1, <3>1, <3>4, RepartoTomarHueco
  <2>9. ASSUME SuspensionLista PROVE Reparto' /\ Compacta'
    <3>1. ks.fase = "suspender" /\ ks' = Ocioso
          /\ UNCHANGED <<total, huecos, segs, stick, fugas, dobles>>
      BY <2>9 DEF SuspensionLista, historia
    <3> QED BY <2>1, <3>1, OciosoTipado, RepartoSoloKS
  <2>10. ASSUME Registrar \/ Devolver \/ Mover \/ VaciarHuecos \/ GranHueco
                \/ SuspenderSegmento \/ Reservar \/ Traer
         PROVE  Reparto' /\ Compacta'
    BY <1>0, <2>1, <2>10, RepartoRegistrar, RepartoDevolver, RepartoMover, RepartoVaciar,
       RepartoGran, RepartoSuspender, RepartoReservar, RepartoTraer
  <2>11. ASSUME NEW k \in Sticks, PasoStick(k) PROVE Reparto' /\ Compacta'
    BY <2>1, <2>11, RepartoAumentar, RepartoHuecoDeStick, RepartoPosicion DEF PasoStick
  <2>12. Reparto' /\ Compacta'
    BY <1>2, <2>2, <2>3, <2>4, <2>5, <2>6, <2>7, <2>8, <2>9, <2>10, <2>11
    DEF Next, Pedido, PasoKS
  <2> QED BY <1>0, <2>12 DEF RepInv
<1> QED BY <1>1, <1>2

\* Without memory nobody has a byte.
LEMMA RepInicial == ASSUME KernelMemoryAssumption, Init PROVE RepInv
<1>1. MemInv /\ TypeInv
  BY MemInicial DEF MemInv
<1>2. /\ total = 0 /\ huecos = <<>> /\ fugas = {} /\ \A p \in Procesos : segs[p] = <<>>
      /\ \A k \in Sticks : stick[k].fase = "no"
      /\ ks.fase = "libre"
  BY OciosoTipado DEF Init
<1>3. Residentes = {}
  BY <1>2 DEF Residentes, EnTabla
<1>4. ASSUME NEW a \in Nat PROVE Exacto(a)
  <2>1. ~Cubre(huecos, a) /\ UnaVez(huecos, a)
    BY <1>2, CubreNada
  <2>2. \A x : ~DeSegmento(a, x)
    BY <1>3 DEF DeSegmento
  <2>3. ~EnKs(a) /\ ~EnCola(a) /\ ColaUna(a)
    BY <1>2, FaseEs DEF ConCola
  <2>4. ~EnStick(a) /\ ~EnNadie(a)
    BY <1>2 DEF EnStick, EnNadie
  <2>5. ~EnHueco(a) /\ HuecosUna(a) /\ ~EnSegmento(a) /\ SegmentoUno(a)
    BY <2>1, <2>2 DEF EnHueco, HuecosUna, EnSegmento, SegmentoUno
  <2>6. ~(a < total)
    BY <1>2
  <2> QED BY <2>3, <2>4, <2>5, <2>6 DEF Exacto, UnoSolo, ALoSumo, Alguno
<1>5. Compacta
  BY <1>2 DEF Compacta
<1> QED BY <1>1, <1>4, <1>5 DEF RepInv, Reparto

\* The owners of a byte, one set for each family.
DHueco(a)    == {<<"hueco", i>> : i \in {j \in DOMAIN huecos :
                                           ~Compactando /\ a \in Bytes(huecos[j])}}
DSegmento(a) == {<<"segmento", x>> : x \in {y \in Residentes : a \in Bytes(segs[y[1]][y[2]])}}
DKs(a)       == IF ks.fase = "registrar" /\ a \in Bytes(ks) THEN {<<"ks", 0>>} ELSE {}
DCola(a)     == {<<"ks", i>> : i \in {j \in DOMAIN ks.cola :
           ks.fase \in {"devolver", "reservar", "traer", "trabado"} /\ a \in Bytes(ks.cola[j])}}
DStick(a)    == {<<"stick", k>> : k \in {j \in Sticks :
           stick[j].fase = "hueco" /\ a \in stick[j].base .. stick[j].base + TamStick[j] - 1}}
DNadie(a)    == IF a \in fugas /\ ~Compactando THEN {<<"nadie", 0>>} ELSE {}

\* A set with at most one element has no elements or one.
LEMMA VacioOUno ==
  ASSUME NEW S, \A x, y \in S : x = y
  PROVE  Cardinality(S) \in {0, 1} /\ (Cardinality(S) = 0 <=> S = {})
<1>1. CASE S = {}
  BY <1>1, FS_EmptySet
<1>2. CASE S # {}
  <2>1. PICK x : S = {x}
    BY <1>2
  <2>2. Cardinality(S) = 1
    BY <2>1, FS_Singleton
  <2> QED BY <1>2, <2>2
<1> QED BY <1>1, <1>2

\* The set of owners is empty when no family has the byte, and has one element at most.
LEMMA DueniosSon ==
  ASSUME KernelMemoryAssumption, RepInv, NEW a \in Nat \ dobles
  PROVE  /\ \A x, y \in Duenios(a) : x = y
         /\ Duenios(a) # {} <=> Alguno(a)
<1>1. /\ ALoSumo(EnHueco(a), EnSegmento(a), EnKs(a), EnCola(a), EnStick(a), EnNadie(a))
      /\ HuecosUna(a) /\ SegmentoUno(a) /\ ColaUna(a)
  BY DEF RepInv, Reparto, Exacto, UnoSolo
<1>2. Duenios(a) = DHueco(a) \cup DSegmento(a) \cup DKs(a) \cup DCola(a) \cup DStick(a)
                   \cup DNadie(a)
  BY Zenon DEF Duenios, DHueco, DSegmento, DKs, DCola, DStick, DNadie
<1>3. (DHueco(a) # {} <=> EnHueco(a)) /\ \A x, y \in DHueco(a) : x = y
  <2>1. DHueco(a) # {} <=> EnHueco(a)
    BY Zenon DEF DHueco, EnHueco, Cubre
  <2>2. ASSUME NEW x \in DHueco(a), NEW y \in DHueco(a) PROVE x = y
    <3>1. PICK i \in DOMAIN huecos : x = <<"hueco", i>> /\ ~Compactando /\ a \in Bytes(huecos[i])
      BY <2>2 DEF DHueco
    <3>2. PICK j \in DOMAIN huecos : y = <<"hueco", j>> /\ a \in Bytes(huecos[j])
      BY <2>2 DEF DHueco
    <3> QED BY <1>1, <3>1, <3>2 DEF HuecosUna, UnaVez
  <2> QED BY <2>1, <2>2
<1>4. (DSegmento(a) # {} <=> EnSegmento(a)) /\ \A x, y \in DSegmento(a) : x = y
  <2>1. DSegmento(a) # {} <=> EnSegmento(a)
    BY Zenon DEF DSegmento, EnSegmento, DeSegmento
  <2>2. ASSUME NEW x \in DSegmento(a), NEW y \in DSegmento(a) PROVE x = y
    <3>1. PICK v \in Residentes : x = <<"segmento", v>> /\ a \in Bytes(segs[v[1]][v[2]])
      BY <2>2 DEF DSegmento
    <3>2. PICK w \in Residentes : y = <<"segmento", w>> /\ a \in Bytes(segs[w[1]][w[2]])
      BY <2>2 DEF DSegmento
    <3> QED BY <1>1, <3>1, <3>2 DEF SegmentoUno, DeSegmento
  <2> QED BY <2>1, <2>2
<1>5. (DKs(a) # {} <=> EnKs(a)) /\ \A x, y \in DKs(a) : x = y
  BY DEF DKs, EnKs
<1>6. (DCola(a) # {} <=> EnCola(a)) /\ \A x, y \in DCola(a) : x = y
  <2>1. DCola(a) # {} <=> EnCola(a)
    BY Zenon DEF DCola, EnCola, ConCola, Cubre
  <2>2. ASSUME NEW x \in DCola(a), NEW y \in DCola(a) PROVE x = y
    <3>1. PICK i \in DOMAIN ks.cola : x = <<"ks", i>> /\ ConCola /\ a \in Bytes(ks.cola[i])
      BY <2>2 DEF DCola, ConCola
    <3>2. PICK j \in DOMAIN ks.cola : y = <<"ks", j>> /\ a \in Bytes(ks.cola[j])
      BY <2>2 DEF DCola
    <3> QED BY <1>1, <3>1, <3>2 DEF ColaUna, UnaVez
  <2> QED BY <2>1, <2>2
<1>7. (DStick(a) # {} <=> EnStick(a)) /\ \A x, y \in DStick(a) : x = y
  <2>1. DStick(a) # {} <=> EnStick(a)
    BY Zenon DEF DStick, EnStick
  <2>2. ASSUME NEW x \in DStick(a), NEW y \in DStick(a) PROVE x = y
    <3>1. PICK k \in Sticks : x = <<"stick", k>> /\ stick[k].fase = "hueco"
                              /\ a \in stick[k].base .. stick[k].base + TamStick[k] - 1
      BY <2>2 DEF DStick
    <3>2. PICK l \in Sticks : y = <<"stick", l>> /\ stick[l].fase = "hueco"
                              /\ a \in stick[l].base .. stick[l].base + TamStick[l] - 1
      BY <2>2 DEF DStick
    <3>3. CASE k = l
      BY <3>1, <3>2, <3>3
    <3>4. CASE k # l
      <4>1. Orden(k, l) \/ Orden(l, k)
        BY <3>1, <3>2, <3>4 DEF RepInv, MemInv, TypeInv, SticksAparte
      <4>2. TypeOK
        BY DEF RepInv, MemInv, TypeInv
      <4> QED BY <3>1, <3>2, <4>1, <4>2, SticksSeparados
    <3> QED BY <3>3, <3>4
  <2> QED BY <2>1, <2>2
<1>8. (DNadie(a) # {} <=> EnNadie(a)) /\ \A x, y \in DNadie(a) : x = y
  BY DEF DNadie, EnNadie
<1>9. Duenios(a) # {} <=> Alguno(a)
  BY <1>2, <1>3, <1>4, <1>5, <1>6, <1>7, <1>8 DEF Alguno
<1>10. ASSUME NEW x \in Duenios(a), NEW y \in Duenios(a) PROVE x = y
  <2>1. \/ Duenios(a) = DHueco(a) \/ Duenios(a) = DSegmento(a) \/ Duenios(a) = DKs(a)
        \/ Duenios(a) = DCola(a) \/ Duenios(a) = DStick(a) \/ Duenios(a) = DNadie(a)
    BY <1>1, <1>2, <1>3, <1>4, <1>5, <1>6, <1>7, <1>8 DEF ALoSumo
  <2> QED BY <1>3, <1>4, <1>5, <1>6, <1>7, <1>8, <2>1
<1> QED BY <1>9, <1>10

\* No byte is lost or has two owners, at every step of crear_segmento, eliminar_proceso, the
\* suspension, the desuspension and the compaction, and wherever the threads of the sticks
\* come in between (huecos.c, segmentos.c, compactacion.c, swap.c).
THEOREM MemoriaRepartida == Spec => []ParticionDeMemoria
<1>1. Init => RepInv
  BY KernelMemoryAssumption, RepInicial
<1>2. RepInv /\ [Next]_vars => RepInv'
  BY KernelMemoryAssumption, RepPaso
<1>3. RepInv => ParticionDeMemoria
  <2> SUFFICES ASSUME RepInv, NEW a \in (0 .. Tope - 1) \ dobles
               PROVE  IF a >= total THEN Duenios(a) = {}
                      ELSE IF Compactando THEN Cardinality(Duenios(a)) <= 1
                      ELSE Cardinality(Duenios(a)) = 1
    BY DEF ParticionDeMemoria
  <2>1. a \in Nat \ dobles
    <3>1. Tope \in Nat
      BY KernelMemoryAssumption, CapacidadUno DEF Tope
    <3> QED BY <3>1
  <2>2. /\ \A x, y \in Duenios(a) : x = y
        /\ Duenios(a) # {} <=> Alguno(a)
    BY <2>1, KernelMemoryAssumption, DueniosSon
  <2>3. Cardinality(Duenios(a)) \in {0, 1} /\ (Cardinality(Duenios(a)) = 0 <=> Duenios(a) = {})
    BY <2>2, VacioOUno
  <2>4. Exacto(a) /\ total \in Nat
    BY <2>1, Tipos DEF RepInv, Reparto, MemInv, TypeInv
  <2>5. (a >= total => ~Alguno(a)) /\ (a < total /\ ~Compactando => Alguno(a))
    BY <2>4 DEF Exacto
  <2>6. a >= total \/ a < total
    BY <2>1, <2>4
  <2> QED BY <2>2, <2>3, <2>5, <2>6
<1> QED BY <1>1, <1>2, <1>3, PTL DEF Spec

\* The last byte of a segment, of which the hole it is compared with is above.
LEMMA UltimoByte ==
  ASSUME NEW t, t.base \in Nat, t.tam \in Nat \ {0}
  PROVE  Max(Bytes(t)) = t.base + t.tam - 1
<1>1. PICK b \in Nat, n \in Nat \ {0} : b = t.base /\ n = t.tam
  OBVIOUS
<1>2. PICK u \in Nat : u = b + n - 1
  BY b + n - 1 \in Nat
<1>3. Bytes(t) = b .. u
  BY <1>1, <1>2 DEF Bytes
<1>4. u \in b .. u /\ \A v \in b .. u : u >= v
  BY <1>2
<1>5. \A m \in b .. u : (\A v \in b .. u : m >= v) => m = u
  BY <1>4
<1>6. Max(b .. u) = CHOOSE m \in b .. u : \A v \in b .. u : m >= v
  BY DEF Max
<1>7. Max(b .. u) = u
  BY <1>4, <1>5, <1>6
<1> QED BY <1>1, <1>2, <1>3, <1>7

\* After a compaction every hole is above every segment, and those of suspended processes that
\* swap refused are no exception (iniciar_compactacion, compactacion.c).
THEOREM CompactacionSinHuecos == Spec => []SinHuecosIntermedios
<1>1. Init => RepInv
  BY KernelMemoryAssumption, RepInicial
<1>2. RepInv /\ [Next]_vars => RepInv'
  BY KernelMemoryAssumption, RepPaso
<1>3. RepInv => SinHuecosIntermedios
  <2> SUFFICES ASSUME RepInv, ks.fase = "crear", NEW i \in DOMAIN huecos, NEW x \in Residentes
               PROVE  huecos[i].base > Max(Bytes(segs[x[1]][x[2]]))
    BY DEF SinHuecosIntermedios
  <2>1. /\ Compacta /\ TypeInv /\ segs \in [Procesos -> Seq(Segmento)] /\ huecos \in Seq(Hueco)
        /\ ks.base \in Nat /\ ks.cola = <<>>
    BY Tipos DEF RepInv, MemInv, TypeInv, EnCurso
  <2>2. x \in Movidos
    BY <2>1 DEF Movidos, PorMover
  <2>3. PICK s : s = segs[x[1]][x[2]]
    OBVIOUS
  <2>4. s.base \in Nat /\ s.tam \in Nat \ {0}
    <3>1. x[1] \in Procesos /\ x[2] \in DOMAIN segs[x[1]]
      BY <2>1, EnTablaTipo DEF Residentes
    <3>2. s \in Segmento
      BY <2>1, <2>3, <3>1
    <3> QED BY <3>2, KernelMemoryAssumption, SegmentoEs
  <2>5. s.base + s.tam <= ks.base /\ ks.base <= huecos[i].base
    BY <2>1, <2>2, <2>3 DEF Compacta
  <2>6. Max(Bytes(s)) = s.base + s.tam - 1
    BY <2>4, UltimoByte
  <2>7. huecos[i].base \in Nat
    <3>1. huecos[i] \in Hueco
      BY <2>1
    <3> QED BY <3>1 DEF Hueco
  <2>8. PICK b \in Nat, n \in Nat \ {0}, h \in Nat, kb \in Nat :
          b = s.base /\ n = s.tam /\ h = huecos[i].base /\ kb = ks.base
    BY <2>1, <2>4, <2>7
  <2>9. h > b + n - 1
    BY <2>5, <2>8
  <2> QED BY <2>3, <2>6, <2>8, <2>9
<1> QED BY <1>1, <1>2, <1>3, PTL DEF Spec

-----------------------------------------------------------------------------
(* The contents: what a segment holds, in the sticks or in swap, is what   *)
(* its program wrote.                                                      *)

\* What the program wrote in segment s of p, and segment s of p holding it.
Escrito(p, s)   == [j \in 1 .. s.tam |-> Marca(p, s.id, j)]
LeerDe(m, t)    == [j \in 1 .. t.tam |-> m[t.base + j - 1]]
Lleno(m, d, p, s) ==
  IF s.enSwap THEN \A b \in BloquesDe(s) : d[b] = TrozoDe(Escrito(p, s), b - s.bloque)
              ELSE LeerDe(m, s) = Escrito(p, s)
Contenido ==
  dobles = {} => \A p \in Procesos : \A i \in DOMAIN segs[p] : Lleno(mem, disco, p, segs[p][i])
ContInv == RepInv /\ SwapInv /\ Contenido

\* A segment whose bytes, or whose blocks, keep what they hold.
LEMMA LlenoSigue ==
  ASSUME KernelMemoryAssumption, NEW m, NEW m1, NEW d, NEW d1, NEW p, NEW s \in Segmento,
         Lleno(m, d, p, s),
         ~s.enSwap => \A a \in Bytes(s) : m1[a] = m[a],
         s.enSwap => \A b \in BloquesDe(s) : d1[b] = d[b]
  PROVE  Lleno(m1, d1, p, s)
<1>1. CASE s.enSwap
  BY <1>1 DEF Lleno
<1>2. CASE ~s.enSwap
  <2>1. s.base \in Nat /\ s.tam \in Nat
    BY SegmentoEs
  <2>2. ASSUME NEW j \in 1 .. s.tam PROVE m1[s.base + j - 1] = m[s.base + j - 1]
    <3>1. PICK b \in Nat, t \in Nat, a \in Nat : b = s.base /\ t = s.tam /\ a = b + j - 1
      <4>1. \A b, t \in Nat : j \in 1 .. t => b + j - 1 \in Nat
        OBVIOUS
      <4> QED BY <2>1, <2>2, <4>1
    <3>2. b <= a /\ a < b + t
      BY <2>2, <3>1
    <3>3. a \in Bytes(s)
      BY <2>1, <3>1, <3>2, BytesSon
    <3> QED BY <1>2, <3>1, <3>3
  <2>3. LeerDe(m1, s) = LeerDe(m, s)
    BY <2>2 DEF LeerDe
  <2> QED BY <1>2, <2>3 DEF Lleno
<1> QED BY <1>1, <1>2

\* The bytes and the blocks of a segment; f and g agree outside S.
EnMem(s)  == IF s.enSwap THEN {} ELSE Bytes(s)
EnSwap(s) == IF s.enSwap THEN BloquesDe(s) ELSE {}
IgualFuera(f, g, S) == \A a \in DOMAIN f : a \notin S => g[a] = f[a]

\* Where the bytes and the blocks of a segment are.
LEMMA SegmentoCabe ==
  ASSUME KernelMemoryAssumption, RepInv, dobles = {}, NEW p \in Procesos, NEW i \in DOMAIN segs[p]
  PROVE  /\ segs[p][i] \in Segmento /\ EnMem(segs[p][i]) \subseteq DOMAIN mem
         /\ EnSwap(segs[p][i]) \subseteq Bits /\ DOMAIN mem = 0 .. Tope - 1 /\ DOMAIN disco = Bits
         /\ \A a \in EnMem(segs[p][i]) : a \in Nat /\ DeSegmento(a, <<p, i>>)
<1>1. /\ segs \in [Procesos -> Seq(Segmento)] /\ TypeInv /\ TypeOK /\ CabenEnSwap /\ total \in Nat
      /\ SinSegmentos
  BY RepartoTodos DEF TypeInv
<1>2. /\ DOMAIN mem = 0 .. Tope - 1 /\ DOMAIN disco = Bits /\ total \in 0 .. Tope
  BY <1>1 DEF TypeOK
<1>3. PICK s \in Segmento : s = segs[p][i]
  BY <1>1
<1>4. EnSwap(s) \subseteq Bits
  <2>1. s.enSwap => s.bloque + BloquesNecesarios(s.tam) <= MaxBit
    BY <1>1, <1>3 DEF CabenEnSwap
  <2> QED BY <2>1, BloquesDeTipado DEF EnSwap
<1>5. \A a \in EnMem(s) : a \in Nat /\ DeSegmento(a, <<p, i>>)
  <2>1. s.base \in Nat /\ s.tam \in Nat
    BY SegmentoEs
  <2>2. \A a \in EnMem(s) : a \in Bytes(s) /\ ~s.enSwap
    BY DEF EnMem
  <2>3. \A a \in EnMem(s) : a \in Nat
    BY <2>1, <2>2, BytesSon
  <2> QED BY <1>1, <1>3, <2>2, <2>3, DeSegmentoEs
<1>6. EnMem(s) \subseteq DOMAIN mem
  <2> SUFFICES ASSUME NEW a \in EnMem(s) PROVE a \in DOMAIN mem
    OBVIOUS
  <2>1. a \in Nat /\ EnSegmento(a)
    BY <1>5 DEF EnSegmento
  <2>2. a < total
    <3>1. Exacto(a)
      BY <2>1, RepartoTodos
    <3> QED BY <1>1, <2>1, <3>1 DEF Exacto, Alguno
  <2>3. Tope \in Nat
    BY CapacidadUno DEF Tope
  <2> QED BY <1>2, <2>1, <2>2, <2>3
<1> QED BY <1>2, <1>3, <1>4, <1>5, <1>6

\* Two segments have no byte and no block in common.
LEMMA SegmentosSeparados ==
  ASSUME KernelMemoryAssumption, RepInv, SwapInv, dobles = {},
         NEW p \in Procesos, NEW i \in DOMAIN segs[p],
         NEW q \in Procesos, NEW j \in DOMAIN segs[q], q # p \/ j # i
  PROVE  /\ EnMem(segs[p][i]) \cap EnMem(segs[q][j]) = {}
         /\ EnSwap(segs[p][i]) \cap EnSwap(segs[q][j]) = {}
<1>1. <<p, i>> # <<q, j>>
  OBVIOUS
<1>2. ASSUME NEW a, a \in EnMem(segs[p][i]), a \in EnMem(segs[q][j]) PROVE FALSE
  <2>1. a \in Nat /\ DeSegmento(a, <<p, i>>) /\ DeSegmento(a, <<q, j>>)
    BY <1>2, SegmentoCabe
  <2>2. Exacto(a)
    BY <2>1, RepartoTodos
  <2> QED BY <1>1, <2>1, <2>2 DEF Exacto, UnoSolo, SegmentoUno
<1>3. ASSUME NEW b, b \in EnSwap(segs[p][i]), b \in EnSwap(segs[q][j]) PROVE FALSE
  <2>1. b \in Bits
    BY <1>3, SegmentoCabe
  <2>2. /\ segs[p][i].enSwap /\ b \in BloquesDe(segs[p][i])
        /\ segs[q][j].enSwap /\ b \in BloquesDe(segs[q][j])
    BY <1>3 DEF EnSwap
  <2>3. TypeInv
    BY DEF RepInv, MemInv
  <2>4. Usa(b, <<p, i>>) /\ Usa(b, <<q, j>>)
    BY <2>2, <2>3, UsaEs
  <2>5. Bloque(b)
    BY <2>1 DEF SwapInv, EnSwapOK
  <2> QED BY <1>1, <2>4, <2>5 DEF Bloque
<1> QED BY <1>2, <1>3

\* That, of every two segments; it holds too after a step from the same invariants.
Aparte == \A p, q \in Procesos : \A i \in DOMAIN segs[p], j \in DOMAIN segs[q] :
            q # p \/ j # i => /\ EnMem(segs[p][i]) \cap EnMem(segs[q][j]) = {}
                              /\ EnSwap(segs[p][i]) \cap EnSwap(segs[q][j]) = {}

Sano == RepInv /\ SwapInv /\ dobles = {}

LEMMA ApartadosEs == Sano => Aparte
BY SegmentosSeparados, KernelMemoryAssumption DEF Aparte, Sano

LEMMA ApartadosLuego == Sano' => Aparte'
BY ApartadosEs, PTL

\* A segment that stays keeps what it holds when what changes is of others.
LEMMA LlenoAparte ==
  ASSUME KernelMemoryAssumption, RepInv, dobles = {}, Contenido,
         NEW p \in Procesos, NEW i \in DOMAIN segs[p], NEW S, NEW D, NEW m1, NEW d1,
         IgualFuera(mem, m1, S), IgualFuera(disco, d1, D),
         EnMem(segs[p][i]) \cap S = {}, EnSwap(segs[p][i]) \cap D = {}
  PROVE  Lleno(m1, d1, p, segs[p][i])
<1>1. /\ EnMem(segs[p][i]) \subseteq DOMAIN mem /\ EnSwap(segs[p][i]) \subseteq DOMAIN disco
      /\ segs[p][i] \in Segmento
  BY SegmentoCabe
<1>2. Lleno(mem, disco, p, segs[p][i])
  BY DEF Contenido
<1>3. PICK s \in Segmento : s = segs[p][i]
  BY <1>1
<1>4. ~s.enSwap => \A a \in Bytes(s) : m1[a] = mem[a]
  BY <1>1, <1>3 DEF IgualFuera, EnMem
<1>5. s.enSwap => \A b \in BloquesDe(s) : d1[b] = disco[b]
  BY <1>1, <1>3 DEF IgualFuera, EnSwap
<1>6. Lleno(mem, disco, p, s)
  BY <1>2, <1>3
<1>7. Lleno(m1, d1, p, s)
  BY ONLY KernelMemoryAssumption, <1>4, <1>5, <1>6, LlenoSigue
<1> QED BY <1>3, <1>7

\* One segment becomes s and only what it had or has changes.
LEMMA ContenidoCambia ==
  ASSUME KernelMemoryAssumption, RepInv, SwapInv, RepInv', SwapInv', Contenido,
         dobles = {}, dobles' = {},
         NEW p \in Procesos, NEW i \in DOMAIN segs[p], NEW s \in Segmento,
         segs' = ConSegmento(p, i, s),
         IgualFuera(mem, mem', EnMem(segs[p][i]) \cup EnMem(s)),
         IgualFuera(disco, disco', EnSwap(segs[p][i]) \cup EnSwap(s)),
         Lleno(mem', disco', p, s)
  PROVE  Contenido'
<1>1. /\ \A q \in Procesos : DOMAIN segs'[q] = DOMAIN segs[q]
      /\ segs'[p][i] = s
      /\ \A q \in Procesos : \A j \in DOMAIN segs[q] : q # p \/ j # i => segs'[q][j] = segs[q][j]
  <2>1. segs \in [Procesos -> Seq(Segmento)]
    BY RepartoTodos
  <2>2. /\ p \in Procesos /\ i \in DOMAIN segs[p] /\ s \in Segmento
        /\ segs' = ConSegmento(p, i, s)
    OBVIOUS
  <2> QED BY ONLY <2>1, <2>2, ConSegmentoEs
<1>2. ASSUME NEW q \in Procesos, NEW j \in DOMAIN segs[q]
      PROVE  Lleno(mem', disco', q, segs'[q][j])
  <2>1. CASE q = p /\ j = i
    BY <1>1, <2>1
  <2>2. CASE q # p \/ j # i
    <3>1. segs'[q][j] = segs[q][j]
      BY <1>1, <2>2
    <3>2. /\ EnMem(segs[p][i]) \cap EnMem(segs[q][j]) = {}
          /\ EnSwap(segs[p][i]) \cap EnSwap(segs[q][j]) = {}
      BY <2>2, SegmentosSeparados
    <3>3. /\ EnMem(s) \cap EnMem(segs[q][j]) = {}
          /\ EnSwap(s) \cap EnSwap(segs[q][j]) = {}
      <4>1. i \in DOMAIN segs'[p] /\ j \in DOMAIN segs'[q]
        BY <1>1
      <4>2. /\ EnMem(segs'[p][i]) \cap EnMem(segs'[q][j]) = {}
            /\ EnSwap(segs'[p][i]) \cap EnSwap(segs'[q][j]) = {}
        <5>1. Aparte'
          BY ApartadosLuego DEF Sano
        <5>2. p \in Procesos /\ q \in Procesos
          OBVIOUS
        <5> QED BY ONLY <2>2, <4>1, <5>1, <5>2, Zenon DEF Aparte
      <4> QED BY <1>1, <3>1, <4>2
    <3>4. /\ EnMem(segs[q][j]) \cap (EnMem(segs[p][i]) \cup EnMem(s)) = {}
          /\ EnSwap(segs[q][j]) \cap (EnSwap(segs[p][i]) \cup EnSwap(s)) = {}
      BY <3>2, <3>3
    <3>5. Lleno(mem', disco', q, segs[q][j])
      BY <3>4, LlenoAparte
    <3> QED BY <3>1, <3>5
  <2> QED BY <2>1, <2>2
<1> QED BY <1>1, <1>2 DEF Contenido

\* What is erased and written: the bytes named, the others as they were.
LEMMA BorrarEs ==
  ASSUME NEW m, NEW S, NEW T, S \subseteq T
  PROVE  IgualFuera(m, BorrarMem(m, S), T) /\ DOMAIN BorrarMem(m, S) = DOMAIN m
BY DEF IgualFuera, BorrarMem

LEMMA EscribirEs ==
  ASSUME KernelMemoryAssumption, NEW m, NEW p, NEW s \in Segmento, ~s.enSwap,
         NEW r, r = EscribirMem(m, s.base, Escrito(p, s)), NEW d
  PROVE  /\ IgualFuera(m, r, Bytes(s)) /\ DOMAIN r = DOMAIN m
         /\ Bytes(s) \subseteq DOMAIN m => Lleno(r, d, p, s)
<1>1. PICK b \in Nat, t \in Nat : b = s.base /\ t = s.tam
  BY SegmentoEs
<1>2. PICK c : c = Escrito(p, s)
  OBVIOUS
<1>3. Len(c) = t /\ DOMAIN c = 1 .. t
  <2>1. c = [j \in 1 .. t |-> Marca(p, s.id, j)]
    BY <1>1, <1>2 DEF Escrito
  <2>2. c \in [1 .. t -> {Marca(p, s.id, j) : j \in 1 .. t}]
    BY <2>1
  <2>3. c \in Seq({Marca(p, s.id, j) : j \in 1 .. t})
    BY ONLY <2>2, t \in Nat, SeqDef
  <2>4. DOMAIN c = 1 .. t
    BY <2>1
  <2> QED BY ONLY <2>3, <2>4, t \in Nat, LenProperties
<1>4. r = [a \in DOMAIN m |-> IF a \in b .. b + t - 1 THEN c[a - b + 1] ELSE m[a]]
  BY <1>1, <1>2, <1>3 DEF EscribirMem
<1>5. Bytes(s) = b .. b + t - 1
  BY <1>1 DEF Bytes
<1>6. IgualFuera(m, r, Bytes(s)) /\ DOMAIN r = DOMAIN m
  BY <1>4, <1>5 DEF IgualFuera
<1>7. ASSUME Bytes(s) \subseteq DOMAIN m PROVE Lleno(r, d, p, s)
  <2>1. ASSUME NEW j \in 1 .. t PROVE r[b + j - 1] = c[j]
    <3>1. PICK a \in Nat : a = b + j - 1
      BY b + j - 1 \in Nat
    <3>2. a \in b .. b + t - 1 /\ a - b + 1 = j
      BY <3>1
    <3>3. r[a] = c[a - b + 1]
      BY <1>4, <1>5, <1>7, <3>2
    <3> QED BY <3>1, <3>2, <3>3
  <2>2. c = [j \in 1 .. t |-> c[j]]
    BY <1>1, <1>2 DEF Escrito
  <2>3. LeerDe(r, s) = [j \in 1 .. t |-> r[b + j - 1]]
    BY <1>1 DEF LeerDe
  <2>4. LeerDe(r, s) = c
    BY <2>1, <2>2, <2>3
  <2> QED BY <1>2, <2>4 DEF Lleno
<1> QED BY <1>6, <1>7

LEMMA FueraDeDos ==
  ASSUME NEW f, NEW g, NEW h, NEW S, NEW T, IgualFuera(f, g, S), IgualFuera(g, h, T),
         DOMAIN g = DOMAIN f
  PROVE  IgualFuera(f, h, S \cup T)
BY DEF IgualFuera

\* Nothing moves.
LEMMA ContenidoIgual ==
  ASSUME Contenido, UNCHANGED <<segs, mem, disco>>, dobles' = {} => dobles = {}
  PROVE  Contenido'
BY DEF Contenido

\* A process ends, and its bytes are of no segment.
LEMMA ContenidoFinalizar ==
  ASSUME KernelMemoryAssumption, RepInv, SwapInv, Contenido, dobles = {},
         NEW p \in Procesos, FinalizarProceso(p)
  PROVE  Contenido'
<1>1. /\ segs' = [segs EXCEPT ![p] = <<>>] /\ mem' = BorrarMem(mem, BytesDe(p))
      /\ disco' = disco
  BY DEF FinalizarProceso, swap
<1>2. segs \in [Procesos -> Seq(Segmento)]
  BY RepartoTodos
<1>3. ASSUME NEW q \in Procesos, NEW j \in DOMAIN segs'[q]
      PROVE  Lleno(mem', disco', q, segs'[q][j])
  <2>1. q # p /\ segs'[q] = segs[q] /\ j \in DOMAIN segs[q]
    BY <1>1, <1>2, <1>3
  <2>2. EnMem(segs[q][j]) \cap BytesDe(p) = {}
    <3> SUFFICES ASSUME NEW a, a \in EnMem(segs[q][j]), a \in BytesDe(p) PROVE FALSE
      OBVIOUS
    <3>1. PICK i \in DOMAIN segs[p] : ~segs[p][i].enSwap /\ a \in Bytes(segs[p][i])
      BY DEF BytesDe
    <3>2. a \in EnMem(segs[p][i])
      BY <3>1 DEF EnMem
    <3> QED BY <2>1, <3>2, SegmentosSeparados
  <2>3. IgualFuera(mem, mem', BytesDe(p)) /\ IgualFuera(disco, disco', {})
    <3>1. IgualFuera(mem, mem', BytesDe(p))
      BY <1>1, BorrarEs
    <3>2. IgualFuera(disco, disco', {})
      BY <1>1 DEF IgualFuera
    <3> QED BY <3>1, <3>2
  <2>4. EnSwap(segs[q][j]) \cap {} = {}
    OBVIOUS
  <2>5. Lleno(mem', disco', q, segs[q][j])
    BY <2>1, <2>2, <2>3, <2>4, LlenoAparte
  <2> QED BY <2>1, <2>5
<1> QED BY <1>3 DEF Contenido

\* A segment of a process that runs is in memory, and the others stay in their order.
LEMMA ContenidoEliminar ==
  ASSUME KernelMemoryAssumption, RepInv, SwapInv, Contenido, dobles = {},
         NEW p \in Procesos, NEW i \in DOMAIN segs[p], EliminarSegmento(p, i)
  PROVE  Contenido'
<1>1. /\ segs \in [Procesos -> Seq(Segmento)] /\ TypeInv /\ MemoriaCompleta
  BY RepartoTodos
<1>2. /\ segs' = [segs EXCEPT ![p] = RemoveAt(segs[p], i)] /\ ks.fase = "libre"
      /\ p \in procesos \ suspendidos /\ mem' = BorrarMem(mem, Bytes(segs[p][i]))
      /\ disco' = disco
  BY DEF EliminarSegmento, Corre, swap
<1>3. ~segs[p][i].enSwap
  BY <1>1, <1>2, CompletaEs DEF Exento
<1>4. EnMem(segs[p][i]) = Bytes(segs[p][i])
  BY <1>3 DEF EnMem
<1>5. ASSUME NEW q \in Procesos, NEW j \in DOMAIN segs'[q]
      PROVE  \E k \in DOMAIN segs[q] : (q # p \/ k # i) /\ segs'[q][j] = segs[q][k]
  <2>1. CASE q # p
    BY <1>1, <1>2, <1>5, <2>1
  <2>2. CASE q = p
    <3>1. PICK w \in Seq(Segmento) : w = segs[p]
      BY <1>1
    <3>2. segs'[p] = RemoveAt(w, i) /\ i \in DOMAIN w
      BY <1>1, <1>2, <3>1
    <3>3. PICK n \in Nat : n = Len(w) /\ DOMAIN w = 1 .. n
      BY <3>1
    <3>4. /\ DOMAIN RemoveAt(w, i) = 1 .. n - 1
          /\ \A k \in 1 .. i - 1 : RemoveAt(w, i)[k] = w[k]
          /\ \A k \in i .. n - 1 : RemoveAt(w, i)[k] = w[k + 1]
      <4>1. w \in Seq(Segmento) /\ i \in DOMAIN w /\ Len(w) = n
        BY <3>2, <3>3
      <4> QED BY ONLY <4>1, QuitarUno
    <3>5. j \in 1 .. n - 1 /\ i \in 1 .. n
      BY <1>5, <2>2, <3>2, <3>3, <3>4
    <3>6. CASE j < i
      <4>1. j \in 1 .. i - 1 /\ j \in 1 .. n /\ j # i
        BY <3>5, <3>6
      <4> QED BY <2>2, <3>1, <3>2, <3>3, <3>4, <4>1
    <3>7. CASE j >= i
      <4>1. j \in i .. n - 1 /\ j + 1 \in 1 .. n /\ j + 1 # i
        BY <3>5, <3>7
      <4>2. segs'[q][j] = w[j + 1]
        BY <2>2, <3>2, <3>4, <4>1
      <4> QED BY <2>2, <3>1, <3>3, <4>1, <4>2
    <3> QED BY <3>5, <3>6, <3>7
  <2> QED BY <2>1, <2>2
<1>6. IgualFuera(mem, mem', EnMem(segs[p][i])) /\ IgualFuera(disco, disco', {})
  <2>1. IgualFuera(mem, mem', Bytes(segs[p][i]))
    BY <1>2, BorrarEs
  <2>2. IgualFuera(disco, disco', {})
    BY <1>2 DEF IgualFuera
  <2> QED BY <1>4, <2>1, <2>2
<1>7. ASSUME NEW q \in Procesos, NEW j \in DOMAIN segs'[q]
      PROVE  Lleno(mem', disco', q, segs'[q][j])
  <2>1. PICK k \in DOMAIN segs[q] : (q # p \/ k # i) /\ segs'[q][j] = segs[q][k]
    BY <1>5
  <2>2. EnMem(segs[q][k]) \cap EnMem(segs[p][i]) = {} /\ EnSwap(segs[q][k]) \cap {} = {}
    BY <2>1, SegmentosSeparados
  <2>3. Lleno(mem', disco', q, segs[q][k])
    BY <1>6, <2>2, LlenoAparte
  <2> QED BY <2>1, <2>3
<1> QED BY <1>7 DEF Contenido

\* Byte j of a segment is in one of its blocks of swap, where swap puts it.
LEMMA DivisionEs ==
  ASSUME NEW t \in Nat \ {0}, NEW j \in Nat \ {0}
  PROVE  \E n \in Nat, k \in 1 .. t :
           n = (j - 1) \div t /\ k = ((j - 1) % t) + 1 /\ j = n * t + k
<1>1. PICK x \in Nat : x = j - 1
  BY j - 1 \in Nat
<1>2. x \div t \in Nat /\ x % t \in 0 .. t - 1 /\ x = t * (x \div t) + (x % t)
  OBVIOUS
<1>3. PICK n \in Nat, r \in 0 .. t - 1 : n = x \div t /\ r = x % t /\ x = t * n + r
  BY <1>2
<1>4. PICK k \in 1 .. t : k = r + 1
  BY <1>3
<1>5. j = n * t + k
  BY <1>1, <1>3, <1>4
<1> QED BY <1>1, <1>3, <1>4, <1>5

LEMMA EnSuBloque ==
  ASSUME KernelMemoryAssumption, NEW tam \in Nat \ {0}, NEW j \in 1 .. tam,
         NEW n \in Nat, NEW k \in 1 .. TamBloque, j = n * TamBloque + k
  PROVE  n < BloquesNecesarios(tam)
<1>1. PICK T \in Nat \ {0} : T = TamBloque
  BY DEF KernelMemoryAssumption
<1>2. PICK x \in Nat, N \in Nat : x = tam + T - 1 /\ N = x \div T
  <2>1. tam + T - 1 \in Nat
    OBVIOUS
  <2>2. \A x \in Nat : x \div T \in Nat
    OBVIOUS
  <2> QED BY <2>1, <2>2
<1>3. x < N * T + T
  <2>1. x = T * (x \div T) + (x % T) /\ x % T \in 0 .. T - 1
    OBVIOUS
  <2>2. PICK r \in 0 .. T - 1 : x = T * N + r
    BY <1>2, <2>1
  <2> QED BY ONLY <2>2, x \in Nat, N \in Nat, T \in Nat \ {0}, r \in 0 .. T - 1
<1>4. n * T + k <= tam /\ k >= 1 /\ tam = x - T + 1
  BY <1>1, <1>2
<1>5. n * T < N * T
  <2>1. PICK u \in Nat, v \in Nat : u = n * T /\ v = N * T
    OBVIOUS
  <2> QED BY <1>3, <1>4, <2>1
<1>6. n < N
  <2>1. \A a, b \in Nat : a >= b => a * T >= b * T
    OBVIOUS
  <2>2. n >= N => n * T >= N * T
    BY <2>1
  <2>3. PICK u \in Nat, v \in Nat : u = n * T /\ v = N * T
    OBVIOUS
  <2> QED BY <1>5, <2>2, <2>3
<1> QED BY <1>1, <1>2, <1>6 DEF BloquesNecesarios

LEMMA TrozoEs ==
  ASSUME KernelMemoryAssumption, NEW S, NEW c \in Seq(S), NEW j \in 1 .. Len(c),
         NEW n \in Nat, NEW k \in 1 .. TamBloque, j = n * TamBloque + k
  PROVE  TrozoDe(c, n)[k] = c[j]
<1>1. PICK T \in Nat \ {0} : T = TamBloque
  BY DEF KernelMemoryAssumption
<1>2. PICK l \in Nat : l = Len(c)
  OBVIOUS
<1>3. PICK u \in Nat : u = n * T
  OBVIOUS
<1>4. (n + 1) * T = u + T
  BY <1>3
<1>5. PICK h : h = Min({u + T, l})
  OBVIOUS
<1>6. h \in {u + T, l}
  <2>1. {u + T, l} \in SUBSET Nat /\ {u + T, l} # {}
    OBVIOUS
  <2> QED BY <1>5, <2>1, MinEsMenor
<1>7. h \in Nat /\ j <= h /\ h <= l
  <2>1. j = u + k /\ k <= T /\ j <= l
    BY <1>1, <1>2, <1>3
  <2>2. {u + T, l} \in SUBSET Nat /\ {u + T, l} # {}
    OBVIOUS
  <2>3. h <= l
    BY <1>5, <2>2, MinEsMenor
  <2> QED BY <1>6, <2>1, <2>3
<1>8. TrozoDe(c, n) = SubSeq(c, u + 1, h)
  BY <1>1, <1>2, <1>3, <1>4, <1>5 DEF TrozoDe
<1>9. SubSeq(c, u + 1, h)[k] = c[u + 1 + k - 1]
  <2>1. k \in 1 .. h - (u + 1) + 1 /\ u + 1 \in 1 .. l
    BY <1>1, <1>3, <1>7
  <2>2. u + 1 \in Nat /\ h \in Nat
    BY <1>7
  <2> QED BY ONLY <2>1, <2>2, <1>2, <1>7, c \in Seq(S), u \in Nat, k \in 1 .. TamBloque, l \in Nat
<1>10. u + 1 + k - 1 = j
  BY <1>1, <1>3
<1> QED BY <1>8, <1>9, <1>10

LEMMA EscritoEs ==
  ASSUME KernelMemoryAssumption, NEW p, NEW s \in Segmento
  PROVE  /\ Escrito(p, s) \in Seq({Marca(p, s.id, j) : j \in 1 .. s.tam})
         /\ Len(Escrito(p, s)) = s.tam /\ DOMAIN Escrito(p, s) = 1 .. s.tam
<1>1. PICK t \in Nat : t = s.tam
  BY SegmentoEs
<1>2. PICK c, S : c = Escrito(p, s) /\ S = {Marca(p, s.id, j) : j \in 1 .. s.tam}
  OBVIOUS
<1>3. c \in [1 .. t -> S] /\ DOMAIN c = 1 .. t
  BY <1>1, <1>2 DEF Escrito
<1>4. c \in Seq(S)
  BY ONLY <1>3, t \in Nat, SeqDef
<1>5. Len(c) = t
  BY ONLY <1>3, <1>4, t \in Nat, LenProperties
<1> QED BY <1>1, <1>2, <1>3, <1>4, <1>5

\* What comes back from swap is what went there.
LEMMA LeerSwapEs ==
  ASSUME KernelMemoryAssumption, NEW m, NEW p, NEW s \in Segmento, s.enSwap,
         Lleno(m, disco, p, s)
  PROVE  LeerSwap(s) = Escrito(p, s)
<1>1. PICK c, S : c = Escrito(p, s) /\ S = {Marca(p, s.id, j) : j \in 1 .. s.tam}
  OBVIOUS
<1>2. PICK t \in Nat \ {0} : t = s.tam
  BY SegmentoEs
<1>3. c \in Seq(S) /\ Len(c) = t /\ DOMAIN c = 1 .. t
  BY <1>1, <1>2, EscritoEs
<1>4. \A b \in BloquesDe(s) : disco[b] = TrozoDe(c, b - s.bloque)
  BY <1>1 DEF Lleno
<1>5. PICK b0 \in Nat : b0 = s.bloque
  BY SegmentoEs
<1>6. PICK N \in Nat \ {0} : N = BloquesNecesarios(t)
  BY BloquesPositivos
<1>7. BloquesDe(s) = b0 .. b0 + N - 1
  BY <1>2, <1>5, <1>6 DEF BloquesDe
<1>8. ASSUME NEW j \in 1 .. t
      PROVE  disco[b0 + (j - 1) \div TamBloque][((j - 1) % TamBloque) + 1] = c[j]
  <2>1. TamBloque \in Nat \ {0} /\ j \in Nat \ {0}
    BY DEF KernelMemoryAssumption
  <2>2. PICK n \in Nat, k \in 1 .. TamBloque :
          /\ n = (j - 1) \div TamBloque /\ k = ((j - 1) % TamBloque) + 1
          /\ j = n * TamBloque + k
    BY ONLY <2>1, DivisionEs
  <2>3. n < N
    BY <1>6, <2>2, EnSuBloque
  <2>4. b0 + n \in BloquesDe(s) /\ (b0 + n) - b0 = n
    BY ONLY <1>7, <2>3, b0 \in Nat, n \in Nat, N \in Nat \ {0}
  <2>5. disco[b0 + n] = TrozoDe(c, n)
    BY <1>4, <1>5, <2>4
  <2>6. j \in 1 .. Len(c)
    BY <1>3
  <2>7. TrozoDe(c, n)[k] = c[j]
    <3>1. /\ KernelMemoryAssumption /\ c \in Seq(S) /\ n \in Nat /\ k \in 1 .. TamBloque
          /\ j = n * TamBloque + k
      BY <1>3, <2>2
    <3> QED BY ONLY <2>6, <3>1, TrozoEs
  <2> QED BY ONLY <2>2, <2>5, <2>7, Zenon
<1>9. c = [j \in 1 .. t |-> c[j]]
  BY <1>1, <1>2 DEF Escrito
<1>10. LeerSwap(s) = [j \in 1 .. t |->
         disco[b0 + (j - 1) \div TamBloque][((j - 1) % TamBloque) + 1]]
  BY <1>2, <1>5 DEF LeerSwap
<1> QED BY <1>1, <1>8, <1>9, <1>10

\* The bytes of a segment are bytes of the memory, before and after a step.
Cabe == \A p \in Procesos : \A i \in DOMAIN segs[p] : EnMem(segs[p][i]) \subseteq DOMAIN mem

LEMMA CabeSi == Sano => Cabe
BY SegmentoCabe, KernelMemoryAssumption DEF Cabe, Sano

LEMMA CabeLuego == Sano' => Cabe'
BY CabeSi, PTL

\* A segment that has changed and is in memory.
LEMMA CambiadoCabe ==
  ASSUME RepInv, RepInv', SwapInv', dobles' = {}, NEW p \in Procesos, NEW i \in DOMAIN segs[p],
         NEW s \in Segmento, segs' = ConSegmento(p, i, s), ~s.enSwap
  PROVE  Bytes(s) \subseteq DOMAIN mem'
<1>1. segs \in [Procesos -> Seq(Segmento)]
  BY Tipos DEF RepInv, MemInv, TypeInv
<1>2. /\ p \in Procesos /\ i \in DOMAIN segs[p] /\ s \in Segmento
      /\ segs' = ConSegmento(p, i, s)
  OBVIOUS
<1>3. i \in DOMAIN segs'[p] /\ segs'[p][i] = s
  BY ONLY <1>1, <1>2, ConSegmentoEs
<1>4. Cabe'
  BY CabeLuego DEF Sano
<1> QED BY <1>3, <1>4 DEF Cabe, EnMem

\* What a segment in memory holds, read.
LEMMA LeerEs ==
  ASSUME KernelMemoryAssumption, RepInv, dobles = {}, Contenido,
         NEW p \in Procesos, NEW i \in DOMAIN segs[p], ~segs[p][i].enSwap
  PROVE  LeerMem(segs[p][i]) = Escrito(p, segs[p][i])
<1>1. Lleno(mem, disco, p, segs[p][i])
  BY DEF Contenido
<1> QED BY <1>1 DEF Lleno, LeerDe, LeerMem

\* A new segment, which its program fills.
LEMMA ContenidoRegistrar ==
  ASSUME KernelMemoryAssumption, RepInv, SwapInv, RepInv', SwapInv', Contenido, dobles = {},
         Registrar
  PROVE  Contenido'
<1>1. /\ segs \in [Procesos -> Seq(Segmento)] /\ TypeInv /\ EnCurso /\ ks.base \in Nat
      /\ ks.tam \in Nat
  BY RepartoTodos DEF TypeInv
<1>2. ks.fase = "registrar" /\ disco' = disco /\ dobles' = dobles
  BY DEF Registrar, swap
<1>3. PICK p \in Procesos : p = ks.pid
  BY <1>1, <1>2 DEF EnCurso
<1>4. CASE p \notin procesos
  <2>1. UNCHANGED <<segs, mem>>
    BY <1>3, <1>4 DEF Registrar
  <2> QED BY <1>2, <2>1, ContenidoIgual
<1>5. CASE p \in procesos
  <2>1. PICK s : s = [id |-> ks.id, base |-> ks.base, tam |-> ks.tam, enSwap |-> FALSE,
                      bloque |-> MaxBit]
    OBVIOUS
  <2>2. s \in Segmento /\ ~s.enSwap
    BY <1>1, <1>2, <2>1 DEF EnCurso, Segmento
  <2>3. segs' = [segs EXCEPT ![p] = Append(segs[p], s)]
    BY <1>3, <1>5, <2>1 DEF Registrar
  <2>4. mem' = EscribirMem(mem, s.base, Escrito(p, s))
    BY <1>3, <1>5, <2>1 DEF Registrar, Escrito
  <2>5. PICK w \in Seq(Segmento), n \in Nat : w = segs[p] /\ n = Len(w) /\ DOMAIN w = 1 .. n
    BY <1>1
  <2>6. /\ segs'[p] = Append(w, s) /\ DOMAIN segs'[p] = 1 .. n + 1 /\ segs'[p][n + 1] = s
        /\ \A j \in 1 .. n : segs'[p][j] = segs[p][j]
        /\ \A q \in Procesos \ {p} : segs'[q] = segs[q]
    <3>1. segs'[p] = Append(w, s) /\ \A q \in Procesos \ {p} : segs'[q] = segs[q]
      BY <1>1, <2>3, <2>5
    <3>2. /\ DOMAIN Append(w, s) = 1 .. n + 1 /\ Append(w, s)[n + 1] = s
          /\ \A j \in 1 .. n : Append(w, s)[j] = w[j]
      BY <2>2, <2>5
    <3> QED BY <2>5, <3>1, <3>2
  <2>7. /\ IgualFuera(mem, mem', EnMem(s)) /\ IgualFuera(disco, disco', {})
        /\ DOMAIN mem' = DOMAIN mem
        /\ Bytes(s) \subseteq DOMAIN mem => Lleno(mem', disco', p, s)
    <3>1. EnMem(s) = Bytes(s)
      BY <2>2 DEF EnMem
    <3>2. /\ IgualFuera(mem, mem', Bytes(s)) /\ DOMAIN mem' = DOMAIN mem
          /\ Bytes(s) \subseteq DOMAIN mem => Lleno(mem', disco', p, s)
      BY <2>2, <2>4, EscribirEs
    <3>3. IgualFuera(disco, disco', {})
      BY <1>2 DEF IgualFuera
    <3> QED BY <3>1, <3>2, <3>3
  <2>8. n + 1 \in DOMAIN segs'[p]
    BY <2>6
  <2>9. Lleno(mem', disco', p, s)
    <3>1. EnMem(segs'[p][n + 1]) \subseteq DOMAIN mem'
      BY <1>2, <2>8, CabeLuego DEF Sano, Cabe
    <3>2. segs'[p][n + 1] = s /\ DOMAIN mem' = DOMAIN mem
      BY <2>6, <2>7
    <3>3. Bytes(s) \subseteq DOMAIN mem
      BY <2>2, <3>1, <3>2 DEF EnMem
    <3> QED BY <2>7, <3>3
  <2>10. ASSUME NEW q \in Procesos, NEW j, j \in DOMAIN segs'[q]
         PROVE  Lleno(mem', disco', q, segs'[q][j])
    <3>1. CASE q = p /\ j = n + 1
      BY <2>6, <2>9, <3>1
    <3>2. CASE q # p \/ j # n + 1
      <4>1. j \in DOMAIN segs[q] /\ segs'[q][j] = segs[q][j]
        <5>1. CASE q # p
          BY <2>6, <2>10, <5>1
        <5>2. CASE q = p
          <6>1. j \in 1 .. n
            BY <2>6, <2>10, <3>2, <5>2
          <6> QED BY <2>5, <2>6, <5>2, <6>1
        <5> QED BY <5>1, <5>2
      <4>2. EnMem(segs'[q][j]) \cap EnMem(segs'[p][n + 1]) = {}
        <5>1. Aparte'
          BY <1>2, ApartadosLuego DEF Sano
        <5> QED BY <2>8, <2>10, <3>2, <5>1 DEF Aparte
      <4>3. EnMem(segs[q][j]) \cap EnMem(s) = {} /\ EnSwap(segs[q][j]) \cap {} = {}
        BY <2>6, <4>1, <4>2
      <4>4. Lleno(mem', disco', q, segs[q][j])
        <5>1. /\ KernelMemoryAssumption /\ RepInv /\ dobles = {} /\ Contenido
              /\ q \in Procesos /\ j \in DOMAIN segs[q]
          BY <4>1
        <5>2. IgualFuera(mem, mem', EnMem(s)) /\ IgualFuera(disco, disco', {})
          BY <2>7
        <5> QED BY ONLY <4>3, <5>1, <5>2, LlenoAparte
      <4> QED BY <4>1, <4>4
    <3> QED BY <3>1, <3>2
  <2> QED BY <2>10 DEF Contenido
<1> QED BY <1>4, <1>5

\* Compaction moves one segment, after it has read it whole.
LEMMA ContenidoMover ==
  ASSUME KernelMemoryAssumption, RepInv, SwapInv, RepInv', SwapInv', Contenido, dobles = {}, Mover
  PROVE  Contenido'
<1>1. /\ Compacta /\ segs \in [Procesos -> Seq(Segmento)] /\ TypeInv /\ ks \in Locales
      /\ ks.base \in Nat
  BY RepartoTodos
<1>2. /\ ks.fase = "mover" /\ ks.cola # <<>> /\ disco' = disco /\ dobles' = dobles
  BY DEF Mover, swap
<1>3. PICK t : t = Head(ks.cola)
  OBVIOUS
<1>4. t = ks.cola[1] /\ 1 \in DOMAIN ks.cola
  BY <1>1, <1>2, <1>3, PrimeroDeLaCola
<1>5. /\ <<t.pid, t.i>> \in Residentes
      /\ segs[t.pid][t.i].base = t.base /\ segs[t.pid][t.i].tam = t.tam
  BY <1>1, <1>2, <1>4 DEF Compacta
<1>6. PICK p, i : p = t.pid /\ i = t.i
  OBVIOUS
<1>7. p \in Procesos /\ i \in DOMAIN segs[p] /\ ~segs[p][i].enSwap
  <2>1. <<p, i>> \in EnTabla /\ ~segs[<<p, i>>[1]][<<p, i>>[2]].enSwap
    BY <1>5, <1>6 DEF Residentes
  <2>2. <<p, i>>[1] \in Procesos /\ <<p, i>>[2] \in DOMAIN segs[<<p, i>>[1]]
    BY <1>1, <2>1, EnTablaTipo
  <2> QED BY <2>1, <2>2
<1>8. PICK w \in Segmento : w = segs[p][i]
  BY <1>1, <1>7
<1>9. CASE UNCHANGED <<segs, mem>>
  BY <1>2, <1>9, ContenidoIgual
<1>10. CASE ~(UNCHANGED <<segs, mem>>)
  <2>1. PICK s : s = [w EXCEPT !.base = ks.base]
    OBVIOUS
  <2>2. s \in Segmento /\ s.base = ks.base /\ s.tam = w.tam /\ s.id = w.id /\ ~s.enSwap
    BY <1>1, <1>7, <1>8, <2>1 DEF Segmento
  <2>3. /\ segs' = ConSegmento(t.pid, t.i, [segs[t.pid][t.i] EXCEPT !.base = ks.base])
        /\ mem' = EscribirMem(BorrarMem(mem, Bytes(t)), ks.base, LeerMem(t))
    BY <1>2, <1>3, <1>10, Zenon DEF Mover
  <2>4. segs' = ConSegmento(p, i, s)
    BY <1>6, <1>8, <2>1, <2>3
  <2>5. Bytes(t) = Bytes(w) /\ LeerMem(t) = LeerMem(w)
    BY <1>5, <1>6, <1>8 DEF Bytes, LeerMem
  <2>6. LeerMem(w) = Escrito(p, s)
    <3>1. LeerMem(w) = Escrito(p, w)
      BY <1>7, <1>8, LeerEs
    <3> QED BY <2>2, <3>1 DEF Escrito
  <2>7. PICK b : b = BorrarMem(mem, Bytes(w))
    OBVIOUS
  <2>8. mem' = EscribirMem(b, s.base, Escrito(p, s))
    BY <2>2, <2>3, <2>5, <2>6, <2>7
  <2>9. IgualFuera(mem, b, Bytes(w)) /\ DOMAIN b = DOMAIN mem
    BY <2>7, BorrarEs
  <2>10. /\ IgualFuera(b, mem', Bytes(s)) /\ DOMAIN mem' = DOMAIN b
         /\ Bytes(s) \subseteq DOMAIN b => Lleno(mem', disco', p, s)
    <3>1. KernelMemoryAssumption /\ s \in Segmento /\ ~s.enSwap
      BY <2>2
    <3> QED BY ONLY <2>8, <3>1, EscribirEs
  <2>11. IgualFuera(mem, mem', EnMem(segs[p][i]) \cup EnMem(s))
    <3>1. IgualFuera(mem, mem', Bytes(w) \cup Bytes(s))
      BY <2>9, <2>10, FueraDeDos
    <3>2. EnMem(segs[p][i]) = Bytes(w) /\ EnMem(s) = Bytes(s)
      BY <1>7, <1>8, <2>2 DEF EnMem
    <3> QED BY <3>1, <3>2
  <2>12. IgualFuera(disco, disco', EnSwap(segs[p][i]) \cup EnSwap(s))
    BY <1>2 DEF IgualFuera
  <2>13. Lleno(mem', disco', p, s)
    BY <1>2, <1>7, <2>2, <2>4, <2>9, <2>10, CambiadoCabe
  <2> QED BY <1>2, <1>7, <2>2, <2>4, <2>11, <2>12, <2>13, ContenidoCambia
<1> QED BY <1>9, <1>10

\* A segment that goes to swap leaves there what it held.
LEMMA ContenidoSuspender ==
  ASSUME KernelMemoryAssumption, RepInv, SwapInv, RepInv', SwapInv', Contenido, dobles = {},
         SuspenderSegmento
  PROVE  Contenido'
<1>1. segs \in [Procesos -> Seq(Segmento)] /\ TypeInv
  BY RepartoTodos
<1>2. PICK w : w = segs[ks.pid][ks.i]
  OBVIOUS
<1>3. /\ ks.pid \in Procesos /\ ks.i \in DOMAIN segs[ks.pid] /\ w \in Segmento
      /\ BloquesNecesarios(w.tam) \in Nat \ {0} /\ dobles' = dobles
  BY <1>1, <1>2, SuspenderSegmentoEs
<1>4. CASE UNCHANGED <<segs, mem, disco>>
  BY <1>3, <1>4, ContenidoIgual
<1>5. CASE ~(UNCHANGED <<segs, mem, disco>>)
  <2>0. ~(UNCHANGED <<segs, swap, mem>>)
    BY <1>5 DEF swap
  <2>1. PICK p, i, n : p = ks.pid /\ i = ks.i /\ n = BloquesNecesarios(w.tam)
    OBVIOUS
  <2>2. /\ ~w.enSwap /\ mem' = BorrarMem(mem, Bytes(w))
        /\ \E b0 \in LibresEnSwap(n) :
             /\ disco' = [b \in Bits |-> IF b \in b0 .. b0 + n - 1
                                           THEN TrozoDe(LeerMem(w), b - b0) ELSE disco[b]]
             /\ segs' = ConSegmento(p, i, [w EXCEPT !.enSwap = TRUE, !.base = 0, !.bloque = b0])
    <3>1. /\ ~w.enSwap /\ mem' = BorrarMem(mem, Bytes(w))
          /\ \E b0 \in LibresEnSwap(BloquesNecesarios(w.tam)) :
               /\ disco' = [b \in Bits |-> IF b \in b0 .. b0 + BloquesNecesarios(w.tam) - 1
                                             THEN TrozoDe(LeerMem(w), b - b0) ELSE disco[b]]
               /\ segs' = ConSegmento(ks.pid, ks.i,
                                      [w EXCEPT !.enSwap = TRUE, !.base = 0, !.bloque = b0])
      <4>1. TypeInv /\ KernelMemoryAssumption /\ SuspenderSegmento
        BY <1>1
      <4> QED BY ONLY <1>2, <2>0, <4>1, SuspenderSegmentoEs, ZenonT(60)
    <3> QED BY ONLY <2>1, <3>1, Zenon
  <2>3. PICK b0 \in LibresEnSwap(n) :
             /\ disco' = [b \in Bits |-> IF b \in b0 .. b0 + n - 1
                                           THEN TrozoDe(LeerMem(w), b - b0) ELSE disco[b]]
             /\ segs' = ConSegmento(p, i, [w EXCEPT !.enSwap = TRUE, !.base = 0, !.bloque = b0])
    BY <2>2
  <2>4. b0 \in Bits /\ b0 .. b0 + n - 1 \subseteq Bits
    <3>1. LibresEnSwap(n) # {} /\ n \in Nat \ {0}
      BY <1>3, <2>1, <2>3
    <3> QED BY ONLY KernelMemoryAssumption, <2>3, <3>1, LibresSon
  <2>5. PICK s : s = [w EXCEPT !.enSwap = TRUE, !.base = 0, !.bloque = b0]
    OBVIOUS
  <2>6. /\ s \in Segmento /\ s.enSwap /\ s.bloque = b0 /\ s.tam = w.tam /\ s.id = w.id
        /\ segs' = ConSegmento(p, i, s)
    BY <1>3, <2>3, <2>4, <2>5 DEF Segmento
  <2>7. /\ EnMem(s) = {} /\ EnMem(w) = Bytes(w) /\ EnSwap(w) = {}
        /\ EnSwap(s) = b0 .. b0 + n - 1 /\ BloquesDe(s) = b0 .. b0 + n - 1
    BY <2>1, <2>2, <2>6 DEF EnMem, EnSwap, BloquesDe
  <2>8. IgualFuera(mem, mem', EnMem(w) \cup EnMem(s))
    BY <2>2, <2>7, BorrarEs
  <2>9. IgualFuera(disco, disco', EnSwap(w) \cup EnSwap(s))
    <3>1. DOMAIN disco = Bits
      BY <1>1 DEF TypeInv, TypeOK
    <3>2. \A a \in Bits : a \notin b0 .. b0 + n - 1 => disco'[a] = disco[a]
      BY <2>3
    <3> QED BY <2>7, <3>1, <3>2 DEF IgualFuera
  <2>10. LeerMem(w) = Escrito(p, s)
    <3>1. LeerMem(w) = Escrito(p, w)
      BY <1>2, <1>3, <2>1, <2>2, LeerEs
    <3> QED BY <2>6, <3>1 DEF Escrito
  <2>11. Lleno(mem', disco', p, s)
    <3>1. ASSUME NEW b \in BloquesDe(s) PROVE disco'[b] = TrozoDe(Escrito(p, s), b - s.bloque)
      <4>1. b \in b0 .. b0 + n - 1 /\ b \in Bits
        BY <2>4, <2>7
      <4> QED BY <2>3, <2>6, <2>10, <4>1
    <3> QED BY <2>6, <3>1 DEF Lleno
  <2>12. p \in Procesos /\ i \in DOMAIN segs[p] /\ w = segs[p][i] /\ dobles' = {}
    BY <1>2, <1>3, <2>1
  <2> QED BY <2>6, <2>8, <2>9, <2>11, <2>12, ContenidoCambia
<1> QED BY <1>4, <1>5

\* A segment that comes back has what swap kept of it.
LEMMA ContenidoTraer ==
  ASSUME KernelMemoryAssumption, RepInv, SwapInv, RepInv', SwapInv', Contenido, dobles = {}, Traer
  PROVE  Contenido'
<1>1. segs \in [Procesos -> Seq(Segmento)] /\ TypeInv /\ Reservas /\ ks \in Locales
  BY RepartoTodos
<1>2. ks.fase = "traer" /\ dobles' = dobles
  BY DEF Traer
<1>3. CASE UNCHANGED <<segs, mem, disco>>
  BY <1>2, <1>3, ContenidoIgual
<1>4. CASE ~(UNCHANGED <<segs, mem, disco>>)
  <2>1. PICK r : r = Head(ks.cola)
    OBVIOUS
  <2>2. PICK w : w = segs[r.pid][r.i]
    OBVIOUS
  <2>3. PICK s : s = [w EXCEPT !.enSwap = FALSE, !.base = r.base, !.bloque = MaxBit]
    OBVIOUS
  <2>4. /\ ks.cola # <<>> /\ mem' = EscribirMem(mem, r.base, LeerSwap(w))
        /\ segs' = ConSegmento(r.pid, r.i, s)
        /\ disco' = [b \in Bits |-> IF b \in BloquesDe(w) THEN Nada ELSE disco[b]]
    BY <1>4, <2>1, <2>2, <2>3 DEF Traer, swap
  <2>5. r = ks.cola[1] /\ 1 \in DOMAIN ks.cola /\ r.base \in Nat
    BY <1>1, <2>1, <2>4, PrimeroDeLaCola
  <2>6. PICK p, i : p = r.pid /\ i = r.i
    OBVIOUS
  <2>7. p \in Procesos /\ i \in DOMAIN segs[p] /\ w = segs[p][i] /\ w.enSwap
    <3>1. /\ r.pid = ks.pid /\ r.i \in DOMAIN segs[ks.pid] /\ segs[ks.pid][r.i].enSwap
      BY <1>1, <1>2, <2>5 DEF Reservas
    <3>2. ks.pid \in Procesos
      BY <1>1, <1>2, TypeOKPartes DEF TypeInv, EnCurso, TiposDeTablas
    <3> QED BY <2>2, <2>6, <3>1, <3>2
  <2>8. w \in Segmento
    BY <1>1, <2>7
  <2>9. s \in Segmento /\ ~s.enSwap /\ s.base = r.base /\ s.tam = w.tam /\ s.id = w.id
    BY <2>3, <2>5, <2>8 DEF Segmento
  <2>10. segs' = ConSegmento(p, i, s)
    BY <2>4, <2>6
  <2>11. LeerSwap(w) = Escrito(p, s)
    <3>1. Lleno(mem, disco, p, w)
      BY <2>7 DEF Contenido
    <3>2. LeerSwap(w) = Escrito(p, w)
      BY ONLY KernelMemoryAssumption, <2>7, <2>8, <3>1, LeerSwapEs
    <3> QED BY <2>9, <3>2 DEF Escrito
  <2>12. mem' = EscribirMem(mem, s.base, Escrito(p, s))
    BY <2>4, <2>9, <2>11
  <2>13. /\ IgualFuera(mem, mem', Bytes(s)) /\ DOMAIN mem' = DOMAIN mem
         /\ Bytes(s) \subseteq DOMAIN mem => Lleno(mem', disco', p, s)
    <3>1. KernelMemoryAssumption /\ s \in Segmento /\ ~s.enSwap
      BY <2>9
    <3> QED BY ONLY <2>12, <3>1, EscribirEs
  <2>14. EnMem(w) = {} /\ EnMem(s) = Bytes(s) /\ EnSwap(w) = BloquesDe(w) /\ EnSwap(s) = {}
    BY <2>7, <2>9 DEF EnMem, EnSwap
  <2>15. IgualFuera(mem, mem', EnMem(w) \cup EnMem(s))
    BY <2>13, <2>14
  <2>16. IgualFuera(disco, disco', EnSwap(w) \cup EnSwap(s))
    <3>1. DOMAIN disco = Bits
      BY <1>1 DEF TypeInv, TypeOK
    <3>2. \A a \in Bits : a \notin BloquesDe(w) => disco'[a] = disco[a]
      BY <2>4
    <3> QED BY <2>14, <3>1, <3>2 DEF IgualFuera
  <2>17. dobles' = {}
    BY <1>2
  <2>18. Lleno(mem', disco', p, s)
    <3>1. Bytes(s) \subseteq DOMAIN mem'
      BY <2>7, <2>9, <2>10, <2>17, CambiadoCabe
    <3> QED BY <2>13, <3>1
  <2> QED BY <2>7, <2>9, <2>10, <2>15, <2>16, <2>17, <2>18, ContenidoCambia
<1> QED BY <1>3, <1>4

LEMMA ContenidoPaso ==
  ASSUME KernelMemoryAssumption, ContInv, [Next]_vars PROVE ContInv'
<1>1. RepInv /\ SwapInv /\ Contenido /\ RepInv' /\ SwapInv'
  BY RepPaso, SwapPaso DEF ContInv
<1>2. CASE UNCHANGED vars
  <2>1. UNCHANGED <<segs, mem, disco, dobles>>
    BY <1>2 DEF vars, tablas, swap, historia
  <2> QED BY <1>1, <2>1, ContenidoIgual DEF ContInv
<1>3. CASE Next
  <2>1. dobles = {}
    BY <1>3 DEF Next, Parado
  <2>2. ASSUME NEW p \in Procesos, CrearProceso(p) PROVE Contenido'
    <3>1. segs' = [segs EXCEPT ![p] = <<>>] /\ segs[p] = <<>> /\ UNCHANGED <<mem, disco>>
      BY <1>1, <2>2 DEF CrearProceso, RepInv, MemInv, SinSegmentos, swap
    <3>2. segs \in [Procesos -> Seq(Segmento)]
      BY <1>1, Tipos DEF RepInv, MemInv, TypeInv
    <3>3. segs' = segs
      BY <3>1, <3>2
    <3> QED BY <1>1, <2>1, <3>1, <3>3, ContenidoIgual
  <2>3. ASSUME NEW p \in Procesos, FinalizarProceso(p) PROVE Contenido'
    BY <1>1, <2>1, <2>3, ContenidoFinalizar
  <2>4. ASSUME NEW p \in Procesos, NEW i \in DOMAIN segs[p], EliminarSegmento(p, i)
        PROVE  Contenido'
    BY <1>1, <2>1, <2>4, ContenidoEliminar
  <2>5. ASSUME \/ \E p \in Procesos : Suspender(p) \/ Desuspender(p)
               \/ \E p \in Procesos, id \in Ids, tam \in Tamanios : CrearSegmento(p, id, tam)
               \/ Compactar \/ CrearTrasCompactar
        PROVE  Contenido'
    <3>1. UNCHANGED <<segs, mem, disco>>
      BY <2>5 DEF Suspender, Desuspender, CrearSegmento, CrearTrasCompactar, TomarHueco, Compactar,
         tablas, swap
    <3> QED BY <1>1, <2>1, <3>1, ContenidoIgual
  <2>6. ASSUME Registrar \/ Mover \/ SuspenderSegmento \/ Traer PROVE Contenido'
    BY <1>1, <2>1, <2>6, ContenidoRegistrar, ContenidoMover, ContenidoSuspender, ContenidoTraer
  <2>7. ASSUME \/ Devolver \/ VaciarHuecos \/ GranHueco \/ SuspensionLista \/ Reservar
               \/ \E k \in Sticks : PasoStick(k)
        PROVE  Contenido'
    <3>1. UNCHANGED <<segs, mem, disco>>
      BY <2>7 DEF Devolver, VaciarHuecos, GranHueco, SuspensionLista, Reservar, PasoStick,
         AumentarMemoriaTotal, AgregarHuecoDeStick, AgregarPosicion, tablas, swap
    <3> QED BY <1>1, <2>1, <3>1, ContenidoIgual
  <2>8. Contenido'
    BY <1>3, <2>2, <2>3, <2>4, <2>5, <2>6, <2>7 DEF Next, Pedido, PasoKS
  <2> QED BY <1>1, <2>8 DEF ContInv
<1> QED BY <1>2, <1>3

\* A segment that compaction moves, or that goes to swap and comes back, holds byte by byte what
\* its program wrote, whatever the sticks that connect meanwhile (iniciar_compactacion,
\* suspender_proceso_memoria, desuspender_proceso_memoria).
THEOREM NadaSePierde == Spec => []ContenidoIntacto
<1>1. Init => ContInv
  <2> SUFFICES ASSUME Init PROVE ContInv
    OBVIOUS
  <2>1. RepInv /\ SwapInv
    BY KernelMemoryAssumption, RepInicial, SwapInicial
  <2>2. \A p \in Procesos : segs[p] = <<>>
    BY DEF Init
  <2> QED BY <2>1, <2>2 DEF ContInv, Contenido
<1>2. ContInv /\ [Next]_vars => ContInv'
  BY KernelMemoryAssumption, ContenidoPaso
<1>3. ContInv => ContenidoIntacto
  <2> SUFFICES ASSUME ContInv, dobles = {}, NEW x \in EnTabla
               PROVE  LET s == segs[x[1]][x[2]]
                          escrito == [j \in 1 .. s.tam |-> Marca(x[1], s.id, j)]
                      IN IF s.enSwap
                           THEN \A b \in BloquesDe(s) : disco[b] = TrozoDe(escrito, b - s.bloque)
                           ELSE LeerMem(s) = escrito
    BY DEF ContenidoIntacto
  <2>1. x[1] \in Procesos /\ x[2] \in DOMAIN segs[x[1]]
    BY EnTablaTipo, Tipos DEF ContInv, RepInv, MemInv, TypeInv
  <2>2. Lleno(mem, disco, x[1], segs[x[1]][x[2]])
    BY <2>1 DEF ContInv, Contenido
  <2> QED BY <2>2 DEF Lleno, LeerDe, LeerMem, Escrito
<1> QED BY <1>1, <1>2, <1>3, PTL DEF Spec
=============================================================================
