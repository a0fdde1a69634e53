------------------------------- MODULE ColasPCB -------------------------------
(***************************************************************************)
(* Queues that hold nothing twice: what a push and a pop do to what they   *)
(* hold.  Used by the proofs about the places of the PCBs.                 *)
(***************************************************************************)
EXTENDS Integers, Sequences, SequencesExt, Functions, FiniteSetTheorems, TLAPS

LEMMA AgregarAlFinal ==
  ASSUME NEW S, NEW s \in Seq(S), NEW e \in S
  PROVE  /\ Range(Append(s, e)) = Range(s) \cup {e}
         /\ IsInjective(s) /\ e \notin Range(s) => IsInjective(Append(s, e))
<1>1. /\ DOMAIN Append(s, e) = 1 .. Len(s) + 1 /\ DOMAIN s = 1 .. Len(s) /\ Len(s) \in Nat
      /\ Append(s, e)[Len(s) + 1] = e
      /\ \A i \in 1 .. Len(s) : Append(s, e)[i] = s[i]
  OBVIOUS
<1>2. 1 .. Len(s) + 1 = (1 .. Len(s)) \cup {Len(s) + 1}
  BY <1>1
<1>3. Range(Append(s, e)) = Range(s) \cup {e}
  BY <1>1, <1>2 DEF Range
<1>4. IsInjective(s) /\ e \notin Range(s) => IsInjective(Append(s, e))
  BY <1>1, <1>2 DEF Range, IsInjective
<1> QED BY <1>3, <1>4

LEMMA SacarPrimero ==
  ASSUME NEW S, NEW s \in Seq(S), s # <<>>, IsInjective(s)
  PROVE  /\ Head(s) \in Range(s) /\ Head(s) \in S
         /\ Range(Tail(s)) = Range(s) \ {Head(s)}
         /\ IsInjective(Tail(s))
<1>1. /\ DOMAIN s = 1 .. Len(s) /\ Len(s) \in Nat /\ Len(s) > 0 /\ Head(s) = s[1]
      /\ DOMAIN Tail(s) = 1 .. Len(s) - 1
      /\ \A i \in 1 .. Len(s) - 1 : Tail(s)[i] = s[i + 1]
  OBVIOUS
<1>2. Head(s) \in Range(s) /\ Head(s) \in S
  BY <1>1 DEF Range
<1>3. IsInjective(Tail(s))
  BY <1>1 DEF IsInjective
<1>4. ASSUME NEW x \in Range(Tail(s)) PROVE x \in Range(s) \ {Head(s)}
  <2>1. PICK i \in 1 .. Len(s) - 1 : x = s[i + 1]
    BY <1>1, <1>4 DEF Range
  <2>2. i + 1 \in 1 .. Len(s) /\ i + 1 # 1
    BY <1>1
  <2> QED BY <1>1, <2>1, <2>2 DEF Range, IsInjective
<1>5. ASSUME NEW x \in Range(s) \ {Head(s)} PROVE x \in Range(Tail(s))
  <2>1. PICK j \in 1 .. Len(s) : x = s[j]
    BY <1>1 DEF Range
  <2>2. j - 1 \in 1 .. Len(s) - 1 /\ (j - 1) + 1 = j
    BY <1>1, <2>1
  <2> QED BY <1>1, <2>1, <2>2 DEF Range
<1> QED BY <1>2, <1>3, <1>4, <1>5

LEMMA AgregarAlInicio ==
  ASSUME NEW S, NEW s \in Seq(S), NEW e \in S
  PROVE  /\ Range(<<e>> \o s) = Range(s) \cup {e}
         /\ IsInjective(s) /\ e \notin Range(s) => IsInjective(<<e>> \o s)
<1> DEFINE t == <<e>> \o s
<1>1. /\ DOMAIN t = 1 .. Len(s) + 1 /\ DOMAIN s = 1 .. Len(s) /\ Len(s) \in Nat
      /\ t[1] = e
      /\ \A i \in 1 .. Len(s) : t[i + 1] = s[i]
  OBVIOUS
<1> HIDE DEF t
<1>2. \A i \in 1 .. Len(s) + 1 : i = 1 \/ (i - 1 \in 1 .. Len(s) /\ t[i] = s[i - 1])
  <2> TAKE i \in 1 .. Len(s) + 1
  <2>1. i # 1 => i - 1 \in 1 .. Len(s) /\ (i - 1) + 1 = i BY <1>1
  <2> QED BY <1>1, <2>1
<1>3. ASSUME NEW x \in Range(t) PROVE x \in Range(s) \cup {e}
  <2>1. PICK i \in 1 .. Len(s) + 1 : x = t[i] BY <1>1, <1>3 DEF Range
  <2>2. CASE i = 1 BY <1>1, <2>1, <2>2
  <2>3. CASE i # 1 BY <1>1, <1>2, <2>1, <2>3 DEF Range
  <2> QED BY <2>2, <2>3
<1>4. Range(s) \cup {e} \subseteq Range(t)
  <2>1. ASSUME NEW i \in 1 .. Len(s) PROVE s[i] \in Range(t)
    <3>1. i + 1 \in 1 .. Len(s) + 1 BY <1>1
    <3> QED BY <1>1, <3>1 DEF Range
  <2>2. e \in Range(t)
    <3>1. 1 \in 1 .. Len(s) + 1 BY <1>1
    <3> QED BY <1>1, <3>1 DEF Range
  <2> QED BY <1>1, <2>1, <2>2 DEF Range
<1>5. ASSUME IsInjective(s), e \notin Range(s) PROVE IsInjective(t)
  <2> SUFFICES ASSUME NEW i \in 1 .. Len(s) + 1, NEW j \in 1 .. Len(s) + 1, t[i] = t[j]
               PROVE  i = j
    BY <1>1 DEF IsInjective
  <2>1. \A k \in 1 .. Len(s) : s[k] # e BY <1>1, <1>5 DEF Range
  <2>2. CASE i = 1 \/ j = 1 BY <1>1, <1>2, <2>1, <2>2
  <2>3. CASE i # 1 /\ j # 1
    <3>1. i - 1 = j - 1 BY <1>1, <1>2, <1>5, <2>3 DEF IsInjective
    <3> QED BY <1>1, <3>1
  <2> QED BY <2>2, <2>3
<1> QED BY <1>3, <1>4, <1>5 DEF t

\* The same queue in another order.
LEMMA Reordenar ==
  ASSUME NEW S, NEW s \in Seq(S), NEW f \in Bijection(DOMAIN s, DOMAIN s),
         NEW t, t = [k \in DOMAIN s |-> s[f[k]]]
  PROVE  /\ t \in Seq(S) /\ Range(t) = Range(s)
         /\ IsInjective(s) => IsInjective(t)
<1>1. /\ DOMAIN s = 1 .. Len(s) /\ Len(s) \in Nat /\ \A k \in DOMAIN s : s[k] \in S
      /\ f \in [DOMAIN s -> DOMAIN s]
      /\ \A k, l \in DOMAIN s : f[k] = f[l] => k = l
      /\ \A l \in DOMAIN s : \E k \in DOMAIN s : f[k] = l
  BY DEF Bijection, Injection, Surjection, IsInjective
<1>2. /\ DOMAIN t = DOMAIN s /\ \A k \in DOMAIN s : t[k] = s[f[k]] /\ f[k] \in DOMAIN s
  BY <1>1
<1>3. t \in Seq(S)
  <2>1. t \in [1 .. Len(s) -> S] BY <1>1, <1>2
  <2> QED BY <1>1, <2>1
<1>4. Range(t) = Range(s)
  <2> HIDE DEF IsInjective
  <2> QED BY <1>1, <1>2 DEF Range
<1>5. IsInjective(s) => IsInjective(t)
  BY <1>1, <1>2 DEF IsInjective
<1> QED BY <1>3, <1>4, <1>5

\* An element less: those behind it go one place forward.
LEMMA QuitarUno ==
  ASSUME NEW S, NEW s \in Seq(S), NEW i \in DOMAIN s
  PROVE  /\ RemoveAt(s, i) \in Seq(S) /\ DOMAIN RemoveAt(s, i) = 1 .. Len(s) - 1
         /\ Len(RemoveAt(s, i)) = Len(s) - 1
         /\ \A k \in 1 .. i - 1 : RemoveAt(s, i)[k] = s[k]
         /\ \A k \in i .. Len(s) - 1 : RemoveAt(s, i)[k] = s[k + 1]
<1> DEFINE t == RemoveAt(s, i)
           n == Len(s)
<1>1. /\ n \in Nat /\ DOMAIN s = 1 .. n /\ i \in 1 .. n
      /\ \A k \in 1 .. n : s[k] \in S
  OBVIOUS
<1>2. /\ SubSeq(s, 1, i - 1) \in Seq(S) /\ Len(SubSeq(s, 1, i - 1)) = i - 1
      /\ \A k \in 1 .. i - 1 : SubSeq(s, 1, i - 1)[k] = s[k]
  BY <1>1
<1>3. /\ SubSeq(s, i + 1, n) \in Seq(S) /\ Len(SubSeq(s, i + 1, n)) = n - i
      /\ \A k \in 1 .. n - i : SubSeq(s, i + 1, n)[k] = s[i + k]
  <2>1. PICK a \in Nat : a = i + 1 BY <1>1
  <2>2. /\ a \in 1 .. n + 1 /\ n - a + 1 = n - i
        /\ \A k \in 1 .. n - i : a + k - 1 = i + k
    BY <1>1, <2>1
  <2> HIDE DEF n
  <2>3. /\ SubSeq(s, a, n) \in Seq(S) /\ Len(SubSeq(s, a, n)) = n - a + 1
        /\ \A k \in 1 .. n - a + 1 : SubSeq(s, a, n)[k] = s[a + k - 1]
    BY <1>1, <2>2, n = Len(s) DEF n
  <2> QED BY <2>1, <2>2, <2>3
<1>4. /\ t \in Seq(S) /\ DOMAIN t = 1 .. n - 1 /\ Len(t) = n - 1
      /\ \A k \in 1 .. i - 1 : t[k] = s[k]
      /\ \A k \in i .. n - 1 : t[k] = s[k + 1]
  <2> DEFINE a == SubSeq(s, 1, i - 1)
             b == SubSeq(s, i + 1, n)
  <2>1. t = a \o b BY DEF RemoveAt
  <2> HIDE DEF a, b, t
  <2>2. /\ a \in Seq(S) /\ b \in Seq(S) /\ Len(a) = i - 1 /\ Len(b) = n - i
        /\ \A k \in 1 .. i - 1 : a[k] = s[k]
        /\ \A k \in 1 .. n - i : b[k] = s[i + k]
    BY <1>2, <1>3 DEF a, b
  <2>3. t \in Seq(S) /\ Len(t) = n - 1
    <3>1. t \in Seq(S) /\ Len(t) = (i - 1) + (n - i) BY <2>1, <2>2
    <3> QED BY <1>1, <3>1
  <2>4. \A k \in 1 .. i - 1 : t[k] = s[k] BY <1>1, <2>1, <2>2
  <2>5. ASSUME NEW k \in i .. n - 1 PROVE t[k] = s[k + 1]
    <3>1. k - (i - 1) \in 1 .. n - i /\ i + (k - (i - 1)) = k + 1 BY <1>1
    <3>2. t[k] = b[k - (i - 1)] BY <1>1, <2>1, <2>2
    <3> QED BY <2>2, <3>1, <3>2
  <2> QED BY <1>1, <2>3, <2>4, <2>5
<1> QED BY <1>4 DEF t, n

\* Taking an element out of the middle of a queue.
LEMMA SacarDelMedio ==
  ASSUME NEW S, NEW s \in Seq(S), NEW i \in DOMAIN s
  PROVE  /\ RemoveAt(s, i) \in Seq(S)
         /\ IsInjective(s) => /\ IsInjective(RemoveAt(s, i))
                             /\ Range(RemoveAt(s, i)) = Range(s) \ {s[i]}
<1> DEFINE t == RemoveAt(s, i)
           n == Len(s)
<1>1. /\ n \in Nat /\ DOMAIN s = 1 .. n /\ i \in 1 .. n
      /\ \A k \in 1 .. n : s[k] \in S
  OBVIOUS
<1>4. /\ t \in Seq(S) /\ DOMAIN t = 1 .. n - 1
      /\ \A k \in 1 .. i - 1 : t[k] = s[k]
      /\ \A k \in i .. n - 1 : t[k] = s[k + 1]
  BY QuitarUno
<1> HIDE DEF t, n
<1>5. \A k \in 1 .. n - 1 : \/ k \in 1 .. i - 1 /\ t[k] = s[k]
                            \/ k \in i .. n - 1 /\ t[k] = s[k + 1] /\ k + 1 \in i + 1 .. n
  BY <1>1, <1>4
<1>6. IsInjective(s) => IsInjective(t)
  <2> SUFFICES ASSUME IsInjective(s), NEW k \in 1 .. n - 1, NEW l \in 1 .. n - 1, t[k] = t[l]
               PROVE  k = l
    BY <1>4 DEF IsInjective
  <2>1. \A a, b \in 1 .. n : s[a] = s[b] => a = b BY <1>1 DEF IsInjective
  <2> QED BY <1>1, <1>5, <2>1
<1>7. ASSUME IsInjective(s), NEW x \in Range(t) PROVE x \in Range(s) \ {s[i]}
  <2>1. PICK k \in 1 .. n - 1 : x = t[k] BY <1>4, <1>7 DEF Range
  <2>2. PICK j \in 1 .. n : x = s[j] /\ j # i BY <1>1, <1>5, <2>1
  <2> QED BY <1>1, <1>7, <2>2 DEF Range, IsInjective
<1>8. ASSUME NEW x \in Range(s) \ {s[i]} PROVE x \in Range(t)
  <2>1. PICK j \in 1 .. n : x = s[j] /\ j # i BY <1>1, <1>8 DEF Range
  <2>2. CASE j < i
    <3>1. j \in 1 .. i - 1 /\ j \in 1 .. n - 1 BY <1>1, <2>2
    <3> QED BY <1>4, <2>1, <3>1 DEF Range
  <2>3. CASE j > i
    <3>1. j - 1 \in i .. n - 1 /\ j - 1 \in 1 .. n - 1 /\ (j - 1) + 1 = j BY <1>1, <2>3
    <3> QED BY <1>4, <2>1, <3>1 DEF Range
  <2> QED BY <1>1, <2>1, <2>2, <2>3
<1> QED BY <1>4, <1>6, <1>7, <1>8 DEF t

-----------------------------------------------------------------------------
(* Sockets: a message that is there at most once.                          *)

Una(s, m)        == \E i \in DOMAIN s : s[i] = m
SinRepetir(s, m) == \A i, j \in DOMAIN s : s[i] = m /\ s[j] = m => i = j

LEMMA MensajeEnviado ==
  ASSUME NEW S, NEW s \in Seq(S), NEW e \in S, NEW m
  PROVE  /\ Append(s, e) \in Seq(S)
         /\ Una(Append(s, e), m) <=> Una(s, m) \/ e = m
         /\ SinRepetir(s, m) /\ ~(Una(s, m) /\ e = m) => SinRepetir(Append(s, e), m)
<1>1. /\ DOMAIN Append(s, e) = 1 .. Len(s) + 1 /\ DOMAIN s = 1 .. Len(s) /\ Len(s) \in Nat
      /\ Append(s, e)[Len(s) + 1] = e /\ Append(s, e) \in Seq(S)
      /\ \A i \in 1 .. Len(s) : Append(s, e)[i] = s[i]
  OBVIOUS
<1>2. 1 .. Len(s) + 1 = (1 .. Len(s)) \cup {Len(s) + 1}
  BY <1>1
<1> QED BY <1>1, <1>2 DEF Una, SinRepetir

LEMMA MensajeRecibido ==
  ASSUME NEW S, NEW s \in Seq(S), s # <<>>, NEW m
  PROVE  /\ Tail(s) \in Seq(S) /\ Head(s) \in S
         /\ SinRepetir(s, m) => SinRepetir(Tail(s), m)
         /\ Head(s) # m => (Una(Tail(s), m) <=> Una(s, m))
         /\ Head(s) = m => Una(s, m)
         /\ Head(s) = m /\ SinRepetir(s, m) => ~Una(Tail(s), m)
<1>1. /\ Tail(s) \in Seq(S) /\ Len(s) \in Nat /\ Len(s) > 0 /\ DOMAIN s = 1 .. Len(s)
      /\ DOMAIN Tail(s) = 1 .. Len(s) - 1 /\ Head(s) = s[1] /\ Head(s) \in S
      /\ \A i \in 1 .. Len(s) - 1 : Tail(s)[i] = s[i + 1]
  OBVIOUS
<1>2. \A j \in 1 .. Len(s) : j = 1 \/ (j - 1 \in 1 .. Len(s) - 1 /\ Tail(s)[j - 1] = s[j])
  <2> TAKE j \in 1 .. Len(s)
  <2>1. j # 1 => j - 1 \in 1 .. Len(s) - 1 /\ (j - 1) + 1 = j BY <1>1
  <2> QED BY <1>1, <2>1
<1>3. 1 \in 1 .. Len(s) /\ \A i \in 1 .. Len(s) - 1 : i + 1 \in 1 .. Len(s) /\ i + 1 # 1
  BY <1>1
<1>4. SinRepetir(s, m) => SinRepetir(Tail(s), m)
  BY <1>1, <1>3 DEF SinRepetir
<1>5. Head(s) # m => (Una(Tail(s), m) <=> Una(s, m))
  <2>1. ASSUME NEW i \in 1 .. Len(s) - 1, Tail(s)[i] = m PROVE Una(s, m)
    BY <1>1, <1>3, <2>1 DEF Una
  <2>2. ASSUME Head(s) # m, NEW j \in 1 .. Len(s), s[j] = m PROVE Una(Tail(s), m)
    BY <1>1, <1>2, <2>2 DEF Una
  <2> QED BY <1>1, <2>1, <2>2 DEF Una
<1>6. Head(s) = m => Una(s, m)
  BY <1>1, <1>3 DEF Una
<1>7. Head(s) = m /\ SinRepetir(s, m) => ~Una(Tail(s), m)
  BY <1>1, <1>3 DEF Una, SinRepetir
<1> QED BY <1>1, <1>4, <1>5, <1>6, <1>7
-----------------------------------------------------------------------------
(* Numbers                                                                 *)

\* The least of some naturals: of the sets S \cap 0 .. n, which are finite, one has no smaller one,
\* and its n is the least.
LEMMA MenorNatural ==
  ASSUME NEW S \in SUBSET Nat, S # {} PROVE \E n \in S : \A m \in S : n <= m
<1> DEFINE R == StrictSubsetOrdering(Nat)
           T == {S \cap (0 .. n) : n \in S}
<1>1. IsWellFoundedOn(R, FiniteSubsetsOf(Nat))
  BY FS_StrictSubsetOrderingWellFounded
<1>2. T \subseteq FiniteSubsetsOf(Nat) /\ T # {}
  <2>1. ASSUME NEW n \in S PROVE S \cap (0 .. n) \in FiniteSubsetsOf(Nat)
    <3>1. IsFiniteSet(0 .. n) /\ S \cap (0 .. n) \in SUBSET (0 .. n)
      BY FS_Interval
    <3>2. IsFiniteSet(S \cap (0 .. n))
      BY <3>1, FS_Subset
    <3> QED BY <3>2 DEF FiniteSubsetsOf
  <2> QED BY <2>1
<1>3. PICK x \in T : \A y \in T : ~(<<y, x>> \in R)
  <2> HIDE DEF R, T
  <2> QED BY <1>1, <1>2, WFMin
<1>4. PICK n \in S : x = S \cap (0 .. n)
  OBVIOUS
<1>5. ASSUME NEW m \in S, m < n PROVE FALSE
  <2>1. S \cap (0 .. m) \subseteq S \cap (0 .. n) /\ n \notin S \cap (0 .. m)
        /\ n \in S \cap (0 .. n)
    BY <1>5
  <2>2. <<S \cap (0 .. m), x>> \in R
    BY <1>4, <2>1 DEF StrictSubsetOrdering
  <2>3. S \cap (0 .. m) \in T
    OBVIOUS
  <2> QED BY <1>3, <2>2, <2>3
<1> QED BY <1>5

=============================================================================
