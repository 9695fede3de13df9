------------------------- MODULE WorkerMemory_proofs -------------------------
(***************************************************************************)
(* Proofs about WorkerMemory: the types, the four records of what is in    *)
(* memory (MarcosCoherentes), the choice of the victim (VictimaOptima),    *)
(* what an unmodified page holds (LimpiaIgualDisco) and that the memory is *)
(* transparent to the queries (RefinaMemoria).                             *)
(***************************************************************************)
EXTENDS WorkerMemory, FiniteSetTheorems, WellFoundedInduction, TLAPS

-----------------------------------------------------------------------------
(* The inductive invariant.                                                *)

Numero == 0..(MaxBloques - 1)

Esta(s, x) == \E i \in DOMAIN s : s[i] = x
Antes(s, x, y) == \E i, j \in DOMAIN s : i < j /\ s[i] = x /\ s[j] = y

\* The page table s of t and the list f of physical pages have the same pages
\* of t, in the same order.
Concuerda(s, f, t) ==
    /\ \A n \in Numero : Esta(s, n) <=> Esta(f, <<t, n>>)
    /\ \A m, n \in Numero : Antes(s, m, n) <=> Antes(f, <<t, m>>, <<t, n>>)

ListasBien ==
    /\ tablas \in [Tag -> Seq(Numero)] /\ fisicas \in Seq(Dir) /\ IsInjective(fisicas)
    /\ \A t \in Tag : IsInjective(tablas[t]) /\ Concuerda(tablas[t], fisicas, t)

\* Each page in memory has a frame of its own.
MarcosBien ==
    /\ pagina \in [Dir -> Pagina]
    /\ \A d, e \in EnMemoria : pagina[d].marco = pagina[e].marco => d = e
    /\ frame_table = {pagina[d].marco : d \in EnMemoria}
    /\ usadas = Len(fisicas) /\ usadas <= total_pages
    /\ puntero \in 0..Len(fisicas) /\ (algoritmo # "CLOCK-M" => puntero = 0)

DiscoBien ==
    /\ disco \in [Tag -> [fase : {"no", "wip", "commit"}, bloques : Seq(Valor)]]
    /\ \A t \in Tag : /\ Len(disco[t].bloques) <= MaxBloques
                      /\ ~ Existe(t) => disco[t].bloques = <<>>
    /\ hayFile \in BOOLEAN

ControlBien ==
    /\ algoritmo \in Algoritmos /\ query \in {"ninguna", "corre"} /\ fallo \in BOOLEAN
    /\ instr \in Acceso \cup {Nada} /\ (instr # Nada => instr.num <= instr.ultima)

Coherente == ListasBien /\ MarcosBien /\ DiscoBien /\ ControlBien

-----------------------------------------------------------------------------
(* Lists.                                                                  *)

\* An element that is there is at its place.
LEMMA LugarEs ==
    ASSUME NEW S, NEW s \in Seq(S), NEW x, Esta(s, x)
    PROVE  Lugar(s, x) \in 1..Len(s) /\ s[Lugar(s, x)] = x
BY DEF Esta, Lugar

\* What a list holds after an element is added at the end.
LEMMA AgregaEs ==
    ASSUME NEW S, NEW s \in Seq(S), NEW x \in S, IsInjective(s), ~ Esta(s, x)
    PROVE  LET r == Append(s, x)
           IN  /\ r \in Seq(S) /\ Len(r) = Len(s) + 1 /\ IsInjective(r)
               /\ \A y : Esta(r, y) <=> Esta(s, y) \/ y = x
               /\ \A y, z : Antes(r, y, z) <=> Antes(s, y, z) \/ (Esta(s, y) /\ z = x)
<1> DEFINE r == Append(s, x)
<1>1. /\ r \in Seq(S) /\ Len(r) = Len(s) + 1 /\ Len(s) \in Nat
      /\ DOMAIN r = 1..(Len(s) + 1) /\ DOMAIN s = 1..Len(s)
      /\ \A i \in 1..Len(s) : r[i] = s[i]
      /\ r[Len(s) + 1] = x
  OBVIOUS
<1> HIDE DEF r
<1>2. IsInjective(r)
  BY <1>1 DEF IsInjective, Esta
<1>3. \A y : Esta(r, y) <=> Esta(s, y) \/ y = x
  BY <1>1 DEF Esta
<1>4. ASSUME NEW y, NEW z
      PROVE  Antes(r, y, z) <=> Antes(s, y, z) \/ (Esta(s, y) /\ z = x)
  <2>1. ASSUME Antes(r, y, z) PROVE Antes(s, y, z) \/ (Esta(s, y) /\ z = x)
    <3>1. PICK i \in DOMAIN r, j \in DOMAIN r : i < j /\ r[i] = y /\ r[j] = z
      BY <2>1 DEF Antes
    <3>2. i \in 1..Len(s) /\ s[i] = y
      BY <1>1, <3>1
    <3>3. CASE j = Len(s) + 1
      BY <1>1, <3>1, <3>2, <3>3 DEF Esta
    <3>4. CASE j # Len(s) + 1
      <4>1. j \in 1..Len(s) /\ s[j] = z
        BY <1>1, <3>1, <3>4
      <4> QED
        BY <1>1, <3>1, <3>2, <4>1 DEF Antes
    <3> QED
      BY <3>3, <3>4
  <2>2. ASSUME Antes(s, y, z) PROVE Antes(r, y, z)
    BY <1>1, <2>2 DEF Antes
  <2>3. ASSUME Esta(s, y), z = x PROVE Antes(r, y, z)
    <3>1. PICK i \in DOMAIN s : s[i] = y
      BY <2>3 DEF Esta
    <3>2. i \in DOMAIN r /\ r[i] = y /\ i < Len(s) + 1 /\ Len(s) + 1 \in DOMAIN r
      BY <1>1, <3>1
    <3> QED
      BY <1>1, <2>3, <3>2 DEF Antes
  <2> QED
    BY <2>1, <2>2, <2>3
<1> QED
  BY <1>1, <1>2, <1>3, <1>4 DEF r

\* Two lists one after the other.
LEMMA UneEs ==
    ASSUME NEW S, NEW a \in Seq(S), NEW b \in Seq(S)
    PROVE  /\ a \o b \in Seq(S) /\ Len(a \o b) = Len(a) + Len(b)
           /\ \A i \in 1..Len(a) : (a \o b)[i] = a[i]
           /\ \A i \in 1..Len(b) : (a \o b)[Len(a) + i] = b[i]
<1>1. a \o b \in Seq(S) /\ Len(a \o b) = Len(a) + Len(b) /\ Len(a) \in Nat /\ Len(b) \in Nat
  OBVIOUS
<1>2. ASSUME NEW i \in 1..Len(a) PROVE (a \o b)[i] = a[i]
  OBVIOUS
<1>3. ASSUME NEW i \in 1..Len(b) PROVE (a \o b)[Len(a) + i] = b[i]
  <2>1. PICK n \in Nat, m \in Nat : n = Len(a) /\ m = Len(b)
    BY <1>1
  <2>2. PICK k \in Nat : k = n + i
    BY <2>1
  <2>3. k \in DOMAIN (a \o b)
    BY <2>1, <2>2
  <2>4. (a \o b)[k] = b[k - n]
    BY <2>1, <2>2, <2>3
  <2>5. k - n = i
    BY <2>2
  <2> QED
    BY <2>1, <2>2, <2>4, <2>5
<1> QED
  BY <1>1, <1>2, <1>3

\* A list without one of its elements, by positions.
LEMMA SacaPosiciones ==
    ASSUME NEW S, NEW s \in Seq(S), NEW k \in 1..Len(s)
    PROVE  LET r == RemoveAt(s, k)
           IN  /\ r \in Seq(S) /\ Len(r) = Len(s) - 1 /\ Len(s) - 1 \in Nat
               /\ \A i \in 1..(Len(s) - 1) : r[i] = IF i < k THEN s[i] ELSE s[i + 1]
<1> DEFINE a == SubSeq(s, 1, k - 1)
           b == SubSeq(s, k + 1, Len(s))
<1>1. Len(s) \in Nat /\ k \in Nat /\ k >= 1 /\ k <= Len(s)
  OBVIOUS
<1>2. a \in Seq(S) /\ Len(a) = k - 1 /\ \A i \in 1..(k - 1) : a[i] = s[i]
  BY <1>1
<1>3. b \in Seq(S) /\ Len(b) = Len(s) - k /\ \A i \in 1..(Len(s) - k) : b[i] = s[k + i]
  BY <1>1
<1> HIDE DEF a, b
<1>4. /\ a \o b \in Seq(S) /\ Len(a \o b) = Len(a) + Len(b)
      /\ \A i \in 1..Len(a) : (a \o b)[i] = a[i]
      /\ \A i \in 1..Len(b) : (a \o b)[Len(a) + i] = b[i]
  <2>1. a \in Seq(S) /\ b \in Seq(S)
    BY <1>2, <1>3
  <2> QED
    BY <2>1, UneEs
<1>5. ASSUME NEW i \in 1..(Len(s) - 1)
      PROVE  (a \o b)[i] = IF i < k THEN s[i] ELSE s[i + 1]
  <2>1. CASE i < k
    <3>1. i \in 1..Len(a)
      BY <1>1, <1>2, <2>1
    <3> QED
      BY <1>2, <1>4, <2>1, <3>1
  <2>2. CASE ~ (i < k)
    <3>1. PICK j \in 1..(Len(s) - k) : j = i - (k - 1)
      BY <1>1, <2>2
    <3>2. j \in 1..Len(b) /\ Len(a) + j = i /\ k + j = i + 1
      BY <1>1, <1>2, <1>3, <3>1
    <3>3. (a \o b)[i] = b[j] /\ b[j] = s[i + 1]
      BY <1>3, <1>4, <3>1, <3>2
    <3> QED
      BY <2>2, <3>3
  <2> QED
    BY <2>1, <2>2
<1>6. Len(a \o b) = Len(s) - 1 /\ Len(s) - 1 \in Nat
  BY <1>1, <1>2, <1>3, <1>4
<1> QED
  BY <1>4, <1>5, <1>6 DEF RemoveAt, a, b

\* What a list holds after one of its elements is removed.
LEMMA SacaEs ==
    ASSUME NEW S, NEW s \in Seq(S), NEW x, IsInjective(s), Esta(s, x)
    PROVE  LET r == Saca(s, x)
           IN  /\ r \in Seq(S) /\ Len(r) = Len(s) - 1 /\ Len(r) \in Nat /\ IsInjective(r)
               /\ \A y : Esta(r, y) <=> Esta(s, y) /\ y # x
               /\ \A y, z : Antes(r, y, z) <=> Antes(s, y, z) /\ y # x /\ z # x
<1> DEFINE r == Saca(s, x)
<1>1. PICK k \in 1..Len(s) : k = Lugar(s, x) /\ s[k] = x
  BY LugarEs
<1>2. /\ r \in Seq(S) /\ Len(r) = Len(s) - 1 /\ Len(r) \in Nat
      /\ \A i \in 1..(Len(s) - 1) : r[i] = IF i < k THEN s[i] ELSE s[i + 1]
  BY <1>1, SacaPosiciones DEF Saca
<1> HIDE DEF r
<1>3. DOMAIN r = 1..(Len(s) - 1) /\ DOMAIN s = 1..Len(s) /\ Len(s) \in Nat /\ k \in Nat
  BY <1>1, <1>2
<1>4. \A i, j \in 1..Len(s) : s[i] = s[j] => i = j
  BY <1>3 DEF IsInjective
<1> DEFINE vuelve(i) == IF i < k THEN i ELSE i + 1
           va(i) == IF i < k THEN i ELSE i - 1
<1>5. \A i \in 1..(Len(s) - 1) : /\ vuelve(i) \in 1..Len(s) /\ vuelve(i) # k /\ r[i] = s[vuelve(i)]
                                 /\ \A j \in 1..(Len(s) - 1) : i < j <=> vuelve(i) < vuelve(j)
  BY <1>2, <1>3
<1>6. \A i \in 1..Len(s) : i # k => /\ va(i) \in 1..(Len(s) - 1) /\ vuelve(va(i)) = i
                                    /\ r[va(i)] = s[i]
  BY <1>1, <1>2, <1>3
<1>7. \A i, j \in 1..Len(s) : i # k /\ j # k /\ i < j => va(i) < va(j)
  BY <1>3
<1> HIDE DEF vuelve, va
<1>8. IsInjective(r)
  <2> SUFFICES ASSUME NEW i \in 1..(Len(s) - 1), NEW j \in 1..(Len(s) - 1), r[i] = r[j]
               PROVE  i = j
    BY <1>3 DEF IsInjective
  <2>1. vuelve(i) = vuelve(j)
    BY <1>4, <1>5
  <2>2. ~ (i < j) /\ ~ (j < i)
    BY <1>3, <1>5, <2>1
  <2> QED
    BY <2>2
<1>9. ASSUME NEW y PROVE Esta(r, y) <=> Esta(s, y) /\ y # x
  <2>1. ASSUME Esta(r, y) PROVE Esta(s, y) /\ y # x
    BY <1>1, <1>3, <1>4, <1>5, <2>1 DEF Esta
  <2>2. ASSUME Esta(s, y), y # x PROVE Esta(r, y)
    BY <1>1, <1>3, <1>6, <2>2 DEF Esta
  <2> QED
    BY <2>1, <2>2
<1>10. ASSUME NEW y, NEW z PROVE Antes(r, y, z) <=> Antes(s, y, z) /\ y # x /\ z # x
  <2>1. ASSUME Antes(r, y, z) PROVE Antes(s, y, z) /\ y # x /\ z # x
    <3>1. PICK i \in 1..(Len(s) - 1), j \in 1..(Len(s) - 1) : i < j /\ r[i] = y /\ r[j] = z
      BY <1>3, <2>1 DEF Antes
    <3>2. /\ vuelve(i) \in DOMAIN s /\ vuelve(j) \in DOMAIN s /\ vuelve(i) < vuelve(j)
          /\ s[vuelve(i)] = y /\ s[vuelve(j)] = z /\ vuelve(i) # k /\ vuelve(j) # k
      BY <1>3, <1>5, <3>1
    <3> QED
      BY <1>1, <1>3, <1>4, <3>2 DEF Antes
  <2>2. ASSUME Antes(s, y, z), y # x, z # x PROVE Antes(r, y, z)
    <3>1. PICK i \in 1..Len(s), j \in 1..Len(s) : i < j /\ s[i] = y /\ s[j] = z
      BY <1>3, <2>2 DEF Antes
    <3>2. i # k /\ j # k
      BY <1>1, <2>2, <3>1
    <3>3. /\ va(i) \in DOMAIN r /\ va(j) \in DOMAIN r /\ va(i) < va(j)
          /\ r[va(i)] = y /\ r[va(j)] = z
      BY <1>3, <1>6, <1>7, <3>1, <3>2
    <3> QED
      BY <3>3 DEF Antes
  <2> QED
    BY <2>1, <2>2
<1> QED
  BY <1>2, <1>8, <1>9, <1>10 DEF r

-----------------------------------------------------------------------------
(* Walks over the lists: a recursive function is what its equation says,   *)
(* by the least n for which it would not be.                               *)

\* A set of numbers that has 0 and the next of each of its numbers has them all.
LEMMA Todos ==
    ASSUME NEW N \in Nat, NEW V, 0 \in V, \A n \in 0..(N - 1) : n \in V => n + 1 \in V
    PROVE  \A n \in 0..N : n \in V
<1> DEFINE F == {n \in 0..N : n \notin V}
<1>1. SUFFICES ASSUME F # {} PROVE FALSE
  OBVIOUS
<1>2. IsWellFoundedOn(OpToRel(<, Nat), Nat)
  BY NatLessThanWellFounded
<1>3. F \subseteq Nat
  OBVIOUS
<1>4. PICK m \in F : \A k \in F : ~ (<<k, m>> \in OpToRel(<, Nat))
  BY <1>1, <1>2, <1>3, WFMin
<1>5. m \in 0..N /\ m \notin V
  OBVIOUS
<1>6. m # 0
  BY <1>5
<1>7. m - 1 \in 0..(N - 1)
  BY <1>5, <1>6
<1>8. m - 1 \notin V
  <2>1. ASSUME m - 1 \in V PROVE FALSE
    <3>1. (m - 1) + 1 \in V
      BY <1>7, <2>1
    <3>2. (m - 1) + 1 = m
      BY <1>5
    <3> QED
      BY <1>5, <3>1, <3>2
  <2> QED
    BY <2>1
<1>9. m - 1 \in F /\ m - 1 < m /\ m - 1 \in Nat /\ m \in Nat
  BY <1>5, <1>7, <1>8
<1>10. <<m - 1, m>> \in OpToRel(<, Nat)
  BY <1>9 DEF OpToRel
<1> QED
  BY <1>4, <1>9, <1>10

\* One pass of the hand is Len(fisicas) looks.
LEMMA VueltaEs ==
    ASSUME NEW e, NEW m, NEW l, Len(fisicas) \in Nat
    PROVE  \E g : /\ g = [n \in 0..Len(fisicas) |-> IF n = 0 THEN e ELSE Mira(g[n - 1], m, l)]
                  /\ Vuelta(e, m, l) = g[Len(fisicas)]
<1>1. PICK N \in Nat : N = Len(fisicas)
  OBVIOUS
<1> DEFINE Es(g, n) == g = [i \in 0..n |-> IF i = 0 THEN e ELSE Mira(g[i - 1], m, l)]
           V == {n \in 0..N : \E g : Es(g, n)}
<1>2. 0 \in V
  <2>1. Es([i \in 0..0 |-> e], 0)
    OBVIOUS
  <2>2. \E g : Es(g, 0)
    BY <2>1
  <2> QED
    BY <2>2
<1>3. ASSUME NEW n \in 0..(N - 1), n \in V PROVE n + 1 \in V
  <2>1. PICK g : Es(g, n)
    BY <1>3
  <2> DEFINE h == [i \in 0..(n + 1) |-> IF i <= n THEN g[i] ELSE Mira(g[n], m, l)]
  <2>2. \A i \in 0..n : g[i] = IF i = 0 THEN e ELSE Mira(g[i - 1], m, l)
    BY <2>1
  <2>3. \A i \in 0..(n + 1) : h[i] = IF i = 0 THEN e ELSE Mira(h[i - 1], m, l)
    <3> TAKE i \in 0..(n + 1)
    <3>1. CASE i = 0
      BY <2>2, <3>1
    <3>2. CASE i \in 1..n
      <4>1. i - 1 \in 0..n /\ i \in 0..n /\ i # 0
        BY <3>2
      <4>2. h[i] = g[i] /\ h[i - 1] = g[i - 1]
        BY <4>1
      <4> QED
        BY <2>2, <4>1, <4>2
    <3>3. CASE i = n + 1
      <4>1. h[i - 1] = g[n] /\ h[i] = Mira(g[n], m, l) /\ i # 0
        BY <3>3
      <4> QED
        BY <4>1
    <3> QED
      BY <3>1, <3>2, <3>3
  <2>4. Es(h, n + 1)
    BY <2>3
  <2>5. \E x : Es(x, n + 1)
    BY <2>4
  <2> QED
    BY <2>5
<1>4. N \in V
  <2> HIDE DEF V
  <2>1. \A n \in 0..(N - 1) : n \in V => n + 1 \in V
    BY <1>3
  <2>2. \A n \in 0..N : n \in V
    BY <1>2, <2>1, Todos
  <2> QED
    BY <2>2
<1>5. \E g : Es(g, N)
  BY <1>4
<1>6. PICK g : g = CHOOSE f : Es(f, N)
  OBVIOUS
<1>7. Es(g, N)
  BY <1>5, <1>6
<1>8. Vuelta(e, m, l) = g[N]
  BY <1>1, <1>6 DEF Vuelta
<1> QED
  BY <1>1, <1>7, <1>8

-----------------------------------------------------------------------------
(* The victim of CLOCK-M.                                                  *)

\* The hand between two looks.
Mano == [victima : Dir \cup {Ninguna}, p : 0..Len(fisicas), uso : [EnMemoria -> {0, 1}]]

\* The position that the hand looks at.
Frente(e) == IF e.p >= Len(fisicas) THEN 0 ELSE e.p

\* The page that the hand looks at when it is at k.
LEMMA Posicion ==
    ASSUME fisicas \in Seq(Dir), NEW k \in 0..(Len(fisicas) - 1)
    PROVE  fisicas[k + 1] \in EnMemoria /\ fisicas[k + 1] \in Dir
BY DEF EnMemoria, ToSet

\* A page is never NULL.
LEMMA NoNinguna ==
    ASSUME NEW d \in Dir
    PROVE  d # Ninguna
BY MemoriaAssumption DEF MemoriaAssumption, Dir

\* One look of the hand.
LEMMA MiraEs ==
    ASSUME fisicas \in Seq(Dir), fisicas # <<>>, NEW e \in Mano, NEW m, NEW l
    PROVE  /\ e.victima # Ninguna => Mira(e, m, l) = e
           /\ e.victima = Ninguna =>
                LET d == fisicas[Frente(e) + 1]
                    r == Mira(e, m, l)
                IN  /\ r \in Mano /\ r.p = Frente(e) + 1
                    /\ IF e.uso[d] = 0 /\ pagina[d].modificada = m THEN r.victima = d
                       ELSE /\ r.victima = Ninguna
                            /\ r.uso = [e.uso EXCEPT ![d] = IF l THEN 0 ELSE @]
<1>1. PICK N \in Nat \ {0} : N = Len(fisicas)
  OBVIOUS
<1>2. PICK k \in 0..(N - 1) : k = Frente(e)
  BY <1>1 DEF Frente, Mano
<1>3. PICK d \in Dir : d = fisicas[k + 1] /\ d \in EnMemoria
  BY <1>1, Posicion
<1>4. CASE e.victima # Ninguna
  BY <1>4 DEF Mira
<1>5. CASE e.victima = Ninguna /\ e.uso[d] = 0 /\ pagina[d].modificada = m
  <2>1. Mira(e, m, l) = [e EXCEPT !.victima = d, !.p = k + 1]
    BY <1>2, <1>3, <1>5 DEF Mira, Frente
  <2>2. PICK r : r = [e EXCEPT !.victima = d, !.p = k + 1]
    OBVIOUS
  <2>3. r = [victima |-> d, p |-> k + 1, uso |-> e.uso]
    BY <2>2 DEF Mano
  <2>4. e.uso \in [EnMemoria -> {0, 1}] /\ k + 1 \in 0..N
    BY DEF Mano
  <2>5. r \in Mano /\ r.p = k + 1 /\ r.victima = d
    BY <1>1, <2>3, <2>4 DEF Mano
  <2> QED
    BY <1>2, <1>3, <1>5, <2>1, <2>2, <2>5
<1>6. CASE e.victima = Ninguna /\ ~ (e.uso[d] = 0 /\ pagina[d].modificada = m)
  <2>1. Mira(e, m, l) = [e EXCEPT !.p = k + 1, !.uso[d] = IF l THEN 0 ELSE @]
    BY <1>2, <1>3, <1>6 DEF Mira, Frente
  <2>2. PICK r : r = [e EXCEPT !.p = k + 1, !.uso[d] = IF l THEN 0 ELSE @]
    OBVIOUS
  <2>3. PICK u : u = [e.uso EXCEPT ![d] = IF l THEN 0 ELSE @]
    OBVIOUS
  <2>4. /\ e = [victima |-> e.victima, p |-> e.p, uso |-> e.uso]
        /\ e.uso \in [EnMemoria -> {0, 1}]
    BY DEF Mano
  <2>5. u \in [EnMemoria -> {0, 1}]
    BY <1>3, <2>3, <2>4
  <2>6. r = [victima |-> Ninguna, p |-> k + 1, uso |-> u]
    BY <1>6, <2>2, <2>3, <2>4
  <2>7. r \in [victima : Dir \cup {Ninguna}, p : 0..N, uso : [EnMemoria -> {0, 1}]]
    BY <2>5, <2>6
  <2>8. r \in Mano /\ r.p = k + 1 /\ r.victima = Ninguna /\ r.uso = u
    BY <1>1, <2>6, <2>7 DEF Mano
  <2> QED
    BY <1>2, <1>3, <1>6, <2>1, <2>2, <2>3, <2>8
<1> QED
  BY <1>2, <1>3, <1>4, <1>5, <1>6

\* What a pass from e leaves: it stops at a page out of use with the modified bit
\* m, or there is none and, if it clears them, no page is left in use.
TrasVuelta(e, m, l, r) ==
    /\ r \in Mano
    /\ r.victima # Ninguna => /\ r.victima \in EnMemoria
                              /\ e.uso[r.victima] = 0 /\ pagina[r.victima].modificada = m
    /\ r.victima = Ninguna => \A d \in EnMemoria :
                                 /\ ~ (e.uso[d] = 0 /\ pagina[d].modificada = m)
                                 /\ r.uso[d] = IF l THEN 0 ELSE e.uso[d]

\* A pass does that.
LEMMA VueltaBien ==
    ASSUME fisicas \in Seq(Dir), fisicas # <<>>, IsInjective(fisicas),
           NEW e \in Mano, NEW m, NEW l, e.victima = Ninguna
    PROVE  TrasVuelta(e, m, l, Vuelta(e, m, l))
<1>1. PICK N \in Nat \ {0} : N = Len(fisicas) /\ DOMAIN fisicas = 1..N
  OBVIOUS
<1>2. PICK g : /\ g = [n \in 0..N |-> IF n = 0 THEN e ELSE Mira(g[n - 1], m, l)]
               /\ Vuelta(e, m, l) = g[N]
  BY <1>1, VueltaEs
<1>3. PICK a \in 0..(N - 1) : a = Frente(e)
  BY <1>1 DEF Frente, Mano
<1> DEFINE Pag(q) == fisicas[q + 1]
           Visto(n, q) == (a <= q /\ q < a + n) \/ q < a + n - N
           Falla(d) == ~ (e.uso[d] = 0 /\ pagina[d].modificada = m)
           Halla(v) == v \in EnMemoria /\ e.uso[v] = 0 /\ pagina[v].modificada = m
           Pasada(n, u) == \A q \in 0..(N - 1) :
               IF Visto(n, q) THEN Falla(Pag(q)) /\ u[Pag(q)] = (IF l THEN 0 ELSE e.uso[Pag(q)])
               ELSE u[Pag(q)] = e.uso[Pag(q)]
           Bien(n, r) == /\ r \in Mano
                         /\ r.victima # Ninguna => Halla(r.victima)
                         /\ r.victima = Ninguna =>
                              /\ Frente(r) = (IF a + n < N THEN a + n ELSE a + n - N)
                              /\ Pasada(n, r.uso)
           V == {n \in 0..N : Bien(n, g[n])}
<1>4. 0 \in V
  <2>1. g[0] = e
    BY <1>2
  <2>2. Pasada(0, e.uso)
    BY <1>1, <1>3
  <2>3. Bien(0, e)
    BY <1>1, <1>3, <2>2
  <2> QED
    BY <2>1, <2>3
<1>5. ASSUME NEW n \in 0..(N - 1), n \in V PROVE n + 1 \in V
  <2>0. g[n + 1] = Mira(g[n], m, l)
    <3>1. n + 1 \in 0..N /\ n + 1 # 0 /\ (n + 1) - 1 = n
      OBVIOUS
    <3>2. g[n + 1] = Mira(g[(n + 1) - 1], m, l)
      BY <1>2, <3>1
    <3> QED
      BY <3>1, <3>2
  <2>1. Bien(n, g[n]) /\ g[n + 1] = Mira(g[n], m, l)
    <3> HIDE DEF Bien
    <3> QED
      BY <1>5, <2>0
  <2>2. PICK s : s = g[n]
    OBVIOUS
  <2>3. PICK r : r = Mira(s, m, l)
    OBVIOUS
  <2>4. SUFFICES Bien(n + 1, r)
    <3> HIDE DEF Bien
    <3>1. n + 1 \in 0..N /\ r = g[n + 1]
      BY <2>1, <2>2, <2>3
    <3> QED
      BY <3>1
  <2>5. s \in Mano /\ Bien(n, s)
    BY <2>1, <2>2
  <2>6. CASE s.victima # Ninguna
    <3>1. r = s
      BY <2>3, <2>6 DEF Mira
    <3>2. s \in Mano /\ Halla(s.victima)
      BY <2>5, <2>6
    <3> HIDE DEF Halla, Pasada
    <3> QED
      BY <2>6, <3>1, <3>2
  <2>7. CASE s.victima = Ninguna
    <3>1. PICK k \in 0..(N - 1) : k = Frente(s) /\ k = (IF a + n < N THEN a + n ELSE a + n - N)
      BY <2>5, <2>7
    <3>2. PICK d \in Dir : d = Pag(k) /\ d \in EnMemoria
      BY <1>1, Posicion
    <3>3. Pasada(n, s.uso) /\ ~ Visto(n, k)
      BY <2>5, <2>7, <3>1
    <3>4. s.uso[d] = e.uso[d]
      BY <3>2, <3>3
    <3>5. /\ r \in Mano /\ r.p = k + 1
          /\ IF s.uso[d] = 0 /\ pagina[d].modificada = m THEN r.victima = d
             ELSE r.victima = Ninguna /\ r.uso = [s.uso EXCEPT ![d] = IF l THEN 0 ELSE @]
      <4>1. s \in Mano /\ fisicas[Frente(s) + 1] = d /\ Frente(s) = k
        BY <2>5, <3>1, <3>2
      <4> HIDE DEF Pag, Visto, Falla, Halla, Pasada, Bien
      <4> QED
        BY <2>3, <2>7, <4>1, MiraEs
    <3>6. CASE s.uso[d] = 0 /\ pagina[d].modificada = m
      <4>1. r.victima = d /\ d # Ninguna
        BY <3>5, <3>6, NoNinguna
      <4>2. Halla(d)
        BY <3>2, <3>4, <3>6
      <4> QED
        BY <3>5, <4>1, <4>2
    <3>7. CASE ~ (s.uso[d] = 0 /\ pagina[d].modificada = m)
      <4>1. r.victima = Ninguna /\ r.uso = [s.uso EXCEPT ![d] = IF l THEN 0 ELSE @]
        BY <3>5, <3>7
      <4>2. Frente(r) = (IF a + (n + 1) < N THEN a + (n + 1) ELSE a + (n + 1) - N)
        BY <1>1, <3>1, <3>5 DEF Frente
      <4>3. Falla(d)
        BY <3>4, <3>7
      <4>4. s.uso \in [EnMemoria -> {0, 1}]
        BY <2>5 DEF Mano
      <4>5. r.uso[d] = IF l THEN 0 ELSE e.uso[d]
        BY <3>2, <3>4, <4>1, <4>4
      <4>6. \A c \in EnMemoria : c # d => r.uso[c] = s.uso[c]
        BY <4>1, <4>4
      <4>7. ASSUME NEW q \in 0..(N - 1)
            PROVE  IF Visto(n + 1, q)
                   THEN Falla(Pag(q)) /\ r.uso[Pag(q)] = (IF l THEN 0 ELSE e.uso[Pag(q)])
                   ELSE r.uso[Pag(q)] = e.uso[Pag(q)]
        <5>1. CASE q = k
          <6>1. Visto(n + 1, q)
            BY <3>1, <5>1
          <6>2. Pag(q) = d
            BY <3>2, <5>1
          <6> QED
            BY <4>3, <4>5, <6>1, <6>2
        <5>2. CASE q # k
          <6>1. Visto(n + 1, q) <=> Visto(n, q)
            BY <3>1, <5>2
          <6>2. Pag(q) # d
            BY <1>1, <3>2, <5>2 DEF IsInjective
          <6>3. Pag(q) \in EnMemoria
            BY <1>1, Posicion
          <6>4. r.uso[Pag(q)] = s.uso[Pag(q)]
            BY <4>6, <6>2, <6>3
          <6> HIDE DEF Visto, Falla, Pag
          <6> QED
            BY <3>3, <6>1, <6>4
        <5> QED
          BY <5>1, <5>2
      <4>8. Pasada(n + 1, r.uso)
        BY <4>7
      <4> HIDE DEF Pasada, Halla
      <4> QED
        BY <3>5, <4>1, <4>2, <4>8
    <3> QED
      BY <3>6, <3>7
  <2> QED
    BY <2>6, <2>7
<1>6. N \in V
  <2> HIDE DEF V
  <2>1. \A n \in 0..(N - 1) : n \in V => n + 1 \in V
    BY <1>5
  <2>2. \A n \in 0..N : n \in V
    BY <1>4, <2>1, Todos
  <2> QED
    BY <2>2
<1>7. PICK r : r = Vuelta(e, m, l)
  OBVIOUS
<1>8. Bien(N, r)
  BY <1>2, <1>6, <1>7
<1>9. ASSUME r.victima = Ninguna, NEW d \in EnMemoria
      PROVE  Falla(d) /\ r.uso[d] = IF l THEN 0 ELSE e.uso[d]
  <2>1. PICK i \in 1..N : d = fisicas[i]
    BY <1>1 DEF EnMemoria, ToSet
  <2>2. i - 1 \in 0..(N - 1) /\ Pag(i - 1) = d /\ Visto(N, i - 1)
    BY <2>1
  <2>3. Pasada(N, r.uso)
    BY <1>8, <1>9
  <2> HIDE DEF Visto, Falla, Pag
  <2> QED
    BY <2>2, <2>3
<1>10. /\ r \in Mano
       /\ r.victima # Ninguna => /\ r.victima \in EnMemoria
                                 /\ e.uso[r.victima] = 0 /\ pagina[r.victima].modificada = m
  BY <1>8
<1> QED
  BY <1>7, <1>9, <1>10 DEF TrasVuelta

\* A pass that has its victim already does nothing.
LEMMA VueltaQuieta ==
    ASSUME NEW e, NEW m, NEW l, e.victima # Ninguna, Len(fisicas) \in Nat
    PROVE  Vuelta(e, m, l) = e
<1>1. PICK N \in Nat : N = Len(fisicas)
  OBVIOUS
<1>2. PICK g : /\ g = [n \in 0..N |-> IF n = 0 THEN e ELSE Mira(g[n - 1], m, l)]
               /\ Vuelta(e, m, l) = g[N]
  BY <1>1, VueltaEs
<1> DEFINE V == {n \in 0..N : g[n] = e}
<1>3. 0 \in V
  BY <1>2
<1>4. ASSUME NEW n \in 0..(N - 1), n \in V PROVE n + 1 \in V
  <2>1. n + 1 \in 0..N /\ n + 1 # 0 /\ (n + 1) - 1 = n
    OBVIOUS
  <2>2. g[n + 1] = Mira(g[(n + 1) - 1], m, l)
    BY <1>2, <2>1
  <2>3. Mira(e, m, l) = e
    BY DEF Mira
  <2> QED
    BY <1>4, <2>1, <2>2, <2>3
<1>5. N \in V
  <2> HIDE DEF V
  <2>1. \A n \in 0..(N - 1) : n \in V => n + 1 \in V
    BY <1>4
  <2>2. \A n \in 0..N : n \in V
    BY <1>3, <2>1, Todos
  <2> QED
    BY <2>2
<1> QED
  BY <1>2, <1>5

\* What a selection leaves: a victim in memory of the lowest class.
Inicio == [victima |-> Ninguna, p |-> puntero, uso |-> [d \in EnMemoria |-> pagina[d].uso]]
Elige(s) == /\ s \in Mano /\ s.victima \in EnMemoria
            /\ \A d \in EnMemoria : Clase(s.victima) <= Clase(d)

\* The hand starts as it should.
LEMMA InicioEs ==
    ASSUME fisicas \in Seq(Dir), pagina \in [Dir -> Pagina], puntero \in 0..Len(fisicas)
    PROVE  /\ Inicio \in Mano /\ Inicio.victima = Ninguna
           /\ \A d \in EnMemoria : /\ Inicio.uso[d] = pagina[d].uso /\ pagina[d].uso \in {0, 1}
                                   /\ pagina[d].modificada \in BOOLEAN
<1>1. EnMemoria \subseteq Dir
  BY DEF EnMemoria, ToSet
<1>2. \A d \in Dir : pagina[d].uso \in {0, 1} /\ pagina[d].modificada \in BOOLEAN
  BY DEF Pagina
<1>3. [d \in EnMemoria |-> pagina[d].uso] \in [EnMemoria -> {0, 1}]
  BY <1>1, <1>2
<1>4. Inicio \in Mano
  BY <1>3 DEF Inicio, Mano
<1> QED
  BY <1>1, <1>2, <1>4 DEF Inicio

\* The class of a page.
LEMMA ClaseEs ==
    ASSUME NEW d, pagina[d].uso \in {0, 1}, pagina[d].modificada \in BOOLEAN
    PROVE  Clase(d) = IF pagina[d].uso = 0 THEN (IF pagina[d].modificada THEN 1 ELSE 0)
                      ELSE (IF pagina[d].modificada THEN 3 ELSE 2)
BY DEF Clase

\* The four passes of CLOCK-M find a page of the lowest class.
LEMMA ClockBien ==
    ASSUME fisicas \in Seq(Dir), fisicas # <<>>, IsInjective(fisicas),
           pagina \in [Dir -> Pagina], puntero \in 0..Len(fisicas)
    PROVE  Elige(Clock)
<1>1. /\ Inicio \in Mano /\ Inicio.victima = Ninguna
      /\ \A d \in EnMemoria : /\ Inicio.uso[d] = pagina[d].uso /\ pagina[d].uso \in {0, 1}
                              /\ pagina[d].modificada \in BOOLEAN
  BY InicioEs
<1>2. PICK s1 : s1 = Vuelta(Inicio, FALSE, FALSE)
  OBVIOUS
<1>3. PICK s2 : s2 = Vuelta(s1, TRUE, TRUE)
  OBVIOUS
<1>4. PICK s3 : s3 = Vuelta(s2, FALSE, FALSE)
  OBVIOUS
<1>5. PICK s4 : s4 = Vuelta(s3, TRUE, FALSE)
  OBVIOUS
<1>6. Clock = s4
  BY <1>2, <1>3, <1>4, <1>5 DEF Clock, Inicio
<1>7. Len(fisicas) \in Nat
  OBVIOUS
<1>8. \A d \in EnMemoria :
         Clase(d) = IF pagina[d].uso = 0 THEN (IF pagina[d].modificada THEN 1 ELSE 0)
                    ELSE (IF pagina[d].modificada THEN 3 ELSE 2)
  BY <1>1, ClaseEs
<1>9. TrasVuelta(Inicio, FALSE, FALSE, s1)
  BY <1>1, <1>2, VueltaBien
<1>10. CASE s1.victima # Ninguna
  <2>1. s4 = s1
    BY <1>3, <1>4, <1>5, <1>7, <1>10, VueltaQuieta
  <2>2. Clase(s1.victima) = 0
    BY <1>1, <1>8, <1>9, <1>10 DEF TrasVuelta
  <2>3. \A d \in EnMemoria : 0 <= Clase(d)
    BY <1>8
  <2> QED
    BY <1>6, <1>9, <1>10, <2>1, <2>2, <2>3 DEF Elige, TrasVuelta
<1>11. CASE s1.victima = Ninguna
  <2>1. \A d \in EnMemoria : /\ ~ (pagina[d].uso = 0 /\ pagina[d].modificada = FALSE)
                             /\ s1.uso[d] = pagina[d].uso
    BY <1>1, <1>9, <1>11 DEF TrasVuelta
  <2>2. TrasVuelta(s1, TRUE, TRUE, s2)
    <3>1. s1 \in Mano
      BY <1>9 DEF TrasVuelta
    <3> QED
      BY <1>3, <1>11, <3>1, VueltaBien
  <2>3. CASE s2.victima # Ninguna
    <3>1. s4 = s2
      BY <1>4, <1>5, <1>7, <2>3, VueltaQuieta
    <3>2. Clase(s2.victima) = 1
      BY <1>8, <2>1, <2>2, <2>3 DEF TrasVuelta
    <3>3. \A d \in EnMemoria : 1 <= Clase(d)
      BY <1>1, <1>8, <2>1
    <3> QED
      BY <1>6, <2>2, <2>3, <3>1, <3>2, <3>3 DEF Elige, TrasVuelta
  <2>4. CASE s2.victima = Ninguna
    <3>1. \A d \in EnMemoria : pagina[d].uso = 1 /\ s2.uso[d] = 0
      BY <1>1, <2>1, <2>2, <2>4 DEF TrasVuelta
    <3>2. TrasVuelta(s2, FALSE, FALSE, s3)
      <4>1. s2 \in Mano
        BY <2>2 DEF TrasVuelta
      <4> QED
        BY <1>4, <2>4, <4>1, VueltaBien
    <3>3. CASE s3.victima # Ninguna
      <4>1. s4 = s3
        BY <1>5, <1>7, <3>3, VueltaQuieta
      <4>2. Clase(s3.victima) = 2
        BY <1>8, <3>1, <3>2, <3>3 DEF TrasVuelta
      <4>3. \A d \in EnMemoria : 2 <= Clase(d)
        BY <1>8, <3>1
      <4> QED
        BY <1>6, <3>2, <3>3, <4>1, <4>2, <4>3 DEF Elige, TrasVuelta
    <3>4. CASE s3.victima = Ninguna
      <4>1. \A d \in EnMemoria : pagina[d].modificada = TRUE /\ s3.uso[d] = 0
        BY <1>1, <3>1, <3>2, <3>4 DEF TrasVuelta
      <4>2. TrasVuelta(s3, TRUE, FALSE, s4)
        <5>1. s3 \in Mano
          BY <3>2 DEF TrasVuelta
        <5> QED
          BY <1>5, <3>4, <5>1, VueltaBien
      <4>3. fisicas[1] \in EnMemoria
        <5>1. 0 \in 0..(Len(fisicas) - 1) /\ 0 + 1 = 1
          BY <1>7
        <5> QED
          BY <5>1, Posicion
      <4>4. s4.victima \in EnMemoria
        BY <4>1, <4>2, <4>3 DEF TrasVuelta
      <4>5. \A d \in EnMemoria : Clase(d) = 3
        BY <1>8, <3>1, <4>1
      <4> QED
        BY <1>6, <4>2, <4>4, <4>5 DEF Elige, TrasVuelta
    <3> QED
      BY <3>3, <3>4
  <2> QED
    BY <2>3, <2>4
<1> QED
  BY <1>10, <1>11

-----------------------------------------------------------------------------
(* The victim of LRU.                                                      *)

\* Some number of a list is the first of the greatest.
LEMMA PrimerMaximo ==
    ASSUME NEW N \in Nat \ {0}, NEW E \in [1..N -> Nat]
    PROVE  \E i \in 1..N : /\ \A j \in 1..N : E[j] <= E[i]
                           /\ \A j \in 1..(i - 1) : E[j] < E[i]
<1> DEFINE Primero(n, i) == /\ i \in 1..(n + 1) /\ \A j \in 1..(n + 1) : E[j] <= E[i]
                            /\ \A j \in 1..(i - 1) : E[j] < E[i]
           V == {n \in 0..(N - 1) : \E i \in 1..N : Primero(n, i)}
<1>1. 0 \in V
  <2>1. Primero(0, 1)
    OBVIOUS
  <2>2. 1 \in 1..N /\ 0 \in 0..(N - 1)
    OBVIOUS
  <2> HIDE DEF Primero
  <2> QED
    BY <2>1, <2>2
<1>2. ASSUME NEW n \in 0..((N - 1) - 1), n \in V PROVE n + 1 \in V
  <2>1. PICK i \in 1..N : Primero(n, i)
    BY <1>2
  <2>2. n + 2 \in 1..N /\ n + 1 \in 0..(N - 1) /\ i \in 1..(n + 1)
    BY <2>1
  <2>3. \A j \in 1..N : E[j] \in Nat
    OBVIOUS
  <2>4. CASE E[n + 2] <= E[i]
    <3>1. \A j \in 1..(n + 2) : E[j] <= E[i]
      <4> TAKE j \in 1..(n + 2)
      <4>1. CASE j = n + 2
        BY <2>4, <4>1
      <4>2. CASE j # n + 2
        BY <2>1, <4>2
      <4> QED
        BY <4>1, <4>2
    <3>2. Primero(n + 1, i)
      BY <2>1, <2>2, <3>1
    <3> HIDE DEF Primero
    <3> QED
      BY <2>2, <3>2
  <2>5. CASE ~ (E[n + 2] <= E[i])
    <3>1. \A j \in 1..(n + 1) : E[j] < E[n + 2]
      BY <2>1, <2>2, <2>3, <2>5
    <3>2. \A j \in 1..(n + 2) : E[j] <= E[n + 2]
      <4> TAKE j \in 1..(n + 2)
      <4>1. CASE j = n + 2
        BY <2>2, <2>3, <4>1
      <4>2. CASE j # n + 2
        <5>1. j \in 1..(n + 1) /\ j \in 1..N
          BY <2>2, <4>2
        <5> QED
          BY <2>2, <2>3, <3>1, <5>1
      <4> QED
        BY <4>1, <4>2
    <3>3. /\ n + 2 \in 1..((n + 1) + 1) /\ (n + 1) + 1 = n + 2 /\ (n + 2) - 1 = n + 1
      OBVIOUS
    <3>4. Primero(n + 1, n + 2)
      BY <3>1, <3>2, <3>3
    <3> HIDE DEF Primero
    <3> QED
      BY <2>2, <3>4
  <2> QED
    BY <2>4, <2>5
<1>3. N - 1 \in V
  <2> HIDE DEF V
  <2>1. \A n \in 0..((N - 1) - 1) : n \in V => n + 1 \in V
    BY <1>2
  <2>2. N - 1 \in Nat
    OBVIOUS
  <2>3. \A n \in 0..(N - 1) : n \in V
    BY <1>1, <2>1, <2>2, Todos
  <2> QED
    BY <2>2, <2>3
<1>4. PICK i \in 1..N : Primero(N - 1, i)
  BY <1>3
<1>5. (N - 1) + 1 = N
  OBVIOUS
<1> QED
  BY <1>4, <1>5

\* LRU finds a page that nobody was without for longer.
LEMMA VictimaLRUBien ==
    ASSUME fisicas \in Seq(Dir), fisicas # <<>>, pagina \in [Dir -> Pagina]
    PROVE  /\ VictimaLRU \in EnMemoria
           /\ \A d \in EnMemoria : pagina[d].edad <= pagina[VictimaLRU].edad
<1>1. PICK N \in Nat \ {0} : N = Len(fisicas) /\ DOMAIN fisicas = 1..N
  OBVIOUS
<1> DEFINE E == [i \in 1..N |-> pagina[fisicas[i]].edad]
           Es(i) == /\ \A j \in DOMAIN fisicas : pagina[fisicas[j]].edad <= pagina[fisicas[i]].edad
                    /\ \A j \in 1..(i - 1) : pagina[fisicas[j]].edad < pagina[fisicas[i]].edad
<1>2. \A i \in 1..N : fisicas[i] \in Dir
  BY <1>1
<1>3. \A d \in Dir : pagina[d].edad \in Nat
  BY MemoriaAssumption DEF Pagina, MemoriaAssumption
<1>4. E \in [1..N -> Nat]
  BY <1>2, <1>3
<1>5. PICK i \in 1..N : /\ \A j \in 1..N : E[j] <= E[i]
                        /\ \A j \in 1..(i - 1) : E[j] < E[i]
  <2> HIDE DEF E
  <2> QED
    BY <1>4, PrimerMaximo
<1>6. Es(i)
  <2>1. \A j \in 1..N : E[j] = pagina[fisicas[j]].edad
    OBVIOUS
  <2>2. 1..(i - 1) \subseteq 1..N
    OBVIOUS
  <2> HIDE DEF E
  <2> QED
    BY <1>1, <1>5, <2>1, <2>2
<1>7. PICK k : k = CHOOSE j \in DOMAIN fisicas : Es(j)
  OBVIOUS
<1>8. k \in 1..N /\ Es(k)
  <2> HIDE DEF Es
  <2> QED
    BY <1>1, <1>6, <1>7
<1>9. VictimaLRU = fisicas[k]
  BY <1>7 DEF VictimaLRU
<1> QED
  BY <1>1, <1>8, <1>9 DEF EnMemoria, ToSet

-----------------------------------------------------------------------------
(* The selection and the removal.                                          *)

\* What seleccionar_victima answers: the use bits change only for CLOCK-M.
Elegida(s) ==
    /\ s.victima \in EnMemoria /\ s.victima \in Dir
    /\ s.p \in 0..Len(fisicas) /\ s.uso \in [EnMemoria -> {0, 1}]
    /\ algoritmo # "CLOCK-M" => s.p = puntero
    /\ \A d \in EnMemoria : IF algoritmo = "LRU" THEN pagina[d].edad <= pagina[s.victima].edad
                            ELSE Clase(s.victima) <= Clase(d)

\* The victim of either algorithm is one of the best.
LEMMA SeleccionBien ==
    ASSUME Coherente, fisicas # <<>>
    PROVE  Elegida(Seleccion)
<1>1. /\ fisicas \in Seq(Dir) /\ IsInjective(fisicas) /\ pagina \in [Dir -> Pagina]
      /\ puntero \in 0..Len(fisicas) /\ algoritmo \in {"LRU", "CLOCK-M"}
  BY MemoriaAssumption
     DEF Coherente, ListasBien, MarcosBien, ControlBien, MemoriaAssumption
<1>2. EnMemoria \subseteq Dir
  BY <1>1 DEF EnMemoria, ToSet
<1>3. CASE algoritmo = "CLOCK-M"
  <2>1. Elige(Clock)
    BY <1>1, ClockBien
  <2>2. Seleccion = Clock
    BY <1>3 DEF Seleccion
  <2>3. Clock.p \in 0..Len(fisicas) /\ Clock.uso \in [EnMemoria -> {0, 1}]
    BY <2>1 DEF Elige, Mano
  <2> QED
    BY <1>2, <1>3, <2>1, <2>2, <2>3 DEF Elegida, Elige
<1>4. CASE algoritmo = "LRU"
  <2>1. /\ VictimaLRU \in EnMemoria
        /\ \A d \in EnMemoria : pagina[d].edad <= pagina[VictimaLRU].edad
    BY <1>1, VictimaLRUBien
  <2>2. Seleccion = [victima |-> VictimaLRU, p |-> puntero, uso |-> Inicio.uso]
    BY <1>4 DEF Seleccion, Inicio
  <2>3. Inicio.uso \in [EnMemoria -> {0, 1}]
    BY <1>1, InicioEs DEF Mano
  <2> QED
    BY <1>1, <1>2, <1>4, <2>1, <2>2, <2>3 DEF Elegida
<1> QED
  BY <1>1, <1>3, <1>4

\* The hand is within the list after a page leaves it.
LEMMA QuitaEs ==
    ASSUME NEW s \in Seq(Dir), NEW p \in 0..Len(s), NEW d, IsInjective(s), Esta(s, d)
    PROVE  LET r == Quita([lista |-> s, p |-> p], d)
           IN  /\ r.lista = Saca(s, d)
               /\ r.p \in 0..(Len(s) - 1) \/ algoritmo # "CLOCK-M"
               /\ algoritmo # "CLOCK-M" => r.p = p
<1>1. PICK j \in 1..Len(s) : j = Lugar(s, d)
  BY LugarEs
<1>2. PICK n \in Nat : n = Len(s)
  OBVIOUS
<1>3. PICK r : r = Quita([lista |-> s, p |-> p], d)
  OBVIOUS
<1>4. r = [lista |-> Saca(s, d),
           p |-> IF algoritmo # "CLOCK-M" THEN p
                 ELSE IF j - 1 < p THEN p - 1
                 ELSE IF j - 1 = p /\ p >= n - 1 THEN 0 ELSE p]
  BY <1>1, <1>2, <1>3 DEF Quita
<1>5. r.lista = Saca(s, d)
  BY <1>4
<1>6. r.p = IF algoritmo # "CLOCK-M" THEN p
            ELSE IF j - 1 < p THEN p - 1
            ELSE IF j - 1 = p /\ p >= n - 1 THEN 0 ELSE p
  BY <1>4
<1>7. j \in 1..n /\ p \in 0..n
  BY <1>1, <1>2
<1>8. (IF j - 1 < p THEN p - 1 ELSE IF j - 1 = p /\ p >= n - 1 THEN 0 ELSE p) \in 0..(n - 1)
  BY <1>2, <1>7
<1> QED
  BY <1>2, <1>3, <1>5, <1>6, <1>8

\* The pages of t leave one after another.
LEMMA SinPaginasEs ==
    ASSUME NEW t, Len(tablas[t]) \in Nat
    PROVE  \E g : /\ g = [n \in 0..Len(tablas[t]) |->
                            IF n = 0 THEN [lista |-> fisicas, p |-> puntero]
                            ELSE Quita(g[n - 1], <<t, tablas[t][n]>>)]
                  /\ SinPaginas(t) = g[Len(tablas[t])]
<1>1. PICK N \in Nat : N = Len(tablas[t])
  OBVIOUS
<1> DEFINE e == [lista |-> fisicas, p |-> puntero]
           Es(g, n) == g = [i \in 0..n |->
                               IF i = 0 THEN e ELSE Quita(g[i - 1], <<t, tablas[t][i]>>)]
           V == {n \in 0..N : \E g : Es(g, n)}
<1>2. 0 \in V
  <2>1. Es([i \in 0..0 |-> e], 0)
    OBVIOUS
  <2>2. \E g : Es(g, 0)
    BY <2>1
  <2> QED
    BY <2>2
<1>3. ASSUME NEW n \in 0..(N - 1), n \in V PROVE n + 1 \in V
  <2>1. PICK g : Es(g, n)
    BY <1>3
  <2> HIDE DEF e
  <2> DEFINE h == [i \in 0..(n + 1) |-> IF i <= n THEN g[i]
                                        ELSE Quita(g[n], <<t, tablas[t][n + 1]>>)]
  <2>2. \A i \in 0..n : g[i] = IF i = 0 THEN e ELSE Quita(g[i - 1], <<t, tablas[t][i]>>)
    BY <2>1
  <2>3. \A i \in 0..(n + 1) : h[i] = IF i = 0 THEN e ELSE Quita(h[i - 1], <<t, tablas[t][i]>>)
    <3> TAKE i \in 0..(n + 1)
    <3>1. CASE i = 0
      <4>1. i \in 0..n /\ h[i] = g[i]
        BY <3>1
      <4>2. g[i] = e
        BY <2>2, <3>1, <4>1
      <4> HIDE DEF h
      <4> QED
        BY <3>1, <4>1, <4>2
    <3>2. CASE i \in 1..n
      <4>1. i - 1 \in 0..n /\ i \in 0..n /\ i # 0
        BY <3>2
      <4>2. h[i] = g[i] /\ h[i - 1] = g[i - 1]
        BY <4>1
      <4>3. g[i] = Quita(g[i - 1], <<t, tablas[t][i]>>)
        BY <2>2, <4>1
      <4> HIDE DEF h
      <4> QED
        BY <4>1, <4>2, <4>3
    <3>3. CASE i = n + 1
      <4>1. h[i - 1] = g[n] /\ h[i] = Quita(g[n], <<t, tablas[t][n + 1]>>) /\ i # 0
        BY <3>3
      <4> QED
        BY <3>3, <4>1
    <3> QED
      BY <3>1, <3>2, <3>3
  <2>4. Es(h, n + 1)
    BY <2>3
  <2>5. \E x : Es(x, n + 1)
    BY <2>4
  <2> QED
    BY <2>5
<1>4. N \in V
  <2> HIDE DEF V
  <2>1. \A n \in 0..(N - 1) : n \in V => n + 1 \in V
    BY <1>3
  <2>2. \A n \in 0..N : n \in V
    BY <1>2, <2>1, Todos
  <2> QED
    BY <2>2
<1>5. \E g : Es(g, N)
  BY <1>4
<1>6. PICK g : g = CHOOSE f : Es(f, N)
  OBVIOUS
<1>7. Es(g, N)
  BY <1>5, <1>6
<1>8. SinPaginas(t) = g[N]
  BY <1>1, <1>6 DEF SinPaginas
<1> QED
  BY <1>1, <1>7, <1>8

\* What physical_pages and the hand are when the first n pages of t have left.
Fuera(t, n, y) == \E i \in 1..n : y = <<t, tablas[t][i]>>
SinPrimeras(t, n, e) ==
    /\ e = [lista |-> e.lista, p |-> e.p]
    /\ e.lista \in Seq(Dir) /\ IsInjective(e.lista)
    /\ Len(e.lista) \in Nat /\ Len(e.lista) + n = Len(fisicas)
    /\ \A y : Esta(e.lista, y) <=> Esta(fisicas, y) /\ ~ Fuera(t, n, y)
    /\ \A y, z : Antes(e.lista, y, z) <=>
                   Antes(fisicas, y, z) /\ ~ Fuera(t, n, y) /\ ~ Fuera(t, n, z)
    /\ e.p \in 0..Len(e.lista) /\ (algoritmo # "CLOCK-M" => e.p = 0)

\* One more of them leaves.
LEMMA UnaMenos ==
    ASSUME Coherente, NEW t \in Tag, NEW n \in 0..(Len(tablas[t]) - 1), NEW e,
           SinPrimeras(t, n, e)
    PROVE  SinPrimeras(t, n + 1, Quita(e, <<t, tablas[t][n + 1]>>))
<1>1. /\ tablas[t] \in Seq(Numero) /\ IsInjective(tablas[t])
      /\ Concuerda(tablas[t], fisicas, t)
  BY DEF Coherente, ListasBien
<1>2. PICK N \in Nat : N = Len(tablas[t]) /\ DOMAIN tablas[t] = 1..N
  BY <1>1
<1>3. PICK d : d = <<t, tablas[t][n + 1]>>
  OBVIOUS
<1>4. n + 1 \in 1..N /\ n \in Nat /\ tablas[t][n + 1] \in Numero
  BY <1>1, <1>2
<1>5. Esta(fisicas, d)
  BY <1>1, <1>2, <1>3, <1>4 DEF Concuerda, Esta
<1>6. ~ Fuera(t, n, d)
  <2> SUFFICES ASSUME NEW i \in 1..n, d = <<t, tablas[t][i]>> PROVE FALSE
    BY DEF Fuera
  <2>1. i \in 1..N /\ i # n + 1 /\ tablas[t][i] = tablas[t][n + 1]
    BY <1>2, <1>3, <1>4
  <2> QED
    BY <1>1, <1>2, <1>4, <2>1 DEF IsInjective
<1>7. PICK s \in Seq(Dir), p \in Nat : s = e.lista /\ p = e.p
  BY DEF SinPrimeras
<1>8. /\ e = [lista |-> s, p |-> p] /\ p \in 0..Len(s) /\ IsInjective(s) /\ Esta(s, d)
      /\ Len(s) \in Nat /\ Len(s) + n = Len(fisicas)
      /\ (algoritmo # "CLOCK-M" => p = 0)
  BY <1>5, <1>6, <1>7 DEF SinPrimeras
<1>9. PICK r : r = Quita(e, d)
  OBVIOUS
<1>10. /\ r.lista = Saca(s, d)
       /\ r.p \in 0..(Len(s) - 1) \/ algoritmo # "CLOCK-M"
       /\ algoritmo # "CLOCK-M" => r.p = p
  BY <1>8, <1>9, QuitaEs
<1>11. PICK w \in Seq(Dir) : w = Saca(s, d)
  BY <1>8, SacaEs
<1>12. /\ Len(w) = Len(s) - 1 /\ Len(w) \in Nat /\ IsInjective(w)
       /\ \A y : Esta(w, y) <=> Esta(s, y) /\ y # d
       /\ \A y, z : Antes(w, y, z) <=> Antes(s, y, z) /\ y # d /\ z # d
  BY <1>8, <1>11, SacaEs
<1>13. \A y : Fuera(t, n + 1, y) <=> Fuera(t, n, y) \/ y = d
  <2> TAKE y
  <2>1. ASSUME Fuera(t, n + 1, y) PROVE Fuera(t, n, y) \/ y = d
    <3>1. PICK i \in 1..(n + 1) : y = <<t, tablas[t][i]>>
      BY <2>1 DEF Fuera
    <3>2. i \in 1..n \/ i = n + 1
      BY <1>4
    <3> QED
      BY <1>3, <3>1, <3>2 DEF Fuera
  <2>2. 1..n \subseteq 1..(n + 1) /\ n + 1 \in 1..(n + 1)
    BY <1>4
  <2> QED
    BY <1>3, <2>1, <2>2 DEF Fuera
<1>14. /\ \A y : Esta(w, y) <=> Esta(fisicas, y) /\ ~ Fuera(t, n + 1, y)
       /\ \A y, z : Antes(w, y, z) <=>
                   Antes(fisicas, y, z) /\ ~ Fuera(t, n + 1, y) /\ ~ Fuera(t, n + 1, z)
  BY <1>7, <1>12, <1>13 DEF SinPrimeras
<1>15. Len(w) + (n + 1) = Len(fisicas)
  <2>1. PICK ls \in Nat, lw \in Nat : ls = Len(s) /\ lw = Len(w)
    BY <1>8, <1>12
  <2>2. lw = ls - 1 /\ ls + n = Len(fisicas)
    BY <1>8, <1>12, <2>1
  <2>3. lw + (n + 1) = ls + n
    BY <1>4, <2>1, <2>2
  <2> QED
    BY <2>1, <2>2, <2>3
<1>16. r.p \in 0..Len(w) /\ (algoritmo # "CLOCK-M" => r.p = 0)
  BY <1>8, <1>10, <1>12
<1>17. r = [lista |-> r.lista, p |-> r.p]
  BY <1>9 DEF Quita
<1> QED
  BY <1>3, <1>9, <1>10, <1>11, <1>12, <1>14, <1>15, <1>16, <1>17 DEF SinPrimeras

\* All of them leave: the other pages stay as they were.
LEMMA SinPaginasBien ==
    ASSUME Coherente, NEW t \in Tag
    PROVE  SinPrimeras(t, Len(tablas[t]), SinPaginas(t))
<1>1. tablas[t] \in Seq(Numero)
  BY DEF Coherente, ListasBien
<1>2. PICK N \in Nat : N = Len(tablas[t])
  BY <1>1
<1>3. PICK g : /\ g = [n \in 0..N |-> IF n = 0 THEN [lista |-> fisicas, p |-> puntero]
                                      ELSE Quita(g[n - 1], <<t, tablas[t][n]>>)]
               /\ SinPaginas(t) = g[N]
  BY <1>2, SinPaginasEs
<1> DEFINE V == {n \in 0..N : SinPrimeras(t, n, g[n])}
<1>4. 0 \in V
  <2>1. PICK e : e = g[0]
    OBVIOUS
  <2>2. e = [lista |-> fisicas, p |-> puntero]
    BY <1>3, <2>1
  <2>3. e.lista = fisicas /\ e.p = puntero
    BY <2>2
  <2>4. /\ fisicas \in Seq(Dir) /\ IsInjective(fisicas) /\ Len(fisicas) \in Nat
        /\ puntero \in 0..Len(fisicas) /\ (algoritmo # "CLOCK-M" => puntero = 0)
    BY DEF Coherente, ListasBien, MarcosBien
  <2>5. \A y : ~ Fuera(t, 0, y)
    BY DEF Fuera
  <2>6. SinPrimeras(t, 0, e)
    BY <2>2, <2>3, <2>4, <2>5 DEF SinPrimeras
  <2> QED
    BY <2>1, <2>6
<1>5. ASSUME NEW n \in 0..(N - 1), n \in V PROVE n + 1 \in V
  <2>1. n + 1 \in 0..N /\ n + 1 # 0 /\ (n + 1) - 1 = n
    OBVIOUS
  <2>2. g[n + 1] = Quita(g[(n + 1) - 1], <<t, tablas[t][n + 1]>>)
    BY <1>3, <2>1
  <2>3. SinPrimeras(t, n + 1, Quita(g[n], <<t, tablas[t][n + 1]>>))
    BY <1>2, <1>5, UnaMenos
  <2> QED
    BY <2>1, <2>2, <2>3
<1>6. N \in V
  <2> HIDE DEF V
  <2>1. \A n \in 0..(N - 1) : n \in V => n + 1 \in V
    BY <1>5
  <2>2. \A n \in 0..N : n \in V
    BY <1>4, <2>1, Todos
  <2> QED
    BY <2>2
<1> QED
  BY <1>2, <1>3, <1>6

-----------------------------------------------------------------------------
(* Frames.                                                                 *)

\* What the constants and the types give.
LEMMA Basico ==
    ASSUME Coherente
    PROVE  /\ total_pages \in Nat \ {0} /\ MaxBloques \in Nat /\ MaxEdad \in Nat /\ Cero \in Valor
           /\ Len(fisicas) \in Nat /\ DOMAIN fisicas = 1..Len(fisicas) /\ EnMemoria \subseteq Dir
           /\ \A i \in 1..Len(fisicas) : fisicas[i] \in EnMemoria
           /\ \A d \in EnMemoria : \E i \in 1..Len(fisicas) : fisicas[i] = d
           /\ algoritmo \in {"LRU", "CLOCK-M"}
<1>1. algoritmo \in Algoritmos /\ fisicas \in Seq(Dir)
  BY DEF Coherente, ControlBien, ListasBien
<1>2. total_pages \in Nat \ {0}
  BY <1>1, MemoriaAssumption DEF MemoriaAssumption, total_pages
<1>3. /\ MaxBloques \in Nat /\ MaxEdad \in Nat /\ Cero \in Valor
      /\ algoritmo \in {"LRU", "CLOCK-M"}
  BY <1>1, MemoriaAssumption DEF MemoriaAssumption
<1>4. Len(fisicas) \in Nat /\ DOMAIN fisicas = 1..Len(fisicas)
  BY <1>1
<1>5. EnMemoria = {fisicas[i] : i \in 1..Len(fisicas)}
  BY <1>4 DEF EnMemoria, ToSet
<1>6. \A i \in 1..Len(fisicas) : fisicas[i] \in Dir
  BY <1>1
<1> QED
  BY <1>2, <1>3, <1>4, <1>5, <1>6

\* There are as many frames in use as pages.
LEMMA Contados ==
    ASSUME Coherente
    PROVE  IsFiniteSet(frame_table) /\ Cardinality(frame_table) = Len(fisicas)
<1>1. PICK N \in Nat : N = Len(fisicas) /\ DOMAIN fisicas = 1..N
  BY Basico
<1> DEFINE f == [i \in 1..N |-> pagina[fisicas[i]].marco]
<1>2. /\ frame_table = {pagina[d].marco : d \in EnMemoria}
      /\ \A d, e \in EnMemoria : pagina[d].marco = pagina[e].marco => d = e
      /\ \A i \in 1..N : fisicas[i] \in EnMemoria
      /\ \A d \in EnMemoria : \E i \in 1..N : fisicas[i] = d
      /\ \A i, j \in 1..N : fisicas[i] = fisicas[j] => i = j
  BY <1>1, Basico DEF Coherente, MarcosBien, ListasBien, IsInjective
<1>3. f \in [1..N -> frame_table] /\ DOMAIN f = 1..N
  BY <1>2
<1>4. \A i, j \in 1..N : f[i] = f[j] => i = j
  BY <1>2
<1>5. \A m \in frame_table : \E i \in 1..N : f[i] = m
  BY <1>2
<1> HIDE DEF f
<1>6. f \in Bijection(1..N, frame_table)
  BY <1>3, <1>4, <1>5 DEF Bijection, Injection, Surjection, IsInjective
<1>7. ExistsBijection(1..N, frame_table)
  BY <1>6 DEF ExistsBijection
<1>8. IsFiniteSet(1..N) /\ Cardinality(1..N) = N
  <2>1. 1 \in Int /\ N \in Int
    OBVIOUS
  <2>2. IsFiniteSet(1..N) /\ Cardinality(1..N) = IF 1 > N THEN 0 ELSE N - 1 + 1
    BY <2>1, FS_Interval
  <2> QED
    BY <2>2
<1> QED
  BY <1>1, <1>7, <1>8, FS_Bijection

\* There is a free frame while the memory is not full.
LEMMA MarcoLibreBien ==
    ASSUME Coherente, usadas < total_pages
    PROVE  MarcoLibre \in (0..(total_pages - 1)) \ frame_table
<1>1. PICK M \in Nat \ {0} : M = total_pages
  BY Basico
<1> DEFINE L == (0..(M - 1)) \ frame_table
<1>2. L # {}
  <2> SUFFICES ASSUME (0..(M - 1)) \subseteq frame_table PROVE FALSE
    OBVIOUS
  <2>1. IsFiniteSet(frame_table) /\ Cardinality(frame_table) = usadas
    BY Contados DEF Coherente, MarcosBien
  <2>2. 0 \in Int /\ M - 1 \in Int
    OBVIOUS
  <2>3. Cardinality(0..(M - 1)) = IF 0 > M - 1 THEN 0 ELSE (M - 1) - 0 + 1
    BY <2>2, FS_Interval
  <2>4. Cardinality(0..(M - 1)) = M
    BY <2>3
  <2>5. Cardinality(0..(M - 1)) <= Cardinality(frame_table)
    BY <2>1, FS_Subset
  <2>6. M <= usadas
    BY <2>1, <2>4, <2>5
  <2>7. usadas \in Nat
    BY Basico DEF Coherente, MarcosBien
  <2> QED
    BY <1>1, <2>6, <2>7
<1>3. IsWellFoundedOn(OpToRel(<, Nat), Nat)
  BY NatLessThanWellFounded
<1>4. L \subseteq Nat
  OBVIOUS
<1>5. PICK m \in L : \A k \in L : ~ (<<k, m>> \in OpToRel(<, Nat))
  BY <1>2, <1>3, <1>4, WFMin
<1>6. \A k \in L : m <= k
  <2> TAKE k \in L
  <2>1. k \in Nat /\ m \in Nat
    BY <1>4
  <2>2. ~ (k < m)
    BY <1>5, <2>1 DEF OpToRel
  <2> QED
    BY <2>1, <2>2
<1>7. \E n \in L : \A k \in L : n <= k
  BY <1>6
<1> QED
  BY <1>1, <1>7 DEF MarcoLibre

\* Nothing moves, whatever the contents and the bits of the pages become.
LEMMA MarcosIgual ==
    ASSUME Coherente, pagina' \in [Dir -> Pagina],
           \A d \in EnMemoria : pagina'[d].marco = pagina[d].marco,
           UNCHANGED <<algoritmo, tablas, fisicas, frame_table, usadas, puntero>>
    PROVE  ListasBien' /\ MarcosBien'
<1>1. ListasBien'
  BY DEF Coherente, ListasBien
<1>2. Pagina' = Pagina /\ EnMemoria' = EnMemoria /\ total_pages' = total_pages
  BY DEF Pagina, EnMemoria, total_pages
<1>3. {pagina'[d].marco : d \in EnMemoria} = {pagina[d].marco : d \in EnMemoria}
  OBVIOUS
<1>4. \A d, e \in EnMemoria : pagina'[d].marco = pagina'[e].marco => d = e
  BY DEF Coherente, MarcosBien
<1>5. frame_table' = {pagina'[d].marco : d \in EnMemoria'}
  BY <1>2, <1>3 DEF Coherente, MarcosBien
<1>6. /\ usadas' = Len(fisicas') /\ usadas' <= total_pages'
      /\ puntero' \in 0..Len(fisicas') /\ (algoritmo' # "CLOCK-M" => puntero' = 0)
  BY <1>2 DEF Coherente, MarcosBien
<1>7. MarcosBien'
  BY <1>2, <1>4, <1>5, <1>6 DEF MarcosBien
<1> QED
  BY <1>1, <1>7

\* Writing pages to Storage: the same blocks, with what those pages hold.
Registro == [fase : {"no", "wip", "commit"}, bloques : Seq(Valor)]
Grabado(dd, S) ==
    /\ dd \in [Tag -> Registro]
    /\ \A t \in Tag : /\ Len(dd[t].bloques) = Len(disco[t].bloques)
                      /\ dd[t].fase = "no" <=> disco[t].fase = "no"
                      /\ \A i \in 1..Len(disco[t].bloques) :
                            dd[t].bloques[i] = IF <<t, i - 1>> \in S
                                               THEN pagina[<<t, i - 1>>].contenido
                                               ELSE disco[t].bloques[i]

\* The types of a file:tag in Storage.
LEMMA DiscoEs ==
    ASSUME Coherente, NEW t \in Tag
    PROVE  /\ disco[t].fase \in {"no", "wip", "commit"} /\ disco[t].bloques \in Seq(Valor)
           /\ Len(disco[t].bloques) \in 0..MaxBloques
           /\ DOMAIN disco[t].bloques = 1..Len(disco[t].bloques)
           /\ disco[t].fase = "no" => disco[t].bloques = <<>>
           /\ \A i \in 1..Len(disco[t].bloques) :
                 /\ <<t, i - 1>> \in Dir /\ disco[t].bloques[i] \in Valor
                 /\ pagina[<<t, i - 1>>] \in Pagina
<1>1. disco \in [Tag -> Registro] /\ Len(disco[t].bloques) <= MaxBloques
  BY DEF Coherente, DiscoBien, Registro
<1>2. /\ disco[t].fase \in {"no", "wip", "commit"} /\ disco[t].bloques \in Seq(Valor)
  BY <1>1 DEF Registro
<1>3. /\ Len(disco[t].bloques) \in Nat /\ DOMAIN disco[t].bloques = 1..Len(disco[t].bloques)
      /\ \A i \in 1..Len(disco[t].bloques) : disco[t].bloques[i] \in Valor
  BY <1>2
<1>4. PICK N \in Nat : N = Len(disco[t].bloques) /\ N <= MaxBloques /\ MaxBloques \in Nat
  BY <1>1, <1>3, Basico
<1>5. \A i \in 1..N : i - 1 \in 0..(MaxBloques - 1)
  BY <1>4
<1>6. \A i \in 1..N : <<t, i - 1>> \in Dir
  BY <1>5 DEF Dir
<1>7. \A i \in 1..N : pagina[<<t, i - 1>>] \in Pagina
  BY <1>6 DEF Coherente, MarcosBien
<1>8. disco[t].fase = "no" => disco[t].bloques = <<>>
  BY DEF Coherente, DiscoBien, Existe
<1> QED
  BY <1>2, <1>3, <1>4, <1>6, <1>7, <1>8

\* A file:tag in Storage is a record of its phase and blocks.
LEMMA DiscoRegistro ==
    ASSUME Coherente, NEW t \in Tag
    PROVE  disco[t] = [fase |-> disco[t].fase, bloques |-> disco[t].bloques]
<1>1. disco[t] \in Registro
  BY DEF Coherente, DiscoBien, Registro
<1> QED
  BY <1>1 DEF Registro

\* enviar_write_block_storage for each page of S.
Nuevos(t, S) == [i \in DOMAIN disco[t].bloques |->
                    IF <<t, i - 1>> \in S THEN pagina[<<t, i - 1>>].contenido
                    ELSE disco[t].bloques[i]]

\* It is what Grabado says.
LEMMA EscritosEs ==
    ASSUME Coherente, NEW S
    PROVE  /\ Grabado(Escritos(S), S)
           /\ \A t \in Tag : Escritos(S)[t].fase = disco[t].fase
<1>1. PICK dd : dd = Escritos(S)
  OBVIOUS
<1>2. dd = [t \in Tag |-> [disco[t] EXCEPT !.bloques = Nuevos(t, S)]]
  BY <1>1 DEF Escritos, Nuevos
<1>3. ASSUME NEW t \in Tag
      PROVE  /\ dd[t] \in Registro /\ dd[t].fase = disco[t].fase
             /\ dd[t].bloques = Nuevos(t, S)
             /\ Nuevos(t, S) \in Seq(Valor) /\ Len(Nuevos(t, S)) = Len(disco[t].bloques)
             /\ \A i \in 1..Len(disco[t].bloques) :
                   Nuevos(t, S)[i] = IF <<t, i - 1>> \in S THEN pagina[<<t, i - 1>>].contenido
                                  ELSE disco[t].bloques[i]
    <2>1. PICK N \in Nat : N = Len(disco[t].bloques) /\ DOMAIN disco[t].bloques = 1..N
      BY Basico, DiscoEs
    <2>2. \A i \in 1..N : Nuevos(t, S)[i] \in Valor
      <3> TAKE i \in 1..N
      <3>1. disco[t].bloques[i] \in Valor /\ pagina[<<t, i - 1>>].contenido \in Valor
        BY <2>1, DiscoEs DEF Pagina
      <3> QED
        BY <2>1, <3>1 DEF Nuevos
    <2>3. Nuevos(t, S) \in [1..N -> Valor]
      BY <2>1, <2>2 DEF Nuevos
    <2>4. Nuevos(t, S) \in Seq(Valor) /\ Len(Nuevos(t, S)) = N
      <3> QED
        BY <2>1, <2>3
    <2>5. dd[t] = [disco[t] EXCEPT !.bloques = Nuevos(t, S)]
      BY <1>2
    <2>6. disco[t] = [fase |-> disco[t].fase, bloques |-> disco[t].bloques]
      BY DiscoRegistro
    <2>7. dd[t] = [fase |-> disco[t].fase, bloques |-> Nuevos(t, S)]
      <3> QED
        BY <2>5, <2>6
    <2>8. \A i \in 1..N :
             Nuevos(t, S)[i] = IF <<t, i - 1>> \in S THEN pagina[<<t, i - 1>>].contenido
                               ELSE disco[t].bloques[i]
      BY <2>1 DEF Nuevos
    <2>9. /\ dd[t] \in Registro /\ dd[t].fase = disco[t].fase
          /\ dd[t].bloques = Nuevos(t, S)
      BY <2>4, <2>7, DiscoEs DEF Registro
    <2> QED
      BY <2>1, <2>4, <2>8, <2>9
<1>4. \A t \in Tag : dd[t] \in Registro /\ dd[t].fase = disco[t].fase
  BY <1>3
<1>5. dd \in [Tag -> Registro]
  BY <1>2, <1>4
<1>6. ASSUME NEW t \in Tag
      PROVE  /\ Len(dd[t].bloques) = Len(disco[t].bloques)
             /\ \A i \in 1..Len(disco[t].bloques) :
                   dd[t].bloques[i] = IF <<t, i - 1>> \in S THEN pagina[<<t, i - 1>>].contenido
                                      ELSE disco[t].bloques[i]
  <2>1. dd[t].bloques = Nuevos(t, S)
    BY <1>3
  <2> QED
    BY <1>3, <2>1
<1>7. Grabado(dd, S)
  BY <1>4, <1>5, <1>6 DEF Grabado
<1> QED
  BY <1>1, <1>4, <1>7

\* A page and its block.
LEMMA DirEs ==
    ASSUME Coherente, NEW d \in Dir
    PROVE  /\ d = <<d[1], d[2]>> /\ d[1] \in Tag /\ d[2] \in Numero /\ d[2] \in Nat
           /\ (d[2] + 1) - 1 = d[2] /\ <<d[1], (d[2] + 1) - 1>> = d
           /\ TieneBloque(d) <=> d[2] + 1 \in 1..Len(disco[d[1]].bloques)
<1>1. d = <<d[1], d[2]>> /\ d[1] \in Tag /\ d[2] \in Numero
  BY DEF Dir, Numero
<1>2. d[2] \in Nat /\ (d[2] + 1) - 1 = d[2]
  BY <1>1, Basico DEF Numero
<1>3. PICK N \in Nat : N = Len(disco[d[1]].bloques)
  BY <1>1, Basico, DiscoEs
<1>4. TieneBloque(d) <=> d[2] + 1 \in 1..N
  BY <1>2, <1>3 DEF TieneBloque
<1> QED
  BY <1>1, <1>2, <1>3, <1>4

\* What is in Storage keeps its types when blocks are written.
LEMMA DiscoGrabado ==
    ASSUME Coherente, NEW S, Grabado(disco', S), UNCHANGED hayFile
    PROVE  DiscoBien'
<1>1. /\ disco' \in [Tag -> Registro]
      /\ \A t \in Tag : /\ Len(disco'[t].bloques) = Len(disco[t].bloques)
                        /\ disco'[t].fase = "no" <=> disco[t].fase = "no"
  BY DEF Grabado
<1>2. ASSUME NEW t \in Tag
      PROVE  /\ Len(disco'[t].bloques) <= MaxBloques
             /\ disco'[t].fase = "no" => disco'[t].bloques = <<>>
  <2>1. Len(disco'[t].bloques) <= MaxBloques
    BY <1>1, Basico, DiscoEs
  <2>2. ASSUME disco'[t].fase = "no" PROVE disco'[t].bloques = <<>>
    <3>1. disco[t].bloques = <<>>
      BY <1>1, <2>2, DiscoEs
    <3>2. Len(disco[t].bloques) = 0
      BY <3>1
    <3>3. Len(disco'[t].bloques) = 0
      BY <1>1, <3>2
    <3>4. disco'[t].bloques \in Seq(Valor)
      BY <1>1 DEF Registro
    <3> QED
      BY <3>3, <3>4
  <2> QED
    BY <2>1, <2>2
<1>3. hayFile' \in BOOLEAN
  BY DEF Coherente, DiscoBien
<1> QED
  BY <1>1, <1>2, <1>3 DEF DiscoBien, Existe, Registro

\* The pages of S reach Storage and are no longer modified.
Vuelco(S) ==
    /\ Grabado(disco', S)
    /\ pagina' \in [Dir -> Pagina]
    /\ \A d \in EnMemoria : /\ pagina'[d].contenido = pagina[d].contenido
                            /\ pagina'[d].marco = pagina[d].marco
                            /\ pagina'[d].modificada <=> pagina[d].modificada /\ d \notin S
    /\ UNCHANGED <<algoritmo, tablas, fisicas, frame_table, usadas, puntero, hayFile>>

\* It keeps what is known of the memory and of Storage.
LEMMA VuelcoBien ==
    ASSUME Coherente, LimpiaIgualDisco, NEW S \in SUBSET EnMemoria,
           \A d \in S : TieneBloque(d), Vuelco(S)
    PROVE  ListasBien' /\ MarcosBien' /\ DiscoBien' /\ LimpiaIgualDisco'
<1>1. ListasBien' /\ MarcosBien'
  BY MarcosIgual DEF Vuelco
<1>2. DiscoBien'
  BY DiscoGrabado DEF Vuelco
<1>3. EnMemoria' = EnMemoria
  BY DEF Vuelco, EnMemoria
<1>4. ASSUME NEW d \in EnMemoria, ~ pagina'[d].modificada
      PROVE  TieneBloque(d)' /\ pagina'[d].contenido = disco'[d[1]].bloques[d[2] + 1]
  <2>1. d \in Dir
    BY Basico
  <2>2. /\ d[1] \in Tag /\ <<d[1], (d[2] + 1) - 1>> = d
        /\ TieneBloque(d) <=> d[2] + 1 \in 1..Len(disco[d[1]].bloques)
    BY <2>1, DirEs
  <2>3. pagina'[d].contenido = pagina[d].contenido /\ (~ pagina[d].modificada \/ d \in S)
    BY <1>4 DEF Vuelco
  <2>4. TieneBloque(d) /\ (d \notin S => pagina[d].contenido = disco[d[1]].bloques[d[2] + 1])
    BY <2>3 DEF LimpiaIgualDisco, Sucias
  <2>5. PICK i \in 1..Len(disco[d[1]].bloques) : i = d[2] + 1 /\ <<d[1], i - 1>> = d
    BY <2>2, <2>4
  <2>6. disco'[d[1]].bloques[i] = IF d \in S THEN pagina[d].contenido
                                  ELSE disco[d[1]].bloques[i]
    BY <2>2, <2>5 DEF Vuelco, Grabado
  <2>7. Len(disco'[d[1]].bloques) = Len(disco[d[1]].bloques)
    BY <2>2 DEF Vuelco, Grabado
  <2>8. TieneBloque(d)'
    BY <2>4, <2>7 DEF TieneBloque
  <2> QED
    BY <2>3, <2>4, <2>5, <2>6, <2>8
<1>5. LimpiaIgualDisco'
  BY <1>3, <1>4 DEF LimpiaIgualDisco, Sucias
<1> QED
  BY <1>1, <1>2, <1>5

\* Pages of S that are no longer modified.
LEMMA LimpiadasEs ==
    ASSUME Coherente, NEW S
    PROVE  /\ Limpiadas(S) \in [Dir -> Pagina]
           /\ \A d \in EnMemoria :
                 /\ Limpiadas(S)[d].contenido = pagina[d].contenido
                 /\ Limpiadas(S)[d].marco = pagina[d].marco
                 /\ Limpiadas(S)[d].modificada <=> pagina[d].modificada /\ d \notin S
<1>1. pagina \in [Dir -> Pagina]
  BY DEF Coherente, MarcosBien
<1>2. PICK f : f = Limpiadas(S)
  OBVIOUS
<1>3. f = [d \in Dir |-> IF d \in S THEN [pagina[d] EXCEPT !.modificada = FALSE] ELSE pagina[d]]
  BY <1>2 DEF Limpiadas
<1>4. ASSUME NEW d \in Dir
      PROVE  /\ f[d] \in Pagina /\ f[d].contenido = pagina[d].contenido
             /\ f[d].marco = pagina[d].marco
             /\ f[d].modificada <=> pagina[d].modificada /\ d \notin S
  <2>1. PICK q \in Pagina : q = pagina[d]
    BY <1>1
  <2>2. f[d] = IF d \in S THEN [q EXCEPT !.modificada = FALSE] ELSE q
    BY <1>3, <2>1
  <2>3. PICK r : r = [q EXCEPT !.modificada = FALSE]
    OBVIOUS
  <2>4. r \in Pagina /\ r.contenido = q.contenido /\ r.marco = q.marco /\ ~ r.modificada
    BY <2>3 DEF Pagina
  <2>5. f[d] = IF d \in S THEN r ELSE q
    BY <2>2, <2>3
  <2> QED
    BY <2>1, <2>4, <2>5
<1>5. f \in [Dir -> Pagina]
  BY <1>3, <1>4
<1> QED
  BY <1>2, <1>4, <1>5, Basico

-----------------------------------------------------------------------------
(* The steps, by what they change.                                         *)

Seguro == Coherente /\ LimpiaIgualDisco
Datos == ListasBien /\ MarcosBien /\ DiscoBien /\ LimpiaIgualDisco

\* The memory and Storage stay as they were.
LEMMA Quieto ==
    ASSUME Seguro, UNCHANGED <<algoritmo, memoria, almacen>>
    PROVE  Datos'
<1>1. ListasBien'
  BY DEF Seguro, Coherente, ListasBien, memoria
<1>2. MarcosBien'
  BY DEF Seguro, Coherente, MarcosBien, memoria, EnMemoria, Pagina, total_pages
<1>3. DiscoBien'
  BY DEF Seguro, Coherente, DiscoBien, almacen, Existe
<1>4. LimpiaIgualDisco'
  BY DEF Seguro, LimpiaIgualDisco, memoria, almacen, EnMemoria, Sucias, TieneBloque
<1> QED
  BY <1>1, <1>2, <1>3, <1>4 DEF Datos

\* Pages are touched: one that is not modified after it holds what it held.
LEMMA Toques ==
    ASSUME Seguro, pagina' \in [Dir -> Pagina],
           \A d \in EnMemoria :
              /\ pagina'[d].marco = pagina[d].marco
              /\ ~ pagina'[d].modificada =>
                    ~ pagina[d].modificada /\ pagina'[d].contenido = pagina[d].contenido,
           UNCHANGED <<algoritmo, tablas, fisicas, frame_table, usadas, puntero, almacen>>
    PROVE  Datos'
<1>1. ListasBien' /\ MarcosBien'
  BY MarcosIgual DEF Seguro
<1>2. DiscoBien'
  BY DEF Seguro, Coherente, DiscoBien, almacen, Existe
<1>3. EnMemoria' = EnMemoria /\ disco' = disco
  BY DEF EnMemoria, almacen
<1>4. \A d \in EnMemoria : ~ pagina'[d].modificada =>
         TieneBloque(d)' /\ pagina'[d].contenido = disco'[d[1]].bloques[d[2] + 1]
  BY <1>3 DEF Seguro, LimpiaIgualDisco, Sucias, TieneBloque
<1>5. LimpiaIgualDisco'
  BY <1>3, <1>4 DEF LimpiaIgualDisco, Sucias
<1> QED
  BY <1>1, <1>2, <1>5 DEF Datos

\* Storage changes by itself: what it had it still has.
LEMMA Creces ==
    ASSUME Seguro, disco' \in [Tag -> Registro], hayFile' \in BOOLEAN,
           \A t \in Tag :
              /\ Len(disco'[t].bloques) <= MaxBloques
              /\ disco'[t].fase = "no" => disco'[t].bloques = <<>>
              /\ Len(disco[t].bloques) <= Len(disco'[t].bloques)
              /\ \A i \in 1..Len(disco[t].bloques) :
                    disco'[t].bloques[i] = disco[t].bloques[i],
           UNCHANGED <<algoritmo, memoria>>
    PROVE  Datos'
<1>1. ListasBien'
  BY DEF Seguro, Coherente, ListasBien, memoria
<1>2. MarcosBien'
  BY DEF Seguro, Coherente, MarcosBien, memoria, EnMemoria, Pagina, total_pages
<1>3. DiscoBien'
  BY DEF DiscoBien, Existe, Registro
<1>4. EnMemoria' = EnMemoria /\ pagina' = pagina
  BY DEF EnMemoria, memoria
<1>5. ASSUME NEW d \in EnMemoria, ~ pagina[d].modificada
      PROVE  TieneBloque(d)' /\ pagina[d].contenido = disco'[d[1]].bloques[d[2] + 1]
  <2>1. TieneBloque(d) /\ pagina[d].contenido = disco[d[1]].bloques[d[2] + 1]
    BY <1>5 DEF Seguro, LimpiaIgualDisco, Sucias
  <2>2. d \in Dir
    BY Basico DEF Seguro
  <2>3. d[1] \in Tag /\ d[2] \in Nat /\ d[2] + 1 \in 1..Len(disco[d[1]].bloques)
    BY <2>1, <2>2, DirEs DEF Seguro
  <2>4. disco'[d[1]].bloques[d[2] + 1] = disco[d[1]].bloques[d[2] + 1]
    BY <2>3
  <2>5. PICK n \in Nat, m \in Nat : n = Len(disco[d[1]].bloques) /\ m = Len(disco'[d[1]].bloques)
    BY <2>3 DEF Registro, Seguro, Coherente, DiscoBien
  <2>6. n <= m /\ d[2] < n
    BY <2>1, <2>3, <2>5 DEF TieneBloque
  <2>7. d[2] < m
    BY <2>3, <2>5, <2>6
  <2>8. TieneBloque(d)'
    BY <2>5, <2>7 DEF TieneBloque
  <2> QED
    BY <2>1, <2>4, <2>8
<1>6. LimpiaIgualDisco'
  BY <1>4, <1>5 DEF LimpiaIgualDisco, Sucias
<1> QED
  BY <1>1, <1>2, <1>3, <1>6 DEF Datos

\* A page that is touched.
LEMMA TocadaEs ==
    ASSUME Coherente, NEW q \in Pagina
    PROVE  /\ Tocada(q) \in Pagina /\ Tocada(q).contenido = q.contenido
           /\ Tocada(q).modificada = q.modificada /\ Tocada(q).marco = q.marco
<1>1. 0 \in 0..MaxEdad
  BY Basico
<1>2. PICK u \in {0, 1} : u = IF algoritmo = "CLOCK-M" THEN 1 ELSE q.uso
  BY DEF Pagina
<1>3. PICK r : r = [q EXCEPT !.edad = 0]
  OBVIOUS
<1>4. /\ r \in Pagina /\ r.contenido = q.contenido /\ r.uso = q.uso
      /\ r.modificada = q.modificada /\ r.marco = q.marco
  BY <1>1, <1>3 DEF Pagina
<1>5. PICK s : s = [r EXCEPT !.uso = u]
  OBVIOUS
<1>6. /\ s \in Pagina /\ s.contenido = q.contenido
      /\ s.modificada = q.modificada /\ s.marco = q.marco
  BY <1>4, <1>5 DEF Pagina
<1>7. Tocada(q) = s
  BY <1>2, <1>3, <1>4, <1>5 DEF Tocada, Pagina
<1> QED
  BY <1>6, <1>7

\* The instruction under way.
LEMMA InstrEs ==
    ASSUME Coherente, instr # Nada
    PROVE  /\ instr \in Acceso /\ instr.tag \in Tag /\ instr.num \in Numero
           /\ Actual \in Dir /\ Actual[1] = instr.tag /\ Actual[2] = instr.num
           /\ instr.valor \in Valor /\ instr.num <= instr.ultima
           /\ pagina[Actual] \in Pagina
<1>1. instr \in Acceso /\ instr.num <= instr.ultima
  BY DEF Coherente, ControlBien
<1>2. Actual \in Dir
  BY <1>1 DEF Actual, Dir, Acceso
<1>3. pagina[Actual] \in Pagina
  BY <1>2 DEF Coherente, MarcosBien
<1> QED
  BY <1>1, <1>2, <1>3 DEF Acceso, Numero, Actual

\* The page has been obtained.
LEMMA ObtenidaBien ==
    ASSUME Coherente, instr # Nada, Obtenida, UNCHANGED <<algoritmo, query>>,
           fallo' \in BOOLEAN
    PROVE  ControlBien'
<1>1. instr \in Acceso /\ instr.num <= instr.ultima
  BY InstrEs
<1>2. instr' \in Acceso /\ instr'.num = instr.num /\ instr'.ultima = instr.ultima
  BY <1>1 DEF Obtenida, Acceso
<1> QED
  BY <1>1, <1>2 DEF Coherente, ControlBien

\* The query ends, or nothing happens to it.
LEMMA TerminaBien ==
    ASSUME Coherente, UNCHANGED algoritmo,
           \/ Sigue \/ TerminaConError
           \/ query' = "ninguna" /\ fallo' = FALSE /\ UNCHANGED instr
    PROVE  ControlBien'
<1>1. CASE Sigue
  BY <1>1 DEF Coherente, ControlBien, Sigue
<1>2. CASE TerminaConError
  BY <1>2 DEF Coherente, ControlBien, TerminaConError
<1>3. CASE query' = "ninguna" /\ fallo' = FALSE /\ UNCHANGED instr
  BY <1>3 DEF Coherente, ControlBien
<1> QED
  BY <1>1, <1>2, <1>3

-----------------------------------------------------------------------------
(* The steps, one by one.                                                  *)

\* Iniciar, Terminar.
LEMMA PasoQuery ==
    ASSUME Seguro, Iniciar \/ Terminar
    PROVE  Seguro'
<1>1. Datos'
  <2>1. UNCHANGED <<algoritmo, memoria, almacen>>
    BY DEF Iniciar, Terminar
  <2> QED
    BY <2>1, Quieto
<1>2. ControlBien'
  <2>1. CASE Iniciar
    BY <2>1 DEF Seguro, Coherente, ControlBien, Iniciar
  <2>2. CASE Terminar
    BY <2>2, TerminaBien DEF Seguro, Terminar
  <2> QED
    BY <2>1, <2>2
<1> QED
  BY <1>1, <1>2 DEF Seguro, Coherente, Datos

\* Empezar.
LEMMA PasoEmpezar ==
    ASSUME Seguro, NEW op \in {"READ", "WRITE"}, NEW t \in Tag, NEW i \in Numero,
           NEW j \in Numero, NEW v \in Valor, Empezar(op, t, i, j, v)
    PROVE  Seguro'
<1>1. Datos'
  BY Quieto DEF Empezar
<1>2. i <= j
  BY Basico, MemoriaAssumption DEF Empezar, Seguro, MemoriaAssumption, Numero
<1>3. instr' = [op |-> op, tag |-> t, num |-> i, ultima |-> j, valor |-> v, paso |-> "obtener"]
  BY DEF Empezar
<1>4. instr' \in Acceso /\ instr'.num <= instr'.ultima
  BY <1>2, <1>3 DEF Acceso, Numero
<1>5. ControlBien'
  BY <1>4 DEF Seguro, Coherente, ControlBien, Empezar
<1> QED
  BY <1>1, <1>5 DEF Seguro, Coherente, Datos

\* FallaLectura.
LEMMA PasoFallaLectura ==
    ASSUME Seguro, FallaLectura
    PROVE  Seguro'
<1>1. Datos'
  BY Quieto DEF FallaLectura
<1>2. ControlBien'
  BY TerminaBien DEF FallaLectura, Seguro
<1> QED
  BY <1>1, <1>2 DEF Seguro, Coherente, Datos

\* Acierto.
LEMMA PasoAcierto ==
    ASSUME Seguro, Acierto
    PROVE  Seguro'
<1>1. Actual \in Dir /\ pagina[Actual] \in Pagina /\ pagina \in [Dir -> Pagina]
  BY InstrEs DEF Acierto, Pide, Seguro, Coherente, MarcosBien
<1>2. PICK a \in Dir, r \in Pagina : a = Actual /\ r = Tocada(pagina[Actual])
  BY <1>1, TocadaEs DEF Seguro
<1>3. pagina' = [pagina EXCEPT ![a] = r]
  BY <1>2 DEF Acierto
<1>4. /\ r.contenido = pagina[a].contenido /\ r.marco = pagina[a].marco
      /\ r.modificada = pagina[a].modificada
  BY <1>1, <1>2, TocadaEs DEF Seguro
<1>5. pagina' \in [Dir -> Pagina]
  BY <1>1, <1>3
<1>6. \A d \in Dir : /\ pagina'[d].marco = pagina[d].marco
                     /\ pagina'[d].contenido = pagina[d].contenido
                     /\ pagina'[d].modificada = pagina[d].modificada
  BY <1>1, <1>3, <1>4
<1>7. EnMemoria \subseteq Dir
  BY Basico DEF Seguro
<1>8. Datos'
  BY <1>5, <1>6, <1>7, Toques DEF Acierto
<1>9. ControlBien'
  <2>1. fallo' \in BOOLEAN
    BY DEF Acierto, Seguro, Coherente, ControlBien
  <2> QED
    BY <2>1, ObtenidaBien DEF Acierto, Pide, Seguro
<1> QED
  BY <1>8, <1>9 DEF Seguro, Coherente, Datos

\* Acceder.
LEMMA PasoAcceder ==
    ASSUME Seguro, Acceder
    PROVE  Seguro'
<1>1. /\ Actual \in Dir /\ pagina[Actual] \in Pagina /\ pagina \in [Dir -> Pagina]
      /\ instr \in Acceso /\ instr.valor \in Valor /\ instr.num <= instr.ultima
  BY InstrEs DEF Acceder, Seguro, Coherente, MarcosBien
<1>2. PICK a \in Dir, r \in Pagina : a = Actual /\ r = Tocada(pagina[Actual])
  BY <1>1, TocadaEs DEF Seguro
<1>3. /\ r.contenido = pagina[a].contenido /\ r.marco = pagina[a].marco
      /\ r.modificada = pagina[a].modificada
  BY <1>1, <1>2, TocadaEs DEF Seguro
<1>4. PICK w : w = [r EXCEPT !.contenido = instr.valor, !.modificada = TRUE]
  OBVIOUS
<1>5. w \in Pagina /\ w.marco = r.marco /\ w.modificada
  BY <1>1, <1>4 DEF Pagina
<1>6. PICK q \in Pagina : q = IF instr.op = "WRITE" THEN w ELSE r
  BY <1>5
<1>7. pagina' = [pagina EXCEPT ![a] = q]
  BY <1>2, <1>4, <1>6 DEF Acceder
<1>8. pagina' \in [Dir -> Pagina]
  BY <1>1, <1>7
<1>9. \A d \in Dir : /\ pagina'[d].marco = pagina[d].marco
                     /\ ~ pagina'[d].modificada =>
                          ~ pagina[d].modificada /\ pagina'[d].contenido = pagina[d].contenido
  BY <1>1, <1>3, <1>5, <1>6, <1>7
<1>10. EnMemoria \subseteq Dir
  BY Basico DEF Seguro
<1>11. Datos'
  BY <1>8, <1>9, <1>10, Toques DEF Acceder
<1>12. ControlBien'
  <2>1. CASE instr.num = instr.ultima
    BY <2>1 DEF Acceder, Seguro, Coherente, ControlBien
  <2>2. CASE instr.num # instr.ultima
    <3>1. instr.num \in Numero /\ instr.ultima \in Numero /\ MaxBloques \in Nat
      BY <1>1, Basico DEF Acceso, Numero, Seguro
    <3>2. PICK n \in Numero : n = instr.num + 1 /\ n <= instr.ultima
      BY <1>1, <2>2, <3>1 DEF Numero
    <3>3. instr' = [instr EXCEPT !.num = n, !.paso = "obtener"]
      BY <2>2, <3>2 DEF Acceder
    <3>4. instr' \in Acceso /\ instr'.num = n /\ instr'.ultima = instr.ultima
      BY <1>1, <3>2, <3>3 DEF Acceso, Numero
    <3> QED
      BY <3>2, <3>4 DEF Acceder, Seguro, Coherente, ControlBien
  <2> QED
    BY <2>1, <2>2
<1> QED
  BY <1>11, <1>12 DEF Seguro, Coherente, Datos

\* PasaSegundo.
LEMMA PasoSegundo ==
    ASSUME Seguro, PasaSegundo
    PROVE  Seguro'
<1>1. pagina \in [Dir -> Pagina] /\ EnMemoria \subseteq Dir /\ MaxEdad \in Nat
  BY Basico DEF Seguro, Coherente, MarcosBien
<1>2. ASSUME NEW d \in Dir
      PROVE  /\ pagina'[d] \in Pagina /\ pagina'[d].marco = pagina[d].marco
             /\ pagina'[d].contenido = pagina[d].contenido
             /\ pagina'[d].modificada = pagina[d].modificada
  <2>1. PICK q \in Pagina : q = pagina[d]
    BY <1>1
  <2>2. pagina'[d] = IF d \in EnMemoria /\ q.edad < MaxEdad THEN [q EXCEPT !.edad = @ + 1] ELSE q
    BY <2>1 DEF PasaSegundo
  <2>3. CASE d \in EnMemoria /\ q.edad < MaxEdad
    <3>1. PICK a \in 0..MaxEdad : a = q.edad + 1
      BY <1>1, <2>3 DEF Pagina
    <3>2. pagina'[d] = [q EXCEPT !.edad = a]
      BY <2>2, <2>3, <3>1
    <3> QED
      BY <2>1, <3>2 DEF Pagina
  <2>4. CASE ~ (d \in EnMemoria /\ q.edad < MaxEdad)
    BY <2>1, <2>2, <2>4
  <2> QED
    BY <2>3, <2>4
<1>3. pagina' \in [Dir -> Pagina]
  BY <1>2 DEF PasaSegundo
<1>4. Datos'
  BY <1>1, <1>2, <1>3, Toques DEF PasaSegundo
<1>5. ControlBien'
  BY DEF PasaSegundo, Seguro, Coherente, ControlBien
<1> QED
  BY <1>4, <1>5 DEF Seguro, Coherente, Datos

\* A file:tag of Storage becomes r, a record that has at least its blocks.
LEMMA Cambia ==
    ASSUME Seguro, NEW t \in Tag, NEW r \in Registro,
           disco' = [disco EXCEPT ![t] = r], hayFile' \in BOOLEAN,
           Len(r.bloques) <= MaxBloques, r.fase = "no" => r.bloques = <<>>,
           Len(disco[t].bloques) <= Len(r.bloques),
           \A i \in 1..Len(disco[t].bloques) : r.bloques[i] = disco[t].bloques[i],
           UNCHANGED <<algoritmo, memoria>>
    PROVE  Datos'
<1>1. disco \in [Tag -> Registro]
  BY DEF Seguro, Coherente, DiscoBien, Registro
<1>2. disco' \in [Tag -> Registro]
  BY <1>1
<1>3. ASSUME NEW u \in Tag
      PROVE  /\ Len(disco'[u].bloques) <= MaxBloques
             /\ disco'[u].fase = "no" => disco'[u].bloques = <<>>
             /\ Len(disco[u].bloques) <= Len(disco'[u].bloques)
             /\ \A i \in 1..Len(disco[u].bloques) :
                   disco'[u].bloques[i] = disco[u].bloques[i]
  <2>1. CASE u = t
    <3>1. disco'[u] = r
      BY <1>1, <2>1
    <3> QED
      BY <2>1, <3>1
  <2>2. CASE u # t
    <3>1. disco'[u] = disco[u]
      BY <1>1, <2>2
    <3>2. /\ Len(disco[u].bloques) <= MaxBloques /\ Len(disco[u].bloques) \in Nat
          /\ disco[u].fase = "no" => disco[u].bloques = <<>>
      BY Basico, DiscoEs DEF Seguro
    <3> QED
      BY <3>1, <3>2
  <2> QED
    BY <2>1, <2>2
<1> QED
  BY <1>2, <1>3, Creces

\* Create.
LEMMA PasoCreate ==
    ASSUME Seguro, NEW t \in Tag, Create(t)
    PROVE  Seguro'
<1>1. hayFile' \in BOOLEAN /\ UNCHANGED <<algoritmo, memoria>>
  BY DEF Create
<1>2. CASE Existe(t)
  <2>1. TerminaConError /\ UNCHANGED disco
    BY <1>2 DEF Create
  <2>2. disco \in [Tag -> Registro]
    BY DEF Seguro, Coherente, DiscoBien, Registro
  <2>3. PICK r \in Registro : r = disco[t]
    BY <2>2
  <2>4. /\ Len(r.bloques) <= MaxBloques /\ Len(r.bloques) \in Nat
        /\ r.fase = "no" => r.bloques = <<>>
    BY <2>3, Basico, DiscoEs DEF Seguro
  <2>5. disco' = [disco EXCEPT ![t] = r]
    BY <2>1, <2>2, <2>3
  <2>6. Datos'
    <3>1. Len(disco[t].bloques) <= Len(r.bloques)
      BY <2>3, <2>4
    <3>2. \A i \in 1..Len(disco[t].bloques) : r.bloques[i] = disco[t].bloques[i]
      BY <2>3
    <3> QED
      BY <1>1, <2>4, <2>5, <3>1, <3>2, Cambia
  <2>7. ControlBien'
    BY <1>1, <2>1, TerminaBien DEF Seguro
  <2> QED
    BY <2>6, <2>7 DEF Seguro, Coherente, Datos
<1>3. CASE ~ Existe(t)
  <2>1. Sigue /\ disco' = [disco EXCEPT ![t].fase = "wip"]
    BY <1>3 DEF Create
  <2>2. disco \in [Tag -> Registro]
    BY DEF Seguro, Coherente, DiscoBien, Registro
  <2>3. PICK r : r = [disco[t] EXCEPT !.fase = "wip"]
    OBVIOUS
  <2>4. r \in Registro /\ r.bloques = disco[t].bloques /\ r.fase = "wip"
    BY <2>2, <2>3 DEF Registro
  <2>5. Len(r.bloques) <= MaxBloques /\ Len(r.bloques) \in Nat
    BY <2>4, Basico, DiscoEs DEF Seguro
  <2>6. disco' = [disco EXCEPT ![t] = r]
    BY <2>1, <2>2, <2>3
  <2>7. Datos'
    <3>1. Len(disco[t].bloques) <= Len(r.bloques)
      BY <2>4, <2>5
    <3>2. /\ \A i \in 1..Len(disco[t].bloques) : r.bloques[i] = disco[t].bloques[i]
          /\ r.fase # "no"
      BY <2>4
    <3> QED
      BY <1>1, <2>4, <2>5, <2>6, <3>1, <3>2, Cambia
  <2>8. ControlBien'
    BY <1>1, <2>1, TerminaBien DEF Seguro
  <2> QED
    BY <2>7, <2>8 DEF Seguro, Coherente, Datos
<1> QED
  BY <1>2, <1>3

\* Truncate.
LEMMA PasoTruncate ==
    ASSUME Seguro, NEW t \in Tag, NEW n \in 1..MaxBloques, Truncate(t, n)
    PROVE  Seguro'
<1>1. disco \in [Tag -> Registro] /\ hayFile \in BOOLEAN
  BY DEF Seguro, Coherente, DiscoBien, Registro
<1>2. hayFile' \in BOOLEAN /\ UNCHANGED <<algoritmo, memoria>>
  BY <1>1 DEF Truncate
<1>3. CASE ~ Existe(t)
  <2>1. TerminaConError /\ UNCHANGED <<algoritmo, memoria, almacen>>
    BY <1>3 DEF Truncate, almacen
  <2>2. Datos'
    BY <2>1, Quieto
  <2>3. ControlBien'
    BY <2>1, TerminaBien DEF Seguro
  <2> QED
    BY <2>2, <2>3 DEF Seguro, Coherente, Datos
<1>4. CASE Existe(t)
  <2>1. Sigue /\ disco' = [disco EXCEPT ![t].bloques = @ \o [i \in 1..n |-> Cero]]
    BY <1>4 DEF Truncate
  <2>2. PICK a \in Seq(Valor), N \in Nat : a = disco[t].bloques /\ N = Len(a)
    BY <1>1 DEF Registro
  <2>3. PICK c : c = [i \in 1..n |-> Cero]
    OBVIOUS
  <2>4. n \in Nat /\ Cero \in Valor /\ MaxBloques \in Nat
    BY Basico DEF Seguro
  <2>5. c \in [1..n -> Valor]
    BY <2>3, <2>4
  <2>6. c \in Seq(Valor) /\ Len(c) = n
    BY <2>4, <2>5
  <2>7. PICK b : b = a \o c
    OBVIOUS
  <2>8. b \in Seq(Valor) /\ Len(b) = N + n /\ \A i \in 1..N : b[i] = a[i]
    <3>1. a \in Seq(Valor) /\ c \in Seq(Valor)
      BY <2>6
    <3>2. /\ a \o c \in Seq(Valor) /\ Len(a \o c) = Len(a) + Len(c)
          /\ \A i \in 1..Len(a) : (a \o c)[i] = a[i]
      BY <3>1, UneEs
    <3> QED
      BY <2>2, <2>6, <2>7, <3>2
  <2>9. PICK r : r = [disco[t] EXCEPT !.bloques = b]
    OBVIOUS
  <2>10. r \in Registro /\ r.bloques = b /\ r.fase = disco[t].fase
    BY <1>1, <2>8, <2>9 DEF Registro
  <2>11. disco' = [disco EXCEPT ![t] = r]
    BY <1>1, <2>1, <2>2, <2>3, <2>7, <2>9
  <2>12. Len(r.bloques) <= MaxBloques
    BY <2>2, <2>8, <2>10 DEF Truncate
  <2>13. Len(disco[t].bloques) <= Len(r.bloques)
    BY <2>2, <2>4, <2>8, <2>10
  <2>14. r.fase # "no"
    BY <1>4, <2>10 DEF Existe
  <2>15. \A i \in 1..Len(disco[t].bloques) : r.bloques[i] = disco[t].bloques[i]
    BY <2>2, <2>8, <2>10
  <2>16. Datos'
    BY <1>2, <2>10, <2>11, <2>12, <2>13, <2>14, <2>15, Cambia
  <2>17. ControlBien'
    BY <1>2, <2>1, TerminaBien DEF Seguro
  <2> QED
    BY <2>16, <2>17 DEF Seguro, Coherente, Datos
<1> QED
  BY <1>3, <1>4

\* TagFile.
LEMMA PasoTagFile ==
    ASSUME Seguro, NEW o \in Tag, NEW t \in Tag, TagFile(o, t)
    PROVE  Seguro'
<1>1. disco \in [Tag -> Registro] /\ hayFile \in BOOLEAN
  BY DEF Seguro, Coherente, DiscoBien, Registro
<1>2. hayFile' \in BOOLEAN /\ UNCHANGED <<algoritmo, memoria>>
  BY <1>1 DEF TagFile
<1>3. CASE Existe(t)
  <2>1. TerminaConError /\ UNCHANGED <<algoritmo, memoria, almacen>>
    BY <1>3 DEF TagFile, almacen
  <2>2. Datos'
    BY <2>1, Quieto
  <2>3. ControlBien'
    BY <2>1, TerminaBien DEF Seguro
  <2> QED
    BY <2>2, <2>3 DEF Seguro, Coherente, Datos
<1>4. CASE ~ Existe(t)
  <2>1. Sigue /\ disco' = [disco EXCEPT ![t] = [disco[o] EXCEPT !.fase = "wip"]]
    BY <1>4 DEF TagFile
  <2>2. PICK r : r = [disco[o] EXCEPT !.fase = "wip"]
    OBVIOUS
  <2>3. r \in Registro /\ r.bloques = disco[o].bloques /\ r.fase = "wip"
    BY <1>1, <2>2 DEF Registro
  <2>4. Len(r.bloques) <= MaxBloques /\ Len(r.bloques) \in Nat
    BY <2>3, Basico, DiscoEs DEF Seguro
  <2>5. disco[t].bloques = <<>>
    BY <1>4, DiscoEs DEF Seguro, Existe
  <2>6. Len(disco[t].bloques) = 0
    BY <2>5
  <2>7. Len(disco[t].bloques) <= Len(r.bloques)
    BY <2>4, <2>6
  <2>8. \A i \in 1..Len(disco[t].bloques) : r.bloques[i] = disco[t].bloques[i]
    BY <2>6
  <2>9. disco' = [disco EXCEPT ![t] = r]
    BY <2>1, <2>2
  <2>10. Datos'
    BY <1>2, <2>3, <2>4, <2>7, <2>8, <2>9, Cambia
  <2>11. ControlBien'
    BY <1>2, <2>1, TerminaBien DEF Seguro
  <2> QED
    BY <2>10, <2>11 DEF Seguro, Coherente, Datos
<1> QED
  BY <1>3, <1>4

\* Desalojar.
LEMMA PasoDesalojar ==
    ASSUME Seguro, Desalojar
    PROVE  Seguro'
<1>1. PICK S \in SUBSET EnMemoria : S = {d \in Sucias : Acepta(d)}
  BY DEF Sucias
<1>2. disco' = Escritos(S) /\ pagina' = Limpiadas(S)
  BY <1>1 DEF Desalojar, Limpiadas
<1>3. \A d \in S : TieneBloque(d)
  BY <1>1 DEF Acepta
<1>4. Grabado(disco', S)
  BY <1>2, EscritosEs DEF Seguro
<1>5. Vuelco(S)
  <2>1. UNCHANGED <<algoritmo, tablas, fisicas, frame_table, usadas, puntero, hayFile>>
    BY DEF Desalojar
  <2> QED
    BY <1>2, <1>4, <2>1, LimpiadasEs DEF Vuelco, Seguro
<1>6. Datos'
  BY <1>3, <1>5, VuelcoBien DEF Seguro, Datos
<1>7. ControlBien'
  BY TerminaBien DEF Seguro, Desalojar
<1> QED
  BY <1>6, <1>7 DEF Seguro, Coherente, Datos

\* What FLUSH writes.
LEMMA VolcadasEs ==
    ASSUME Coherente, NEW t \in Tag
    PROVE  /\ Volcadas(t) \subseteq EnMemoria
           /\ \A d \in Volcadas(t) : TieneBloque(d)
<1>1. tablas[t] \in Seq(Numero) /\ Concuerda(tablas[t], fisicas, t)
  BY DEF Coherente, ListasBien
<1>2. PICK N \in Nat : N = Len(tablas[t]) /\ DOMAIN tablas[t] = 1..N
  BY <1>1
<1>3. SUFFICES ASSUME NEW i \in 1..N, pagina[PaginasDe(t)[i]].modificada,
                      \A r \in Rechazada(t) : i < r
               PROVE  PaginasDe(t)[i] \in EnMemoria /\ TieneBloque(PaginasDe(t)[i])
  BY <1>2 DEF Volcadas
<1>4. PICK d : d = PaginasDe(t)[i] /\ d = <<t, tablas[t][i]>>
  BY <1>2 DEF PaginasDe
<1>5. tablas[t][i] \in Numero /\ Esta(tablas[t], tablas[t][i])
  BY <1>1, <1>2 DEF Esta
<1>6. d \in EnMemoria
  BY <1>1, <1>4, <1>5 DEF Concuerda, Esta, EnMemoria, ToSet
<1>7. i \notin Rechazada(t)
  BY <1>3
<1>8. Acepta(d)
  BY <1>2, <1>3, <1>4, <1>7 DEF Rechazada
<1> QED
  BY <1>4, <1>6, <1>8 DEF Acepta

\* Flush.
LEMMA PasoFlush ==
    ASSUME Seguro, NEW t \in Tag, Flush(t)
    PROVE  Seguro'
<1>1. PICK S \in SUBSET EnMemoria : S = Volcadas(t) /\ \A d \in S : TieneBloque(d)
  BY VolcadasEs DEF Seguro
<1>2. disco' = Escritos(S) /\ pagina' = Limpiadas(S)
  BY <1>1 DEF Flush
<1>3. Grabado(disco', S)
  BY <1>2, EscritosEs DEF Seguro
<1>4. Vuelco(S)
  BY <1>2, <1>3, LimpiadasEs DEF Vuelco, Flush, Seguro
<1>5. Datos'
  BY <1>1, <1>4, VuelcoBien DEF Seguro, Datos
<1>6. ControlBien'
  BY TerminaBien DEF Seguro, Flush
<1> QED
  BY <1>5, <1>6 DEF Seguro, Coherente, Datos

\* COMMIT writes the same pages, and may set the phase.
LEMMA CommitGraba ==
    ASSUME Coherente, NEW t \in Tag, Commit(t)
    PROVE  Grabado(disco', Volcadas(t))
<1>1. PICK S \in SUBSET EnMemoria : S = Volcadas(t) /\ \A d \in S : TieneBloque(d)
  BY VolcadasEs
<1>2. PICK dd : dd = Escritos(S)
  OBVIOUS
<1>3. Grabado(dd, S) /\ \A u \in Tag : dd[u].fase = disco[u].fase
  BY <1>2, EscritosEs
<1>4. disco' = (IF Rechazada(t) = {} /\ Existe(t) THEN [dd EXCEPT ![t].fase = "commit"] ELSE dd)
  BY <1>1, <1>2 DEF Commit
<1>5. Grabado(disco', S)
  <2>1. CASE ~ (Rechazada(t) = {} /\ Existe(t))
    BY <1>3, <1>4, <2>1
  <2>2. CASE Rechazada(t) = {} /\ Existe(t)
    <3>1. dd \in [Tag -> Registro]
      BY <1>3 DEF Grabado
    <3>2. PICK r : r = [dd[t] EXCEPT !.fase = "commit"]
      OBVIOUS
    <3>3. r \in Registro /\ r.fase = "commit" /\ r.bloques = dd[t].bloques
      BY <3>1, <3>2 DEF Registro
    <3>4. disco' = [dd EXCEPT ![t] = r]
      BY <1>4, <2>2, <3>1, <3>2
    <3>5. disco[t].fase # "no"
      BY <2>2 DEF Existe
    <3>6. disco' \in [Tag -> Registro]
      BY <3>1, <3>3, <3>4
    <3>7. \A u \in Tag : /\ disco'[u].bloques = dd[u].bloques
                         /\ disco'[u].fase = "no" <=> disco[u].fase = "no"
      BY <1>3, <3>1, <3>3, <3>4, <3>5
    <3> QED
      BY <1>3, <3>6, <3>7 DEF Grabado
  <2> QED
    BY <2>1, <2>2
<1> QED
  BY <1>1, <1>5

\* Commit.
LEMMA PasoCommit ==
    ASSUME Seguro, NEW t \in Tag, Commit(t)
    PROVE  Seguro'
<1>1. PICK S \in SUBSET EnMemoria : S = Volcadas(t) /\ \A d \in S : TieneBloque(d)
  BY VolcadasEs DEF Seguro
<1>2. Vuelco(S)
  BY <1>1, CommitGraba, LimpiadasEs DEF Vuelco, Commit, Seguro
<1>3. Datos'
  BY <1>1, <1>2, VuelcoBien DEF Seguro, Datos
<1>4. ControlBien'
  BY TerminaBien DEF Seguro, Commit
<1> QED
  BY <1>3, <1>4 DEF Seguro, Coherente, Datos

-----------------------------------------------------------------------------
(* Pages that come and go.                                                 *)

\* The page tables tt and the physical pages f.
Listas(tt, f) ==
    /\ tt \in [Tag -> Seq(Numero)] /\ f \in Seq(Dir) /\ IsInjective(f)
    /\ \A t \in Tag : IsInjective(tt[t]) /\ Concuerda(tt[t], f, t)

\* A page that was not there comes last in both.
LEMMA ListasAgrega ==
    ASSUME NEW tt, NEW f, Listas(tt, f), NEW t \in Tag, NEW n \in Numero,
           <<t, n>> \in Dir, ~ Esta(f, <<t, n>>)
    PROVE  Listas([tt EXCEPT ![t] = Append(@, n)], Append(f, <<t, n>>))
<1>1. /\ tt \in [Tag -> Seq(Numero)] /\ f \in Seq(Dir) /\ IsInjective(f)
      /\ \A u \in Tag : IsInjective(tt[u]) /\ Concuerda(tt[u], f, u)
  BY DEF Listas
<1>2. PICK s \in Seq(Numero) : s = tt[t]
  BY <1>1
<1>3. IsInjective(s) /\ Concuerda(s, f, t) /\ ~ Esta(s, n)
  BY <1>1, <1>2 DEF Concuerda
<1>4. PICK r : r = Append(s, n)
  OBVIOUS
<1>5. /\ r \in Seq(Numero) /\ IsInjective(r)
      /\ \A y : Esta(r, y) <=> Esta(s, y) \/ y = n
      /\ \A y, z : Antes(r, y, z) <=> Antes(s, y, z) \/ (Esta(s, y) /\ z = n)
  BY <1>3, <1>4, AgregaEs
<1>6. PICK a \in Dir : a = <<t, n>>
  OBVIOUS
<1>7. PICK g : g = Append(f, a)
  OBVIOUS
<1>8. /\ g \in Seq(Dir) /\ IsInjective(g)
      /\ \A y : Esta(g, y) <=> Esta(f, y) \/ y = a
      /\ \A y, z : Antes(g, y, z) <=> Antes(f, y, z) \/ (Esta(f, y) /\ z = a)
  <2>1. f \in Seq(Dir) /\ IsInjective(f) /\ a \in Dir /\ ~ Esta(f, a)
    BY <1>1, <1>6
  <2> QED
    BY <1>7, <2>1, AgregaEs
<1>9. PICK w : w = [tt EXCEPT ![t] = r]
  OBVIOUS
<1>10. w \in [Tag -> Seq(Numero)] /\ w[t] = r /\ \A u \in Tag : u # t => w[u] = tt[u]
  BY <1>1, <1>5, <1>9
<1>11. Concuerda(r, g, t)
  <2>1. \A m \in Numero : <<t, m>> = a <=> m = n
    BY <1>6
  <2> QED
    BY <1>3, <1>5, <1>8, <2>1 DEF Concuerda
<1>12. ASSUME NEW u \in Tag, u # t PROVE Concuerda(tt[u], g, u)
  <2>1. \A m \in Numero : <<u, m>> # a
    BY <1>6, <1>12
  <2> QED
    BY <1>1, <1>8, <2>1 DEF Concuerda
<1>13. \A u \in Tag : IsInjective(w[u]) /\ Concuerda(w[u], g, u)
  BY <1>1, <1>5, <1>10, <1>11, <1>12
<1>14. Listas(w, g)
  BY <1>8, <1>10, <1>13 DEF Listas
<1> QED
  BY <1>1, <1>2, <1>4, <1>6, <1>7, <1>9, <1>14

\* A page that was there leaves both.
LEMMA ListasSaca ==
    ASSUME NEW tt, NEW f, Listas(tt, f), NEW t \in Tag, NEW n \in Numero, Esta(f, <<t, n>>)
    PROVE  Listas([tt EXCEPT ![t] = Saca(@, n)], Saca(f, <<t, n>>))
<1>1. /\ tt \in [Tag -> Seq(Numero)] /\ f \in Seq(Dir) /\ IsInjective(f)
      /\ \A u \in Tag : IsInjective(tt[u]) /\ Concuerda(tt[u], f, u)
  BY DEF Listas
<1>2. PICK s \in Seq(Numero) : s = tt[t]
  BY <1>1
<1>3. IsInjective(s) /\ Concuerda(s, f, t) /\ Esta(s, n)
  BY <1>1, <1>2 DEF Concuerda
<1>4. PICK r : r = Saca(s, n)
  OBVIOUS
<1>5. /\ r \in Seq(Numero) /\ IsInjective(r)
      /\ \A y : Esta(r, y) <=> Esta(s, y) /\ y # n
      /\ \A y, z : Antes(r, y, z) <=> Antes(s, y, z) /\ y # n /\ z # n
  BY <1>3, <1>4, SacaEs
<1>6. PICK a : a = <<t, n>>
  OBVIOUS
<1>7. PICK g : g = Saca(f, a)
  OBVIOUS
<1>8. /\ g \in Seq(Dir) /\ IsInjective(g)
      /\ \A y : Esta(g, y) <=> Esta(f, y) /\ y # a
      /\ \A y, z : Antes(g, y, z) <=> Antes(f, y, z) /\ y # a /\ z # a
  BY <1>1, <1>6, <1>7, SacaEs
<1>9. PICK w : w = [tt EXCEPT ![t] = r]
  OBVIOUS
<1>10. w \in [Tag -> Seq(Numero)] /\ w[t] = r /\ \A u \in Tag : u # t => w[u] = tt[u]
  BY <1>1, <1>5, <1>9
<1>11. Concuerda(r, g, t)
  <2>1. \A m \in Numero : <<t, m>> = a <=> m = n
    BY <1>6
  <2> QED
    BY <1>3, <1>5, <1>8, <2>1 DEF Concuerda
<1>12. ASSUME NEW u \in Tag, u # t PROVE Concuerda(tt[u], g, u)
  <2>1. \A m \in Numero : <<u, m>> # a
    BY <1>6, <1>12
  <2> QED
    BY <1>1, <1>8, <2>1 DEF Concuerda
<1>13. \A u \in Tag : IsInjective(w[u]) /\ Concuerda(w[u], g, u)
  BY <1>1, <1>5, <1>10, <1>11, <1>12
<1>14. Listas(w, g)
  BY <1>8, <1>10, <1>13 DEF Listas
<1> QED
  BY <1>1, <1>2, <1>4, <1>6, <1>7, <1>9, <1>14

\* The page that is asked for, when it is not in memory.
LEMMA FaltaEs ==
    ASSUME Coherente, MemoriaMiss
    PROVE  /\ instr.tag \in Tag /\ instr.num \in Numero /\ Actual \in Dir
           /\ Actual = <<instr.tag, instr.num>> /\ Actual[1] = instr.tag /\ Actual[2] = instr.num
           /\ ~ Esta(tablas[instr.tag], instr.num)
           /\ ~ Esta(fisicas, Actual) /\ Actual \notin EnMemoria
           /\ instr.num + 1 \in 1..Len(disco[instr.tag].bloques)
           /\ disco[instr.tag].bloques[instr.num + 1] \in Valor
<1>1. /\ instr.tag \in Tag /\ instr.num \in Numero /\ Actual \in Dir
      /\ Actual = <<instr.tag, instr.num>> /\ Actual[1] = instr.tag /\ Actual[2] = instr.num
  BY InstrEs DEF MemoriaMiss, Pide, Actual
<1>2. PICK s \in Seq(Numero) : s = tablas[instr.tag] /\ Concuerda(s, fisicas, instr.tag)
  BY <1>1 DEF Coherente, ListasBien
<1>3. ~ Esta(s, instr.num)
  BY <1>2 DEF MemoriaMiss, Contains, Esta
<1>4. ~ Esta(fisicas, Actual)
  BY <1>1, <1>2, <1>3 DEF Concuerda
<1>5. Actual \notin EnMemoria
  BY <1>4 DEF Esta, EnMemoria, ToSet
<1>6. instr.num + 1 \in 1..Len(disco[instr.tag].bloques)
  BY <1>1, DirEs DEF MemoriaMiss
<1>7. disco[instr.tag].bloques[instr.num + 1] \in Valor
  BY <1>1, <1>6, DiscoEs
<1> QED
  BY <1>1, <1>2, <1>3, <1>4, <1>5, <1>6, <1>7

\* A page that is loaded.
LEMMA CargadaEs ==
    ASSUME Coherente, MemoriaMiss, NEW m \in 0..(total_pages - 1)
    PROVE  /\ Cargada(m) \in Pagina /\ Cargada(m).marco = m /\ ~ Cargada(m).modificada
           /\ Cargada(m).contenido = disco[instr.tag].bloques[instr.num + 1]
<1>1. disco[instr.tag].bloques[instr.num + 1] \in Valor /\ 0 \in 0..MaxEdad
  BY FaltaEs, Basico
<1> QED
  BY <1>1 DEF Cargada, Pagina

\* What is left of MarcosBien for the pages E, with the frames F.
Marcados(pag, E, F) ==
    /\ pag \in [Dir -> Pagina]
    /\ \A d, e \in E : pag[d].marco = pag[e].marco => d = e
    /\ F = {pag[d].marco : d \in E}

\* The pages that stay keep their frames.
LEMMA MarcadosSale ==
    ASSUME NEW pag, NEW q \in [Dir -> Pagina], NEW E, NEW G \in SUBSET E, NEW F,
           Marcados(pag, E, F), \A d \in G : q[d].marco = pag[d].marco
    PROVE  Marcados(q, G, F \ {pag[d].marco : d \in E \ G})
<1>1. F = {pag[d].marco : d \in E} /\ \A d, e \in E : pag[d].marco = pag[e].marco => d = e
  BY DEF Marcados
<1>2. F \ {pag[d].marco : d \in E \ G} = {pag[d].marco : d \in G}
  BY <1>1
<1>3. {pag[d].marco : d \in G} = {q[d].marco : d \in G}
  OBVIOUS
<1>4. \A d, e \in G : q[d].marco = q[e].marco => d = e
  BY <1>1
<1> QED
  BY <1>2, <1>3, <1>4 DEF Marcados

\* A page that comes gets a frame that the others do not have.
LEMMA MarcadosLlega ==
    ASSUME NEW pag, NEW q \in [Dir -> Pagina], NEW G, NEW H, Marcados(pag, G, H),
           \A d \in G : q[d].marco = pag[d].marco, NEW a, NEW m, q[a].marco = m, m \notin H
    PROVE  Marcados(q, G \cup {a}, H \cup {m})
<1>1. H = {pag[d].marco : d \in G} /\ \A d, e \in G : pag[d].marco = pag[e].marco => d = e
  BY DEF Marcados
<1>2. H = {q[d].marco : d \in G}
  BY <1>1
<1>3. H \cup {m} = {q[d].marco : d \in G \cup {a}}
  BY <1>2
<1>4. \A d \in G : q[d].marco # m
  BY <1>2
<1>5. \A d, e \in G \cup {a} : q[d].marco = q[e].marco => d = e
  BY <1>1, <1>4
<1> QED
  BY <1>3, <1>5 DEF Marcados

\* The pages that the frames of a state are for.
LEMMA MarcadosEs ==
    ASSUME Coherente
    PROVE  Marcados(pagina, EnMemoria, frame_table)
BY DEF Coherente, MarcosBien, Marcados

\* CargaEnMarcoLibre.
LEMMA PasoCarga ==
    ASSUME Seguro, CargaEnMarcoLibre
    PROVE  Seguro'
<1>1. MemoriaMiss /\ usadas < total_pages /\ Coherente
  BY DEF CargaEnMarcoLibre, Seguro
<1>2. PICK t \in Tag, n \in Numero, a \in Dir : t = instr.tag /\ n = instr.num /\ a = Actual
  BY <1>1, FaltaEs
<1>3. /\ a = <<t, n>> /\ a[1] = t /\ a[2] = n /\ ~ Esta(fisicas, a) /\ a \notin EnMemoria
      /\ n + 1 \in 1..Len(disco[t].bloques)
  BY <1>1, <1>2, FaltaEs
<1>4. PICK m \in 0..(total_pages - 1) : m = MarcoLibre /\ m \notin frame_table
  BY <1>1, MarcoLibreBien
<1>5. PICK c \in Pagina : /\ c = Cargada(m) /\ c.marco = m /\ ~ c.modificada
                          /\ c.contenido = disco[t].bloques[n + 1]
  BY <1>1, <1>2, CargadaEs
<1>6. /\ pagina' = [pagina EXCEPT ![a] = c] /\ frame_table' = frame_table \cup {m}
      /\ usadas' = usadas + 1 /\ tablas' = [tablas EXCEPT ![t] = Append(@, n)]
      /\ fisicas' = Append(fisicas, a)
      /\ UNCHANGED <<algoritmo, puntero, disco, hayFile, query, fallo>>
  BY <1>2, <1>4, <1>5 DEF CargaEnMarcoLibre, almacen
<1>7. ListasBien'
  <2>1. Listas(tablas, fisicas)
    BY <1>1 DEF Coherente, ListasBien, Listas
  <2>2. Listas(tablas', fisicas')
    BY <1>3, <1>6, <2>1, ListasAgrega
  <2> QED
    BY <2>2 DEF Listas, ListasBien
<1>8. fisicas' \in Seq(Dir) /\ Len(fisicas') = Len(fisicas) + 1 /\ EnMemoria' = EnMemoria \cup {a}
  <2>1. fisicas \in Seq(Dir)
    BY <1>1 DEF Coherente, ListasBien
  <2>2. fisicas' \in Seq(Dir) /\ Len(fisicas') = Len(fisicas) + 1
    BY <1>6, <2>1
  <2>3. /\ DOMAIN fisicas' = 1..(Len(fisicas) + 1) /\ DOMAIN fisicas = 1..Len(fisicas)
        /\ \A i \in 1..Len(fisicas) : fisicas'[i] = fisicas[i]
        /\ fisicas'[Len(fisicas) + 1] = a
        /\ Len(fisicas) \in Nat
    BY <1>6, <2>1
  <2>4. 1..(Len(fisicas) + 1) = 1..Len(fisicas) \cup {Len(fisicas) + 1}
    BY <2>3
  <2>5. EnMemoria' = EnMemoria \cup {a}
    BY <2>3, <2>4 DEF EnMemoria, ToSet
  <2> QED
    BY <2>2, <2>5
<1>9. /\ pagina \in [Dir -> Pagina] /\ pagina' \in [Dir -> Pagina] /\ pagina'[a] = c
      /\ \A d \in Dir : d # a => pagina'[d] = pagina[d]
      /\ EnMemoria \subseteq Dir /\ Pagina' = Pagina
  BY <1>1, <1>6, Basico DEF Coherente, MarcosBien, Pagina, total_pages
<1>10. Marcados(pagina', EnMemoria \cup {a}, frame_table \cup {m})
  <2>1. Marcados(pagina, EnMemoria, frame_table)
    BY <1>1, MarcadosEs
  <2>2. \A d \in EnMemoria : pagina'[d].marco = pagina[d].marco
    BY <1>3, <1>9
  <2>3. pagina'[a].marco = m
    BY <1>5, <1>9
  <2> QED
    BY <1>4, <1>9, <2>1, <2>2, <2>3, MarcadosLlega
<1>11. MarcosBien'
  <2>1. Len(fisicas) \in Nat /\ total_pages \in Nat /\ total_pages' = total_pages
    BY <1>1, <1>6, Basico DEF total_pages
  <2>2. /\ usadas = Len(fisicas) /\ puntero \in 0..Len(fisicas)
        /\ (algoritmo # "CLOCK-M" => puntero = 0)
    BY <1>1 DEF Coherente, MarcosBien
  <2>3. usadas' = Len(fisicas') /\ usadas' <= total_pages' /\ puntero' \in 0..Len(fisicas')
    BY <1>1, <1>6, <1>8, <2>1, <2>2
  <2> QED
    BY <1>6, <1>8, <1>9, <1>10, <2>2, <2>3 DEF MarcosBien, Marcados
<1>12. DiscoBien'
  BY <1>1, <1>6 DEF Coherente, DiscoBien, Existe
<1>13. LimpiaIgualDisco'
  <2> SUFFICES ASSUME NEW d \in EnMemoria \cup {a}, ~ pagina'[d].modificada
               PROVE  TieneBloque(d) /\ pagina'[d].contenido = disco[d[1]].bloques[d[2] + 1]
    BY <1>6, <1>8 DEF LimpiaIgualDisco, Sucias, TieneBloque
  <2>1. CASE d = a
    BY <1>1, <1>2, <1>3, <1>5, <1>9, <2>1, DirEs
  <2>2. CASE d # a
    BY <1>9, <2>2 DEF Seguro, LimpiaIgualDisco, Sucias
  <2> QED
    BY <2>1, <2>2
<1>14. ControlBien'
  <2>1. fallo' \in BOOLEAN
    BY <1>1, <1>6 DEF Coherente, ControlBien
  <2> QED
    BY <1>1, <1>6, <2>1, ObtenidaBien DEF CargaEnMarcoLibre, MemoriaMiss, Pide
<1> QED
  BY <1>7, <1>11, <1>12, <1>13, <1>14 DEF Seguro, Coherente

\* Nothing in memory.
LEMMA VaciaBien ==
    ASSUME algoritmo \in Algoritmos, tablas = [t \in Tag |-> <<>>], fisicas = <<>>,
           pagina = [d \in Dir |-> Ausente], frame_table = {}, usadas = 0, puntero = 0
    PROVE  ListasBien /\ MarcosBien /\ LimpiaIgualDisco
<1>1. EnMemoria = {} /\ Len(fisicas) = 0
  BY DEF EnMemoria, ToSet
<1>2. total_pages \in Nat \ {0} /\ Cero \in Valor /\ 0 \in 0..MaxEdad
  BY MemoriaAssumption DEF MemoriaAssumption, total_pages
<1>3. 0 \in 0..(total_pages - 1)
  BY <1>2
<1>4. Ausente \in Pagina
  BY <1>2, <1>3 DEF Ausente, Pagina
<1>5. pagina \in [Dir -> Pagina]
  BY <1>4
<1>6. MarcosBien
  BY <1>1, <1>2, <1>5 DEF MarcosBien
<1>7. <<>> \in Seq(Dir) /\ <<>> \in Seq(Numero) /\ IsInjective(<<>>) /\ DOMAIN <<>> = {}
  BY DEF IsInjective
<1>8. \A t \in Tag : Concuerda(<<>>, <<>>, t)
  BY <1>7 DEF Concuerda, Esta, Antes
<1>9. ListasBien
  BY <1>7, <1>8 DEF ListasBien
<1> QED
  BY <1>1, <1>6, <1>9 DEF LimpiaIgualDisco

\* The pages after the hand has passed by.
Otras(u) == [d \in Dir |-> IF d \in EnMemoria THEN [pagina[d] EXCEPT !.uso = u[d]] ELSE pagina[d]]

\* They differ only in their use bits.
LEMMA OtrasEs ==
    ASSUME Coherente, NEW u \in [EnMemoria -> {0, 1}]
    PROVE  /\ Otras(u) \in [Dir -> Pagina]
           /\ \A d \in Dir : /\ Otras(u)[d].contenido = pagina[d].contenido
                             /\ Otras(u)[d].marco = pagina[d].marco
                             /\ Otras(u)[d].modificada = pagina[d].modificada
<1>1. pagina \in [Dir -> Pagina]
  BY DEF Coherente, MarcosBien
<1>2. PICK f : f = Otras(u)
  OBVIOUS
<1>3. ASSUME NEW d \in Dir
      PROVE  /\ f[d] \in Pagina /\ f[d].contenido = pagina[d].contenido
             /\ f[d].marco = pagina[d].marco /\ f[d].modificada = pagina[d].modificada
  <2>1. PICK q \in Pagina : q = pagina[d]
    BY <1>1
  <2>2. CASE d \in EnMemoria
    <3>1. PICK b \in {0, 1} : b = u[d]
      BY <2>2
    <3>2. f[d] = [q EXCEPT !.uso = b]
      BY <1>2, <2>1, <2>2, <3>1 DEF Otras
    <3> QED
      BY <2>1, <3>2 DEF Pagina
  <2>3. CASE d \notin EnMemoria
    BY <1>2, <2>1, <2>3 DEF Otras
  <2> QED
    BY <2>2, <2>3
<1>4. f \in [Dir -> Pagina]
  BY <1>2, <1>3 DEF Otras
<1> QED
  BY <1>2, <1>3, <1>4

\* What replacing the page v by the one that is asked for does.
Reemplazo(v) ==
    /\ v \in Dir /\ v \in EnMemoria /\ v # Actual
    /\ disco' = Escritos({v} \cap {d \in Sucias : Acepta(d)})
    /\ ListasBien' /\ Len(fisicas') = Len(fisicas)
    /\ EnMemoria' = (EnMemoria \ {v}) \cup {Actual}
    /\ pagina' \in [Dir -> Pagina] /\ pagina'[Actual] = Cargada(pagina[v].marco)
    /\ \A d \in Dir : d # Actual /\ d # v => /\ pagina'[d].contenido = pagina[d].contenido
                                             /\ pagina'[d].marco = pagina[d].marco
                                             /\ pagina'[d].modificada = pagina[d].modificada
    /\ puntero' \in 0..Len(fisicas) /\ (algoritmo # "CLOCK-M" => puntero' = 0)
    /\ fallo' \in BOOLEAN
    /\ UNCHANGED <<algoritmo, frame_table, usadas, hayFile, query>>

\* Reemplaza does that.
LEMMA ReemplazaEs ==
    ASSUME Seguro, Reemplaza
    PROVE  \E v \in Dir : Reemplazo(v)
<1>1. MemoriaMiss /\ usadas >= total_pages /\ Coherente
  BY DEF Reemplaza, Seguro
<1>2. /\ usadas = Len(fisicas) /\ usadas <= total_pages /\ puntero \in 0..Len(fisicas)
      /\ (algoritmo # "CLOCK-M" => puntero = 0) /\ pagina \in [Dir -> Pagina]
      /\ fisicas \in Seq(Dir) /\ IsInjective(fisicas)
  BY <1>1 DEF Coherente, MarcosBien, ListasBien
<1>3. PICK N \in Nat \ {0} : N = Len(fisicas)
  BY <1>1, <1>2, Basico
<1>4. fisicas # <<>>
  BY <1>3
<1>5. PICK t \in Tag, n \in Numero, a \in Dir : t = instr.tag /\ n = instr.num /\ a = Actual
  BY <1>1, FaltaEs
<1>6. /\ a = <<t, n>> /\ a[1] = t /\ a[2] = n /\ ~ Esta(fisicas, a) /\ a \notin EnMemoria
      /\ n + 1 \in 1..Len(disco[t].bloques)
  BY <1>1, <1>5, FaltaEs
<1>7. PICK s : s = Seleccion
  OBVIOUS
<1>8. Elegida(s)
  BY <1>1, <1>4, <1>7, SeleccionBien
<1>9. PICK v \in Dir : v = s.victima
  BY <1>8 DEF Elegida
<1>10. PICK x \in Tag, y \in Numero : v = <<x, y>> /\ v[1] = x /\ v[2] = y
  BY DEF Dir, Numero
<1>11. v \in EnMemoria /\ Esta(fisicas, v) /\ v # a
  BY <1>6, <1>8, <1>9 DEF Elegida, Esta, EnMemoria, ToSet
<1>12. PICK resto : resto = Quita([lista |-> fisicas, p |-> s.p], v)
  OBVIOUS
<1>13. /\ resto.lista = Saca(fisicas, v) /\ resto.p \in 0..N
       /\ (algoritmo # "CLOCK-M" => resto.p = 0)
  <2>1. s.p \in 0..Len(fisicas) /\ (algoritmo # "CLOCK-M" => s.p = 0)
    BY <1>2, <1>8 DEF Elegida
  <2>2. /\ resto.lista = Saca(fisicas, v)
        /\ resto.p \in 0..(Len(fisicas) - 1) \/ algoritmo # "CLOCK-M"
        /\ algoritmo # "CLOCK-M" => resto.p = s.p
    BY <1>2, <1>11, <1>12, <2>1, QuitaEs
  <2> QED
    BY <1>3, <2>1, <2>2
<1>14. PICK S \in SUBSET EnMemoria : S = {v} \cap {d \in Sucias : Acepta(d)}
  BY <1>11
<1>15. PICK m \in 0..(total_pages - 1) : m = pagina[v].marco
  BY <1>2 DEF Pagina
<1>16. PICK c \in Pagina : /\ c = Cargada(m) /\ c.marco = m /\ ~ c.modificada
                           /\ c.contenido = disco[t].bloques[n + 1]
  BY <1>1, <1>5, CargadaEs
<1>17. PICK f \in [Dir -> Pagina] :
          /\ f = Otras(s.uso)
          /\ \A d \in Dir : /\ f[d].contenido = pagina[d].contenido
                            /\ f[d].marco = pagina[d].marco
                            /\ f[d].modificada = pagina[d].modificada
  BY <1>1, <1>8, OtrasEs DEF Elegida
<1>18. PICK sin : sin = [tablas EXCEPT ![x] = Saca(@, y)]
  OBVIOUS
<1>19. /\ disco' = Escritos(S) /\ fallo' \in BOOLEAN
       /\ pagina' = [f EXCEPT ![v] = Ausente, ![a] = c]
       /\ tablas' = [sin EXCEPT ![t] = Append(@, n)]
       /\ fisicas' = Append(Saca(fisicas, v), a)
       /\ puntero' = resto.p
       /\ UNCHANGED <<algoritmo, frame_table, usadas, hayFile, query>>
  <2>1. /\ disco' = Escritos({v} \cap {d \in Sucias : Acepta(d)})
        /\ fallo' = (fallo \/ (v \in Sucias /\ ~ Acepta(v)))
        /\ pagina' = [Otras(s.uso) EXCEPT ![v] = Ausente, ![Actual] = Cargada(pagina[v].marco)]
        /\ tablas' = [[tablas EXCEPT ![v[1]] = Saca(@, v[2])]
                         EXCEPT ![instr.tag] = Append(@, instr.num)]
        /\ fisicas' = Append(resto.lista, Actual)
        /\ puntero' = resto.p
        /\ UNCHANGED <<algoritmo, frame_table, usadas, hayFile, query>>
    BY <1>7, <1>9, <1>12 DEF Reemplaza, Otras
  <2> QED
    BY <1>5, <1>10, <1>13, <1>14, <1>15, <1>16, <1>17, <1>18, <2>1
<1>20. ListasBien'
  <2>1. Listas(tablas, fisicas)
    BY <1>1 DEF Coherente, ListasBien, Listas
  <2>2. Listas(sin, Saca(fisicas, v))
    BY <1>10, <1>11, <1>18, <2>1, ListasSaca
  <2>3. ~ Esta(Saca(fisicas, v), a)
    BY <1>2, <1>6, <1>11, SacaEs
  <2>4. Listas(tablas', fisicas')
    BY <1>6, <1>19, <2>2, <2>3, ListasAgrega
  <2> QED
    BY <2>4 DEF Listas, ListasBien
<1>21. Len(fisicas') = N /\ EnMemoria' = (EnMemoria \ {v}) \cup {a}
  <2>1. PICK g : g = Saca(fisicas, v)
    OBVIOUS
  <2>2. /\ g \in Seq(Dir) /\ Len(g) = N - 1 /\ IsInjective(g)
        /\ \A z : Esta(g, z) <=> Esta(fisicas, z) /\ z # v
    BY <1>2, <1>3, <1>11, <2>1, SacaEs
  <2>3. ~ Esta(g, a)
    BY <1>6, <2>2
  <2>4. /\ fisicas' \in Seq(Dir) /\ Len(fisicas') = Len(g) + 1
        /\ \A z : Esta(fisicas', z) <=> Esta(g, z) \/ z = a
    BY <1>19, <2>1, <2>2, <2>3, AgregaEs
  <2>5. Len(fisicas') = N
    BY <2>2, <2>4
  <2>6. /\ \A z : z \in EnMemoria <=> Esta(fisicas, z)
        /\ \A z : z \in EnMemoria' <=> Esta(fisicas', z)
    BY DEF EnMemoria, ToSet, Esta
  <2> QED
    BY <1>11, <2>2, <2>4, <2>5, <2>6
<1>22. /\ pagina' \in [Dir -> Pagina] /\ pagina'[a] = c
       /\ \A d \in Dir : d # a /\ d # v =>
             /\ pagina'[d].contenido = pagina[d].contenido
             /\ pagina'[d].marco = pagina[d].marco
             /\ pagina'[d].modificada = pagina[d].modificada
  <2>1. Cero \in Valor /\ 0 \in 0..MaxEdad /\ 0 \in 0..(total_pages - 1)
    BY <1>1, Basico
  <2>2. Ausente \in Pagina
    BY <2>1 DEF Ausente, Pagina
  <2> QED
    BY <1>11, <1>17, <1>19, <2>2
<1> QED
  BY <1>3, <1>5, <1>11, <1>13, <1>14, <1>15, <1>16, <1>19, <1>20, <1>21, <1>22 DEF Reemplazo

\* Reemplaza.
LEMMA PasoReemplaza ==
    ASSUME Seguro, Reemplaza
    PROVE  Seguro'
<1>1. MemoriaMiss /\ Coherente
  BY DEF Reemplaza, Seguro
<1>2. PICK v \in Dir : Reemplazo(v)
  BY ReemplazaEs
<1>3. PICK t \in Tag, n \in Numero, a \in Dir : t = instr.tag /\ n = instr.num /\ a = Actual
  BY <1>1, FaltaEs
<1>4. /\ a = <<t, n>> /\ a[1] = t /\ a[2] = n /\ a \notin EnMemoria
      /\ n + 1 \in 1..Len(disco[t].bloques)
  BY <1>1, <1>3, FaltaEs
<1>5. /\ v \in EnMemoria /\ v # a /\ ListasBien' /\ Len(fisicas') = Len(fisicas)
      /\ EnMemoria' = (EnMemoria \ {v}) \cup {a}
      /\ pagina' \in [Dir -> Pagina]
      /\ \A d \in Dir : d # a /\ d # v => /\ pagina'[d].contenido = pagina[d].contenido
                                          /\ pagina'[d].marco = pagina[d].marco
                                          /\ pagina'[d].modificada = pagina[d].modificada
      /\ puntero' \in 0..Len(fisicas) /\ (algoritmo # "CLOCK-M" => puntero' = 0)
      /\ fallo' \in BOOLEAN
      /\ UNCHANGED <<algoritmo, frame_table, usadas, hayFile, query>>
  BY <1>2, <1>3 DEF Reemplazo
<1>6. PICK S \in SUBSET EnMemoria :
         S = {v} \cap {d \in Sucias : Acepta(d)} /\ disco' = Escritos(S)
  BY <1>2 DEF Reemplazo
<1>7. /\ usadas = Len(fisicas) /\ usadas <= total_pages /\ pagina \in [Dir -> Pagina]
  BY <1>1 DEF Coherente, MarcosBien
<1>8. PICK m \in 0..(total_pages - 1) : m = pagina[v].marco
  BY <1>7 DEF Pagina
<1>9. PICK c \in Pagina : /\ c = Cargada(m) /\ c.marco = m /\ ~ c.modificada
                          /\ c.contenido = disco[t].bloques[n + 1] /\ pagina'[a] = c
  BY <1>1, <1>2, <1>3, <1>8, CargadaEs DEF Reemplazo
<1>10. EnMemoria \subseteq Dir /\ Pagina' = Pagina /\ total_pages' = total_pages
  BY <1>1, <1>5, <1>6, Basico DEF Pagina, total_pages
<1>11. Marcados(pagina', EnMemoria', frame_table')
  <2>1. Marcados(pagina, EnMemoria, frame_table)
    BY <1>1, MarcadosEs
  <2>2. PICK G \in SUBSET EnMemoria : G = EnMemoria \ {v}
    OBVIOUS
  <2>3. EnMemoria \ G = {v}
    BY <1>5, <2>2
  <2>4. {pagina[d].marco : d \in EnMemoria \ G} = {m}
    BY <1>8, <2>3
  <2>5. Marcados(pagina, G, frame_table \ {m})
    BY <1>7, <2>1, <2>4, MarcadosSale
  <2>6. \A d \in G : pagina'[d].marco = pagina[d].marco
    BY <1>4, <1>5, <1>9, <1>10, <2>2
  <2>7. pagina'[a].marco = m /\ m \notin frame_table \ {m}
    BY <1>5, <1>9
  <2>8. Marcados(pagina', G \cup {a}, (frame_table \ {m}) \cup {m})
    BY <1>5, <1>9, <2>5, <2>6, <2>7, MarcadosLlega
  <2>9. m \in frame_table
    BY <1>5, <1>8, <2>1 DEF Marcados
  <2>10. (frame_table \ {m}) \cup {m} = frame_table
    BY <2>9
  <2> QED
    BY <1>5, <1>6, <2>2, <2>8, <2>10
<1>12. MarcosBien'
  <2>1. usadas' = Len(fisicas') /\ usadas' <= total_pages' /\ puntero' \in 0..Len(fisicas')
    BY <1>5, <1>6, <1>7, <1>10
  <2> QED
    BY <1>5, <1>6, <1>9, <1>10, <1>11, <2>1 DEF MarcosBien, Marcados
<1>13. Grabado(disco', S)
  BY <1>1, <1>5, <1>6, EscritosEs
<1>14. DiscoBien'
  BY <1>1, <1>5, <1>6, <1>13, DiscoGrabado
<1>15. ASSUME NEW d \in Dir, d # v
       PROVE  /\ TieneBloque(d)' <=> TieneBloque(d)
              /\ TieneBloque(d) => disco'[d[1]].bloques[d[2] + 1] = disco[d[1]].bloques[d[2] + 1]
  <2>1. /\ d[1] \in Tag /\ <<d[1], (d[2] + 1) - 1>> = d
        /\ TieneBloque(d) <=> d[2] + 1 \in 1..Len(disco[d[1]].bloques)
    BY <1>1, DirEs
  <2>2. Len(disco'[d[1]].bloques) = Len(disco[d[1]].bloques)
    BY <1>13, <2>1 DEF Grabado
  <2>3. TieneBloque(d)' <=> TieneBloque(d)
    BY <2>2 DEF TieneBloque
  <2>4. d \notin S
    BY <1>6, <1>15
  <2>5. ASSUME TieneBloque(d)
        PROVE  disco'[d[1]].bloques[d[2] + 1] = disco[d[1]].bloques[d[2] + 1]
    <3>1. PICK i \in 1..Len(disco[d[1]].bloques) : i = d[2] + 1 /\ <<d[1], i - 1>> = d
      BY <2>1, <2>5
    <3>2. disco'[d[1]].bloques[i] = disco[d[1]].bloques[i]
      BY <1>13, <2>1, <2>4, <3>1 DEF Grabado
    <3> QED
      BY <3>1, <3>2
  <2> QED
    BY <2>3, <2>5
<1>16. LimpiaIgualDisco'
  <2> SUFFICES ASSUME NEW d \in (EnMemoria \ {v}) \cup {a}, ~ pagina'[d].modificada
               PROVE  TieneBloque(d)' /\ pagina'[d].contenido = disco'[d[1]].bloques[d[2] + 1]
    BY <1>5 DEF LimpiaIgualDisco, Sucias
  <2>1. d \in Dir /\ d # v
    BY <1>5, <1>10
  <2>2. TieneBloque(d) /\ pagina'[d].contenido = disco[d[1]].bloques[d[2] + 1]
    <3>1. CASE d = a
      BY <1>1, <1>3, <1>4, <1>5, <1>9, <3>1, DirEs
    <3>2. CASE d # a
      BY <1>5, <1>9, <2>1, <3>2 DEF Seguro, LimpiaIgualDisco, Sucias
    <3> QED
      BY <3>1, <3>2
  <2> QED
    BY <1>15, <2>1, <2>2
<1>17. ControlBien'
  BY <1>1, <1>5, <1>6, ObtenidaBien DEF Reemplaza, MemoriaMiss, Pide
<1> QED
  BY <1>5, <1>12, <1>14, <1>16, <1>17 DEF Seguro, Coherente

\* Delete.
LEMMA PasoDelete ==
    ASSUME Seguro, NEW t \in Tag, Delete(t)
    PROVE  Seguro'
<1>1. Coherente
  BY DEF Seguro
<1>2. /\ tablas \in [Tag -> Seq(Numero)] /\ tablas[t] \in Seq(Numero)
      /\ \A u \in Tag : IsInjective(tablas[u]) /\ Concuerda(tablas[u], fisicas, u)
      /\ pagina \in [Dir -> Pagina] /\ usadas = Len(fisicas) /\ usadas <= total_pages
      /\ disco \in [Tag -> Registro]
  BY <1>1 DEF Coherente, ListasBien, MarcosBien, DiscoBien, Registro
<1>3. PICK N \in Nat : N = Len(tablas[t]) /\ DOMAIN tablas[t] = 1..N
  BY <1>2
<1>4. PICK e : e = SinPaginas(t) /\ SinPrimeras(t, N, e)
  BY <1>1, <1>3, SinPaginasBien
<1>5. PICK P : P = ToSet(PaginasDe(t))
  OBVIOUS
<1>6. /\ fisicas' = e.lista /\ puntero' = e.p /\ usadas' = usadas - N
      /\ frame_table' = frame_table \ {pagina[d].marco : d \in P}
      /\ pagina' = [d \in Dir |-> IF d \in P THEN Ausente ELSE pagina[d]]
      /\ tablas' = [tablas EXCEPT ![t] = <<>>] /\ disco' = [disco EXCEPT ![t] = NoExiste]
      /\ Sigue \/ TerminaConError
      /\ UNCHANGED <<algoritmo, hayFile>>
  BY <1>3, <1>4, <1>5 DEF Delete
<1>7. \A y : y \in P <=> Fuera(t, N, y)
  BY <1>3, <1>5 DEF Fuera, ToSet, PaginasDe
<1>8. \A n \in Numero : Esta(fisicas, <<t, n>>) => <<t, n>> \in P
  <2> SUFFICES ASSUME NEW n \in Numero, Esta(fisicas, <<t, n>>) PROVE <<t, n>> \in P
    OBVIOUS
  <2>1. Esta(tablas[t], n)
    BY <1>2 DEF Concuerda
  <2>2. PICK i \in 1..N : tablas[t][i] = n
    BY <1>3, <2>1 DEF Esta
  <2> QED
    BY <1>7, <2>2 DEF Fuera
<1>9. \A u \in Tag, n \in Numero : u # t => <<u, n>> \notin P
  BY <1>7 DEF Fuera
<1>10. /\ fisicas' \in Seq(Dir) /\ IsInjective(fisicas') /\ Len(fisicas') \in Nat
       /\ Len(fisicas') + N = Len(fisicas)
       /\ \A y : Esta(fisicas', y) <=> Esta(fisicas, y) /\ y \notin P
       /\ \A y, z : Antes(fisicas', y, z) <=> Antes(fisicas, y, z) /\ y \notin P /\ z \notin P
       /\ puntero' \in 0..Len(fisicas') /\ (algoritmo # "CLOCK-M" => puntero' = 0)
  BY <1>4, <1>6, <1>7 DEF SinPrimeras
<1>11. P \subseteq EnMemoria
  <2> SUFFICES ASSUME NEW i \in 1..N PROVE <<t, tablas[t][i]>> \in EnMemoria
    BY <1>7 DEF Fuera
  <2>1. tablas[t][i] \in Numero /\ Esta(tablas[t], tablas[t][i])
    BY <1>2, <1>3 DEF Esta
  <2>2. Esta(fisicas, <<t, tablas[t][i]>>)
    BY <1>2, <2>1 DEF Concuerda
  <2> QED
    BY <2>2 DEF Esta, EnMemoria, ToSet
<1>12. EnMemoria' = EnMemoria \ P
  <2>1. /\ \A z : z \in EnMemoria <=> Esta(fisicas, z)
        /\ \A z : z \in EnMemoria' <=> Esta(fisicas', z)
    BY DEF EnMemoria, ToSet, Esta
  <2> QED
    BY <1>10, <2>1
<1>13. ListasBien'
  <2>1. <<>> \in Seq(Numero) /\ DOMAIN <<>> = {} /\ IsInjective(<<>>)
    BY DEF IsInjective
  <2>2. PICK w : w = tablas'
    OBVIOUS
  <2>3. w \in [Tag -> Seq(Numero)] /\ w[t] = <<>> /\ \A u \in Tag : u # t => w[u] = tablas[u]
    BY <1>2, <1>6, <2>1, <2>2
  <2>4. Concuerda(<<>>, fisicas', t)
    <3>1. \A m, n \in Numero : ~ Antes(fisicas', <<t, m>>, <<t, n>>)
      <4> SUFFICES ASSUME NEW m \in Numero, NEW n \in Numero,
                          Antes(fisicas', <<t, m>>, <<t, n>>)
                   PROVE  FALSE
        OBVIOUS
      <4>1. Antes(fisicas, <<t, m>>, <<t, n>>) /\ <<t, m>> \notin P
        BY <1>10
      <4>2. Esta(fisicas, <<t, m>>)
        BY <4>1 DEF Antes, Esta
      <4> QED
        BY <1>8, <4>1, <4>2
    <3>2. \A n \in Numero : ~ Esta(fisicas', <<t, n>>)
      BY <1>8, <1>10
    <3>3. \A m, n \in Numero : ~ Esta(<<>>, n) /\ ~ Antes(<<>>, m, n)
      BY <2>1 DEF Esta, Antes
    <3> QED
      BY <3>1, <3>2, <3>3 DEF Concuerda
  <2>5. ASSUME NEW u \in Tag, u # t PROVE Concuerda(tablas[u], fisicas', u)
    BY <1>2, <1>9, <1>10, <2>5 DEF Concuerda
  <2>6. \A u \in Tag : IsInjective(w[u]) /\ Concuerda(w[u], fisicas', u)
    BY <1>2, <2>1, <2>3, <2>4, <2>5
  <2> QED
    BY <1>10, <2>2, <2>3, <2>6 DEF ListasBien
<1>14. Pagina' = Pagina /\ total_pages' = total_pages /\ EnMemoria \subseteq Dir
  BY <1>1, <1>6, Basico DEF Pagina, total_pages
<1>15. pagina' \in [Dir -> Pagina] /\ \A d \in Dir \ P : pagina'[d] = pagina[d]
  <2>1. Cero \in Valor /\ 0 \in 0..MaxEdad /\ 0 \in 0..(total_pages - 1)
    BY <1>1, Basico
  <2>2. Ausente \in Pagina
    BY <2>1 DEF Ausente, Pagina
  <2> QED
    BY <1>2, <1>6, <2>2
<1>16. Marcados(pagina', EnMemoria', frame_table')
  <2>1. Marcados(pagina, EnMemoria, frame_table)
    BY <1>1, MarcadosEs
  <2>2. PICK G \in SUBSET EnMemoria : G = EnMemoria \ P
    OBVIOUS
  <2>3. EnMemoria \ G = P
    BY <1>11, <2>2
  <2>4. \A d \in G : pagina'[d].marco = pagina[d].marco
    BY <1>14, <1>15, <2>2
  <2>5. Marcados(pagina', G, frame_table \ {pagina[d].marco : d \in EnMemoria \ G})
    BY <1>15, <2>1, <2>4, MarcadosSale
  <2> QED
    BY <1>6, <1>12, <2>2, <2>3, <2>5
<1>17. MarcosBien'
  <2>1. usadas' = Len(fisicas') /\ usadas' <= total_pages'
    <3>1. PICK a \in Nat, b \in Nat, c \in Nat :
             a = Len(fisicas) /\ b = Len(fisicas') /\ c = total_pages
      BY <1>1, <1>10, Basico
    <3>2. b + N = a /\ a <= c
      BY <1>2, <1>10, <3>1
    <3>3. a - N = b /\ b <= c
      BY <1>3, <3>2
    <3> QED
      BY <1>2, <1>6, <1>14, <3>1, <3>3
  <2> QED
    BY <1>6, <1>10, <1>14, <1>16, <2>1 DEF MarcosBien, Marcados
<1>18. NoExiste \in Registro /\ NoExiste.fase = "no" /\ NoExiste.bloques = <<>>
       /\ Len(NoExiste.bloques) = 0
  <2>1. <<>> \in Seq(Valor)
    OBVIOUS
  <2> QED
    BY <2>1 DEF NoExiste, Registro
<1>19. /\ disco' \in [Tag -> Registro] /\ disco'[t] = NoExiste
       /\ \A u \in Tag : u # t => disco'[u] = disco[u]
  BY <1>2, <1>6, <1>18
<1>20. DiscoBien'
  <2>1. ASSUME NEW u \in Tag
        PROVE  Len(disco'[u].bloques) <= MaxBloques
               /\ (disco'[u].fase = "no" => disco'[u].bloques = <<>>)
    <3>1. MaxBloques \in Nat
      BY <1>1, Basico
    <3>2. CASE u = t
      BY <1>18, <1>19, <3>1, <3>2
    <3>3. CASE u # t
      BY <1>1, <1>19, <3>3 DEF Coherente, DiscoBien, Existe
    <3> QED
      BY <3>2, <3>3
  <2> QED
    BY <1>1, <1>6, <1>19, <2>1 DEF Coherente, DiscoBien, Existe, Registro
<1>21. LimpiaIgualDisco'
  <2> SUFFICES ASSUME NEW d \in EnMemoria \ P, ~ pagina'[d].modificada
               PROVE  TieneBloque(d)' /\ pagina'[d].contenido = disco'[d[1]].bloques[d[2] + 1]
    BY <1>12 DEF LimpiaIgualDisco, Sucias
  <2>1. d \in Dir /\ pagina'[d] = pagina[d]
    BY <1>14, <1>15
  <2>2. d[1] \in Tag /\ d[2] \in Numero /\ d = <<d[1], d[2]>>
    BY <1>1, <2>1, DirEs
  <2>3. Esta(fisicas, d)
    BY DEF EnMemoria, ToSet, Esta
  <2>4. d[1] # t
    BY <1>8, <2>2, <2>3
  <2>5. TieneBloque(d) /\ pagina[d].contenido = disco[d[1]].bloques[d[2] + 1]
    BY <2>1 DEF Seguro, LimpiaIgualDisco, Sucias
  <2> QED
    BY <1>19, <2>1, <2>2, <2>4, <2>5 DEF TieneBloque
<1>22. ControlBien'
  BY <1>1, <1>6, TerminaBien
<1> QED
  BY <1>13, <1>17, <1>20, <1>21, <1>22 DEF Seguro, Coherente

\* Caer.
LEMMA PasoCaer ==
    ASSUME Seguro, Caer
    PROVE  Seguro'
<1>1. algoritmo' \in Algoritmos
  BY DEF Seguro, Coherente, ControlBien, Caer
<1>2. /\ tablas' = [t \in Tag |-> <<>>] /\ fisicas' = <<>> /\ pagina' = [d \in Dir |-> Ausente]
      /\ frame_table' = {} /\ usadas' = 0 /\ puntero' = 0 /\ UNCHANGED algoritmo
  BY DEF Caer, Vacia
<1>3. /\ algoritmo \in Algoritmos /\ EnMemoria' = {} /\ Len(fisicas') = 0
      /\ total_pages' = total_pages /\ Pagina' = Pagina
  BY <1>1, <1>2 DEF EnMemoria, ToSet, Pagina, total_pages
<1>4. total_pages \in Nat \ {0} /\ Cero \in Valor /\ 0 \in 0..MaxEdad
  BY <1>3, MemoriaAssumption DEF MemoriaAssumption, total_pages
<1>5. Ausente \in Pagina
  BY <1>4 DEF Ausente, Pagina
<1>6. MarcosBien'
  BY <1>2, <1>3, <1>4, <1>5 DEF MarcosBien
<1>7. <<>> \in Seq(Dir) /\ <<>> \in Seq(Numero) /\ IsInjective(<<>>) /\ DOMAIN <<>> = {}
  BY DEF IsInjective
<1>8. \A t \in Tag : Concuerda(<<>>, <<>>, t)
  BY <1>7 DEF Concuerda, Esta, Antes
<1>9. ListasBien'
  BY <1>2, <1>7, <1>8 DEF ListasBien
<1>10. LimpiaIgualDisco'
  BY <1>3 DEF LimpiaIgualDisco
<1>11. DiscoBien'
  BY DEF Seguro, Coherente, DiscoBien, Caer, almacen, Existe
<1>12. ControlBien'
  BY <1>1 DEF ControlBien, Caer
<1> QED
  BY <1>6, <1>9, <1>10, <1>11, <1>12 DEF Seguro, Coherente

\* The Worker starts.
LEMMA SeguroInicio ==
    ASSUME Init
    PROVE  Seguro
<1>1. ListasBien /\ MarcosBien /\ LimpiaIgualDisco
  BY VaciaBien DEF Init
<1>2. disco = [t \in Tag |-> NoExiste] /\ hayFile = FALSE
  BY DEF Init
<1>3. NoExiste \in Registro /\ NoExiste.bloques = <<>> /\ Len(NoExiste.bloques) = 0
  <2>1. <<>> \in Seq(Valor)
    OBVIOUS
  <2> QED
    BY <2>1 DEF NoExiste, Registro
<1>4. MaxBloques \in Nat
  BY MemoriaAssumption DEF MemoriaAssumption
<1>5. \A t \in Tag : /\ Len(disco[t].bloques) <= MaxBloques /\ disco[t].bloques = <<>>
                     /\ disco[t] \in Registro
  BY <1>2, <1>3, <1>4
<1>6. DiscoBien
  BY <1>2, <1>5 DEF DiscoBien, Registro
<1>7. ControlBien
  BY DEF ControlBien, Init, Nada
<1> QED
  BY <1>1, <1>6, <1>7 DEF Seguro, Coherente

\* No step breaks it.
LEMMA SeguroPaso ==
    ASSUME Seguro, [Next]_vars
    PROVE  Seguro'
<1>1. CASE Iniciar \/ Terminar
  BY <1>1, PasoQuery
<1>2. CASE Desalojar
  BY <1>2, PasoDesalojar
<1>3. CASE PasaSegundo
  BY <1>3, PasoSegundo
<1>4. CASE Caer
  BY <1>4, PasoCaer
<1>5. CASE \E op \in {"READ", "WRITE"}, t \in Tag, i, j \in Numero, v \in Valor :
              Empezar(op, t, i, j, v)
  BY <1>5, PasoEmpezar
<1>6. CASE Acierto
  BY <1>6, PasoAcierto
<1>7. CASE FallaLectura
  BY <1>7, PasoFallaLectura
<1>8. CASE CargaEnMarcoLibre
  BY <1>8, PasoCarga
<1>9. CASE Reemplaza
  BY <1>9, PasoReemplaza
<1>10. CASE Acceder
  BY <1>10, PasoAcceder
<1>11. CASE \E t \in Tag : Flush(t) \/ Commit(t) \/ Delete(t) \/ Create(t)
  BY <1>11, PasoFlush, PasoCommit, PasoDelete, PasoCreate
<1>12. CASE \E t \in Tag, n \in 1..MaxBloques : Truncate(t, n)
  BY <1>12, PasoTruncate
<1>13. CASE \E o, d \in Tag : TagFile(o, d)
  BY <1>13, PasoTagFile
<1>14. CASE UNCHANGED vars
  <2>1. Datos'
    BY <1>14, Quieto DEF vars
  <2>2. ControlBien'
    BY <1>14 DEF vars, Seguro, Coherente, ControlBien
  <2> QED
    BY <2>1, <2>2 DEF Seguro, Coherente, Datos
<1> QED
  BY <1>1, <1>2, <1>3, <1>4, <1>5, <1>6, <1>7, <1>8, <1>9, <1>10, <1>11, <1>12, <1>13, <1>14
     DEF Next, Numero

\* The invariant of the memory holds in every state.
THEOREM SeguroSiempre == Spec => []Seguro
BY SeguroInicio, SeguroPaso, PTL DEF Spec

-----------------------------------------------------------------------------
(* Theorems.                                                               *)

\* What the invariant says of the types.
LEMMA SeguroTipos ==
    ASSUME Seguro
    PROVE  TypeOK
<1>1. Coherente
  BY DEF Seguro
<1>2. /\ usadas = Len(fisicas) /\ usadas <= total_pages /\ puntero \in 0..Len(fisicas)
      /\ Len(fisicas) \in Nat /\ total_pages \in Nat
  BY <1>1, Basico DEF Coherente, MarcosBien
<1>3. usadas \in 0..total_pages /\ puntero \in 0..total_pages
  BY <1>2
<1>4. frame_table \in SUBSET (0..(total_pages - 1))
  <2>1. /\ frame_table = {pagina[d].marco : d \in EnMemoria} /\ pagina \in [Dir -> Pagina]
        /\ EnMemoria \subseteq Dir
    BY <1>1, Basico DEF Coherente, MarcosBien
  <2>2. \A d \in Dir : pagina[d].marco \in 0..(total_pages - 1)
    BY <2>1 DEF Pagina
  <2> QED
    BY <2>1, <2>2
<1>5. \A t \in Tag : disco[t].fase \in {"no", "wip", "commit"} /\ disco[t].bloques \in Seq(Valor)
  BY <1>1, DiscoEs
<1> QED
  BY <1>1, <1>3, <1>4, <1>5
     DEF TypeOK, Coherente, ListasBien, MarcosBien, DiscoBien, ControlBien, Numero

\* What it says of the four records.
LEMMA SeguroMarcos ==
    ASSUME Seguro
    PROVE  MarcosCoherentes
<1>1. Coherente
  BY DEF Seguro
<1>2. fisicas \in Seq(Dir) /\ IsInjective(fisicas) /\ usadas = Len(fisicas)
      /\ puntero \in 0..Len(fisicas) /\ frame_table = {pagina[d].marco : d \in EnMemoria}
  BY <1>1 DEF Coherente, ListasBien, MarcosBien
<1>3. PICK M \in Nat : M = Len(fisicas) /\ DOMAIN fisicas = 1..M
  BY <1>2
<1>4. ASSUME NEW t \in Tag
      PROVE  /\ IsInjective(tablas[t])
             /\ ToSet(PaginasDe(t)) = {d \in EnMemoria : d[1] = t}
             /\ \A i, j \in DOMAIN tablas[t] : i < j =>
                   Lugar(fisicas, PaginasDe(t)[i]) < Lugar(fisicas, PaginasDe(t)[j])
  <2>1. /\ tablas[t] \in Seq(Numero) /\ IsInjective(tablas[t])
        /\ Concuerda(tablas[t], fisicas, t)
    BY <1>1 DEF Coherente, ListasBien
  <2>2. PICK N \in Nat : N = Len(tablas[t]) /\ DOMAIN tablas[t] = 1..N
    BY <2>1
  <2>3. \A i \in 1..N : /\ PaginasDe(t)[i] = <<t, tablas[t][i]>> /\ tablas[t][i] \in Numero
                        /\ Esta(tablas[t], tablas[t][i])
    BY <2>1, <2>2 DEF PaginasDe, Esta
  <2>4. ASSUME NEW d \in ToSet(PaginasDe(t)) PROVE d \in EnMemoria /\ d[1] = t
    <3>1. PICK i \in 1..N : d = <<t, tablas[t][i]>>
      BY <2>2, <2>3 DEF ToSet, PaginasDe
    <3>2. Esta(fisicas, d)
      BY <2>1, <2>3, <3>1 DEF Concuerda
    <3> QED
      BY <3>1, <3>2 DEF Esta, EnMemoria, ToSet
  <2>5. ASSUME NEW d \in EnMemoria, d[1] = t PROVE d \in ToSet(PaginasDe(t))
    <3>1. d \in Dir
      BY <1>1, Basico
    <3>2. d = <<t, d[2]>> /\ d[2] \in Numero
      BY <1>1, <2>5, <3>1, DirEs
    <3>3. Esta(fisicas, d)
      BY DEF Esta, EnMemoria, ToSet
    <3>4. Esta(tablas[t], d[2])
      BY <2>1, <3>2, <3>3 DEF Concuerda
    <3>5. PICK i \in 1..N : tablas[t][i] = d[2]
      BY <2>2, <3>4 DEF Esta
    <3> QED
      BY <2>2, <2>3, <3>2, <3>5 DEF ToSet, PaginasDe
  <2>6. ASSUME NEW i \in 1..N, NEW j \in 1..N, i < j
        PROVE  Lugar(fisicas, PaginasDe(t)[i]) < Lugar(fisicas, PaginasDe(t)[j])
    <3>1. PICK m \in Numero, n \in Numero : m = tablas[t][i] /\ n = tablas[t][j]
      BY <2>3
    <3>2. Antes(tablas[t], m, n)
      BY <2>2, <2>6, <3>1 DEF Antes
    <3>3. PICK x, y : x = <<t, m>> /\ y = <<t, n>>
      OBVIOUS
    <3>4. Antes(fisicas, x, y)
      BY <2>1, <3>2, <3>3 DEF Concuerda
    <3>5. PICK k \in 1..M, l \in 1..M : k < l /\ fisicas[k] = x /\ fisicas[l] = y
      BY <1>3, <3>4 DEF Antes
    <3>6. Esta(fisicas, x) /\ Esta(fisicas, y)
      BY <1>3, <3>5 DEF Esta
    <3>7. /\ Lugar(fisicas, x) \in 1..M /\ fisicas[Lugar(fisicas, x)] = x
          /\ Lugar(fisicas, y) \in 1..M /\ fisicas[Lugar(fisicas, y)] = y
      BY <1>2, <1>3, <3>6, LugarEs
    <3>8. Lugar(fisicas, x) = k /\ Lugar(fisicas, y) = l
      BY <1>2, <1>3, <3>5, <3>7 DEF IsInjective
    <3> QED
      BY <2>3, <3>1, <3>3, <3>5, <3>8
  <2> QED
    BY <2>1, <2>2, <2>4, <2>5, <2>6
<1>5. Cardinality(frame_table) = Len(fisicas)
  BY <1>1, Contados
<1>6. puntero <= Len(fisicas)
  BY <1>2, <1>3
<1> QED
  BY <1>2, <1>4, <1>5, <1>6 DEF MarcosCoherentes

\* What it says of the choice of the victim.
LEMMA SeguroVictima ==
    ASSUME Seguro
    PROVE  VictimaOptima
<1>1. SUFFICES ASSUME fisicas # <<>>
               PROVE  /\ Seleccion.victima \in EnMemoria
                      /\ \A d \in EnMemoria :
                            IF algoritmo = "LRU"
                            THEN pagina[d].edad <= pagina[Seleccion.victima].edad
                            ELSE Clase(Seleccion.victima) <= Clase(d)
  BY DEF VictimaOptima
<1>2. Elegida(Seleccion)
  BY <1>1, SeleccionBien DEF Seguro
<1> QED
  BY <1>2 DEF Elegida

\* Every variable of the memory always has its type.
THEOREM TypeOKSiempre == Spec => []TypeOK
<1>1. Seguro => TypeOK
  BY SeguroTipos
<1> QED
  BY <1>1, SeguroSiempre, PTL

\* The page tables, physical_pages, frame_table and used_pages always agree.
THEOREM MarcosCoherentesSiempre == Spec => []MarcosCoherentes
<1>1. Seguro => MarcosCoherentes
  BY SeguroMarcos
<1> QED
  BY <1>1, SeguroSiempre, PTL

\* A page that is not modified always holds what Storage holds.
THEOREM LimpiaIgualDiscoSiempre == Spec => []LimpiaIgualDisco
<1>1. Seguro => LimpiaIgualDisco
  BY DEF Seguro
<1> QED
  BY <1>1, SeguroSiempre, PTL

\* The page that would be replaced is always one of the best.
THEOREM VictimaOptimaSiempre == Spec => []VictimaOptima
<1>1. Seguro => VictimaOptima
  BY SeguroVictima
<1> QED
  BY <1>1, SeguroSiempre, PTL

-----------------------------------------------------------------------------
(* The refinement of MemoriaPlana.  Besides the invariant: a page in memory *)
(* has its block in Storage, for blocks leave only with DELETE, and the     *)
(* page of an access is in memory since it was obtained.                    *)

ConBloque == \A d \in EnMemoria : TieneBloque(d)
Asida == instr # Nada /\ instr.paso = "acceder" => Actual \in EnMemoria
Plano == Seguro /\ ConBloque /\ Asida

\* What a query sees of a file:tag, by the pages E in memory.
Visto(E, pag, dd, t, i) == IF <<t, i - 1>> \in E THEN pag[<<t, i - 1>>].contenido
                           ELSE dd[t].bloques[i]
Mirada(E, pag, dd) == [t \in Tag |-> [i \in 1..Len(dd[t].bloques) |-> Visto(E, pag, dd, t, i)]]
Almacen == [Tag -> Registro]

\* The page tables say which pages those are.
LEMMA MiradaEs ==
    ASSUME NEW tt, NEW f, Listas(tt, f), NEW dd \in Almacen, NEW pag,
           \A t \in Tag : Len(dd[t].bloques) <= MaxBloques
    PROVE  [t \in Tag |-> [i \in DOMAIN dd[t].bloques |->
               IF Contains(tt[t], i - 1) THEN pag[<<t, i - 1>>].contenido ELSE dd[t].bloques[i]]]
           = Mirada(ToSet(f), pag, dd)
<1> DEFINE A(t) == [i \in DOMAIN dd[t].bloques |->
               IF Contains(tt[t], i - 1) THEN pag[<<t, i - 1>>].contenido ELSE dd[t].bloques[i]]
           B(t) == [i \in 1..Len(dd[t].bloques) |-> Visto(ToSet(f), pag, dd, t, i)]
<1>1. ASSUME NEW t \in Tag PROVE A(t) = B(t)
  <2>1. dd[t].bloques \in Seq(Valor) /\ Len(dd[t].bloques) <= MaxBloques
    BY DEF Almacen, Registro
  <2>2. PICK N \in Nat : N = Len(dd[t].bloques) /\ DOMAIN dd[t].bloques = 1..N
    BY <2>1
  <2>3. MaxBloques \in Nat
    BY MemoriaAssumption DEF MemoriaAssumption
  <2>4. \A i \in 1..N : i - 1 \in Numero
    BY <2>1, <2>2, <2>3 DEF Numero
  <2>5. tt[t] \in Seq(Numero) /\ Concuerda(tt[t], f, t)
    BY DEF Listas
  <2>6. ASSUME NEW i \in 1..N PROVE Contains(tt[t], i - 1) <=> <<t, i - 1>> \in ToSet(f)
    <3>1. Contains(tt[t], i - 1) <=> Esta(tt[t], i - 1)
      BY <2>5 DEF Contains, Esta
    <3>2. <<t, i - 1>> \in ToSet(f) <=> Esta(f, <<t, i - 1>>)
      BY DEF ToSet, Esta
    <3> QED
      BY <2>4, <2>5, <3>1, <3>2 DEF Concuerda
  <2>7. \A i \in 1..N :
           (IF Contains(tt[t], i - 1) THEN pag[<<t, i - 1>>].contenido ELSE dd[t].bloques[i])
           = Visto(ToSet(f), pag, dd, t, i)
    BY <2>6 DEF Visto
  <2> QED
    BY <2>2, <2>7
<1>2. [t \in Tag |-> A(t)] = [t \in Tag |-> B(t)]
  <2> HIDE DEF A, B
  <2> QED
    BY <1>1
<1> QED
  BY <1>2 DEF Mirada

\* What is seen now, and after a step.
LEMMA VistaAhora ==
    ASSUME Coherente
    PROVE  Vista = Mirada(EnMemoria, pagina, disco)
<1>1. Listas(tablas, fisicas) /\ disco \in Almacen
  BY DEF Coherente, ListasBien, Listas, DiscoBien, Almacen, Registro
<1>2. \A t \in Tag : Len(disco[t].bloques) <= MaxBloques
  BY DEF Coherente, DiscoBien
<1> QED
  BY <1>1, <1>2, MiradaEs DEF Vista, EnMemoria

\* The same after a step.
LEMMA VistaLuego ==
    ASSUME Coherente'
    PROVE  Vista' = Mirada(EnMemoria', pagina', disco')
<1>1. Listas(tablas', fisicas') /\ disco' \in Almacen
  BY DEF Coherente, ListasBien, Listas, DiscoBien, Almacen, Registro
<1>2. \A t \in Tag : Len(disco'[t].bloques) <= MaxBloques
  BY DEF Coherente, DiscoBien
<1> QED
  BY <1>1, <1>2, MiradaEs DEF Vista, EnMemoria

\* Two states that look the same block by block look the same.
LEMMA MiradaIgual ==
    ASSUME NEW E, NEW pag, NEW dd, NEW F, NEW qag, NEW ee,
           \A t \in Tag : /\ Len(ee[t].bloques) = Len(dd[t].bloques)
                          /\ \A i \in 1..Len(dd[t].bloques) :
                                Visto(F, qag, ee, t, i) = Visto(E, pag, dd, t, i)
    PROVE  Mirada(F, qag, ee) = Mirada(E, pag, dd)
<1> DEFINE A(t) == [i \in 1..Len(ee[t].bloques) |-> Visto(F, qag, ee, t, i)]
           B(t) == [i \in 1..Len(dd[t].bloques) |-> Visto(E, pag, dd, t, i)]
<1>1. \A t \in Tag : A(t) = B(t)
  OBVIOUS
<1>2. [t \in Tag |-> A(t)] = [t \in Tag |-> B(t)]
  <2> HIDE DEF A, B
  <2> QED
    BY <1>1
<1> QED
  BY <1>2 DEF Mirada

\* The step of MemoriaPlana that a step is, if it is not a stutter.
Refleja == Plana!Next \/ (disco' = disco /\ Vista' = Vista)

\* The pages in memory are those of the page tables.
LEMMA EnTablas ==
    ASSUME NEW tt, NEW f, Listas(tt, f)
    PROVE  /\ ToSet(f) \subseteq Dir
           /\ \A t \in Tag, n \in Numero : <<t, n>> \in ToSet(f) <=> Esta(tt[t], n)
<1>1. f \in Seq(Dir) /\ \A t \in Tag : Concuerda(tt[t], f, t)
  BY DEF Listas
<1>2. ToSet(f) \subseteq Dir
  BY <1>1 DEF ToSet
<1>3. \A d : d \in ToSet(f) <=> Esta(f, d)
  BY DEF ToSet, Esta
<1> QED
  BY <1>1, <1>2, <1>3 DEF Concuerda

\* What is seen of a file:tag now, and after a step.
LEMMA VistaEn ==
    ASSUME Coherente, NEW u \in Tag
    PROVE  /\ Vista[u] = [i \in 1..Len(disco[u].bloques) |-> Visto(EnMemoria, pagina, disco, u, i)]
           /\ \A i \in 1..Len(disco[u].bloques) :
                 Vista[u][i] = Visto(EnMemoria, pagina, disco, u, i)
<1>1. PICK V : V = Mirada(EnMemoria, pagina, disco)
  OBVIOUS
<1>2. Vista = V
  BY <1>1, VistaAhora
<1>3. V[u] = [i \in 1..Len(disco[u].bloques) |-> Visto(EnMemoria, pagina, disco, u, i)]
  BY <1>1 DEF Mirada
<1> QED
  BY <1>2, <1>3

\* The same after a step.
LEMMA VistaEnLuego ==
    ASSUME Coherente', NEW u \in Tag
    PROVE  /\ Vista'[u] = [i \in 1..Len(disco'[u].bloques) |->
                              Visto(EnMemoria', pagina', disco', u, i)]
           /\ \A i \in 1..Len(disco'[u].bloques) :
                 Vista'[u][i] = Visto(EnMemoria', pagina', disco', u, i)
<1>1. PICK V : V = Mirada(EnMemoria', pagina', disco')
  OBVIOUS
<1>2. Vista' = V
  BY <1>1, VistaLuego
<1>3. V[u] = [i \in 1..Len(disco'[u].bloques) |-> Visto(EnMemoria', pagina', disco', u, i)]
  BY <1>1 DEF Mirada
<1> QED
  BY <1>2, <1>3

\* A file:tag that looks the same block by block looks the same.
LEMMA VistaIgualEn ==
    ASSUME Coherente, Coherente', NEW u \in Tag,
           Len(disco'[u].bloques) = Len(disco[u].bloques),
           \A i \in 1..Len(disco[u].bloques) :
              Visto(EnMemoria', pagina', disco', u, i) = Visto(EnMemoria, pagina, disco, u, i)
    PROVE  Vista'[u] = Vista[u]
<1>1. PICK A, B : A = Vista[u] /\ B = Vista'[u]
  OBVIOUS
<1>2. A = [i \in 1..Len(disco[u].bloques) |-> Visto(EnMemoria, pagina, disco, u, i)]
  BY <1>1, VistaEn
<1>3. B = [i \in 1..Len(disco'[u].bloques) |-> Visto(EnMemoria', pagina', disco', u, i)]
  BY <1>1, VistaEnLuego
<1>4. A = B
  BY <1>2, <1>3
<1> QED
  BY <1>1, <1>4

\* What is seen is a table over the file:tags.
LEMMA VistaTabla == Vista = [t \in Tag |-> Vista[t]] /\ Vista' = [t \in Tag |-> Vista'[t]]
BY DEF Vista

\* A table that changes in one place.
LEMMA CambiaUna ==
    ASSUME NEW S, NEW V, NEW W, V = [s \in S |-> V[s]], W = [s \in S |-> W[s]],
           NEW t \in S, NEW x, W[t] = x, \A u \in S : u # t => W[u] = V[u]
    PROVE  W = [V EXCEPT ![t] = x]
OBVIOUS

Reflejado == Refleja /\ ConBloque' /\ Asida'

\* A step after which each block looks the same.
LEMMA VistaQuieta ==
    ASSUME Seguro, Seguro',
           \A t \in Tag :
              /\ Len(disco'[t].bloques) = Len(disco[t].bloques)
              /\ \A i \in 1..Len(disco[t].bloques) :
                    Visto(EnMemoria', pagina', disco', t, i) = Visto(EnMemoria, pagina, disco, t, i)
    PROVE  Vista' = Vista
<1>1. Vista = Mirada(EnMemoria, pagina, disco)
  BY VistaAhora DEF Seguro
<1>2. Vista' = Mirada(EnMemoria', pagina', disco')
  BY VistaLuego DEF Seguro
<1>3. Mirada(EnMemoria', pagina', disco') = Mirada(EnMemoria, pagina, disco)
  BY MiradaIgual
<1> QED
  BY <1>1, <1>2, <1>3

\* The same pages with the same contents, and nothing new in Storage.
LEMMA NadaCambia ==
    ASSUME Seguro, Seguro', ConBloque, disco' = disco, EnMemoria' = EnMemoria,
           \A d \in EnMemoria : pagina'[d].contenido = pagina[d].contenido
    PROVE  Refleja /\ ConBloque'
<1>1. Vista' = Vista
  BY VistaQuieta DEF Visto
<1>2. ConBloque'
  BY DEF ConBloque, TieneBloque
<1> QED
  BY <1>1, <1>2 DEF Refleja

\* Nothing of the memory or of Storage changes.
LEMMA NadaPlano ==
    ASSUME Plano, Seguro', UNCHANGED <<algoritmo, memoria, almacen>>
    PROVE  Refleja /\ ConBloque'
<1>1. disco' = disco /\ pagina' = pagina /\ EnMemoria' = EnMemoria
  BY DEF memoria, almacen, EnMemoria
<1> QED
  BY <1>1, NadaCambia DEF Plano

\* Iniciar, Terminar, Empezar and FallaLectura.
LEMMA QuietoPlano ==
    ASSUME Plano, Seguro',
           \/ Iniciar \/ Terminar \/ FallaLectura
           \/ \E op \in {"READ", "WRITE"}, t \in Tag, i, j \in 0..(MaxBloques - 1), v \in Valor :
                 Empezar(op, t, i, j, v)
    PROVE  Reflejado
<1>1. UNCHANGED <<algoritmo, memoria, almacen>>
  BY DEF Iniciar, Terminar, FallaLectura, Empezar
<1>2. instr' = instr \/ instr' = Nada \/ instr'.paso = "obtener"
  BY DEF Iniciar, Terminar, FallaLectura, TerminaConError, Empezar
<1>3. EnMemoria' = EnMemoria
  BY <1>1 DEF memoria, EnMemoria
<1>4. Asida'
  BY <1>2, <1>3 DEF Plano, Asida, Actual
<1> QED
  BY <1>1, <1>4, NadaPlano DEF Reflejado

\* Acierto.
LEMMA AciertoPlano ==
    ASSUME Plano, Seguro', Acierto
    PROVE  Reflejado
<1>1. Coherente /\ instr # Nada
  BY DEF Plano, Seguro, Acierto, Pide
<1>2. /\ instr.tag \in Tag /\ instr.num \in Numero /\ Actual \in Dir
      /\ Actual = <<instr.tag, instr.num>>
  BY <1>1, InstrEs DEF Actual
<1>3. Listas(tablas, fisicas) /\ pagina \in [Dir -> Pagina] /\ EnMemoria \subseteq Dir
  BY <1>1, Basico DEF Coherente, ListasBien, MarcosBien, Listas
<1>4. Actual \in EnMemoria
  <2>1. Esta(tablas[instr.tag], instr.num)
    BY <1>2, <1>3 DEF Acierto, Contains, Esta, Listas
  <2> QED
    BY <1>2, <1>3, <2>1, EnTablas DEF EnMemoria
<1>5. PICK q \in Pagina : q = pagina[Actual]
  BY <1>2, <1>3
<1>6. pagina' = [pagina EXCEPT ![Actual] = Tocada(q)] /\ Tocada(q).contenido = q.contenido
  BY <1>1, <1>5, TocadaEs DEF Acierto
<1>7. \A d \in EnMemoria : pagina'[d].contenido = pagina[d].contenido
  BY <1>2, <1>3, <1>5, <1>6
<1>8. disco' = disco /\ EnMemoria' = EnMemoria
  BY DEF Acierto, almacen, EnMemoria
<1>9. Refleja /\ ConBloque'
  BY <1>7, <1>8, NadaCambia DEF Plano
<1>10. instr'.tag = instr.tag /\ instr'.num = instr.num
  BY <1>1 DEF Acierto, Obtenida, Coherente, ControlBien, Acceso
<1>11. Actual' = Actual
  BY <1>10 DEF Actual
<1> QED
  BY <1>4, <1>8, <1>9, <1>11 DEF Reflejado, Asida

\* PasaSegundo.
LEMMA SegundoPlano ==
    ASSUME Plano, Seguro', PasaSegundo
    PROVE  Reflejado
<1>1. Coherente
  BY DEF Plano, Seguro
<1>2. pagina \in [Dir -> Pagina] /\ EnMemoria \subseteq Dir
  BY <1>1, Basico DEF Coherente, MarcosBien
<1>3. ASSUME NEW d \in EnMemoria PROVE pagina'[d].contenido = pagina[d].contenido
  <2>1. PICK q \in Pagina : q = pagina[d]
    BY <1>2
  <2>2. pagina'[d] = q \/ pagina'[d] = [q EXCEPT !.edad = @ + 1]
    BY <1>2, <2>1 DEF PasaSegundo
  <2> QED
    BY <2>1, <2>2 DEF Pagina
<1>4. disco' = disco /\ EnMemoria' = EnMemoria /\ instr' = instr
  BY DEF PasaSegundo, almacen, EnMemoria
<1>5. Refleja /\ ConBloque'
  BY <1>3, <1>4, NadaCambia DEF Plano
<1>6. Asida'
  BY <1>4 DEF Plano, Asida, Actual
<1> QED
  BY <1>5, <1>6 DEF Reflejado

\* The block i of u and the page n of t.
LEMMA Bloque ==
    ASSUME NEW t, NEW u, NEW n \in Nat, NEW i \in Nat \ {0}
    PROVE  <<u, i - 1>> = <<t, n>> <=> u = t /\ i = n + 1
OBVIOUS

\* A block of Storage is that of a page, and within the bound.
LEMMA BloqueEs ==
    ASSUME Coherente, NEW u \in Tag, NEW i \in 1..Len(disco[u].bloques)
    PROVE  /\ <<u, i - 1>> \in Dir /\ i \in Nat \ {0} /\ i \in 1..MaxBloques
           /\ i - 1 \in Numero /\ (i - 1) + 1 = i
<1>1. PICK N \in Nat, M \in Nat : N = Len(disco[u].bloques) /\ M = MaxBloques /\ N <= M
  BY Basico, DiscoEs
<1>2. i \in 1..M
  BY <1>1
<1>3. i - 1 \in 0..(M - 1) /\ (i - 1) + 1 = i
  BY <1>2
<1> QED
  BY <1>1, <1>2, <1>3, DiscoEs DEF Numero

\* The page of the access under way stays the same while it is obtained.
LEMMA ActualSigue ==
    ASSUME Coherente, instr # Nada, Obtenida
    PROVE  Actual' = Actual
<1>1. instr'.tag = instr.tag /\ instr'.num = instr.num
  BY DEF Obtenida, Coherente, ControlBien, Acceso
<1> QED
  BY <1>1 DEF Actual

\* CargaEnMarcoLibre: the page that comes holds what was seen of its block.
LEMMA CargaPlano ==
    ASSUME Plano, Seguro', CargaEnMarcoLibre
    PROVE  Reflejado
<1>1. MemoriaMiss /\ usadas < total_pages /\ Coherente
  BY DEF CargaEnMarcoLibre, Plano, Seguro
<1>2. PICK t \in Tag, n \in Numero, a \in Dir : t = instr.tag /\ n = instr.num /\ a = Actual
  BY <1>1, FaltaEs
<1>3. /\ a = <<t, n>> /\ a[1] = t /\ a[2] = n /\ ~ Esta(fisicas, a) /\ a \notin EnMemoria
      /\ n + 1 \in 1..Len(disco[t].bloques) /\ n \in Nat
  BY <1>1, <1>2, FaltaEs DEF Numero
<1>4. PICK m \in 0..(total_pages - 1) : m = MarcoLibre
  BY <1>1, MarcoLibreBien
<1>5. PICK c \in Pagina : c = Cargada(m) /\ c.contenido = disco[t].bloques[n + 1]
  BY <1>1, <1>2, CargadaEs
<1>6. /\ pagina' = [pagina EXCEPT ![a] = c] /\ fisicas' = Append(fisicas, a) /\ disco' = disco
  BY <1>2, <1>4, <1>5 DEF CargaEnMarcoLibre, almacen
<1>7. EnMemoria' = EnMemoria \cup {a}
  <2>1. /\ fisicas \in Seq(Dir) /\ IsInjective(fisicas)
    BY <1>1 DEF Coherente, ListasBien
  <2>2. \A y : Esta(fisicas', y) <=> Esta(fisicas, y) \/ y = a
    BY <1>3, <1>6, <2>1, AgregaEs
  <2>3. /\ \A z : z \in EnMemoria <=> Esta(fisicas, z)
        /\ \A z : z \in EnMemoria' <=> Esta(fisicas', z)
    BY DEF EnMemoria, ToSet, Esta
  <2> QED
    BY <2>2, <2>3
<1>8. pagina'[a] = c /\ \A d \in Dir : d # a => pagina'[d] = pagina[d]
  BY <1>1, <1>6 DEF Coherente, MarcosBien
<1>9. ASSUME NEW u \in Tag, NEW i \in 1..Len(disco[u].bloques)
      PROVE  Visto(EnMemoria', pagina', disco', u, i) = Visto(EnMemoria, pagina, disco, u, i)
  <2>1. PICK d \in Dir : d = <<u, i - 1>>
    BY <1>1, DiscoEs
  <2>2. i \in Nat \ {0}
    BY <1>1, DiscoEs
  <2>3. CASE d = a
    <3>1. u = t /\ i = n + 1
      BY <1>3, <2>1, <2>2, <2>3, Bloque
    <3> QED
      BY <1>3, <1>5, <1>7, <1>8, <2>1, <2>3, <3>1 DEF Visto
  <2>4. CASE d # a
    BY <1>6, <1>7, <1>8, <2>1, <2>4 DEF Visto
  <2> QED
    BY <2>3, <2>4
<1>10. Vista' = Vista
  BY <1>6, <1>9, VistaQuieta DEF Plano
<1>11. ConBloque'
  <2>1. TieneBloque(a)
    BY <1>1, <1>2 DEF MemoriaMiss
  <2> QED
    BY <1>6, <1>7, <2>1 DEF Plano, ConBloque, TieneBloque
<1>12. Actual' = a
  BY <1>1, <1>2, ActualSigue DEF MemoriaMiss, Pide, CargaEnMarcoLibre
<1>13. Asida'
  BY <1>7, <1>12 DEF Asida
<1> QED
  BY <1>6, <1>10, <1>11, <1>13 DEF Reflejado, Refleja

\* Acceder: a READ changes nothing, a WRITE what is seen of one block.
LEMMA AccederPlano ==
    ASSUME Plano, Seguro', Acceder
    PROVE  Reflejado
<1>1. Coherente /\ instr # Nada /\ Actual \in EnMemoria /\ TieneBloque(Actual)
  BY DEF Plano, Seguro, Acceder, Asida, ConBloque
<1>2. /\ Actual \in Dir /\ pagina[Actual] \in Pagina /\ pagina \in [Dir -> Pagina]
      /\ EnMemoria \subseteq Dir
  BY <1>1, InstrEs, Basico DEF Coherente, MarcosBien
<1>3. PICK t \in Tag, n \in Numero, a \in Dir, x \in Valor :
         t = instr.tag /\ n = instr.num /\ a = Actual /\ x = instr.valor
  BY <1>1, <1>2, InstrEs
<1>4. /\ a = <<t, n>> /\ a[1] = t /\ a[2] = n /\ a \in EnMemoria
      /\ n + 1 \in 1..Len(disco[t].bloques) /\ n \in Nat
  BY <1>1, <1>3, DirEs DEF Actual
<1>5. PICK r \in Pagina : r = Tocada(pagina[a]) /\ r.contenido = pagina[a].contenido
  BY <1>1, <1>2, <1>3, TocadaEs
<1>6. PICK w : w = [r EXCEPT !.contenido = x, !.modificada = TRUE]
  OBVIOUS
<1>7. w \in Pagina /\ w.contenido = x
  BY <1>6 DEF Pagina
<1>8. PICK q \in Pagina : q = IF instr.op = "WRITE" THEN w ELSE r
  BY <1>7
<1>9. pagina' = [pagina EXCEPT ![a] = q] /\ disco' = disco /\ EnMemoria' = EnMemoria
  BY <1>3, <1>5, <1>6, <1>8 DEF Acceder, almacen, EnMemoria
<1>10. pagina'[a] = q /\ \A d \in Dir : d # a => pagina'[d] = pagina[d]
  BY <1>2, <1>9
<1>11. ConBloque'
  BY <1>9 DEF Plano, ConBloque, TieneBloque
<1>12. Asida'
  <2>1. instr' = Nada \/ instr'.paso = "obtener"
    BY <1>1 DEF Acceder, Coherente, ControlBien, Acceso
  <2> QED
    BY <2>1 DEF Asida
<1>13. CASE instr.op # "WRITE"
  <2>1. \A d \in EnMemoria : pagina'[d].contenido = pagina[d].contenido
    BY <1>2, <1>5, <1>8, <1>10, <1>13
  <2>2. Refleja
    BY <1>9, <2>1, NadaCambia DEF Plano
  <2> QED
    BY <1>11, <1>12, <2>2 DEF Reflejado
<1>14. CASE instr.op = "WRITE"
  <2>1. pagina'[a].contenido = x
    BY <1>7, <1>8, <1>10, <1>14
  <2>2. PICK V, W : V = Vista /\ W = Vista'
    OBVIOUS
  <2>3. Coherente'
    BY DEF Seguro
  <2>5. \A u \in Tag : \A i \in 1..Len(disco[u].bloques) : u # t \/ i # n + 1 =>
           Visto(EnMemoria', pagina', disco', u, i) = Visto(EnMemoria, pagina, disco, u, i)
    <3> SUFFICES ASSUME NEW u \in Tag, NEW i \in 1..Len(disco[u].bloques), u # t \/ i # n + 1
                 PROVE  Visto(EnMemoria', pagina', disco', u, i)
                        = Visto(EnMemoria, pagina, disco, u, i)
      OBVIOUS
    <3>1. PICK d \in Dir : d = <<u, i - 1>> /\ i \in Nat \ {0}
      BY <1>1, BloqueEs
    <3>2. d # a
      BY <1>4, <3>1, Bloque
    <3>3. pagina'[d] = pagina[d]
      BY <1>10, <3>2
    <3> QED
      BY <1>9, <3>1, <3>3 DEF Visto
  <2>6. Visto(EnMemoria', pagina', disco', t, n + 1) = x
    <3>1. <<t, (n + 1) - 1>> = a
      BY <1>4
    <3> QED
      BY <1>4, <1>9, <2>1, <3>1 DEF Visto
  <2>7. W[t] = [V[t] EXCEPT ![n + 1] = x]
    <3>1. PICK A, B, N : A = V[t] /\ B = W[t] /\ N = Len(disco[t].bloques)
      OBVIOUS
    <3>2. A = [i \in 1..N |-> Visto(EnMemoria, pagina, disco, t, i)]
      BY <1>1, <2>2, <3>1, VistaEn
    <3>3. B = [i \in 1..N |-> Visto(EnMemoria', pagina', disco', t, i)]
      <4>1. B = [i \in 1..Len(disco'[t].bloques) |-> Visto(EnMemoria', pagina', disco', t, i)]
        BY <2>2, <2>3, <3>1, VistaEnLuego
      <4>2. Len(disco'[t].bloques) = N
        BY <1>9, <3>1
      <4> QED
        BY <4>1, <4>2
    <3>4. \A i \in 1..N : i # n + 1 => B[i] = A[i]
      BY <2>5, <3>1, <3>2, <3>3
    <3>5. n + 1 \in 1..N /\ B[n + 1] = x
      BY <1>4, <2>6, <3>1, <3>3
    <3>6. A = [i \in 1..N |-> A[i]] /\ B = [i \in 1..N |-> B[i]]
      BY <3>2, <3>3
    <3>7. B = [A EXCEPT ![n + 1] = x]
      BY <3>4, <3>5, <3>6, CambiaUna
    <3> QED
      BY <3>1, <3>7
  <2>8. ASSUME NEW u \in Tag, u # t PROVE W[u] = V[u]
    <3>1. /\ Len(disco'[u].bloques) = Len(disco[u].bloques)
          /\ \A i \in 1..Len(disco[u].bloques) :
                Visto(EnMemoria', pagina', disco', u, i) = Visto(EnMemoria, pagina, disco, u, i)
      BY <1>9, <2>5, <2>8
    <3> QED
      BY <1>1, <2>2, <2>3, <3>1, VistaIgualEn
  <2>9. V = [u \in Tag |-> V[u]] /\ W = [u \in Tag |-> W[u]]
    BY <2>2, VistaTabla
  <2>10. W = [V EXCEPT ![t] = [V[t] EXCEPT ![n + 1] = x]]
    BY <2>7, <2>8, <2>9, CambiaUna
  <2>11. W = [V EXCEPT ![t][n + 1] = x]
    BY <2>9, <2>10
  <2>12. PICK k \in 1..MaxBloques : k = n + 1
    BY <1>1, <1>4, BloqueEs
  <2>13. <<t, k>> \in Plana!Bloques
    <3>1. k \in DOMAIN disco[t].bloques
      BY <1>1, <1>4, <2>12, DiscoEs
    <3> QED
      BY <2>12, <3>1 DEF Plana!Bloques
  <2>14. Plana!Escribe(t, k, x)
    BY <1>9, <2>2, <2>11, <2>12, <2>13 DEF Plana!Escribe
  <2>15. Refleja
    BY <2>12, <2>14 DEF Refleja, Plana!Next
  <2> QED
    BY <1>11, <1>12, <2>15 DEF Reflejado
<1> QED
  BY <1>13, <1>14

\* What is written is what was seen, so that part of what was pending reaches Storage.
LEMMA PersistePlano ==
    ASSUME Seguro, NEW S \in SUBSET EnMemoria, \A d \in S : Acepta(d), disco' = Escritos(S),
           Vista' = Vista
    PROVE  Refleja
<1>1. Coherente
  BY DEF Seguro
<1>2. PICK V : V = Vista
  OBVIOUS
<1>3. PICK P : P = Plana!Pendientes
  OBVIOUS
<1>4. ASSUME NEW t \in Tag, NEW i \in 1..Len(disco[t].bloques)
      PROVE  <<t, i>> \in P <=> disco[t].fase = "wip" /\ V[t][i] # disco[t].bloques[i]
  <2>1. i \in 1..MaxBloques /\ i \in DOMAIN disco[t].bloques
    BY <1>1, BloqueEs, DiscoEs
  <2>2. <<t, i>> \in Plana!Bloques
    BY <2>1 DEF Plana!Bloques
  <2> QED
    BY <1>2, <1>3, <2>2 DEF Plana!Pendientes
<1>5. PICK T \in SUBSET P : T = {b \in P : <<b[1], b[2] - 1>> \in S}
  OBVIOUS
<1>6. ASSUME NEW t \in Tag, NEW i \in 1..Len(disco[t].bloques)
      PROVE  (IF <<t, i - 1>> \in S THEN pagina[<<t, i - 1>>].contenido ELSE disco[t].bloques[i])
             = (IF <<t, i>> \in T THEN V[t][i] ELSE disco[t].bloques[i])
  <2>1. <<t, i>> \in T <=> <<t, i>> \in P /\ <<t, i - 1>> \in S
    BY <1>5
  <2>2. CASE <<t, i - 1>> \notin S
    BY <2>1, <2>2
  <2>3. CASE <<t, i - 1>> \in S
    <3>1. V[t][i] = Visto(EnMemoria, pagina, disco, t, i)
      BY <1>1, <1>2, VistaEn
    <3>2. V[t][i] = pagina[<<t, i - 1>>].contenido
      BY <2>3, <3>1 DEF Visto
    <3>3. disco[t].fase = "wip"
      BY <2>3 DEF Acepta
    <3> QED
      BY <1>4, <2>1, <2>3, <3>2, <3>3
  <2> QED
    BY <2>2, <2>3
<1>7. ASSUME NEW t \in Tag
      PROVE  Nuevos(t, S) = [i \in DOMAIN disco[t].bloques |->
                                IF <<t, i>> \in T THEN V[t][i] ELSE disco[t].bloques[i]]
  <2>1. DOMAIN disco[t].bloques = 1..Len(disco[t].bloques)
    BY <1>1, DiscoEs
  <2> QED
    BY <1>6, <2>1 DEF Nuevos
<1>8. disco' = [t \in Tag |-> [disco[t] EXCEPT !.bloques = Nuevos(t, S)]]
  BY DEF Escritos, Nuevos
<1>9. disco' = [t \in Tag |-> [disco[t] EXCEPT !.bloques =
                   [i \in DOMAIN @ |-> IF <<t, i>> \in T THEN V[t][i] ELSE @[i]]]]
  BY <1>7, <1>8
<1>10. Plana!Persiste(T)
  BY <1>2, <1>9 DEF Plana!Persiste
<1> QED
  BY <1>3, <1>10 DEF Refleja, Plana!Next

\* What is written to Storage looks as it did.
LEMMA VuelcoVista ==
    ASSUME Plano, Seguro', NEW S \in SUBSET EnMemoria, Vuelco(S)
    PROVE  Vista' = Vista /\ ConBloque'
<1>1. Coherente /\ EnMemoria' = EnMemoria /\ Grabado(disco', S)
  BY DEF Plano, Seguro, Vuelco, EnMemoria
<1>2. \A t \in Tag : Len(disco'[t].bloques) = Len(disco[t].bloques)
  BY <1>1 DEF Grabado
<1>3. ASSUME NEW t \in Tag, NEW i \in 1..Len(disco[t].bloques)
      PROVE  Visto(EnMemoria', pagina', disco', t, i) = Visto(EnMemoria, pagina, disco, t, i)
  <2>1. CASE <<t, i - 1>> \in EnMemoria
    <3>1. pagina'[<<t, i - 1>>].contenido = pagina[<<t, i - 1>>].contenido
      BY <2>1 DEF Vuelco
    <3> QED
      BY <1>1, <2>1, <3>1 DEF Visto
  <2>2. CASE <<t, i - 1>> \notin EnMemoria
    <3>1. disco'[t].bloques[i] = disco[t].bloques[i]
      BY <1>1, <2>2 DEF Grabado
    <3> QED
      BY <1>1, <2>2, <3>1 DEF Visto
  <2> QED
    BY <2>1, <2>2
<1>4. Vista' = Vista
  BY <1>2, <1>3, VistaQuieta DEF Plano
<1>5. ASSUME NEW d \in EnMemoria PROVE TieneBloque(d)'
  <2>1. TieneBloque(d) /\ d[1] \in Tag
    BY <1>1, Basico, DirEs DEF Plano, ConBloque
  <2> QED
    BY <1>2, <2>1 DEF TieneBloque
<1>6. ConBloque'
  BY <1>1, <1>5 DEF ConBloque
<1> QED
  BY <1>4, <1>6

\* Desalojar.
LEMMA DesalojarPlano ==
    ASSUME Plano, Seguro', Desalojar
    PROVE  Reflejado
<1>1. PICK S \in SUBSET EnMemoria : S = {d \in Sucias : Acepta(d)}
  BY DEF Sucias
<1>2. /\ disco' = Escritos(S) /\ pagina' = Limpiadas(S) /\ instr' = Nada
      /\ UNCHANGED <<algoritmo, tablas, fisicas, frame_table, usadas, puntero, hayFile>>
  BY <1>1 DEF Desalojar, Limpiadas, Libre
<1>3. Coherente
  BY DEF Plano, Seguro
<1>4. Grabado(disco', S)
  BY <1>2, <1>3, EscritosEs
<1>5. Vuelco(S)
  BY <1>2, <1>3, <1>4, LimpiadasEs DEF Vuelco
<1>6. Vista' = Vista /\ ConBloque'
  BY <1>5, VuelcoVista
<1>7. \A d \in S : Acepta(d)
  BY <1>1
<1>8. Refleja
  BY <1>2, <1>6, <1>7, PersistePlano DEF Plano
<1> QED
  BY <1>2, <1>6, <1>8 DEF Reflejado, Asida

\* FLUSH writes pages of t that Storage accepts ...
LEMMA VolcadasAceptadas ==
    ASSUME Coherente, NEW t \in Tag, NEW d \in Volcadas(t)
    PROVE  Acepta(d) /\ d[1] = t
<1>1. PICK N \in Nat : N = Len(tablas[t]) /\ DOMAIN tablas[t] = 1..N
  BY DEF Coherente, ListasBien
<1>2. PICK i \in 1..N : /\ d = PaginasDe(t)[i] /\ pagina[PaginasDe(t)[i]].modificada
                        /\ \A r \in Rechazada(t) : i < r
  BY <1>1 DEF Volcadas
<1>3. d = <<t, tablas[t][i]>>
  BY <1>1, <1>2 DEF PaginasDe
<1>4. i \notin Rechazada(t)
  BY <1>2
<1>5. Acepta(d)
  BY <1>1, <1>2, <1>4 DEF Rechazada
<1> QED
  BY <1>3, <1>5

\* ... and all that are modified if it refuses none.
LEMMA VolcadasTodas ==
    ASSUME Coherente, NEW t \in Tag, Rechazada(t) = {}, NEW n \in Numero,
           <<t, n>> \in EnMemoria, pagina[<<t, n>>].modificada
    PROVE  <<t, n>> \in Volcadas(t)
<1>1. PICK N \in Nat : N = Len(tablas[t]) /\ DOMAIN tablas[t] = 1..N
  BY DEF Coherente, ListasBien
<1>2. Listas(tablas, fisicas)
  BY DEF Coherente, ListasBien, Listas
<1>3. Esta(tablas[t], n)
  BY <1>2, EnTablas DEF EnMemoria
<1>4. PICK i \in 1..N : tablas[t][i] = n
  BY <1>1, <1>3 DEF Esta
<1>5. PaginasDe(t)[i] = <<t, n>>
  BY <1>1, <1>4 DEF PaginasDe
<1> QED
  BY <1>1, <1>5 DEF Volcadas

\* The flush of FLUSH and COMMIT, as Vuelco.
LEMMA VolcadasVuelco ==
    ASSUME Plano, Seguro', NEW t \in Tag, pagina' = Limpiadas(Volcadas(t)),
           Grabado(disco', Volcadas(t)),
           UNCHANGED <<algoritmo, tablas, fisicas, frame_table, usadas, puntero, hayFile>>
    PROVE  /\ Vista' = Vista /\ ConBloque' /\ Volcadas(t) \in SUBSET EnMemoria
           /\ \A d \in Volcadas(t) : Acepta(d)
<1>1. Coherente
  BY DEF Plano, Seguro
<1>2. PICK S \in SUBSET EnMemoria : S = Volcadas(t)
  BY <1>1, VolcadasEs
<1>3. Vuelco(S)
  BY <1>1, <1>2, LimpiadasEs DEF Vuelco
<1>4. Vista' = Vista /\ ConBloque'
  BY <1>3, VuelcoVista
<1> QED
  BY <1>1, <1>2, <1>4, VolcadasAceptadas

\* An instruction that is neither READ nor WRITE leaves none under way.
LEMMA AsidaLibre ==
    ASSUME Libre, Sigue \/ TerminaConError
    PROVE  Asida'
BY DEF Libre, Sigue, TerminaConError, Asida

\* Flush.
LEMMA FlushPlano ==
    ASSUME Plano, Seguro', NEW t \in Tag, Flush(t)
    PROVE  Reflejado
<1>1. disco' = Escritos(Volcadas(t)) /\ pagina' = Limpiadas(Volcadas(t)) /\ Coherente
  BY DEF Flush, Plano, Seguro
<1>2. Grabado(disco', Volcadas(t))
  BY <1>1, EscritosEs
<1>3. /\ Vista' = Vista /\ ConBloque' /\ Volcadas(t) \in SUBSET EnMemoria
      /\ \A d \in Volcadas(t) : Acepta(d)
  BY <1>1, <1>2, VolcadasVuelco DEF Flush
<1>4. Refleja
  BY <1>1, <1>3, PersistePlano DEF Plano
<1>5. Asida'
  BY AsidaLibre DEF Flush
<1> QED
  BY <1>3, <1>4, <1>5 DEF Reflejado

\* The blocks of a file:tag of which nothing is written.
LEMMA NuevosNada ==
    ASSUME Coherente, NEW u \in Tag, NEW S, \A d \in S : d[1] # u
    PROVE  Nuevos(u, S) = disco[u].bloques
<1>1. PICK s \in Seq(Valor) : s = disco[u].bloques
  BY DiscoEs
<1>2. \A i : <<u, i - 1>> \notin S
  OBVIOUS
<1>3. Nuevos(u, S) = [i \in DOMAIN s |-> s[i]]
  BY <1>1, <1>2 DEF Nuevos
<1> QED
  BY <1>1, <1>3

\* When all that is modified of a file:tag is written, Storage has what was seen.
LEMMA NuevosVista ==
    ASSUME Plano, NEW t \in Tag, Rechazada(t) = {}
    PROVE  Nuevos(t, Volcadas(t)) = Vista[t]
<1>1. Coherente /\ LimpiaIgualDisco
  BY DEF Plano, Seguro
<1>2. DOMAIN disco[t].bloques = 1..Len(disco[t].bloques)
  BY <1>1, DiscoEs
<1>3. ASSUME NEW i \in 1..Len(disco[t].bloques)
      PROVE  (IF <<t, i - 1>> \in Volcadas(t) THEN pagina[<<t, i - 1>>].contenido
              ELSE disco[t].bloques[i])
             = Visto(EnMemoria, pagina, disco, t, i)
  <2>1. PICK n \in Numero : n = i - 1 /\ n + 1 = i
    BY <1>1, BloqueEs
  <2>2. CASE <<t, n>> \in Volcadas(t)
    <3>1. <<t, n>> \in EnMemoria
      BY <1>1, <2>2, VolcadasEs
    <3> QED
      BY <2>1, <2>2, <3>1 DEF Visto
  <2>3. CASE <<t, n>> \notin Volcadas(t) /\ <<t, n>> \in EnMemoria
    <3>1. ~ pagina[<<t, n>>].modificada
      BY <1>1, <2>3, VolcadasTodas
    <3>2. pagina[<<t, n>>].contenido = disco[t].bloques[n + 1]
      BY <1>1, <2>3, <3>1 DEF LimpiaIgualDisco, Sucias
    <3> QED
      BY <2>1, <2>3, <3>2 DEF Visto
  <2>4. CASE <<t, n>> \notin Volcadas(t) /\ <<t, n>> \notin EnMemoria
    BY <2>1, <2>4 DEF Visto
  <2> QED
    BY <2>2, <2>3, <2>4
<1>4. Nuevos(t, Volcadas(t)) = [i \in 1..Len(disco[t].bloques) |->
                                   Visto(EnMemoria, pagina, disco, t, i)]
  BY <1>2, <1>3 DEF Nuevos
<1> QED
  BY <1>1, <1>4, VistaEn

\* Commit.
LEMMA CommitPlano ==
    ASSUME Plano, Seguro', NEW t \in Tag, Commit(t)
    PROVE  Reflejado
<1>1. Coherente
  BY DEF Plano, Seguro
<1>2. PICK S : S = Volcadas(t)
  OBVIOUS
<1>3. PICK dd : dd = Escritos(S)
  OBVIOUS
<1>4. disco' = (IF Rechazada(t) = {} /\ Existe(t) THEN [dd EXCEPT ![t].fase = "commit"] ELSE dd)
  BY <1>2, <1>3 DEF Commit
<1>5. /\ Vista' = Vista /\ ConBloque' /\ S \in SUBSET EnMemoria /\ \A d \in S : Acepta(d)
  BY <1>1, <1>2, CommitGraba, VolcadasVuelco DEF Commit
<1>6. Asida'
  BY AsidaLibre DEF Commit
<1>7. dd \in [Tag -> Registro] /\ \A u \in Tag : dd[u].fase = disco[u].fase
  BY <1>1, <1>3, EscritosEs DEF Grabado
<1>8. CASE disco' = dd
  BY <1>3, <1>5, <1>6, <1>8, PersistePlano DEF Plano, Reflejado
<1>9. CASE disco' # dd
  <2>1. Rechazada(t) = {} /\ Existe(t) /\ disco' = [dd EXCEPT ![t].fase = "commit"]
    BY <1>4, <1>9
  <2>2. disco[t].fase # "commit"
    <3> SUFFICES ASSUME disco[t].fase = "commit" PROVE disco' = dd
      BY <1>9
    <3>1. [dd[t] EXCEPT !.fase = "commit"] = dd[t]
      BY <1>7 DEF Registro
    <3> QED
      BY <1>7, <2>1, <3>1
  <2>3. disco[t].fase = "wip"
    BY <1>1, <2>1, <2>2, DiscoEs DEF Existe
  <2>4. dd = [u \in Tag |-> [disco[u] EXCEPT !.bloques = Nuevos(u, S)]]
    BY <1>3 DEF Escritos, Nuevos
  <2>5. ASSUME NEW u \in Tag, u # t PROVE dd[u] = disco[u]
    <3>1. Nuevos(u, S) = disco[u].bloques
      BY <1>1, <1>2, <2>5, NuevosNada, VolcadasAceptadas
    <3>2. PICK r : r = disco[u] /\ r = [fase |-> r.fase, bloques |-> r.bloques]
      BY <1>1, DiscoRegistro
    <3> QED
      BY <2>4, <3>1, <3>2
  <2>6. dd[t].bloques = Vista[t]
    <3>1. Nuevos(t, S) = Vista[t]
      BY <1>2, <2>1, NuevosVista
    <3>2. PICK r : r = disco[t] /\ r = [fase |-> r.fase, bloques |-> r.bloques]
      BY <1>1, DiscoRegistro
    <3> QED
      BY <2>4, <3>1, <3>2
  <2>7. PICK c : c = [fase |-> "commit", bloques |-> Vista[t]]
    OBVIOUS
  <2>8. [dd[t] EXCEPT !.fase = "commit"] = c
    BY <1>7, <2>6, <2>7 DEF Registro
  <2>9. disco' = [disco EXCEPT ![t] = c]
    <3>1. disco \in [Tag -> Registro]
      BY <1>1 DEF Coherente, DiscoBien, Registro
    <3>2. disco' = [u \in Tag |-> disco'[u]] /\ disco = [u \in Tag |-> disco[u]]
      BY <1>7, <2>1, <3>1
    <3>3. disco'[t] = c /\ \A u \in Tag : u # t => disco'[u] = disco[u]
      BY <1>7, <2>1, <2>5, <2>8
    <3> QED
      BY <3>2, <3>3, CambiaUna
  <2>10. Plana!Confirma(t)
    BY <1>5, <2>3, <2>7, <2>9 DEF Plana!Confirma
  <2>11. Refleja
    BY <2>10 DEF Refleja, Plana!Next
  <2> QED
    BY <1>5, <1>6, <2>11 DEF Reflejado
<1> QED
  BY <1>8, <1>9

\* Storage changes by itself and what it had still looks the same.
LEMMA AlmacenPlano ==
    ASSUME Plano, UNCHANGED memoria, NEW t \in Tag, disco \in Almacen,
           \A u \in Tag : u # t => disco'[u] = disco[u],
           \A d \in EnMemoria : d[1] = t => TieneBloque(d)'
    PROVE  EnMemoria' = EnMemoria /\ pagina' = pagina /\ ConBloque'
<1>1. EnMemoria' = EnMemoria /\ pagina' = pagina
  BY DEF memoria, EnMemoria
<1>2. Coherente
  BY DEF Plano, Seguro
<1>3. ASSUME NEW d \in EnMemoria PROVE TieneBloque(d)'
  <2>1. TieneBloque(d) /\ d[1] \in Tag
    BY <1>2, Basico, DirEs DEF Plano, ConBloque
  <2>2. d[1] # t => TieneBloque(d)'
    BY <2>1 DEF TieneBloque
  <2> QED
    BY <2>2
<1>4. ConBloque'
  BY <1>1, <1>3 DEF ConBloque
<1> QED
  BY <1>1, <1>4

\* Nothing of a file:tag that does not exist is in memory.
LEMMA NadaDe ==
    ASSUME Plano, NEW t \in Tag, ~ Existe(t)
    PROVE  /\ disco[t].bloques = <<>> /\ Len(disco[t].bloques) = 0
           /\ \A d \in EnMemoria : d[1] # t
<1>1. Coherente /\ disco[t].bloques = <<>>
  BY DEF Plano, Seguro, Coherente, DiscoBien
<1>2. Len(disco[t].bloques) = 0
  BY <1>1
<1>3. ASSUME NEW d \in EnMemoria, d[1] = t PROVE FALSE
  <2>1. TieneBloque(d) /\ d[2] \in Nat
    BY <1>1, Basico, DirEs DEF Plano, ConBloque
  <2> QED
    BY <1>2, <1>3, <2>1 DEF TieneBloque
<1> QED
  BY <1>1, <1>2, <1>3

\* Create.
LEMMA CreatePlano ==
    ASSUME Plano, Seguro', NEW t \in Tag, Create(t)
    PROVE  Reflejado
<1>1. Coherente /\ UNCHANGED memoria /\ UNCHANGED algoritmo
  BY DEF Plano, Seguro, Create
<1>2. Asida'
  BY AsidaLibre DEF Create
<1>3. CASE Existe(t)
  <2>1. disco' = disco /\ EnMemoria' = EnMemoria /\ pagina' = pagina
    BY <1>1, <1>3 DEF Create, memoria, EnMemoria
  <2>2. Refleja /\ ConBloque'
    BY <2>1, NadaCambia DEF Plano
  <2> QED
    BY <1>2, <2>2 DEF Reflejado
<1>4. CASE ~ Existe(t)
  <2>1. disco' = [disco EXCEPT ![t].fase = "wip"]
    BY <1>4 DEF Create
  <2>2. disco \in Almacen
    BY <1>1 DEF Coherente, DiscoBien, Almacen, Registro
  <2>3. disco'[t].bloques = disco[t].bloques /\ \A u \in Tag : u # t => disco'[u] = disco[u]
    BY <2>1, <2>2 DEF Almacen, Registro
  <2>4. EnMemoria' = EnMemoria /\ pagina' = pagina /\ ConBloque'
    BY <1>1, <1>4, <2>2, <2>3, AlmacenPlano, NadaDe
  <2>5. \A u \in Tag : disco'[u].bloques = disco[u].bloques
    BY <2>3
  <2>6. Vista' = Vista
    BY <2>4, <2>5, VistaQuieta DEF Visto, Plano
  <2>7. Plana!Crea(t)
    BY <1>4, <2>1, <2>6 DEF Plana!Crea, Plana!Existe, Existe
  <2>8. Refleja
    BY <2>7 DEF Refleja, Plana!Next
  <2> QED
    BY <1>2, <2>4, <2>8 DEF Reflejado
<1> QED
  BY <1>3, <1>4

\* TagFile.
LEMMA TagFilePlano ==
    ASSUME Plano, Seguro', NEW o \in Tag, NEW t \in Tag, TagFile(o, t)
    PROVE  Reflejado
<1>1. Coherente /\ UNCHANGED memoria /\ UNCHANGED algoritmo /\ Existe(o)
  BY DEF Plano, Seguro, TagFile
<1>2. Asida'
  BY AsidaLibre DEF TagFile
<1>3. CASE Existe(t)
  <2>1. disco' = disco /\ EnMemoria' = EnMemoria /\ pagina' = pagina
    BY <1>1, <1>3 DEF TagFile, memoria, EnMemoria
  <2>2. Refleja /\ ConBloque'
    BY <2>1, NadaCambia DEF Plano
  <2> QED
    BY <1>2, <2>2 DEF Reflejado
<1>4. CASE ~ Existe(t)
  <2>1. PICK r : r = [disco[o] EXCEPT !.fase = "wip"]
    OBVIOUS
  <2>2. disco' = [disco EXCEPT ![t] = r]
    BY <1>4, <2>1 DEF TagFile
  <2>3. disco \in Almacen
    BY <1>1 DEF Coherente, DiscoBien, Almacen, Registro
  <2>4. /\ r.bloques = disco[o].bloques /\ disco'[t] = r
        /\ \A u \in Tag : u # t => disco'[u] = disco[u]
    BY <2>1, <2>2, <2>3 DEF Almacen, Registro
  <2>5. EnMemoria' = EnMemoria /\ pagina' = pagina /\ ConBloque'
    BY <1>1, <1>4, <2>3, <2>4, AlmacenPlano, NadaDe
  <2>6. PICK s \in Seq(Valor) : s = disco[o].bloques
    BY <1>1, DiscoEs
  <2>7. Coherente'
    BY DEF Seguro
  <2>8. Vista'[t] = s
    <3>1. Vista'[t] = [i \in 1..Len(disco'[t].bloques) |->
                          Visto(EnMemoria', pagina', disco', t, i)]
      BY <2>7, VistaEnLuego
    <3>2. \A i : Visto(EnMemoria', pagina', disco', t, i) = disco'[t].bloques[i]
      <4> TAKE i
      <4>1. <<t, i - 1>> \notin EnMemoria'
        BY <1>4, <2>5, NadaDe
      <4> QED
        BY <4>1 DEF Visto
    <3>3. disco'[t].bloques = s
      BY <2>4, <2>6
    <3>4. Vista'[t] = [i \in 1..Len(s) |-> s[i]]
      BY <3>1, <3>2, <3>3
    <3> QED
      BY <2>6, <3>4
  <2>9. ASSUME NEW u \in Tag, u # t PROVE Vista'[u] = Vista[u]
    <3>1. disco'[u] = disco[u]
      BY <2>4, <2>9
    <3>2. \A i : Visto(EnMemoria', pagina', disco', u, i) = Visto(EnMemoria, pagina, disco, u, i)
      BY <2>5, <3>1 DEF Visto
    <3> QED
      BY <1>1, <2>7, <3>1, <3>2, VistaIgualEn
  <2>10. Vista' = [Vista EXCEPT ![t] = s]
    <3>1. PICK V, W : V = Vista /\ W = Vista'
      OBVIOUS
    <3>2. W[t] = s /\ \A u \in Tag : u # t => W[u] = V[u]
      BY <2>8, <2>9, <3>1
    <3>3. V = [u \in Tag |-> V[u]] /\ W = [u \in Tag |-> W[u]]
      BY <3>1, VistaTabla
    <3>4. W = [V EXCEPT ![t] = s]
      BY <3>2, <3>3, CambiaUna
    <3> QED
      BY <3>1, <3>4
  <2>11. Plana!Etiqueta(o, t)
    BY <1>1, <1>4, <2>1, <2>2, <2>6, <2>10 DEF Plana!Etiqueta, Plana!Existe, Existe
  <2>12. Refleja
    BY <2>11 DEF Refleja, Plana!Next
  <2> QED
    BY <1>2, <2>5, <2>12 DEF Reflejado
<1> QED
  BY <1>3, <1>4

\* What is seen of a file:tag is a sequence as long as Storage's.
LEMMA VistaSeq ==
    ASSUME Coherente, NEW t \in Tag
    PROVE  /\ Vista[t] \in Seq(Valor) /\ Len(Vista[t]) = Len(disco[t].bloques)
<1>1. PICK N \in Nat : N = Len(disco[t].bloques)
  BY Basico, DiscoEs
<1>2. PICK A : A = Vista[t]
  OBVIOUS
<1>3. A = [i \in 1..N |-> Visto(EnMemoria, pagina, disco, t, i)]
  BY <1>1, <1>2, VistaEn
<1>4. ASSUME NEW i \in 1..N PROVE Visto(EnMemoria, pagina, disco, t, i) \in Valor
  <2>1. pagina[<<t, i - 1>>].contenido \in Valor /\ disco[t].bloques[i] \in Valor
    BY <1>1, DiscoEs DEF Pagina
  <2> QED
    BY <2>1 DEF Visto
<1>5. A \in [1..N -> Valor]
  BY <1>3, <1>4
<1>6. A \in Seq(Valor) /\ Len(A) = N
  BY <1>1, <1>5
<1> QED
  BY <1>1, <1>2, <1>6

\* The list b is a, of N elements, and then c, of n.
Seguida(S, a, c, N, n, b) ==
    /\ b \in Seq(S) /\ Len(b) = N + n /\ \A i \in 1..N : b[i] = a[i]
    /\ \A j \in 1..n : b[N + j] = c[j]

\* It is what one list after another is.
LEMMA UneBien ==
    ASSUME NEW S, NEW a \in Seq(S), NEW c \in Seq(S), NEW N \in Nat, NEW n \in Nat,
           Len(a) = N, Len(c) = n, NEW b, b = a \o c
    PROVE  Seguida(S, a, c, N, n, b)
<1>1. b \in Seq(S) /\ Len(b) = N + n
  OBVIOUS
<1>2. ASSUME NEW i \in 1..N PROVE b[i] = a[i]
  OBVIOUS
<1>3. ASSUME NEW j \in 1..n PROVE b[N + j] = c[j]
  <2>1. PICK k \in Nat : k = N + j
    OBVIOUS
  <2>2. k \in DOMAIN (a \o c)
    BY <2>1
  <2>3. (a \o c)[k] = c[k - N]
    BY <2>1, <2>2
  <2>4. k - N = j
    BY <2>1
  <2> QED
    BY <2>1, <2>3, <2>4
<1> QED
  BY <1>1, <1>2, <1>3 DEF Seguida

\* Truncate: the new blocks are of no page that is in memory.
LEMMA TruncatePlano ==
    ASSUME Plano, Seguro', NEW t \in Tag, NEW n \in 1..MaxBloques, Truncate(t, n)
    PROVE  Reflejado
<1>1. Coherente /\ Coherente' /\ UNCHANGED memoria /\ UNCHANGED algoritmo
  BY DEF Plano, Seguro, Truncate
<1>2. Asida'
  BY AsidaLibre DEF Truncate
<1>3. CASE ~ Existe(t)
  <2>1. disco' = disco /\ EnMemoria' = EnMemoria /\ pagina' = pagina
    BY <1>1, <1>3 DEF Truncate, memoria, EnMemoria
  <2>2. Refleja /\ ConBloque'
    BY <2>1, NadaCambia DEF Plano
  <2> QED
    BY <1>2, <2>2 DEF Reflejado
<1>4. CASE Existe(t)
  <2>1. PICK c : c = [i \in 1..n |-> Cero]
    OBVIOUS
  <2>2. disco' = [disco EXCEPT ![t].bloques = @ \o c]
    BY <1>4, <2>1 DEF Truncate
  <2>3. n \in Nat /\ Cero \in Valor /\ MaxBloques \in Nat
    BY <1>1, Basico
  <2>4. c \in [1..n -> Valor]
    BY <2>1, <2>3
  <2>5. c \in Seq(Valor) /\ Len(c) = n
    BY <2>3, <2>4
  <2>6. PICK a \in Seq(Valor), N \in Nat : a = disco[t].bloques /\ N = Len(a)
    BY <1>1, DiscoEs
  <2>7. PICK b : b = a \o c
    OBVIOUS
  <2>8. /\ b \in Seq(Valor) /\ Len(b) = N + n /\ \A i \in 1..N : b[i] = a[i]
        /\ \A j \in 1..n : b[N + j] = c[j]
    <3>1. Seguida(Valor, a, c, N, n, b)
      BY <2>3, <2>5, <2>6, <2>7, UneBien
    <3> QED
      BY <3>1 DEF Seguida
  <2>9. disco \in Almacen
    BY <1>1 DEF Coherente, DiscoBien, Almacen, Registro
  <2>10. disco'[t].bloques = b /\ \A u \in Tag : u # t => disco'[u] = disco[u]
    BY <2>2, <2>6, <2>7, <2>9 DEF Almacen, Registro
  <2>11. ASSUME NEW d \in EnMemoria, d[1] = t
         PROVE  TieneBloque(d)' /\ d[2] \in Nat /\ d[2] < N
    <3>1. TieneBloque(d) /\ d[2] \in Nat
      BY <1>1, Basico, DirEs DEF Plano, ConBloque
    <3>2. d[2] < N
      BY <2>6, <2>11, <3>1 DEF TieneBloque
    <3>3. d[2] < N + n
      BY <2>3, <3>1, <3>2
    <3>4. d[2] < Len(disco'[t].bloques)
      BY <2>8, <2>10, <3>3
    <3> QED
      BY <2>11, <3>1, <3>2, <3>4 DEF TieneBloque
  <2>12. EnMemoria' = EnMemoria /\ pagina' = pagina /\ ConBloque'
    BY <1>1, <2>9, <2>10, <2>11, AlmacenPlano
  <2>13. PICK A \in Seq(Valor) : A = Vista[t] /\ Len(A) = N
    BY <1>1, <2>6, VistaSeq
  <2>14. PICK B : B = A \o c
    OBVIOUS
  <2>15. /\ B \in Seq(Valor) /\ Len(B) = N + n /\ \A i \in 1..N : B[i] = A[i]
         /\ \A j \in 1..n : B[N + j] = c[j]
    <3>1. Seguida(Valor, A, c, N, n, B)
      BY <2>3, <2>5, <2>6, <2>13, <2>14, UneBien
    <3> QED
      BY <3>1 DEF Seguida
  <2>16. ASSUME NEW i \in 1..(N + n)
         PROVE  Visto(EnMemoria', pagina', disco', t, i) = B[i]
    <3>1. CASE i \in 1..N
      <4>1. B[i] = Visto(EnMemoria, pagina, disco, t, i)
        BY <1>1, <2>6, <2>13, <2>15, <3>1, VistaEn
      <4>2. disco'[t].bloques[i] = disco[t].bloques[i]
        BY <2>6, <2>8, <2>10, <3>1
      <4> QED
        BY <2>12, <4>1, <4>2 DEF Visto
    <3>2. CASE i \notin 1..N
      <4>1. PICK j \in 1..n : i = N + j
        <5>1. i - N \in 1..n /\ i = N + (i - N)
          BY <2>3, <2>6, <3>2
        <5> QED
          BY <5>1
      <4>2. ~ (i - 1 < N)
        BY <2>3, <2>6, <4>1
      <4>3. <<t, i - 1>> \notin EnMemoria
        BY <2>11, <4>2
      <4>4. b[i] = c[j] /\ B[i] = c[j]
        BY <2>8, <2>15, <4>1
      <4> QED
        BY <2>10, <2>12, <4>3, <4>4 DEF Visto
    <3> QED
      BY <3>1, <3>2
  <2>17. Vista'[t] = B
    <3>1. PICK D : D = Vista'[t]
      OBVIOUS
    <3>2. D = [i \in 1..Len(disco'[t].bloques) |-> Visto(EnMemoria', pagina', disco', t, i)]
      BY <1>1, <3>1, VistaEnLuego
    <3>3. Len(disco'[t].bloques) = N + n
      BY <2>8, <2>10
    <3>4. D = [i \in 1..(N + n) |-> B[i]]
      BY <2>16, <3>2, <3>3
    <3>5. B = [i \in 1..(N + n) |-> B[i]]
      BY <2>15
    <3> QED
      BY <3>1, <3>4, <3>5
  <2>18. ASSUME NEW u \in Tag, u # t PROVE Vista'[u] = Vista[u]
    <3>1. disco'[u] = disco[u]
      BY <2>10, <2>18
    <3>2. \A i : Visto(EnMemoria', pagina', disco', u, i) = Visto(EnMemoria, pagina, disco, u, i)
      BY <2>12, <3>1 DEF Visto
    <3> QED
      BY <1>1, <3>1, <3>2, VistaIgualEn
  <2>19. Vista' = [Vista EXCEPT ![t] = @ \o c]
    <3>1. PICK V, W : V = Vista /\ W = Vista'
      OBVIOUS
    <3>2. W[t] = B /\ \A u \in Tag : u # t => W[u] = V[u]
      BY <2>17, <2>18, <3>1
    <3>3. V = [u \in Tag |-> V[u]] /\ W = [u \in Tag |-> W[u]]
      BY <3>1, VistaTabla
    <3>4. W = [V EXCEPT ![t] = B]
      BY <3>2, <3>3, CambiaUna
    <3>5. B = V[t] \o c
      BY <2>13, <2>14, <3>1
    <3> QED
      BY <3>1, <3>3, <3>4, <3>5
  <2>20. Plana!Crece(t, n)
    BY <1>4, <2>1, <2>2, <2>19 DEF Plana!Crece, Plana!Existe, Existe
  <2>21. Refleja
    BY <2>20 DEF Refleja, Plana!Next
  <2> QED
    BY <1>2, <2>12, <2>21 DEF Reflejado
<1> QED
  BY <1>3, <1>4

\* Delete: nothing of the file:tag is left, in memory or in Storage.
LEMMA DeletePlano ==
    ASSUME Plano, Seguro', NEW t \in Tag, Delete(t)
    PROVE  Reflejado
<1>1. Coherente /\ Coherente'
  BY DEF Plano, Seguro
<1>2. Asida'
  BY AsidaLibre DEF Delete
<1>3. PICK P : P = ToSet(PaginasDe(t))
  OBVIOUS
<1>4. /\ pagina' = [d \in Dir |-> IF d \in P THEN Ausente ELSE pagina[d]]
      /\ tablas' = [tablas EXCEPT ![t] = <<>>] /\ disco' = [disco EXCEPT ![t] = NoExiste]
  BY <1>3 DEF Delete
<1>5. Listas(tablas, fisicas) /\ Listas(tablas', fisicas')
  BY <1>1 DEF Coherente, ListasBien, Listas
<1>6. disco \in Almacen
  BY <1>1 DEF Coherente, DiscoBien, Almacen, Registro
<1>7. ASSUME NEW u \in Tag, NEW n \in Numero
      PROVE  <<u, n>> \in EnMemoria' <=> <<u, n>> \in EnMemoria /\ u # t
  <2>1. /\ <<u, n>> \in EnMemoria <=> Esta(tablas[u], n)
        /\ <<u, n>> \in EnMemoria' <=> Esta(tablas'[u], n)
    BY <1>5, EnTablas DEF EnMemoria
  <2>2. CASE u = t
    <3>1. tablas'[u] = <<>>
      BY <1>4, <1>5, <2>2 DEF Listas
    <3>2. ~ Esta(tablas'[u], n)
      BY <3>1 DEF Esta
    <3> QED
      BY <2>1, <2>2, <3>2
  <2>3. CASE u # t
    <3>1. tablas'[u] = tablas[u]
      BY <1>4, <1>5, <2>3 DEF Listas
    <3> QED
      BY <2>1, <2>3, <3>1
  <2> QED
    BY <2>2, <2>3
<1>8. EnMemoria \subseteq Dir /\ EnMemoria' \subseteq Dir
  BY <1>5, EnTablas DEF EnMemoria
<1>9. ASSUME NEW d \in EnMemoria' PROVE d \in EnMemoria /\ d[1] # t
  <2>1. d = <<d[1], d[2]>> /\ d[1] \in Tag /\ d[2] \in Numero
    BY <1>1, <1>8, DirEs
  <2> QED
    BY <1>7, <2>1
<1>10. ASSUME NEW d \in Dir, d[1] # t PROVE pagina'[d] = pagina[d]
  <2>1. \A i : PaginasDe(t)[i] # d \/ i \notin DOMAIN PaginasDe(t)
    BY <1>10 DEF PaginasDe
  <2>2. d \notin P
    BY <1>3, <2>1 DEF ToSet
  <2> QED
    BY <1>4, <2>2
<1>11. \A u \in Tag : u # t => disco'[u] = disco[u]
  BY <1>4, <1>6 DEF Almacen
<1>12. ConBloque'
  <2> SUFFICES ASSUME NEW d \in EnMemoria' PROVE TieneBloque(d)'
    BY DEF ConBloque
  <2>1. TieneBloque(d) /\ d[1] \in Tag /\ d[1] # t
    BY <1>1, <1>8, <1>9, DirEs DEF Plano, ConBloque
  <2> QED
    BY <1>11, <2>1 DEF TieneBloque
<1>13. CASE ~ Existe(t)
  <2>1. disco[t] = NoExiste
    <3>1. disco[t] = [fase |-> disco[t].fase, bloques |-> disco[t].bloques]
      BY <1>1, DiscoRegistro
    <3>2. disco[t].fase = "no" /\ disco[t].bloques = <<>>
      BY <1>13, NadaDe DEF Existe
    <3> QED
      BY <3>1, <3>2 DEF NoExiste
  <2>2. disco' = disco
    BY <1>4, <1>6, <2>1 DEF Almacen
  <2>3. EnMemoria' = EnMemoria
    <3>1. ASSUME NEW d \in EnMemoria PROVE d \in EnMemoria'
      <4>1. d = <<d[1], d[2]>> /\ d[1] \in Tag /\ d[2] \in Numero
        BY <1>1, <1>8, DirEs
      <4> QED
        BY <1>7, <1>13, <4>1, NadaDe
    <3> QED
      BY <1>9, <3>1
  <2>4. \A d \in EnMemoria : pagina'[d].contenido = pagina[d].contenido
    BY <1>8, <1>10, <1>13, NadaDe
  <2>5. Refleja
    BY <2>2, <2>3, <2>4, NadaCambia DEF Plano
  <2> QED
    BY <1>2, <1>12, <2>5 DEF Reflejado
<1>14. CASE Existe(t)
  <2>1. Vista'[t] = <<>>
    <3>1. PICK D : D = Vista'[t]
      OBVIOUS
    <3>2. D = [i \in 1..Len(disco'[t].bloques) |-> Visto(EnMemoria', pagina', disco', t, i)]
      BY <1>1, <3>1, VistaEnLuego
    <3>3. disco'[t].bloques = <<>>
      BY <1>4, <1>6 DEF Almacen, NoExiste
    <3>4. Len(disco'[t].bloques) = 0
      BY <3>3
    <3>5. D \in Seq({}) /\ Len(D) = 0
      BY <3>2, <3>4
    <3> QED
      BY <3>1, <3>5
  <2>2. ASSUME NEW u \in Tag, u # t PROVE Vista'[u] = Vista[u]
    <3>1. disco'[u] = disco[u]
      BY <1>11, <2>2
    <3>2. ASSUME NEW i \in 1..Len(disco[u].bloques)
          PROVE  Visto(EnMemoria', pagina', disco', u, i) = Visto(EnMemoria, pagina, disco, u, i)
      <4>1. PICK n \in Numero : n = i - 1 /\ <<u, n>> \in Dir
        BY <1>1, BloqueEs
      <4>2. pagina'[<<u, n>>] = pagina[<<u, n>>]
        BY <1>10, <2>2, <4>1
      <4>3. <<u, n>> \in EnMemoria' <=> <<u, n>> \in EnMemoria
        BY <1>7, <2>2
      <4> QED
        BY <3>1, <4>1, <4>2, <4>3 DEF Visto
    <3> QED
      BY <1>1, <3>1, <3>2, VistaIgualEn
  <2>3. Vista' = [Vista EXCEPT ![t] = <<>>]
    <3>1. PICK V, W : V = Vista /\ W = Vista'
      OBVIOUS
    <3>2. W[t] = <<>> /\ \A u \in Tag : u # t => W[u] = V[u]
      BY <2>1, <2>2, <3>1
    <3>3. V = [u \in Tag |-> V[u]] /\ W = [u \in Tag |-> W[u]]
      BY <3>1, VistaTabla
    <3>4. W = [V EXCEPT ![t] = <<>>]
      BY <3>2, <3>3, CambiaUna
    <3> QED
      BY <3>1, <3>4
  <2>4. Plana!Borra(t)
    BY <1>4, <1>14, <2>3 DEF Plana!Borra, Plana!Existe, Plana!NoExiste, Existe, NoExiste
  <2>5. Refleja
    BY <2>4 DEF Refleja, Plana!Next
  <2> QED
    BY <1>2, <1>12, <2>5 DEF Reflejado
<1> QED
  BY <1>13, <1>14

\* Caer: what is seen is what Storage has.
LEMMA CaerPlano ==
    ASSUME Plano, Seguro', Caer
    PROVE  Reflejado
<1>1. Coherente /\ Coherente'
  BY DEF Plano, Seguro
<1>2. disco' = disco /\ fisicas' = <<>> /\ instr' = Nada
  BY DEF Caer, Vacia, almacen
<1>3. EnMemoria' = {}
  BY <1>2 DEF EnMemoria, ToSet
<1>4. ConBloque' /\ Asida'
  BY <1>2, <1>3 DEF ConBloque, Asida
<1>5. ASSUME NEW u \in Tag PROVE Vista'[u] = disco[u].bloques
  <2>1. PICK s \in Seq(Valor) : s = disco[u].bloques
    BY <1>1, DiscoEs
  <2>2. Vista'[u] = [i \in 1..Len(disco'[u].bloques) |-> Visto(EnMemoria', pagina', disco', u, i)]
    BY <1>1, VistaEnLuego
  <2>3. \A i : Visto(EnMemoria', pagina', disco', u, i) = s[i]
    BY <1>2, <1>3, <2>1 DEF Visto
  <2>4. Vista'[u] = [i \in 1..Len(s) |-> s[i]]
    BY <1>2, <2>1, <2>2, <2>3
  <2> QED
    BY <2>1, <2>4
<1>6. Vista' = [u \in Tag |-> disco[u].bloques]
  <2>1. Vista' = [u \in Tag |-> Vista'[u]]
    BY VistaTabla
  <2> QED
    BY <1>5, <2>1
<1>7. Plana!Cae
  BY <1>2, <1>6 DEF Plana!Cae
<1>8. Refleja
  BY <1>7 DEF Refleja, Plana!Next
<1> QED
  BY <1>4, <1>8 DEF Reflejado

\* Storage when nothing is written.
LEMMA EscritosNada ==
    ASSUME Coherente
    PROVE  Escritos({}) = disco
<1>1. Escritos({}) = [u \in Tag |-> [disco[u] EXCEPT !.bloques = Nuevos(u, {})]]
  BY DEF Escritos, Nuevos
<1>2. ASSUME NEW u \in Tag PROVE [disco[u] EXCEPT !.bloques = Nuevos(u, {})] = disco[u]
  <2>1. Nuevos(u, {}) = disco[u].bloques
    BY NuevosNada
  <2>2. PICK r : r = disco[u] /\ r = [fase |-> r.fase, bloques |-> r.bloques]
    BY DiscoRegistro
  <2> QED
    BY <2>1, <2>2
<1>3. disco \in [Tag -> Registro]
  BY DEF Coherente, DiscoBien, Registro
<1> QED
  BY <1>1, <1>2, <1>3

\* Reemplaza: the victim is written, or was as Storage has it, or is lost because
\* its file:tag is COMMITED.
LEMMA ReemplazaPlano ==
    ASSUME Plano, Seguro', Reemplaza
    PROVE  Reflejado
<1>1. MemoriaMiss /\ Coherente /\ Coherente' /\ Seguro
  BY DEF Reemplaza, Plano, Seguro
<1>2. PICK v \in Dir : Reemplazo(v)
  BY <1>1, ReemplazaEs
<1>3. PICK t \in Tag, n \in Numero, a \in Dir : t = instr.tag /\ n = instr.num /\ a = Actual
  BY <1>1, FaltaEs
<1>4. /\ a = <<t, n>> /\ a[1] = t /\ a[2] = n /\ a \notin EnMemoria
      /\ n + 1 \in 1..Len(disco[t].bloques) /\ n \in Nat
  BY <1>1, <1>3, FaltaEs DEF Numero
<1>5. /\ v \in EnMemoria /\ v # a /\ EnMemoria' = (EnMemoria \ {v}) \cup {a}
      /\ \A d \in Dir : d # a /\ d # v => pagina'[d].contenido = pagina[d].contenido
  BY <1>2, <1>3 DEF Reemplazo
<1>6. PICK S \in SUBSET EnMemoria :
         S = {v} \cap {d \in Sucias : Acepta(d)} /\ disco' = Escritos(S)
  BY <1>2 DEF Reemplazo
<1>7. pagina \in [Dir -> Pagina] /\ EnMemoria \subseteq Dir
  BY <1>1, Basico DEF Coherente, MarcosBien
<1>8. pagina'[a].contenido = disco[t].bloques[n + 1]
  <2>1. PICK m \in 0..(total_pages - 1) : m = pagina[v].marco
    BY <1>7 DEF Pagina
  <2>2. pagina'[a] = Cargada(m)
    BY <1>2, <1>3, <2>1 DEF Reemplazo
  <2> QED
    BY <1>1, <1>3, <2>1, <2>2, CargadaEs
<1>9. PICK x \in Tag, y \in Numero : v = <<x, y>> /\ v[1] = x /\ v[2] = y /\ y \in Nat
  BY <1>1, DirEs
<1>10. TieneBloque(v) /\ y + 1 \in 1..Len(disco[x].bloques)
  BY <1>1, <1>5, <1>9, DirEs DEF Plano, ConBloque
<1>11. Grabado(disco', S)
  BY <1>1, <1>6, EscritosEs
<1>12. \A u \in Tag : Len(disco'[u].bloques) = Len(disco[u].bloques)
  BY <1>11 DEF Grabado
<1>13. ASSUME NEW u \in Tag, NEW i \in 1..Len(disco[u].bloques), u # x \/ i # y + 1
       PROVE  Visto(EnMemoria', pagina', disco', u, i) = Visto(EnMemoria, pagina, disco, u, i)
  <2>1. PICK d \in Dir : d = <<u, i - 1>> /\ i \in Nat \ {0}
    BY <1>1, BloqueEs
  <2>2. d # v
    BY <1>9, <1>13, <2>1, Bloque
  <2>3. disco'[u].bloques[i] = disco[u].bloques[i]
    BY <1>6, <1>11, <2>1, <2>2 DEF Grabado
  <2>4. CASE d = a
    <3>1. u = t /\ i = n + 1
      BY <1>4, <2>1, <2>4, Bloque
    <3> QED
      BY <1>4, <1>5, <1>8, <2>1, <2>4, <3>1 DEF Visto
  <2>5. CASE d # a
    BY <1>5, <2>1, <2>2, <2>3, <2>5 DEF Visto
  <2> QED
    BY <2>4, <2>5
<1>14. /\ <<x, (y + 1) - 1>> = v
       /\ Visto(EnMemoria, pagina, disco, x, y + 1) = pagina[v].contenido
       /\ Visto(EnMemoria', pagina', disco', x, y + 1) = disco'[x].bloques[y + 1]
  <2>1. <<x, (y + 1) - 1>> = v
    BY <1>9
  <2>2. v \notin EnMemoria'
    BY <1>5
  <2> QED
    BY <1>5, <2>1, <2>2 DEF Visto
<1>15. disco'[x].bloques[y + 1] = IF v \in S THEN pagina[v].contenido
                                  ELSE disco[x].bloques[y + 1]
  <2>1. PICK i \in 1..Len(disco[x].bloques) : i = y + 1 /\ <<x, i - 1>> = v
    BY <1>10, <1>14
  <2>2. disco'[x].bloques[i] = IF <<x, i - 1>> \in S THEN pagina[<<x, i - 1>>].contenido
                               ELSE disco[x].bloques[i]
    BY <1>11 DEF Grabado
  <2> QED
    BY <2>1, <2>2
<1>16. ConBloque'
  <2> SUFFICES ASSUME NEW d \in EnMemoria' PROVE TieneBloque(d)'
    BY DEF ConBloque
  <2>1. TieneBloque(d) /\ d[1] \in Tag
    BY <1>1, <1>3, <1>4, <1>5, <1>7, DirEs DEF Plano, ConBloque, MemoriaMiss
  <2> QED
    BY <1>12, <2>1 DEF TieneBloque
<1>17. Asida'
  <2>1. Actual' = a
    BY <1>1, <1>3, ActualSigue DEF MemoriaMiss, Pide, Reemplaza
  <2> QED
    BY <1>5, <2>1 DEF Asida
<1>18. CASE v \notin Sucias \/ Acepta(v)
  <2>1. disco'[x].bloques[y + 1] = pagina[v].contenido
    <3>1. CASE v \in Sucias
      BY <1>6, <1>15, <1>18, <3>1
    <3>2. CASE v \notin Sucias
      <4>1. pagina[v].contenido = disco[x].bloques[y + 1]
        BY <1>1, <1>5, <1>9, <3>2 DEF Seguro, LimpiaIgualDisco
      <4> QED
        BY <1>15, <4>1
    <3> QED
      BY <3>1, <3>2
  <2>2. ASSUME NEW u \in Tag, NEW i \in 1..Len(disco[u].bloques)
        PROVE  Visto(EnMemoria', pagina', disco', u, i) = Visto(EnMemoria, pagina, disco, u, i)
    <3>1. CASE u = x /\ i = y + 1
      BY <1>14, <2>1, <3>1
    <3>2. CASE u # x \/ i # y + 1
      BY <1>13, <3>2
    <3> QED
      BY <3>1, <3>2
  <2>3. Vista' = Vista
    BY <1>1, <1>12, <2>2, VistaQuieta
  <2>4. \A d \in S : Acepta(d)
    BY <1>6
  <2>5. Refleja
    BY <1>1, <1>6, <2>3, <2>4, PersistePlano
  <2> QED
    BY <1>16, <1>17, <2>5 DEF Reflejado
<1>19. CASE v \in Sucias /\ ~ Acepta(v)
  <2>1. S = {}
    BY <1>6, <1>19
  <2>2. disco' = disco
    BY <1>1, <1>6, <2>1, EscritosNada
  <2>3. disco[x].fase = "commit"
    <3>1. disco[x].fase # "wip"
      BY <1>9, <1>10, <1>19 DEF Acepta
    <3>2. disco[x].fase # "no"
      <4> SUFFICES ASSUME disco[x].fase = "no" PROVE FALSE
        OBVIOUS
      <4>1. Len(disco[x].bloques) = 0
        BY NadaDe DEF Existe
      <4> QED
        BY <1>10, <4>1
    <3> QED
      BY <1>1, <3>1, <3>2, DiscoEs
  <2>4. PICK k \in 1..MaxBloques : k = y + 1 /\ k \in 1..Len(disco[x].bloques)
    BY <1>1, <1>10, BloqueEs
  <2>5. PICK z : z = disco[x].bloques[k]
    OBVIOUS
  <2>6. PICK V, W : V = Vista /\ W = Vista'
    OBVIOUS
  <2>7. Visto(EnMemoria', pagina', disco', x, k) = z
    BY <1>14, <2>2, <2>4, <2>5
  <2>8. W[x] = [V[x] EXCEPT ![k] = z]
    <3>1. PICK A, B, N : A = V[x] /\ B = W[x] /\ N = Len(disco[x].bloques)
      OBVIOUS
    <3>2. A = [i \in 1..N |-> Visto(EnMemoria, pagina, disco, x, i)]
      BY <1>1, <2>6, <3>1, VistaEn
    <3>3. B = [i \in 1..N |-> Visto(EnMemoria', pagina', disco', x, i)]
      <4>1. B = [i \in 1..Len(disco'[x].bloques) |-> Visto(EnMemoria', pagina', disco', x, i)]
        BY <1>1, <2>6, <3>1, VistaEnLuego
      <4> QED
        BY <1>12, <3>1, <4>1
    <3>4. \A i \in 1..N : i # k => B[i] = A[i]
      BY <1>13, <2>4, <3>1, <3>2, <3>3
    <3>5. k \in 1..N /\ B[k] = z
      BY <2>4, <2>7, <3>1, <3>3
    <3>6. A = [i \in 1..N |-> A[i]] /\ B = [i \in 1..N |-> B[i]]
      BY <3>2, <3>3
    <3>7. B = [A EXCEPT ![k] = z]
      BY <3>4, <3>5, <3>6, CambiaUna
    <3> QED
      BY <3>1, <3>7
  <2>9. ASSUME NEW u \in Tag, u # x PROVE W[u] = V[u]
    <3>1. \A i \in 1..Len(disco[u].bloques) :
             Visto(EnMemoria', pagina', disco', u, i) = Visto(EnMemoria, pagina, disco, u, i)
      BY <1>13, <2>9
    <3> QED
      BY <1>1, <1>12, <2>6, <3>1, VistaIgualEn
  <2>10. V = [u \in Tag |-> V[u]] /\ W = [u \in Tag |-> W[u]]
    BY <2>6, VistaTabla
  <2>11. W = [V EXCEPT ![x] = [V[x] EXCEPT ![k] = z]]
    BY <2>8, <2>9, <2>10, CambiaUna
  <2>12. W = [V EXCEPT ![x][k] = z]
    BY <2>10, <2>11
  <2>13. <<x, k>> \in Plana!Bloques
    <3>1. k \in DOMAIN disco[x].bloques
      BY <1>1, <2>4, DiscoEs
    <3> QED
      BY <3>1 DEF Plana!Bloques
  <2>14. Plana!Descarta(x, k)
    BY <2>2, <2>3, <2>5, <2>6, <2>12, <2>13 DEF Plana!Descarta
  <2>15. Refleja
    BY <2>14 DEF Refleja, Plana!Next
  <2> QED
    BY <1>16, <1>17, <2>15 DEF Reflejado
<1> QED
  BY <1>18, <1>19

\* Every step of the Worker is a step of MemoriaPlana or none.
LEMMA PlanoPaso ==
    ASSUME Plano, [Next]_vars
    PROVE  Plano' /\ [Plana!Next]_(Plana!vars)
<1>1. Seguro'
  BY SeguroPaso DEF Plano
<1>2. Reflejado
  <2>1. CASE \/ Iniciar \/ Terminar \/ FallaLectura
             \/ \E op \in {"READ", "WRITE"}, t \in Tag, i, j \in 0..(MaxBloques - 1), v \in Valor :
                   Empezar(op, t, i, j, v)
    BY <1>1, <2>1, QuietoPlano
  <2>2. CASE Desalojar
    BY <1>1, <2>2, DesalojarPlano
  <2>3. CASE PasaSegundo
    BY <1>1, <2>3, SegundoPlano
  <2>4. CASE Caer
    BY <1>1, <2>4, CaerPlano
  <2>5. CASE Acierto
    BY <1>1, <2>5, AciertoPlano
  <2>6. CASE CargaEnMarcoLibre
    BY <1>1, <2>6, CargaPlano
  <2>7. CASE Reemplaza
    BY <1>1, <2>7, ReemplazaPlano
  <2>8. CASE Acceder
    BY <1>1, <2>8, AccederPlano
  <2>9. CASE \E t \in Tag : Flush(t) \/ Commit(t) \/ Delete(t) \/ Create(t)
    BY <1>1, <2>9, FlushPlano, CommitPlano, DeletePlano, CreatePlano
  <2>10. CASE \E t \in Tag, n \in 1..MaxBloques : Truncate(t, n)
    BY <1>1, <2>10, TruncatePlano
  <2>11. CASE \E o, d \in Tag : TagFile(o, d)
    BY <1>1, <2>11, TagFilePlano
  <2>12. CASE UNCHANGED vars
    <3>1. UNCHANGED <<algoritmo, memoria, almacen>> /\ instr' = instr /\ EnMemoria' = EnMemoria
      BY <2>12 DEF vars, memoria, EnMemoria
    <3>2. Asida'
      BY <3>1 DEF Plano, Asida, Actual
    <3> QED
      BY <1>1, <3>1, <3>2, NadaPlano DEF Reflejado
  <2> QED
    BY <2>1, <2>2, <2>3, <2>4, <2>5, <2>6, <2>7, <2>8, <2>9, <2>10, <2>11, <2>12 DEF Next
<1>3. Plano'
  BY <1>1, <1>2 DEF Reflejado, Plano
<1>4. [Plana!Next]_(Plana!vars)
  BY <1>2 DEF Reflejado, Refleja, Plana!vars
<1> QED
  BY <1>3, <1>4

\* ... and it starts where MemoriaPlana does.
LEMMA PlanoInicio ==
    ASSUME Init
    PROVE  Plano /\ Plana!Init
<1>1. /\ fisicas = <<>> /\ instr = Nada /\ disco = [t \in Tag |-> NoExiste]
  BY DEF Init
<1>2. EnMemoria = {}
  BY <1>1 DEF EnMemoria, ToSet
<1>3. Plano
  BY <1>1, <1>2, SeguroInicio DEF Plano, ConBloque, Asida
<1>4. \A t \in Tag : disco[t].bloques = <<>>
  BY <1>1 DEF NoExiste
<1>5. Coherente
  BY SeguroInicio DEF Seguro
<1>6. Vista = [t \in Tag |-> Vista[t]]
  BY VistaTabla
<1>7. \A t \in Tag : Vista[t] = <<>>
  BY <1>4 DEF Vista
<1>8. Vista = [t \in Tag |-> <<>>]
  BY <1>6, <1>7
<1> QED
  BY <1>1, <1>3, <1>8 DEF Plana!Init, NoExiste, Plana!NoExiste

\* What a query reads is what was written last, unless the Worker died or the
\* file:tag was COMMITED first: RefinaMemoria.
THEOREM MemoriaTransparente == Spec => RefinaMemoria
<1>1. Init => Plano /\ Plana!Init
  BY PlanoInicio
<1>2. Plano /\ [Next]_vars => Plano' /\ [Plana!Next]_(Plana!vars)
  BY PlanoPaso
<1> QED
  BY <1>1, <1>2, PTL DEF Spec, RefinaMemoria, Plana!Spec
=============================================================================
