-------------------------- MODULE Storage_exactos --------------------------
(***************************************************************************)
(* With one Worker, until a request is cut: the two records of where each  *)
(* logical block is agree, and the bitmap and the hash index are exact     *)
(* (EnlacesCoinciden, BitmapExacto, HashExacto).  In the middle of a       *)
(* request they are not: TareaExacta says, for each step of each request,  *)
(* what is still to be done for them to be.  From that, and from what each *)
(* request has in its copy of the metadata (Intencion), Storage implements *)
(* Archivos (RefinaArchivos).                                              *)
(***************************************************************************)
EXTENDS Storage_proofs, FiniteSetTheorems

\* One Worker, no script that changes initial_file:BASE, and a number of blocks
\* that fills the last byte of the bitmap.
UnSolo == (\E w : Worker = {w}) /\ ~ TocaBase /\ Bits = Bloques

-----------------------------------------------------------------------------
(* The inductive invariant.                                                *)

Ligados == {enlaces[t][i] : t \in Tag, i \in Logico} \ {Nadie}
EnUso == {0} \cup Ligados

\* The links of t are those of the list s; a name beyond it is linked to the block 0.
Coincide(t, s) ==
    \A i \in Logico : enlaces[t][i] # Nadie => enlaces[t][i] = (IF i \in DOMAIN s THEN s[i] ELSE 0)

\* Those of the list that are not linked are the block 0, but for the names of S.
Faltan(t, s, S) == \A i \in DOMAIN s : enlaces[t][i] = Nadie => i \in S \/ s[i] = 0

MetaExacta(t) ==
    /\ Coincide(t, meta[t].bloques) /\ Faltan(t, meta[t].bloques, {})
    /\ ~ Existe(t) => meta[t] = NoExiste /\ enlaces[t] = SinEnlaces

BaseBien ==
    /\ meta[Base] = [tam |-> BLOCK_SIZE, estado |-> "COMMITED", bloques |-> <<0>>]
    /\ enlaces[Base][1] = 0 /\ contenido[0] = Cero

\* Another name is linked to the block of the name i of t.
Compartido(t, i) ==
    \E u \in Tag, j \in Logico : <<u, j>> # <<t, i>> /\ enlaces[u][j] = enlaces[t][i]

\* A WRITE of the name i of t in the block b, with the list s to be saved: in the
\* block that it has, ...
EnSitio(t, i, s, b) ==
    /\ s = meta[t].bloques /\ i \in DOMAIN s /\ b = s[i]
    /\ Coincide(t, s) /\ Faltan(t, s, {})
    /\ enlaces[t][i] = b /\ ~ Compartido(t, i)

\* ... in a new one, while the name is linked to the old one, ...
Elegido(t, i, s, b) ==
    /\ i \in DOMAIN meta[t].bloques /\ s = [meta[t].bloques EXCEPT ![i] = b]
    /\ Coincide(t, meta[t].bloques) /\ Faltan(t, meta[t].bloques, {})
    /\ enlaces[t][i] = meta[t].bloques[i] /\ Compartido(t, i)
    /\ b \notin EnUso

\* ... and when it has left it.
Aparte(t, i, s, b) ==
    /\ i \in DOMAIN s /\ s[i] = b
    /\ Coincide(t, s) /\ Faltan(t, s, {i})
    /\ enlaces[t][i] = Nadie /\ b \in bitmap

\* The request of h, with the disk as it is half way.
TareaExacta(h) ==
    LET t == h.tag
        s == h.copia.bloques
        i == Head(h.faltan)
    IN  /\ h.paso \in {"alargar", "guardar", "buscar"} => Coincide(t, s) /\ Faltan(t, s, {})
        /\ h.paso = "marcar" => s = meta[t].bloques /\ enlaces[t] = SinEnlaces
                                /\ h.faltan = Indices(h.copia) /\ ToSet(s) \subseteq bitmap
        /\ h.paso = "ligar" => s = meta[t].bloques /\ ToSet(s) \subseteq bitmap
                               /\ Coincide(t, s) /\ Faltan(t, s, ToSet(h.faltan))
        /\ h.paso \in Deduplicando \cup {"indexar"} => h.indice = hash
        /\ h.paso \in {"soltar", "religar"} =>
             /\ Coincide(t, s) /\ Faltan(t, s, {i}) /\ enlaces[t][i] = Nadie
             /\ h.bloque \in bitmap /\ h.bloque # s[i]
        /\ h.paso \in {"desligar", "liberar", "quitar"} => Coincide(t, s)
        /\ h.paso = "desligar" => \A j \in DOMAIN s : enlaces[t][j] = Nadie \/ j \in ToSet(h.faltan)
        /\ h.paso = "liberar" => \A j \in DOMAIN s : enlaces[t][j] = Nadie
        /\ h.paso = "quitar" => \A j \in Logico : enlaces[t][j] \in {0, Nadie}
        /\ h.paso = "reservar" => h.nuevo /\ Elegido(t, i, s, h.bloque)
        /\ h.paso = "escribir" => IF h.nuevo THEN Elegido(t, i, s, h.bloque) /\ h.bloque \in bitmap
                                  ELSE EnSitio(t, i, s, h.bloque)
        /\ h.paso \in {"hash", "indexar"} =>
             /\ contenido[h.bloque] = h.valor
             /\ IF h.nuevo THEN Aparte(t, i, s, h.bloque) ELSE EnSitio(t, i, s, h.bloque)
        /\ h.paso = "enlazar" => Aparte(t, i, s, h.bloque)

\* Blocks in use that nothing is linked to, in the middle of a request.
Sobrante(h) ==
    CASE h.paso = "soltar" -> {h.copia.bloques[Head(h.faltan)]}
      [] h.paso = "desligar" -> ToSet(h.copia.bloques)
      [] h.paso = "liberar" -> {h.copia.bloques[j] : j \in ToSet(h.faltan)}
      [] h.paso \in {"escribir", "hash", "indexar", "enlazar"} -> {h.bloque}
      [] OTHER -> {}

\* A block whose hash has still to be saved.
Pendiente(h) == IF h.paso \in {"escribir", "hash", "indexar"} THEN {h.bloque} ELSE {}

EnDisco(h) ==
    /\ h = Ocioso => \A t \in Tag : MetaExacta(t)
    /\ h # Ocioso => /\ \A t \in Tag : t # h.tag => MetaExacta(t)
                     /\ h.tag = Base => h.paso = "guardar" /\ h.copia = meta[Base]
                     /\ Existe(h.tag) /\ h.copia.estado # "NO" /\ TareaExacta(h)
    /\ \A b \in bitmap : b \in Pendiente(h) \/ hash[b] = contenido[b]
    /\ EnUso \subseteq bitmap /\ bitmap \subseteq EnUso \cup Sobrante(h)

Firme == BaseBien /\ \A w \in Worker : EnDisco(hilo[w])
Exacto == cortes = 0 => Firme

-----------------------------------------------------------------------------
(* Links.                                                                  *)

\* The names that are linked to a block.
NombresDe(en, b) == {p \in Tag \X Logico : en[p[1]][p[2]] = b}

\* They are counted.
LEMMA NombresFinitos ==
    ASSUME StorageAssumption, NEW en, NEW b
    PROVE  /\ IsFiniteSet(NombresDe(en, b)) /\ Cardinality(NombresDe(en, b)) \in Nat
           /\ NLink(en, b) = 1 + Cardinality(NombresDe(en, b))
<1>1. IsFiniteSet(Logico)
  BY FS_Interval DEF Logico, StorageAssumption
<1>2. IsFiniteSet(Tag \X Logico)
  BY <1>1, FS_Product DEF StorageAssumption
<1>3. NombresDe(en, b) \subseteq Tag \X Logico
  BY DEF NombresDe
<1>4. IsFiniteSet(NombresDe(en, b))
  BY <1>2, <1>3, FS_Subset
<1> QED
  BY <1>4, FS_CardinalityType DEF NLink, NombresDe

\* A block whose only name is its own is linked to nothing.
LEMMA NLinkUno ==
    ASSUME StorageAssumption, NEW en, NEW b
    PROVE  NLink(en, b) = 1 <=> \A t \in Tag : \A i \in Logico : en[t][i] # b
<1>1. PICK S : S = NombresDe(en, b)
  OBVIOUS
<1>2. IsFiniteSet(S) /\ Cardinality(S) \in Nat /\ NLink(en, b) = 1 + Cardinality(S)
  BY <1>1, NombresFinitos
<1>3. NLink(en, b) = 1 <=> Cardinality(S) = 0
  BY <1>2
<1>4. Cardinality(S) = 0 <=> S = {}
  BY <1>2, FS_EmptySet
<1>5. S = {} <=> \A t \in Tag : \A i \in Logico : en[t][i] # b
  <2>1. ASSUME NEW t \in Tag, NEW i \in Logico PROVE <<t, i>> \in S <=> en[t][i] = b
    BY <1>1 DEF NombresDe
  <2>2. ASSUME NEW p \in S PROVE \E t \in Tag : \E i \in Logico : en[t][i] = b
    BY <1>1 DEF NombresDe
  <2> QED
    BY <2>1, <2>2
<1> QED
  BY <1>3, <1>4, <1>5

\* A block with two names is linked to one logical block only.
LEMMA NLinkDos ==
    ASSUME StorageAssumption, NEW t \in Tag, NEW i \in Logico
    PROVE  NLink(enlaces, enlaces[t][i]) <= 2 <=> ~ Compartido(t, i)
<1>1. PICK b : b = enlaces[t][i]
  OBVIOUS
<1>2. PICK S : S = NombresDe(enlaces, b)
  OBVIOUS
<1>3. IsFiniteSet(S) /\ Cardinality(S) \in Nat /\ NLink(enlaces, b) = 1 + Cardinality(S)
  BY <1>2, NombresFinitos
<1>4. <<t, i>> \in S
  BY <1>1, <1>2 DEF NombresDe
<1>5. PICK R : R = S \ {<<t, i>>}
  OBVIOUS
<1>6. Compartido(t, i) <=> R # {}
  <2>1. ASSUME Compartido(t, i) PROVE R # {}
    BY <1>1, <1>2, <1>5, <2>1 DEF Compartido, NombresDe
  <2>2. ASSUME NEW p \in R PROVE Compartido(t, i)
    BY <1>1, <1>2, <1>5, <2>2 DEF Compartido, NombresDe
  <2> QED
    BY <2>1, <2>2
<1>7. IsFiniteSet(R) /\ Cardinality(R) = Cardinality(S) - 1
  BY <1>3, <1>4, <1>5, FS_RemoveElement
<1>8. (Cardinality(R) = 0 <=> R = {}) /\ Cardinality(R) \in Nat
  BY <1>7, FS_EmptySet, FS_CardinalityType
<1>9. NLink(enlaces, b) <= 2 <=> Cardinality(R) = 0
  BY <1>3, <1>7, <1>8
<1> QED
  BY <1>1, <1>6, <1>8, <1>9

\* One name is linked, or removed.
Enlaza(t, i, b) == enlaces' = [enlaces EXCEPT ![t][i] = b]
LEMMA EnlaceCambia ==
    ASSUME StorageAssumption, Tipos, NEW t \in Tag, NEW i \in Logico, NEW b, Enlaza(t, i, b)
    PROVE  /\ \A u \in Tag : u # t => enlaces'[u] = enlaces[u]
           /\ \A j \in Logico : enlaces'[t][j] = IF j = i THEN b ELSE enlaces[t][j]
           /\ \A u \in Tag : \A j \in Logico :
                 enlaces'[u][j] = IF u = t /\ j = i THEN b ELSE enlaces[u][j]
BY BloquesDisco DEF Enlaza

\* A name that was not linked is linked to b.
LEMMA LigaUso ==
    ASSUME StorageAssumption, Tipos, NEW t \in Tag, NEW i \in Logico, NEW b \in Bloque,
           enlaces[t][i] = Nadie, Enlaza(t, i, b)
    PROVE  EnUso' = EnUso \cup {b}
<1>1. b # Nadie
  BY DEF Bloque, StorageAssumption
<1>2. \A u \in Tag : \A j \in Logico :
        enlaces'[u][j] = IF u = t /\ j = i THEN b ELSE enlaces[u][j]
  BY EnlaceCambia
<1>3. \A x \in Ligados' : x \in Ligados \cup {b}
  BY <1>2 DEF Ligados
<1>4. \A x \in Ligados : x \in Ligados'
  <2> SUFFICES ASSUME NEW u \in Tag, NEW j \in Logico, enlaces[u][j] # Nadie
               PROVE  enlaces[u][j] \in Ligados'
    BY DEF Ligados
  <2>1. enlaces'[u][j] = enlaces[u][j]
    BY <1>2
  <2> QED
    BY <2>1 DEF Ligados
<1>5. b \in Ligados'
  <2>1. enlaces'[t][i] = b
    BY <1>2
  <2> QED
    BY <1>1, <2>1 DEF Ligados
<1> QED
  BY <1>3, <1>4, <1>5 DEF EnUso

\* A name is removed.
LEMMA DesligaUso ==
    ASSUME StorageAssumption, Tipos, NEW t \in Tag, NEW i \in Logico, Enlaza(t, i, Nadie)
    PROVE  /\ EnUso' \subseteq EnUso
           /\ EnUso \subseteq EnUso' \cup ({enlaces[t][i]} \ {Nadie})
           /\ Compartido(t, i) => EnUso' = EnUso
<1>1. \A u \in Tag : \A j \in Logico :
        enlaces'[u][j] = IF u = t /\ j = i THEN Nadie ELSE enlaces[u][j]
  BY EnlaceCambia
<1>2. \A x \in Ligados' : x \in Ligados
  BY <1>1 DEF Ligados
<1>3. ASSUME NEW u \in Tag, NEW j \in Logico, enlaces[u][j] # Nadie, <<u, j>> # <<t, i>>
      PROVE  enlaces[u][j] \in Ligados'
  <2>1. enlaces'[u][j] = enlaces[u][j]
    BY <1>1, <1>3
  <2> QED
    BY <1>3, <2>1 DEF Ligados
<1>4. ASSUME NEW x \in Ligados PROVE x \in Ligados' \/ x = enlaces[t][i]
  <2>1. PICK u \in Tag, j \in Logico : x = enlaces[u][j] /\ x # Nadie
    BY DEF Ligados
  <2> QED
    BY <1>3, <2>1
<1>5. Compartido(t, i) /\ enlaces[t][i] # Nadie => enlaces[t][i] \in Ligados'
  <2> SUFFICES ASSUME Compartido(t, i), enlaces[t][i] # Nadie PROVE enlaces[t][i] \in Ligados'
    OBVIOUS
  <2>1. PICK u \in Tag, j \in Logico : <<u, j>> # <<t, i>> /\ enlaces[u][j] = enlaces[t][i]
    BY DEF Compartido
  <2>2. enlaces[u][j] \in Ligados'
    BY <1>3, <2>1
  <2> QED
    BY <2>1, <2>2
<1>6. Nadie \notin Ligados
  BY DEF Ligados
<1> QED
  BY <1>2, <1>4, <1>5, <1>6 DEF EnUso

\* A block that no logical block is linked to is not in use, unless it is the 0.
LEMMA SinLigar ==
    ASSUME StorageAssumption, NEW b \in Bloque
    PROVE  /\ NLink(enlaces, b) = 1 => b \notin Ligados
           /\ NLink(enlaces, b) # 1 => b \in Ligados
<1>1. b # Nadie
  BY DEF Bloque, StorageAssumption
<1>2. NLink(enlaces, b) = 1 <=> \A t \in Tag : \A i \in Logico : enlaces[t][i] # b
  BY NLinkUno
<1> QED
  BY <1>1, <1>2 DEF Ligados

\* The block 0 has a name in BASE.
LEMMA CeroLigado ==
    ASSUME StorageAssumption, BaseBien
    PROVE  0 \in Ligados /\ Base \in Tag /\ 1 \in Logico /\ enlaces[Base][1] = 0 /\ 0 # Nadie
<1>1. Base \in Tag /\ 1 \in Logico /\ 0 # Nadie
  BY DEF StorageAssumption, Logico
<1>2. enlaces[Base][1] = 0
  BY DEF BaseBien
<1> QED
  BY <1>1, <1>2 DEF Ligados

\* With the links as they are, the same blocks are in use.
LEMMA UsoIgual ==
    ASSUME enlaces' = enlaces
    PROVE  EnUso' = EnUso
BY DEF EnUso, Ligados

-----------------------------------------------------------------------------
(* What a step has to show.                                                *)

\* The logical blocks of a request.
LEMMA IndicesSon ==
    ASSUME NEW S, NEW m, m.bloques \in Seq(S)
    PROVE  ToSet(Indices(m)) = DOMAIN m.bloques
<1>1. DOMAIN Indices(m) = DOMAIN m.bloques /\ \A j \in DOMAIN m.bloques : Indices(m)[j] = j
  BY DEF Indices
<1> QED
  BY <1>1 DEF ToSet

\* Those that are left after the first.
LEMMA QuedanTras ==
    ASSUME NEW S, NEW s \in Seq(S), s # <<>>
    PROVE  /\ ToSet(s) = {Head(s)} \cup ToSet(Tail(s))
           /\ Len(s) = 1 => ToSet(s) = {Head(s)}
<1>1. PICK N \in Nat \ {0} : N = Len(s) /\ DOMAIN s = 1..N
  BY RestoTipo
<1>2. Head(s) = s[1] /\ DOMAIN Tail(s) = 1..(N - 1)
  BY <1>1
<1>3. \A j \in 1..(N - 1) : Tail(s)[j] = s[j + 1]
  BY <1>1
<1>4. ASSUME NEW x \in ToSet(s) PROVE x = Head(s) \/ x \in ToSet(Tail(s))
  <2>1. PICK j \in 1..N : x = s[j]
    BY <1>1 DEF ToSet
  <2>2. CASE j = 1
    BY <1>2, <2>1, <2>2
  <2>3. CASE j # 1
    <3>1. j - 1 \in 1..(N - 1) /\ (j - 1) + 1 = j
      BY <2>3
    <3>2. Tail(s)[j - 1] = s[j]
      BY <1>3, <3>1
    <3> QED
      BY <1>2, <2>1, <3>1, <3>2 DEF ToSet
  <2> QED
    BY <2>2, <2>3
<1>5. ASSUME NEW x \in ToSet(Tail(s)) PROVE x \in ToSet(s)
  <2>1. PICK j \in 1..(N - 1) : x = Tail(s)[j]
    BY <1>2 DEF ToSet
  <2>2. j + 1 \in 1..N
    BY <2>1
  <2>3. x = s[j + 1]
    BY <1>3, <2>1
  <2> QED
    BY <1>1, <2>2, <2>3 DEF ToSet
<1>6. Head(s) \in ToSet(s)
  BY <1>1, <1>2 DEF ToSet
<1>7. Len(s) = 1 => ToSet(Tail(s)) = {}
  BY <1>1, <1>2 DEF ToSet
<1> QED
  BY <1>4, <1>5, <1>6, <1>7

\* A file:tag that a step does not touch is as exact as it was.
LEMMA MetaIgual ==
    ASSUME NEW u \in Tag, MetaExacta(u), enlaces'[u] = enlaces[u], meta'[u] = meta[u]
    PROVE  MetaExacta(u)'
BY DEF MetaExacta, Coincide, Faltan, Existe

\* A step over t leaves the request at r, or done.
LEMMA Continua ==
    ASSUME StorageAssumption, Tipos, UnSolo, BaseBien, NEW w \in Worker, NEW t \in Tag, NEW r,
           hilo' = [hilo EXCEPT ![w] = r], t # Base, contenido'[0] = contenido[0],
           \A u \in Tag : u # t => MetaExacta(u) /\ enlaces'[u] = enlaces[u] /\ meta'[u] = meta[u],
           IF r = Ocioso THEN MetaExacta(t)'
           ELSE r.tag = t /\ Existe(t)' /\ r.copia.estado # "NO" /\ TareaExacta(r)',
           \A b \in bitmap' : b \in Pendiente(r) \/ hash'[b] = contenido'[b],
           EnUso' \subseteq bitmap', bitmap' \subseteq EnUso' \cup Sobrante(r)
    PROVE  Firme'
<1>1. BaseBien'
  BY DEF BaseBien, StorageAssumption
<1>2. \A u \in Tag : u # t => MetaExacta(u)'
  BY MetaIgual
<1>3. EnDisco(r)'
  BY <1>2 DEF EnDisco
<1>4. hilo'[w] = r /\ \A v \in Worker : v = w
  BY DEF UnSolo, Tipos, HilosBien
<1> QED
  BY <1>1, <1>3, <1>4 DEF Firme

\* A step over t ends the request.
LEMMA Acaba ==
    ASSUME StorageAssumption, Tipos, UnSolo, BaseBien, NEW w \in Worker, NEW t \in Tag,
           hilo' = [hilo EXCEPT ![w] = Ocioso], t # Base \/ UNCHANGED <<meta, enlaces>>,
           contenido'[0] = contenido[0],
           \A u \in Tag : u # t => MetaExacta(u) /\ enlaces'[u] = enlaces[u] /\ meta'[u] = meta[u],
           MetaExacta(t)', \A b \in bitmap' : hash'[b] = contenido'[b],
           EnUso' \subseteq bitmap', bitmap' \subseteq EnUso'
    PROVE  Firme'
<1>1. BaseBien'
  BY DEF BaseBien, StorageAssumption
<1>2. \A u \in Tag : MetaExacta(u)'
  BY MetaIgual
<1>3. EnDisco(Ocioso)'
  BY <1>2 DEF EnDisco
<1>4. hilo'[w] = Ocioso /\ \A v \in Worker : v = w
  BY DEF UnSolo, Tipos, HilosBien
<1> QED
  BY <1>1, <1>3, <1>4 DEF Firme

\* The request that a step goes on with.
LEMMA EnFirme ==
    ASSUME StorageAssumption, Tipos, Firme, NEW w \in Worker, NEW p, En(w, p), NEW h, h = hilo[w]
    PROVE  /\ h.paso = p /\ h # Ocioso /\ h.tag \in Tag /\ Existe(h.tag)
           /\ h.tag # Base \/ (p = "guardar" /\ h.copia = meta[Base])
           /\ h \in EnCurso /\ h.faltan \in Seq(Logico) /\ h.copia.bloques \in Seq(Bloque)
           /\ h.copia.estado # "NO" /\ TareaExacta(h) /\ TareaBien(h, dirs, ConHash)
           /\ p \in ConFaltan => h.faltan # <<>> /\ Head(h.faltan) \in Logico
           /\ p \in ConFaltan /\ p \in PorBloques => Head(h.faltan) \in DOMAIN h.copia.bloques
           /\ \A u \in Tag : u # h.tag => MetaExacta(u)
           /\ \A b \in bitmap : b \in Pendiente(h) \/ hash[b] = contenido[b]
           /\ EnUso \subseteq bitmap /\ bitmap \subseteq EnUso \cup Sobrante(h)
<1>1. h.paso = p /\ TareaBien(h, dirs, ConHash) /\ h # Ocioso
  BY EnTarea DEF En
<1>2. /\ h \in EnCurso /\ h.tag \in Tag /\ h.copia.bloques \in Lista(Bloque)
      /\ p \in ConFaltan => h.faltan # <<>> /\ Head(h.faltan) \in Logico
      /\ p \in ConFaltan /\ p \in PorBloques => Head(h.faltan) \in DOMAIN h.copia.bloques
  BY <1>1, CopiaEs, BloquesDisco
<1>3. EnDisco(h)
  BY DEF Firme
<1> QED
  BY <1>1, <1>2, <1>3 DEF EnDisco, EnCurso, Lista

\* The list of a request is within the bound.
LEMMA DominioCopia ==
    ASSUME StorageAssumption, Tipos, NEW w \in Worker, NEW p, En(w, p), NEW h, h = hilo[w]
    PROVE  DOMAIN h.copia.bloques \subseteq Logico
<1>1. h.copia.bloques \in Lista(Bloque)
  BY EnTarea, CopiaEs, BloquesDisco
<1>2. PICK s \in Seq(Bloque) : s = h.copia.bloques /\ Len(s) <= MaxLogicos
  BY <1>1 DEF Lista
<1>3. DOMAIN s = 1..Len(s) /\ Len(s) \in Nat /\ MaxLogicos \in Nat
  BY <1>2 DEF StorageAssumption
<1> QED
  BY <1>2, <1>3 DEF Logico

\* No request is under way.
LEMMA EnCalma ==
    ASSUME StorageAssumption, Tipos, Firme, NEW w \in Worker, Atiende(w)
    PROVE  /\ \A u \in Tag : MetaExacta(u)
           /\ \A b \in bitmap : hash[b] = contenido[b]
           /\ EnUso = bitmap
<1>1. EnDisco(hilo[w]) /\ hilo[w] = Ocioso
  BY DEF Firme, Atiende
<1>2. Ocioso.paso = "ocioso"
  BY DEF Ocioso
<1>3. Pendiente(Ocioso) = {} /\ Sobrante(Ocioso) = {}
  BY <1>2 DEF Pendiente, Sobrante
<1> QED
  BY <1>1, <1>3 DEF EnDisco

\* Nothing changes on the disk, and the requests are where they were.
LEMMA IgualFirme ==
    ASSUME Firme, UNCHANGED discos, hilo' = hilo
    PROVE  Firme'
<1>1. UNCHANGED discos /\ hilo' = hilo
  OBVIOUS
<1>2. \A u \in Tag : MetaExacta(u) => MetaExacta(u)'
  BY <1>1, MetaIgual DEF discos
<1>3. ASSUME NEW w \in Worker PROVE EnDisco(hilo[w])'
  <2>1. PICK h : h = hilo[w]
    OBVIOUS
  <2>2. EnDisco(h)
    BY <2>1 DEF Firme
  <2>3. TareaExacta(h) => TareaExacta(h)'
    BY <1>1 DEF discos, TareaExacta, Coincide, Faltan, Elegido, EnSitio, Aparte, Compartido, EnUso,
       Ligados
  <2>4. EnUso' = EnUso
    BY <1>1, UsoIgual DEF discos
  <2>5. EnDisco(h)'
    BY <1>1, <1>2, <2>2, <2>3, <2>4 DEF EnDisco, discos, Existe
  <2> QED
    BY <1>1, <2>1, <2>5
<1> QED
  BY <1>1, <1>3 DEF Firme, BaseBien, discos

\* Storage stops by itself.
LEMMA ParaFirme ==
    ASSUME Firme, NEW m, Para(m)
    PROVE  Firme'
BY IgualFirme DEF Para

\* A request under way is not an idle thread.
LEMMA Activo ==
    ASSUME NEW r, r.paso \in Pasos
    PROVE  r # Ocioso
<1>1. Ocioso.paso = "ocioso"
  BY DEF Ocioso
<1> QED
  BY <1>1 DEF Pasos

\* A request that begins, with the disk as it was.
LEMMA Comienza ==
    ASSUME StorageAssumption, Tipos, UnSolo, Firme, NEW w \in Worker, Atiende(w), NEW t \in Tag,
           NEW r, hilo' = [hilo EXCEPT ![w] = r], r.paso \in Pasos, r.tag = t, t # Base,
           Existe(t), r.copia.estado # "NO", UNCHANGED discos, TareaExacta(r)
    PROVE  Firme'
<1>1. /\ dirs' = dirs /\ meta' = meta /\ enlaces' = enlaces /\ contenido' = contenido
      /\ bitmap' = bitmap /\ hash' = hash
  BY DEF discos
<1>2. r # Ocioso
  BY Activo
<1>3. TareaExacta(r)'
  BY <1>1 DEF TareaExacta, Coincide, Faltan, Elegido, EnSitio, Aparte, Compartido, EnUso, Ligados
<1>4. BaseBien
  BY DEF Firme
<1>5. EnUso' = EnUso /\ Existe(t)'
  BY <1>1, UsoIgual DEF Existe
<1>6. /\ \A u \in Tag : MetaExacta(u)
      /\ \A b \in bitmap : hash[b] = contenido[b]
      /\ EnUso = bitmap
  BY EnCalma
<1> QED
  BY <1>1, <1>2, <1>3, <1>4, <1>5, <1>6, Continua

\* CREATE.
LEMMA CrearFirme ==
    ASSUME StorageAssumption, Tipos, UnSolo, Firme, NEW w \in Worker, NEW t \in Tag, Crear(w, t)
    PROVE  Firme'
<1>1. /\ Atiende(w) /\ ~ Existe(t) /\ hilo' = hilo
      /\ meta' = [meta EXCEPT ![t] = [NoExiste EXCEPT !.estado = "WORK_IN_PROGRESS"]]
      /\ UNCHANGED <<enlaces, contenido, bitmap, hash>>
  BY DEF Crear, EnUnPaso
<1>2. /\ \A u \in Tag : MetaExacta(u)
      /\ \A b \in bitmap : hash[b] = contenido[b]
      /\ EnUso = bitmap /\ BaseBien
  BY <1>1, EnCalma DEF Firme
<1>3. t # Base
  BY <1>1, <1>2 DEF BaseBien, Existe
<1>4. hilo' = [hilo EXCEPT ![w] = Ocioso]
  BY <1>1 DEF Atiende, Tipos, HilosBien
<1>5. meta \in [Tag -> Metadata]
  BY DEF Tipos, MetasBien
<1>6. meta'[t].bloques = <<>> /\ meta'[t].estado = "WORK_IN_PROGRESS"
  BY <1>1, <1>5 DEF NoExiste
<1>7. MetaExacta(t)'
  <2>1. enlaces[t] = SinEnlaces
    BY <1>1, <1>2 DEF MetaExacta
  <2> QED
    BY <1>1, <1>6, <2>1 DEF MetaExacta, Coincide, Faltan, SinEnlaces, Existe
<1>8. \A u \in Tag : u # t => meta'[u] = meta[u]
  BY <1>1, <1>5
<1>9. EnUso' = EnUso
  BY <1>1, UsoIgual
<1> QED
  BY <1>1, <1>2, <1>3, <1>4, <1>7, <1>8, <1>9, Continua

\* A TRUNCATE to a larger size: the new blocks are the block 0.
LEMMA CrecerFirme ==
    ASSUME StorageAssumption, Tipos, UnSolo, Firme, NEW w \in Worker, NEW t \in Tag,
           NEW tam \in Tamanios, Crecer(w, t, tam)
    PROVE  Firme'
<1>1. PICK n, ls : n = (tam - meta[t].tam) \div BLOCK_SIZE
                   /\ ls = [k \in 1..n |-> meta[t].tam \div BLOCK_SIZE + 1 + k - 1]
  OBVIOUS
<1>2. PICK p : p = IF n = 0 THEN "guardar" ELSE "alargar"
  OBVIOUS
<1>3. PICK c : c = [meta[t] EXCEPT !.tam = tam, !.bloques = @ \o [i \in 1..n |-> 0]]
  OBVIOUS
<1>4. /\ Atiende(w) /\ Existe(t) /\ Permitida(t) /\ tam >= meta[t].tam /\ UNCHANGED discos
      /\ Empieza(w, p, t, ls, c)
  BY <1>1, <1>2, <1>3 DEF Crecer, Legible, Existe
<1>5. PICK r : r = [paso |-> p, tag |-> t, faltan |-> ls, copia |-> c, indice |-> <<>>,
                    valor |-> Nadie, bloque |-> Nadie, nuevo |-> FALSE]
  OBVIOUS
<1>6. hilo' = [hilo EXCEPT ![w] = r]
  BY <1>4, <1>5 DEF Empieza
<1>7. r.paso = p /\ r.tag = t /\ r.copia = c /\ p \in {"guardar", "alargar"}
  BY <1>2, <1>5
<1>8. meta[t] \in Metadata /\ meta[t].bloques \in Lista(Bloque)
      /\ meta[t].tam \in Tamanios \cup {0, BLOCK_SIZE}
  BY MetaEs
<1>9. n \in Nat
  <2>1. meta[t].tam \in Nat /\ tam \in Nat /\ BLOCK_SIZE \in Nat \ {0}
    BY <1>8, TamanioCota DEF StorageAssumption
  <2>2. tam - meta[t].tam \in Nat
    BY <1>4, <2>1
  <2> QED
    BY <1>1, <2>1, <2>2, DivSuma
<1>10. PICK s \in Seq(Bloque), N \in Nat : s = meta[t].bloques /\ N = Len(s) /\ DOMAIN s = 1..N
  BY <1>8 DEF Lista
<1>11. c.bloques = s \o [i \in 1..n |-> 0] /\ c.estado = meta[t].estado
  BY <1>3, <1>8, <1>10 DEF Metadata
<1>12. /\ DOMAIN c.bloques = 1..(N + n)
       /\ \A j \in 1..(N + n) : c.bloques[j] = IF j <= N THEN s[j] ELSE 0
  <2>1. PICK z : z = [i \in 1..n |-> 0]
    OBVIOUS
  <2>2. z \in Seq(Bloque) /\ Len(z) = n /\ \A j \in 1..n : z[j] = 0
    BY <1>9, <2>1, BloquesDisco
  <2>3. /\ s \o z \in Seq(Bloque) /\ Len(s \o z) = N + n
        /\ \A j \in 1..N : (s \o z)[j] = s[j]
        /\ \A j \in (N + 1)..(N + n) : (s \o z)[j] = z[j - N]
    <3>1. s \in Seq(Bloque) /\ z \in Seq(Bloque) /\ N \in Nat /\ n \in Nat
          /\ Len(s) = N /\ Len(z) = n
      BY <1>9, <1>10, <2>2
    <3> QED
      BY ONLY <3>1
  <2>4. \A j \in (N + 1)..(N + n) : j - N \in 1..n
    BY <1>9
  <2>5. \A j \in (N + 1)..(N + n) : (s \o z)[j] = 0
    BY <2>2, <2>3, <2>4
  <2>6. c.bloques = s \o z
    BY <1>11, <2>1
  <2>7. DOMAIN c.bloques = 1..(N + n)
    BY <2>3, <2>6
  <2>8. n \in Nat /\ N \in Nat
    BY <1>9, <1>10
  <2>9. ASSUME NEW j \in 1..(N + n) PROVE c.bloques[j] = IF j <= N THEN s[j] ELSE 0
    <3>1. CASE j <= N
      <4>1. j \in 1..N
        BY <2>8, <3>1
      <4> QED
        BY <2>3, <2>6, <3>1, <4>1
    <3>2. CASE ~ (j <= N)
      <4>1. j \in (N + 1)..(N + n)
        BY <2>8, <3>2
      <4> QED
        BY <2>5, <2>6, <3>2, <4>1
    <3> QED
      BY <3>1, <3>2
  <2> QED
    BY <2>7, <2>9
<1>13. MetaExacta(t) /\ BaseBien
  BY <1>4, EnCalma DEF Firme
<1>14. Coincide(t, c.bloques)
  <2> SUFFICES ASSUME NEW i \in Logico, enlaces[t][i] # Nadie
               PROVE  enlaces[t][i] = (IF i \in DOMAIN c.bloques THEN c.bloques[i] ELSE 0)
    BY DEF Coincide
  <2>1. enlaces[t][i] = (IF i \in 1..N THEN s[i] ELSE 0)
    BY <1>10, <1>13 DEF MetaExacta, Coincide
  <2>2. i \in Nat /\ i >= 1
    BY DEF Logico
  <2>3. CASE i \in 1..N
    BY <1>9, <1>12, <2>1, <2>3
  <2>4. CASE i \notin 1..N
    <3>1. ~ (i <= N)
      BY <2>2, <2>4
    <3> QED
      BY <1>12, <2>1, <2>4, <3>1
  <2> QED
    BY <2>3, <2>4
<1>15. Faltan(t, c.bloques, {})
  BY <1>10, <1>12, <1>13 DEF MetaExacta, Faltan
<1>16. TareaExacta(r)
  BY <1>7, <1>14, <1>15 DEF TareaExacta, Deduplicando
<1>17. t # Base /\ c.estado # "NO" /\ p \in Pasos
  BY <1>4, <1>7, <1>11 DEF UnSolo, Permitida, Existe, Pasos
<1> QED
  BY <1>4, <1>6, <1>7, <1>16, <1>17, Comienza

\* A TRUNCATE to a smaller size changes no block.
LEMMA AchicarFirme ==
    ASSUME StorageAssumption, Tipos, UnSolo, Firme, NEW w \in Worker, NEW t \in Tag,
           NEW tam \in Tamanios, Achicar(w, t, tam)
    PROVE  Firme'
<1>1. PICK c : c = [meta[t] EXCEPT !.tam = tam]
  OBVIOUS
<1>2. /\ Atiende(w) /\ Existe(t) /\ Permitida(t) /\ UNCHANGED discos
      /\ Empieza(w, "guardar", t, <<>>, c)
  BY <1>1 DEF Achicar, Legible, Existe
<1>3. PICK r : r = [paso |-> "guardar", tag |-> t, faltan |-> <<>>, copia |-> c, indice |-> <<>>,
                    valor |-> Nadie, bloque |-> Nadie, nuevo |-> FALSE]
  OBVIOUS
<1>4. hilo' = [hilo EXCEPT ![w] = r]
  BY <1>2, <1>3 DEF Empieza
<1>5. r.paso = "guardar" /\ r.tag = t /\ r.copia = c
  BY <1>3
<1>6. meta[t] \in Metadata
  BY MetaEs
<1>7. c.bloques = meta[t].bloques /\ c.estado = meta[t].estado
  BY <1>1, <1>6 DEF Metadata
<1>8. MetaExacta(t)
  BY <1>2, EnCalma
<1>9. TareaExacta(r)
  BY <1>5, <1>7, <1>8 DEF TareaExacta, MetaExacta, Deduplicando
<1>10. t # Base /\ c.estado # "NO" /\ r.paso \in Pasos
  BY <1>2, <1>5, <1>7 DEF UnSolo, Permitida, Existe, Pasos
<1> QED
  BY <1>2, <1>4, <1>5, <1>9, <1>10, Comienza

\* TAG: the copy names the blocks of the original.
LEMMA EtiquetarFirme ==
    ASSUME StorageAssumption, Tipos, UnSolo, Firme, NEW w \in Worker, NEW o \in Tag, NEW t \in Tag,
           Etiquetar(w, o, t)
    PROVE  Firme'
<1>1. PICK c : c = [meta[o] EXCEPT !.estado = "WORK_IN_PROGRESS"]
  OBVIOUS
<1>2. /\ Atiende(w) /\ Existe(o) /\ ~ Existe(t) /\ meta' = [meta EXCEPT ![t] = meta[o]]
      /\ Empieza(w, "marcar", t, Indices(meta[o]), c)
      /\ UNCHANGED <<enlaces, contenido, bitmap, hash>>
  BY <1>1 DEF Etiquetar, Legible, Existe
<1>3. PICK r : r = [paso |-> "marcar", tag |-> t, faltan |-> Indices(meta[o]), copia |-> c,
                    indice |-> <<>>, valor |-> Nadie, bloque |-> Nadie, nuevo |-> FALSE]
  OBVIOUS
<1>4. hilo' = [hilo EXCEPT ![w] = r]
  BY <1>2, <1>3 DEF Empieza
<1>5. r.paso = "marcar" /\ r.tag = t /\ r.copia = c /\ r.faltan = Indices(meta[o])
  BY <1>3
<1>6. meta[o] \in Metadata /\ meta \in [Tag -> Metadata] /\ meta[o].bloques \in Seq(Bloque)
  BY MetaEs DEF Tipos, MetasBien, Lista
<1>7. c.bloques = meta[o].bloques /\ c.estado = "WORK_IN_PROGRESS"
  BY <1>1, <1>6 DEF Metadata
<1>8. meta'[t] = meta[o] /\ \A u \in Tag : u # t => meta'[u] = meta[u]
  BY <1>2, <1>6
<1>9. /\ \A u \in Tag : MetaExacta(u)
      /\ \A b \in bitmap : hash[b] = contenido[b]
      /\ EnUso = bitmap /\ BaseBien
  BY <1>2, EnCalma DEF Firme
<1>10. t # Base
  BY <1>2, <1>9 DEF BaseBien, Existe
<1>11. ToSet(c.bloques) \subseteq bitmap
  <2>1. PICK s \in Seq(Bloque), N \in Nat : s = meta[o].bloques /\ N = Len(s) /\ DOMAIN s = 1..N
    BY <1>6
  <2>2. s \in Lista(Bloque)
    BY <2>1, MetaEs
  <2>3. 1..N \subseteq Logico
    BY <2>1, <2>2 DEF Lista, Logico, StorageAssumption
  <2>4. ASSUME NEW j \in 1..N PROVE s[j] \in EnUso
    <3>1. enlaces[o][j] = Nadie => s[j] = 0
      BY <1>9, <2>1, <2>4 DEF MetaExacta, Faltan
    <3>2. enlaces[o][j] # Nadie => enlaces[o][j] = s[j]
      BY <1>9, <2>1, <2>3, <2>4 DEF MetaExacta, Coincide
    <3>3. enlaces[o][j] # Nadie => enlaces[o][j] \in Ligados
      BY <2>3, <2>4 DEF Ligados
    <3> QED
      BY <3>1, <3>2, <3>3 DEF EnUso
  <2> QED
    BY <1>7, <1>9, <2>1, <2>4 DEF ToSet
<1>12. TareaExacta(r)'
  <2>1. enlaces'[t] = SinEnlaces
    BY <1>2, <1>9 DEF MetaExacta
  <2>2. r.faltan = Indices(r.copia)
    BY <1>5, <1>7 DEF Indices
  <2>3. ToSet(c.bloques) \subseteq bitmap'
    BY <1>2, <1>11
  <2> QED
    BY <1>5, <1>7, <1>8, <2>1, <2>2, <2>3 DEF TareaExacta, Deduplicando
<1>13. r # Ocioso
  BY <1>5, Activo DEF Pasos
<1>14. Existe(t)'
  BY <1>2, <1>8 DEF Existe
<1>15. EnUso' = EnUso
  BY <1>2, UsoIgual
<1>16. c.estado # "NO"
  BY <1>7
<1> QED
  BY <1>2, <1>4, <1>5, <1>8, <1>9, <1>10, <1>12, <1>13, <1>14, <1>15, <1>16, Continua

\* DELETE.
LEMMA BorrarFirme ==
    ASSUME StorageAssumption, Tipos, UnSolo, Firme, NEW w \in Worker, NEW t \in Tag, Borrar(w, t)
    PROVE  Firme'
<1>1. PICK p, c : p = (IF meta[t].bloques = <<>> THEN "quitar" ELSE "desligar") /\ c = meta[t]
  OBVIOUS
<1>2. /\ Atiende(w) /\ Existe(t) /\ Permitida(t) /\ Empieza(w, p, t, Indices(c), c)
      /\ UNCHANGED discos
  BY <1>1 DEF Borrar, Legible, Existe
<1>3. PICK r : r = [paso |-> p, tag |-> t, faltan |-> Indices(c), copia |-> c,
                    indice |-> <<>>, valor |-> Nadie, bloque |-> Nadie, nuevo |-> FALSE]
  OBVIOUS
<1>4. hilo' = [hilo EXCEPT ![w] = r]
  BY <1>2, <1>3 DEF Empieza
<1>5. /\ r.paso = p /\ r.tag = t /\ r.copia = c /\ r.faltan = Indices(c)
      /\ p \in {"quitar", "desligar"}
  BY <1>1, <1>3
<1>6. MetaExacta(t)
  BY <1>2, EnCalma
<1>7. c.bloques \in Seq(Bloque)
  BY <1>1, MetaEs DEF Lista
<1>8. ToSet(Indices(c)) = DOMAIN c.bloques
  BY <1>7, IndicesSon
<1>9. Coincide(t, c.bloques)
  BY <1>1, <1>6 DEF MetaExacta
<1>10. p = "quitar" => \A j \in Logico : enlaces[t][j] \in {0, Nadie}
  BY <1>1, <1>9 DEF Coincide
<1>11. TareaExacta(r)
  BY <1>5, <1>8, <1>9, <1>10 DEF TareaExacta, Deduplicando
<1>12. t # Base /\ c.estado # "NO" /\ p \in Pasos
  BY <1>1, <1>2, <1>5 DEF UnSolo, Permitida, Existe, Pasos
<1> QED
  BY <1>2, <1>4, <1>5, <1>11, <1>12, Comienza

\* With no save of the hash index under way, what is read is what it says.
LEMMA IndiceSolo ==
    ASSUME UnSolo, NEW w \in Worker, Atiende(w) \/ En(w, "hash")
    PROVE  IndiceEnDisco = {hash}
<1>1. \A v \in Worker : v = w
  BY DEF UnSolo
<1>2. ~ En(w, "indexar")
  BY DEF Atiende, En
<1> QED
  BY <1>1, <1>2 DEF IndiceEnDisco

\* COMMIT.
LEMMA ConfirmarFirme ==
    ASSUME StorageAssumption, Tipos, UnSolo, Firme, NEW w \in Worker, NEW t \in Tag, Confirmar(w, t)
    PROVE  Firme'
<1>1. PICK p, c : /\ p = (IF meta[t].bloques = <<>> THEN "guardar" ELSE "buscar")
                  /\ c = [meta[t] EXCEPT !.estado = "COMMITED"]
  OBVIOUS
<1>2. PICK r : r = [paso |-> p, tag |-> t, faltan |-> Indices(meta[t]), copia |-> c,
                    indice |-> hash, valor |-> Nadie, bloque |-> Nadie, nuevo |-> FALSE]
  OBVIOUS
<1>3. /\ Atiende(w) /\ meta[t].estado = "WORK_IN_PROGRESS" /\ UNCHANGED discos
      /\ hilo' = [hilo EXCEPT ![w] = r]
  BY <1>1, <1>2, IndiceSolo DEF Confirmar
<1>4. r.paso = p /\ r.tag = t /\ r.copia = c /\ r.indice = hash /\ p \in {"guardar", "buscar"}
  BY <1>1, <1>2
<1>5. meta[t] \in Metadata
  BY MetaEs
<1>6. c.bloques = meta[t].bloques /\ c.estado = "COMMITED"
  BY <1>1, <1>5 DEF Metadata
<1>7. MetaExacta(t) /\ BaseBien
  BY <1>3, EnCalma DEF Firme
<1>8. TareaExacta(r)
  BY <1>4, <1>6, <1>7 DEF TareaExacta, MetaExacta, Deduplicando
<1>9. t # Base
  BY <1>3, <1>7 DEF BaseBien
<1>10. Existe(t) /\ c.estado # "NO" /\ p \in Pasos
  BY <1>3, <1>4, <1>6 DEF Existe, Pasos
<1> QED
  BY <1>3, <1>4, <1>8, <1>9, <1>10, Comienza

\* A COMMIT that is refused, of initial_file:BASE too: it will save what there is.
LEMMA ReconfirmarFirme ==
    ASSUME StorageAssumption, Tipos, UnSolo, Firme, NEW w \in Worker, NEW t \in Tag,
           Reconfirmar(w, t)
    PROVE  Firme'
<1>1. PICK r : r = [paso |-> "guardar", tag |-> t, faltan |-> <<>>, copia |-> meta[t],
                    indice |-> <<>>, valor |-> Nadie, bloque |-> Nadie, nuevo |-> FALSE]
  OBVIOUS
<1>2. /\ Atiende(w) /\ meta[t].estado = "COMMITED" /\ UNCHANGED discos
      /\ hilo' = [hilo EXCEPT ![w] = r]
  BY <1>1 DEF Reconfirmar, Empieza
<1>3. r.paso = "guardar" /\ r.tag = t /\ r.copia = meta[t] /\ r.paso \in Pasos
  BY <1>1 DEF Pasos
<1>4. /\ \A u \in Tag : MetaExacta(u)
      /\ \A b \in bitmap : hash[b] = contenido[b]
      /\ EnUso = bitmap /\ BaseBien
  BY <1>2, EnCalma DEF Firme
<1>5. TareaExacta(r)
  BY <1>3, <1>4 DEF TareaExacta, MetaExacta, Deduplicando
<1>6. Existe(t) /\ r.copia.estado # "NO"
  BY <1>2, <1>3 DEF Existe
<1>7. /\ \A u \in Tag : MetaExacta(u)'
      /\ EnUso' = EnUso /\ Existe(t)' /\ meta' = meta
  BY <1>2, <1>4, <1>6, MetaIgual, UsoIgual DEF discos, Existe
<1>8. TareaExacta(r)'
  BY <1>2, <1>5 DEF discos, TareaExacta, Coincide, Faltan, Elegido, EnSitio, Aparte, Compartido,
     EnUso, Ligados
<1>9. bitmap' = bitmap /\ hash' = hash /\ contenido' = contenido
  BY <1>2 DEF discos
<1>10. r # Ocioso
  BY <1>3, Activo
<1>11. EnDisco(r)'
  BY <1>3, <1>4, <1>6, <1>7, <1>8, <1>9, <1>10 DEF EnDisco
<1>12. hilo'[w] = r /\ \A v \in Worker : v = w
  BY <1>2 DEF UnSolo, Tipos, HilosBien
<1> QED
  BY <1>2, <1>4, <1>11, <1>12 DEF Firme, BaseBien, discos

\* A WRITE in the block that the name has.
LEMMA EscribirEnSitioFirme ==
    ASSUME StorageAssumption, Tipos, UnSolo, Firme, NEW w \in Worker, NEW t \in Tag,
           NEW i \in Logico, NEW v \in Valor, EscribirEnSitio(w, t, i, v)
    PROVE  Firme'
<1>1. PICK b : b = meta[t].bloques[i]
  OBVIOUS
<1>2. PICK c : c = [meta[t] EXCEPT !.bloques[i] = b]
  OBVIOUS
<1>3. PICK r : r = [paso |-> "escribir", tag |-> t, faltan |-> <<i>>, copia |-> c,
                    indice |-> <<>>, valor |-> v, bloque |-> b, nuevo |-> FALSE]
  OBVIOUS
<1>4. /\ Atiende(w) /\ Escribible(t, i) /\ NLink(enlaces, b) <= 2 /\ UNCHANGED discos
      /\ hilo' = [hilo EXCEPT ![w] = r]
  BY <1>1, <1>2, <1>3 DEF EscribirEnSitio, EmpiezaEscritura
<1>5. r.paso = "escribir" /\ r.tag = t /\ r.copia = c /\ r.bloque = b /\ ~ r.nuevo
      /\ Head(r.faltan) = i
  BY <1>3
<1>6. meta[t] \in Metadata
  BY MetaEs
<1>7. PICK s \in Seq(Bloque) : s = meta[t].bloques
  BY MetaEs DEF Lista
<1>8. c.bloques = s /\ c.estado = meta[t].estado /\ i \in DOMAIN s
  <2>1. i \in DOMAIN s
    BY <1>4, <1>7 DEF Escribible
  <2>2. [s EXCEPT ![i] = b] = s
    BY <1>1, <1>7, <2>1
  <2>3. c.bloques = [s EXCEPT ![i] = b] /\ c.estado = meta[t].estado
    BY <1>2, <1>6, <1>7 DEF Metadata
  <2> QED
    BY <2>1, <2>2, <2>3
<1>9. MetaExacta(t) /\ BaseBien
  BY <1>4, EnCalma DEF Firme
<1>10. enlaces[t][i] = b
  BY <1>1, <1>4, <1>7, <1>8, <1>9 DEF MetaExacta, Coincide, Escribible
<1>11. ~ Compartido(t, i)
  BY <1>4, <1>10, NLinkDos
<1>12. EnSitio(t, i, s, b)
  BY <1>1, <1>7, <1>8, <1>9, <1>10, <1>11 DEF EnSitio, MetaExacta
<1>13. TareaExacta(r)
  BY <1>5, <1>8, <1>12 DEF TareaExacta, Deduplicando
<1>14. t # Base /\ Existe(t) /\ c.estado # "NO" /\ r.paso \in Pasos
  BY <1>4, <1>5, <1>8, <1>9 DEF Escribible, BaseBien, Existe, Pasos
<1> QED
  BY <1>4, <1>5, <1>13, <1>14, Comienza

\* A WRITE in another block, the first that is free.
LEMMA EscribirAparteFirme ==
    ASSUME StorageAssumption, Tipos, UnSolo, Firme, NEW w \in Worker, NEW t \in Tag,
           NEW i \in Logico, NEW v \in Valor, EscribirAparte(w, t, i, v)
    PROVE  Firme'
<1>1. PICK b \in Bloque \ bitmap : b = PrimerBitLibre
  <2>1. Bloque \ bitmap # {} /\ Bloque \ bitmap \subseteq Nat
    <3>1. Bloque \subseteq Nat
      BY DEF Bloque
    <3>2. bitmap # Bloque
      BY DEF EscribirAparte
    <3> QED
      BY <3>1, <3>2, BloquesDisco
  <2>2. Primero(Bloque \ bitmap) \in Bloque \ bitmap
    BY <2>1, PrimeroEs
  <2>3. PrimerBitLibre = Primero(Bloque \ bitmap)
    BY DEF PrimerBitLibre, Primero
  <2> QED
    BY <2>2, <2>3
<1>2. PICK c : c = [meta[t] EXCEPT !.bloques[i] = b]
  OBVIOUS
<1>3. PICK r : r = [paso |-> "reservar", tag |-> t, faltan |-> <<i>>, copia |-> c,
                    indice |-> <<>>, valor |-> v, bloque |-> b, nuevo |-> TRUE]
  OBVIOUS
<1>4. /\ Atiende(w) /\ Escribible(t, i) /\ NLink(enlaces, meta[t].bloques[i]) > 2
      /\ UNCHANGED discos /\ hilo' = [hilo EXCEPT ![w] = r]
  BY <1>1, <1>2, <1>3 DEF EscribirAparte, EmpiezaEscritura
<1>5. r.paso = "reservar" /\ r.tag = t /\ r.copia = c /\ r.bloque = b /\ r.nuevo
      /\ Head(r.faltan) = i
  BY <1>3
<1>6. meta[t] \in Metadata
  BY MetaEs
<1>7. PICK s \in Seq(Bloque) : s = meta[t].bloques
  BY MetaEs DEF Lista
<1>8. c.bloques = [s EXCEPT ![i] = b] /\ c.estado = meta[t].estado /\ i \in DOMAIN s
  BY <1>2, <1>4, <1>6, <1>7 DEF Metadata, Escribible
<1>9. MetaExacta(t) /\ BaseBien /\ EnUso = bitmap
  BY <1>4, EnCalma DEF Firme
<1>10. enlaces[t][i] = s[i]
  BY <1>4, <1>7, <1>8, <1>9 DEF MetaExacta, Coincide, Escribible
<1>11. Compartido(t, i)
  <2>1. NLink(enlaces, enlaces[t][i]) \in Nat
    BY NombresFinitos
  <2>2. ~ (NLink(enlaces, enlaces[t][i]) <= 2)
    BY <1>4, <1>7, <1>10, <2>1
  <2> QED
    BY <2>2, NLinkDos
<1>12. Elegido(t, i, c.bloques, b)
  BY <1>1, <1>7, <1>8, <1>9, <1>10, <1>11 DEF Elegido, MetaExacta
<1>13. TareaExacta(r)
  BY <1>5, <1>8, <1>12 DEF TareaExacta, Deduplicando
<1>14. t # Base /\ Existe(t) /\ c.estado # "NO" /\ r.paso \in Pasos
  BY <1>4, <1>5, <1>8, <1>9 DEF Escribible, BaseBien, Existe, Pasos
<1> QED
  BY <1>4, <1>5, <1>13, <1>14, Comienza

-----------------------------------------------------------------------------
(* The steps of a request.                                                 *)

\* A request that goes on to the next logical block, or past the last one.
LEMMA AvanzaA ==
    ASSUME NEW h \in EnCurso, h.faltan # <<>>, NEW p \in Pasos, NEW d \in Pasos,
           NEW r, r = Avanza(h, p, d)
    PROVE  /\ r \in EnCurso /\ r.paso \in {p, d} /\ r.tag = h.tag
           /\ r.copia = h.copia /\ r.indice = h.indice
BY AvanzaEs

\* TRUNCATE: a name that is not linked is linked to the block 0.
LEMMA AlargarFirme ==
    ASSUME StorageAssumption, Tipos, UnSolo, Firme, NEW w \in Worker, Alargar(w)
    PROVE  Firme'
<1>1. PICK h : h = hilo[w]
  OBVIOUS
<1>2. /\ En(w, "alargar") /\ UNCHANGED <<dirs, meta, contenido, bitmap, hash>>
  BY DEF Alargar
<1>3. "alargar" \in ConFaltan
  BY DEF ConFaltan
<1>4. PICK t \in Tag, i \in Logico, s \in Seq(Bloque) :
        t = h.tag /\ i = Head(h.faltan) /\ s = h.copia.bloques
  BY <1>1, <1>2, <1>3, EnFirme
<1>5. /\ h.paso = "alargar" /\ t # Base /\ Existe(t) /\ h \in EnCurso /\ h.faltan # <<>>
      /\ h.copia.estado # "NO" /\ TareaExacta(h)
      /\ \A u \in Tag : u # t => MetaExacta(u)
      /\ \A b \in bitmap : b \in Pendiente(h) \/ hash[b] = contenido[b]
      /\ EnUso \subseteq bitmap /\ bitmap \subseteq EnUso \cup Sobrante(h)
  BY <1>1, <1>2, <1>3, <1>4, EnFirme
<1>6. PICK r : r = Avanza(h, "alargar", "guardar")
  OBVIOUS
<1>7. /\ hilo' = [hilo EXCEPT ![w] = r]
      /\ enlaces' = IF enlaces[t][i] = Nadie THEN [enlaces EXCEPT ![t][i] = 0] ELSE enlaces
  BY <1>1, <1>4, <1>5, <1>6 DEF Alargar
<1>8. r.paso \in {"alargar", "guardar"} /\ r.tag = t /\ r.copia = h.copia
  <2>1. "alargar" \in Pasos /\ "guardar" \in Pasos
    BY DEF Pasos
  <2> QED
    BY <1>4, <1>5, <1>6, <2>1, AvanzaA
<1>9. Coincide(t, s) /\ Faltan(t, s, {})
  BY <1>4, <1>5 DEF TareaExacta
<1>10. 0 \in Bloque /\ BaseBien /\ 0 \in EnUso
  BY BloquesDisco DEF Firme, EnUso
<1>11. /\ Coincide(t, s)' /\ Faltan(t, s, {})' /\ EnUso' = EnUso
       /\ \A u \in Tag : u # t => enlaces'[u] = enlaces[u]
  <2>1. CASE enlaces[t][i] = Nadie
    <3>1. Enlaza(t, i, 0)
      BY <1>7, <2>1 DEF Enlaza
    <3>2. EnUso' = EnUso
      <4>1. EnUso' = EnUso \cup {0}
        BY <1>4, <1>10, <2>1, <3>1, LigaUso
      <4> QED
        BY <1>10, <4>1
    <3>3. /\ \A u \in Tag : u # t => enlaces'[u] = enlaces[u]
          /\ \A j \in Logico : enlaces'[t][j] = IF j = i THEN 0 ELSE enlaces[t][j]
      BY <1>4, <3>1, EnlaceCambia
    <3>4. i \in DOMAIN s => s[i] = 0
      BY <1>9, <2>1 DEF Faltan
    <3>5. Coincide(t, s)'
      BY <1>9, <3>3, <3>4 DEF Coincide
    <3>6. DOMAIN s \subseteq Logico
      BY <1>1, <1>2, <1>4, DominioCopia
    <3>7. Faltan(t, s, {})'
      BY <1>9, <3>3, <3>4, <3>6 DEF Faltan
    <3> QED
      BY <3>2, <3>3, <3>5, <3>7
  <2>2. CASE enlaces[t][i] # Nadie
    BY <1>7, <1>9, <2>2, UsoIgual DEF Coincide, Faltan
  <2> QED
    BY <2>1, <2>2
<1>12. TareaExacta(r)'
  BY <1>4, <1>8, <1>11 DEF TareaExacta, Deduplicando
<1>13. Pendiente(h) = {} /\ Sobrante(h) = {} /\ Existe(t)' /\ r # Ocioso
  BY <1>2, <1>5, <1>8, Activo DEF Pendiente, Sobrante, Existe, Pasos
<1> QED
  BY <1>2, <1>5, <1>7, <1>8, <1>10, <1>11, <1>12, <1>13, Continua

\* TAG: ESTADO is set in the copy.
LEMMA MarcarFirme ==
    ASSUME StorageAssumption, Tipos, UnSolo, Firme, NEW w \in Worker, Marcar(w)
    PROVE  Firme'
<1>1. PICK h : h = hilo[w]
  OBVIOUS
<1>2. En(w, "marcar") /\ UNCHANGED <<dirs, enlaces, contenido, bitmap, hash>>
  BY DEF Marcar
<1>3. "marcar" \in Pasos
  BY DEF Pasos
<1>4. PICK t \in Tag, s \in Seq(Bloque) : t = h.tag /\ s = h.copia.bloques
  BY <1>1, <1>2, <1>3, EnFirme
<1>5. /\ h.paso = "marcar" /\ t # Base /\ Existe(t) /\ h \in EnCurso
      /\ h.copia.estado # "NO" /\ TareaExacta(h)
      /\ \A u \in Tag : u # t => MetaExacta(u)
      /\ \A b \in bitmap : b \in Pendiente(h) \/ hash[b] = contenido[b]
      /\ EnUso \subseteq bitmap /\ bitmap \subseteq EnUso \cup Sobrante(h)
  BY <1>1, <1>2, <1>3, <1>4, EnFirme
<1>6. PICK r : r = IF h.faltan = <<>> THEN Ocioso ELSE [h EXCEPT !.paso = "ligar"]
  OBVIOUS
<1>7. hilo' = [hilo EXCEPT ![w] = r] /\ meta' = [meta EXCEPT ![t] = h.copia]
  <2>1. hilo \in [Worker -> EnCurso \cup {Ocioso}]
    BY DEF Tipos, HilosBien
  <2> QED
    BY <1>1, <1>4, <1>6, <2>1 DEF Marcar, Termina, Sigue
<1>8. /\ s = meta[t].bloques /\ enlaces[t] = SinEnlaces /\ h.faltan = Indices(h.copia)
      /\ ToSet(s) \subseteq bitmap
  BY <1>4, <1>5 DEF TareaExacta
<1>9. meta \in [Tag -> Metadata] /\ BaseBien
  BY DEF Tipos, MetasBien, Firme
<1>10. /\ meta'[t] = h.copia /\ meta'[t].bloques = s /\ Existe(t)'
       /\ \A u \in Tag : u # t => meta'[u] = meta[u]
  BY <1>4, <1>5, <1>7, <1>9 DEF Existe
<1>11. ToSet(h.faltan) = DOMAIN s
  BY <1>4, <1>8, IndicesSon
<1>12. Coincide(t, s)' /\ enlaces'[t] = SinEnlaces /\ EnUso' = EnUso
  BY <1>2, <1>8, UsoIgual DEF Coincide, SinEnlaces
<1>13. Pendiente(h) = {} /\ Sobrante(h) = {}
  BY <1>5 DEF Pendiente, Sobrante
<1>14. CASE h.faltan = <<>>
  <2>1. r = Ocioso
    BY <1>6, <1>14
  <2>2. DOMAIN s = {}
    <3>1. DOMAIN <<>> = {}
      OBVIOUS
    <3> QED
      BY <1>11, <1>14, <3>1 DEF ToSet
  <2>3. MetaExacta(t)'
    BY <1>10, <1>12, <2>2 DEF MetaExacta, Faltan
  <2> QED
    <3>1. hilo' = [hilo EXCEPT ![w] = Ocioso]
      BY <1>7, <2>1
    <3>2. /\ t # Base /\ contenido'[0] = contenido[0]
          /\ \A u \in Tag : u # t => MetaExacta(u) /\ enlaces'[u] = enlaces[u] /\ meta'[u] = meta[u]
      BY <1>2, <1>5, <1>10
    <3>3. /\ \A b \in bitmap' : hash'[b] = contenido'[b]
          /\ EnUso' \subseteq bitmap' /\ bitmap' \subseteq EnUso'
      BY <1>2, <1>5, <1>12, <1>13
    <3> QED
      BY <1>4, <1>9, <2>3, <3>1, <3>2, <3>3, Acaba
<1>15. CASE h.faltan # <<>>
  <2>1. r.paso = "ligar" /\ r.tag = t /\ r.copia = h.copia /\ r.faltan = h.faltan
    BY <1>4, <1>5, <1>6, <1>15 DEF EnCurso
  <2>2. Faltan(t, s, ToSet(h.faltan))'
    BY <1>11 DEF Faltan
  <2>3. ToSet(s) \subseteq bitmap'
    BY <1>2, <1>8
  <2>4. TareaExacta(r)'
    BY <1>4, <1>10, <1>12, <2>1, <2>2, <2>3 DEF TareaExacta, Deduplicando
  <2>5. r # Ocioso
    BY <2>1, Activo DEF Pasos
  <2> QED
    BY <1>2, <1>4, <1>5, <1>7, <1>9, <1>10, <1>12, <1>13, <2>1, <2>4, <2>5, Continua
<1> QED
  BY <1>14, <1>15

\* TAG: one more name of the copy is linked.
LEMMA LigarFirme ==
    ASSUME StorageAssumption, Tipos, UnSolo, Firme, NEW w \in Worker, Ligar(w)
    PROVE  Firme'
<1>1. PICK h : h = hilo[w]
  OBVIOUS
<1>2. En(w, "ligar") /\ UNCHANGED <<dirs, meta, contenido, hash>>
  BY DEF Ligar
<1>3. "ligar" \in ConFaltan
  BY DEF ConFaltan, Escribiendo, Deduplicando
<1>4. PICK t \in Tag, i \in Logico, s \in Seq(Bloque) :
        t = h.tag /\ i = Head(h.faltan) /\ s = h.copia.bloques
  BY <1>1, <1>2, <1>3, EnFirme
<1>5. /\ h.paso = "ligar" /\ t # Base /\ Existe(t) /\ h \in EnCurso
      /\ h.copia.estado # "NO" /\ TareaExacta(h) /\ h.faltan # <<>>
      /\ \A u \in Tag : u # t => MetaExacta(u)
      /\ \A b \in bitmap : b \in Pendiente(h) \/ hash[b] = contenido[b]
      /\ EnUso \subseteq bitmap /\ bitmap \subseteq EnUso \cup Sobrante(h)
  BY <1>1, <1>2, <1>3, <1>4, EnFirme
<1>6. PICK r : r = IF Len(h.faltan) = 1 THEN Ocioso ELSE [h EXCEPT !.faltan = Tail(h.faltan)]
  OBVIOUS
<1>7. /\ hilo' = [hilo EXCEPT ![w] = r]
      /\ IF enlaces[t][i] = Nadie THEN Enlaza(t, i, s[i]) /\ bitmap' = bitmap \cup {s[i]}
         ELSE UNCHANGED <<enlaces, bitmap>>
  <2>1. hilo \in [Worker -> EnCurso \cup {Ocioso}]
    BY DEF Tipos, HilosBien
  <2>2. hilo' = [hilo EXCEPT ![w] = r]
    BY <1>1, <1>6, <2>1 DEF Ligar, Termina
  <2> QED
    BY <1>1, <1>4, <1>5, <2>2 DEF Ligar, Enlaza
<1>8. /\ s = meta[t].bloques /\ Coincide(t, s) /\ Faltan(t, s, ToSet(h.faltan))
      /\ ToSet(s) \subseteq bitmap
  BY <1>4, <1>5 DEF TareaExacta
<1>9. /\ i \in DOMAIN s /\ DOMAIN s \subseteq Logico /\ BaseBien
      /\ h.faltan \in Seq(Logico)
  <2>1. "ligar" \in PorBloques
    BY DEF PorBloques
  <2> QED
    BY <1>1, <1>2, <1>3, <1>4, <2>1, EnFirme, DominioCopia DEF Firme
<1>10. s[i] \in ToSet(s) /\ s[i] \in bitmap /\ s[i] \in Bloque /\ s[i] # Nadie
  <2>1. s[i] \in Bloque
    BY <1>4, <1>9
  <2> QED
    BY <1>8, <1>9, <2>1 DEF ToSet, Bloque, StorageAssumption
<1>11. /\ ToSet(h.faltan) = {i} \cup ToSet(Tail(h.faltan))
       /\ Len(h.faltan) = 1 => ToSet(h.faltan) = {i}
  BY <1>4, <1>5, <1>9, QuedanTras
<1>12. /\ Coincide(t, s)' /\ EnUso \subseteq EnUso' /\ EnUso' \subseteq bitmap /\ bitmap' = bitmap
       /\ \A u \in Tag : u # t => enlaces'[u] = enlaces[u]
       /\ \A j \in DOMAIN s : enlaces'[t][j] = Nadie => j # i /\ enlaces[t][j] = Nadie
  <2>1. CASE enlaces[t][i] = Nadie
    <3>1. Enlaza(t, i, s[i]) /\ bitmap' = bitmap \cup {s[i]}
      BY <1>7, <2>1
    <3>2. EnUso' = EnUso \cup {s[i]}
      BY <1>4, <1>10, <2>1, <3>1, LigaUso
    <3>3. /\ \A u \in Tag : u # t => enlaces'[u] = enlaces[u]
          /\ \A j \in Logico : enlaces'[t][j] = IF j = i THEN s[i] ELSE enlaces[t][j]
      BY <1>4, <3>1, EnlaceCambia
    <3>4. Coincide(t, s)'
      BY <1>8, <1>9, <3>3 DEF Coincide
    <3>5. \A j \in DOMAIN s : enlaces'[t][j] = Nadie => j # i /\ enlaces[t][j] = Nadie
      BY <1>9, <1>10, <3>3
    <3> QED
      BY <1>5, <1>10, <3>1, <3>2, <3>3, <3>4, <3>5
  <2>2. CASE enlaces[t][i] # Nadie
    <3>1. enlaces' = enlaces /\ bitmap' = bitmap
      BY <1>7, <2>2
    <3> QED
      BY <1>5, <1>8, <2>2, <3>1, UsoIgual DEF Coincide
  <2> QED
    BY <2>1, <2>2
<1>13. Faltan(t, s, ToSet(Tail(h.faltan)))' /\ (Len(h.faltan) = 1 => Faltan(t, s, {})')
  BY <1>8, <1>11, <1>12 DEF Faltan
<1>14. Pendiente(h) = {} /\ Sobrante(h) = {} /\ Existe(t)'
  BY <1>2, <1>5 DEF Pendiente, Sobrante, Existe
<1>15. \A b \in bitmap' : hash'[b] = contenido'[b]
  BY <1>2, <1>5, <1>12, <1>14
<1>16. EnUso' \subseteq bitmap' /\ bitmap' \subseteq EnUso'
  BY <1>5, <1>12, <1>14
<1>17. CASE Len(h.faltan) = 1
  <2>1. r = Ocioso
    BY <1>6, <1>17
  <2>2. MetaExacta(t)'
    BY <1>2, <1>8, <1>12, <1>13, <1>14, <1>17 DEF MetaExacta
  <2> QED
    <3>1. hilo' = [hilo EXCEPT ![w] = Ocioso]
      BY <1>7, <2>1
    <3>2. /\ t # Base /\ contenido'[0] = contenido[0]
          /\ \A u \in Tag : u # t => MetaExacta(u) /\ enlaces'[u] = enlaces[u] /\ meta'[u] = meta[u]
      BY <1>2, <1>5, <1>12
    <3> QED
      BY <1>4, <1>9, <1>15, <1>16, <2>2, <3>1, <3>2, Acaba
<1>18. CASE Len(h.faltan) # 1
  <2>1. r.paso = "ligar" /\ r.tag = t /\ r.copia = h.copia /\ r.faltan = Tail(h.faltan)
    BY <1>4, <1>5, <1>6, <1>18 DEF EnCurso
  <2>2. ToSet(s) \subseteq bitmap' /\ s = meta'[t].bloques
    BY <1>2, <1>8, <1>12
  <2>3. TareaExacta(r)'
    BY <1>4, <1>12, <1>13, <2>1, <2>2 DEF TareaExacta, Deduplicando
  <2>4. r # Ocioso
    BY <2>1, Activo DEF Pasos
  <2> QED
    BY <1>2, <1>4, <1>5, <1>7, <1>9, <1>12, <1>14, <1>15, <1>16, <2>1, <2>3, <2>4, Continua
<1> QED
  BY <1>17, <1>18

\* COMMIT: a name leaves its block for another with the same contents, if there is one.
LEMMA BuscarFirme ==
    ASSUME StorageAssumption, Tipos, UnSolo, Firme, NEW w \in Worker, Buscar(w)
    PROVE  Firme'
<1>1. PICK h : h = hilo[w]
  OBVIOUS
<1>2. En(w, "buscar") /\ UNCHANGED <<dirs, meta, contenido, bitmap, hash>>
  BY DEF Buscar
<1>3. "buscar" \in ConFaltan
  BY DEF ConFaltan, Escribiendo, Deduplicando
<1>4. PICK t \in Tag, i \in Logico, s \in Seq(Bloque) :
        t = h.tag /\ i = Head(h.faltan) /\ s = h.copia.bloques
  BY <1>1, <1>2, <1>3, EnFirme
<1>5. /\ h.paso = "buscar" /\ t # Base /\ Existe(t) /\ h \in EnCurso
      /\ h.copia.estado # "NO" /\ TareaExacta(h) /\ h.faltan # <<>>
      /\ \A u \in Tag : u # t => MetaExacta(u)
      /\ \A b \in bitmap : b \in Pendiente(h) \/ hash[b] = contenido[b]
      /\ EnUso \subseteq bitmap /\ bitmap \subseteq EnUso \cup Sobrante(h)
  BY <1>1, <1>2, <1>3, <1>4, EnFirme
<1>6. PICK dups : dups = Duplicados(s[i], h.indice)
  OBVIOUS
<1>7. /\ i \in DOMAIN s /\ BaseBien /\ hilo \in [Worker -> EnCurso \cup {Ocioso}]
      /\ Coincide(t, s) /\ Faltan(t, s, {}) /\ h.indice = hash
  <2>1. "buscar" \in PorBloques /\ "buscar" \in Deduplicando
    BY DEF PorBloques, Deduplicando
  <2>2. i \in DOMAIN s
    BY <1>1, <1>2, <1>3, <1>4, <2>1, EnFirme
  <2>3. BaseBien /\ hilo \in [Worker -> EnCurso \cup {Ocioso}]
    BY DEF Firme, Tipos, HilosBien
  <2> QED
    BY <1>4, <1>5, <2>1, <2>2, <2>3 DEF TareaExacta
<1>8. Pendiente(h) = {} /\ Sobrante(h) = {} /\ Existe(t)'
  BY <1>2, <1>5 DEF Pendiente, Sobrante, Existe
<1>9. CASE dups = {}
  <2>1. PICK r : r = Avanza(h, "buscar", "guardar")
    OBVIOUS
  <2>2. hilo' = [hilo EXCEPT ![w] = r] /\ enlaces' = enlaces
    BY <1>1, <1>4, <1>6, <1>9, <2>1 DEF Buscar
  <2>3. /\ r.paso \in {"buscar", "guardar"} /\ r.tag = t /\ r.copia = h.copia
        /\ r.indice = h.indice
    <3>1. "buscar" \in Pasos /\ "guardar" \in Pasos
      BY DEF Pasos
    <3> QED
      BY <1>4, <1>5, <2>1, <3>1, AvanzaA
  <2>4. TareaExacta(r)'
    BY <1>2, <1>4, <1>7, <2>2, <2>3 DEF TareaExacta, Coincide, Faltan
  <2>5. r # Ocioso
    BY <2>3, Activo DEF Pasos
  <2>6. EnUso' = EnUso
    BY <2>2, UsoIgual
  <2> QED
    BY <1>2, <1>4, <1>5, <1>7, <1>8, <2>2, <2>3, <2>4, <2>5, <2>6, Continua
<1>10. CASE dups # {}
  <2>1. PICK k, p : k = Primero(dups) /\ p = IF enlaces[t][i] = Nadie THEN "religar" ELSE "soltar"
    OBVIOUS
  <2>2. k \in bitmap /\ k # s[i]
    <3>1. dups \subseteq bitmap \ {s[i]}
      BY <1>6 DEF Duplicados
    <3>2. dups \subseteq Nat
      BY <3>1, BloquesDisco DEF Bloque
    <3>3. Primero(dups) \in dups
      BY <1>10, <3>2, PrimeroEs
    <3> QED
      BY <2>1, <3>1, <3>3
  <2>3. PICK r : r = [h EXCEPT !.bloque = k, !.paso = p]
    OBVIOUS
  <2>4. hilo' = [hilo EXCEPT ![w].bloque = k, ![w].paso = p] /\ Enlaza(t, i, Nadie)
    BY <1>1, <1>4, <1>6, <1>10, <2>1 DEF Buscar, Enlaza
  <2>5. hilo' = [hilo EXCEPT ![w] = r]
    BY <1>1, <1>7, <2>3, <2>4
  <2>6. /\ r.paso = p /\ r.bloque = k /\ r.tag = t /\ r.copia = h.copia /\ r.faltan = h.faltan
        /\ r.indice = h.indice /\ p \in {"soltar", "religar"}
    BY <1>4, <1>5, <2>1, <2>3 DEF EnCurso
  <2>7. /\ \A u \in Tag : u # t => enlaces'[u] = enlaces[u]
        /\ \A j \in Logico : enlaces'[t][j] = IF j = i THEN Nadie ELSE enlaces[t][j]
    BY <1>4, <2>4, EnlaceCambia
  <2>8. Coincide(t, s)' /\ Faltan(t, s, {i})' /\ enlaces'[t][i] = Nadie
    <3>1. DOMAIN s \subseteq Logico
      BY <1>1, <1>2, <1>4, DominioCopia
    <3> QED
      BY <1>4, <1>7, <2>7, <3>1 DEF Coincide, Faltan
  <2>9. TareaExacta(r)'
    BY <1>2, <1>4, <1>7, <2>2, <2>6, <2>8 DEF TareaExacta
  <2>10. r # Ocioso
    BY <2>6, Activo DEF Pasos
  <2>11. EnUso' \subseteq EnUso /\ EnUso \subseteq EnUso' \cup ({enlaces[t][i]} \ {Nadie})
    BY <1>4, <2>4, DesligaUso
  <2>12. EnUso \subseteq EnUso' \cup Sobrante(r)
    <3>1. CASE enlaces[t][i] = Nadie
      BY <2>11, <3>1
    <3>2. CASE enlaces[t][i] # Nadie
      <4>1. p = "soltar" /\ enlaces[t][i] = s[i]
        BY <1>4, <1>7, <2>1, <3>2 DEF Coincide
      <4>2. Sobrante(r) = {s[i]}
        BY <1>4, <2>6, <4>1 DEF Sobrante
      <4> QED
        BY <2>11, <4>1, <4>2
    <3> QED
      BY <3>1, <3>2
  <2>13. EnUso' \subseteq bitmap' /\ bitmap' \subseteq EnUso' \cup Sobrante(r)
    BY <1>2, <1>5, <1>8, <2>11, <2>12
  <2>14. \A b \in bitmap' : hash'[b] = contenido'[b]
    BY <1>2, <1>5, <1>8
  <2> QED
    BY <1>2, <1>4, <1>5, <1>7, <1>8, <2>5, <2>6, <2>7, <2>9, <2>10, <2>13, <2>14, Continua
<1> QED
  BY <1>9, <1>10

\* COMMIT: the block that is left is freed if nothing is linked to it.
LEMMA SoltarFirme ==
    ASSUME StorageAssumption, Tipos, UnSolo, Firme, NEW w \in Worker, Soltar(w)
    PROVE  Firme'
<1>1. PICK h : h = hilo[w]
  OBVIOUS
<1>2. En(w, "soltar") /\ UNCHANGED <<dirs, meta, enlaces, contenido, hash>>
  BY DEF Soltar
<1>3. "soltar" \in ConFaltan
  BY DEF ConFaltan, Escribiendo, Deduplicando
<1>4. PICK t \in Tag, i \in Logico, s \in Seq(Bloque) :
        t = h.tag /\ i = Head(h.faltan) /\ s = h.copia.bloques
  BY <1>1, <1>2, <1>3, EnFirme
<1>5. /\ h.paso = "soltar" /\ t # Base /\ Existe(t) /\ h \in EnCurso
      /\ h.copia.estado # "NO" /\ TareaExacta(h) /\ h.faltan # <<>>
      /\ \A u \in Tag : u # t => MetaExacta(u)
      /\ \A b \in bitmap : b \in Pendiente(h) \/ hash[b] = contenido[b]
      /\ EnUso \subseteq bitmap /\ bitmap \subseteq EnUso \cup Sobrante(h)
  BY <1>1, <1>2, <1>3, <1>4, EnFirme
<1>6. /\ i \in DOMAIN s /\ BaseBien /\ hilo \in [Worker -> EnCurso \cup {Ocioso}]
      /\ Coincide(t, s) /\ Faltan(t, s, {i}) /\ h.indice = hash /\ enlaces[t][i] = Nadie
      /\ h.bloque \in bitmap /\ h.bloque # s[i]
  <2>1. "soltar" \in PorBloques /\ "soltar" \in Deduplicando
    BY DEF PorBloques, Deduplicando
  <2>2. i \in DOMAIN s
    BY <1>1, <1>2, <1>3, <1>4, <2>1, EnFirme
  <2>3. BaseBien /\ hilo \in [Worker -> EnCurso \cup {Ocioso}]
    BY DEF Firme, Tipos, HilosBien
  <2> QED
    BY <1>4, <1>5, <2>1, <2>2, <2>3 DEF TareaExacta
<1>7. PICK b \in Bloque : b = s[i]
  BY <1>4, <1>6
<1>8. PICK r : r = [h EXCEPT !.paso = "religar"]
  OBVIOUS
<1>9. /\ hilo' = [hilo EXCEPT ![w] = r] /\ enlaces' = enlaces
      /\ bitmap' = IF NLink(enlaces, b) = 1 THEN bitmap \ {b} ELSE bitmap
  <2>1. hilo' = [hilo EXCEPT ![w] = r]
    BY <1>1, <1>6, <1>8 DEF Soltar, Sigue
  <2> QED
    BY <1>1, <1>2, <1>4, <1>7, <2>1 DEF Soltar
<1>10. /\ r.paso = "religar" /\ r.tag = t /\ r.copia = h.copia /\ r.faltan = h.faltan
       /\ r.indice = h.indice /\ r.bloque = h.bloque
  BY <1>4, <1>5, <1>8 DEF EnCurso
<1>11. Pendiente(h) = {} /\ Sobrante(h) = {b} /\ Existe(t)' /\ EnUso' = EnUso
  BY <1>2, <1>4, <1>5, <1>7, <1>9, UsoIgual DEF Pendiente, Sobrante, Existe
<1>12. (NLink(enlaces, b) = 1 => b \notin EnUso) /\ (NLink(enlaces, b) # 1 => b \in EnUso)
  BY <1>6, <1>7, SinLigar, CeroLigado DEF EnUso
<1>13. EnUso' \subseteq bitmap' /\ bitmap' \subseteq EnUso'
  <2>1. CASE NLink(enlaces, b) = 1
    BY <1>5, <1>9, <1>11, <1>12, <2>1
  <2>2. CASE NLink(enlaces, b) # 1
    BY <1>5, <1>9, <1>11, <1>12, <2>2
  <2> QED
    BY <2>1, <2>2
<1>14. \A c \in bitmap' : hash'[c] = contenido'[c]
  BY <1>2, <1>5, <1>9, <1>11
<1>15. h.bloque \in bitmap'
  BY <1>6, <1>7, <1>9
<1>16. TareaExacta(r)'
  BY <1>2, <1>4, <1>6, <1>9, <1>10, <1>15 DEF TareaExacta, Coincide, Faltan
<1>17. r # Ocioso
  BY <1>10, Activo DEF Pasos
<1> QED
  BY <1>2, <1>4, <1>5, <1>6, <1>9, <1>10, <1>11, <1>13, <1>14, <1>16, <1>17, Continua

\* COMMIT: the name is linked to the block with the same contents.
LEMMA ReligarFirme ==
    ASSUME StorageAssumption, Tipos, UnSolo, Firme, NEW w \in Worker, Religar(w)
    PROVE  Firme'
<1>1. PICK h : h = hilo[w]
  OBVIOUS
<1>2. En(w, "religar") /\ UNCHANGED <<dirs, meta, contenido, bitmap, hash>>
  BY DEF Religar
<1>3. "religar" \in ConFaltan
  BY DEF ConFaltan, Escribiendo, Deduplicando
<1>4. PICK t \in Tag, i \in Logico, s \in Seq(Bloque) :
        t = h.tag /\ i = Head(h.faltan) /\ s = h.copia.bloques
  BY <1>1, <1>2, <1>3, EnFirme
<1>5. /\ h.paso = "religar" /\ t # Base /\ Existe(t) /\ h \in EnCurso
      /\ h.copia.estado # "NO" /\ TareaExacta(h) /\ h.faltan # <<>>
      /\ \A u \in Tag : u # t => MetaExacta(u)
      /\ \A b \in bitmap : b \in Pendiente(h) \/ hash[b] = contenido[b]
      /\ EnUso \subseteq bitmap /\ bitmap \subseteq EnUso \cup Sobrante(h)
  BY <1>1, <1>2, <1>3, <1>4, EnFirme
<1>6. /\ i \in DOMAIN s /\ BaseBien /\ hilo \in [Worker -> EnCurso \cup {Ocioso}]
      /\ Coincide(t, s) /\ Faltan(t, s, {i}) /\ h.indice = hash /\ enlaces[t][i] = Nadie
      /\ h.bloque \in bitmap /\ DOMAIN s \subseteq Logico
  <2>1. "religar" \in PorBloques /\ "religar" \in Deduplicando
    BY DEF PorBloques, Deduplicando
  <2>2. i \in DOMAIN s
    BY <1>1, <1>2, <1>3, <1>4, <2>1, EnFirme
  <2>3. BaseBien /\ hilo \in [Worker -> EnCurso \cup {Ocioso}]
    BY DEF Firme, Tipos, HilosBien
  <2>4. DOMAIN s \subseteq Logico
    BY <1>1, <1>2, <1>4, DominioCopia
  <2> QED
    BY <1>4, <1>5, <2>1, <2>2, <2>3, <2>4 DEF TareaExacta
<1>7. PICK b \in Bloque : b = h.bloque
  BY <1>6, BloquesDisco
<1>8. PICK g : g = [h EXCEPT !.copia.bloques[i] = b]
  OBVIOUS
<1>9. PICK r : r = Avanza(g, "buscar", "guardar")
  OBVIOUS
<1>10. hilo' = [hilo EXCEPT ![w] = r] /\ Enlaza(t, i, b)
  BY <1>1, <1>4, <1>5, <1>6, <1>7, <1>8, <1>9 DEF Religar, Enlaza
<1>11. PICK z \in Seq(Bloque) : z = [s EXCEPT ![i] = b]
  <2>1. [s EXCEPT ![i] = b] \in Seq(Bloque)
    BY <1>4, <1>6, <1>7
  <2> QED
    BY <2>1
<1>12. /\ g \in EnCurso /\ g.tag = t /\ g.copia.bloques = z
       /\ g.copia.estado = h.copia.estado /\ g.faltan = h.faltan /\ g.indice = h.indice
  <2>1. h.copia \in Metadata
    BY <1>5 DEF EnCurso
  <2>2. PICK c : c = [h.copia EXCEPT !.bloques = z]
    OBVIOUS
  <2>3. c \in Metadata /\ c.bloques = z /\ c.estado = h.copia.estado
    BY <1>11, <2>1, <2>2 DEF Metadata
  <2>4. g = [h EXCEPT !.copia = c]
    BY <1>4, <1>8, <1>11, <2>2
  <2> QED
    BY <1>4, <1>5, <2>3, <2>4 DEF EnCurso
<1>13. /\ r.paso \in {"buscar", "guardar"} /\ r.tag = t /\ r.copia.bloques = z
       /\ r.copia.estado = h.copia.estado /\ r.indice = h.indice
  <2>1. "buscar" \in Pasos /\ "guardar" \in Pasos /\ g.faltan # <<>>
    BY <1>5, <1>12 DEF Pasos
  <2>2. /\ r.paso = (IF Len(g.faltan) = 1 THEN "guardar" ELSE "buscar") /\ r.tag = g.tag
        /\ r.copia = g.copia /\ r.indice = g.indice
    BY <1>9, <1>12, <2>1, AvanzaEs
  <2> QED
    BY <1>12, <2>2
<1>14. /\ DOMAIN z = DOMAIN s /\ \A j \in DOMAIN s : z[j] = IF j = i THEN b ELSE s[j]
  BY <1>4, <1>11
<1>15. /\ \A u \in Tag : u # t => enlaces'[u] = enlaces[u]
       /\ \A j \in Logico : enlaces'[t][j] = IF j = i THEN b ELSE enlaces[t][j]
  BY <1>4, <1>10, EnlaceCambia
<1>16. EnUso' = EnUso \cup {b}
  BY <1>4, <1>6, <1>7, <1>10, LigaUso
<1>17. b # Nadie
  BY <1>7 DEF Bloque, StorageAssumption
<1>18. Coincide(t, z)' /\ Faltan(t, z, {})'
  BY <1>6, <1>14, <1>15, <1>17 DEF Coincide, Faltan
<1>19. TareaExacta(r)'
  BY <1>2, <1>6, <1>13, <1>18 DEF TareaExacta
<1>20. Pendiente(h) = {} /\ Sobrante(h) = {} /\ Existe(t)' /\ r # Ocioso
  BY <1>2, <1>5, <1>13, Activo DEF Pendiente, Sobrante, Existe, Pasos
<1>21. EnUso' \subseteq bitmap' /\ bitmap' \subseteq EnUso'
  BY <1>2, <1>5, <1>6, <1>7, <1>16, <1>20
<1>22. \A c \in bitmap' : hash'[c] = contenido'[c]
  BY <1>2, <1>5, <1>20
<1>23. /\ hilo' = [hilo EXCEPT ![w] = r] /\ t # Base /\ contenido'[0] = contenido[0]
       /\ \A u \in Tag : u # t => MetaExacta(u) /\ enlaces'[u] = enlaces[u] /\ meta'[u] = meta[u]
  BY <1>2, <1>5, <1>10, <1>15
<1>24. IF r = Ocioso THEN MetaExacta(t)'
       ELSE r.tag = t /\ Existe(t)' /\ r.copia.estado # "NO" /\ TareaExacta(r)'
  BY <1>5, <1>13, <1>19, <1>20
<1>25. bitmap' \subseteq EnUso' \cup Sobrante(r)
  BY <1>21
<1>26. \A c \in bitmap' : c \in Pendiente(r) \/ hash'[c] = contenido'[c]
  BY <1>22
<1> QED
  BY <1>4, <1>6, <1>21, <1>23, <1>24, <1>25, <1>26, Continua

\* DELETE: a name is removed.
LEMMA DesligarFirme ==
    ASSUME StorageAssumption, Tipos, UnSolo, Firme, NEW w \in Worker, Desligar(w)
    PROVE  Firme'
<1>1. PICK h : h = hilo[w]
  OBVIOUS
<1>2. En(w, "desligar") /\ UNCHANGED <<dirs, meta, contenido, bitmap, hash>>
  BY DEF Desligar
<1>3. "desligar" \in ConFaltan
  BY DEF ConFaltan, Escribiendo, Deduplicando
<1>4. PICK t \in Tag, i \in Logico, s \in Seq(Bloque) :
        t = h.tag /\ i = Head(h.faltan) /\ s = h.copia.bloques
  BY <1>1, <1>2, <1>3, EnFirme
<1>5. /\ h.paso = "desligar" /\ t # Base /\ Existe(t) /\ h \in EnCurso
      /\ h.copia.estado # "NO" /\ TareaExacta(h) /\ h.faltan # <<>>
      /\ \A u \in Tag : u # t => MetaExacta(u)
      /\ \A b \in bitmap : b \in Pendiente(h) \/ hash[b] = contenido[b]
      /\ EnUso \subseteq bitmap /\ bitmap \subseteq EnUso \cup Sobrante(h)
  BY <1>1, <1>2, <1>3, <1>4, EnFirme
<1>6. /\ BaseBien /\ h.faltan \in Seq(Logico) /\ Coincide(t, s) /\ DOMAIN s \subseteq Logico
      /\ \A j \in DOMAIN s : enlaces[t][j] = Nadie \/ j \in ToSet(h.faltan)
  <2>1. BaseBien /\ h.faltan \in Seq(Logico)
    BY <1>5 DEF Firme, EnCurso
  <2>2. DOMAIN s \subseteq Logico
    BY <1>1, <1>2, <1>4, DominioCopia
  <2> QED
    BY <1>4, <1>5, <2>1, <2>2 DEF TareaExacta
<1>7. i \in DOMAIN s
  <2>1. "desligar" \in PorBloques
    BY DEF PorBloques
  <2> QED
    BY <1>1, <1>2, <1>3, <1>4, <2>1, EnFirme
<1>8. PICK g : g = Avanza(h, "desligar", "liberar")
  OBVIOUS
<1>9. /\ g \in EnCurso /\ g.faltan = Tail(h.faltan) /\ g.tag = t /\ g.copia = h.copia
      /\ g.paso = IF Len(h.faltan) = 1 THEN "liberar" ELSE "desligar"
  <2>1. "desligar" \in Pasos /\ "liberar" \in Pasos
    BY DEF Pasos
  <2> QED
    BY <1>4, <1>5, <1>8, <2>1, AvanzaEs
<1>10. PICK r : r = IF g.paso = "liberar" THEN [g EXCEPT !.faltan = Indices(h.copia)] ELSE g
  OBVIOUS
<1>11. hilo' = [hilo EXCEPT ![w] = r] /\ Enlaza(t, i, Nadie)
  BY <1>1, <1>4, <1>8, <1>10 DEF Desligar, Enlaza
<1>12. /\ r.tag = t /\ r.copia = h.copia /\ r.paso = g.paso /\ r.paso \in {"liberar", "desligar"}
       /\ r.paso = "liberar" => Len(h.faltan) = 1 /\ r.faltan = Indices(h.copia)
       /\ r.paso = "desligar" => r.faltan = Tail(h.faltan)
  BY <1>9, <1>10 DEF EnCurso
<1>13. /\ ToSet(h.faltan) = {i} \cup ToSet(Tail(h.faltan))
       /\ Len(h.faltan) = 1 => ToSet(h.faltan) = {i}
  BY <1>4, <1>5, <1>6, QuedanTras
<1>14. /\ \A u \in Tag : u # t => enlaces'[u] = enlaces[u]
       /\ \A j \in Logico : enlaces'[t][j] = IF j = i THEN Nadie ELSE enlaces[t][j]
  BY <1>4, <1>11, EnlaceCambia
<1>15. Coincide(t, s)'
  BY <1>6, <1>14 DEF Coincide
<1>16. /\ \A j \in DOMAIN s : enlaces'[t][j] = Nadie \/ j \in ToSet(Tail(h.faltan))
       /\ Len(h.faltan) = 1 => \A j \in DOMAIN s : enlaces'[t][j] = Nadie
  BY <1>6, <1>13, <1>14
<1>17. TareaExacta(r)'
  BY <1>4, <1>12, <1>15, <1>16 DEF TareaExacta, Deduplicando
<1>18. Sobrante(h) = ToSet(s) /\ Pendiente(h) = {}
  BY <1>4, <1>5 DEF Sobrante, Pendiente
<1>19. Sobrante(r) = ToSet(s)
  <2>1. CASE r.paso = "desligar"
    BY <1>4, <1>12, <2>1 DEF Sobrante
  <2>2. CASE r.paso = "liberar"
    <3>1. Sobrante(r) = {s[j] : j \in ToSet(r.faltan)}
      BY <1>4, <1>12, <2>2 DEF Sobrante
    <3>2. ToSet(r.faltan) = DOMAIN s
      BY <1>4, <1>12, <2>2, IndicesSon
    <3> QED
      BY <3>1, <3>2 DEF ToSet
  <2> QED
    BY <1>12, <2>1, <2>2
<1>20. EnUso' \subseteq EnUso /\ EnUso \subseteq EnUso' \cup ({enlaces[t][i]} \ {Nadie})
  BY <1>4, <1>11, DesligaUso
<1>21. {enlaces[t][i]} \ {Nadie} \subseteq ToSet(s)
  BY <1>4, <1>6, <1>7 DEF Coincide, ToSet
<1>22. EnUso' \subseteq bitmap' /\ bitmap' \subseteq EnUso' \cup Sobrante(r)
  BY <1>2, <1>5, <1>18, <1>19, <1>20, <1>21
<1>23. /\ t # Base /\ contenido'[0] = contenido[0]
       /\ \A u \in Tag : u # t => MetaExacta(u) /\ enlaces'[u] = enlaces[u] /\ meta'[u] = meta[u]
  BY <1>2, <1>5, <1>14
<1>24. IF r = Ocioso THEN MetaExacta(t)'
       ELSE r.tag = t /\ Existe(t)' /\ r.copia.estado # "NO" /\ TareaExacta(r)'
  BY <1>2, <1>5, <1>12, <1>17, Activo DEF Pasos, Existe
<1>25. \A c \in bitmap' : c \in Pendiente(r) \/ hash'[c] = contenido'[c]
  BY <1>2, <1>5, <1>18
<1> QED
  BY <1>4, <1>6, <1>11, <1>22, <1>23, <1>24, <1>25, Continua

\* DELETE: a block of the list is freed if nothing is linked to it.
LEMMA LiberarFirme ==
    ASSUME StorageAssumption, Tipos, UnSolo, Firme, NEW w \in Worker, Liberar(w)
    PROVE  Firme'
<1>1. PICK h : h = hilo[w]
  OBVIOUS
<1>2. En(w, "liberar") /\ UNCHANGED <<dirs, meta, enlaces, contenido, hash>>
  BY DEF Liberar
<1>3. "liberar" \in ConFaltan
  BY DEF ConFaltan, Escribiendo, Deduplicando
<1>4. PICK t \in Tag, i \in Logico, s \in Seq(Bloque) :
        t = h.tag /\ i = Head(h.faltan) /\ s = h.copia.bloques
  BY <1>1, <1>2, <1>3, EnFirme
<1>5. /\ h.paso = "liberar" /\ t # Base /\ Existe(t) /\ h \in EnCurso
      /\ h.copia.estado # "NO" /\ TareaExacta(h) /\ h.faltan # <<>>
      /\ \A u \in Tag : u # t => MetaExacta(u)
      /\ \A b \in bitmap : b \in Pendiente(h) \/ hash[b] = contenido[b]
      /\ EnUso \subseteq bitmap /\ bitmap \subseteq EnUso \cup Sobrante(h)
  BY <1>1, <1>2, <1>3, <1>4, EnFirme
<1>6. /\ BaseBien /\ h.faltan \in Seq(Logico) /\ Coincide(t, s)
      /\ \A j \in DOMAIN s : enlaces[t][j] = Nadie
  <2>1. BaseBien /\ h.faltan \in Seq(Logico)
    BY <1>5 DEF Firme, EnCurso
  <2> QED
    BY <1>4, <1>5, <2>1 DEF TareaExacta
<1>7. PICK b \in Bloque : b = s[i]
  <2>1. "liberar" \in PorBloques
    BY DEF PorBloques
  <2>2. i \in DOMAIN s
    BY <1>1, <1>2, <1>3, <1>4, <2>1, EnFirme
  <2> QED
    BY <1>4, <2>2
<1>8. PICK r : r = Avanza(h, "liberar", "quitar")
  OBVIOUS
<1>9. /\ r.faltan = Tail(h.faltan) /\ r.tag = t /\ r.copia = h.copia
      /\ r.paso = IF Len(h.faltan) = 1 THEN "quitar" ELSE "liberar"
  <2>1. "quitar" \in Pasos /\ "liberar" \in Pasos
    BY DEF Pasos
  <2> QED
    BY <1>4, <1>5, <1>8, <2>1, AvanzaEs
<1>10. /\ hilo' = [hilo EXCEPT ![w] = r] /\ enlaces' = enlaces
       /\ bitmap' = IF NLink(enlaces, b) = 1 THEN bitmap \ {b} ELSE bitmap
  BY <1>1, <1>2, <1>4, <1>7, <1>8 DEF Liberar
<1>11. /\ ToSet(h.faltan) = {i} \cup ToSet(Tail(h.faltan))
       /\ Len(h.faltan) = 1 => ToSet(h.faltan) = {i}
  BY <1>4, <1>5, <1>6, QuedanTras
<1>12. Sobrante(h) = {s[j] : j \in ToSet(h.faltan)} /\ Pendiente(h) = {}
  BY <1>4, <1>5 DEF Sobrante, Pendiente
<1>13. Sobrante(h) \subseteq Sobrante(r) \cup {b}
  <2>1. CASE Len(h.faltan) = 1
    BY <1>7, <1>11, <1>12, <2>1
  <2>2. CASE Len(h.faltan) # 1
    <3>1. Sobrante(r) = {s[j] : j \in ToSet(Tail(h.faltan))}
      BY <1>4, <1>9, <2>2 DEF Sobrante
    <3> QED
      BY <1>7, <1>11, <1>12, <3>1
  <2> QED
    BY <2>1, <2>2
<1>14. (NLink(enlaces, b) = 1 => b \notin EnUso) /\ (NLink(enlaces, b) # 1 => b \in EnUso)
  BY <1>6, <1>7, SinLigar, CeroLigado DEF EnUso
<1>15. EnUso' = EnUso
  BY <1>10, UsoIgual
<1>16. /\ EnUso' \subseteq bitmap' /\ bitmap' \subseteq EnUso' \cup Sobrante(r)
       /\ bitmap' \subseteq bitmap
  <2>1. CASE NLink(enlaces, b) = 1
    BY <1>5, <1>10, <1>13, <1>14, <1>15, <2>1
  <2>2. CASE NLink(enlaces, b) # 1
    BY <1>5, <1>10, <1>13, <1>14, <1>15, <2>2
  <2> QED
    BY <2>1, <2>2
<1>17. \A j \in Logico : enlaces[t][j] \in {0, Nadie}
  BY <1>6 DEF Coincide
<1>18. TareaExacta(r)'
  <2>1. Coincide(t, s)'
    BY <1>6, <1>10 DEF Coincide
  <2>2. /\ \A j \in DOMAIN s : enlaces'[t][j] = Nadie
        /\ \A j \in Logico : enlaces'[t][j] \in {0, Nadie}
    BY <1>6, <1>10, <1>17
  <2> QED
    BY <1>4, <1>9, <2>1, <2>2 DEF TareaExacta, Deduplicando
<1>19. /\ t # Base /\ contenido'[0] = contenido[0]
       /\ \A u \in Tag : u # t => MetaExacta(u) /\ enlaces'[u] = enlaces[u] /\ meta'[u] = meta[u]
  BY <1>2, <1>5, <1>10
<1>20. IF r = Ocioso THEN MetaExacta(t)'
       ELSE r.tag = t /\ Existe(t)' /\ r.copia.estado # "NO" /\ TareaExacta(r)'
  BY <1>2, <1>5, <1>9, <1>18, Activo DEF Pasos, Existe
<1>21. \A c \in bitmap' : c \in Pendiente(r) \/ hash'[c] = contenido'[c]
  BY <1>2, <1>5, <1>12, <1>16
<1>22. /\ hilo' = [hilo EXCEPT ![w] = r] /\ BaseBien
       /\ EnUso' \subseteq bitmap' /\ bitmap' \subseteq EnUso' \cup Sobrante(r)
  BY <1>6, <1>10, <1>16
<1> QED
  BY <1>4, <1>19, <1>20, <1>21, <1>22, Continua

\* DELETE: the directory is removed.
LEMMA QuitarFirme ==
    ASSUME StorageAssumption, Tipos, UnSolo, Firme, NEW w \in Worker, Quitar(w)
    PROVE  Firme'
<1>1. PICK h : h = hilo[w]
  OBVIOUS
<1>2. En(w, "quitar") /\ UNCHANGED <<dirs, contenido, bitmap, hash>>
  BY DEF Quitar
<1>3. "quitar" \in Pasos
  BY DEF Pasos
<1>4. PICK t \in Tag, s \in Seq(Bloque) : t = h.tag /\ s = h.copia.bloques
  BY <1>1, <1>2, <1>3, EnFirme
<1>5. /\ h.paso = "quitar" /\ t # Base /\ Existe(t) /\ h \in EnCurso
      /\ h.copia.estado # "NO" /\ TareaExacta(h)
      /\ \A u \in Tag : u # t => MetaExacta(u)
      /\ \A b \in bitmap : b \in Pendiente(h) \/ hash[b] = contenido[b]
      /\ EnUso \subseteq bitmap /\ bitmap \subseteq EnUso \cup Sobrante(h)
  BY <1>1, <1>2, <1>3, <1>4, EnFirme
<1>6. \A j \in Logico : enlaces[t][j] \in {0, Nadie}
  BY <1>4, <1>5 DEF TareaExacta
<1>7. /\ hilo' = [hilo EXCEPT ![w] = Ocioso] /\ enlaces' = [enlaces EXCEPT ![t] = SinEnlaces]
      /\ meta' = [meta EXCEPT ![t] = NoExiste]
  BY <1>1, <1>4 DEF Quitar, Termina
<1>8. /\ meta \in [Tag -> Metadata] /\ enlaces \in [Tag -> [Logico -> Bloque \cup {Nadie}]]
      /\ BaseBien
  BY BloquesDisco DEF Tipos, MetasBien, Firme
<1>9. /\ enlaces'[t] = SinEnlaces /\ \A u \in Tag : u # t => enlaces'[u] = enlaces[u]
      /\ meta'[t] = NoExiste /\ \A u \in Tag : u # t => meta'[u] = meta[u]
  BY <1>4, <1>7, <1>8
<1>10. MetaExacta(t)'
  <2>1. \A j \in Logico : enlaces'[t][j] = Nadie
    BY <1>9 DEF SinEnlaces
  <2>2. DOMAIN meta'[t].bloques = {} /\ meta'[t].estado = "NO"
    <3>1. DOMAIN <<>> = {}
      OBVIOUS
    <3>2. meta'[t].bloques = <<>> /\ meta'[t].estado = "NO"
      BY <1>9 DEF NoExiste
    <3> QED
      BY <3>1, <3>2
  <2> QED
    BY <1>9, <2>1, <2>2 DEF MetaExacta, Coincide, Faltan
<1>11. EnUso' = EnUso
  <2>1. ASSUME NEW x \in Ligados' PROVE x \in Ligados
    <3>1. PICK u \in Tag, j \in Logico : x = enlaces'[u][j] /\ x # Nadie
      BY <2>1 DEF Ligados
    <3>2. u # t
      BY <1>9, <3>1 DEF SinEnlaces
    <3> QED
      BY <1>9, <3>1, <3>2 DEF Ligados
  <2>2. ASSUME NEW x \in Ligados PROVE x \in Ligados' \cup {0}
    <3>1. PICK u \in Tag, j \in Logico : x = enlaces[u][j] /\ x # Nadie
      BY <2>2 DEF Ligados
    <3>2. CASE u = t
      BY <1>6, <3>1, <3>2
    <3>3. CASE u # t
      <4>1. x = enlaces'[u][j]
        BY <1>9, <3>1, <3>3
      <4> QED
        BY <3>1, <4>1 DEF Ligados
    <3> QED
      BY <3>2, <3>3
  <2> QED
    BY <2>1, <2>2 DEF EnUso
<1>12. Pendiente(h) = {} /\ Sobrante(h) = {}
  BY <1>5 DEF Pendiente, Sobrante
<1>13. EnUso' \subseteq bitmap' /\ bitmap' \subseteq EnUso'
  BY <1>2, <1>5, <1>11, <1>12
<1>14. \A c \in bitmap' : hash'[c] = contenido'[c]
  BY <1>2, <1>5, <1>12
<1>15. /\ t # Base /\ contenido'[0] = contenido[0]
       /\ \A u \in Tag : u # t => MetaExacta(u) /\ enlaces'[u] = enlaces[u] /\ meta'[u] = meta[u]
  BY <1>2, <1>5, <1>9
<1> QED
  BY <1>4, <1>7, <1>8, <1>10, <1>13, <1>14, <1>15, Acaba

\* WRITE: the block chosen is taken.
LEMMA ReservarFirme ==
    ASSUME StorageAssumption, Tipos, UnSolo, Firme, NEW w \in Worker, Reservar(w)
    PROVE  Firme'
<1>1. PICK h : h = hilo[w]
  OBVIOUS
<1>2. En(w, "reservar") /\ UNCHANGED <<dirs, meta, enlaces, contenido, hash>>
  BY DEF Reservar
<1>3. "reservar" \in ConFaltan
  BY DEF ConFaltan, Escribiendo, Deduplicando
<1>4. PICK t \in Tag, i \in Logico, s \in Seq(Bloque) :
        t = h.tag /\ i = Head(h.faltan) /\ s = h.copia.bloques
  BY <1>1, <1>2, <1>3, EnFirme
<1>5. /\ h.paso = "reservar" /\ t # Base /\ Existe(t) /\ h \in EnCurso
      /\ h.copia.estado # "NO" /\ TareaExacta(h) /\ h.faltan # <<>>
      /\ \A u \in Tag : u # t => MetaExacta(u)
      /\ \A b \in bitmap : b \in Pendiente(h) \/ hash[b] = contenido[b]
      /\ EnUso \subseteq bitmap /\ bitmap \subseteq EnUso \cup Sobrante(h)
  BY <1>1, <1>2, <1>3, <1>4, EnFirme
<1>6. PICK b \in Bloque : b = h.bloque
  <2>1. h.paso \in Escribiendo
    BY <1>5 DEF Escribiendo
  <2> QED
    BY <1>1, <1>2, <1>3, <2>1, EnFirme DEF TareaBien
<1>7. PICK r : r = [h EXCEPT !.paso = "escribir"]
  OBVIOUS
<1>8. hilo' = [hilo EXCEPT ![w] = r] /\ bitmap' = bitmap \cup {b}
  <2>1. hilo \in [Worker -> EnCurso \cup {Ocioso}]
    BY DEF Tipos, HilosBien
  <2> QED
    BY <1>1, <1>6, <1>7, <2>1 DEF Reservar, Sigue
<1>9. /\ r.paso = "escribir" /\ r.tag = t /\ r.copia = h.copia /\ r.faltan = h.faltan
      /\ r.bloque = b /\ r.nuevo = h.nuevo
  BY <1>4, <1>5, <1>6, <1>7 DEF EnCurso
<1>10. h.nuevo /\ Elegido(t, i, s, b) /\ BaseBien
  BY <1>4, <1>5, <1>6 DEF TareaExacta, Firme
<1>11. EnUso' = EnUso
  BY <1>2, UsoIgual
<1>12. Elegido(t, i, s, b)'
  BY <1>2, <1>10, <1>11 DEF Elegido, Coincide, Faltan, Compartido
<1>13. TareaExacta(r)'
  BY <1>4, <1>8, <1>9, <1>10, <1>12 DEF TareaExacta, Deduplicando
<1>14. Pendiente(h) = {} /\ Sobrante(h) = {} /\ Pendiente(r) = {b} /\ Sobrante(r) = {b}
  BY <1>5, <1>9 DEF Pendiente, Sobrante
<1>15. EnUso' \subseteq bitmap' /\ bitmap' \subseteq EnUso' \cup Sobrante(r)
  BY <1>5, <1>8, <1>11, <1>14
<1>16. \A c \in bitmap' : c \in Pendiente(r) \/ hash'[c] = contenido'[c]
  BY <1>2, <1>5, <1>8, <1>14
<1>17. /\ t # Base /\ contenido'[0] = contenido[0]
       /\ \A u \in Tag : u # t => MetaExacta(u) /\ enlaces'[u] = enlaces[u] /\ meta'[u] = meta[u]
  BY <1>2, <1>5
<1>18. IF r = Ocioso THEN MetaExacta(t)'
       ELSE r.tag = t /\ Existe(t)' /\ r.copia.estado # "NO" /\ TareaExacta(r)'
  BY <1>2, <1>5, <1>9, <1>13, Activo DEF Pasos, Existe
<1> QED
  BY <1>4, <1>8, <1>10, <1>15, <1>16, <1>17, <1>18, Continua

\* WRITE: the contents go to the block, which the name leaves first if it is a new one.
LEMMA EscribirDatosFirme ==
    ASSUME StorageAssumption, Tipos, UnSolo, Firme, NEW w \in Worker, EscribirDatos(w)
    PROVE  Firme'
<1>1. PICK h : h = hilo[w]
  OBVIOUS
<1>2. En(w, "escribir") /\ UNCHANGED <<dirs, meta, bitmap, hash>>
  BY DEF EscribirDatos
<1>3. "escribir" \in ConFaltan
  BY DEF ConFaltan, Escribiendo, Deduplicando
<1>4. PICK t \in Tag, i \in Logico, s \in Seq(Bloque) :
        t = h.tag /\ i = Head(h.faltan) /\ s = h.copia.bloques
  BY <1>1, <1>2, <1>3, EnFirme
<1>5. /\ h.paso = "escribir" /\ t # Base /\ Existe(t) /\ h \in EnCurso
      /\ h.copia.estado # "NO" /\ TareaExacta(h) /\ h.faltan # <<>>
      /\ \A u \in Tag : u # t => MetaExacta(u)
      /\ \A b \in bitmap : b \in Pendiente(h) \/ hash[b] = contenido[b]
      /\ EnUso \subseteq bitmap /\ bitmap \subseteq EnUso \cup Sobrante(h)
  BY <1>1, <1>2, <1>3, <1>4, EnFirme
<1>6. PICK b \in Bloque : b = h.bloque
  <2>1. h.paso \in Escribiendo
    BY <1>5 DEF Escribiendo
  <2> QED
    BY <1>1, <1>2, <1>3, <2>1, EnFirme DEF TareaBien
<1>7. b \in 0..(Bloques - 1) /\ b < Bloques
  BY DEF Bloque, UnSolo, StorageAssumption
<1>8. PICK r : r = [h EXCEPT !.paso = "hash"]
  OBVIOUS
<1>9. /\ hilo' = [hilo EXCEPT ![w] = r] /\ contenido' = [contenido EXCEPT ![b] = h.valor]
      /\ IF h.nuevo THEN Enlaza(t, i, Nadie) ELSE enlaces' = enlaces
  <2>1. hilo \in [Worker -> EnCurso \cup {Ocioso}]
    BY DEF Tipos, HilosBien
  <2> QED
    BY <1>1, <1>4, <1>6, <1>7, <1>8, <2>1 DEF EscribirDatos, Sigue, Enlaza
<1>10. /\ r.paso = "hash" /\ r.tag = t /\ r.copia = h.copia /\ r.faltan = h.faltan
       /\ r.bloque = b /\ r.nuevo = h.nuevo /\ r.valor = h.valor
  BY <1>4, <1>5, <1>6, <1>8 DEF EnCurso
<1>11. /\ BaseBien /\ contenido \in [0..(Bloques - 1) -> Valor]
       /\ IF h.nuevo THEN Elegido(t, i, s, b) /\ b \in bitmap ELSE EnSitio(t, i, s, b)
  BY <1>4, <1>5, <1>6, BloquesDisco DEF TareaExacta, Firme
<1>12. /\ contenido'[b] = h.valor /\ \A c \in bitmap : c # b => contenido'[c] = contenido[c]
  <2>1. bitmap \subseteq 0..(Bloques - 1)
    BY BloquesDisco DEF Bloque, UnSolo
  <2> QED
    BY <1>7, <1>9, <1>11, <2>1
<1>13. /\ b # 0 /\ EnUso' = EnUso
       /\ \A u \in Tag : u # t => enlaces'[u] = enlaces[u]
       /\ IF h.nuevo THEN Aparte(t, i, s, b)' ELSE EnSitio(t, i, s, b)'
  <2>1. CASE h.nuevo
    <3>1. Enlaza(t, i, Nadie) /\ Elegido(t, i, s, b) /\ b \in bitmap
      BY <1>9, <1>11, <2>1
    <3>2. b # 0
      BY <3>1 DEF Elegido, EnUso
    <3>3. EnUso' = EnUso
      <4>1. Compartido(t, i)
        BY <3>1 DEF Elegido
      <4> QED
        BY <1>4, <3>1, <4>1, DesligaUso
    <3>4. /\ \A u \in Tag : u # t => enlaces'[u] = enlaces[u]
          /\ \A j \in Logico : enlaces'[t][j] = IF j = i THEN Nadie ELSE enlaces[t][j]
      BY <1>4, <3>1, EnlaceCambia
    <3>5. PICK m \in Seq(Bloque) : m = meta[t].bloques
      BY <1>4, MetaEs DEF Lista
    <3>6. i \in DOMAIN m /\ s = [m EXCEPT ![i] = b] /\ Coincide(t, m) /\ Faltan(t, m, {})
      BY <3>1, <3>5 DEF Elegido
    <3>7. /\ i \in DOMAIN s /\ DOMAIN s = DOMAIN m /\ s[i] = b
          /\ \A j \in DOMAIN m : j # i => s[j] = m[j]
      BY <3>5, <3>6
    <3>8. DOMAIN s \subseteq Logico
      BY <1>1, <1>2, <1>4, DominioCopia
    <3>9. Coincide(t, s)'
      BY <3>4, <3>6, <3>7 DEF Coincide
    <3>10. Faltan(t, s, {i})'
      BY <3>4, <3>6, <3>7, <3>8 DEF Faltan
    <3>11. Aparte(t, i, s, b)'
      BY <1>2, <1>4, <3>1, <3>4, <3>7, <3>9, <3>10 DEF Aparte
    <3> QED
      BY <2>1, <3>2, <3>3, <3>4, <3>11
  <2>2. CASE ~ h.nuevo
    <3>1. enlaces' = enlaces /\ EnSitio(t, i, s, b)
      BY <1>9, <1>11, <2>2
    <3>2. b # 0
      <4>1. enlaces[t][i] = b /\ ~ Compartido(t, i)
        BY <3>1 DEF EnSitio
      <4>2. Base \in Tag /\ 1 \in Logico /\ enlaces[Base][1] = 0 /\ <<Base, 1>> # <<t, i>>
        BY <1>5, <1>11, CeroLigado
      <4> QED
        BY <4>1, <4>2 DEF Compartido
    <3>3. EnSitio(t, i, s, b)'
      BY <1>2, <3>1 DEF EnSitio, Coincide, Faltan, Compartido
    <3> QED
      BY <2>2, <3>1, <3>2, <3>3, UsoIgual
  <2> QED
    BY <2>1, <2>2
<1>14. TareaExacta(r)'
  BY <1>4, <1>10, <1>12, <1>13 DEF TareaExacta, Deduplicando
<1>15. Pendiente(h) = {b} /\ Sobrante(h) = {b} /\ Pendiente(r) = {b} /\ Sobrante(r) = {b}
  BY <1>5, <1>6, <1>10 DEF Pendiente, Sobrante
<1>16. EnUso' \subseteq bitmap' /\ bitmap' \subseteq EnUso' \cup Sobrante(r)
  BY <1>2, <1>5, <1>13, <1>15
<1>17. \A c \in bitmap' : c \in Pendiente(r) \/ hash'[c] = contenido'[c]
  BY <1>2, <1>5, <1>12, <1>15
<1>18. contenido'[0] = contenido[0]
  <2>1. 0 \in 0..(Bloques - 1)
    BY DEF StorageAssumption
  <2> QED
    BY <1>9, <1>11, <1>13, <2>1
<1>19. \A u \in Tag : u # t => MetaExacta(u) /\ enlaces'[u] = enlaces[u] /\ meta'[u] = meta[u]
  BY <1>2, <1>5, <1>13
<1>20. IF r = Ocioso THEN MetaExacta(t)'
       ELSE r.tag = t /\ Existe(t)' /\ r.copia.estado # "NO" /\ TareaExacta(r)'
  BY <1>2, <1>5, <1>10, <1>14, Activo DEF Pasos, Existe
<1>21. hilo' = [hilo EXCEPT ![w] = r] /\ t # Base /\ BaseBien
  BY <1>5, <1>9, <1>11
<1> QED
  BY <1>4, <1>16, <1>17, <1>18, <1>19, <1>20, <1>21, Continua

\* WRITE: the hash index is read.
LEMMA LeerIndiceFirme ==
    ASSUME StorageAssumption, Tipos, UnSolo, Firme, NEW w \in Worker, LeerIndice(w)
    PROVE  Firme'
<1>1. PICK h : h = hilo[w]
  OBVIOUS
<1>2. En(w, "hash") /\ UNCHANGED <<dirs, meta, enlaces, contenido, bitmap, hash>>
  BY DEF LeerIndice, discos
<1>3. "hash" \in ConFaltan
  BY DEF ConFaltan, Escribiendo, Deduplicando
<1>4. PICK t \in Tag, i \in Logico, s \in Seq(Bloque) :
        t = h.tag /\ i = Head(h.faltan) /\ s = h.copia.bloques
  BY <1>1, <1>2, <1>3, EnFirme
<1>5. /\ h.paso = "hash" /\ t # Base /\ Existe(t) /\ h \in EnCurso
      /\ h.copia.estado # "NO" /\ TareaExacta(h) /\ h.faltan # <<>>
      /\ \A u \in Tag : u # t => MetaExacta(u)
      /\ \A b \in bitmap : b \in Pendiente(h) \/ hash[b] = contenido[b]
      /\ EnUso \subseteq bitmap /\ bitmap \subseteq EnUso \cup Sobrante(h)
  BY <1>1, <1>2, <1>3, <1>4, EnFirme
<1>6. PICK b \in Bloque : b = h.bloque
  <2>1. h.paso \in Escribiendo
    BY <1>5 DEF Escribiendo
  <2> QED
    BY <1>1, <1>2, <1>3, <2>1, EnFirme DEF TareaBien
<1>7. PICK r : r = [h EXCEPT !.indice = hash, !.paso = "indexar"]
  OBVIOUS
<1>8. hilo' = [hilo EXCEPT ![w] = r]
  <2>1. hilo \in [Worker -> EnCurso \cup {Ocioso}]
    BY DEF Tipos, HilosBien
  <2>2. IndiceEnDisco = {hash}
    BY <1>2, IndiceSolo
  <2> QED
    BY <1>1, <1>7, <2>1, <2>2 DEF LeerIndice
<1>9. /\ r.paso = "indexar" /\ r.tag = t /\ r.copia = h.copia /\ r.faltan = h.faltan
      /\ r.bloque = b /\ r.nuevo = h.nuevo /\ r.valor = h.valor /\ r.indice = hash
  BY <1>4, <1>5, <1>6, <1>7 DEF EnCurso
<1>10. /\ BaseBien /\ contenido[b] = h.valor
       /\ IF h.nuevo THEN Aparte(t, i, s, b) ELSE EnSitio(t, i, s, b)
  BY <1>4, <1>5, <1>6 DEF TareaExacta, Firme
<1>11. EnUso' = EnUso
  BY <1>2, UsoIgual
<1>12. Pendiente(h) = {b} /\ Sobrante(h) = {b} /\ Pendiente(r) = {b} /\ Sobrante(r) = {b}
  BY <1>5, <1>6, <1>9 DEF Pendiente, Sobrante
<1>13. IF r.nuevo THEN Aparte(t, i, s, b)' ELSE EnSitio(t, i, s, b)'
  BY <1>2, <1>9, <1>10 DEF Aparte, EnSitio, Coincide, Faltan, Compartido
<1>14. TareaExacta(r)'
  BY <1>2, <1>4, <1>9, <1>10, <1>13 DEF TareaExacta, Deduplicando
<1>15. \A u \in Tag : u # t => MetaExacta(u) /\ enlaces'[u] = enlaces[u] /\ meta'[u] = meta[u]
  BY <1>2, <1>5
<1>16. IF r = Ocioso THEN MetaExacta(t)'
       ELSE r.tag = t /\ Existe(t)' /\ r.copia.estado # "NO" /\ TareaExacta(r)'
  BY <1>2, <1>5, <1>9, <1>14, Activo DEF Pasos, Existe
<1>17. /\ EnUso' \subseteq bitmap' /\ bitmap' \subseteq EnUso' \cup Sobrante(r)
       /\ \A c \in bitmap' : c \in Pendiente(r) \/ hash'[c] = contenido'[c]
  BY <1>2, <1>5, <1>11, <1>12
<1>18. contenido'[0] = contenido[0] /\ t # Base
  BY <1>2, <1>5
<1> QED
  BY <1>4, <1>8, <1>10, <1>15, <1>16, <1>17, <1>18, Continua

\* WRITE: the hash of the block is saved.
LEMMA GuardarHashFirme ==
    ASSUME StorageAssumption, Tipos, UnSolo, Firme, NEW w \in Worker, GuardarHash(w)
    PROVE  Firme'
<1>1. PICK h : h = hilo[w]
  OBVIOUS
<1>2. En(w, "indexar") /\ UNCHANGED <<dirs, meta, enlaces, contenido, bitmap>>
  BY DEF GuardarHash, TrasIndexar
<1>3. "indexar" \in ConFaltan
  BY DEF ConFaltan, Escribiendo, Deduplicando
<1>4. PICK t \in Tag, i \in Logico, s \in Seq(Bloque) :
        t = h.tag /\ i = Head(h.faltan) /\ s = h.copia.bloques
  BY <1>1, <1>2, <1>3, EnFirme
<1>5. /\ h.paso = "indexar" /\ t # Base /\ Existe(t) /\ h \in EnCurso
      /\ h.copia.estado # "NO" /\ TareaExacta(h) /\ h.faltan # <<>>
      /\ \A u \in Tag : u # t => MetaExacta(u)
      /\ \A b \in bitmap : b \in Pendiente(h) \/ hash[b] = contenido[b]
      /\ EnUso \subseteq bitmap /\ bitmap \subseteq EnUso \cup Sobrante(h)
  BY <1>1, <1>2, <1>3, <1>4, EnFirme
<1>6. PICK b \in Bloque : b = h.bloque
  <2>1. h.paso \in Escribiendo
    BY <1>5 DEF Escribiendo
  <2> QED
    BY <1>1, <1>2, <1>3, <2>1, EnFirme DEF TareaBien
<1>7. PICK r : r = [h EXCEPT !.indice = <<>>, !.paso = IF h.nuevo THEN "enlazar" ELSE "guardar"]
  OBVIOUS
<1>8. hilo' = [hilo EXCEPT ![w] = r] /\ hash' = [hash EXCEPT ![b] = h.valor]
  <2>1. hilo \in [Worker -> EnCurso \cup {Ocioso}]
    BY DEF Tipos, HilosBien
  <2>2. h.indice = hash
    BY <1>5 DEF TareaExacta
  <2> QED
    BY <1>1, <1>6, <1>7, <2>1, <2>2 DEF GuardarHash, TrasIndexar, ConSuHash
<1>9. /\ r.paso = (IF h.nuevo THEN "enlazar" ELSE "guardar") /\ r.tag = t /\ r.copia = h.copia
      /\ r.faltan = h.faltan /\ r.bloque = b
  BY <1>4, <1>5, <1>6, <1>7 DEF EnCurso
<1>10. /\ BaseBien /\ contenido[b] = h.valor
       /\ IF h.nuevo THEN Aparte(t, i, s, b) ELSE EnSitio(t, i, s, b)
  BY <1>4, <1>5, <1>6 DEF TareaExacta, Firme
<1>11. EnUso' = EnUso
  BY <1>2, UsoIgual
<1>12. Pendiente(h) = {b} /\ Sobrante(h) = {b} /\ Pendiente(r) = {}
  BY <1>5, <1>6, <1>9 DEF Pendiente, Sobrante
<1>13. TareaExacta(r)' /\ EnUso \cup {b} \subseteq EnUso \cup Sobrante(r)
  <2>1. CASE h.nuevo
    <3>1. r.paso = "enlazar"
      BY <1>9, <2>1
    <3>2. Aparte(t, i, s, b)'
      BY <1>2, <1>10, <2>1 DEF Aparte, Coincide, Faltan
    <3>3. TareaExacta(r)'
      BY <1>4, <1>9, <3>1, <3>2 DEF TareaExacta, Deduplicando
    <3>4. Sobrante(r) = {b}
      BY <1>9, <3>1 DEF Sobrante
    <3> QED
      BY <3>3, <3>4
  <2>2. CASE ~ h.nuevo
    <3>1. r.paso = "guardar"
      BY <1>9, <2>2
    <3>2. Coincide(t, s)' /\ Faltan(t, s, {})' /\ enlaces[t][i] = b
      BY <1>2, <1>10, <2>2 DEF EnSitio, Coincide, Faltan
    <3>3. TareaExacta(r)'
      BY <1>4, <1>9, <3>1, <3>2 DEF TareaExacta, Deduplicando
    <3>4. b \in EnUso
      <4>1. b # Nadie
        BY DEF Bloque, StorageAssumption
      <4> QED
        BY <1>4, <3>2, <4>1 DEF EnUso, Ligados
    <3> QED
      BY <3>3, <3>4
  <2> QED
    BY <2>1, <2>2
<1>14. EnUso' \subseteq bitmap' /\ bitmap' \subseteq EnUso' \cup Sobrante(r)
  BY <1>2, <1>5, <1>11, <1>12, <1>13
<1>15. \A c \in bitmap' : c \in Pendiente(r) \/ hash'[c] = contenido'[c]
  <2>1. hash \in [Bloque -> Valor \cup {Nadie}] /\ bitmap \subseteq Bloque
    BY BloquesDisco DEF Tipos, HashBien
  <2> QED
    BY <1>2, <1>5, <1>8, <1>10, <1>12, <2>1
<1>16. /\ t # Base /\ contenido'[0] = contenido[0]
       /\ \A u \in Tag : u # t => MetaExacta(u) /\ enlaces'[u] = enlaces[u] /\ meta'[u] = meta[u]
  BY <1>2, <1>5
<1>17. r.paso \in Pasos /\ Existe(t)'
  BY <1>2, <1>5, <1>9 DEF Pasos, Existe
<1>18. IF r = Ocioso THEN MetaExacta(t)'
       ELSE r.tag = t /\ Existe(t)' /\ r.copia.estado # "NO" /\ TareaExacta(r)'
  BY <1>5, <1>9, <1>13, <1>17, Activo
<1> QED
  BY <1>4, <1>8, <1>10, <1>14, <1>15, <1>16, <1>18, Continua

\* WRITE: the name is linked to its new block.
LEMMA EnlazarFirme ==
    ASSUME StorageAssumption, Tipos, UnSolo, Firme, NEW w \in Worker, Enlazar(w)
    PROVE  Firme'
<1>1. PICK h : h = hilo[w]
  OBVIOUS
<1>2. En(w, "enlazar") /\ UNCHANGED <<dirs, meta, contenido, hash>>
  BY DEF Enlazar
<1>3. "enlazar" \in ConFaltan
  BY DEF ConFaltan, Escribiendo, Deduplicando
<1>4. PICK t \in Tag, i \in Logico, s \in Seq(Bloque) :
        t = h.tag /\ i = Head(h.faltan) /\ s = h.copia.bloques
  BY <1>1, <1>2, <1>3, EnFirme
<1>5. /\ h.paso = "enlazar" /\ t # Base /\ Existe(t) /\ h \in EnCurso
      /\ h.copia.estado # "NO" /\ TareaExacta(h) /\ h.faltan # <<>>
      /\ \A u \in Tag : u # t => MetaExacta(u)
      /\ \A b \in bitmap : b \in Pendiente(h) \/ hash[b] = contenido[b]
      /\ EnUso \subseteq bitmap /\ bitmap \subseteq EnUso \cup Sobrante(h)
  BY <1>1, <1>2, <1>3, <1>4, EnFirme
<1>6. PICK b \in Bloque : b = h.bloque
  <2>1. h.paso \in Escribiendo \cup {"enlazar"}
    BY <1>5
  <2> QED
    BY <1>1, <1>2, <1>3, <2>1, EnFirme DEF TareaBien
<1>7. PICK r : r = [h EXCEPT !.paso = "guardar"]
  OBVIOUS
<1>8. Aparte(t, i, s, b) /\ BaseBien
  BY <1>4, <1>5, <1>6 DEF TareaExacta, Firme
<1>9. /\ hilo' = [hilo EXCEPT ![w] = r] /\ Enlaza(t, i, b) /\ bitmap' = bitmap
  <2>1. hilo \in [Worker -> EnCurso \cup {Ocioso}]
    BY DEF Tipos, HilosBien
  <2>2. enlaces[t][i] = Nadie /\ b \in bitmap
    BY <1>8 DEF Aparte
  <2>3. hilo' = [hilo EXCEPT ![w] = r]
    BY <1>1, <1>7, <2>1 DEF Enlazar, Sigue
  <2>4. Enlaza(t, i, b) /\ bitmap' = bitmap \cup {b}
    BY <1>1, <1>4, <1>5, <1>6, <2>2 DEF Enlazar, Enlaza
  <2> QED
    BY <2>2, <2>3, <2>4
<1>10. r.paso = "guardar" /\ r.tag = t /\ r.copia = h.copia
  BY <1>4, <1>5, <1>7 DEF EnCurso
<1>11. /\ i \in DOMAIN s /\ s[i] = b /\ Coincide(t, s) /\ Faltan(t, s, {i})
       /\ enlaces[t][i] = Nadie /\ b \in bitmap /\ b # Nadie
  BY <1>8 DEF Aparte, Bloque, StorageAssumption
<1>12. EnUso' = EnUso \cup {b}
  BY <1>4, <1>9, <1>11, LigaUso
<1>13. /\ \A u \in Tag : u # t => enlaces'[u] = enlaces[u]
       /\ \A j \in Logico : enlaces'[t][j] = IF j = i THEN b ELSE enlaces[t][j]
  BY <1>4, <1>9, EnlaceCambia
<1>14. Coincide(t, s)' /\ Faltan(t, s, {})'
  <2>1. DOMAIN s \subseteq Logico
    BY <1>1, <1>2, <1>4, DominioCopia
  <2> QED
    BY <1>11, <1>13, <2>1 DEF Coincide, Faltan
<1>15. TareaExacta(r)'
  BY <1>4, <1>10, <1>14 DEF TareaExacta, Deduplicando
<1>16. Pendiente(h) = {} /\ Sobrante(h) = {b}
  BY <1>5, <1>6 DEF Pendiente, Sobrante
<1>17. EnUso' \subseteq bitmap' /\ bitmap' \subseteq EnUso' \cup Sobrante(r)
  BY <1>5, <1>9, <1>11, <1>12, <1>16
<1>18. \A c \in bitmap' : c \in Pendiente(r) \/ hash'[c] = contenido'[c]
  BY <1>2, <1>5, <1>9, <1>16
<1>19. /\ t # Base /\ contenido'[0] = contenido[0]
       /\ \A u \in Tag : u # t => MetaExacta(u) /\ enlaces'[u] = enlaces[u] /\ meta'[u] = meta[u]
  BY <1>2, <1>5, <1>13
<1>20. IF r = Ocioso THEN MetaExacta(t)'
       ELSE r.tag = t /\ Existe(t)' /\ r.copia.estado # "NO" /\ TareaExacta(r)'
  BY <1>2, <1>5, <1>10, <1>15, Activo DEF Pasos, Existe
<1> QED
  BY <1>4, <1>8, <1>9, <1>17, <1>18, <1>19, <1>20, Continua

\* The copy of the metadata is saved.
LEMMA GuardarMetadataFirme ==
    ASSUME StorageAssumption, Tipos, UnSolo, Firme, NEW w \in Worker, GuardarMetadata(w)
    PROVE  Firme'
<1>1. PICK h : h = hilo[w]
  OBVIOUS
<1>2. En(w, "guardar") /\ UNCHANGED <<dirs, enlaces, contenido, bitmap, hash>>
  BY DEF GuardarMetadata
<1>3. "guardar" \in Pasos
  BY DEF Pasos
<1>4. PICK t \in Tag, s \in Seq(Bloque) : t = h.tag /\ s = h.copia.bloques
  BY <1>1, <1>2, <1>3, EnFirme
<1>5. /\ h.paso = "guardar" /\ (t # Base \/ h.copia = meta[Base]) /\ Existe(t) /\ h \in EnCurso
      /\ h.copia.estado # "NO" /\ TareaExacta(h)
      /\ \A u \in Tag : u # t => MetaExacta(u)
      /\ \A b \in bitmap : b \in Pendiente(h) \/ hash[b] = contenido[b]
      /\ EnUso \subseteq bitmap /\ bitmap \subseteq EnUso \cup Sobrante(h)
  BY <1>1, <1>2, <1>3, <1>4, EnFirme
<1>6. Coincide(t, s) /\ Faltan(t, s, {}) /\ BaseBien
  BY <1>4, <1>5 DEF TareaExacta, Firme
<1>7. hilo' = [hilo EXCEPT ![w] = Ocioso] /\ meta' = [meta EXCEPT ![t] = h.copia]
  BY <1>1, <1>4, <1>5 DEF GuardarMetadata, Termina
<1>8. meta \in [Tag -> Metadata]
  BY DEF Tipos, MetasBien
<1>9. meta'[t] = h.copia /\ \A u \in Tag : u # t => meta'[u] = meta[u]
  BY <1>4, <1>7, <1>8
<1>10. MetaExacta(t)'
  <2>1. Coincide(t, s)' /\ Faltan(t, s, {})'
    BY <1>2, <1>6 DEF Coincide, Faltan
  <2>2. meta'[t].bloques = s /\ Existe(t)'
    BY <1>4, <1>5, <1>9 DEF Existe
  <2> QED
    BY <2>1, <2>2 DEF MetaExacta
<1>11. Pendiente(h) = {} /\ Sobrante(h) = {} /\ EnUso' = EnUso
  BY <1>2, <1>5, UsoIgual DEF Pendiente, Sobrante
<1>12. EnUso' \subseteq bitmap' /\ bitmap' \subseteq EnUso'
  BY <1>2, <1>5, <1>11
<1>13. \A c \in bitmap' : hash'[c] = contenido'[c]
  BY <1>2, <1>5, <1>11
<1>14. /\ t # Base \/ UNCHANGED <<meta, enlaces>>
       /\ contenido'[0] = contenido[0]
       /\ \A u \in Tag : u # t => MetaExacta(u) /\ enlaces'[u] = enlaces[u] /\ meta'[u] = meta[u]
  BY <1>2, <1>4, <1>5, <1>7, <1>8, <1>9
<1> QED
  BY <1>4, <1>6, <1>7, <1>10, <1>12, <1>13, <1>14, Acaba
-----------------------------------------------------------------------------
(* The invariant.                                                          *)

\* A fresh start.
LEMMA InitFirme ==
    ASSUME StorageAssumption, UnSolo, Init
    PROVE  Firme
<1>1. /\ Base \in Tag /\ 1 \in Logico /\ 0 # Nadie /\ 0 \in Bloque /\ 0 \in 0..(Bloques - 1)
  BY DEF StorageAssumption, Bloque, Logico
<1>2. BaseBien
  BY <1>1 DEF Init, BaseBien
<1>3. \A t \in Tag : \A i \in Logico : enlaces[t][i] = IF t = Base /\ i = 1 THEN 0 ELSE Nadie
  BY DEF Init
<1>4. ASSUME NEW t \in Tag PROVE MetaExacta(t)
  <2>1. CASE t = Base
    <3>1. PICK s : s = <<0>>
      OBVIOUS
    <3>2. DOMAIN s = {1} /\ s[1] = 0
      BY <3>1
    <3>3. meta[t].bloques = s /\ Existe(t)
      BY <1>2, <2>1, <3>1 DEF BaseBien, Existe
    <3>4. Coincide(t, s)
      BY <1>3, <2>1, <3>2 DEF Coincide
    <3>5. Faltan(t, s, {})
      BY <3>2 DEF Faltan
    <3> QED
      BY <3>3, <3>4, <3>5 DEF MetaExacta
  <2>2. CASE t # Base
    <3>1. meta[t] = NoExiste /\ enlaces[t] = SinEnlaces
      BY <2>2 DEF Init, SinEnlaces
    <3>2. DOMAIN <<>> = {}
      OBVIOUS
    <3>3. meta[t].bloques = <<>>
      BY <3>1 DEF NoExiste
    <3> QED
      BY <3>1, <3>2, <3>3 DEF MetaExacta, Coincide, Faltan, SinEnlaces
  <2> QED
    BY <2>1, <2>2
<1>5. EnUso = {0}
  BY <1>3 DEF EnUso, Ligados
<1>6. bitmap = {0} /\ hash[0] = contenido[0] /\ \A w \in Worker : hilo[w] = Ocioso
  BY <1>1 DEF Init
<1>7. ASSUME NEW w \in Worker PROVE EnDisco(hilo[w])
  BY <1>4, <1>5, <1>6 DEF EnDisco
<1> QED
  BY <1>2, <1>7 DEF Firme

\* A restart between requests leaves everything as it was.
LEMMA ReiniciarFirme ==
    ASSUME StorageAssumption, Tipos, UnSolo, Firme, Reiniciar, EnReposo
    PROVE  Firme'
<1>1. PICK w \in Worker : hilo[w] = Ocioso
  BY DEF UnSolo, EnReposo
<1>2. EnDisco(Ocioso) /\ BaseBien
  BY <1>1 DEF Firme
<1>3. Ocioso.paso = "ocioso"
  BY DEF Ocioso
<1>4. Pendiente(Ocioso) = {}
  BY <1>3 DEF Pendiente
<1>5. hilo' = hilo
  <2>1. hilo' = [v \in Worker |-> Ocioso]
    BY DEF Reiniciar
  <2>2. hilo \in [Worker -> EnCurso \cup {Ocioso}]
    BY DEF Tipos, HilosBien
  <2> QED
    BY <2>1, <2>2 DEF EnReposo
<1>6. /\ BitmapEnDisco = {bitmap} /\ IndiceEnDisco = {hash}
      /\ \A v \in Worker, t \in Tag : ~ Guardando(v, t)
  BY DEF BitmapEnDisco, IndiceEnDisco, Guardando, EnReposo, En
<1>7. /\ Existe(Base) /\ Base \in Tag /\ 1 \in Logico /\ enlaces[Base][1] = 0 /\ 0 # Nadie
      /\ meta[Base] = [tam |-> BLOCK_SIZE, estado |-> "COMMITED", bloques |-> <<0>>]
  BY <1>2 DEF BaseBien, Existe, StorageAssumption, Logico
<1>8. /\ bitmap' = bitmap
      /\ enlaces' = [enlaces EXCEPT ![Base][1] = IF @ = Nadie THEN 0 ELSE @]
      /\ hash' = [hash EXCEPT ![0] = contenido[0]]
      /\ meta' = [meta EXCEPT ![Base] =
                     [tam |-> BLOCK_SIZE, estado |-> "COMMITED", bloques |-> <<0>>]]
      /\ dirs' = dirs /\ contenido' = contenido
  <2> DEFINE quedan(vacias) == [t \in Tag |-> IF t \in vacias THEN MetaVacia ELSE meta[t]]
  <2>1. PICK vacias \in SUBSET {t \in Tag : \E v \in Worker : Guardando(v, t)} :
          /\ bitmap' = bitmap
          /\ enlaces' = [enlaces EXCEPT ![Base][1] = IF @ = Nadie THEN 0 ELSE @]
          /\ hash' = [hash EXCEPT ![0] = contenido[0]]
          /\ meta' = [quedan(vacias) EXCEPT ![Base] =
                         [tam |-> BLOCK_SIZE, estado |-> "COMMITED", bloques |-> <<0>>]]
          /\ dirs' = dirs /\ contenido' = contenido
    BY <1>6, <1>7 DEF Reiniciar
  <2>2. vacias = {}
    BY <1>6, <2>1
  <2>3. quedan(vacias) = meta
    BY <2>2 DEF Tipos, MetasBien
  <2> QED
    BY <2>1, <2>3
<1>9. hash' = hash
  <2>1. hash[0] = contenido[0]
    BY <1>2, <1>4 DEF EnDisco, EnUso
  <2>2. hash \in [Bloque -> Valor \cup {Nadie}]
    BY DEF Tipos, HashBien
  <2> QED
    BY <1>8, <2>1, <2>2
<1>10. meta' = meta
  <2>1. meta \in [Tag -> Metadata]
    BY DEF Tipos, MetasBien
  <2> QED
    BY <1>7, <1>8, <2>1
<1>11. enlaces' = enlaces
  <2>1. enlaces \in [Tag -> [Logico -> Bloque \cup {Nadie}]]
    BY BloquesDisco
  <2> QED
    BY <1>7, <1>8, <2>1
<1> QED
  BY <1>5, <1>8, <1>9, <1>10, <1>11, IgualFirme DEF discos

\* Every request that begins.
LEMMA PedidoFirme ==
    ASSUME StorageAssumption, Tipos, UnSolo, Firme, NEW w \in Worker, Pedido(w)
    PROVE  Firme'
<1>1. ASSUME NEW t \in Tag, Crear(w, t) \/ Confirmar(w, t) \/ Reconfirmar(w, t) \/ Borrar(w, t)
      PROVE  Firme'
  BY <1>1, CrearFirme, ConfirmarFirme, ReconfirmarFirme, BorrarFirme
<1>2. ASSUME NEW m, Para(m)
      PROVE  Firme'
  BY <1>2, ParaFirme
<1>3. ASSUME NEW t \in Tag, NEW tam \in Tamanios, Crecer(w, t, tam) \/ Achicar(w, t, tam)
      PROVE  Firme'
  BY <1>3, CrecerFirme, AchicarFirme
<1>4. ASSUME NEW t \in Tag, NEW u \in Tag, Etiquetar(w, t, u)
      PROVE  Firme'
  BY <1>4, EtiquetarFirme
<1>5. ASSUME NEW t \in Tag, NEW i \in Logico, NEW v \in Valor,
             EscribirEnSitio(w, t, i, v) \/ EscribirAparte(w, t, i, v)
      PROVE  Firme'
  BY <1>5, EscribirEnSitioFirme, EscribirAparteFirme
<1>6. ASSUME NEW t \in Tag, \/ CrearEnFile(w, t) \/ LeerVacia(w, t)
                            \/ \E i \in Logico : LeerSinEnlace(w, t, i)
      PROVE  \E m : Para(m)
  BY <1>6 DEF CrearEnFile, LeerVacia, LeerSinEnlace
<1>7. ASSUME NEW t \in Tag, \/ \E tam \in Tamanios : AchicarMal(w, t, tam)
                            \/ \E u \in Tag : EtiquetarMal(w, t, u)
      PROVE  \E m : Para(m)
  BY <1>7 DEF AchicarMal, EtiquetarMal
<1> QED
  BY <1>1, <1>2, <1>3, <1>4, <1>5, <1>6, <1>7 DEF Pedido

\* Every step of one.
LEMMA PasoFirme ==
    ASSUME StorageAssumption, Tipos, UnSolo, Firme, NEW w \in Worker, Paso(w)
    PROVE  Firme'
<1>1. CASE Alargar(w) \/ Marcar(w) \/ Ligar(w)
  BY <1>1, AlargarFirme, MarcarFirme, LigarFirme
<1>2. CASE CompararNulo(w) \/ Buscar(w) \/ Soltar(w) \/ Religar(w)
  BY <1>2, ParaFirme, BuscarFirme, SoltarFirme, ReligarFirme DEF CompararNulo
<1>3. CASE Desligar(w) \/ Liberar(w) \/ Quitar(w)
  BY <1>3, DesligarFirme, LiberarFirme, QuitarFirme
<1>4. CASE Escribir(w)
  BY <1>4, ReservarFirme, EscribirDatosFirme, LeerIndiceFirme, GuardarHashFirme, EnlazarFirme,
     GuardarMetadataFirme DEF Escribir
<1> QED
  BY <1>1, <1>2, <1>3, <1>4 DEF Paso

\* And none is a stop.
LEMMA PasoCortes ==
    ASSUME NEW w \in Worker, Pedido(w) \/ Paso(w)
    PROVE  cortes' = cortes
<1>1. CASE Alargar(w) \/ Marcar(w) \/ Ligar(w)
  BY <1>1 DEF Alargar, Marcar, Ligar, proceso
<1>2. CASE CompararNulo(w) \/ Buscar(w) \/ Soltar(w) \/ Religar(w)
  BY <1>2 DEF CompararNulo, Para, Buscar, Soltar, Religar, proceso
<1>3. CASE Desligar(w) \/ Liberar(w) \/ Quitar(w)
  BY <1>3 DEF Desligar, Liberar, Quitar, proceso
<1>4. CASE Escribir(w)
  BY <1>4 DEF Escribir, Reservar, EscribirDatos, LeerIndice, GuardarHash, TrasIndexar, Enlazar, GuardarMetadata, proceso
<1>5. CASE Pedido(w)
  <2>1. ASSUME NEW t \in Tag, \/ Crear(w, t) \/ CrearEnFile(w, t) \/ LeerVacia(w, t)
                              \/ Confirmar(w, t) \/ Reconfirmar(w, t) \/ Borrar(w, t)
        PROVE  cortes' = cortes
    BY <2>1 DEF Crear, CrearEnFile, LeerVacia, Confirmar, Reconfirmar, Borrar, EnUnPaso, Para, proceso
  <2>2. ASSUME NEW t \in Tag, NEW i \in Logico, LeerSinEnlace(w, t, i)
        PROVE  cortes' = cortes
    BY <2>2 DEF LeerSinEnlace, Para
  <2>3. ASSUME NEW t \in Tag, NEW tam \in Tamanios,
               Crecer(w, t, tam) \/ Achicar(w, t, tam) \/ AchicarMal(w, t, tam)
        PROVE  cortes' = cortes
    BY <2>3 DEF Crecer, Achicar, AchicarMal, Para, proceso
  <2>4. ASSUME NEW t \in Tag, NEW u \in Tag, Etiquetar(w, t, u) \/ EtiquetarMal(w, t, u)
        PROVE  cortes' = cortes
    BY <2>4 DEF Etiquetar, EtiquetarMal, Para, proceso
  <2>5. ASSUME NEW t \in Tag, NEW i \in Logico, NEW v \in Valor,
               EscribirEnSitio(w, t, i, v) \/ EscribirAparte(w, t, i, v)
        PROVE  cortes' = cortes
    BY <2>5 DEF EscribirEnSitio, EscribirAparte, proceso
  <2> QED
    BY <1>5, <2>1, <2>2, <2>3, <2>4, <2>5 DEF Pedido
<1> QED
  BY <1>1, <1>2, <1>3, <1>4, <1>5 DEF Paso

\* The invariant: what is exact between requests, and what each step leaves to be done.
LEMMA ExactoInductivo == ASSUME UnSolo PROVE Spec => []Exacto
<1>1. Init => Exacto
  BY StorageAssumption, InitFirme DEF Exacto
<1>2. Tipos /\ Exacto /\ [Next]_vars => Exacto'
  <2> SUFFICES ASSUME Tipos, Exacto, [Next]_vars, cortes' = 0
               PROVE  Firme'
    BY DEF Exacto
  <2>1. ASSUME NEW w \in Worker, Pedido(w) \/ Paso(w)
        PROVE  Firme'
    <3>1. Firme
      BY <2>1, PasoCortes DEF Exacto
    <3> QED
      BY <2>1, <3>1, StorageAssumption, PedidoFirme, PasoFirme
  <2>2. CASE Reiniciar
    <3>1. cortes \in Nat /\ cortes' = IF EnReposo THEN cortes ELSE cortes + 1
      BY <2>2, StorageAssumption DEF Reiniciar, Tipos, ProcesoBien
    <3>2. EnReposo /\ cortes = 0
      BY <3>1
    <3> QED
      BY <2>2, <3>2, StorageAssumption, ReiniciarFirme DEF Exacto
  <2>3. CASE UNCHANGED vars
    BY <2>3, IgualFirme DEF Exacto, vars, discos
  <2> QED
    BY <2>1, <2>2, <2>3 DEF Next
<1> QED
  BY <1>1, <1>2, StorageInductivo, PTL DEF Spec
-----------------------------------------------------------------------------
(* Between requests.                                                       *)

\* With no request under way nothing is left to be done.
LEMMA TranquiloEs ==
    ASSUME UnSolo, Exacto, Tranquilo
    PROVE  /\ \A t \in Tag : MetaExacta(t)
           /\ \A b \in bitmap : hash[b] = contenido[b]
           /\ bitmap = EnUso
<1>1. PICK w \in Worker : hilo[w] = Ocioso
  BY DEF UnSolo, Tranquilo, EnReposo
<1>2. EnDisco(Ocioso)
  BY <1>1 DEF Exacto, Firme, Tranquilo
<1>3. Ocioso.paso = "ocioso"
  BY DEF Ocioso
<1>4. Pendiente(Ocioso) = {} /\ Sobrante(Ocioso) = {}
  BY <1>3 DEF Pendiente, Sobrante
<1> QED
  BY <1>2, <1>4 DEF EnDisco

\* With one Worker, BLOQUES and the hard links agree on every logical block
\* whenever no request is under way and none was cut: READ and WRITE, COMMIT,
\* TAG and DELETE, which follow one or the other, work on the same block.
THEOREM StorageEnlacesCoinciden == ASSUME UnSolo PROVE Spec => []EnlacesCoinciden
<1>1. Tipos /\ Exacto => EnlacesCoinciden
  <2> SUFFICES ASSUME Tipos, Exacto, Tranquilo, NEW t \in Tag, NEW i \in DOMAIN meta[t].bloques
               PROVE  enlaces[t][i] \in {meta[t].bloques[i], Nadie}
    BY DEF EnlacesCoinciden
  <2>1. Coincide(t, meta[t].bloques)
    BY TranquiloEs DEF MetaExacta
  <2>2. PICK s \in Seq(Bloque) : s = meta[t].bloques /\ Len(s) <= MaxLogicos
    BY StorageAssumption, MetaEs DEF Lista
  <2>3. i \in Logico
    BY <2>2, StorageAssumption DEF Logico, StorageAssumption
  <2> QED
    BY <2>1, <2>3 DEF Coincide
<1> QED
  BY <1>1, StorageInductivo, ExactoInductivo, PTL

\* With one Worker, the bitmap is exact: after any mix of copies,
\* deduplications, deletes and restarts between requests, no block is lost and
\* none that a logical block is linked to may be given to another.
THEOREM StorageBitmapExacto == ASSUME UnSolo PROVE Spec => []BitmapExacto
<1>1. Exacto => BitmapExacto
  BY TranquiloEs DEF BitmapExacto, EnUso, Ligados
<1> QED
  BY <1>1, ExactoInductivo, PTL

\* With one Worker, the hash index tells the contents of every block in use,
\* which is what lets COMMIT merge two blocks without comparing them.
THEOREM StorageHashExacto == ASSUME UnSolo PROVE Spec => []HashExacto
<1>1. Exacto => HashExacto
  BY TranquiloEs DEF HashExacto
<1> QED
  BY <1>1, ExactoInductivo, PTL
-----------------------------------------------------------------------------
(* With one Worker, Storage implements Archivos.                           *)

\* What the names of a list hold.
Datos(s) == [j \in DOMAIN s |-> contenido[s[j]]]

\* A list with more blocks 0.
Alargada(m, s) == \E n \in 0..MaxLogicos : s = m \o [k \in 1..n |-> 0]

\* A list with another block in one place.
Cambiada(m, s) == \E j \in DOMAIN m : \E b \in 0..(Bloques - 1) : s = [m EXCEPT ![j] = b]

\* What the metadata of the request will say when it is saved, next to what it says:
\* that of a TRUNCATE, ...
Alarga(h) ==
    h.copia.estado = meta[h.tag].estado /\ Alargada(meta[h.tag].bloques, h.copia.bloques)

\* ... of a COMMIT, which has changed blocks for others with the same contents, ...
Confirma(h) ==
    /\ h.copia.estado = "COMMITED" /\ meta[h.tag].estado = "WORK_IN_PROGRESS"
    /\ Datos(h.copia.bloques) = Datos(meta[h.tag].bloques)

\* ... or of a WRITE.
Escribe(h) ==
    /\ h.copia.estado = meta[h.tag].estado /\ meta[h.tag].estado = "WORK_IN_PROGRESS"
    /\ Cambiada(meta[h.tag].bloques, h.copia.bloques)

Intencion(h) ==
    LET s == h.copia.bloques
        i == Head(h.faltan)
    IN  /\ h.paso = "marcar" => /\ h.copia.estado = "WORK_IN_PROGRESS"
                                /\ \E o \in Tag \ {h.tag} : Existe(o) /\ meta[o].bloques = s
        /\ h.paso = "alargar" => Alarga(h)
        /\ h.paso \in Deduplicando => Confirma(h)
        /\ h.paso \in {"soltar", "religar"} => contenido[h.bloque] = contenido[s[i]]
        /\ h.paso \in {"reservar", "escribir", "hash", "indexar", "enlazar"} => Escribe(h)
        /\ h.paso = "guardar" => Alarga(h) \/ Confirma(h) \/ Escribe(h)

Reflejo == cortes = 0 => \A w \in Worker : hilo[w] # Ocioso => Intencion(hilo[w])

\* What a file:tag looks like, but for one that TAG has not marked yet.
Foto(t) == [estado |-> meta[t].estado, bloques |-> Datos(meta[t].bloques)]

\* A request of the Workers for t, as Archivos has it.
Hace(t) ==
    \/ Logica!Crea(t) \/ Logica!Confirma(t) \/ Logica!Borra(t)
    \/ \E n \in 1..MaxLogicos : Logica!Crece(t, n)
    \/ \E i \in 1..MaxLogicos, v \in Valor : Logica!Escribe(t, i, v)
    \/ \E origen \in Tag : Logica!Etiqueta(origen, t)

\* The thread w, whose request is the one that it says.
Cumple(w) == hilo[w] # Ocioso => Intencion(hilo[w])

\* What a request is for depends on the metadata and the contents only.
LEMMA IntencionIgual ==
    ASSUME NEW r, meta' = meta, contenido' = contenido, Intencion(r)
    PROVE  Intencion(r)'
BY DEF Intencion, Alarga, Confirma, Escribe, Alargada, Cambiada, Datos, Existe

\* What is seen of t, before a step ...
LEMMA VistaAntes ==
    ASSUME UnSolo, NEW w \in Worker, NEW t \in Tag, En(w, "marcar") => hilo[w].tag # t
    PROVE  Vista[t] = Foto(t)
<1>1. \A v \in Worker : v = w
  BY DEF UnSolo
<1>2. ~ \E v \in Worker : En(v, "marcar") /\ hilo[v].tag = t
  BY <1>1
<1> QED
  BY <1>2 DEF Vista, Foto, Contenidos, Datos

\* ... and after it.
LEMMA VistaLuego ==
    ASSUME UnSolo, NEW w \in Worker, NEW t \in Tag, En(w, "marcar")' => hilo'[w].tag # t
    PROVE  Vista'[t] = Foto(t)'
<1>1. \A v \in Worker : v = w
  BY DEF UnSolo
<1>2. ~ \E v \in Worker : En(v, "marcar")' /\ hilo'[v].tag = t
  BY <1>1
<1> QED
  BY <1>2 DEF Vista, Foto, Contenidos, Datos

\* A file:tag that TAG has not marked yet is not there.
LEMMA VistaMarcando ==
    ASSUME NEW w \in Worker, NEW t \in Tag
    PROVE  /\ En(w, "marcar") /\ hilo[w].tag = t => Vista[t] = [estado |-> "NO", bloques |-> <<>>]
           /\ En(w, "marcar")' /\ hilo'[w].tag = t =>
                Vista'[t] = [estado |-> "NO", bloques |-> <<>>]
BY DEF Vista

\* A step over t changes nothing of the others.
LEMMA OtrasIguales ==
    ASSUME UnSolo, NEW w \in Worker, NEW t \in Tag,
           En(w, "marcar") => hilo[w].tag = t, En(w, "marcar")' => hilo'[w].tag = t,
           \A u \in Tag : u # t => Foto(u)' = Foto(u)
    PROVE  \A u \in Tag : u # t => Vista'[u] = Vista[u]
<1> SUFFICES ASSUME NEW u \in Tag, u # t PROVE Vista'[u] = Vista[u]
  OBVIOUS
<1>1. Vista[u] = Foto(u)
  BY VistaAntes
<1>2. Vista'[u] = Foto(u)'
  BY VistaLuego
<1> QED
  BY <1>1, <1>2

\* It looks the same with the same metadata and contents.
LEMMA FotoIgual ==
    ASSUME NEW u \in Tag, meta'[u] = meta[u],
           \A j \in DOMAIN meta[u].bloques :
              contenido'[meta[u].bloques[j]] = contenido[meta[u].bloques[j]]
    PROVE  Foto(u)' = Foto(u)
<1>1. Datos(meta[u].bloques)' = Datos(meta[u].bloques)
  BY DEF Datos
<1> QED
  BY <1>1 DEF Foto

\* When only t changes.
LEMMA Retoca ==
    ASSUME NEW t \in Tag, \A u \in Tag : u # t => Vista'[u] = Vista[u]
    PROVE  Vista' = [Vista EXCEPT ![t] = Vista'[t]]
<1>1. PICK f, g : f = Vista /\ g = Vista'
  OBVIOUS
<1>2. f = [u \in Tag |-> f[u]] /\ g = [u \in Tag |-> g[u]]
  BY <1>1 DEF Vista
<1>3. g = [f EXCEPT ![t] = g[t]]
  BY <1>1, <1>2
<1> QED
  BY <1>1, <1>3

\* A step over t is one of Archivos or none.
LEMMA Pasa ==
    ASSUME cortes = 0, cortes' = cortes, NEW t \in Tag,
           \A u \in Tag : u # t => Vista'[u] = Vista[u], Vista'[t] = Vista[t] \/ Hace(t)
    PROVE  [Logica!Next]_(Logica!vars)
<1>1. CASE Vista'[t] = Vista[t]
  <2>1. PICK f, g : f = Vista /\ g = Vista'
    OBVIOUS
  <2>2. f = [u \in Tag |-> f[u]] /\ g = [u \in Tag |-> g[u]]
    BY <2>1 DEF Vista
  <2>3. \A u \in Tag : g[u] = f[u]
    BY <1>1, <2>1
  <2>4. g = f
    BY <2>2, <2>3
  <2> QED
    BY <2>1, <2>4 DEF Logica!vars
<1>2. CASE Vista'[t] # Vista[t]
  <2>1. Logica!Pide(t)
    BY <1>2 DEF Hace, Logica!Pide
  <2>2. ~ (cortes > 0)
    OBVIOUS
  <2> QED
    BY <2>1, <2>2 DEF Logica!Next
<1> QED
  BY <1>1, <1>2

\* A step of a request that the Workers do not see.
LEMMA Callado ==
    ASSUME StorageAssumption, Tipos, UnSolo, cortes = 0, cortes' = cortes, NEW w \in Worker, NEW r,
           hilo' = [hilo EXCEPT ![w] = r], meta' = meta, contenido' = contenido,
           ~ En(w, "marcar"), r = Ocioso \/ (r.paso # "marcar" /\ Intencion(r))
    PROVE  Cumple(w)' /\ [Logica!Next]_(Logica!vars)
<1>1. hilo'[w] = r
  BY DEF Tipos, HilosBien
<1>2. Cumple(w)'
  BY <1>1, IntencionIgual DEF Cumple
<1>3. ~ En(w, "marcar")'
  BY <1>1 DEF En
<1>4. \A u \in Tag : Foto(u)' = Foto(u)
  BY FotoIgual
<1>5. ASSUME NEW u \in Tag PROVE Vista'[u] = Vista[u]
  <2>1. Vista[u] = Foto(u)
    BY VistaAntes
  <2>2. Vista'[u] = Foto(u)'
    BY <1>3, VistaLuego
  <2> QED
    BY <1>4, <2>1, <2>2
<1>6. [Logica!Next]_(Logica!vars)
  <2>1. Base \in Tag /\ Vista'[Base] = Vista[Base]
    BY <1>5 DEF StorageAssumption
  <2> QED
    BY <1>5, <2>1, Pasa
<1> QED
  BY <1>2, <1>6

\* Storage stops by itself.
LEMMA ParaRefleja ==
    ASSUME StorageAssumption, Tipos, UnSolo, cortes = 0, NEW w \in Worker, Atiende(w), NEW m,
           Para(m)
    PROVE  Cumple(w)' /\ [Logica!Next]_(Logica!vars)
<1>1. meta' = meta /\ contenido' = contenido /\ hilo' = hilo /\ cortes' = cortes
  BY DEF Para, discos
<1>2. hilo' = [hilo EXCEPT ![w] = Ocioso]
  BY <1>1 DEF Atiende, Tipos, HilosBien
<1>3. ~ En(w, "marcar")
  BY DEF Atiende, En
<1> QED
  BY <1>1, <1>2, <1>3, Callado

\* A request that begins, and has changed nothing.
LEMMA ComienzaRefleja ==
    ASSUME StorageAssumption, Tipos, UnSolo, cortes = 0, NEW w \in Worker, Atiende(w), NEW r,
           hilo' = [hilo EXCEPT ![w] = r], UNCHANGED discos, UNCHANGED proceso,
           r.paso # "marcar", Intencion(r)
    PROVE  Cumple(w)' /\ [Logica!Next]_(Logica!vars)
<1>1. meta' = meta /\ contenido' = contenido /\ cortes' = cortes
  BY DEF discos, proceso
<1>2. ~ En(w, "marcar")
  BY DEF Atiende, En
<1> QED
  BY <1>1, <1>2, Callado

\* No block is added.
LEMMA AlargadaNada ==
    ASSUME StorageAssumption, NEW m \in Seq(Bloque)
    PROVE  Alargada(m, m)
<1>1. m = m \o [k \in 1..0 |-> 0] /\ 0 \in 0..MaxLogicos
  <2>1. [k \in 1..0 |-> 0] = <<>>
    OBVIOUS
  <2>2. m \o <<>> = m
    OBVIOUS
  <2> QED
    BY <2>1, <2>2 DEF StorageAssumption
<1> QED
  BY <1>1 DEF Alargada

\* TRUNCATE.
LEMMA CrecerRefleja ==
    ASSUME StorageAssumption, Tipos, UnSolo, cortes = 0, NEW w \in Worker, NEW t \in Tag,
           NEW tam \in Tamanios, Crecer(w, t, tam)
    PROVE  Cumple(w)' /\ [Logica!Next]_(Logica!vars)
<1>1. PICK n, ls : n = (tam - meta[t].tam) \div BLOCK_SIZE
                   /\ ls = [k \in 1..n |-> meta[t].tam \div BLOCK_SIZE + 1 + k - 1]
  OBVIOUS
<1>2. PICK p : p = IF n = 0 THEN "guardar" ELSE "alargar"
  OBVIOUS
<1>3. PICK c : c = [meta[t] EXCEPT !.tam = tam, !.bloques = @ \o [i \in 1..n |-> 0]]
  OBVIOUS
<1>4. /\ Atiende(w) /\ tam >= meta[t].tam /\ UNCHANGED discos /\ UNCHANGED proceso
      /\ Len(meta[t].bloques) + n <= MaxLogicos /\ Empieza(w, p, t, ls, c)
  BY <1>1, <1>2, <1>3 DEF Crecer
<1>5. PICK r : r = [paso |-> p, tag |-> t, faltan |-> ls, copia |-> c, indice |-> <<>>,
                    valor |-> Nadie, bloque |-> Nadie, nuevo |-> FALSE]
  OBVIOUS
<1>6. hilo' = [hilo EXCEPT ![w] = r]
  BY <1>4, <1>5 DEF Empieza
<1>7. r.paso \in {"guardar", "alargar"} /\ r.tag = t /\ r.copia = c
  BY <1>2, <1>5
<1>8. meta[t] \in Metadata /\ meta[t].bloques \in Lista(Bloque)
      /\ meta[t].tam \in Tamanios \cup {0, BLOCK_SIZE}
  BY MetaEs
<1>9. n \in Nat
  <2>1. meta[t].tam \in Nat /\ tam \in Nat /\ BLOCK_SIZE \in Nat \ {0}
    BY <1>8, TamanioCota DEF StorageAssumption
  <2>2. tam - meta[t].tam \in Nat
    BY <1>4, <2>1
  <2> QED
    BY <1>1, <2>1, <2>2, DivSuma
<1>10. n \in 0..MaxLogicos
  <2>1. PICK N \in Nat : N = Len(meta[t].bloques)
    BY <1>8 DEF Lista
  <2> QED
    BY <1>4, <1>9, <2>1 DEF StorageAssumption
<1>11. c.bloques = meta[t].bloques \o [i \in 1..n |-> 0] /\ c.estado = meta[t].estado
  BY <1>3, <1>8 DEF Metadata
<1>12. Alarga(r)
  BY <1>7, <1>10, <1>11 DEF Alarga, Alargada
<1>13. Intencion(r)
  BY <1>7, <1>12 DEF Intencion, Deduplicando
<1>14. r.paso # "marcar"
  BY <1>7
<1> QED
  BY <1>4, <1>6, <1>13, <1>14, ComienzaRefleja

\* TRUNCATE to a smaller size.
LEMMA AchicarRefleja ==
    ASSUME StorageAssumption, Tipos, UnSolo, cortes = 0, NEW w \in Worker, NEW t \in Tag,
           NEW tam \in Tamanios, Achicar(w, t, tam)
    PROVE  Cumple(w)' /\ [Logica!Next]_(Logica!vars)
<1>1. PICK c : c = [meta[t] EXCEPT !.tam = tam]
  OBVIOUS
<1>2. /\ Atiende(w) /\ UNCHANGED discos /\ UNCHANGED proceso
      /\ Empieza(w, "guardar", t, <<>>, c)
  BY <1>1 DEF Achicar
<1>3. PICK r : r = [paso |-> "guardar", tag |-> t, faltan |-> <<>>, copia |-> c, indice |-> <<>>,
                    valor |-> Nadie, bloque |-> Nadie, nuevo |-> FALSE]
  OBVIOUS
<1>4. hilo' = [hilo EXCEPT ![w] = r]
  BY <1>2, <1>3 DEF Empieza
<1>5. r.paso = "guardar" /\ r.tag = t /\ r.copia = c /\ r.paso # "marcar"
  BY <1>3
<1>6. meta[t] \in Metadata /\ meta[t].bloques \in Seq(Bloque)
  BY MetaEs DEF Lista
<1>7. c.bloques = meta[t].bloques /\ c.estado = meta[t].estado
  BY <1>1, <1>6 DEF Metadata
<1>8. Alarga(r)
  BY <1>5, <1>6, <1>7, AlargadaNada DEF Alarga
<1>9. Intencion(r)
  BY <1>5, <1>8 DEF Intencion, Deduplicando
<1> QED
  BY <1>2, <1>4, <1>5, <1>9, ComienzaRefleja

\* DELETE.
LEMMA BorrarRefleja ==
    ASSUME StorageAssumption, Tipos, UnSolo, cortes = 0, NEW w \in Worker, NEW t \in Tag,
           Borrar(w, t)
    PROVE  Cumple(w)' /\ [Logica!Next]_(Logica!vars)
<1>1. PICK p, c : p = (IF meta[t].bloques = <<>> THEN "quitar" ELSE "desligar") /\ c = meta[t]
  OBVIOUS
<1>2. /\ Atiende(w) /\ Empieza(w, p, t, Indices(c), c) /\ UNCHANGED discos /\ UNCHANGED proceso
  BY <1>1 DEF Borrar
<1>3. PICK r : r = [paso |-> p, tag |-> t, faltan |-> Indices(c), copia |-> c,
                    indice |-> <<>>, valor |-> Nadie, bloque |-> Nadie, nuevo |-> FALSE]
  OBVIOUS
<1>4. hilo' = [hilo EXCEPT ![w] = r]
  BY <1>2, <1>3 DEF Empieza
<1>5. r.paso \in {"quitar", "desligar"}
  BY <1>1, <1>3
<1>6. Intencion(r) /\ r.paso # "marcar"
  BY <1>5 DEF Intencion, Deduplicando
<1> QED
  BY <1>2, <1>4, <1>6, ComienzaRefleja

\* COMMIT.
LEMMA ConfirmarRefleja ==
    ASSUME StorageAssumption, Tipos, UnSolo, cortes = 0, NEW w \in Worker, NEW t \in Tag,
           Confirmar(w, t)
    PROVE  Cumple(w)' /\ [Logica!Next]_(Logica!vars)
<1>1. PICK p, c : /\ p = (IF meta[t].bloques = <<>> THEN "guardar" ELSE "buscar")
                  /\ c = [meta[t] EXCEPT !.estado = "COMMITED"]
  OBVIOUS
<1>2. PICK r : r = [paso |-> p, tag |-> t, faltan |-> Indices(meta[t]), copia |-> c,
                    indice |-> hash, valor |-> Nadie, bloque |-> Nadie, nuevo |-> FALSE]
  OBVIOUS
<1>3. /\ Atiende(w) /\ meta[t].estado = "WORK_IN_PROGRESS" /\ UNCHANGED discos
      /\ UNCHANGED proceso /\ hilo' = [hilo EXCEPT ![w] = r]
  BY <1>1, <1>2, IndiceSolo DEF Confirmar
<1>4. r.paso \in {"guardar", "buscar"} /\ r.tag = t /\ r.copia = c
  BY <1>1, <1>2
<1>5. meta[t] \in Metadata
  BY MetaEs
<1>6. c.bloques = meta[t].bloques /\ c.estado = "COMMITED"
  BY <1>1, <1>5 DEF Metadata
<1>7. Confirma(r)
  BY <1>3, <1>4, <1>6 DEF Confirma
<1>8. Intencion(r) /\ r.paso # "marcar"
  BY <1>4, <1>7 DEF Intencion, Deduplicando
<1> QED
  BY <1>3, <1>4, <1>8, ComienzaRefleja

\* A COMMIT that is refused.
LEMMA ReconfirmarRefleja ==
    ASSUME StorageAssumption, Tipos, UnSolo, cortes = 0, NEW w \in Worker, NEW t \in Tag,
           Reconfirmar(w, t)
    PROVE  Cumple(w)' /\ [Logica!Next]_(Logica!vars)
<1>1. PICK r : r = [paso |-> "guardar", tag |-> t, faltan |-> <<>>, copia |-> meta[t],
                    indice |-> <<>>, valor |-> Nadie, bloque |-> Nadie, nuevo |-> FALSE]
  OBVIOUS
<1>2. /\ Atiende(w) /\ UNCHANGED discos /\ UNCHANGED proceso
      /\ hilo' = [hilo EXCEPT ![w] = r]
  BY <1>1 DEF Reconfirmar, Empieza
<1>3. r.paso = "guardar" /\ r.tag = t /\ r.copia = meta[t] /\ r.paso # "marcar"
  BY <1>1
<1>4. meta[t].bloques \in Seq(Bloque)
  BY MetaEs DEF Lista
<1>5. Alarga(r)
  BY <1>3, <1>4, AlargadaNada DEF Alarga
<1>6. Intencion(r)
  BY <1>3, <1>5 DEF Intencion, Deduplicando
<1> QED
  BY <1>2, <1>3, <1>6, ComienzaRefleja

\* WRITE.
LEMMA EscribirRefleja ==
    ASSUME StorageAssumption, Tipos, UnSolo, cortes = 0, NEW w \in Worker, NEW t \in Tag,
           NEW i \in Logico, NEW v \in Valor, NEW p \in {"escribir", "reservar"},
           NEW b \in Bloque, NEW nuevo, Atiende(w), Escribible(t, i),
           EmpiezaEscritura(w, p, t, i, v, b, nuevo), UNCHANGED discos, UNCHANGED proceso
    PROVE  Cumple(w)' /\ [Logica!Next]_(Logica!vars)
<1>1. PICK c : c = [meta[t] EXCEPT !.bloques[i] = b]
  OBVIOUS
<1>2. PICK r : r = [paso |-> p, tag |-> t, faltan |-> <<i>>, copia |-> c,
                    indice |-> <<>>, valor |-> v, bloque |-> b, nuevo |-> nuevo]
  OBVIOUS
<1>3. hilo' = [hilo EXCEPT ![w] = r]
  BY <1>1, <1>2 DEF EmpiezaEscritura
<1>4. r.paso \in {"escribir", "reservar"} /\ r.tag = t /\ r.copia = c
  BY <1>2
<1>5. meta[t] \in Metadata
  BY MetaEs
<1>6. c.bloques = [meta[t].bloques EXCEPT ![i] = b] /\ c.estado = meta[t].estado
  BY <1>1, <1>5 DEF Metadata
<1>7. b \in 0..(Bloques - 1) /\ i \in DOMAIN meta[t].bloques
      /\ meta[t].estado = "WORK_IN_PROGRESS"
  BY DEF Bloque, UnSolo, Escribible
<1>8. Escribe(r)
  BY <1>4, <1>6, <1>7 DEF Escribe, Cambiada
<1>9. Intencion(r) /\ r.paso # "marcar"
  BY <1>4, <1>8 DEF Intencion, Deduplicando
<1> QED
  BY <1>3, <1>9, ComienzaRefleja

\* The request that a step goes on with, and what it is for.
LEMMA EnReflejo ==
    ASSUME StorageAssumption, Tipos, NEW w \in Worker, NEW p, En(w, p), Cumple(w), NEW h,
           h = hilo[w]
    PROVE  /\ h.paso = p /\ h \in EnCurso /\ h.tag \in Tag /\ h.faltan \in Seq(Logico)
           /\ h.copia \in Metadata /\ h.copia.bloques \in Seq(Bloque) /\ Intencion(h)
           /\ p \in ConFaltan => h.faltan # <<>> /\ Head(h.faltan) \in Logico
           /\ p \in ConFaltan /\ p \in PorBloques => Head(h.faltan) \in DOMAIN h.copia.bloques
           /\ hilo \in [Worker -> EnCurso \cup {Ocioso}]
<1>1. /\ h.paso = p /\ TareaBien(h, dirs, ConHash) /\ h # Ocioso
      /\ hilo \in [Worker -> EnCurso \cup {Ocioso}]
  BY EnTarea DEF En
<1>2. /\ h \in EnCurso /\ h.tag \in Tag /\ h.copia.bloques \in Lista(Bloque) /\ h.copia \in Metadata
      /\ p \in ConFaltan => h.faltan # <<>> /\ Head(h.faltan) \in Logico
      /\ p \in ConFaltan /\ p \in PorBloques => Head(h.faltan) \in DOMAIN h.copia.bloques
  BY <1>1, CopiaEs, BloquesDisco
<1>3. Intencion(h)
  BY <1>1 DEF Cumple
<1> QED
  BY <1>1, <1>2, <1>3 DEF EnCurso, Lista

\* What a request is for does not change while it goes on with the same copy.
LEMMA MismaCopia ==
    ASSUME NEW h, NEW r, r.tag = h.tag, r.copia = h.copia
    PROVE  (Alarga(h) => Alarga(r)) /\ (Confirma(h) => Confirma(r)) /\ (Escribe(h) => Escribe(r))
BY DEF Alarga, Confirma, Escribe

\* On to another step of the same request.
LEMMA SigueEs ==
    ASSUME NEW w \in Worker, hilo \in [Worker -> EnCurso \cup {Ocioso}], hilo[w] \in EnCurso,
           NEW p, Sigue(w, p), NEW r, r = [hilo[w] EXCEPT !.paso = p]
    PROVE  /\ hilo' = [hilo EXCEPT ![w] = r] /\ r.paso = p
           /\ r.tag = hilo[w].tag /\ r.copia = hilo[w].copia /\ r.bloque = hilo[w].bloque
           /\ r.faltan = hilo[w].faltan
<1>1. hilo' = [hilo EXCEPT ![w] = r]
  BY DEF Sigue
<1>2. PICK h \in EnCurso : h = hilo[w]
  OBVIOUS
<1>3. /\ r.paso = p /\ r.tag = h.tag /\ r.copia = h.copia /\ r.bloque = h.bloque
      /\ r.faltan = h.faltan
  BY <1>2 DEF EnCurso
<1> QED
  BY <1>1, <1>2, <1>3

\* TRUNCATE: a new name is linked.
LEMMA AlargarRefleja ==
    ASSUME StorageAssumption, Tipos, UnSolo, cortes = 0, NEW w \in Worker, Cumple(w), Alargar(w)
    PROVE  Cumple(w)' /\ [Logica!Next]_(Logica!vars)
<1>1. PICK h, r : h = hilo[w] /\ r = Avanza(h, "alargar", "guardar")
  OBVIOUS
<1>2. /\ En(w, "alargar") /\ meta' = meta /\ contenido' = contenido /\ cortes' = cortes
      /\ hilo' = [hilo EXCEPT ![w] = r]
  BY <1>1 DEF Alargar, proceso
<1>3. h.paso = "alargar" /\ h \in EnCurso /\ Intencion(h) /\ h.faltan # <<>>
  BY <1>1, <1>2, EnReflejo DEF ConFaltan
<1>4. r.paso \in {"alargar", "guardar"} /\ r.tag = h.tag /\ r.copia = h.copia
  <2>1. "alargar" \in Pasos /\ "guardar" \in Pasos
    BY DEF Pasos
  <2>2. r.paso = (IF Len(h.faltan) = 1 THEN "guardar" ELSE "alargar")
        /\ r.tag = h.tag /\ r.copia = h.copia
    BY <1>1, <1>3, <2>1, AvanzaEs
  <2> QED
    BY <2>2
<1>5. Alarga(r)
  BY <1>3, <1>4, MismaCopia DEF Intencion
<1>6. Intencion(r) /\ r.paso # "marcar" /\ ~ En(w, "marcar")
  BY <1>2, <1>4, <1>5 DEF Intencion, Deduplicando, En
<1> QED
  BY <1>2, <1>6, Callado

\* TAG: one more name of the copy is linked.
LEMMA LigarRefleja ==
    ASSUME StorageAssumption, Tipos, UnSolo, cortes = 0, NEW w \in Worker, Cumple(w), Ligar(w)
    PROVE  Cumple(w)' /\ [Logica!Next]_(Logica!vars)
<1>1. PICK h, r : h = hilo[w]
                  /\ r = IF Len(h.faltan) = 1 THEN Ocioso ELSE [h EXCEPT !.faltan = Tail(h.faltan)]
  OBVIOUS
<1>2. /\ En(w, "ligar") /\ meta' = meta /\ contenido' = contenido /\ cortes' = cortes
  BY DEF Ligar, proceso
<1>3. h.paso = "ligar" /\ h \in EnCurso /\ hilo \in [Worker -> EnCurso \cup {Ocioso}]
  BY <1>1, <1>2, EnReflejo
<1>4. hilo' = [hilo EXCEPT ![w] = r]
  BY <1>1, <1>3 DEF Ligar, Termina
<1>5. r = Ocioso \/ r.paso = "ligar"
  BY <1>1, <1>3 DEF EnCurso
<1>6. r = Ocioso \/ (r.paso # "marcar" /\ Intencion(r))
  BY <1>5 DEF Intencion, Deduplicando
<1>7. ~ En(w, "marcar")
  BY <1>2 DEF En
<1> QED
  BY <1>2, <1>4, <1>6, <1>7, Callado

\* COMMIT: the block that is left is freed if nothing is linked to it.
LEMMA SoltarRefleja ==
    ASSUME StorageAssumption, Tipos, UnSolo, cortes = 0, NEW w \in Worker, Cumple(w), Soltar(w)
    PROVE  Cumple(w)' /\ [Logica!Next]_(Logica!vars)
<1>1. PICK h, r : h = hilo[w] /\ r = [h EXCEPT !.paso = "religar"]
  OBVIOUS
<1>2. /\ En(w, "soltar") /\ meta' = meta /\ contenido' = contenido /\ cortes' = cortes
      /\ Sigue(w, "religar")
  BY DEF Soltar, proceso
<1>3. /\ h.paso = "soltar" /\ h \in EnCurso /\ Intencion(h)
      /\ hilo \in [Worker -> EnCurso \cup {Ocioso}]
  BY <1>1, <1>2, EnReflejo
<1>4. /\ hilo' = [hilo EXCEPT ![w] = r] /\ r.paso = "religar" /\ r.tag = h.tag
      /\ r.copia = h.copia /\ r.bloque = h.bloque /\ r.faltan = h.faltan
  BY <1>1, <1>2, <1>3, SigueEs
<1>5. Confirma(r) /\ contenido[r.bloque] = contenido[r.copia.bloques[Head(r.faltan)]]
  BY <1>3, <1>4, MismaCopia DEF Intencion, Deduplicando
<1>6. Intencion(r) /\ r.paso # "marcar" /\ ~ En(w, "marcar")
  BY <1>2, <1>4, <1>5 DEF Intencion, Deduplicando, En
<1> QED
  BY <1>2, <1>4, <1>6, Callado

\* DELETE: a name is removed.
LEMMA DesligarRefleja ==
    ASSUME StorageAssumption, Tipos, UnSolo, cortes = 0, NEW w \in Worker, Cumple(w), Desligar(w)
    PROVE  Cumple(w)' /\ [Logica!Next]_(Logica!vars)
<1>1. PICK h, q, r : /\ h = hilo[w] /\ q = Avanza(h, "desligar", "liberar")
                     /\ r = IF q.paso = "liberar" THEN [q EXCEPT !.faltan = Indices(h.copia)] ELSE q
  OBVIOUS
<1>2. /\ En(w, "desligar") /\ meta' = meta /\ contenido' = contenido /\ cortes' = cortes
      /\ hilo' = [hilo EXCEPT ![w] = r]
  BY <1>1 DEF Desligar, proceso
<1>3. h \in EnCurso /\ h.faltan # <<>>
  BY <1>1, <1>2, EnReflejo DEF ConFaltan
<1>4. q \in EnCurso /\ q.paso \in {"desligar", "liberar"}
  <2>1. "desligar" \in Pasos /\ "liberar" \in Pasos
    BY DEF Pasos
  <2> QED
    BY <1>1, <1>3, <2>1, AvanzaA
<1>5. r.paso \in {"desligar", "liberar"}
  BY <1>1, <1>4 DEF EnCurso
<1>6. Intencion(r) /\ r.paso # "marcar" /\ ~ En(w, "marcar")
  BY <1>2, <1>5 DEF Intencion, Deduplicando, En
<1> QED
  BY <1>2, <1>6, Callado

\* DELETE: a block is freed if nothing is linked to it.
LEMMA LiberarRefleja ==
    ASSUME StorageAssumption, Tipos, UnSolo, cortes = 0, NEW w \in Worker, Cumple(w), Liberar(w)
    PROVE  Cumple(w)' /\ [Logica!Next]_(Logica!vars)
<1>1. PICK h, r : h = hilo[w] /\ r = Avanza(h, "liberar", "quitar")
  OBVIOUS
<1>2. /\ En(w, "liberar") /\ meta' = meta /\ contenido' = contenido /\ cortes' = cortes
      /\ hilo' = [hilo EXCEPT ![w] = r]
  BY <1>1 DEF Liberar, proceso
<1>3. h \in EnCurso /\ h.faltan # <<>>
  BY <1>1, <1>2, EnReflejo DEF ConFaltan
<1>4. r.paso \in {"liberar", "quitar"}
  <2>1. "liberar" \in Pasos /\ "quitar" \in Pasos
    BY DEF Pasos
  <2> QED
    BY <1>1, <1>3, <2>1, AvanzaA
<1>5. Intencion(r) /\ r.paso # "marcar" /\ ~ En(w, "marcar")
  BY <1>2, <1>4 DEF Intencion, Deduplicando, En
<1> QED
  BY <1>2, <1>5, Callado

\* WRITE: a step that goes on to another, before the copy of the metadata is saved.
LEMMA EscribiendoRefleja ==
    ASSUME StorageAssumption, Tipos, UnSolo, cortes = 0, NEW w \in Worker, Cumple(w),
           NEW p \in {"reservar", "hash", "indexar", "enlazar"}, En(w, p),
           NEW d \in {"escribir", "indexar", "enlazar", "guardar"}, NEW x,
           hilo' = [hilo EXCEPT ![w] = [@ EXCEPT !.indice = x, !.paso = d]], meta' = meta,
           contenido' = contenido, cortes' = cortes
    PROVE  Cumple(w)' /\ [Logica!Next]_(Logica!vars)
<1>1. PICK h, r : h = hilo[w] /\ r = [h EXCEPT !.indice = x, !.paso = d]
  OBVIOUS
<1>2. h.paso = p /\ h \in EnCurso /\ Intencion(h) /\ hilo \in [Worker -> EnCurso \cup {Ocioso}]
  BY <1>1, EnReflejo
<1>3. hilo' = [hilo EXCEPT ![w] = r] /\ r.paso = d /\ r.tag = h.tag /\ r.copia = h.copia
  BY <1>1, <1>2 DEF EnCurso
<1>4. Escribe(r)
  BY <1>2, <1>3, MismaCopia DEF Intencion
<1>5. Intencion(r) /\ r.paso # "marcar" /\ ~ En(w, "marcar")
  BY <1>3, <1>4 DEF Intencion, Deduplicando, En
<1> QED
  BY <1>3, <1>5, Callado

\* A step that keeps its copy of the index is one that writes the same.
LEMMA SigueIgual ==
    ASSUME StorageAssumption, Tipos, NEW w \in Worker, NEW p, En(w, p), NEW d, Sigue(w, d)
    PROVE  \E x : hilo' = [hilo EXCEPT ![w] = [@ EXCEPT !.indice = x, !.paso = d]]
<1>1. hilo[w] \in EnCurso
  BY DEF En, Tipos, HilosBien
<1>2. [hilo[w] EXCEPT !.indice = hilo[w].indice, !.paso = d] = [hilo[w] EXCEPT !.paso = d]
  BY <1>1 DEF EnCurso
<1>3. hilo' = [hilo EXCEPT ![w] = [@ EXCEPT !.indice = hilo[w].indice, !.paso = d]]
  BY <1>2 DEF Sigue
<1> QED
  BY <1>3

\* A COMMIT that stops Storage.
LEMMA CompararNuloRefleja ==
    ASSUME StorageAssumption, Tipos, UnSolo, cortes = 0, NEW w \in Worker, Cumple(w),
           CompararNulo(w)
    PROVE  Cumple(w)' /\ [Logica!Next]_(Logica!vars)
<1>1. PICK h : h = hilo[w]
  OBVIOUS
<1>2. /\ En(w, "buscar") /\ hilo' = hilo /\ meta' = meta /\ contenido' = contenido
      /\ cortes' = cortes
  BY DEF CompararNulo, Para, discos
<1>3. h.paso = "buscar" /\ Intencion(h) /\ hilo \in [Worker -> EnCurso \cup {Ocioso}]
  BY <1>1, <1>2, EnReflejo
<1>4. hilo' = [hilo EXCEPT ![w] = h] /\ h.paso # "marcar" /\ ~ En(w, "marcar")
  BY <1>1, <1>2, <1>3 DEF En
<1> QED
  BY <1>2, <1>3, <1>4, Callado

\* A block that a list names is in use.
LEMMA NombradoEnUso ==
    ASSUME NEW t \in Tag, NEW s, NEW i \in DOMAIN s, i \in Logico, Coincide(t, s), Faltan(t, s, {})
    PROVE  s[i] \in EnUso
<1>1. CASE enlaces[t][i] = Nadie
  BY <1>1 DEF Faltan, EnUso
<1>2. CASE enlaces[t][i] # Nadie
  BY <1>2 DEF Coincide, EnUso, Ligados
<1> QED
  BY <1>1, <1>2

\* COMMIT: a name leaves its block for another with the same contents, if there is one.
LEMMA BuscarRefleja ==
    ASSUME StorageAssumption, Tipos, UnSolo, Firme, cortes = 0, NEW w \in Worker, Cumple(w),
           Buscar(w)
    PROVE  Cumple(w)' /\ [Logica!Next]_(Logica!vars)
<1>1. PICK h : h = hilo[w]
  OBVIOUS
<1>2. /\ En(w, "buscar") /\ meta' = meta /\ contenido' = contenido /\ cortes' = cortes
      /\ ~ En(w, "marcar")
  BY DEF Buscar, proceso, En
<1>3. "buscar" \in ConFaltan /\ "buscar" \in PorBloques /\ "buscar" \in Deduplicando
  BY DEF ConFaltan, PorBloques, Deduplicando
<1>4. PICK t \in Tag, s \in Seq(Bloque), i \in Logico :
        t = h.tag /\ i = Head(h.faltan) /\ s = h.copia.bloques /\ i \in DOMAIN s
  BY <1>1, <1>2, <1>3, EnReflejo
<1>5. /\ h.paso = "buscar" /\ h \in EnCurso /\ h.faltan # <<>> /\ Intencion(h)
      /\ hilo \in [Worker -> EnCurso \cup {Ocioso}]
  BY <1>1, <1>2, <1>3, EnReflejo
<1>6. Confirma(h)
  BY <1>3, <1>5 DEF Intencion
<1>7. PICK dups : dups = Duplicados(s[i], h.indice)
  OBVIOUS
<1>8. CASE dups = {}
  <2>1. PICK r : r = Avanza(h, "buscar", "guardar")
    OBVIOUS
  <2>2. hilo' = [hilo EXCEPT ![w] = r]
    BY <1>1, <1>4, <1>7, <1>8, <2>1 DEF Buscar
  <2>3. r.paso \in {"buscar", "guardar"} /\ r.tag = t /\ r.copia = h.copia
    <3>1. "buscar" \in Pasos /\ "guardar" \in Pasos
      BY DEF Pasos
    <3> QED
      BY <1>4, <1>5, <2>1, <3>1, AvanzaA
  <2>4. Confirma(r)
    BY <1>4, <1>6, <2>3, MismaCopia
  <2>5. Intencion(r) /\ r.paso # "marcar"
    BY <2>3, <2>4 DEF Intencion, Deduplicando
  <2> QED
    BY <1>2, <2>2, <2>5, Callado
<1>9. CASE dups # {}
  <2>1. PICK k, p : k = Primero(dups) /\ p = IF enlaces[t][i] = Nadie THEN "religar" ELSE "soltar"
    OBVIOUS
  <2>2. k \in dups
    <3>1. dups \subseteq bitmap /\ bitmap \subseteq Nat
      BY <1>7, BloquesDisco DEF Duplicados, Bloque
    <3> QED
      BY <1>9, <2>1, <3>1, PrimeroEs
  <2>3. k \in bitmap /\ h.indice[k] = h.indice[s[i]]
    BY <1>7, <2>2 DEF Duplicados
  <2>4. PICK r : r = [h EXCEPT !.bloque = k, !.paso = p]
    OBVIOUS
  <2>5. hilo' = [hilo EXCEPT ![w] = r]
    <3>1. hilo' = [hilo EXCEPT ![w].bloque = k, ![w].paso = p]
      BY <1>1, <1>4, <1>7, <1>9, <2>1 DEF Buscar
    <3> QED
      BY <1>1, <1>5, <2>4, <3>1
  <2>6. /\ r.paso = p /\ r.bloque = k /\ r.tag = t /\ r.copia = h.copia /\ r.faltan = h.faltan
        /\ p \in {"soltar", "religar"}
    BY <1>4, <1>5, <2>1, <2>4 DEF EnCurso
  <2>7. h.indice = hash /\ Coincide(t, s) /\ Faltan(t, s, {})
    <3>1. TareaExacta(h)
      BY <1>1, <1>2, EnFirme
    <3> QED
      BY <1>3, <1>4, <1>5, <3>1 DEF TareaExacta
  <2>8. s[i] \in bitmap /\ \A b \in bitmap : hash[b] = contenido[b]
    <3>1. EnUso \subseteq bitmap /\ \A b \in bitmap : b \in Pendiente(h) \/ hash[b] = contenido[b]
      BY <1>1, <1>2, EnFirme
    <3>2. Pendiente(h) = {}
      BY <1>5 DEF Pendiente
    <3>3. s[i] \in EnUso
      BY <1>4, <2>7, NombradoEnUso
    <3> QED
      BY <3>1, <3>2, <3>3
  <2>9. contenido[k] = contenido[s[i]]
    BY <2>3, <2>7, <2>8
  <2>10. Confirma(r)
    BY <1>4, <1>6, <2>6, MismaCopia
  <2>11. contenido[r.bloque] = contenido[r.copia.bloques[Head(r.faltan)]]
    BY <1>4, <2>6, <2>9
  <2>12. Intencion(r) /\ r.paso # "marcar"
    BY <2>6, <2>10, <2>11 DEF Intencion, Deduplicando
  <2> QED
    BY <1>2, <2>5, <2>12, Callado
<1> QED
  BY <1>8, <1>9

\* A block for another with the same contents.
LEMMA DatosIguales ==
    ASSUME NEW s, NEW i \in DOMAIN s, NEW b, contenido[b] = contenido[s[i]]
    PROVE  Datos([s EXCEPT ![i] = b]) = Datos(s)
<1>1. PICK z : z = [s EXCEPT ![i] = b]
  OBVIOUS
<1>2. DOMAIN z = DOMAIN s /\ \A j \in DOMAIN s : z[j] = IF j = i THEN b ELSE s[j]
  BY <1>1
<1>3. \A j \in DOMAIN s : contenido[z[j]] = contenido[s[j]]
  BY <1>2
<1> QED
  BY <1>1, <1>2, <1>3 DEF Datos

\* COMMIT: the name is linked to the block with the same contents.
LEMMA ReligarRefleja ==
    ASSUME StorageAssumption, Tipos, UnSolo, Firme, cortes = 0, NEW w \in Worker, Cumple(w),
           Religar(w)
    PROVE  Cumple(w)' /\ [Logica!Next]_(Logica!vars)
<1>1. PICK h : h = hilo[w]
  OBVIOUS
<1>2. /\ En(w, "religar") /\ meta' = meta /\ contenido' = contenido /\ cortes' = cortes
      /\ ~ En(w, "marcar")
  BY DEF Religar, proceso, En
<1>3. "religar" \in ConFaltan /\ "religar" \in PorBloques /\ "religar" \in Deduplicando
  BY DEF ConFaltan, PorBloques, Deduplicando
<1>4. PICK t \in Tag, s \in Seq(Bloque), i \in Logico :
        t = h.tag /\ i = Head(h.faltan) /\ s = h.copia.bloques /\ i \in DOMAIN s
  BY <1>1, <1>2, <1>3, EnReflejo
<1>5. /\ h.paso = "religar" /\ h \in EnCurso /\ h.faltan # <<>> /\ Intencion(h)
      /\ h.copia \in Metadata
  BY <1>1, <1>2, <1>3, EnReflejo
<1>6. Confirma(h) /\ contenido[h.bloque] = contenido[s[i]]
  BY <1>3, <1>4, <1>5 DEF Intencion
<1>7. PICK g, b : b = h.bloque /\ g = [h EXCEPT !.copia.bloques[i] = b]
  OBVIOUS
<1>8. enlaces[t][i] = Nadie /\ Existe(t) /\ b \in Bloque
  <2>1. TareaExacta(h) /\ Existe(t)
    BY <1>1, <1>2, <1>4, EnFirme
  <2>2. enlaces[t][i] = Nadie /\ b \in bitmap
    BY <1>4, <1>5, <1>7, <2>1 DEF TareaExacta
  <2> QED
    BY <2>1, <2>2, BloquesDisco
<1>9. PICK r : r = Avanza(g, "buscar", "guardar")
  OBVIOUS
<1>10. hilo' = [hilo EXCEPT ![w] = r]
  BY <1>1, <1>4, <1>7, <1>8, <1>9 DEF Religar
<1>11. PICK z \in Seq(Bloque) : z = [s EXCEPT ![i] = b]
  <2>1. [s EXCEPT ![i] = b] \in Seq(Bloque)
    BY <1>4, <1>8
  <2> QED
    BY <2>1
<1>12. /\ g \in EnCurso /\ g.tag = t /\ g.copia.bloques = z
       /\ g.copia.estado = h.copia.estado /\ g.faltan = h.faltan
  <2>1. PICK c : c = [h.copia EXCEPT !.bloques = z]
    OBVIOUS
  <2>2. c \in Metadata /\ c.bloques = z /\ c.estado = h.copia.estado
    BY <1>5, <1>11, <2>1 DEF Metadata
  <2>3. g = [h EXCEPT !.copia = c]
    BY <1>4, <1>7, <1>11, <2>1
  <2> QED
    BY <1>4, <1>5, <2>2, <2>3 DEF EnCurso
<1>13. /\ r.paso \in {"buscar", "guardar"} /\ r.tag = t /\ r.copia = g.copia
  <2>1. "buscar" \in Pasos /\ "guardar" \in Pasos /\ g.faltan # <<>>
    BY <1>5, <1>12 DEF Pasos
  <2>2. /\ r.paso = (IF Len(g.faltan) = 1 THEN "guardar" ELSE "buscar")
        /\ r.tag = g.tag /\ r.copia = g.copia
    BY <1>9, <1>12, <2>1, AvanzaEs
  <2> QED
    BY <1>12, <2>2
<1>14. Datos(z) = Datos(s)
  <2>1. i \in DOMAIN s /\ contenido[b] = contenido[s[i]]
    BY <1>4, <1>6, <1>7
  <2>2. Datos([s EXCEPT ![i] = b]) = Datos(s)
    BY <2>1, DatosIguales
  <2> QED
    BY <1>11, <2>2
<1>15. Confirma(r)
  BY <1>4, <1>6, <1>12, <1>13, <1>14 DEF Confirma
<1>16. Intencion(r) /\ r.paso # "marcar"
  BY <1>13, <1>15 DEF Intencion, Deduplicando
<1> QED
  BY <1>2, <1>10, <1>16, Callado

\* A step that changes the metadata of t, and no contents.
LEMMA SoloUna ==
    ASSUME UnSolo, NEW w \in Worker, NEW t \in Tag, En(w, "marcar") => hilo[w].tag = t,
           En(w, "marcar")' => hilo'[w].tag = t, contenido' = contenido,
           \A u \in Tag : u # t => meta'[u] = meta[u]
    PROVE  /\ \A u \in Tag : u # t => Vista'[u] = Vista[u]
           /\ Vista' = [Vista EXCEPT ![t] = Vista'[t]]
<1>1. \A u \in Tag : u # t => Foto(u)' = Foto(u)
  BY FotoIgual
<1>2. \A u \in Tag : u # t => Vista'[u] = Vista[u]
  BY <1>1, OtrasIguales
<1> QED
  BY <1>2, Retoca

\* A file:tag with no blocks.
LEMMA DatosNada == Datos(<<>>) = <<>>
<1>1. DOMAIN <<>> = {}
  OBVIOUS
<1> QED
  BY <1>1 DEF Datos

\* How Archivos sees a step that changes only t: to CREATE it, ...
LEMMA HaceCrea ==
    ASSUME NEW t \in Tag, Vista' = [Vista EXCEPT ![t] = Vista'[t]], Vista[t].estado = "NO",
           Vista'[t] = [Vista[t] EXCEPT !.estado = "WORK_IN_PROGRESS"]
    PROVE  Hace(t)
<1>1. Vista' = [Vista EXCEPT ![t].estado = "WORK_IN_PROGRESS"]
  OBVIOUS
<1>2. Logica!Crea(t)
  BY <1>1 DEF Logica!Crea, Logica!Existe
<1> QED
  BY <1>2 DEF Hace

\* ... to DELETE it, ...
LEMMA HaceBorra ==
    ASSUME NEW t \in Tag, Vista' = [Vista EXCEPT ![t] = Vista'[t]], Vista[t].estado # "NO",
           Vista'[t] = [estado |-> "NO", bloques |-> <<>>]
    PROVE  Hace(t)
<1>1. Vista' = [Vista EXCEPT ![t] = [estado |-> "NO", bloques |-> <<>>]]
  OBVIOUS
<1>2. Logica!Borra(t)
  BY <1>1 DEF Logica!Borra, Logica!Existe, Logica!NoExiste
<1> QED
  BY <1>2 DEF Hace

\* ... to make it a copy of another, ...
LEMMA HaceEtiqueta ==
    ASSUME NEW t \in Tag, NEW o \in Tag, Vista' = [Vista EXCEPT ![t] = Vista'[t]],
           Vista[o].estado # "NO", Vista[t].estado = "NO",
           Vista'[t] = [Vista[o] EXCEPT !.estado = "WORK_IN_PROGRESS"]
    PROVE  Hace(t)
<1>1. Vista' = [Vista EXCEPT ![t] = [Vista[o] EXCEPT !.estado = "WORK_IN_PROGRESS"]]
  OBVIOUS
<1>2. Logica!Etiqueta(o, t)
  BY <1>1 DEF Logica!Etiqueta, Logica!Existe
<1> QED
  BY <1>2 DEF Hace

\* ... to COMMIT it, ...
LEMMA HaceConfirma ==
    ASSUME NEW t \in Tag, Vista' = [Vista EXCEPT ![t] = Vista'[t]],
           Vista[t].estado = "WORK_IN_PROGRESS",
           Vista'[t] = [Vista[t] EXCEPT !.estado = "COMMITED"]
    PROVE  Hace(t)
<1>1. Vista' = [Vista EXCEPT ![t].estado = "COMMITED"]
  OBVIOUS
<1>2. Logica!Confirma(t)
  BY <1>1 DEF Logica!Confirma
<1> QED
  BY <1>2 DEF Hace

\* ... to add blocks to it, ...
LEMMA HaceCrece ==
    ASSUME NEW t \in Tag, NEW n \in 1..MaxLogicos, Vista' = [Vista EXCEPT ![t] = Vista'[t]],
           Vista[t].estado # "NO",
           Vista'[t] = [Vista[t] EXCEPT !.bloques = @ \o [i \in 1..n |-> Cero]]
    PROVE  Hace(t)
<1>1. Vista' = [Vista EXCEPT ![t].bloques = @ \o [i \in 1..n |-> Cero]]
  OBVIOUS
<1>2. Logica!Crece(t, n)
  BY <1>1 DEF Logica!Crece, Logica!Existe
<1> QED
  BY <1>2 DEF Hace

\* ... or to change one of them.
LEMMA HaceEscribe ==
    ASSUME NEW t \in Tag, NEW i \in 1..MaxLogicos, NEW v \in Valor,
           Vista' = [Vista EXCEPT ![t] = Vista'[t]],
           Vista[t].estado = "WORK_IN_PROGRESS", i \in DOMAIN Vista[t].bloques,
           Vista'[t] = [Vista[t] EXCEPT !.bloques[i] = v]
    PROVE  Hace(t)
<1>1. Vista' = [Vista EXCEPT ![t].bloques[i] = v]
  OBVIOUS
<1>2. Logica!Escribe(t, i, v)
  BY <1>1 DEF Logica!Escribe
<1> QED
  BY <1>2 DEF Hace

\* CREATE.
LEMMA CrearRefleja ==
    ASSUME StorageAssumption, Tipos, UnSolo, Firme, cortes = 0, NEW w \in Worker, NEW t \in Tag,
           Crear(w, t)
    PROVE  Cumple(w)' /\ [Logica!Next]_(Logica!vars)
<1>1. /\ Atiende(w) /\ ~ Existe(t) /\ hilo' = hilo /\ contenido' = contenido /\ cortes' = cortes
      /\ meta' = [meta EXCEPT ![t] = [NoExiste EXCEPT !.estado = "WORK_IN_PROGRESS"]]
  BY DEF Crear, EnUnPaso, proceso
<1>2. hilo[w] = Ocioso /\ hilo'[w] = Ocioso /\ ~ En(w, "marcar") /\ ~ En(w, "marcar")'
  BY <1>1 DEF Atiende, En
<1>3. meta \in [Tag -> Metadata] /\ meta[t] = NoExiste
  BY <1>1, EnCalma DEF Tipos, MetasBien, MetaExacta
<1>4. /\ meta'[t].bloques = <<>> /\ meta'[t].estado = "WORK_IN_PROGRESS"
      /\ meta[t].bloques = <<>> /\ meta[t].estado = "NO"
      /\ \A u \in Tag : u # t => meta'[u] = meta[u]
  BY <1>1, <1>3 DEF NoExiste
<1>5. /\ \A u \in Tag : u # t => Vista'[u] = Vista[u]
      /\ Vista' = [Vista EXCEPT ![t] = Vista'[t]]
  BY <1>1, <1>2, <1>4, SoloUna
<1>6. Vista[t] = [estado |-> "NO", bloques |-> <<>>]
  <2>1. Vista[t] = Foto(t)
    BY <1>2, VistaAntes
  <2> QED
    BY <1>4, <2>1, DatosNada DEF Foto
<1>7. Vista'[t] = [estado |-> "WORK_IN_PROGRESS", bloques |-> <<>>]
  <2>1. Vista'[t] = Foto(t)'
    BY <1>2, VistaLuego
  <2>2. Datos(<<>>)' = <<>>
    BY <1>1, DatosNada DEF Datos
  <2>3. Foto(t)' = [estado |-> "WORK_IN_PROGRESS", bloques |-> Datos(<<>>)']
    BY <1>4 DEF Foto, Datos
  <2> QED
    BY <2>1, <2>2, <2>3
<1>8. Vista[t].estado = "NO" /\ Vista'[t] = [Vista[t] EXCEPT !.estado = "WORK_IN_PROGRESS"]
  BY <1>6, <1>7
<1>9. [Logica!Next]_(Logica!vars)
  <2>1. Hace(t)
    BY <1>5, <1>8, HaceCrea
  <2> QED
    BY <1>1, <1>5, <2>1, Pasa
<1>10. Cumple(w)'
  BY <1>2 DEF Cumple
<1> QED
  BY <1>9, <1>10

\* TAG: the copy is not seen until its ESTADO is set.
LEMMA EtiquetarRefleja ==
    ASSUME StorageAssumption, Tipos, UnSolo, Firme, cortes = 0, NEW w \in Worker, NEW o \in Tag,
           NEW t \in Tag, Etiquetar(w, o, t)
    PROVE  Cumple(w)' /\ [Logica!Next]_(Logica!vars)
<1>1. PICK c : c = [meta[o] EXCEPT !.estado = "WORK_IN_PROGRESS"]
  OBVIOUS
<1>2. /\ Atiende(w) /\ Existe(o) /\ ~ Existe(t) /\ meta' = [meta EXCEPT ![t] = meta[o]]
      /\ Empieza(w, "marcar", t, Indices(meta[o]), c) /\ contenido' = contenido
      /\ cortes' = cortes /\ parada' = parada
  BY <1>1 DEF Etiquetar, Legible, Existe, proceso
<1>3. PICK r : r = [paso |-> "marcar", tag |-> t, faltan |-> Indices(meta[o]), copia |-> c,
                    indice |-> <<>>, valor |-> Nadie, bloque |-> Nadie, nuevo |-> FALSE]
  OBVIOUS
<1>4. hilo' = [hilo EXCEPT ![w] = r]
  BY <1>2, <1>3 DEF Empieza
<1>5. r.paso = "marcar" /\ r.tag = t /\ r.copia = c
  BY <1>3
<1>6. meta[o] \in Metadata /\ meta \in [Tag -> Metadata] /\ meta[t] = NoExiste
  BY <1>2, EnCalma DEF Tipos, MetasBien, MetaExacta
<1>7. c.bloques = meta[o].bloques /\ c.estado = "WORK_IN_PROGRESS" /\ o # t
  BY <1>1, <1>2, <1>6 DEF Metadata
<1>8. \A u \in Tag : u # t => meta'[u] = meta[u]
  BY <1>2, <1>6
<1>9. r # Ocioso /\ hilo'[w] = r
  BY <1>4, <1>5, Activo DEF Pasos, Tipos, HilosBien
<1>10. ~ En(w, "marcar") /\ En(w, "marcar")'
  BY <1>2, <1>5, <1>9 DEF Atiende, En
<1>11. \A u \in Tag : u # t => Vista'[u] = Vista[u]
  BY <1>2, <1>5, <1>8, <1>9, <1>10, SoloUna
<1>12. Vista[t] = [estado |-> "NO", bloques |-> <<>>]
  <2>1. Vista[t] = Foto(t)
    BY <1>10, VistaAntes
  <2> QED
    BY <1>6, <2>1, DatosNada DEF Foto, NoExiste
<1>13. Vista'[t] = [estado |-> "NO", bloques |-> <<>>]
  BY <1>5, <1>9, <1>10, VistaMarcando
<1>14. [Logica!Next]_(Logica!vars)
  BY <1>2, <1>11, <1>12, <1>13, Pasa
<1>15. Intencion(r)'
  <2>1. meta'[o] = meta[o] /\ Existe(o)'
    BY <1>2, <1>7, <1>8 DEF Existe
  <2> QED
    BY <1>5, <1>7, <2>1 DEF Intencion, Deduplicando
<1>16. Cumple(w)'
  BY <1>9, <1>15 DEF Cumple
<1> QED
  BY <1>14, <1>16

\* TAG: the copy is there.
LEMMA MarcarRefleja ==
    ASSUME StorageAssumption, Tipos, UnSolo, cortes = 0, NEW w \in Worker, Cumple(w), Marcar(w)
    PROVE  Cumple(w)' /\ [Logica!Next]_(Logica!vars)
<1>1. PICK h, r : h = hilo[w] /\ r = IF h.faltan = <<>> THEN Ocioso ELSE [h EXCEPT !.paso = "ligar"]
  OBVIOUS
<1>2. En(w, "marcar") /\ contenido' = contenido /\ cortes' = cortes
  BY DEF Marcar, proceso
<1>3. PICK t \in Tag, s \in Seq(Bloque) : t = h.tag /\ s = h.copia.bloques
  BY <1>1, <1>2, EnReflejo
<1>4. /\ h.paso = "marcar" /\ h \in EnCurso /\ Intencion(h) /\ h.copia \in Metadata
      /\ hilo \in [Worker -> EnCurso \cup {Ocioso}]
  BY <1>1, <1>2, EnReflejo
<1>5. hilo' = [hilo EXCEPT ![w] = r] /\ meta' = [meta EXCEPT ![t] = h.copia]
  BY <1>1, <1>3, <1>4 DEF Marcar, Termina, Sigue
<1>6. r = Ocioso \/ r.paso = "ligar"
  BY <1>1, <1>4 DEF EnCurso
<1>7. hilo'[w] = r /\ ~ En(w, "marcar")'
  BY <1>4, <1>5, <1>6 DEF En
<1>8. PICK o \in Tag \ {t} : /\ h.copia.estado = "WORK_IN_PROGRESS" /\ Existe(o)
                             /\ meta[o].bloques = s
  BY <1>3, <1>4 DEF Intencion
<1>9. meta \in [Tag -> Metadata]
  BY DEF Tipos, MetasBien
<1>10. meta'[t] = h.copia /\ \A u \in Tag : u # t => meta'[u] = meta[u]
  BY <1>5, <1>9
<1>11. /\ \A u \in Tag : u # t => Vista'[u] = Vista[u]
       /\ Vista' = [Vista EXCEPT ![t] = Vista'[t]]
  BY <1>1, <1>2, <1>3, <1>7, <1>10, SoloUna
<1>12. Vista[t] = [estado |-> "NO", bloques |-> <<>>]
  BY <1>1, <1>2, <1>3, VistaMarcando
<1>13. Vista[o] = [estado |-> meta[o].estado, bloques |-> Datos(s)]
  <2>1. hilo[w].tag # o
    BY <1>1, <1>3, <1>8
  <2>2. Vista[o] = Foto(o)
    BY <2>1, VistaAntes
  <2> QED
    BY <1>8, <2>2 DEF Foto
<1>14. Vista'[t] = [estado |-> "WORK_IN_PROGRESS", bloques |-> Datos(s)]
  <2>1. Vista'[t] = Foto(t)'
    BY <1>7, VistaLuego
  <2>2. Foto(t)' = [estado |-> "WORK_IN_PROGRESS", bloques |-> Datos(s)]
    BY <1>2, <1>3, <1>8, <1>10 DEF Foto, Datos
  <2> QED
    BY <2>1, <2>2
<1>15. /\ Vista[o].estado # "NO" /\ Vista[t].estado = "NO"
       /\ Vista'[t] = [Vista[o] EXCEPT !.estado = "WORK_IN_PROGRESS"]
  BY <1>8, <1>12, <1>13, <1>14 DEF Existe
<1>16. [Logica!Next]_(Logica!vars)
  <2>1. Hace(t)
    BY <1>11, <1>15, HaceEtiqueta
  <2> QED
    BY <1>2, <1>11, <2>1, Pasa
<1>17. Cumple(w)'
  <2>1. r = Ocioso \/ Intencion(r)'
    BY <1>6 DEF Intencion, Deduplicando
  <2> QED
    BY <1>7, <2>1 DEF Cumple
<1> QED
  BY <1>16, <1>17

\* DELETE: the directory is removed.
LEMMA QuitarRefleja ==
    ASSUME StorageAssumption, Tipos, UnSolo, Firme, cortes = 0, NEW w \in Worker, Quitar(w)
    PROVE  Cumple(w)' /\ [Logica!Next]_(Logica!vars)
<1>1. PICK t : t = hilo[w].tag
  OBVIOUS
<1>2. /\ En(w, "quitar") /\ contenido' = contenido /\ cortes' = cortes
      /\ meta' = [meta EXCEPT ![t] = NoExiste] /\ hilo' = [hilo EXCEPT ![w] = Ocioso]
  BY <1>1 DEF Quitar, Termina, proceso
<1>3. t \in Tag /\ Existe(t)
  BY <1>1, <1>2, EnFirme
<1>4. hilo'[w] = Ocioso /\ ~ En(w, "marcar") /\ ~ En(w, "marcar")'
  BY <1>2 DEF En, Tipos, HilosBien
<1>5. meta \in [Tag -> Metadata]
  BY DEF Tipos, MetasBien
<1>6. meta'[t] = NoExiste /\ \A u \in Tag : u # t => meta'[u] = meta[u]
  BY <1>2, <1>3, <1>5
<1>7. /\ \A u \in Tag : u # t => Vista'[u] = Vista[u]
      /\ Vista' = [Vista EXCEPT ![t] = Vista'[t]]
  BY <1>2, <1>3, <1>4, <1>6, SoloUna
<1>8. Vista[t].estado # "NO"
  <2>1. Vista[t] = Foto(t)
    BY <1>3, <1>4, VistaAntes
  <2> QED
    BY <1>3, <2>1 DEF Foto, Existe
<1>9. Vista'[t] = [estado |-> "NO", bloques |-> <<>>]
  <2>1. Vista'[t] = Foto(t)'
    BY <1>3, <1>4, VistaLuego
  <2>2. Datos(<<>>)' = <<>>
    BY <1>2, DatosNada DEF Datos
  <2>3. Foto(t)' = [estado |-> "NO", bloques |-> Datos(<<>>)']
    BY <1>6 DEF Foto, Datos, NoExiste
  <2> QED
    BY <2>1, <2>2, <2>3
<1>10. [Logica!Next]_(Logica!vars)
  <2>1. Hace(t)
    BY <1>3, <1>7, <1>8, <1>9, HaceBorra
  <2> QED
    BY <1>2, <1>3, <1>7, <2>1, Pasa
<1>11. Cumple(w)'
  BY <1>4 DEF Cumple
<1> QED
  BY <1>10, <1>11

\* New blocks hold what the block 0 does.
LEMMA DatosAlargados ==
    ASSUME NEW m \in Seq(Bloque), NEW n \in Nat, contenido[0] = Cero, 0 \in Bloque
    PROVE  Datos(m \o [k \in 1..n |-> 0]) = Datos(m) \o [k \in 1..n |-> Cero]
<1>1. PICK M \in Nat : M = Len(m) /\ DOMAIN m = 1..M
  OBVIOUS
<1>2. PICK z, y : z = [k \in 1..n |-> 0] /\ y = [k \in 1..n |-> Cero]
  OBVIOUS
<1>3. z \in Seq(Bloque) /\ Len(z) = n /\ \A k \in 1..n : z[k] = 0
  BY <1>2
<1>4. PICK d : d = Datos(m)
  OBVIOUS
<1>5. DOMAIN d = 1..M /\ \A k \in 1..M : d[k] = contenido[m[k]]
  BY <1>1, <1>4 DEF Datos
<1>6. PICK U : U = {contenido[m[k]] : k \in 1..M} \cup {Cero}
  OBVIOUS
<1>7. d \in Seq(U) /\ Len(d) = M
  <2>1. \A k \in 1..M : d[k] \in U
    BY <1>5, <1>6
  <2>2. d = [k \in 1..M |-> d[k]]
    BY <1>1, <1>4 DEF Datos
  <2>3. d \in [1..M -> U]
    BY <2>1, <2>2
  <2> QED
    BY <1>1, <2>3
<1>8. y \in Seq(U) /\ Len(y) = n /\ \A k \in 1..n : y[k] = Cero
  <2>1. Cero \in U
    BY <1>6
  <2> QED
    BY <1>2, <2>1
<1>9. PICK a, c : a = m \o z /\ c = d \o y
  OBVIOUS
<1>10. /\ a \in Seq(Bloque) /\ Len(a) = M + n
       /\ \A k \in 1..M : a[k] = m[k]
       /\ \A k \in (M + 1)..(M + n) : a[k] = z[k - M]
  <2>1. /\ m \o z \in Seq(Bloque) /\ Len(m \o z) = M + n
        /\ \A k \in 1..M : (m \o z)[k] = m[k]
        /\ \A k \in (M + 1)..(M + n) : (m \o z)[k] = z[k - M]
    <3>1. /\ m \in Seq(Bloque) /\ z \in Seq(Bloque) /\ M \in Nat /\ n \in Nat
          /\ Len(m) = M /\ Len(z) = n
      BY <1>1, <1>3
    <3> QED
      BY ONLY <3>1
  <2> QED
    BY <1>9, <2>1
<1>11. /\ c \in Seq(U) /\ Len(c) = M + n
       /\ \A k \in 1..M : c[k] = d[k]
       /\ \A k \in (M + 1)..(M + n) : c[k] = y[k - M]
  <2>1. /\ d \o y \in Seq(U) /\ Len(d \o y) = M + n
        /\ \A k \in 1..M : (d \o y)[k] = d[k]
        /\ \A k \in (M + 1)..(M + n) : (d \o y)[k] = y[k - M]
    <3>1. /\ d \in Seq(U) /\ y \in Seq(U) /\ M \in Nat /\ n \in Nat
          /\ Len(d) = M /\ Len(y) = n
      BY <1>1, <1>7, <1>8
    <3> QED
      BY ONLY <3>1
  <2> QED
    BY <1>9, <2>1
<1>12. ASSUME NEW k \in 1..(M + n) PROVE contenido[a[k]] = c[k]
  <2>1. CASE k <= M
    <3>1. k \in 1..M
      BY <1>1, <2>1
    <3> QED
      BY <1>5, <1>10, <1>11, <3>1
  <2>2. CASE ~ k <= M
    <3>1. k \in (M + 1)..(M + n) /\ k - M \in 1..n
      BY <1>1, <2>2
    <3> QED
      BY <1>3, <1>8, <1>10, <1>11, <3>1
  <2> QED
    BY <2>1, <2>2
<1>13. DOMAIN a = 1..(M + n) /\ c = [k \in 1..(M + n) |-> c[k]]
  BY <1>10, <1>11
<1>14. Datos(a) = [k \in 1..(M + n) |-> contenido[a[k]]]
  BY <1>13 DEF Datos
<1>15. Datos(a) = c
  BY <1>12, <1>13, <1>14
<1> QED
  BY <1>2, <1>4, <1>9, <1>15

\* A block for another.
LEMMA DatosCambiados ==
    ASSUME NEW s, NEW i \in DOMAIN s, NEW b
    PROVE  Datos([s EXCEPT ![i] = b]) = [Datos(s) EXCEPT ![i] = contenido[b]]
<1>1. PICK z : z = [s EXCEPT ![i] = b]
  OBVIOUS
<1>2. DOMAIN z = DOMAIN s /\ \A j \in DOMAIN s : z[j] = IF j = i THEN b ELSE s[j]
  BY <1>1
<1>3. PICK x : x = [Datos(s) EXCEPT ![i] = contenido[b]]
  OBVIOUS
<1>4. x = [j \in DOMAIN s |-> IF j = i THEN contenido[b] ELSE contenido[s[j]]]
  BY <1>3 DEF Datos
<1>5. Datos(z) = [j \in DOMAIN s |-> contenido[z[j]]]
  BY <1>2 DEF Datos
<1>6. \A j \in DOMAIN s : contenido[z[j]] = IF j = i THEN contenido[b] ELSE contenido[s[j]]
  BY <1>2
<1> QED
  BY <1>1, <1>3, <1>4, <1>5, <1>6

\* A file:tag with other blocks.
LEMMA BloquesOtros ==
    ASSUME NEW e, NEW d, NEW y, NEW f, f = [estado |-> e, bloques |-> d]
    PROVE  [f EXCEPT !.bloques = y] = [estado |-> e, bloques |-> y]
<1>1. PICK g : g = [f EXCEPT !.bloques = y]
  OBVIOUS
<1>2. g.estado = e /\ g.bloques = y
  BY <1>1
<1>3. g = [x \in {"estado", "bloques"} |-> g[x]]
  BY <1>1
<1>4. g = [estado |-> e, bloques |-> y]
  BY <1>2, <1>3
<1> QED
  BY <1>1, <1>4

\* The metadata of t is saved: the Workers see what the request was for.
LEMMA GuardarMetadataRefleja ==
    ASSUME StorageAssumption, Tipos, UnSolo, Firme, cortes = 0, NEW w \in Worker, Cumple(w),
           GuardarMetadata(w)
    PROVE  Cumple(w)' /\ [Logica!Next]_(Logica!vars)
<1>1. PICK h : h = hilo[w]
  OBVIOUS
<1>2. En(w, "guardar") /\ contenido' = contenido /\ cortes' = cortes
  BY DEF GuardarMetadata, proceso
<1>3. PICK t \in Tag, s \in Seq(Bloque) : t = h.tag /\ s = h.copia.bloques
  BY <1>1, <1>2, EnReflejo
<1>4. h.paso = "guardar" /\ h \in EnCurso /\ Intencion(h) /\ h.copia \in Metadata /\ Existe(t)
  BY <1>1, <1>2, <1>3, EnReflejo, EnFirme
<1>5. hilo' = [hilo EXCEPT ![w] = Ocioso] /\ meta' = [meta EXCEPT ![t] = h.copia]
  BY <1>1, <1>3, <1>4 DEF GuardarMetadata, Termina
<1>6. hilo'[w] = Ocioso /\ ~ En(w, "marcar") /\ ~ En(w, "marcar")'
  BY <1>2, <1>5 DEF En, Tipos, HilosBien
<1>7. meta \in [Tag -> Metadata]
  BY DEF Tipos, MetasBien
<1>8. meta'[t] = h.copia /\ \A u \in Tag : u # t => meta'[u] = meta[u]
  BY <1>5, <1>7
<1>9. /\ \A u \in Tag : u # t => Vista'[u] = Vista[u]
      /\ Vista' = [Vista EXCEPT ![t] = Vista'[t]]
  BY <1>2, <1>3, <1>6, <1>8, SoloUna
<1>10. PICK m \in Seq(Bloque), M \in Nat : /\ m = meta[t].bloques /\ DOMAIN m = 1..M
                                          /\ M <= MaxLogicos
  <2>1. PICK m \in Seq(Bloque) : m = meta[t].bloques /\ Len(m) <= MaxLogicos
    BY <1>3, MetaEs DEF Lista
  <2>2. Len(m) \in Nat /\ DOMAIN m = 1..Len(m)
    BY <2>1
  <2> QED
    BY <2>1, <2>2
<1>11. Vista[t] = [estado |-> meta[t].estado, bloques |-> Datos(m)]
  <2>1. Vista[t] = Foto(t)
    BY <1>6, VistaAntes
  <2> QED
    BY <1>10, <2>1 DEF Foto
<1>12. Vista'[t] = [estado |-> h.copia.estado, bloques |-> Datos(s)]
  <2>1. Vista'[t] = Foto(t)'
    BY <1>6, VistaLuego
  <2>2. Foto(t)' = [estado |-> h.copia.estado, bloques |-> Datos(s)]
    BY <1>2, <1>3, <1>8 DEF Foto, Datos
  <2> QED
    BY <2>1, <2>2
<1>13. Alarga(h) \/ Confirma(h) \/ Escribe(h)
  BY <1>4 DEF Intencion
<1>14. Vista'[t] = Vista[t] \/ Hace(t)
  <2>1. CASE Alarga(h)
    <3>1. PICK n \in 0..MaxLogicos : s = m \o [k \in 1..n |-> 0]
      BY <1>3, <1>10, <2>1 DEF Alarga, Alargada
    <3>2. /\ h.copia.estado = meta[t].estado /\ contenido[0] = Cero /\ n \in Nat
          /\ 0 \in Bloque
      BY <1>3, <2>1, BloquesDisco DEF Alarga, Firme, BaseBien
    <3>3. Datos(s) = Datos(m) \o [k \in 1..n |-> Cero]
      BY <1>10, <3>1, <3>2, DatosAlargados
    <3>4. CASE n = 0
      <4>1. [k \in 1..0 |-> 0] = <<>> /\ m \o <<>> = m
        BY <1>10
      <4>2. s = m
        BY <3>1, <3>4, <4>1
      <4> QED
        BY <1>11, <1>12, <3>2, <4>2
    <3>5. CASE n # 0
      <4>1. n \in 1..MaxLogicos
        BY <3>1, <3>5
      <4>2. Vista[t].estado # "NO"
        BY <1>4, <1>11 DEF Existe
      <4>3. Vista'[t] = [Vista[t] EXCEPT !.bloques = @ \o [i \in 1..n |-> Cero]]
        <5>1. PICK y : y = [i \in 1..n |-> Cero]
          OBVIOUS
        <5>2. Vista[t].bloques \o y = Datos(s)
          BY <1>11, <3>3, <5>1
        <5>3. [Vista[t] EXCEPT !.bloques = Datos(s)]
                 = [estado |-> meta[t].estado, bloques |-> Datos(s)]
          BY <1>11, BloquesOtros
        <5>4. Vista'[t] = [Vista[t] EXCEPT !.bloques = Vista[t].bloques \o y]
          BY <1>12, <3>2, <5>2, <5>3
        <5> QED
          BY <5>1, <5>4
      <4> QED
        BY <1>3, <1>9, <4>1, <4>2, <4>3, HaceCrece
    <3> QED
      BY <3>4, <3>5
  <2>2. CASE Confirma(h)
    <3>1. /\ h.copia.estado = "COMMITED" /\ meta[t].estado = "WORK_IN_PROGRESS"
          /\ Datos(s) = Datos(m)
      BY <1>3, <1>10, <2>2 DEF Confirma
    <3>2. /\ Vista[t].estado = "WORK_IN_PROGRESS"
          /\ Vista'[t] = [Vista[t] EXCEPT !.estado = "COMMITED"]
      BY <1>11, <1>12, <3>1
    <3> QED
      BY <1>3, <1>9, <3>2, HaceConfirma
  <2>3. CASE Escribe(h)
    <3>1. PICK i \in DOMAIN m, b \in 0..(Bloques - 1) : s = [m EXCEPT ![i] = b]
      BY <1>3, <1>10, <2>3 DEF Escribe, Cambiada
    <3>2. h.copia.estado = "WORK_IN_PROGRESS" /\ meta[t].estado = "WORK_IN_PROGRESS"
      BY <1>3, <2>3 DEF Escribe
    <3>3. Datos(s) = [Datos(m) EXCEPT ![i] = contenido[b]]
      BY <3>1, DatosCambiados
    <3>4. i \in 1..MaxLogicos /\ contenido[b] \in Valor /\ i \in DOMAIN Datos(m)
      <4>1. i \in 1..MaxLogicos
        BY <1>10, <3>1 DEF StorageAssumption
      <4>2. contenido[b] \in Valor
        BY <3>1, BloquesDisco
      <4> QED
        BY <3>1, <4>1, <4>2 DEF Datos
    <3>5. Vista[t].estado = "WORK_IN_PROGRESS" /\ i \in DOMAIN Vista[t].bloques
      BY <1>11, <3>2, <3>4
    <3>6. Vista'[t] = [Vista[t] EXCEPT !.bloques[i] = contenido[b]]
      <4>1. PICK d : d = Datos(m)
        OBVIOUS
      <4>2. Vista[t] = [estado |-> "WORK_IN_PROGRESS", bloques |-> d]
        BY <1>11, <3>2, <4>1
      <4>3. [Vista[t] EXCEPT !.bloques[i] = contenido[b]]
               = [estado |-> "WORK_IN_PROGRESS", bloques |-> [d EXCEPT ![i] = contenido[b]]]
        <5>1. Vista[t].bloques = d
          BY <4>2
        <5>2. PICK y : y = [d EXCEPT ![i] = contenido[b]]
          OBVIOUS
        <5>3. [Vista[t] EXCEPT !.bloques = y] = [estado |-> "WORK_IN_PROGRESS", bloques |-> y]
          BY <4>2, BloquesOtros
        <5> QED
          BY <5>1, <5>2, <5>3
      <4> QED
        BY <1>12, <3>2, <3>3, <4>1, <4>3
    <3> QED
      BY <1>3, <1>9, <3>4, <3>5, <3>6, HaceEscribe
  <2> QED
    BY <1>13, <2>1, <2>2, <2>3
<1>15. Cumple(w)' /\ [Logica!Next]_(Logica!vars)
  <2>1. Cumple(w)'
    BY <1>6 DEF Cumple
  <2>2. [Logica!Next]_(Logica!vars)
    BY <1>2, <1>3, <1>9, <1>14, Pasa
  <2> QED
    BY <2>1, <2>2
<1> QED
  BY <1>15

\* The block that is written in its place is of no other logical block.
LEMMA SoloSuyo ==
    ASSUME StorageAssumption, BaseBien, NEW t \in Tag, t # Base, NEW i \in Logico, NEW s, NEW b,
           EnSitio(t, i, s, b), NEW u \in Tag, NEW m, Coincide(u, m), Faltan(u, m, {}),
           NEW j \in DOMAIN m, j \in Logico, <<u, j>> # <<t, i>>
    PROVE  m[j] # b
<1>1. enlaces[t][i] = b /\ ~ Compartido(t, i)
  BY DEF EnSitio
<1>2. b # 0
  <2>1. Base \in Tag /\ 1 \in Logico /\ enlaces[Base][1] = 0 /\ <<Base, 1>> # <<t, i>>
    BY CeroLigado
  <2> QED
    BY <1>1, <2>1 DEF Compartido
<1>3. enlaces[u][j] # b
  BY <1>1 DEF Compartido
<1>4. CASE enlaces[u][j] = Nadie
  <2>1. m[j] = 0
    BY <1>4 DEF Faltan
  <2> QED
    BY <1>2, <2>1
<1>5. CASE enlaces[u][j] # Nadie
  <2>1. enlaces[u][j] = m[j]
    BY <1>5 DEF Coincide
  <2> QED
    BY <1>3, <2>1
<1> QED
  BY <1>4, <1>5

\* WRITE: the block is written. In its place, it is the WRITE that the Workers see;
\* a new one is not seen.
LEMMA EscribirDatosRefleja ==
    ASSUME StorageAssumption, Tipos, UnSolo, Firme, cortes = 0, NEW w \in Worker, Cumple(w),
           EscribirDatos(w)
    PROVE  Cumple(w)' /\ [Logica!Next]_(Logica!vars)
<1>1. PICK h : h = hilo[w]
  OBVIOUS
<1>2. En(w, "escribir") /\ meta' = meta /\ cortes' = cortes
  BY DEF EscribirDatos, proceso
<1>3. "escribir" \in ConFaltan
  BY DEF ConFaltan, Escribiendo, Deduplicando
<1>4. PICK t \in Tag, i \in Logico, s \in Seq(Bloque) :
        t = h.tag /\ i = Head(h.faltan) /\ s = h.copia.bloques
  BY <1>1, <1>2, <1>3, EnFirme
<1>5. /\ h.paso = "escribir" /\ t # Base /\ h \in EnCurso /\ TareaExacta(h)
      /\ \A u \in Tag : u # t => MetaExacta(u)
  BY <1>1, <1>2, <1>3, <1>4, EnFirme
<1>6. Escribe(h) /\ hilo \in [Worker -> EnCurso \cup {Ocioso}]
  BY <1>1, <1>2, <1>5, EnReflejo DEF Intencion
<1>7. PICK b \in 0..(Bloques - 1), v \in Valor : b = h.bloque /\ v = h.valor
  <2>1. h.paso \in Escribiendo
    BY <1>5 DEF Escribiendo
  <2>2. TareaBien(h, dirs, ConHash)
    BY <1>1, <1>2, EnFirme
  <2> QED
    BY <2>1, <2>2 DEF TareaBien, Bloque, UnSolo
<1>8. PICK r : r = [h EXCEPT !.paso = "hash"]
  OBVIOUS
<1>9. hilo' = [hilo EXCEPT ![w] = r] /\ contenido' = [contenido EXCEPT ![b] = v]
  <2>1. b < Bloques
    BY <1>7 DEF StorageAssumption
  <2> QED
    BY <1>1, <1>7, <1>8, <2>1 DEF EscribirDatos, Sigue
<1>10. r.paso = "hash" /\ r.tag = t /\ r.copia = h.copia
  BY <1>4, <1>5, <1>8 DEF EnCurso
<1>11. hilo'[w] = r /\ ~ En(w, "marcar") /\ ~ En(w, "marcar")'
  BY <1>2, <1>6, <1>9, <1>10 DEF En
<1>12. Cumple(w)'
  <2>1. Escribe(r)
    BY <1>4, <1>6, <1>10, MismaCopia
  <2>2. Escribe(r)'
    BY <1>2, <2>1 DEF Escribe, Cambiada
  <2>3. Intencion(r)'
    BY <1>10, <2>2 DEF Intencion, Deduplicando
  <2> QED
    BY <1>11, <2>3 DEF Cumple
<1>13. /\ contenido \in [0..(Bloques - 1) -> Valor] /\ BaseBien
       /\ IF h.nuevo THEN Elegido(t, i, s, b) ELSE EnSitio(t, i, s, b)
  BY <1>4, <1>5, <1>7, BloquesDisco DEF TareaExacta, Firme
<1>14. ASSUME NEW u \in Tag
       PROVE  /\ Coincide(u, meta[u].bloques) /\ Faltan(u, meta[u].bloques, {})
              /\ DOMAIN meta[u].bloques \subseteq Logico
              /\ \A j \in DOMAIN meta[u].bloques : meta[u].bloques[j] \in 0..(Bloques - 1)
  <2>1. Coincide(u, meta[u].bloques) /\ Faltan(u, meta[u].bloques, {})
    <3>1. CASE u = t
      BY <1>13, <3>1 DEF Elegido, EnSitio
    <3>2. CASE u # t
      BY <1>5, <3>2 DEF MetaExacta
    <3> QED
      BY <3>1, <3>2
  <2>2. PICK m \in Seq(Bloque), M \in Nat : /\ m = meta[u].bloques /\ DOMAIN m = 1..M
                                            /\ M <= MaxLogicos
    <3>1. PICK m \in Seq(Bloque) : m = meta[u].bloques /\ Len(m) <= MaxLogicos
      BY MetaEs DEF Lista
    <3>2. Len(m) \in Nat /\ DOMAIN m = 1..Len(m)
      BY <3>1
    <3> QED
      BY <3>1, <3>2
  <2>3. DOMAIN m \subseteq Logico
    BY <2>2 DEF Logico, StorageAssumption
  <2>4. \A j \in DOMAIN m : m[j] \in 0..(Bloques - 1)
    BY <2>2 DEF Bloque, UnSolo
  <2> QED
    BY <2>1, <2>2, <2>3, <2>4
<1>15. \A c \in 0..(Bloques - 1) : contenido'[c] = IF c = b THEN v ELSE contenido[c]
  BY <1>9, <1>13
<1>16. CASE h.nuevo
  <2>1. b \notin EnUso
    BY <1>13, <1>16 DEF Elegido
  <2>2. ASSUME NEW u \in Tag PROVE Foto(u)' = Foto(u)
    <3>1. \A j \in DOMAIN meta[u].bloques : meta[u].bloques[j] \in EnUso
      BY <1>14, NombradoEnUso
    <3>2. \A j \in DOMAIN meta[u].bloques :
             contenido'[meta[u].bloques[j]] = contenido[meta[u].bloques[j]]
      BY <1>14, <1>15, <2>1, <3>1
    <3>3. meta'[u] = meta[u]
      BY <1>2
    <3> QED
      BY <3>2, <3>3, FotoIgual
  <2>3. \A u \in Tag : Vista'[u] = Vista[u]
    BY <1>11, <2>2, VistaAntes, VistaLuego
  <2>4. [Logica!Next]_(Logica!vars)
    BY <1>2, <1>4, <2>3, Pasa
  <2> QED
    BY <1>12, <2>4
<1>17. CASE ~ h.nuevo
  <2>1. EnSitio(t, i, s, b)
    BY <1>13, <1>17
  <2>2. ASSUME NEW u \in Tag, NEW j \in DOMAIN meta[u].bloques, <<u, j>> # <<t, i>>
        PROVE  contenido'[meta[u].bloques[j]] = contenido[meta[u].bloques[j]]
    <3>1. meta[u].bloques[j] # b
      <4>1. PICK m : m = meta[u].bloques
        OBVIOUS
      <4>2. /\ Coincide(u, m) /\ Faltan(u, m, {}) /\ j \in DOMAIN m /\ j \in Logico
        BY <1>14, <2>2, <4>1
      <4>3. m[j] # b
        BY <1>4, <1>5, <1>13, <2>1, <2>2, <4>2, SoloSuyo
      <4> QED
        BY <4>1, <4>3
    <3> QED
      BY <1>14, <1>15, <2>2, <3>1
  <2>3. ASSUME NEW u \in Tag, u # t PROVE Foto(u)' = Foto(u)
    <3>1. \A j \in DOMAIN meta[u].bloques :
             contenido'[meta[u].bloques[j]] = contenido[meta[u].bloques[j]]
      BY <2>2, <2>3
    <3>2. meta'[u] = meta[u]
      BY <1>2
    <3> QED
      BY <3>1, <3>2, FotoIgual
  <2>4. /\ \A u \in Tag : u # t => Vista'[u] = Vista[u]
        /\ Vista' = [Vista EXCEPT ![t] = Vista'[t]]
    <3>1. \A u \in Tag : u # t => Vista'[u] = Vista[u]
      BY <1>11, <2>3, OtrasIguales
    <3> QED
      BY <3>1, Retoca
  <2>5. PICK m : m = meta[t].bloques
    OBVIOUS
  <2>6. i \in DOMAIN m /\ m[i] = b /\ meta[t].estado = "WORK_IN_PROGRESS"
    BY <1>4, <1>6, <2>1, <2>5 DEF EnSitio, Escribe
  <2>7. PICK d, y : d = Datos(m) /\ y = [d EXCEPT ![i] = v]
    OBVIOUS
  <2>8. Datos(m)' = y
    <3>1. Datos(m)' = [j \in DOMAIN m |-> contenido'[m[j]]]
      BY DEF Datos
    <3>2. y = [j \in DOMAIN m |-> IF j = i THEN v ELSE contenido[m[j]]]
      BY <2>7 DEF Datos
    <3>3. ASSUME NEW j \in DOMAIN m
          PROVE  contenido'[m[j]] = IF j = i THEN v ELSE contenido[m[j]]
      <4>1. CASE j = i
        BY <1>15, <2>6, <4>1
      <4>2. CASE j # i
        BY <2>2, <2>5, <4>2
      <4> QED
        BY <4>1, <4>2
    <3> QED
      BY <3>1, <3>2, <3>3
  <2>9. Vista[t] = [estado |-> "WORK_IN_PROGRESS", bloques |-> d]
    <3>1. Vista[t] = Foto(t)
      BY <1>11, VistaAntes
    <3> QED
      BY <2>5, <2>6, <2>7, <3>1 DEF Foto
  <2>10. Vista'[t] = [estado |-> "WORK_IN_PROGRESS", bloques |-> y]
    <3>1. Vista'[t] = Foto(t)'
      BY <1>11, VistaLuego
    <3>2. Foto(t)' = [estado |-> "WORK_IN_PROGRESS", bloques |-> Datos(m)']
      BY <1>2, <2>5, <2>6 DEF Foto, Datos
    <3> QED
      BY <2>8, <3>1, <3>2
  <2>11. /\ Vista[t].estado = "WORK_IN_PROGRESS" /\ i \in DOMAIN Vista[t].bloques
         /\ i \in 1..MaxLogicos
    BY <2>6, <2>7, <2>9 DEF Datos, Logico
  <2>12. Vista'[t] = [Vista[t] EXCEPT !.bloques[i] = v]
    <3>1. Vista[t].bloques = d
      BY <2>9
    <3>2. [Vista[t] EXCEPT !.bloques = y] = [estado |-> "WORK_IN_PROGRESS", bloques |-> y]
      BY <2>9, BloquesOtros
    <3> QED
      BY <2>7, <2>10, <3>1, <3>2
  <2>13. Hace(t)
    BY <2>4, <2>11, <2>12, HaceEscribe
  <2>14. [Logica!Next]_(Logica!vars)
    BY <1>2, <2>4, <2>13, Pasa
  <2> QED
    BY <1>12, <2>14
<1> QED
  BY <1>16, <1>17

\* A restart, between requests or in the middle of one: the other file:tags stay as
\* they were.
LEMMA ReiniciarRefleja ==
    ASSUME StorageAssumption, Tipos, UnSolo, Firme, cortes = 0, NEW w \in Worker, Reiniciar
    PROVE  (cortes' = 0 => Cumple(w)') /\ [Logica!Next]_(Logica!vars)
<1>1. hilo \in [Worker -> EnCurso \cup {Ocioso}] /\ meta \in [Tag -> Metadata]
  BY DEF Tipos, HilosBien, MetasBien
<1>2. \A v \in Worker : v = w
  BY DEF UnSolo
<1>3. /\ contenido' = contenido
      /\ \A u \in Tag : (\A v \in Worker : ~ Guardando(v, u)) => meta'[u] = meta[u]
      /\ meta' = [u \in Tag |-> meta'[u]]
  <2>1. /\ Existe(Base) /\ Base \in Tag
        /\ meta[Base] = [tam |-> BLOCK_SIZE, estado |-> "COMMITED", bloques |-> <<0>>]
    BY DEF Firme, BaseBien, Existe, StorageAssumption
  <2> DEFINE quedan(vacias) == [t \in Tag |-> IF t \in vacias THEN MetaVacia ELSE meta[t]]
  <2>2. PICK vacias \in SUBSET {t \in Tag : \E v \in Worker : Guardando(v, t)} :
          /\ contenido' = contenido
          /\ meta' = [quedan(vacias) EXCEPT ![Base] =
                         [tam |-> BLOCK_SIZE, estado |-> "COMMITED", bloques |-> <<0>>]]
    BY <2>1 DEF Reiniciar
  <2> QED
    BY <2>1, <2>2
<1>4. hilo' = [hilo EXCEPT ![w] = Ocioso] /\ hilo'[w] = Ocioso
  <2>1. hilo' = [v \in Worker |-> Ocioso]
    BY DEF Reiniciar
  <2> QED
    BY <1>1, <1>2, <2>1
<1>5. ~ En(w, "marcar")'
  BY <1>4 DEF En
<1>6. CASE EnReposo
  <2>1. cortes' = cortes /\ ~ En(w, "marcar")
    BY <1>6 DEF Reiniciar, EnReposo, En
  <2>2. \A u \in Tag : meta'[u] = meta[u]
    BY <1>3, <1>6 DEF EnReposo, Guardando, En
  <2>3. meta' = meta
    BY <1>1, <1>3, <2>2
  <2> QED
    BY <1>3, <1>4, <2>1, <2>3, Callado
<1>7. CASE ~ EnReposo
  <2>1. cortes' = 1
    BY <1>7 DEF Reiniciar
  <2>2. hilo[w] # Ocioso
    BY <1>2, <1>7 DEF EnReposo
  <2>3. PICK t \in Tag : t = hilo[w].tag
    BY <1>1, <2>2 DEF EnCurso
  <2>4. \A u \in Tag : u # t => Foto(u)' = Foto(u)
    <3>1. \A u \in Tag : u # t => \A v \in Worker : ~ Guardando(v, u)
      BY <1>2, <2>3 DEF Guardando
    <3> QED
      BY <1>3, <3>1, FotoIgual
  <2>5. \A u \in Tag : u # t => Vista'[u] = Vista[u]
    BY <1>5, <2>3, <2>4, OtrasIguales
  <2>6. Logica!Corta(t)
    <3>1. (cortes' > 0) = TRUE
      BY <2>1
    <3> QED
      BY <2>5, <3>1 DEF Logica!Corta
  <2>7. ~ (cortes > 0)
    OBVIOUS
  <2>8. Logica!Next
    BY <2>3, <2>6, <2>7 DEF Logica!Next
  <2> QED
    BY <2>1, <2>8
<1> QED
  BY <1>6, <1>7

\* Every request that begins.
LEMMA PedidoRefleja ==
    ASSUME StorageAssumption, Tipos, UnSolo, Firme, cortes = 0, NEW w \in Worker, Pedido(w)
    PROVE  Cumple(w)' /\ [Logica!Next]_(Logica!vars)
<1> DEFINE P == Cumple(w)' /\ [Logica!Next]_(Logica!vars)
<1>1. ASSUME NEW t \in Tag, Crear(w, t) \/ Confirmar(w, t) \/ Reconfirmar(w, t) \/ Borrar(w, t)
      PROVE  P
  BY <1>1, CrearRefleja, ConfirmarRefleja, ReconfirmarRefleja, BorrarRefleja
<1>2. ASSUME NEW m, Atiende(w), Para(m)
      PROVE  P
  BY <1>2, ParaRefleja
<1>3. ASSUME NEW t \in Tag, NEW tam \in Tamanios, Crecer(w, t, tam) \/ Achicar(w, t, tam)
      PROVE  P
  BY <1>3, CrecerRefleja, AchicarRefleja
<1>4. ASSUME NEW t \in Tag, NEW u \in Tag, Etiquetar(w, t, u)
      PROVE  P
  BY <1>4, EtiquetarRefleja
<1>5. ASSUME NEW t \in Tag, NEW i \in Logico, NEW v \in Valor,
             EscribirEnSitio(w, t, i, v) \/ EscribirAparte(w, t, i, v)
      PROVE  P
  <2>1. Atiende(w) /\ Escribible(t, i) /\ UNCHANGED discos /\ UNCHANGED proceso
    BY <1>5 DEF EscribirEnSitio, EscribirAparte
  <2>2. PICK p \in {"escribir", "reservar"}, b \in Bloque, nuevo \in BOOLEAN :
          EmpiezaEscritura(w, p, t, i, v, b, nuevo)
    <3>1. CASE EscribirEnSitio(w, t, i, v)
      <4>1. EmpiezaEscritura(w, "escribir", t, i, v, meta[t].bloques[i], FALSE)
        BY <3>1 DEF EscribirEnSitio
      <4>2. meta[t].bloques[i] \in Bloque
        <5>1. PICK m \in Seq(Bloque) : m = meta[t].bloques
          BY MetaEs DEF Lista
        <5>2. i \in DOMAIN m
          BY <2>1, <5>1 DEF Escribible
        <5> QED
          BY <5>1, <5>2
      <4> QED
        BY <4>1, <4>2
    <3>2. CASE EscribirAparte(w, t, i, v)
      <4>1. EmpiezaEscritura(w, "reservar", t, i, v, PrimerBitLibre, TRUE)
        BY <3>2 DEF EscribirAparte
      <4>2. PrimerBitLibre \in Bloque
        <5>1. bitmap # Bloque /\ bitmap \subseteq Bloque
          BY <3>2, BloquesDisco DEF EscribirAparte
        <5>2. Bloque \ bitmap # {}
          BY <5>1
        <5>3. Bloque \ bitmap \subseteq Nat
          BY DEF Bloque
        <5>4. Primero(Bloque \ bitmap) \in Bloque \ bitmap
          BY <5>2, <5>3, PrimeroEs
        <5> QED
          BY <5>4 DEF Primero, PrimerBitLibre
      <4> QED
        BY <4>1, <4>2
    <3> QED
      BY <1>5, <3>1, <3>2
  <2> QED
    BY <2>1, <2>2, EscribirRefleja
<1>6. ASSUME NEW t \in Tag, \/ CrearEnFile(w, t) \/ LeerVacia(w, t)
                            \/ \E i \in Logico : LeerSinEnlace(w, t, i)
      PROVE  \E m : Atiende(w) /\ Para(m)
  BY <1>6 DEF CrearEnFile, LeerVacia, LeerSinEnlace
<1>7. ASSUME NEW t \in Tag, \/ \E tam \in Tamanios : AchicarMal(w, t, tam)
                            \/ \E u \in Tag : EtiquetarMal(w, t, u)
      PROVE  \E m : Atiende(w) /\ Para(m)
  BY <1>7 DEF AchicarMal, EtiquetarMal
<1>8. P
  <2> HIDE DEF P
  <2> QED
    BY <1>1, <1>2, <1>3, <1>4, <1>5, <1>6, <1>7 DEF Pedido
<1> QED
  BY <1>8

\* Every step of one.
LEMMA PasoRefleja ==
    ASSUME StorageAssumption, Tipos, UnSolo, Firme, cortes = 0, NEW w \in Worker, Cumple(w), Paso(w)
    PROVE  Cumple(w)' /\ [Logica!Next]_(Logica!vars)
<1>1. CASE Alargar(w) \/ Marcar(w) \/ Ligar(w)
  BY <1>1, AlargarRefleja, MarcarRefleja, LigarRefleja
<1>2. CASE CompararNulo(w) \/ Buscar(w) \/ Soltar(w) \/ Religar(w)
  BY <1>2, CompararNuloRefleja, BuscarRefleja, SoltarRefleja, ReligarRefleja
<1>3. CASE Desligar(w) \/ Liberar(w) \/ Quitar(w)
  BY <1>3, DesligarRefleja, LiberarRefleja, QuitarRefleja
<1>4. CASE Escribir(w)
  <2>1. CASE EscribirDatos(w) \/ GuardarMetadata(w)
    BY <2>1, EscribirDatosRefleja, GuardarMetadataRefleja
  <2>2. CASE Reservar(w)
    <3>1. /\ En(w, "reservar") /\ Sigue(w, "escribir") /\ meta' = meta
          /\ contenido' = contenido /\ cortes' = cortes
      BY <2>2 DEF Reservar, proceso
    <3>2. PICK x : hilo' = [hilo EXCEPT ![w] = [@ EXCEPT !.indice = x, !.paso = "escribir"]]
      BY <3>1, SigueIgual
    <3> QED
      BY <3>1, <3>2, EscribiendoRefleja
  <2>3. CASE LeerIndice(w)
    <3>1. PICK x : /\ En(w, "hash") /\ meta' = meta /\ contenido' = contenido /\ cortes' = cortes
                   /\ hilo' = [hilo EXCEPT ![w] = [@ EXCEPT !.indice = x, !.paso = "indexar"]]
      <4>1. PICK x : hilo' = [hilo EXCEPT ![w].indice = x, ![w].paso = "indexar"]
        BY <2>3 DEF LeerIndice
      <4>2. hilo' = [hilo EXCEPT ![w] = [@ EXCEPT !.indice = x, !.paso = "indexar"]]
        BY <4>1 DEF Tipos, HilosBien
      <4> QED
        BY <2>3, <4>2 DEF LeerIndice, discos, proceso
    <3> QED
      BY <3>1, EscribiendoRefleja
  <2>4. CASE GuardarHash(w)
    <3>1. PICK d : d = IF hilo[w].nuevo THEN "enlazar" ELSE "guardar"
      OBVIOUS
    <3>2. hilo' = [hilo EXCEPT ![w] = [@ EXCEPT !.indice = <<>>, !.paso = d]]
      <4>1. hilo' = [hilo EXCEPT ![w].indice = <<>>, ![w].paso = d]
        BY <2>4, <3>1 DEF GuardarHash, TrasIndexar
      <4> QED
        BY <4>1 DEF Tipos, HilosBien
    <3>3. /\ En(w, "indexar") /\ meta' = meta /\ contenido' = contenido /\ cortes' = cortes
          /\ d \in {"enlazar", "guardar"}
      BY <2>4, <3>1 DEF GuardarHash, TrasIndexar, proceso
    <3> QED
      BY <3>2, <3>3, EscribiendoRefleja
  <2>5. CASE Enlazar(w)
    <3>1. /\ En(w, "enlazar") /\ Sigue(w, "guardar") /\ meta' = meta
          /\ contenido' = contenido /\ cortes' = cortes
      BY <2>5 DEF Enlazar, proceso
    <3>2. PICK x : hilo' = [hilo EXCEPT ![w] = [@ EXCEPT !.indice = x, !.paso = "guardar"]]
      BY <3>1, SigueIgual
    <3> QED
      BY <3>1, <3>2, EscribiendoRefleja
  <2> QED
    BY <1>4, <2>1, <2>2, <2>3, <2>4, <2>5 DEF Escribir
<1> QED
  BY <1>1, <1>2, <1>3, <1>4 DEF Paso

\* A fresh start.
LEMMA InitRefleja ==
    ASSUME StorageAssumption, UnSolo, Init
    PROVE  Logica!Init /\ Reflejo
<1>1. /\ cortes = 0 /\ contenido[0] = Cero /\ \A w \in Worker : hilo[w] = Ocioso
  BY DEF Init, StorageAssumption
<1>2. Reflejo
  BY <1>1 DEF Reflejo
<1>3. PICK w \in Worker : TRUE
  BY DEF UnSolo
<1>4. ~ En(w, "marcar")
  BY <1>1 DEF En
<1>5. ASSUME NEW t \in Tag
      PROVE  Vista[t] = IF t = Base THEN [estado |-> "COMMITED", bloques |-> <<Cero>>]
                        ELSE [estado |-> "NO", bloques |-> <<>>]
  <2>1. Vista[t] = Foto(t)
    BY <1>4, VistaAntes
  <2>2. CASE t = Base
    <3>1. meta[t].estado = "COMMITED" /\ meta[t].bloques = <<0>>
      BY <2>2 DEF Init
    <3>2. Datos(<<0>>) = <<Cero>>
      <4>1. PICK s : s = <<0>>
        OBVIOUS
      <4>2. DOMAIN s = 1..1 /\ s[1] = 0
        BY <4>1
      <4>3. Datos(s) = [j \in 1..1 |-> Cero]
        BY <1>1, <4>2 DEF Datos
      <4>4. [j \in 1..1 |-> Cero] = <<Cero>>
        OBVIOUS
      <4> QED
        BY <4>1, <4>3, <4>4
    <3> QED
      BY <2>1, <2>2, <3>1, <3>2 DEF Foto
  <2>3. CASE t # Base
    <3>1. meta[t].estado = "NO" /\ meta[t].bloques = <<>>
      BY <2>3 DEF Init, NoExiste
    <3> QED
      BY <2>1, <2>3, <3>1, DatosNada DEF Foto
  <2> QED
    BY <2>2, <2>3
<1>6. Vista = [t \in Tag |-> IF t = Base THEN [estado |-> "COMMITED", bloques |-> <<Cero>>]
                             ELSE [estado |-> "NO", bloques |-> <<>>]]
  <2>1. PICK f : f = Vista
    OBVIOUS
  <2>2. f = [t \in Tag |-> f[t]]
    BY <2>1 DEF Vista
  <2>3. f = [t \in Tag |-> IF t = Base THEN [estado |-> "COMMITED", bloques |-> <<Cero>>]
                           ELSE [estado |-> "NO", bloques |-> <<>>]]
    BY <1>5, <2>1, <2>2
  <2> QED
    BY <2>1, <2>3
<1>7. (cortes > 0) = FALSE
  BY <1>1
<1>8. Logica!Init
  BY <1>6, <1>7 DEF Logica!Init, Logica!NoExiste
<1> QED
  BY <1>2, <1>8

\* A step of Storage is one of Archivos or none.
LEMMA CadaPaso ==
    ASSUME UnSolo, Tipos, Exacto, Reflejo, [Next]_vars
    PROVE  Reflejo' /\ [Logica!Next]_(Logica!vars)
<1>1. PICK w \in Worker : \A v \in Worker : v = w
  BY DEF UnSolo
<1>2. cortes \in Nat
  BY StorageAssumption DEF Tipos, ProcesoBien, StorageAssumption
<1>3. CASE UNCHANGED vars
  <2>1. Vista' = Vista /\ cortes' = cortes
    BY <1>3 DEF vars, Vista, En, Contenidos
  <2>2. Reflejo'
    <3>1. \A r : Intencion(r) => Intencion(r)'
      BY <1>3, IntencionIgual DEF vars
    <3> QED
      BY <1>3, <3>1 DEF Reflejo, vars
  <2> QED
    BY <2>1, <2>2 DEF Logica!vars
<1>4. CASE Next /\ cortes = 0
  <2>1. Firme /\ Cumple(w)
    BY <1>4 DEF Exacto, Reflejo, Cumple
  <2>2. (cortes' = 0 => Cumple(w)') /\ [Logica!Next]_(Logica!vars)
    <3>1. CASE Reiniciar
      BY <1>4, <2>1, <3>1, StorageAssumption, ReiniciarRefleja
    <3>2. CASE Pedido(w)
      BY <1>4, <2>1, <3>2, StorageAssumption, PedidoRefleja
    <3>3. CASE Paso(w)
      BY <1>4, <2>1, <3>3, StorageAssumption, PasoRefleja
    <3> QED
      BY <1>1, <1>4, <3>1, <3>2, <3>3 DEF Next
  <2>3. Reflejo'
    BY <1>1, <2>2 DEF Reflejo, Cumple
  <2> QED
    BY <2>2, <2>3
<1>5. CASE Next /\ cortes # 0
  <2>1. cortes' = cortes \/ cortes' = cortes + 1
    <3>1. ASSUME NEW v \in Worker, Pedido(v) \/ Paso(v)
          PROVE  cortes' = cortes
      BY <3>1, PasoCortes
    <3>2. Reiniciar => cortes' = cortes \/ cortes' = cortes + 1
      BY DEF Reiniciar
    <3> QED
      BY <1>5, <3>1, <3>2 DEF Next
  <2>2. cortes > 0 /\ cortes' > 0
    BY <1>2, <1>5, <2>1
  <2>3. Reflejo'
    BY <2>2 DEF Reflejo
  <2>4. Logica!Next
    BY <2>2 DEF Logica!Next
  <2> QED
    BY <2>3, <2>4
<1> QED
  BY <1>3, <1>4, <1>5

\* With one Worker, Storage implements Archivos: copying, deduplicating, freeing
\* and reusing blocks, one step at a time, changes what no file:tag holds but
\* for the block that a WRITE is for; a restart between requests changes
\* nothing, and a stop in the middle of one leaves every other file:tag as it was.
THEOREM StorageRefinaArchivos == ASSUME UnSolo PROVE Spec => RefinaArchivos
<1>1. Init => Logica!Init /\ Reflejo
  BY StorageAssumption, InitRefleja
<1>2. Tipos /\ Exacto /\ Reflejo /\ [Next]_vars => Reflejo' /\ [Logica!Next]_(Logica!vars)
  BY CadaPaso
<1> QED
  BY <1>1, <1>2, StorageInductivo, ExactoInductivo, PTL DEF Spec, RefinaArchivos, Logica!Spec
=============================================================================
