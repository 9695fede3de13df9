--------------------------- MODULE Storage_proofs ---------------------------
(***************************************************************************)
(* Types of Storage, for any number of Workers at once and any stops, and, *)
(* for one Worker until a stop cuts a request, that every block that       *)
(* BLOQUES names has a hash (HashPresente).  Both rest on what the         *)
(* requests under way hold: a request works on logical blocks of its copy  *)
(* of the metadata, and that copy names blocks with a hash only, except    *)
(* for the one that a WRITE has still to save.                             *)
(***************************************************************************)
EXTENDS Storage, WellFoundedInduction, TLAPS

\* The hash index is saved whole and with no lock: it keeps its entries when
\* there is one Worker, until a stop cuts a request.
UnSoloWorker == \A v, w \in Worker : v = w
Seguro == UnSoloWorker /\ cortes = 0

\* Blocks that have a hash, as far as that can be said, and what BLOQUES may be.
ConHash == {b \in 0..(Bloques - 1) : Seguro => hash[b] # Nadie}
Lista(S) == {s \in Seq(S) : Len(s) <= MaxLogicos}

Escribiendo == {"reservar", "escribir", "hash", "indexar"}
Deduplicando == {"buscar", "soltar", "religar"}
PorBloques == {"marcar", "ligar", "desligar", "liberar"} \cup Deduplicando
ConFaltan == {"alargar", "ligar", "desligar", "liberar", "enlazar"} \cup Deduplicando
     \cup Escribiendo

\* A request under way, over the directories D, when the blocks of C have a hash.
TareaBien(h, D, C) ==
    /\ h \in EnCurso /\ FileDe[h.tag] \in D
    /\ h.copia.bloques \in Lista(C \cup (IF h.paso \in Escribiendo THEN {h.bloque} ELSE {}))
    /\ h.paso \in ConFaltan => h.faltan # <<>>
    /\ h.paso \in PorBloques => h.faltan \in Seq(DOMAIN h.copia.bloques)
    /\ h.paso \in Deduplicando \cup {"indexar"} =>
         h.indice \in [Bloque -> Valor \cup {Nadie}]
         /\ \A b \in Bloque : h.indice[b] # Nadie => b \in C
    /\ h.paso \in {"soltar", "religar"} => h.bloque \in C
    /\ h.paso \in Escribiendo \cup {"enlazar"} => h.bloque \in Bloque
    /\ h.paso \in Escribiendo => h.valor \in Valor
    /\ h.paso \in {"hash", "indexar"} => h.bloque \in 0..(Bloques - 1)

HashBien ==
    /\ hash \in [Bloque -> Valor \cup {Nadie}]
    /\ 0 \in ConHash
    /\ \A b \in Bloque : hash[b] # Nadie => b \in ConHash

MetasBien ==
    /\ dirs \subseteq {FileDe[t] : t \in Tag}
    /\ meta \in [Tag -> Metadata]
    /\ \A t \in Tag : meta[t].bloques \in Lista(ConHash) /\ (Existe(t) => FileDe[t] \in dirs)

BloquesBien ==
    /\ enlaces \in [Tag -> [Logico -> Bloque \cup {Nadie}]]
    /\ contenido \in [0..(Bloques - 1) -> Valor]
    /\ bitmap \subseteq Bloque

HilosBien ==
    /\ hilo \in [Worker -> EnCurso \cup {Ocioso}]
    /\ \A w \in Worker : hilo[w] # Ocioso => TareaBien(hilo[w], dirs, ConHash)
    /\ \A w \in Worker : Seguro /\ hilo[w] # Ocioso /\ hilo[w].paso = "indexar"
                            => hilo[w].indice = hash

ProcesoBien ==
    /\ parada \in {"no", "CREATE", "TAG", "READ", "TRUNCATE", "COMMIT", "metadata", "mutex"}
    /\ cortes \in 0..MaxCortes

Tipos == HashBien /\ MetasBien /\ BloquesBien /\ HilosBien /\ ProcesoBien

-----------------------------------------------------------------------------
(* Numbers and sequences.                                                  *)

\* The blocks between two sizes fit between their quotients.
LEMMA DivSuma ==
    ASSUME NEW a \in Nat, NEW c \in Nat, NEW b \in Nat \ {0}
    PROVE  (a \div b) + (c \div b) <= (a + c) \div b /\ a \div b \in Nat /\ c \div b \in Nat
OBVIOUS

\* A size within the bound has no more blocks than the bound.
LEMMA DivCota ==
    ASSUME NEW a \in Nat, NEW n \in Nat, NEW b \in Nat \ {0}, a <= b * (n + 1) - 1
    PROVE  a \div b <= n
OBVIOUS

\* The sizes of a file:tag.
LEMMA TamanioCota ==
    ASSUME StorageAssumption, NEW tam \in Tamanios \cup {0, BLOCK_SIZE}
    PROVE  tam \in Nat /\ tam \div BLOCK_SIZE \in Nat /\ tam \div BLOCK_SIZE <= MaxLogicos
<1>1. /\ BLOCK_SIZE \in Nat \ {0} /\ MaxLogicos \in Nat \ {0}
      /\ Tamanios \subseteq 0..(BLOCK_SIZE * (MaxLogicos + 1) - 1)
  BY DEF StorageAssumption
<1>2. PICK B \in Nat \ {0}, M \in Nat \ {0} : B = BLOCK_SIZE /\ M = MaxLogicos
  BY <1>1
<1>3. B <= B * (M + 1) - 1 /\ B * (M + 1) - 1 \in Nat
  <2>1. B * (M + 1) = B * M + B /\ B * M \in Nat /\ B * M >= 1
    OBVIOUS
  <2> QED
    BY <2>1
<1>4. tam \in Nat /\ tam <= B * (M + 1) - 1
  BY <1>1, <1>2, <1>3
<1> QED
  BY <1>2, <1>4, DivCota, DivSuma

\* A longer set, longer lists.
LEMMA ListaCrece ==
    ASSUME NEW S, NEW T, S \subseteq T, NEW s \in Lista(S)
    PROVE  s \in Lista(T)
BY DEF Lista

\* The indices of a list are logical blocks.
LEMMA IndicesTipo ==
    ASSUME StorageAssumption, NEW m, m.bloques \in Lista(Bloque)
    PROVE  /\ Indices(m) \in Seq(Logico) /\ Indices(m) \in Seq(DOMAIN m.bloques)
           /\ Indices(m) = <<>> <=> m.bloques = <<>>
           /\ Len(Indices(m)) = Len(m.bloques)
<1>1. PICK s \in Seq(Bloque) : s = m.bloques /\ Len(s) <= MaxLogicos
  BY DEF Lista
<1>2. DOMAIN s = 1..Len(s) /\ Len(s) \in Nat /\ MaxLogicos \in Nat
  BY DEF StorageAssumption
<1>3. DOMAIN s \subseteq Logico
  BY <1>1, <1>2 DEF Logico
<1>4. Indices(m) = [i \in 1..Len(s) |-> i]
  BY <1>1, <1>2 DEF Indices
<1>5. Indices(m) \in Seq(1..Len(s)) /\ Len(Indices(m)) = Len(s)
  BY <1>2, <1>4
<1>6. Indices(m) \in Seq(DOMAIN s) /\ Indices(m) \in Seq(Logico)
  BY <1>2, <1>3, <1>5
<1> QED
  BY <1>1, <1>2, <1>5, <1>6

\* What is left after the head.
LEMMA RestoTipo ==
    ASSUME NEW S, NEW s \in Seq(S), s # <<>>
    PROVE  /\ Head(s) \in S /\ Tail(s) \in Seq(S) /\ Len(s) \in Nat \ {0}
           /\ Len(s) # 1 => Tail(s) # <<>>
<1>1. Len(s) \in Nat \ {0} /\ s[1] \in S
  OBVIOUS
<1>2. Head(s) \in S /\ Tail(s) \in Seq(S) /\ Len(Tail(s)) = Len(s) - 1
  BY <1>1
<1>3. Len(s) # 1 => Tail(s) # <<>>
  <2>1. Len(<<>>) = 0
    OBVIOUS
  <2>2. Len(s) # 1 => Len(Tail(s)) # 0
    BY <1>1, <1>2
  <2> QED
    BY <2>1, <2>2
<1> QED
  BY <1>1, <1>2, <1>3

\* One block of a list is another.
LEMMA ListaCambia ==
    ASSUME NEW S, NEW s \in Lista(S), NEW i \in DOMAIN s, NEW b
    PROVE  [s EXCEPT ![i] = b] \in Lista(S \cup {b}) /\ DOMAIN [s EXCEPT ![i] = b] = DOMAIN s
<1>1. s \in Seq(S) /\ Len(s) <= MaxLogicos /\ DOMAIN s = 1..Len(s) /\ Len(s) \in Nat
  BY DEF Lista
<1>2. [s EXCEPT ![i] = b] \in Seq(S \cup {b}) /\ Len([s EXCEPT ![i] = b]) = Len(s)
  BY <1>1
<1> QED
  BY <1>1, <1>2 DEF Lista

\* The first of some numbers is one of them.
LEMMA PrimeroEs ==
    ASSUME NEW S, S \subseteq Nat, S # {}
    PROVE  Primero(S) \in S
<1>1. IsWellFoundedOn(OpToRel(<, Nat), Nat)
  BY NatLessThanWellFounded
<1>2. PICK k \in S : \A l \in S : ~ (<<l, k>> \in OpToRel(<, Nat))
  BY <1>1, WFMin
<1>3. \A l \in S : k <= l
  <2>1. \A l \in S : ~ (l < k)
    BY <1>2 DEF OpToRel
  <2> QED
    BY <2>1
<1>4. \E m \in S : \A l \in S : m <= l
  BY <1>2, <1>3
<1> QED
  BY <1>4 DEF Primero

-----------------------------------------------------------------------------
(* What a step has to show.                                                *)

\* With more directories and more hashes a request is as well as it was.
LEMMA TareaSigue ==
    ASSUME NEW h, NEW D, NEW E, NEW C, NEW F, TareaBien(h, D, C), D \subseteq E, C \subseteq F
    PROVE  TareaBien(h, E, F)
<1>1. h.copia.bloques \in Lista(F \cup (IF h.paso \in Escribiendo THEN {h.bloque} ELSE {}))
  BY ListaCrece DEF TareaBien
<1> QED
  BY <1>1 DEF TareaBien

\* A request comes to r, or ends, and the disk is as well as it was.
LEMMA MueveUno ==
    ASSUME Tipos, NEW w \in Worker, NEW r, hilo' = [hilo EXCEPT ![w] = r], UNCHANGED proceso,
           HashBien', MetasBien', BloquesBien', dirs \subseteq dirs', ConHash \subseteq ConHash',
           r = Ocioso \/ TareaBien(r, dirs', ConHash'),
           r = Ocioso \/ r.paso # "indexar" \/ (Seguro => r.indice = hash')
    PROVE  Tipos'
<1>1. r \in EnCurso \cup {Ocioso}
  BY DEF TareaBien
<1>2. hilo \in [Worker -> EnCurso \cup {Ocioso}]
  BY DEF Tipos, HilosBien
<1>3. hilo' \in [Worker -> EnCurso \cup {Ocioso}]
  BY <1>1, <1>2
<1>4. ASSUME NEW v \in Worker, hilo'[v] # Ocioso
      PROVE  TareaBien(hilo'[v], dirs', ConHash')
  <2>1. CASE v = w
    BY <1>2, <1>4, <2>1
  <2>2. CASE v # w
    <3>1. hilo'[v] = hilo[v]
      BY <1>2, <2>2
    <3>2. TareaBien(hilo[v], dirs, ConHash)
      BY <1>4, <3>1 DEF Tipos, HilosBien
    <3>3. TareaBien(hilo[v], dirs', ConHash')
      BY <3>2, TareaSigue
    <3> QED
      BY <3>1, <3>3
  <2> QED
    BY <2>1, <2>2
<1>5. ASSUME NEW v \in Worker, Seguro', hilo'[v] # Ocioso, hilo'[v].paso = "indexar"
      PROVE  hilo'[v].indice = hash'
  <2>1. v = w /\ Seguro
    BY <1>5 DEF Seguro, UnSoloWorker, proceso
  <2> QED
    BY <1>2, <1>5, <2>1
<1>6. HilosBien'
  BY <1>3, <1>4, <1>5 DEF HilosBien
<1>7. ProcesoBien'
  BY DEF Tipos, ProcesoBien, proceso
<1> QED
  BY <1>6, <1>7 DEF Tipos

\* The disk is as it was.
LEMMA DiscoFijo ==
    ASSUME Tipos, UNCHANGED discos, cortes' = cortes
    PROVE  /\ HashBien' /\ MetasBien' /\ BloquesBien'
           /\ dirs' = dirs /\ ConHash' = ConHash /\ Seguro' = Seguro
BY DEF Tipos, HashBien, MetasBien, BloquesBien, ConHash, Seguro, Existe, discos

\* So it is when a request begins.
LEMMA DiscoIgual ==
    ASSUME Tipos, UNCHANGED discos, UNCHANGED proceso
    PROVE  /\ HashBien' /\ MetasBien' /\ BloquesBien'
           /\ dirs' = dirs /\ ConHash' = ConHash
BY DiscoFijo DEF proceso

\* The hash index is as it was.
LEMMA HashIgual ==
    ASSUME HashBien, hash' = hash, UNCHANGED proceso
    PROVE  HashBien' /\ ConHash' = ConHash
BY DEF HashBien, ConHash, Seguro, proceso

\* The metadata and the hash index are as they were.
LEMMA MetasIgual ==
    ASSUME Tipos, hash' = hash, meta' = meta, dirs' = dirs, UNCHANGED proceso
    PROVE  HashBien' /\ MetasBien' /\ dirs' = dirs /\ ConHash' = ConHash
BY DEF Tipos, HashBien, MetasBien, ConHash, Seguro, proceso, Existe

\* One file:tag gets a new metadata.
LEMMA MetaCambia ==
    ASSUME Tipos, NEW t \in Tag, NEW m \in Metadata, meta' = [meta EXCEPT ![t] = m], hash' = hash,
           dirs \subseteq dirs', dirs' \subseteq {FileDe[u] : u \in Tag}, UNCHANGED proceso,
           m.bloques \in Lista(ConHash), m.estado # "NO" => FileDe[t] \in dirs'
    PROVE  HashBien' /\ MetasBien' /\ ConHash' = ConHash
<1>1. HashBien' /\ ConHash' = ConHash
  BY HashIgual DEF Tipos
<1>2. meta \in [Tag -> Metadata]
  BY DEF Tipos, MetasBien
<1>3. meta' \in [Tag -> Metadata]
  BY <1>2
<1>4. ASSUME NEW u \in Tag
      PROVE  meta'[u].bloques \in Lista(ConHash') /\ (Existe(u)' => FileDe[u] \in dirs')
  <2>1. CASE u = t
    BY <1>1, <1>2, <2>1 DEF Existe
  <2>2. CASE u # t
    BY <1>1, <1>2, <2>2 DEF Existe, Tipos, MetasBien
  <2> QED
    BY <2>1, <2>2
<1> QED
  BY <1>1, <1>3, <1>4 DEF MetasBien

\* What a request under way is at.
LEMMA EnTarea ==
    ASSUME Tipos, NEW w \in Worker, NEW p, En(w, p)
    PROVE  /\ hilo[w].paso = p /\ TareaBien(hilo[w], dirs, ConHash) /\ hilo[w] \in EnCurso
           /\ hilo[w].tag \in Tag /\ hilo \in [Worker -> EnCurso \cup {Ocioso}]
<1>1. hilo[w].paso = p /\ hilo[w] # Ocioso
  BY DEF En
<1>2. TareaBien(hilo[w], dirs, ConHash) /\ hilo \in [Worker -> EnCurso \cup {Ocioso}]
  BY <1>1 DEF Tipos, HilosBien
<1>3. hilo[w] \in EnCurso
  BY <1>2 DEF TareaBien
<1> QED
  BY <1>1, <1>2, <1>3 DEF EnCurso

\* Storage stops by itself.
LEMMA ParaTipos ==
    ASSUME Tipos, NEW m \in {"CREATE", "TAG", "READ", "TRUNCATE", "COMMIT", "metadata", "mutex"}, Para(m)
    PROVE  Tipos'
<1>1. UNCHANGED discos /\ parada' = m /\ cortes' = cortes /\ hilo' = hilo
  BY DEF Para
<1>2. HashBien' /\ MetasBien' /\ BloquesBien' /\ dirs' = dirs /\ ConHash' = ConHash
        /\ Seguro' = Seguro /\ hash' = hash
  BY <1>1, DiscoFijo DEF discos
<1>3. HilosBien'
  BY <1>1, <1>2 DEF Tipos, HilosBien
<1>4. ProcesoBien'
  BY <1>1 DEF Tipos, ProcesoBien
<1> QED
  BY <1>2, <1>3, <1>4 DEF Tipos

\* What Avanza changes, and what it does not.
LEMMA AvanzaEs ==
    ASSUME NEW h \in EnCurso, NEW p \in Pasos, NEW d \in Pasos, h.faltan # <<>>
    PROVE  /\ Avanza(h, p, d) \in EnCurso
           /\ Avanza(h, p, d).faltan = Tail(h.faltan)
           /\ Avanza(h, p, d).paso = (IF Len(h.faltan) = 1 THEN d ELSE p)
           /\ Avanza(h, p, d).tag = h.tag /\ Avanza(h, p, d).copia = h.copia
           /\ Avanza(h, p, d).indice = h.indice /\ Avanza(h, p, d).bloque = h.bloque
           /\ Avanza(h, p, d).valor = h.valor
<1>1. Tail(h.faltan) \in Seq(Logico)
  BY RestoTipo DEF EnCurso
<1> QED
  BY <1>1 DEF Avanza, EnCurso

\* On to the next logical block, a request goes on being well.
LEMMA TareaAvanza ==
    ASSUME NEW h, NEW D, NEW C, TareaBien(h, D, C),
           NEW p \in {"alargar", "desligar", "liberar", "buscar"}, NEW d \in {"guardar", "quitar"},
           h.paso = p \/ (h.paso \in Deduplicando /\ p = "buscar")
    PROVE  TareaBien(Avanza(h, p, d), D, C) /\ Avanza(h, p, d).paso # "indexar"
<1>1. h \in EnCurso /\ FileDe[h.tag] \in D /\ h.faltan # <<>> /\ h.faltan \in Seq(Logico)
  BY DEF TareaBien, ConFaltan, Deduplicando, EnCurso
<1>2. h.copia.bloques \in Lista(C)
  <2>1. h.paso \notin Escribiendo
    BY DEF Escribiendo, Deduplicando
  <2>2. h.copia.bloques \in Lista(C \cup {})
    BY <2>1 DEF TareaBien
  <2> QED
    BY <2>2
<1>3. p \in Pasos /\ d \in Pasos
  BY DEF Pasos
<1>4. PICK r : r = Avanza(h, p, d)
  OBVIOUS
<1>5. /\ r \in EnCurso /\ r.faltan = Tail(h.faltan) /\ r.tag = h.tag /\ r.copia = h.copia
      /\ r.paso = (IF Len(h.faltan) = 1 THEN d ELSE p) /\ r.indice = h.indice
  BY <1>1, <1>3, <1>4, AvanzaEs
<1>6. FileDe[r.tag] \in D /\ r.copia.bloques \in Lista(C \cup {r.bloque})
        /\ r.copia.bloques \in Lista(C)
  BY <1>1, <1>2, <1>5, ListaCrece
<1>7. CASE Len(h.faltan) = 1
  <2>1. r.paso \in {"guardar", "quitar"}
    BY <1>5, <1>7
  <2> QED
    BY <1>4, <1>5, <1>6, <2>1 DEF TareaBien, ConFaltan, PorBloques, Deduplicando, Escribiendo
<1>8. CASE Len(h.faltan) # 1
  <2>1. r.paso = p /\ r.faltan # <<>>
    BY <1>1, <1>5, <1>8, RestoTipo
  <2>2. r.paso \in PorBloques => r.faltan \in Seq(DOMAIN r.copia.bloques)
    <3>1. CASE r.paso \in PorBloques
      <4>1. h.paso \in PorBloques
        BY <2>1, <3>1 DEF PorBloques
      <4>2. h.faltan \in Seq(DOMAIN h.copia.bloques)
        BY <4>1 DEF TareaBien
      <4> QED
        BY <1>1, <1>5, <4>2, RestoTipo
    <3> QED
      BY <3>1
  <2>3. r.paso \in Deduplicando =>
          r.indice \in [Bloque -> Valor \cup {Nadie}]
          /\ \A b \in Bloque : r.indice[b] # Nadie => b \in C
    <3>1. r.paso \in Deduplicando => h.paso \in Deduplicando
      BY <2>1 DEF Deduplicando
    <3> QED
      BY <1>5, <3>1 DEF TareaBien
  <2>4. r.paso \notin Escribiendo \cup {"enlazar", "soltar", "religar", "hash", "indexar"}
    BY <2>1 DEF Escribiendo
  <2> QED
    BY <1>4, <1>5, <1>6, <2>1, <2>2, <2>3, <2>4 DEF TareaBien, Escribiendo
<1>9. r.paso # "indexar"
  BY <1>5
<1> QED
  BY <1>4, <1>7, <1>8, <1>9

\* A request that begins, on logical blocks of its copy of the metadata.
LEMMA EmpiezaTipos ==
    ASSUME StorageAssumption, Tipos, NEW w \in Worker, NEW t \in Tag, NEW ls \in Seq(Logico),
           NEW m \in Metadata, NEW p \in Pasos \ ({"enlazar"} \cup Deduplicando \cup Escribiendo),
           HashBien', MetasBien', BloquesBien', dirs \subseteq dirs', ConHash \subseteq ConHash',
           FileDe[t] \in dirs', m.bloques \in Lista(ConHash),
           p \in ConFaltan => ls # <<>>, p \in PorBloques => ls \in Seq(DOMAIN m.bloques),
           Empieza(w, p, t, ls, m), UNCHANGED proceso
    PROVE  Tipos'
<1>1. PICK r : r = [paso |-> p, tag |-> t, faltan |-> ls, copia |-> m, indice |-> <<>>,
                    valor |-> Nadie, bloque |-> Nadie, nuevo |-> FALSE]
  OBVIOUS
<1>2. hilo' = [hilo EXCEPT ![w] = r]
  BY <1>1 DEF Empieza
<1>3. r \in EnCurso
  BY <1>1 DEF EnCurso
<1>4. m.bloques \in Lista(ConHash')
  BY ListaCrece
<1>5. r.tag = t /\ r.copia = m /\ r.faltan = ls /\ r.paso = p
  BY <1>1
<1>6. p \notin {"enlazar", "soltar", "religar", "hash", "indexar"} \cup Deduplicando \cup Escribiendo
  BY DEF Deduplicando, Escribiendo
<1>7. r.copia.bloques \in Lista(ConHash' \cup (IF r.paso \in Escribiendo THEN {r.bloque} ELSE {}))
  BY <1>4, <1>5, <1>6
<1>8. TareaBien(r, dirs', ConHash')
  BY <1>3, <1>5, <1>6, <1>7 DEF TareaBien
<1>9. r.paso # "indexar"
  BY <1>5, <1>6 DEF Escribiendo
<1> QED
  BY <1>2, <1>8, <1>9, MueveUno

-----------------------------------------------------------------------------
(* The requests that begin.                                                *)

\* The metadata of a file:tag.
LEMMA MetaEs ==
    ASSUME StorageAssumption, Tipos, NEW t \in Tag
    PROVE  /\ meta[t] \in Metadata /\ meta[t].bloques \in Lista(ConHash)
           /\ meta[t].bloques \in Lista(Bloque) /\ (Existe(t) => FileDe[t] \in dirs)
           /\ meta[t].tam \in Tamanios \cup {0, BLOCK_SIZE}
           /\ meta[t].bloques \in Seq(ConHash) /\ ConHash \subseteq Bloque
<1>1. meta[t] \in Metadata /\ meta[t].bloques \in Lista(ConHash)
        /\ (Existe(t) => FileDe[t] \in dirs)
  BY DEF Tipos, MetasBien
<1>2. ConHash \subseteq Bloque
  BY DEF ConHash, Bloque, StorageAssumption
<1>3. meta[t].bloques \in Lista(Bloque)
  BY <1>1, <1>2, ListaCrece
<1>4. meta[t].tam \in Tamanios \cup {0, BLOCK_SIZE}
  BY <1>1 DEF Metadata
<1> QED
  BY <1>1, <1>2, <1>3, <1>4 DEF Lista

\* A CREATE that is done.
LEMMA CrearTipos ==
    ASSUME StorageAssumption, Tipos, NEW w \in Worker, NEW t \in Tag, Crear(w, t)
    PROVE  Tipos'
<1>1. PICK m : m = [NoExiste EXCEPT !.estado = "WORK_IN_PROGRESS"]
  OBVIOUS
<1>2. m = [tam |-> 0, estado |-> "WORK_IN_PROGRESS", bloques |-> <<>>]
  BY <1>1 DEF NoExiste
<1>3. m \in Metadata /\ m.bloques = <<>>
  BY <1>2 DEF Metadata
<1>4. <<>> \in Lista(ConHash)
  BY DEF Lista, StorageAssumption
<1>5. /\ dirs' = dirs \cup {FileDe[t]} /\ meta' = [meta EXCEPT ![t] = m] /\ hash' = hash
      /\ enlaces' = enlaces /\ contenido' = contenido /\ bitmap' = bitmap
      /\ hilo' = hilo /\ UNCHANGED proceso
  BY <1>1 DEF Crear, EnUnPaso
<1>6. dirs \subseteq {FileDe[u] : u \in Tag}
  BY DEF Tipos, MetasBien
<1>7. dirs' \subseteq {FileDe[u] : u \in Tag} /\ FileDe[t] \in dirs' /\ dirs \subseteq dirs'
  BY <1>5, <1>6
<1>8. HashBien' /\ MetasBien' /\ ConHash' = ConHash
  BY <1>3, <1>4, <1>5, <1>7, MetaCambia
<1>9. BloquesBien'
  BY <1>5 DEF Tipos, BloquesBien
<1>10. HilosBien'
  BY <1>5, <1>7, <1>8, TareaSigue DEF Tipos, HilosBien, Seguro, proceso
<1>11. ProcesoBien'
  BY <1>5 DEF Tipos, ProcesoBien, proceso
<1> QED
  BY <1>8, <1>9, <1>10, <1>11 DEF Tipos

\* A TRUNCATE to a larger size: the new names are within the bound, since
\* names are counted from the sizes.
LEMMA CrecerTipos ==
    ASSUME StorageAssumption, Tipos, NEW w \in Worker, NEW t \in Tag,
           NEW tam \in Tamanios, Crecer(w, t, tam)
    PROVE  Tipos'
<1>1. /\ meta[t] \in Metadata /\ meta[t].bloques \in Lista(ConHash) /\ FileDe[t] \in dirs
      /\ meta[t].tam \in Tamanios \cup {0, BLOCK_SIZE} /\ tam >= meta[t].tam
      /\ UNCHANGED discos /\ UNCHANGED proceso
  BY MetaEs DEF Crecer, Legible, Existe
<1>2. PICK n, primero, s :
        /\ n = (tam - meta[t].tam) \div BLOCK_SIZE /\ primero = meta[t].tam \div BLOCK_SIZE + 1
        /\ s = meta[t].bloques
  OBVIOUS
<1>3. /\ Len(s) + n <= MaxLogicos
      /\ Empieza(w, IF n = 0 THEN "guardar" ELSE "alargar", t, [k \in 1..n |-> primero + k - 1],
                 [meta[t] EXCEPT !.tam = tam, !.bloques = @ \o [i \in 1..n |-> 0]])
  BY <1>2 DEF Crecer
<1>4. PICK a \in Nat, c \in Nat, b \in Nat \ {0} :
        a = meta[t].tam /\ c = tam - a /\ b = BLOCK_SIZE /\ tam = a + c
  <2>1. meta[t].tam \in Nat /\ tam \in Nat
    BY <1>1, TamanioCota
  <2>2. tam - meta[t].tam \in Nat /\ tam = meta[t].tam + (tam - meta[t].tam)
    BY <1>1, <2>1
  <2>3. BLOCK_SIZE \in Nat \ {0}
    BY DEF StorageAssumption
  <2> QED
    BY <2>1, <2>2, <2>3
<1>5. n \in Nat /\ a \div b \in Nat /\ (a \div b) + n <= MaxLogicos /\ MaxLogicos \in Nat
  <2>1. (a \div b) + (c \div b) <= (a + c) \div b /\ a \div b \in Nat /\ c \div b \in Nat
    BY DivSuma
  <2>2. tam \div b \in Nat /\ tam \div b <= MaxLogicos
    BY <1>4, TamanioCota
  <2>3. MaxLogicos \in Nat
    BY DEF StorageAssumption
  <2>4. n = c \div b /\ (a + c) \div b = tam \div b
    BY <1>2, <1>4
  <2> QED
    BY <2>1, <2>2, <2>3, <2>4
<1>6. PICK ls : ls = [k \in 1..n |-> primero + k - 1]
  OBVIOUS
<1>7. ls \in Seq(Logico) /\ (n # 0 => ls # <<>>)
  <2>1. primero \in Nat \ {0} /\ primero + n - 1 <= MaxLogicos
    BY <1>2, <1>4, <1>5
  <2>2. \A k \in 1..n : primero + k - 1 \in Logico
    BY <1>5, <2>1 DEF Logico
  <2>3. Len(ls) = n /\ ls \in Seq(Logico)
    BY <1>5, <1>6, <2>2
  <2>4. Len(<<>>) = 0
    OBVIOUS
  <2> QED
    BY <2>3, <2>4
<1>8. PICK m : m = [meta[t] EXCEPT !.tam = tam, !.bloques = @ \o [i \in 1..n |-> 0]]
  OBVIOUS
<1>9. m \in Metadata /\ m.bloques \in Lista(ConHash)
  <2>1. PICK z : z = [i \in 1..n |-> 0]
    OBVIOUS
  <2>2. 0 \in ConHash /\ s \in Seq(ConHash) /\ Len(s) \in Nat
    BY <1>1, <1>2 DEF Tipos, HashBien, Lista
  <2>3. z \in Seq(ConHash) /\ Len(z) = n
    BY <1>5, <2>1, <2>2
  <2>4. s \o z \in Seq(ConHash) /\ Len(s \o z) = Len(s) + n
    BY <2>2, <2>3
  <2>5. m = [meta[t] EXCEPT !.tam = tam, !.bloques = s \o z]
    BY <1>1, <1>2, <1>8, <2>1 DEF Metadata
  <2>6. ConHash \subseteq Bloque
    BY MetaEs
  <2>7. s \o z \in Seq(Bloque)
    BY <2>4, <2>6
  <2>8. m \in Metadata /\ m.bloques = s \o z
    BY <1>1, <2>5, <2>7 DEF Metadata
  <2> QED
    BY <1>3, <2>4, <2>8 DEF Lista
<1>10. PICK p : p = IF n = 0 THEN "guardar" ELSE "alargar"
  OBVIOUS
<1>11. /\ p \in Pasos \ ({"enlazar"} \cup Deduplicando \cup Escribiendo) /\ p \notin PorBloques
       /\ p \in ConFaltan => ls # <<>>
  BY <1>7, <1>10 DEF Pasos, Deduplicando, Escribiendo, PorBloques, ConFaltan
<1>12. Empieza(w, p, t, ls, m)
  BY <1>3, <1>6, <1>8, <1>10
<1>13. HashBien' /\ MetasBien' /\ BloquesBien' /\ dirs' = dirs /\ ConHash' = ConHash
  BY <1>1, DiscoIgual
<1> QED
  BY <1>1, <1>7, <1>9, <1>11, <1>12, <1>13, EmpiezaTipos

\* A TRUNCATE to a smaller size.
LEMMA AchicarTipos ==
    ASSUME StorageAssumption, Tipos, NEW w \in Worker, NEW t \in Tag,
           NEW tam \in Tamanios, Achicar(w, t, tam)
    PROVE  Tipos'
<1>1. /\ meta[t] \in Metadata /\ meta[t].bloques \in Lista(ConHash) /\ FileDe[t] \in dirs
      /\ Empieza(w, "guardar", t, <<>>, [meta[t] EXCEPT !.tam = tam])
      /\ UNCHANGED discos /\ UNCHANGED proceso
  BY MetaEs DEF Achicar, Legible, Existe
<1>2. PICK m : m = [meta[t] EXCEPT !.tam = tam]
  OBVIOUS
<1>3. m \in Metadata /\ m.bloques = meta[t].bloques
  BY <1>1, <1>2 DEF Metadata
<1>4. /\ "guardar" \in Pasos \ ({"enlazar"} \cup Deduplicando \cup Escribiendo)
      /\ "guardar" \notin PorBloques \cup ConFaltan
  BY DEF Pasos, Deduplicando, Escribiendo, PorBloques, ConFaltan
<1>5. HashBien' /\ MetasBien' /\ BloquesBien' /\ dirs' = dirs /\ ConHash' = ConHash
  BY <1>1, DiscoIgual
<1>6. <<>> \in Seq(Logico)
  OBVIOUS
<1> QED
  BY <1>1, <1>2, <1>3, <1>4, <1>5, <1>6, EmpiezaTipos

\* A TAG: the copy of the metadata is there before its blocks are linked.
LEMMA EtiquetarTipos ==
    ASSUME StorageAssumption, Tipos, NEW w \in Worker, NEW t \in Tag,
           NEW u \in Tag, Etiquetar(w, t, u)
    PROVE  Tipos'
<1>1. /\ meta[t] \in Metadata /\ meta[t].bloques \in Lista(ConHash) /\ FileDe[u] \in dirs
      /\ meta[t].bloques \in Lista(Bloque)
      /\ Empieza(w, "marcar", u, Indices(meta[t]), [meta[t] EXCEPT !.estado = "WORK_IN_PROGRESS"])
      /\ meta' = [meta EXCEPT ![u] = meta[t]] /\ dirs' = dirs /\ hash' = hash
      /\ UNCHANGED <<enlaces, contenido, bitmap>> /\ UNCHANGED proceso
  BY MetaEs DEF Etiquetar
<1>2. PICK m : m = [meta[t] EXCEPT !.estado = "WORK_IN_PROGRESS"]
  OBVIOUS
<1>3. m \in Metadata /\ m.bloques = meta[t].bloques
  BY <1>1, <1>2 DEF Metadata
<1>4. /\ "marcar" \in Pasos \ ({"enlazar"} \cup Deduplicando \cup Escribiendo)
      /\ "marcar" \notin ConFaltan
  BY DEF Pasos, Deduplicando, Escribiendo, ConFaltan
<1>5. HashBien' /\ MetasBien' /\ ConHash' = ConHash
  <2>1. PICK k \in Metadata : k = meta[t]
    BY <1>1
  <2>2. dirs \subseteq {FileDe[x] : x \in Tag}
    BY DEF Tipos, MetasBien
  <2> QED
    BY <1>1, <2>1, <2>2, MetaCambia
<1>6. BloquesBien'
  BY <1>1 DEF Tipos, BloquesBien
<1>7. Indices(meta[t]) \in Seq(Logico) /\ Indices(meta[t]) \in Seq(DOMAIN m.bloques)
  BY <1>1, <1>3, IndicesTipo
<1>8. PICK ls \in Seq(Logico) : ls = Indices(meta[t])
  BY <1>7
<1> QED
  BY <1>1, <1>2, <1>3, <1>4, <1>5, <1>6, <1>7, <1>8, EmpiezaTipos

\* A DELETE.
LEMMA BorrarTipos ==
    ASSUME StorageAssumption, Tipos, NEW w \in Worker, NEW t \in Tag, Borrar(w, t)
    PROVE  Tipos'
<1>1. /\ meta[t] \in Metadata /\ meta[t].bloques \in Lista(ConHash) /\ FileDe[t] \in dirs
      /\ meta[t].bloques \in Lista(Bloque)
      /\ Empieza(w, IF meta[t].bloques = <<>> THEN "quitar" ELSE "desligar", t,
           Indices(meta[t]), meta[t])
      /\ UNCHANGED discos /\ UNCHANGED proceso
  BY MetaEs DEF Borrar, Legible, Existe
<1>2. /\ Indices(meta[t]) \in Seq(Logico) /\ Indices(meta[t]) \in Seq(DOMAIN meta[t].bloques)
      /\ Indices(meta[t]) = <<>> <=> meta[t].bloques = <<>>
  BY <1>1, IndicesTipo
<1>3. PICK ls \in Seq(Logico), m \in Metadata : ls = Indices(meta[t]) /\ m = meta[t]
  BY <1>1, <1>2
<1>4. PICK p : p = IF m.bloques = <<>> THEN "quitar" ELSE "desligar"
  OBVIOUS
<1>5. /\ p \in Pasos \ ({"enlazar"} \cup Deduplicando \cup Escribiendo)
      /\ p \in ConFaltan => ls # <<>>
  BY <1>2, <1>3, <1>4 DEF Pasos, Deduplicando, Escribiendo, ConFaltan
<1>6. HashBien' /\ MetasBien' /\ BloquesBien' /\ dirs' = dirs /\ ConHash' = ConHash
  BY <1>1, DiscoIgual
<1> QED
  BY <1>1, <1>2, <1>3, <1>4, <1>5, <1>6, EmpiezaTipos

\* A COMMIT of what is COMMITED: the metadata it read.
LEMMA ReconfirmarTipos ==
    ASSUME StorageAssumption, Tipos, NEW w \in Worker, NEW t \in Tag, Reconfirmar(w, t)
    PROVE  Tipos'
<1>1. /\ meta[t] \in Metadata /\ meta[t].bloques \in Lista(ConHash) /\ FileDe[t] \in dirs
      /\ Empieza(w, "guardar", t, <<>>, meta[t])
      /\ UNCHANGED discos /\ UNCHANGED proceso
  BY MetaEs DEF Reconfirmar, Existe
<1>2. PICK m \in Metadata : m = meta[t]
  BY <1>1
<1>3. /\ "guardar" \in Pasos \ ({"enlazar"} \cup Deduplicando \cup Escribiendo)
      /\ "guardar" \notin PorBloques \cup ConFaltan
  BY DEF Pasos, Deduplicando, Escribiendo, PorBloques, ConFaltan
<1>4. HashBien' /\ MetasBien' /\ BloquesBien' /\ dirs' = dirs /\ ConHash' = ConHash
  BY <1>1, DiscoIgual
<1>5. <<>> \in Seq(Logico)
  OBVIOUS
<1> QED
  BY <1>1, <1>2, <1>3, <1>4, <1>5, EmpiezaTipos

\* What is read of the hash index: what it holds, or nothing.
LEMMA IndiceLeido ==
    ASSUME Tipos, NEW x \in IndiceEnDisco
    PROVE  x \in [Bloque -> Valor \cup {Nadie}] /\ \A b \in Bloque : x[b] # Nadie => b \in ConHash
<1>1. x = hash \/ x = IndiceVacio
  BY DEF IndiceEnDisco
<1> QED
  BY <1>1 DEF IndiceVacio, Tipos, HashBien

\* A COMMIT: the copy of the hash index knows the blocks that have a hash.
LEMMA ConfirmarTipos ==
    ASSUME StorageAssumption, Tipos, NEW w \in Worker, NEW t \in Tag, Confirmar(w, t)
    PROVE  Tipos'
<1>1. /\ meta[t] \in Metadata /\ meta[t].bloques \in Lista(ConHash) /\ FileDe[t] \in dirs
      /\ meta[t].bloques \in Lista(Bloque) /\ UNCHANGED discos /\ UNCHANGED proceso
  BY MetaEs DEF Confirmar, Existe
<1>2. PICK m : m = [meta[t] EXCEPT !.estado = "COMMITED"]
  OBVIOUS
<1>3. m \in Metadata /\ m.bloques = meta[t].bloques
  BY <1>1, <1>2 DEF Metadata
<1>4. PICK p, ls :
        /\ p = IF meta[t].bloques = <<>> THEN "guardar" ELSE "buscar"
        /\ ls = Indices(meta[t])
  OBVIOUS
<1>4a. PICK x \in IndiceEnDisco :
        hilo' = [hilo EXCEPT ![w] =
                   [paso |-> p, tag |-> t, faltan |-> ls,
                    copia |-> [meta[t] EXCEPT !.estado = "COMMITED"], indice |-> x,
                    valor |-> Nadie, bloque |-> Nadie, nuevo |-> FALSE]]
  BY <1>4 DEF Confirmar
<1>5. /\ ls \in Seq(Logico) /\ ls \in Seq(DOMAIN m.bloques)
      /\ ls = <<>> <=> m.bloques = <<>>
  BY <1>1, <1>3, <1>4, IndicesTipo
<1>6. PICK r : r = [paso |-> p, tag |-> t, faltan |-> ls, copia |-> m, indice |-> x,
                    valor |-> Nadie, bloque |-> Nadie, nuevo |-> FALSE]
  OBVIOUS
<1>7. hilo' = [hilo EXCEPT ![w] = r]
  BY <1>2, <1>4a, <1>6
<1>8. x \in [Bloque -> Valor \cup {Nadie}] /\ \A b \in Bloque : x[b] # Nadie => b \in ConHash
  BY <1>4a, IndiceLeido
<1>9. p \in Pasos /\ p \in {"guardar", "buscar"} /\ (p = "buscar" => ls # <<>>)
  BY <1>3, <1>4, <1>5 DEF Pasos
<1>10. r \in EnCurso
  BY <1>3, <1>5, <1>6, <1>8, <1>9 DEF EnCurso
<1>11. r.tag = t /\ r.copia = m /\ r.faltan = ls /\ r.paso = p /\ r.indice = x
  BY <1>6
<1>12. r.paso \notin Escribiendo \cup {"enlazar", "soltar", "religar", "hash", "indexar"}
  BY <1>9, <1>11 DEF Escribiendo
<1>13. r.copia.bloques \in Lista(ConHash \cup (IF r.paso \in Escribiendo THEN {r.bloque} ELSE {}))
  BY <1>1, <1>3, <1>11, <1>12
<1>14. TareaBien(r, dirs, ConHash)
  <2>1. r.paso \in ConFaltan => r.faltan # <<>>
    BY <1>9, <1>11 DEF ConFaltan, Escribiendo, Deduplicando
  <2> QED
    BY <1>1, <1>5, <1>8, <1>10, <1>11, <1>12, <1>13, <2>1 DEF TareaBien
<1>15. HashBien' /\ MetasBien' /\ BloquesBien' /\ dirs' = dirs /\ ConHash' = ConHash
  BY <1>1, DiscoIgual
<1> QED
  BY <1>1, <1>7, <1>9, <1>11, <1>14, <1>15, MueveUno

-----------------------------------------------------------------------------
(* The steps of a request.                                                 *)

\* A name is linked, or removed.
LEMMA EnlaceTipo ==
    ASSUME NEW en \in [Tag -> [Logico -> Bloque \cup {Nadie}]], NEW t \in Tag, NEW i \in Logico,
           NEW b \in Bloque \cup {Nadie}
    PROVE  [en EXCEPT ![t][i] = b] \in [Tag -> [Logico -> Bloque \cup {Nadie}]]
OBVIOUS

\* The disk but the metadata and the hash index, when a request goes on.
LEMMA BloquesDisco ==
    ASSUME StorageAssumption, Tipos
    PROVE  /\ enlaces \in [Tag -> [Logico -> Bloque \cup {Nadie}]]
           /\ contenido \in [0..(Bloques - 1) -> Valor] /\ bitmap \subseteq Bloque
           /\ 0 \in Bloque /\ ConHash \subseteq Bloque
BY DEF Tipos, BloquesBien, ConHash, Bloque, StorageAssumption

\* The logical block that a request is at, in its copy of the metadata.
LEMMA CopiaEs ==
    ASSUME NEW h, NEW D, NEW C, TareaBien(h, D, C), C \subseteq Bloque
    PROVE  /\ h \in EnCurso /\ h.tag \in Tag /\ FileDe[h.tag] \in D
           /\ h.copia \in Metadata /\ h.copia.bloques \in Lista(Bloque)
           /\ h.paso \notin Escribiendo => h.copia.bloques \in Lista(C)
           /\ h.paso \in ConFaltan => h.faltan # <<>> /\ Head(h.faltan) \in Logico
           /\ h.paso \in ConFaltan /\ h.paso \in PorBloques =>
                /\ Head(h.faltan) \in DOMAIN h.copia.bloques
                /\ h.copia.bloques[Head(h.faltan)] \in C
<1>1. /\ h \in EnCurso /\ h.tag \in Tag /\ FileDe[h.tag] \in D /\ h.copia \in Metadata
      /\ h.faltan \in Seq(Logico)
  BY DEF TareaBien, EnCurso
<1>2. h.copia.bloques \in Seq(Bloque) /\ Len(h.copia.bloques) <= MaxLogicos
  BY <1>1 DEF TareaBien, Metadata, Lista
<1>3. h.paso \notin Escribiendo => h.copia.bloques \in Lista(C)
  <2>1. CASE h.paso \notin Escribiendo
    <3>1. h.copia.bloques \in Lista(C \cup {})
      BY <2>1 DEF TareaBien
    <3> QED
      BY <3>1
  <2> QED
    BY <2>1
<1>4. h.paso \in ConFaltan => h.faltan # <<>> /\ Head(h.faltan) \in Logico
  BY <1>1, RestoTipo DEF TareaBien
<1>5. ASSUME h.paso \in ConFaltan, h.paso \in PorBloques
      PROVE  /\ Head(h.faltan) \in DOMAIN h.copia.bloques
             /\ h.copia.bloques[Head(h.faltan)] \in C
  <2>1. h.faltan \in Seq(DOMAIN h.copia.bloques) /\ h.faltan # <<>>
    BY <1>5 DEF TareaBien
  <2>2. Head(h.faltan) \in DOMAIN h.copia.bloques
    BY <2>1, RestoTipo
  <2>3. h.paso \notin Escribiendo
    BY <1>5 DEF Escribiendo, PorBloques, Deduplicando
  <2>4. PICK s \in Seq(C) : s = h.copia.bloques
    BY <1>3, <2>3 DEF Lista
  <2> QED
    BY <2>2, <2>4
<1>6. h.copia.bloques \in Lista(Bloque)
  BY <1>2 DEF Lista
<1> QED
  BY <1>1, <1>3, <1>4, <1>5, <1>6

\* A TRUNCATE links one more name.
LEMMA AlargarTipos ==
    ASSUME StorageAssumption, Tipos, NEW w \in Worker, Alargar(w)
    PROVE  Tipos'
<1>1. En(w, "alargar") /\ hash' = hash /\ meta' = meta /\ dirs' = dirs /\ UNCHANGED proceso
  BY DEF Alargar
<1>2. PICK h : h = hilo[w]
  OBVIOUS
<1>3. TareaBien(h, dirs, ConHash) /\ h.paso = "alargar"
  BY <1>1, <1>2, EnTarea
<1>4. h.tag \in Tag /\ Head(h.faltan) \in Logico
  BY <1>3, BloquesDisco, CopiaEs DEF ConFaltan
<1>5. enlaces' \in [Tag -> [Logico -> Bloque \cup {Nadie}]]
  BY <1>2, <1>4, BloquesDisco, EnlaceTipo DEF Alargar
<1>6. BloquesBien'
  BY <1>5, BloquesDisco DEF Alargar, BloquesBien
<1>7. PICK r : r = Avanza(h, "alargar", "guardar")
  OBVIOUS
<1>8. TareaBien(r, dirs, ConHash) /\ r.paso # "indexar"
  BY <1>3, <1>7, TareaAvanza
<1>9. hilo' = [hilo EXCEPT ![w] = r]
  BY <1>2, <1>7 DEF Alargar
<1> QED
  BY <1>1, <1>6, <1>8, <1>9, MetasIgual, MueveUno

\* A TAG sets ESTADO, in what it read of the original.
LEMMA MarcarTipos ==
    ASSUME StorageAssumption, Tipos, NEW w \in Worker, Marcar(w)
    PROVE  Tipos'
<1>1. En(w, "marcar") /\ hash' = hash /\ dirs' = dirs /\ UNCHANGED proceso
  BY DEF Marcar
<1>2. PICK h : h = hilo[w]
  OBVIOUS
<1>3. TareaBien(h, dirs, ConHash) /\ h.paso = "marcar" /\ hilo \in [Worker -> EnCurso \cup {Ocioso}]
  BY <1>1, <1>2, EnTarea
<1>4. /\ h.tag \in Tag /\ FileDe[h.tag] \in dirs /\ h.copia \in Metadata
      /\ h.copia.bloques \in Lista(ConHash) /\ h \in EnCurso
  BY <1>3, BloquesDisco, CopiaEs DEF Escribiendo
<1>5. HashBien' /\ MetasBien' /\ ConHash' = ConHash
  <2>1. dirs \subseteq {FileDe[x] : x \in Tag}
    BY DEF Tipos, MetasBien
  <2>2. PICK t \in Tag, m \in Metadata : t = h.tag /\ m = h.copia
    BY <1>4
  <2>3. meta' = [meta EXCEPT ![t] = m]
    BY <1>2, <2>2 DEF Marcar
  <2> QED
    BY <1>1, <1>4, <2>1, <2>2, <2>3, MetaCambia
<1>6. BloquesBien'
  BY BloquesDisco DEF Marcar, BloquesBien
<1>7. CASE h.faltan = <<>>
  BY <1>1, <1>2, <1>5, <1>6, <1>7, MueveUno DEF Marcar, Termina
<1>8. CASE h.faltan # <<>>
  <2>1. PICK r : r = [h EXCEPT !.paso = "ligar"]
    OBVIOUS
  <2>2. hilo' = [hilo EXCEPT ![w] = r]
    BY <1>2, <1>8, <2>1 DEF Marcar, Sigue
  <2>3. r \in EnCurso /\ r.paso = "ligar" /\ r.tag = h.tag /\ r.copia = h.copia
          /\ r.faltan = h.faltan
    BY <1>4, <2>1 DEF EnCurso, Pasos
  <2>4. h.faltan \in Seq(DOMAIN h.copia.bloques)
    BY <1>3 DEF TareaBien, PorBloques
  <2>5. r.paso \notin Escribiendo \cup Deduplicando \cup {"enlazar", "soltar", "religar", "hash", "indexar"}
    BY <2>3 DEF Escribiendo, Deduplicando
  <2>6. r.copia.bloques \in Lista(ConHash \cup (IF r.paso \in Escribiendo THEN {r.bloque} ELSE {}))
    BY <1>4, <2>3, <2>5
  <2>7. TareaBien(r, dirs, ConHash)
    BY <1>4, <1>8, <2>3, <2>4, <2>5, <2>6 DEF TareaBien
  <2> QED
    BY <1>1, <1>5, <1>6, <2>2, <2>3, <2>7, MueveUno
<1> QED
  BY <1>7, <1>8

\* A TAG links one more logical block.
LEMMA LigarTipos ==
    ASSUME StorageAssumption, Tipos, NEW w \in Worker, Ligar(w)
    PROVE  Tipos'
<1>1. En(w, "ligar") /\ hash' = hash /\ meta' = meta /\ dirs' = dirs /\ UNCHANGED proceso
  BY DEF Ligar
<1>2. PICK h : h = hilo[w]
  OBVIOUS
<1>3. TareaBien(h, dirs, ConHash) /\ h.paso = "ligar" /\ hilo \in [Worker -> EnCurso \cup {Ocioso}]
  BY <1>1, <1>2, EnTarea
<1>4. h.paso \in ConFaltan /\ h.paso \in PorBloques /\ h.paso \notin Escribiendo
  BY <1>3 DEF ConFaltan, PorBloques, Escribiendo
<1>5. PICK i, b : i = Head(h.faltan) /\ b = h.copia.bloques[i]
  OBVIOUS
<1>6. /\ h.tag \in Tag /\ i \in Logico /\ b \in Bloque /\ h \in EnCurso /\ h.faltan # <<>>
      /\ h.copia.bloques \in Lista(ConHash) /\ FileDe[h.tag] \in dirs
  BY <1>3, <1>4, <1>5, BloquesDisco, CopiaEs
<1>7. enlaces' \in [Tag -> [Logico -> Bloque \cup {Nadie}]] /\ bitmap' \subseteq Bloque
  <2>1. CASE Existe(h.tag) /\ enlaces[h.tag][i] = Nadie
    <3>1. enlaces' = [enlaces EXCEPT ![h.tag][i] = b] /\ bitmap' = bitmap \cup {b}
      BY <1>2, <1>5, <2>1 DEF Ligar
    <3> QED
      BY <1>6, <3>1, BloquesDisco, EnlaceTipo
  <2>2. CASE ~ (Existe(h.tag) /\ enlaces[h.tag][i] = Nadie)
    BY <1>2, <1>5, <2>2, BloquesDisco DEF Ligar
  <2> QED
    BY <2>1, <2>2
<1>8. BloquesBien'
  BY <1>7, BloquesDisco DEF Ligar, BloquesBien
<1>9. CASE Len(h.faltan) = 1
  BY <1>1, <1>2, <1>8, <1>9, MetasIgual, MueveUno DEF Ligar, Termina
<1>10. CASE Len(h.faltan) # 1
  <2>1. PICK r : r = [h EXCEPT !.faltan = Tail(h.faltan)]
    OBVIOUS
  <2>2. hilo' = [hilo EXCEPT ![w] = r]
    BY <1>2, <1>10, <2>1 DEF Ligar
  <2>3. h.faltan \in Seq(Logico) /\ h.faltan \in Seq(DOMAIN h.copia.bloques)
    BY <1>3, <1>4, <1>6 DEF TareaBien, EnCurso
  <2>4. Tail(h.faltan) \in Seq(Logico) /\ Tail(h.faltan) \in Seq(DOMAIN h.copia.bloques)
          /\ Tail(h.faltan) # <<>>
    BY <1>6, <1>10, <2>3, RestoTipo
  <2>5. r \in EnCurso /\ r.paso = "ligar" /\ r.tag = h.tag /\ r.copia = h.copia
          /\ r.faltan = Tail(h.faltan)
    BY <1>3, <1>6, <2>1, <2>4 DEF EnCurso
  <2>6. r.paso \notin Escribiendo \cup Deduplicando \cup {"enlazar", "soltar", "religar", "hash", "indexar"}
    BY <2>5 DEF Escribiendo, Deduplicando
  <2>7. r.copia.bloques \in Lista(ConHash \cup (IF r.paso \in Escribiendo THEN {r.bloque} ELSE {}))
    BY <1>6, <2>5, <2>6
  <2>8. TareaBien(r, dirs, ConHash)
    BY <1>6, <2>4, <2>5, <2>6, <2>7 DEF TareaBien
  <2> QED
    BY <1>1, <1>8, <2>2, <2>5, <2>8, MetasIgual, MueveUno
<1> QED
  BY <1>9, <1>10

\* A COMMIT looks for another block with the hash of the one it is at.
LEMMA BuscarTipos ==
    ASSUME StorageAssumption, Tipos, NEW w \in Worker, Buscar(w)
    PROVE  Tipos'
<1>1. En(w, "buscar") /\ hash' = hash /\ meta' = meta /\ dirs' = dirs /\ UNCHANGED proceso
  BY DEF Buscar
<1>2. PICK h : h = hilo[w]
  OBVIOUS
<1>3. TareaBien(h, dirs, ConHash) /\ h.paso = "buscar" /\ hilo \in [Worker -> EnCurso \cup {Ocioso}]
  BY <1>1, <1>2, EnTarea
<1>4. h.paso \in ConFaltan /\ h.paso \in PorBloques /\ h.paso \in Deduplicando
        /\ h.paso \notin Escribiendo
  BY <1>3 DEF ConFaltan, PorBloques, Deduplicando, Escribiendo
<1>5. PICK i, dups : i = Head(h.faltan) /\ dups = Duplicados(h.copia.bloques[i], h.indice)
  OBVIOUS
<1>6. /\ h.tag \in Tag /\ i \in Logico /\ h \in EnCurso /\ h.faltan # <<>>
      /\ h.copia.bloques \in Lista(ConHash) /\ FileDe[h.tag] \in dirs
  BY <1>3, <1>4, <1>5, BloquesDisco, CopiaEs
<1>7. CASE dups = {}
  <2>1. PICK r : r = Avanza(h, "buscar", "guardar")
    OBVIOUS
  <2>2. hilo' = [hilo EXCEPT ![w] = r] /\ enlaces' = enlaces
    BY <1>2, <1>5, <1>7, <2>1 DEF Buscar
  <2>3. TareaBien(r, dirs, ConHash) /\ r.paso # "indexar"
    BY <1>3, <2>1, TareaAvanza
  <2>4. BloquesBien'
    BY <2>2, BloquesDisco DEF Buscar, BloquesBien
  <2> QED
    BY <1>1, <2>2, <2>3, <2>4, MetasIgual, MueveUno
<1>8. CASE dups # {}
  <2>1. dups \subseteq ConHash
    BY <1>3, <1>4, <1>5, BloquesDisco DEF TareaBien, Duplicados
  <2>2. PICK k : k = Primero(dups)
    OBVIOUS
  <2>3. k \in ConHash
    <3>1. dups \subseteq Nat
      BY <2>1 DEF ConHash
    <3> QED
      BY <1>8, <2>1, <2>2, <3>1, PrimeroEs
  <2>4. PICK p : p = IF enlaces[h.tag][i] = Nadie THEN "religar" ELSE "soltar"
    OBVIOUS
  <2>5. p \in {"religar", "soltar"}
    BY <2>4
  <2>6. PICK r : r = [h EXCEPT !.bloque = k, !.paso = p]
    OBVIOUS
  <2>7. hilo' = [hilo EXCEPT ![w].bloque = k, ![w].paso = p]
    BY <1>2, <1>5, <1>8, <2>2, <2>4 DEF Buscar
  <2>8. hilo' = [hilo EXCEPT ![w] = r]
    BY <1>2, <1>3, <2>6, <2>7
  <2>9. enlaces' = [enlaces EXCEPT ![h.tag][i] = Nadie]
    BY <1>2, <1>5, <1>8 DEF Buscar
  <2>10. enlaces' \in [Tag -> [Logico -> Bloque \cup {Nadie}]]
    BY <1>6, <2>9, BloquesDisco, EnlaceTipo
  <2>11. BloquesBien'
    BY <2>10, BloquesDisco DEF Buscar, BloquesBien
  <2>12. k \in Bloque
    BY <2>3, BloquesDisco
  <2>13. /\ r \in EnCurso /\ r.paso = p /\ r.bloque = k /\ r.tag = h.tag /\ r.copia = h.copia
         /\ r.faltan = h.faltan /\ r.indice = h.indice
    BY <1>6, <2>5, <2>6, <2>12 DEF EnCurso, Pasos
  <2>14. r.paso \notin Escribiendo \cup {"enlazar", "hash", "indexar"}
    BY <2>5, <2>13 DEF Escribiendo
  <2>15. r.copia.bloques \in Lista(ConHash \cup (IF r.paso \in Escribiendo THEN {r.bloque} ELSE {}))
    BY <1>6, <2>13, <2>14
  <2>16. /\ h.faltan \in Seq(DOMAIN h.copia.bloques)
         /\ h.indice \in [Bloque -> Valor \cup {Nadie}]
         /\ \A b \in Bloque : h.indice[b] # Nadie => b \in ConHash
    BY <1>3, <1>4 DEF TareaBien
  <2>17. TareaBien(r, dirs, ConHash)
    BY <1>6, <2>3, <2>13, <2>14, <2>15, <2>16 DEF TareaBien
  <2> QED
    BY <1>1, <2>5, <2>8, <2>11, <2>13, <2>17, MetasIgual, MueveUno
<1> QED
  BY <1>7, <1>8

\* The block that is left may be freed.
LEMMA SoltarTipos ==
    ASSUME StorageAssumption, Tipos, NEW w \in Worker, Soltar(w)
    PROVE  Tipos'
<1>1. En(w, "soltar") /\ hash' = hash /\ meta' = meta /\ dirs' = dirs /\ UNCHANGED proceso
  BY DEF Soltar
<1>2. PICK h : h = hilo[w]
  OBVIOUS
<1>3. TareaBien(h, dirs, ConHash) /\ h.paso = "soltar" /\ hilo \in [Worker -> EnCurso \cup {Ocioso}]
  BY <1>1, <1>2, EnTarea
<1>4. h.paso \in ConFaltan /\ h.paso \in PorBloques /\ h.paso \in Deduplicando
        /\ h.paso \notin Escribiendo
  BY <1>3 DEF ConFaltan, PorBloques, Deduplicando, Escribiendo
<1>5. h \in EnCurso /\ h.faltan # <<>> /\ h.copia.bloques \in Lista(ConHash)
        /\ FileDe[h.tag] \in dirs
  BY <1>3, <1>4, BloquesDisco, CopiaEs
<1>6. bitmap' \subseteq Bloque
  BY BloquesDisco DEF Soltar
<1>7. BloquesBien'
  BY <1>6, BloquesDisco DEF Soltar, BloquesBien
<1>8. PICK r : r = [h EXCEPT !.paso = "religar"]
  OBVIOUS
<1>9. hilo' = [hilo EXCEPT ![w] = r]
  BY <1>2, <1>8 DEF Soltar, Sigue
<1>10. /\ r \in EnCurso /\ r.paso = "religar" /\ r.bloque = h.bloque /\ r.tag = h.tag
       /\ r.copia = h.copia /\ r.faltan = h.faltan /\ r.indice = h.indice
  BY <1>5, <1>8 DEF EnCurso, Pasos
<1>11. r.paso \notin Escribiendo \cup {"enlazar", "hash", "indexar"}
  BY <1>10 DEF Escribiendo
<1>12. r.copia.bloques \in Lista(ConHash \cup (IF r.paso \in Escribiendo THEN {r.bloque} ELSE {}))
  BY <1>5, <1>10, <1>11
<1>13. /\ h.faltan \in Seq(DOMAIN h.copia.bloques) /\ h.bloque \in ConHash
       /\ h.indice \in [Bloque -> Valor \cup {Nadie}]
       /\ \A b \in Bloque : h.indice[b] # Nadie => b \in ConHash
  BY <1>3, <1>4 DEF TareaBien
<1>14. TareaBien(r, dirs, ConHash)
  BY <1>5, <1>10, <1>11, <1>12, <1>13 DEF TareaBien
<1> QED
  BY <1>1, <1>7, <1>9, <1>10, <1>14, MetasIgual, MueveUno

\* The logical block is linked to the block that was found, which has a hash.
LEMMA ReligarTipos ==
    ASSUME StorageAssumption, Tipos, NEW w \in Worker, Religar(w)
    PROVE  Tipos'
<1>1. En(w, "religar") /\ hash' = hash /\ meta' = meta /\ dirs' = dirs /\ UNCHANGED proceso
  BY DEF Religar
<1>2. PICK h : h = hilo[w]
  OBVIOUS
<1>3. TareaBien(h, dirs, ConHash) /\ h.paso = "religar"
        /\ hilo \in [Worker -> EnCurso \cup {Ocioso}]
  BY <1>1, <1>2, EnTarea
<1>4. h.paso \in ConFaltan /\ h.paso \in PorBloques /\ h.paso \in Deduplicando
        /\ h.paso \notin Escribiendo
  BY <1>3 DEF ConFaltan, PorBloques, Deduplicando, Escribiendo
<1>5. PICK i : i = Head(h.faltan)
  OBVIOUS
<1>6. /\ h.tag \in Tag /\ i \in Logico /\ h \in EnCurso /\ h.faltan # <<>>
      /\ h.copia \in Metadata /\ h.copia.bloques \in Lista(ConHash) /\ FileDe[h.tag] \in dirs
      /\ i \in DOMAIN h.copia.bloques
  BY <1>3, <1>4, <1>5, BloquesDisco, CopiaEs
<1>7. /\ h.faltan \in Seq(DOMAIN h.copia.bloques) /\ h.bloque \in ConHash /\ h.bloque \in Bloque
      /\ h.indice \in [Bloque -> Valor \cup {Nadie}]
      /\ \A b \in Bloque : h.indice[b] # Nadie => b \in ConHash
  BY <1>3, <1>4, BloquesDisco DEF TareaBien
<1>8. PICK ligado : ligado = (Existe(h.tag) /\ enlaces[h.tag][i] = Nadie)
  OBVIOUS
<1>9. PICK g : g = IF ligado THEN [h EXCEPT !.copia.bloques[i] = h.bloque] ELSE h
  OBVIOUS
<1>10. TareaBien(g, dirs, ConHash) /\ g.paso = "religar"
  <2>1. CASE ~ ligado
    BY <1>3, <1>9, <2>1
  <2>2. CASE ligado
    <3>1. PICK s : s = [h.copia.bloques EXCEPT ![i] = h.bloque]
      OBVIOUS
    <3>2. s \in Lista(ConHash \cup {h.bloque}) /\ DOMAIN s = DOMAIN h.copia.bloques
      BY <1>6, <3>1, ListaCambia
    <3>3. ConHash \cup {h.bloque} = ConHash
      BY <1>7
    <3>4. s \in Lista(ConHash) /\ s \in Lista(Bloque)
      BY <3>2, <3>3, BloquesDisco, ListaCrece
    <3>5. PICK m : m = [h.copia EXCEPT !.bloques = s]
      OBVIOUS
    <3>6. m \in Metadata /\ m.bloques = s
      BY <1>6, <3>4, <3>5 DEF Metadata, Lista
    <3>7. g = [h EXCEPT !.copia = m]
      BY <1>6, <1>9, <2>2, <3>1, <3>5 DEF EnCurso, Metadata
    <3>8. /\ g \in EnCurso /\ g.paso = "religar" /\ g.bloque = h.bloque /\ g.tag = h.tag
          /\ g.copia = m /\ g.faltan = h.faltan /\ g.indice = h.indice
      BY <1>3, <1>6, <3>6, <3>7 DEF EnCurso
    <3>9. g.paso \notin Escribiendo \cup {"enlazar", "hash", "indexar"}
      BY <3>8 DEF Escribiendo
    <3>10. g.copia.bloques \in Lista(ConHash
             \cup (IF g.paso \in Escribiendo THEN {g.bloque} ELSE {}))
      BY <3>4, <3>6, <3>8, <3>9
    <3> QED
      BY <1>6, <1>7, <3>2, <3>6, <3>8, <3>9, <3>10 DEF TareaBien
  <2> QED
    BY <2>1, <2>2
<1>11. PICK r : r = Avanza(g, "buscar", "guardar")
  OBVIOUS
<1>12. TareaBien(r, dirs, ConHash) /\ r.paso # "indexar"
  BY <1>10, <1>11, TareaAvanza DEF Deduplicando
<1>13. hilo' = [hilo EXCEPT ![w] = r]
  BY <1>2, <1>5, <1>8, <1>9, <1>11 DEF Religar
<1>14. enlaces' = IF ligado THEN [enlaces EXCEPT ![h.tag][i] = h.bloque] ELSE enlaces
  BY <1>2, <1>5, <1>8 DEF Religar
<1>15. enlaces' \in [Tag -> [Logico -> Bloque \cup {Nadie}]]
  BY <1>6, <1>7, <1>14, BloquesDisco, EnlaceTipo
<1>16. BloquesBien'
  BY <1>15, BloquesDisco DEF Religar, BloquesBien
<1> QED
  BY <1>1, <1>12, <1>13, <1>16, MetasIgual, MueveUno

\* A DELETE removes one more name, or goes on to the blocks.
LEMMA DesligarTipos ==
    ASSUME StorageAssumption, Tipos, NEW w \in Worker, Desligar(w)
    PROVE  Tipos'
<1>1. En(w, "desligar") /\ hash' = hash /\ meta' = meta /\ dirs' = dirs /\ UNCHANGED proceso
  BY DEF Desligar
<1>2. PICK h : h = hilo[w]
  OBVIOUS
<1>3. TareaBien(h, dirs, ConHash) /\ h.paso = "desligar"
        /\ hilo \in [Worker -> EnCurso \cup {Ocioso}]
  BY <1>1, <1>2, EnTarea
<1>4. h.paso \in ConFaltan /\ h.paso \in PorBloques /\ h.paso \notin Escribiendo
  BY <1>3 DEF ConFaltan, PorBloques, Escribiendo
<1>5. /\ h.tag \in Tag /\ Head(h.faltan) \in Logico /\ h \in EnCurso /\ h.faltan # <<>>
      /\ h.copia.bloques \in Lista(ConHash) /\ h.copia.bloques \in Lista(Bloque)
      /\ FileDe[h.tag] \in dirs /\ Head(h.faltan) \in DOMAIN h.copia.bloques
  BY <1>3, <1>4, BloquesDisco, CopiaEs
<1>6. enlaces' = [enlaces EXCEPT ![h.tag][Head(h.faltan)] = Nadie]
  BY <1>2 DEF Desligar
<1>7. enlaces' \in [Tag -> [Logico -> Bloque \cup {Nadie}]]
  BY <1>5, <1>6, BloquesDisco, EnlaceTipo
<1>8. BloquesBien'
  BY <1>7, BloquesDisco DEF Desligar, BloquesBien
<1>9. PICK g : g = Avanza(h, "desligar", "liberar")
  OBVIOUS
<1>10. /\ g \in EnCurso /\ g.copia = h.copia /\ g.tag = h.tag
       /\ g.paso = (IF Len(h.faltan) = 1 THEN "liberar" ELSE "desligar")
       /\ g.faltan = Tail(h.faltan)
  <2>1. "desligar" \in Pasos /\ "liberar" \in Pasos
    BY DEF Pasos
  <2> QED
    BY <1>5, <1>9, <2>1, AvanzaEs
<1>11. CASE Len(h.faltan) = 1
  <2>1. PICK r : r = [g EXCEPT !.faltan = Indices(h.copia)]
    OBVIOUS
  <2>2. hilo' = [hilo EXCEPT ![w] = r]
    BY <1>2, <1>9, <1>10, <1>11, <2>1 DEF Desligar
  <2>3. h.copia.bloques # <<>>
    BY <1>5
  <2>4. /\ Indices(h.copia) \in Seq(Logico) /\ Indices(h.copia) \in Seq(DOMAIN h.copia.bloques)
        /\ Indices(h.copia) # <<>>
    BY <1>5, <2>3, IndicesTipo
  <2>5. r \in EnCurso /\ r.paso = "liberar" /\ r.tag = h.tag /\ r.copia = h.copia
          /\ r.faltan = Indices(h.copia)
    BY <1>10, <1>11, <2>1, <2>4 DEF EnCurso
  <2>6. r.paso \notin Escribiendo \cup Deduplicando \cup {"enlazar", "soltar", "religar", "hash", "indexar"}
    BY <2>5 DEF Escribiendo, Deduplicando
  <2>7. r.copia.bloques \in Lista(ConHash \cup (IF r.paso \in Escribiendo THEN {r.bloque} ELSE {}))
    BY <1>5, <2>5, <2>6
  <2>8. TareaBien(r, dirs, ConHash)
    BY <1>5, <2>4, <2>5, <2>6, <2>7 DEF TareaBien
  <2> QED
    BY <1>1, <1>8, <2>2, <2>5, <2>8, MetasIgual, MueveUno
<1>12. CASE Len(h.faltan) # 1
  <2>1. hilo' = [hilo EXCEPT ![w] = g]
    BY <1>2, <1>9, <1>10, <1>12 DEF Desligar
  <2>2. h.faltan \in Seq(Logico) /\ h.faltan \in Seq(DOMAIN h.copia.bloques)
    BY <1>3, <1>4, <1>5 DEF TareaBien, EnCurso
  <2>3. g.faltan = Tail(h.faltan)
    BY <1>10
  <2>4. g.faltan \in Seq(DOMAIN g.copia.bloques) /\ g.faltan # <<>> /\ g.paso = "desligar"
    <3>1. Tail(h.faltan) \in Seq(DOMAIN h.copia.bloques) /\ Tail(h.faltan) # <<>>
      BY <1>5, <1>12, <2>2, RestoTipo
    <3> QED
      BY <1>10, <1>12, <2>3, <3>1
  <2>5. g.paso \notin Escribiendo \cup Deduplicando \cup {"enlazar", "soltar", "religar", "hash", "indexar"}
    BY <2>4 DEF Escribiendo, Deduplicando
  <2>6. g.copia.bloques \in Lista(ConHash \cup (IF g.paso \in Escribiendo THEN {g.bloque} ELSE {}))
    BY <1>5, <1>10, <2>5
  <2>7. TareaBien(g, dirs, ConHash)
    BY <1>5, <1>10, <2>4, <2>5, <2>6 DEF TareaBien
  <2> QED
    BY <1>1, <1>8, <2>1, <2>4, <2>7, MetasIgual, MueveUno
<1> QED
  BY <1>11, <1>12

\* A DELETE frees one more block, or finds it in use.
LEMMA LiberarTipos ==
    ASSUME StorageAssumption, Tipos, NEW w \in Worker, Liberar(w)
    PROVE  Tipos'
<1>1. En(w, "liberar") /\ hash' = hash /\ meta' = meta /\ dirs' = dirs /\ UNCHANGED proceso
  BY DEF Liberar
<1>2. PICK h : h = hilo[w]
  OBVIOUS
<1>3. TareaBien(h, dirs, ConHash) /\ h.paso = "liberar"
  BY <1>1, <1>2, EnTarea
<1>4. bitmap' \subseteq Bloque
  BY BloquesDisco DEF Liberar
<1>5. BloquesBien'
  BY <1>4, BloquesDisco DEF Liberar, BloquesBien
<1>6. PICK r : r = Avanza(h, "liberar", "quitar")
  OBVIOUS
<1>7. TareaBien(r, dirs, ConHash) /\ r.paso # "indexar"
  BY <1>3, <1>6, TareaAvanza
<1>8. hilo' = [hilo EXCEPT ![w] = r]
  BY <1>2, <1>6 DEF Liberar
<1> QED
  BY <1>1, <1>5, <1>7, <1>8, MetasIgual, MueveUno

\* A DELETE removes the directory of the file:tag.
LEMMA QuitarTipos ==
    ASSUME StorageAssumption, Tipos, NEW w \in Worker, Quitar(w)
    PROVE  Tipos'
<1>1. En(w, "quitar") /\ hash' = hash /\ dirs' = dirs /\ UNCHANGED proceso
  BY DEF Quitar
<1>2. PICK t \in Tag : t = hilo[w].tag
  BY <1>1, EnTarea
<1>3. NoExiste \in Metadata /\ NoExiste.bloques = <<>> /\ NoExiste.estado = "NO"
  BY DEF NoExiste, Metadata
<1>4. <<>> \in Lista(ConHash)
  BY DEF Lista, StorageAssumption
<1>5. HashBien' /\ MetasBien' /\ ConHash' = ConHash
  <2>1. meta' = [meta EXCEPT ![t] = NoExiste]
    BY <1>2 DEF Quitar
  <2>2. dirs \subseteq {FileDe[x] : x \in Tag}
    BY DEF Tipos, MetasBien
  <2>3. PICK m \in Metadata : m = NoExiste
    BY <1>3
  <2> QED
    BY <1>1, <1>3, <1>4, <2>1, <2>2, <2>3, MetaCambia
<1>6. enlaces' = [enlaces EXCEPT ![t] = SinEnlaces]
        /\ SinEnlaces \in [Logico -> Bloque \cup {Nadie}]
  BY <1>2 DEF Quitar, SinEnlaces
<1>7. enlaces' \in [Tag -> [Logico -> Bloque \cup {Nadie}]]
  BY <1>6, BloquesDisco
<1>8. BloquesBien'
  BY <1>7, BloquesDisco DEF Quitar, BloquesBien
<1>9. hilo' = [hilo EXCEPT ![w] = Ocioso]
  BY DEF Quitar, Termina
<1> QED
  BY <1>1, <1>5, <1>8, <1>9, MueveUno

-----------------------------------------------------------------------------
(* WRITE.                                                                  *)

\* A WRITE that begins: only its own block may lack a hash in its copy.
LEMMA EscrituraTipos ==
    ASSUME StorageAssumption, Tipos, NEW w \in Worker, NEW t \in Tag, NEW i \in Logico,
           NEW v \in Valor,
           NEW p \in {"escribir", "reservar"}, NEW b \in Bloque, NEW n \in BOOLEAN,
           Escribible(t, i), EmpiezaEscritura(w, p, t, i, v, b, n), UNCHANGED discos,
           UNCHANGED proceso
    PROVE  Tipos'
<1>1. /\ meta[t] \in Metadata /\ meta[t].bloques \in Lista(ConHash) /\ FileDe[t] \in dirs
      /\ i \in DOMAIN meta[t].bloques
  BY MetaEs DEF Escribible, Existe
<1>2. PICK s : s = [meta[t].bloques EXCEPT ![i] = b]
  OBVIOUS
<1>3. s \in Lista(ConHash \cup {b}) /\ s \in Seq(Bloque)
  <2>1. s \in Lista(ConHash \cup {b})
    BY <1>1, <1>2, ListaCambia
  <2>2. ConHash \cup {b} \subseteq Bloque
    BY BloquesDisco
  <2>3. s \in Lista(Bloque)
    BY <2>1, <2>2, ListaCrece
  <2> QED
    BY <2>1, <2>3 DEF Lista
<1>4. PICK m : m = [meta[t] EXCEPT !.bloques = s]
  OBVIOUS
<1>5. m \in Metadata /\ m.bloques = s
  BY <1>1, <1>3, <1>4 DEF Metadata
<1>6. m = [meta[t] EXCEPT !.bloques[i] = b]
  BY <1>1, <1>2, <1>4 DEF Metadata
<1>7. PICK r : r = [paso |-> p, tag |-> t, faltan |-> <<i>>, copia |-> m, indice |-> <<>>,
                    valor |-> v, bloque |-> b, nuevo |-> n]
  OBVIOUS
<1>8. hilo' = [hilo EXCEPT ![w] = r]
  BY <1>6, <1>7 DEF EmpiezaEscritura
<1>9. <<i>> \in Seq(Logico) /\ <<i>> # <<>>
  OBVIOUS
<1>10. r \in EnCurso
  BY <1>5, <1>7, <1>9 DEF EnCurso, Pasos
<1>11. /\ r.paso = p /\ r.tag = t /\ r.copia = m /\ r.faltan = <<i>> /\ r.bloque = b /\ r.valor = v
  BY <1>7
<1>12. r.paso \in Escribiendo
         /\ r.paso \notin PorBloques \cup Deduplicando \cup {"soltar", "religar", "hash", "indexar"}
  BY <1>11 DEF Escribiendo, PorBloques, Deduplicando
<1>13. TareaBien(r, dirs, ConHash)
  BY <1>1, <1>3, <1>5, <1>9, <1>10, <1>11, <1>12 DEF TareaBien
<1>14. HashBien' /\ MetasBien' /\ BloquesBien' /\ dirs' = dirs /\ ConHash' = ConHash
  BY DiscoIgual
<1> QED
  BY <1>8, <1>11, <1>13, <1>14, MueveUno

\* In the block it has.
LEMMA EscribirEnSitioTipos ==
    ASSUME StorageAssumption, Tipos, NEW w \in Worker, NEW t \in Tag, NEW i \in Logico,
           NEW v \in Valor,
           EscribirEnSitio(w, t, i, v)
    PROVE  Tipos'
<1>1. /\ Escribible(t, i) /\ UNCHANGED discos /\ UNCHANGED proceso
      /\ EmpiezaEscritura(w, "escribir", t, i, v, meta[t].bloques[i], FALSE)
  BY DEF EscribirEnSitio
<1>2. PICK s \in Seq(ConHash) : s = meta[t].bloques
  BY MetaEs
<1>3. PICK b \in Bloque : b = meta[t].bloques[i]
  <2>1. i \in DOMAIN s
    BY <1>1, <1>2 DEF Escribible
  <2>2. s[i] \in ConHash
    BY <2>1
  <2> QED
    BY <1>2, <2>2, BloquesDisco
<1> QED
  BY <1>1, <1>3, EscrituraTipos

\* In the first free block.
LEMMA EscribirAparteTipos ==
    ASSUME StorageAssumption, Tipos, NEW w \in Worker, NEW t \in Tag, NEW i \in Logico,
           NEW v \in Valor,
           EscribirAparte(w, t, i, v)
    PROVE  Tipos'
<1>1. /\ Escribible(t, i) /\ UNCHANGED discos /\ UNCHANGED proceso /\ bitmap # Bloque
      /\ EmpiezaEscritura(w, "reservar", t, i, v, PrimerBitLibre, TRUE)
  BY DEF EscribirAparte
<1>2. PICK b \in Bloque : b = PrimerBitLibre
  <2>1. Bloque \ bitmap # {} /\ Bloque \ bitmap \subseteq Nat
    <3>1. Bloque \subseteq Nat
      BY DEF Bloque
    <3> QED
      BY <1>1, <3>1, BloquesDisco
  <2>2. Primero(Bloque \ bitmap) \in Bloque \ bitmap
    BY <2>1, PrimeroEs
  <2>3. PrimerBitLibre = Primero(Bloque \ bitmap)
    BY DEF PrimerBitLibre, Primero
  <2> QED
    BY <2>2, <2>3
<1> QED
  BY <1>1, <1>2, EscrituraTipos

\* The block that was chosen is taken.
LEMMA ReservarTipos ==
    ASSUME StorageAssumption, Tipos, NEW w \in Worker, Reservar(w)
    PROVE  Tipos'
<1>1. En(w, "reservar") /\ hash' = hash /\ meta' = meta /\ dirs' = dirs /\ UNCHANGED proceso
  BY DEF Reservar
<1>2. PICK h : h = hilo[w]
  OBVIOUS
<1>3. TareaBien(h, dirs, ConHash) /\ h.paso = "reservar" /\ h \in EnCurso
  BY <1>1, <1>2, EnTarea
<1>4. /\ FileDe[h.tag] \in dirs /\ h.copia.bloques \in Lista(ConHash \cup {h.bloque})
      /\ h.faltan # <<>> /\ h.bloque \in Bloque /\ h.valor \in Valor
  BY <1>3 DEF TareaBien, Escribiendo, ConFaltan
<1>5. bitmap' \subseteq Bloque
  BY <1>2, <1>4, BloquesDisco DEF Reservar
<1>6. BloquesBien'
  BY <1>5, BloquesDisco DEF Reservar, BloquesBien
<1>7. PICK r : r = [h EXCEPT !.paso = "escribir"]
  OBVIOUS
<1>8. hilo' = [hilo EXCEPT ![w] = r]
  BY <1>2, <1>7 DEF Reservar, Sigue
<1>9. /\ r \in EnCurso /\ r.paso = "escribir" /\ r.bloque = h.bloque /\ r.tag = h.tag
      /\ r.copia = h.copia /\ r.faltan = h.faltan /\ r.valor = h.valor
  BY <1>3, <1>7 DEF EnCurso, Pasos
<1>10. r.paso \in Escribiendo
         /\ r.paso \notin PorBloques \cup Deduplicando \cup {"soltar", "religar", "hash", "indexar"}
  BY <1>9 DEF Escribiendo, PorBloques, Deduplicando
<1>11. TareaBien(r, dirs, ConHash)
  BY <1>4, <1>9, <1>10 DEF TareaBien
<1> QED
  BY <1>1, <1>6, <1>8, <1>9, <1>11, MetasIgual, MueveUno

\* The block is written, when there is one.
LEMMA EscribirDatosTipos ==
    ASSUME StorageAssumption, Tipos, NEW w \in Worker, EscribirDatos(w)
    PROVE  Tipos'
<1>1. En(w, "escribir") /\ hash' = hash /\ meta' = meta /\ dirs' = dirs /\ UNCHANGED proceso
  BY DEF EscribirDatos
<1>2. PICK h : h = hilo[w]
  OBVIOUS
<1>3. TareaBien(h, dirs, ConHash) /\ h.paso = "escribir" /\ h \in EnCurso
  BY <1>1, <1>2, EnTarea
<1>4. /\ FileDe[h.tag] \in dirs /\ h.copia.bloques \in Lista(ConHash \cup {h.bloque})
      /\ h.faltan # <<>> /\ h.bloque \in Bloque /\ h.valor \in Valor
  BY <1>3 DEF TareaBien, Escribiendo, ConFaltan
<1>5. h.tag \in Tag /\ Head(h.faltan) \in Logico
  BY <1>3, BloquesDisco, CopiaEs DEF ConFaltan, Escribiendo
<1>6. enlaces' = IF h.nuevo THEN [enlaces EXCEPT ![h.tag][Head(h.faltan)] = Nadie] ELSE enlaces
  BY <1>2 DEF EscribirDatos
<1>7. enlaces' \in [Tag -> [Logico -> Bloque \cup {Nadie}]]
  BY <1>5, <1>6, BloquesDisco, EnlaceTipo
<1>8. CASE h.bloque < Bloques
  <2>1. contenido' = [contenido EXCEPT ![h.bloque] = h.valor] /\ Sigue(w, "hash")
    BY <1>2, <1>8 DEF EscribirDatos
  <2>2. BloquesBien'
    BY <1>4, <1>7, <2>1, BloquesDisco DEF EscribirDatos, BloquesBien
  <2>3. PICK r : r = [h EXCEPT !.paso = "hash"]
    OBVIOUS
  <2>4. hilo' = [hilo EXCEPT ![w] = r]
    BY <1>2, <2>1, <2>3 DEF Sigue
  <2>5. /\ r \in EnCurso /\ r.paso = "hash" /\ r.bloque = h.bloque /\ r.tag = h.tag
        /\ r.copia = h.copia /\ r.faltan = h.faltan /\ r.valor = h.valor
    BY <1>3, <2>3 DEF EnCurso, Pasos
  <2>6. r.bloque \in 0..(Bloques - 1)
    BY <1>4, <1>8, <2>5 DEF Bloque, StorageAssumption
  <2>7. r.paso \in Escribiendo
          /\ r.paso \notin PorBloques \cup Deduplicando \cup {"soltar", "religar", "indexar"}
    BY <2>5 DEF Escribiendo, PorBloques, Deduplicando
  <2>8. TareaBien(r, dirs, ConHash)
    BY <1>4, <2>5, <2>6, <2>7 DEF TareaBien
  <2> QED
    BY <1>1, <2>2, <2>4, <2>5, <2>8, MetasIgual, MueveUno
<1>9. CASE ~ (h.bloque < Bloques)
  <2>1. contenido' = contenido /\ hilo' = [hilo EXCEPT ![w] = Ocioso]
    BY <1>2, <1>9 DEF EscribirDatos, Termina
  <2>2. BloquesBien'
    BY <1>7, <2>1, BloquesDisco DEF EscribirDatos, BloquesBien
  <2> QED
    BY <1>1, <2>1, <2>2, MetasIgual, MueveUno
<1> QED
  BY <1>8, <1>9

\* The hash index is read: with one Worker, no save of another is under way.
LEMMA LeerIndiceTipos ==
    ASSUME StorageAssumption, Tipos, NEW w \in Worker, LeerIndice(w)
    PROVE  Tipos'
<1>1. En(w, "hash") /\ UNCHANGED discos /\ UNCHANGED proceso
  BY DEF LeerIndice
<1>2. PICK h : h = hilo[w]
  OBVIOUS
<1>3. TareaBien(h, dirs, ConHash) /\ h.paso = "hash" /\ h \in EnCurso
        /\ hilo \in [Worker -> EnCurso \cup {Ocioso}]
  BY <1>1, <1>2, EnTarea
<1>4. /\ FileDe[h.tag] \in dirs /\ h.copia.bloques \in Lista(ConHash \cup {h.bloque})
      /\ h.faltan # <<>> /\ h.bloque \in Bloque /\ h.bloque \in 0..(Bloques - 1)
      /\ h.valor \in Valor
  BY <1>3 DEF TareaBien, Escribiendo, ConFaltan
<1>5. PICK x \in IndiceEnDisco : hilo' = [hilo EXCEPT ![w].indice = x, ![w].paso = "indexar"]
  BY DEF LeerIndice
<1>6. x \in [Bloque -> Valor \cup {Nadie}] /\ \A b \in Bloque : x[b] # Nadie => b \in ConHash
  BY IndiceLeido
<1>7. PICK r : r = [h EXCEPT !.indice = x, !.paso = "indexar"]
  OBVIOUS
<1>8. hilo' = [hilo EXCEPT ![w] = r]
  BY <1>2, <1>3, <1>5, <1>7
<1>9. /\ r \in EnCurso /\ r.paso = "indexar" /\ r.bloque = h.bloque /\ r.tag = h.tag
      /\ r.copia = h.copia /\ r.faltan = h.faltan /\ r.valor = h.valor /\ r.indice = x
  BY <1>3, <1>6, <1>7 DEF EnCurso, Pasos
<1>10. r.paso \in Escribiendo
         /\ r.paso \notin PorBloques \cup Deduplicando \cup {"soltar", "religar"}
  BY <1>9 DEF Escribiendo, PorBloques, Deduplicando
<1>11. TareaBien(r, dirs, ConHash)
  BY <1>4, <1>6, <1>9, <1>10 DEF TareaBien
<1>12. Seguro => r.indice = hash
  <2>1. Seguro => ~ \E v \in Worker : En(v, "indexar")
    BY <1>1 DEF Seguro, UnSoloWorker, En
  <2> QED
    BY <1>9, <2>1 DEF IndiceEnDisco
<1>13. HashBien' /\ MetasBien' /\ BloquesBien' /\ dirs' = dirs /\ ConHash' = ConHash
         /\ hash' = hash
  BY <1>1, DiscoIgual DEF discos
<1> QED
  BY <1>1, <1>8, <1>11, <1>12, <1>13, MueveUno

\* The hash is saved, and the copy of the metadata may be.
LEMMA GuardarHashTipos ==
    ASSUME StorageAssumption, Tipos, NEW w \in Worker, GuardarHash(w)
    PROVE  Tipos'
<1>1. En(w, "indexar") /\ meta' = meta /\ dirs' = dirs /\ UNCHANGED proceso
  BY DEF GuardarHash, TrasIndexar
<1>2. PICK h : h = hilo[w]
  OBVIOUS
<1>3. TareaBien(h, dirs, ConHash) /\ h.paso = "indexar" /\ h \in EnCurso
        /\ hilo \in [Worker -> EnCurso \cup {Ocioso}] /\ h # Ocioso
  BY <1>1, <1>2, EnTarea DEF En
<1>4. /\ FileDe[h.tag] \in dirs /\ h.copia.bloques \in Lista(ConHash \cup {h.bloque})
      /\ h.faltan # <<>> /\ h.bloque \in Bloque /\ h.bloque \in 0..(Bloques - 1)
      /\ h.valor \in Valor /\ h.indice \in [Bloque -> Valor \cup {Nadie}]
      /\ \A b \in Bloque : h.indice[b] # Nadie => b \in ConHash
  BY <1>3 DEF TareaBien, Escribiendo, ConFaltan
<1>5. hash' = [h.indice EXCEPT ![h.bloque] = h.valor]
  BY <1>2 DEF GuardarHash, ConSuHash
<1>6. (Seguro => h.indice = hash) /\ cortes' = cortes
  BY <1>1, <1>2, <1>3 DEF Tipos, HilosBien, proceso
<1>7. h.valor # Nadie
  BY <1>4 DEF StorageAssumption
<1>8. hash' \in [Bloque -> Valor \cup {Nadie}]
  BY <1>4, <1>5
<1>9. ConHash \cup {h.bloque} \subseteq ConHash'
  <2>1. 0..(Bloques - 1) \subseteq Bloque
    BY DEF Bloque, StorageAssumption
  <2> QED
    BY <1>4, <1>5, <1>6, <1>7, <2>1 DEF ConHash, Seguro
<1>10. HashBien'
  BY <1>4, <1>5, <1>8, <1>9 DEF Tipos, HashBien
<1>11. MetasBien'
  <2>1. \A t \in Tag : meta[t].bloques \in Lista(ConHash')
    BY <1>9, ListaCrece DEF Tipos, MetasBien
  <2> QED
    BY <1>1, <2>1 DEF Tipos, MetasBien, Existe
<1>12. BloquesBien'
  BY BloquesDisco DEF GuardarHash, TrasIndexar, BloquesBien
<1>13. PICK p : p = IF h.nuevo THEN "enlazar" ELSE "guardar"
  OBVIOUS
<1>14. PICK r : r = [h EXCEPT !.indice = <<>>, !.paso = p]
  OBVIOUS
<1>15. hilo' = [hilo EXCEPT ![w] = r]
  BY <1>2, <1>3, <1>13, <1>14 DEF GuardarHash, TrasIndexar
<1>16. p \in {"enlazar", "guardar"}
  BY <1>13
<1>17. /\ r \in EnCurso /\ r.paso = p /\ r.bloque = h.bloque /\ r.tag = h.tag
       /\ r.copia = h.copia /\ r.faltan = h.faltan
  BY <1>3, <1>14, <1>16 DEF EnCurso, Pasos
<1>18. r.paso \notin Escribiendo \cup PorBloques \cup Deduplicando \cup {"soltar", "religar",
         "hash", "indexar"}
  BY <1>16, <1>17 DEF Escribiendo, PorBloques, Deduplicando
<1>19. r.copia.bloques \in Lista(ConHash' \cup (IF r.paso \in Escribiendo THEN {r.bloque} ELSE {}))
  BY <1>4, <1>9, <1>17, <1>18, ListaCrece
<1>20. TareaBien(r, dirs', ConHash')
  BY <1>1, <1>4, <1>17, <1>18, <1>19 DEF TareaBien
<1> QED
  BY <1>1, <1>9, <1>10, <1>11, <1>12, <1>15, <1>16, <1>17, <1>20, MueveUno

\* The new block is linked.
LEMMA EnlazarTipos ==
    ASSUME StorageAssumption, Tipos, NEW w \in Worker, Enlazar(w)
    PROVE  Tipos'
<1>1. En(w, "enlazar") /\ hash' = hash /\ meta' = meta /\ dirs' = dirs /\ UNCHANGED proceso
  BY DEF Enlazar
<1>2. PICK h : h = hilo[w]
  OBVIOUS
<1>3. TareaBien(h, dirs, ConHash) /\ h.paso = "enlazar" /\ h \in EnCurso
  BY <1>1, <1>2, EnTarea
<1>4. /\ h.tag \in Tag /\ Head(h.faltan) \in Logico /\ h.copia.bloques \in Lista(ConHash)
      /\ FileDe[h.tag] \in dirs
  BY <1>3, BloquesDisco, CopiaEs DEF ConFaltan, Escribiendo
<1>5. h.bloque \in Bloque
  BY <1>3 DEF TareaBien
<1>6. enlaces' \in [Tag -> [Logico -> Bloque \cup {Nadie}]] /\ bitmap' \subseteq Bloque
  <2>1. CASE Existe(h.tag) /\ enlaces[h.tag][Head(h.faltan)] = Nadie
    <3>1. /\ enlaces' = [enlaces EXCEPT ![h.tag][Head(h.faltan)] = h.bloque]
          /\ bitmap' = bitmap \cup {h.bloque}
      BY <1>2, <2>1 DEF Enlazar
    <3> QED
      BY <1>4, <1>5, <3>1, BloquesDisco, EnlaceTipo
  <2>2. CASE ~ (Existe(h.tag) /\ enlaces[h.tag][Head(h.faltan)] = Nadie)
    BY <1>2, <2>2, BloquesDisco DEF Enlazar
  <2> QED
    BY <2>1, <2>2
<1>7. BloquesBien'
  BY <1>6, BloquesDisco DEF Enlazar, BloquesBien
<1>8. PICK r : r = [h EXCEPT !.paso = "guardar"]
  OBVIOUS
<1>9. hilo' = [hilo EXCEPT ![w] = r]
  BY <1>2, <1>8 DEF Enlazar, Sigue
<1>10. r \in EnCurso /\ r.paso = "guardar" /\ r.tag = h.tag /\ r.copia = h.copia
  BY <1>3, <1>8 DEF EnCurso, Pasos
<1>11. r.paso \notin Escribiendo \cup PorBloques \cup Deduplicando \cup ConFaltan
                      \cup {"soltar", "religar", "hash", "indexar", "enlazar"}
  BY <1>10 DEF Escribiendo, PorBloques, Deduplicando, ConFaltan
<1>12. r.copia.bloques \in Lista(ConHash \cup (IF r.paso \in Escribiendo THEN {r.bloque} ELSE {}))
  BY <1>4, <1>10, <1>11
<1>13. TareaBien(r, dirs, ConHash)
  BY <1>4, <1>10, <1>11, <1>12 DEF TareaBien
<1> QED
  BY <1>1, <1>7, <1>9, <1>10, <1>13, MetasIgual, MueveUno

\* The copy of the metadata is saved: its blocks have a hash.
LEMMA GuardarMetadataTipos ==
    ASSUME StorageAssumption, Tipos, NEW w \in Worker, GuardarMetadata(w)
    PROVE  Tipos'
<1>1. /\ En(w, "guardar") /\ hash' = hash /\ dirs' = dirs /\ UNCHANGED proceso
      /\ hilo' = [hilo EXCEPT ![w] = Ocioso]
  BY DEF GuardarMetadata, Termina
<1>2. PICK h : h = hilo[w]
  OBVIOUS
<1>3. TareaBien(h, dirs, ConHash) /\ h.paso = "guardar"
  BY <1>1, <1>2, EnTarea
<1>4. /\ h.tag \in Tag /\ FileDe[h.tag] \in dirs /\ h.copia \in Metadata
      /\ h.copia.bloques \in Lista(ConHash)
  BY <1>3, BloquesDisco, CopiaEs DEF Escribiendo
<1>5. HashBien' /\ MetasBien' /\ ConHash' = ConHash
  <2>1. CASE Existe(h.tag)
    <3>1. dirs \subseteq {FileDe[x] : x \in Tag}
      BY DEF Tipos, MetasBien
    <3>2. PICK t \in Tag, m \in Metadata : t = h.tag /\ m = h.copia
      BY <1>4
    <3>3. meta' = [meta EXCEPT ![t] = m]
      BY <1>2, <2>1, <3>2 DEF GuardarMetadata
    <3> QED
      BY <1>1, <1>4, <3>1, <3>2, <3>3, MetaCambia
  <2>2. CASE ~ Existe(h.tag)
    BY <1>1, <1>2, <2>2, MetasIgual DEF GuardarMetadata
  <2> QED
    BY <2>1, <2>2
<1>6. BloquesBien'
  BY BloquesDisco DEF GuardarMetadata, BloquesBien
<1> QED
  BY <1>1, <1>5, <1>6, MueveUno

-----------------------------------------------------------------------------
(* The start, the restarts, and the theorems.                              *)

\* The metadata that a start gives initial_file:BASE.
LEMMA MetaBase ==
    ASSUME StorageAssumption, 0 \in ConHash
    PROVE  \E m \in Metadata : /\ m = [tam |-> BLOCK_SIZE, estado |-> "COMMITED", bloques |-> <<0>>]
                              /\ m.bloques \in Lista(ConHash)
<1>1. MaxLogicos \in Nat \ {0} /\ 0 \in Bloque
  BY DEF StorageAssumption, Bloque
<1>2. <<0>> \in Seq(ConHash) /\ <<0>> \in Seq(Bloque) /\ Len(<<0>>) = 1
  BY <1>1
<1>3. <<0>> \in Lista(ConHash)
  BY <1>1, <1>2 DEF Lista
<1>4. [tam |-> BLOCK_SIZE, estado |-> "COMMITED", bloques |-> <<0>>] \in Metadata
  BY <1>2 DEF Metadata
<1> QED
  BY <1>3, <1>4

\* A fresh start.
LEMMA InitTipos ==
    ASSUME StorageAssumption, Init
    PROVE  Tipos
<1>1. /\ 0 \in Bloque /\ 0 \in 0..(Bloques - 1) /\ Cero \in Valor /\ Base \in Tag /\ Cero # Nadie
      /\ 0..(Bloques - 1) \subseteq Bloque /\ MaxLogicos \in Nat /\ MaxCortes \in Nat
  BY DEF StorageAssumption, Bloque
<1>2. hash = [b \in Bloque |-> IF b = 0 THEN Cero ELSE Nadie]
  BY DEF Init
<1>3. 0 \in ConHash
  BY <1>1, <1>2 DEF ConHash
<1>4. HashBien
  <2>1. hash \in [Bloque -> Valor \cup {Nadie}]
    BY <1>1, <1>2
  <2>2. \A b \in Bloque : hash[b] # Nadie => b = 0
    BY <1>2
  <2> QED
    BY <1>3, <2>1, <2>2 DEF HashBien
<1>5. MetasBien
  <2>1. PICK m \in Metadata : /\ m = [tam |-> BLOCK_SIZE, estado |-> "COMMITED", bloques |-> <<0>>]
                              /\ m.bloques \in Lista(ConHash)
    BY <1>3, MetaBase
  <2>2. meta = [t \in Tag |-> IF t = Base THEN m ELSE NoExiste]
    BY <2>1 DEF Init
  <2>3. NoExiste \in Metadata /\ NoExiste.bloques = <<>> /\ NoExiste.estado = "NO"
    BY DEF NoExiste, Metadata
  <2>4. <<>> \in Lista(ConHash)
    BY <1>1 DEF Lista
  <2>5. dirs = {FileDe[Base]}
    BY DEF Init
  <2>6. meta \in [Tag -> Metadata]
    BY <2>2, <2>3
  <2>7. \A t \in Tag : meta[t].bloques \in Lista(ConHash) /\ (Existe(t) => FileDe[t] \in dirs)
    BY <2>1, <2>2, <2>3, <2>4, <2>5 DEF Existe
  <2> QED
    BY <1>1, <2>5, <2>6, <2>7 DEF MetasBien
<1>6. BloquesBien
  <2>1. enlaces \in [Tag -> [Logico -> Bloque \cup {Nadie}]]
    BY <1>1 DEF Init
  <2>2. contenido \in [0..(Bloques - 1) -> Valor] /\ bitmap \subseteq Bloque
    BY <1>1 DEF Init
  <2> QED
    BY <2>1, <2>2 DEF BloquesBien
<1>7. HilosBien
  BY DEF Init, HilosBien
<1>8. ProcesoBien
  BY <1>1 DEF Init, ProcesoBien
<1> QED
  BY <1>4, <1>5, <1>6, <1>7, <1>8 DEF Tipos

\* A restart: BASE is put right, and its block has a hash.
LEMMA ReiniciarTipos ==
    ASSUME StorageAssumption, Tipos, Reiniciar
    PROVE  Tipos'
<1>1. /\ hilo' = [w \in Worker |-> Ocioso] /\ dirs' = dirs /\ contenido' = contenido
      /\ EnReposo \/ cortes < MaxCortes
      /\ cortes' = IF EnReposo THEN cortes ELSE cortes + 1
  BY DEF Reiniciar
<1>2. HilosBien'
  BY <1>1 DEF HilosBien
<1>3. cortes' \in 0..MaxCortes
  <2>1. cortes \in 0..MaxCortes /\ MaxCortes \in Nat
    BY DEF StorageAssumption, Tipos, ProcesoBien
  <2> QED
    BY <1>1, <2>1
<1>4. PICK leido \in BitmapEnDisco, indice \in IndiceEnDisco,
           vacias \in SUBSET {t \in Tag : \E w \in Worker : Guardando(w, t)} :
        LET quedan == [t \in Tag |-> IF t \in vacias THEN MetaVacia ELSE meta[t]]
        IN IF Existe(Base)
          THEN /\ bitmap' = IF enlaces[Base][1] = Nadie THEN leido \cup {0} ELSE leido
               /\ enlaces' = [enlaces EXCEPT ![Base][1] = IF @ = Nadie THEN 0 ELSE @]
               /\ hash' = [indice EXCEPT ![0] = contenido[0]]
               /\ meta' = [quedan EXCEPT ![Base] =
                              [tam |-> BLOCK_SIZE, estado |-> "COMMITED", bloques |-> <<0>>]]
               /\ UNCHANGED parada
          ELSE /\ bitmap' = leido /\ hash' = indice /\ meta' = quedan
               /\ parada' = "CREATE"
               /\ UNCHANGED enlaces
  BY DEF Reiniciar
<1>5. leido \subseteq Bloque
  <2>1. leido = bitmap \/ leido = {}
    BY <1>4 DEF BitmapEnDisco
  <2> QED
    BY <2>1, BloquesDisco
<1>6. PICK quedan : quedan = [t \in Tag |-> IF t \in vacias THEN MetaVacia ELSE meta[t]]
  OBVIOUS
<1>7. /\ indice \in [Bloque -> Valor \cup {Nadie}]
      /\ \A b \in Bloque : indice[b] # Nadie => b \in ConHash
      /\ Seguro' => Seguro /\ indice = hash
  <2>1. cortes \in 0..MaxCortes /\ MaxCortes \in Nat
    BY DEF StorageAssumption, Tipos, ProcesoBien
  <2>2. Seguro' => Seguro /\ EnReposo
    BY <1>1, <2>1 DEF Seguro
  <2>3. EnReposo => indice = hash
    BY DEF EnReposo, IndiceEnDisco, En
  <2> QED
    BY <2>2, <2>3, IndiceLeido
<1>8. ConHash \subseteq ConHash'
  <2>1. \A b \in Bloque : Seguro' /\ hash[b] # Nadie => hash'[b] # Nadie
    <3>1. contenido[0] # Nadie
      BY BloquesDisco DEF StorageAssumption
    <3>2. Seguro' => hash' = indice \/ hash' = [indice EXCEPT ![0] = contenido[0]]
      BY <1>4
    <3> QED
      BY <1>7, <3>1, <3>2
  <2> QED
    BY <1>7, <2>1 DEF ConHash, Bloque, StorageAssumption
<1>9. ASSUME NEW t \in Tag
      PROVE  /\ quedan[t] \in Metadata /\ quedan[t].bloques \in Lista(ConHash')
             /\ quedan[t].estado # "NO" => FileDe[t] \in dirs
  <2>1. CASE t \in vacias
    <3>1. FileDe[t] \in dirs
      BY <1>4, <2>1, MetaEs DEF Guardando
    <3>2. quedan[t] = [tam |-> 0, estado |-> "VACIA", bloques |-> <<>>]
      BY <1>6, <2>1 DEF MetaVacia, NoExiste
    <3>3. <<>> \in Lista(ConHash')
      BY DEF Lista, StorageAssumption
    <3> QED
      BY <3>1, <3>2, <3>3 DEF Metadata
  <2>2. CASE t \notin vacias
    BY <1>6, <1>8, <2>2, MetaEs, ListaCrece DEF Existe
  <2> QED
    BY <2>1, <2>2
<1>10. quedan \in [Tag -> Metadata]
  BY <1>6, <1>9
<1>11. CASE Existe(Base)
  <2>1. /\ Base \in Tag /\ 0 \in 0..(Bloques - 1) /\ 0 \in Bloque /\ 1 \in Logico
        /\ 0..(Bloques - 1) \subseteq Bloque
    BY DEF StorageAssumption, Bloque, Logico
  <2>2. PICK b \in Bloque \cup {Nadie} : enlaces' = [enlaces EXCEPT ![Base][1] = b]
    <3>1. enlaces[Base][1] \in Bloque \cup {Nadie}
      BY <2>1, BloquesDisco
    <3>2. enlaces' = [enlaces EXCEPT ![Base][1] = IF enlaces[Base][1] = Nadie THEN 0
            ELSE enlaces[Base][1]]
      BY <1>4, <1>11, <2>1, BloquesDisco
    <3>3. (IF enlaces[Base][1] = Nadie THEN 0 ELSE enlaces[Base][1]) \in Bloque \cup {Nadie}
      BY <2>1, <3>1
    <3> QED
      BY <3>2, <3>3
  <2>3. enlaces' \in [Tag -> [Logico -> Bloque \cup {Nadie}]]
    BY <2>1, <2>2, BloquesDisco, EnlaceTipo
  <2>4. BloquesBien'
    BY <1>1, <1>4, <1>5, <1>11, <2>1, <2>3, BloquesDisco DEF BloquesBien
  <2>5. contenido[0] \in Valor /\ contenido[0] # Nadie
    BY <2>1, BloquesDisco DEF StorageAssumption
  <2>6. hash' = [indice EXCEPT ![0] = contenido[0]]
    BY <1>4, <1>11
  <2>7. HashBien'
    <3>1. 0 \in ConHash'
      BY <1>8 DEF Tipos, HashBien
    <3> QED
      BY <1>7, <1>8, <2>1, <2>5, <2>6, <3>1 DEF HashBien
  <2>8. MetasBien'
    <3>1. PICK m : m = [tam |-> BLOCK_SIZE, estado |-> "COMMITED", bloques |-> <<0>>]
      OBVIOUS
    <3>2. m \in Metadata /\ m.bloques \in Lista(ConHash')
      BY <1>8, <3>1, MetaBase, ListaCrece DEF Tipos, HashBien
    <3>3. meta' = [quedan EXCEPT ![Base] = m]
      BY <1>4, <1>6, <1>11, <3>1
    <3>4. meta' \in [Tag -> Metadata]
      BY <1>10, <3>2, <3>3
    <3>5. ASSUME NEW t \in Tag
          PROVE  meta'[t].bloques \in Lista(ConHash') /\ (Existe(t)' => FileDe[t] \in dirs')
      <4>1. CASE t = Base
        <5>1. FileDe[Base] \in dirs
          BY <1>11, <2>1 DEF Tipos, MetasBien
        <5> QED
          BY <1>1, <1>10, <3>2, <3>3, <4>1, <5>1
      <4>2. CASE t # Base
        <5>1. meta'[t] = quedan[t]
          BY <1>10, <3>3, <4>2
        <5> QED
          BY <1>1, <1>9, <5>1 DEF Existe
      <4> QED
        BY <4>1, <4>2
    <3> QED
      BY <1>1, <3>4, <3>5 DEF Tipos, MetasBien
  <2>9. ProcesoBien'
    BY <1>3, <1>4, <1>11 DEF Tipos, ProcesoBien
  <2> QED
    BY <1>2, <2>4, <2>7, <2>8, <2>9 DEF Tipos
<1>12. CASE ~ Existe(Base)
  <2>1. /\ bitmap' = leido /\ hash' = indice /\ meta' = quedan /\ parada' = "CREATE"
        /\ enlaces' = enlaces
    BY <1>4, <1>6, <1>12
  <2>2. BloquesBien'
    BY <1>1, <1>5, <2>1, BloquesDisco DEF BloquesBien
  <2>3. HashBien'
    <3>1. 0 \in ConHash'
      BY <1>8 DEF Tipos, HashBien
    <3> QED
      BY <1>7, <1>8, <2>1, <3>1 DEF HashBien
  <2>4. MetasBien'
    BY <1>1, <1>9, <1>10, <2>1 DEF Tipos, MetasBien, Existe
  <2>5. ProcesoBien'
    BY <1>3, <2>1 DEF ProcesoBien
  <2> QED
    BY <1>2, <2>2, <2>3, <2>4, <2>5 DEF Tipos
<1> QED
  BY <1>11, <1>12

\* A step that changes nothing.
LEMMA NadaTipos ==
    ASSUME Tipos, UNCHANGED vars
    PROVE  Tipos'
<1>1. UNCHANGED discos /\ hilo' = hilo /\ parada' = parada /\ cortes' = cortes
  BY DEF vars, discos
<1>2. HashBien' /\ MetasBien' /\ BloquesBien' /\ dirs' = dirs /\ ConHash' = ConHash
        /\ Seguro' = Seguro /\ hash' = hash
  BY <1>1, DiscoFijo DEF discos
<1> QED
  BY <1>1, <1>2 DEF Tipos, HilosBien, ProcesoBien

\* Every request that begins.
LEMMA PedidoTipos ==
    ASSUME StorageAssumption, Tipos, NEW w \in Worker, Pedido(w)
    PROVE  Tipos'
<1>1. ASSUME NEW t \in Tag, Crear(w, t) \/ Confirmar(w, t) \/ Reconfirmar(w, t) \/ Borrar(w, t)
      PROVE  Tipos'
  BY <1>1, CrearTipos, ConfirmarTipos, ReconfirmarTipos, BorrarTipos
<1>2. ASSUME NEW t \in Tag, CrearEnFile(w, t) \/ LeerVacia(w, t)
      PROVE  Tipos'
  BY <1>2, ParaTipos DEF CrearEnFile, LeerVacia
<1>3. ASSUME NEW t \in Tag, NEW i \in Logico, LeerSinEnlace(w, t, i)
      PROVE  Tipos'
  BY <1>3, ParaTipos DEF LeerSinEnlace
<1>4. ASSUME NEW t \in Tag, NEW tam \in Tamanios, Crecer(w, t, tam) \/ Achicar(w, t, tam)
      PROVE  Tipos'
  BY <1>4, CrecerTipos, AchicarTipos
<1>5. ASSUME NEW t \in Tag, NEW tam \in Tamanios, AchicarMal(w, t, tam)
      PROVE  Tipos'
  <2>1. PICK m \in {"mutex", "TRUNCATE"} : Para(m)
    BY <1>5 DEF AchicarMal
  <2> QED
    BY <2>1, ParaTipos
<1>6. ASSUME NEW t \in Tag, NEW u \in Tag, Etiquetar(w, t, u)
      PROVE  Tipos'
  BY <1>6, EtiquetarTipos
<1>7. ASSUME NEW t \in Tag, NEW u \in Tag, EtiquetarMal(w, t, u)
      PROVE  Tipos'
  BY <1>7, ParaTipos DEF EtiquetarMal
<1>8. ASSUME NEW t \in Tag, NEW i \in Logico, NEW v \in Valor,
             EscribirEnSitio(w, t, i, v) \/ EscribirAparte(w, t, i, v)
      PROVE  Tipos'
  BY <1>8, EscribirEnSitioTipos, EscribirAparteTipos
<1> QED
  BY <1>1, <1>2, <1>3, <1>4, <1>5, <1>6, <1>7, <1>8 DEF Pedido

\* Every step of one.
LEMMA PasoTipos ==
    ASSUME StorageAssumption, Tipos, NEW w \in Worker, Paso(w)
    PROVE  Tipos'
<1>1. CASE Alargar(w) \/ Marcar(w) \/ Ligar(w)
  BY <1>1, AlargarTipos, MarcarTipos, LigarTipos
<1>2. CASE CompararNulo(w) \/ Buscar(w) \/ Soltar(w) \/ Religar(w)
  <2>1. CompararNulo(w) => Tipos'
    BY ParaTipos DEF CompararNulo
  <2> QED
    BY <1>2, <2>1, BuscarTipos, SoltarTipos, ReligarTipos
<1>3. CASE Desligar(w) \/ Liberar(w) \/ Quitar(w)
  BY <1>3, DesligarTipos, LiberarTipos, QuitarTipos
<1>4. CASE Escribir(w)
  BY <1>4, ReservarTipos, EscribirDatosTipos, LeerIndiceTipos, GuardarHashTipos, EnlazarTipos,
     GuardarMetadataTipos DEF Escribir
<1> QED
  BY <1>1, <1>2, <1>3, <1>4 DEF Paso

\* The invariant.
LEMMA StorageInductivo == Spec => []Tipos
<1>1. Init => Tipos
  BY StorageAssumption, InitTipos
<1>2. Tipos /\ [Next]_vars => Tipos'
  <2> SUFFICES ASSUME Tipos, [Next]_vars
               PROVE  Tipos'
    OBVIOUS
  <2>1. CASE Next
    BY <2>1, StorageAssumption, PedidoTipos, PasoTipos, ReiniciarTipos DEF Next
  <2>2. CASE UNCHANGED vars
    BY <2>2, NadaTipos
  <2> QED
    BY <2>1, <2>2
<1> QED
  BY <1>1, <1>2, PTL DEF Spec

\* What TypeOK says is part of it.
LEMMA TiposTypeOK ==
    ASSUME StorageAssumption, Tipos
    PROVE  TypeOK
<1>1. \A t \in Tag : ToSet(meta[t].bloques) \subseteq 0..(Bloques - 1)
  <2> SUFFICES ASSUME NEW t \in Tag
               PROVE  ToSet(meta[t].bloques) \subseteq ConHash
    BY DEF ConHash
  <2>1. PICK s \in Seq(ConHash) : s = meta[t].bloques
    BY MetaEs
  <2> QED
    BY <2>1 DEF ToSet
<1> QED
  BY <1>1 DEF Tipos, HashBien, MetasBien, BloquesBien, HilosBien, ProcesoBien, TypeOK

\* For any number of Workers, and wherever their requests are when Storage is
\* stopped, every variable has its type.  In particular BLOQUES never names a
\* block past the end of the disk, though the bitmap has bits past it that a
\* WRITE may choose: that request ends before it saves its copy.
THEOREM StorageTipos == Spec => []TypeOK
<1>1. Tipos => TypeOK
  BY StorageAssumption, TiposTypeOK
<1> QED
  BY <1>1, StorageInductivo, PTL

\* With one Worker, at every step of every request and until a stop in the
\* middle of one, each block that BLOQUES names has a hash: COMMIT compares it
\* with no check for NULL.
THEOREM StorageHashPresente ==
    ASSUME UnSoloWorker
    PROVE  Spec => []HashPresente
<1>1. Tipos => HashPresente
  <2> SUFFICES ASSUME Tipos, cortes = 0, NEW t \in Tag, NEW b \in ToSet(meta[t].bloques)
               PROVE  hash[b] # Nadie
    BY DEF HashPresente
  <2>1. PICK s \in Seq(ConHash) : s = meta[t].bloques
    BY StorageAssumption, MetaEs
  <2>2. b \in ConHash
    BY <2>1 DEF ToSet
  <2> QED
    BY <2>2 DEF ConHash, Seguro
<1> QED
  BY <1>1, StorageInductivo, PTL

=============================================================================
