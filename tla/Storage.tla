------------------------------ MODULE Storage -------------------------------
(***************************************************************************)
(* Storage (src/storage/src/storage.c): the metadata.config of each        *)
(* file:tag, its logical blocks (hard links to physical blocks), the       *)
(* bitmap, the hash index, and the requests that change them, each served  *)
(* by the thread of the Worker that sent it                                *)
(* (se_conecta_un_worker_al_storage).                                      *)
(*                                                                         *)
(* TRUNCATE, TAG, COMMIT, DELETE and WRITE take one step for each change   *)
(* they make on the disk, working from the copy of the metadata they read  *)
(* first, and WRITE from a copy of the whole hash index; no lock covers    *)
(* them.  config_save empties a file and then writes it: in between        *)
(* another thread may read it empty, and a stop leaves it so.  Storage may *)
(* be stopped anywhere and started again over the same files.  A request   *)
(* that is refused changes nothing and is not a step.  md5 is taken to     *)
(* tell all contents apart.                                                *)
(***************************************************************************)
EXTENDS Integers, SequencesExt

CONSTANTS
    Worker,        \* connected Workers, one thread each
    Tag,           \* file:tag names
    Base,          \* initial_file:BASE
    FileDe,        \* the file of each file:tag
    Valor,         \* contents of a block
    Cero,          \* contents of the block 0
    Bloques,       \* FS_SIZE / BLOCK_SIZE
    Bits,          \* bitarray_get_max_bit: Bloques rounded up to whole bytes
    BLOCK_SIZE,
    Tamanios,      \* sizes for TRUNCATE
    TocaBase,      \* queries may TRUNCATE and DELETE initial_file:BASE
    MaxLogicos,    \* bound: logical blocks of a file:tag
    MaxCortes,     \* bound: stops in the middle of a request
    Nadie          \* no block, no hash, no contents

ASSUME StorageAssumption ==
    /\ IsFiniteSet(Worker) /\ IsFiniteSet(Tag)
    /\ Base \in Tag /\ Cero \in Valor
    /\ Bloques \in Nat \ {0} /\ Bits \in Nat /\ Bloques <= Bits
    /\ BLOCK_SIZE \in Nat \ {0}
    /\ Tamanios \subseteq 0..(BLOCK_SIZE * (MaxLogicos + 1) - 1)
    /\ TocaBase \in BOOLEAN
    /\ MaxLogicos \in Nat \ {0} /\ MaxCortes \in Nat
    /\ Nadie \notin Valor \cup Nat

Bloque == 0..(Bits - 1)
Logico == 1..MaxLogicos   \* logical block i is the file named i - 1

VARIABLES
    dirs,        \* files with a directory
    meta,        \* metadata.config of each file:tag
    enlaces,     \* the physical block each logical block is linked to
    contenido,   \* contents of each physical block
    bitmap,      \* global_bitmap: the blocks in use
    hash,        \* blocks_hash_index.config
    hilo,        \* the request each thread is at
    parada,      \* what stopped Storage by itself, if anything did
    cortes       \* times it was stopped in the middle of a request

vars == <<dirs, meta, enlaces, contenido, bitmap, hash, hilo, parada, cortes>>
discos == <<dirs, meta, enlaces, contenido, bitmap, hash>>
proceso == <<parada, cortes>>

Metadata == [tam : Tamanios \cup {0, BLOCK_SIZE}, estado : {"NO", "VACIA", "WORK_IN_PROGRESS", "COMMITED"},
             bloques : Seq(Bloque)]
NoExiste == [tam |-> 0, estado |-> "NO", bloques |-> <<>>]
Existe(t) == meta[t].estado # "NO"

\* A metadata.config with nothing in it has no keys to be read.
MetaVacia == [NoExiste EXCEPT !.estado = "VACIA"]
Legible(t) == meta[t].estado \in {"WORK_IN_PROGRESS", "COMMITED"}

Pasos == {"alargar", "marcar", "ligar", "buscar", "soltar", "religar", "desligar", "liberar",
          "quitar", "reservar", "escribir", "hash", "indexar", "enlazar", "guardar"}
Ocioso == [paso |-> "ocioso"]
EnCurso == [paso : Pasos, tag : Tag, faltan : Seq(Logico), copia : Metadata,
            indice : [Bloque -> Valor \cup {Nadie}] \cup {<<>>},
            valor : Valor \cup {Nadie}, bloque : Bloque \cup {Nadie}, nuevo : BOOLEAN]

\* Types of every variable; a number in BLOQUES is that of a block that exists.
TypeOK ==
    /\ dirs \subseteq {FileDe[t] : t \in Tag}
    /\ \A t \in Tag : /\ meta[t] \in Metadata
                      /\ ToSet(meta[t].bloques) \subseteq 0..(Bloques - 1)
                      /\ Existe(t) => FileDe[t] \in dirs
    /\ enlaces \in [Tag -> [Logico -> Bloque \cup {Nadie}]]
    /\ contenido \in [0..(Bloques - 1) -> Valor]
    /\ bitmap \subseteq Bloque
    /\ hash \in [Bloque -> Valor \cup {Nadie}]
    /\ hilo \in [Worker -> EnCurso \cup {Ocioso}]
    /\ parada \in {"no", "CREATE", "TAG", "READ", "TRUNCATE", "COMMIT", "metadata", "mutex"}
    /\ cortes \in 0..MaxCortes

-----------------------------------------------------------------------------
(* Links.                                                                  *)

SinEnlaces == [i \in Logico |-> Nadie]

\* st_nlink of a physical block: its own name and those of logical blocks.
NLink(en, b) == 1 + Cardinality({p \in Tag \X Logico : en[p[1]][p[2]] = b})

\* buscar_primer_bit_libre.
PrimerBitLibre == CHOOSE b \in Bloque \ bitmap : \A c \in Bloque \ bitmap : b <= c

Permitida(t) == t = Base => TocaBase
Atiende(w) == parada = "no" /\ hilo[w] = Ocioso
Para(motivo) == parada' = motivo /\ UNCHANGED <<discos, hilo, cortes>>
EnUnPaso == UNCHANGED <<hilo, proceso>>

\* A request that works on the logical blocks ls of t, from a copy of its
\* metadata.
Empieza(w, paso, t, ls, copia) ==
    hilo' = [hilo EXCEPT ![w] = [paso |-> paso, tag |-> t, faltan |-> ls, copia |-> copia,
                                 indice |-> <<>>, valor |-> Nadie, bloque |-> Nadie, nuevo |-> FALSE]]

En(w, paso) == parada = "no" /\ hilo[w] # Ocioso /\ hilo[w].paso = paso
Sigue(w, paso) == hilo' = [hilo EXCEPT ![w].paso = paso]
Termina(w) == hilo' = [hilo EXCEPT ![w] = Ocioso]

\* On to the next logical block, or to another step after the last one.
Avanza(h, paso, despues) ==
    [h EXCEPT !.faltan = Tail(@), !.paso = IF Len(h.faltan) = 1 THEN despues ELSE paso]

Indices(m) == [i \in DOMAIN m.bloques |-> i]

\* Between the emptying and the writing of t's metadata by config_save.
Guardando(w, t) == Existe(t) /\ (En(w, "guardar") \/ En(w, "marcar")) /\ hilo[w].tag = t

\* Any request for t but CREATE, and TAG from it, reads a metadata that a save
\* has emptied, and uses a key that is not there.
LeerVacia(w, t) ==
    /\ Atiende(w)
    /\ meta[t].estado = "VACIA" \/ \E v \in Worker : Guardando(v, t)
    /\ Para("metadata")

\* What a thread, or a restart, reads of blocks_hash_index.config.
IndiceVacio == [b \in Bloque |-> Nadie]
IndiceEnDisco == {hash} \cup {IndiceVacio : v \in {v \in Worker : En(v, "indexar")}}

-----------------------------------------------------------------------------
(* CREATE, READ, TRUNCATE, TAG.                                            *)

\* Mutant: the directory of the file is not made.
CrearSinDirectorio(w, t) ==
    /\ Atiende(w)
    /\ ~ Existe(t) /\ FileDe[t] \notin dirs
    /\ meta' = [meta EXCEPT ![t] = [NoExiste EXCEPT !.estado = "WORK_IN_PROGRESS"]]
    /\ EnUnPaso
    /\ UNCHANGED <<dirs, enlaces, contenido, bitmap, hash>>

\* funcion_para_create_file, for a file that does not exist.
Crear(w, t) ==
    /\ Atiende(w)
    /\ ~ Existe(t) /\ FileDe[t] \notin dirs
    /\ dirs' = dirs \cup {FileDe[t]}
    /\ meta' = [meta EXCEPT ![t] = [NoExiste EXCEPT !.estado = "WORK_IN_PROGRESS"]]
    /\ EnUnPaso
    /\ UNCHANGED <<enlaces, contenido, bitmap, hash>>

\* For a file that exists without that tag it reads a metadata.config that is
\* not there.
CrearEnFile(w, t) ==
    /\ Atiende(w)
    /\ ~ Existe(t) /\ FileDe[t] \in dirs
    /\ Para("CREATE")

\* lectura of a block that BLOQUES has and that is not linked.
LeerSinEnlace(w, t, i) ==
    /\ Atiende(w)
    /\ i \in DOMAIN meta[t].bloques
    /\ enlaces[t][i] = Nadie
    /\ Para("READ")

\* TRUNCATE to a larger size: names are counted from TAMANIO, and BLOQUES is
\* made longer in the copy.  To the same size it saves what it read.
Crecer(w, t, tam) ==
    LET n == (tam - meta[t].tam) \div BLOCK_SIZE
        primero == meta[t].tam \div BLOCK_SIZE + 1
    IN  /\ Atiende(w)
        /\ Legible(t) /\ Permitida(t) /\ tam >= meta[t].tam
        /\ Len(meta[t].bloques) + n <= MaxLogicos
        /\ Empieza(w, IF n = 0 THEN "guardar" ELSE "alargar", t, [k \in 1..n |-> primero + k - 1],
                   [meta[t] EXCEPT !.tam = tam, !.bloques = @ \o [i \in 1..n |-> 0]])
        /\ UNCHANGED <<discos, proceso>>

\* Each new name is linked to the block 0; one that exists keeps its block.
Alargar(w) ==
    LET h == hilo[w]
        i == Head(h.faltan)
    IN  /\ En(w, "alargar")
        /\ enlaces' = IF Existe(h.tag) /\ enlaces[h.tag][i] = Nadie
                      THEN [enlaces EXCEPT ![h.tag][i] = 0] ELSE enlaces
        /\ hilo' = [hilo EXCEPT ![w] = Avanza(h, "alargar", "guardar")]
        /\ UNCHANGED <<dirs, meta, contenido, bitmap, hash, proceso>>

\* The entries of BLOQUES that a TRUNCATE to a smaller size looks at.
Mirados(t, tam) ==
    LET viejos == meta[t].tam \div BLOCK_SIZE
        n == (meta[t].tam - tam) \div BLOCK_SIZE
    IN  (viejos - n + 1)..viejos

\* TRUNCATE to a smaller size removes names that no logical block has, so the
\* blocks stay linked and BLOQUES keeps them.
Achicar(w, t, tam) ==
    /\ Atiende(w)
    /\ Legible(t) /\ Permitida(t) /\ tam < meta[t].tam
    /\ Mirados(t, tam) \subseteq DOMAIN meta[t].bloques
    /\ \A i \in Mirados(t, tam) : NLink(enlaces, meta[t].bloques[i]) # 1
    /\ Empieza(w, "guardar", t, <<>>, [meta[t] EXCEPT !.tam = tam])
    /\ UNCHANGED <<discos, proceso>>

\* It reads past the end of BLOQUES, or finds a block to free and locks
\* mutex_global_bitmap twice.
AchicarMal(w, t, tam) ==
    LET dentro == Mirados(t, tam) \subseteq DOMAIN meta[t].bloques
    IN  /\ Atiende(w)
        /\ Legible(t) /\ Permitida(t) /\ tam < meta[t].tam
        /\ dentro => \E i \in Mirados(t, tam) : NLink(enlaces, meta[t].bloques[i]) = 1
        /\ Para(IF dentro THEN "mutex" ELSE "TRUNCATE")

\* duplicar_tag copies metadata.config as it is, ESTADO included.
Etiquetar(w, origen, destino) ==
    /\ Atiende(w)
    /\ Legible(origen) /\ ~ Existe(destino) /\ FileDe[destino] \in dirs
    /\ meta' = [meta EXCEPT ![destino] = meta[origen]]
    /\ Empieza(w, "marcar", destino, Indices(meta[origen]),
               [meta[origen] EXCEPT !.estado = "WORK_IN_PROGRESS"])
    /\ UNCHANGED <<dirs, enlaces, contenido, bitmap, hash, proceso>>

\* Then it sets ESTADO.
Marcar(w) ==
    /\ En(w, "marcar")
    /\ meta' = [meta EXCEPT ![hilo[w].tag] = hilo[w].copia]
    /\ IF hilo[w].faltan = <<>> THEN Termina(w) ELSE Sigue(w, "ligar")
    /\ UNCHANGED <<dirs, enlaces, contenido, bitmap, hash, proceso>>

\* And it links what BLOQUES says, whatever the original is linked to.
Ligar(w) ==
    LET h == hilo[w]
        i == Head(h.faltan)
        b == h.copia.bloques[i]
    IN  /\ En(w, "ligar")
        /\ IF Existe(h.tag) /\ enlaces[h.tag][i] = Nadie
           THEN /\ enlaces' = [enlaces EXCEPT ![h.tag][i] = b]
                /\ bitmap' = bitmap \cup {b}
           ELSE UNCHANGED <<enlaces, bitmap>>
        /\ IF Len(h.faltan) = 1 THEN Termina(w)
           ELSE hilo' = [hilo EXCEPT ![w].faltan = Tail(@)]
        /\ UNCHANGED <<dirs, meta, contenido, hash, proceso>>

\* Without an original, or a directory for the copy, it uses a NULL FILE*.
EtiquetarMal(w, origen, destino) ==
    /\ Atiende(w)
    /\ ~ Existe(destino)
    /\ ~ Existe(origen) \/ FileDe[destino] \notin dirs
    /\ Para("TAG")

-----------------------------------------------------------------------------
(* COMMIT.                                                                 *)

\* Blocks in use with the hash of b, other than b, by a copy of the index.
Duplicados(b, indice) == {k \in bitmap \ {b} : indice[k] # Nadie /\ indice[k] = indice[b]}
Primero(S) == CHOOSE k \in S : \A l \in S : k <= l

\* The hash of a block in use is compared with one that is not there.
SinHash(b, indice) == indice[b] = Nadie /\ \E k \in bitmap \ {b} : indice[k] # Nadie

\* commitear_tag: ESTADO changes in the copy, and the hash index is loaded once.
Confirmar(w, t) ==
    /\ Atiende(w)
    /\ meta[t].estado = "WORK_IN_PROGRESS"
    /\ \E indice \in IndiceEnDisco :
          hilo' = [hilo EXCEPT ![w] =
                   [paso |-> IF meta[t].bloques = <<>> THEN "guardar" ELSE "buscar", tag |-> t,
                    faltan |-> Indices(meta[t]), copia |-> [meta[t] EXCEPT !.estado = "COMMITED"],
                    indice |-> indice, valor |-> Nadie, bloque |-> Nadie, nuevo |-> FALSE]]
    /\ UNCHANGED <<discos, proceso>>

\* A COMMIT that is refused saves the metadata it read all the same.
Reconfirmar(w, t) ==
    /\ Atiende(w)
    /\ meta[t].estado = "COMMITED"
    /\ Empieza(w, "guardar", t, <<>>, meta[t])
    /\ UNCHANGED <<discos, proceso>>

\* strcmp with a hash that the index does not have.
CompararNulo(w) ==
    /\ En(w, "buscar")
    /\ SinHash(hilo[w].copia.bloques[Head(hilo[w].faltan)], hilo[w].indice)
    /\ Para("COMMIT")

\* A logical block leaves its block for the first one with the same contents.
Buscar(w) ==
    LET h == hilo[w]
        i == Head(h.faltan)
        dups == Duplicados(h.copia.bloques[i], h.indice)
    IN  /\ En(w, "buscar")
        /\ ~ SinHash(h.copia.bloques[i], h.indice)
        /\ IF dups = {}
           THEN /\ hilo' = [hilo EXCEPT ![w] = Avanza(h, "buscar", "guardar")]
                /\ UNCHANGED enlaces
           ELSE /\ hilo' = [hilo EXCEPT ![w].bloque = Primero(dups),
                               ![w].paso = IF enlaces[h.tag][i] = Nadie THEN "religar" ELSE "soltar"]
                /\ enlaces' = [enlaces EXCEPT ![h.tag][i] = Nadie]
        /\ UNCHANGED <<dirs, meta, contenido, bitmap, hash, proceso>>

\* Mutant: the block that is left is taken to be free.
SoltarSinContar(w) ==
    LET b == hilo[w].copia.bloques[Head(hilo[w].faltan)]
    IN  /\ En(w, "soltar")
        /\ bitmap' = bitmap \ {b}
        /\ Sigue(w, "religar")
        /\ UNCHANGED <<dirs, meta, enlaces, contenido, hash, proceso>>

\* The block that is left is freed when no other logical block is linked to it.
Soltar(w) ==
    LET b == hilo[w].copia.bloques[Head(hilo[w].faltan)]
    IN  /\ En(w, "soltar")
        /\ bitmap' = IF NLink(enlaces, b) = 1 THEN bitmap \ {b} ELSE bitmap
        /\ Sigue(w, "religar")
        /\ UNCHANGED <<dirs, meta, enlaces, contenido, hash, proceso>>

\* Mutant: BLOQUES is left as it was.
ReligarSinBloques(w) ==
    LET h == hilo[w]
        i == Head(h.faltan)
    IN  /\ En(w, "religar")
        /\ enlaces' = IF Existe(h.tag) /\ enlaces[h.tag][i] = Nadie
                      THEN [enlaces EXCEPT ![h.tag][i] = h.bloque] ELSE enlaces
        /\ hilo' = [hilo EXCEPT ![w] = Avanza(h, "buscar", "guardar")]
        /\ UNCHANGED <<dirs, meta, contenido, bitmap, hash, proceso>>

\* BLOQUES keeps the number it had when the link fails.
Religar(w) ==
    LET h == hilo[w]
        i == Head(h.faltan)
        ligado == Existe(h.tag) /\ enlaces[h.tag][i] = Nadie
    IN  /\ En(w, "religar")
        /\ enlaces' = IF ligado THEN [enlaces EXCEPT ![h.tag][i] = h.bloque] ELSE enlaces
        /\ hilo' = [hilo EXCEPT ![w] = Avanza(
                       IF ligado THEN [h EXCEPT !.copia.bloques[i] = h.bloque] ELSE h,
                       "buscar", "guardar")]
        /\ UNCHANGED <<dirs, meta, contenido, bitmap, hash, proceso>>

-----------------------------------------------------------------------------
(* DELETE.                                                                 *)

\* eliminar_tag, for a COMMITED file:tag too.
Borrar(w, t) ==
    /\ Atiende(w)
    /\ Legible(t) /\ Permitida(t)
    /\ Empieza(w, IF meta[t].bloques = <<>> THEN "quitar" ELSE "desligar", t, Indices(meta[t]), meta[t])
    /\ UNCHANGED <<discos, proceso>>

\* First every name that BLOQUES counts is removed.
Desligar(w) ==
    LET h == hilo[w]
        sigue == Avanza(h, "desligar", "liberar")
    IN  /\ En(w, "desligar")
        /\ enlaces' = [enlaces EXCEPT ![h.tag][Head(h.faltan)] = Nadie]
        /\ hilo' = [hilo EXCEPT ![w] = IF sigue.paso = "liberar"
                                       THEN [sigue EXCEPT !.faltan = Indices(h.copia)] ELSE sigue]
        /\ UNCHANGED <<dirs, meta, contenido, bitmap, hash, proceso>>

\* Then the blocks of BLOQUES that are left with no link are freed.
Liberar(w) ==
    LET h == hilo[w]
        b == h.copia.bloques[Head(h.faltan)]
    IN  /\ En(w, "liberar")
        /\ bitmap' = IF NLink(enlaces, b) = 1 THEN bitmap \ {b} ELSE bitmap
        /\ hilo' = [hilo EXCEPT ![w] = Avanza(h, "liberar", "quitar")]
        /\ UNCHANGED <<dirs, meta, enlaces, contenido, hash, proceso>>

\* And the directory is removed with all it has.
Quitar(w) ==
    /\ En(w, "quitar")
    /\ enlaces' = [enlaces EXCEPT ![hilo[w].tag] = SinEnlaces]
    /\ meta' = [meta EXCEPT ![hilo[w].tag] = NoExiste]
    /\ Termina(w)
    /\ UNCHANGED <<dirs, contenido, bitmap, hash, proceso>>

-----------------------------------------------------------------------------
(* WRITE.                                                                  *)

\* The copy of the metadata, with the block that the logical block i will have.
EmpiezaEscritura(w, paso, t, i, v, b, nuevo) ==
    hilo' = [hilo EXCEPT ![w] =
                [paso |-> paso, tag |-> t, faltan |-> <<i>>,
                 copia |-> [meta[t] EXCEPT !.bloques[i] = b],
                 indice |-> <<>>, valor |-> v, bloque |-> b, nuevo |-> nuevo]]

Escribible(t, i) ==
    meta[t].estado = "WORK_IN_PROGRESS" /\ i \in DOMAIN meta[t].bloques /\ enlaces[t][i] # Nadie

\* A block that only this logical block is linked to is written where it is.
EscribirEnSitio(w, t, i, v) ==
    /\ Atiende(w)
    /\ Escribible(t, i)
    /\ NLink(enlaces, meta[t].bloques[i]) <= 2
    /\ EmpiezaEscritura(w, "escribir", t, i, v, meta[t].bloques[i], FALSE)
    /\ UNCHANGED <<discos, proceso>>

\* A block with more links is left to them: the first free one is chosen, under
\* a lock that is released before it is taken.
EscribirAparte(w, t, i, v) ==
    /\ Atiende(w)
    /\ Escribible(t, i)
    /\ NLink(enlaces, meta[t].bloques[i]) > 2
    /\ bitmap # Bloque
    /\ EmpiezaEscritura(w, "reservar", t, i, v, PrimerBitLibre, TRUE)
    /\ UNCHANGED <<discos, proceso>>

Reservar(w) ==
    /\ En(w, "reservar")
    /\ bitmap' = bitmap \cup {hilo[w].bloque}
    /\ Sigue(w, "escribir")
    /\ UNCHANGED <<dirs, meta, enlaces, contenido, hash, proceso>>

\* For a new block the logical block is unlinked first; a bit of the bitmap
\* past the last block has no file to open, and the request ends there.
EscribirDatos(w) ==
    LET h == hilo[w]
    IN  /\ En(w, "escribir")
        /\ enlaces' = IF h.nuevo THEN [enlaces EXCEPT ![h.tag][Head(h.faltan)] = Nadie] ELSE enlaces
        /\ IF h.bloque < Bloques
           THEN contenido' = [contenido EXCEPT ![h.bloque] = h.valor] /\ Sigue(w, "hash")
           ELSE Termina(w) /\ UNCHANGED contenido
        /\ UNCHANGED <<dirs, meta, bitmap, hash, proceso>>

\* config_create: the whole index, with no lock from here to its save.
LeerIndice(w) ==
    /\ En(w, "hash")
    /\ \E indice \in IndiceEnDisco :
          hilo' = [hilo EXCEPT ![w].indice = indice, ![w].paso = "indexar"]
    /\ UNCHANGED <<discos, proceso>>

ConSuHash(h) == [h.indice EXCEPT ![h.bloque] = h.valor]

TrasIndexar(w) ==
    /\ hilo' = [hilo EXCEPT ![w].indice = <<>>,
                            ![w].paso = IF hilo[w].nuevo THEN "enlazar" ELSE "guardar"]
    /\ UNCHANGED <<dirs, meta, enlaces, contenido, bitmap, proceso>>

\* Mutant: only a new block has its hash saved.
GuardarHashNuevo(w) ==
    /\ En(w, "indexar")
    /\ hash' = IF hilo[w].nuevo THEN ConSuHash(hilo[w]) ELSE hash
    /\ TrasIndexar(w)

\* Mutant: a new block gets its hash when it is next written.
GuardarHashEnSitio(w) ==
    /\ En(w, "indexar")
    /\ hash' = IF hilo[w].nuevo THEN hash ELSE ConSuHash(hilo[w])
    /\ TrasIndexar(w)

\* config_save: the whole index, with one entry more or changed.  A block
\* written where it was is answered OK here.
GuardarHash(w) ==
    /\ En(w, "indexar")
    /\ hash' = ConSuHash(hilo[w])
    /\ TrasIndexar(w)

\* The link fails when the name exists or the directory is gone; OK is
\* answered all the same.
Enlazar(w) ==
    LET h == hilo[w]
    IN  /\ En(w, "enlazar")
        /\ IF Existe(h.tag) /\ enlaces[h.tag][Head(h.faltan)] = Nadie
           THEN /\ enlaces' = [enlaces EXCEPT ![h.tag][Head(h.faltan)] = h.bloque]
                /\ bitmap' = bitmap \cup {h.bloque}
           ELSE UNCHANGED <<enlaces, bitmap>>
        /\ Sigue(w, "guardar")
        /\ UNCHANGED <<dirs, meta, contenido, hash, proceso>>

\* The whole copy of the metadata is saved, in a WRITE after the answer.
GuardarMetadata(w) ==
    /\ En(w, "guardar")
    /\ meta' = IF Existe(hilo[w].tag) THEN [meta EXCEPT ![hilo[w].tag] = hilo[w].copia] ELSE meta
    /\ Termina(w)
    /\ UNCHANGED <<dirs, enlaces, contenido, bitmap, hash, proceso>>

-----------------------------------------------------------------------------
\* A fresh start: inicializar_bitmap, crear_bloque_inicial.
Init ==
    /\ dirs = {FileDe[Base]}
    /\ meta = [t \in Tag |-> IF t = Base
                  THEN [tam |-> BLOCK_SIZE, estado |-> "COMMITED", bloques |-> <<0>>] ELSE NoExiste]
    /\ enlaces = [t \in Tag |-> [i \in Logico |-> IF t = Base /\ i = 1 THEN 0 ELSE Nadie]]
    /\ contenido = [b \in 0..(Bloques - 1) |-> Cero]
    /\ bitmap = {0}
    /\ hash = [b \in Bloque |-> IF b = 0 THEN Cero ELSE Nadie]
    /\ hilo = [w \in Worker |-> Ocioso]
    /\ parada = "no"
    /\ cortes = 0

EnReposo == \A w \in Worker : hilo[w] = Ocioso

\* bitmap.bin is emptied before it is written: what a stop may leave of it.
BitmapEnDisco ==
    {bitmap} \cup {{} : w \in {v \in Worker : En(v, "ligar") \/ En(v, "soltar") \/ En(v, "liberar")
                                              \/ En(v, "reservar") \/ En(v, "enlazar")}}

\* Mutant: the bitmap is made again as in a fresh start.
ReiniciarBitmap ==
    /\ parada = "no"
    /\ EnReposo \/ cortes < MaxCortes
    /\ cortes' = IF EnReposo THEN cortes ELSE cortes + 1
    /\ hilo' = [w \in Worker |-> Ocioso]
    /\ bitmap' = {0}
    /\ UNCHANGED <<dirs, meta, enlaces, contenido, hash, parada>>

\* Storage is stopped, wherever its threads are, and starts again with
\* FRESH_START=FALSE over what is on the disk: a file that was being saved may
\* be empty.  The bitmap is read back and initial_file:BASE put right; without
\* BASE it makes the error of CREATE.
Reiniciar ==
    /\ parada = "no"
    /\ EnReposo \/ cortes < MaxCortes
    /\ cortes' = IF EnReposo THEN cortes ELSE cortes + 1
    /\ hilo' = [w \in Worker |-> Ocioso]
    /\ \E leido \in BitmapEnDisco, indice \in IndiceEnDisco,
          vacias \in SUBSET {t \in Tag : \E w \in Worker : Guardando(w, t)} :
       LET quedan == [t \in Tag |-> IF t \in vacias THEN MetaVacia ELSE meta[t]]
       IN IF Existe(Base)
          THEN /\ bitmap' = IF enlaces[Base][1] = Nadie THEN leido \cup {0} ELSE leido
               /\ enlaces' = [enlaces EXCEPT ![Base][1] = IF @ = Nadie THEN 0 ELSE @]
               /\ hash' = [indice EXCEPT ![0] = contenido[0]]
               /\ meta' = [quedan EXCEPT ![Base] =
                              [tam |-> BLOCK_SIZE, estado |-> "COMMITED", bloques |-> <<0>>]]
               /\ UNCHANGED parada
          ELSE /\ bitmap' = leido /\ hash' = indice /\ meta' = quedan
               /\ parada' = "CREATE"
               /\ UNCHANGED enlaces
    /\ UNCHANGED <<dirs, contenido>>

Pedido(w) ==
    \/ \E t \in Tag : Crear(w, t) \/ CrearEnFile(w, t) \/ LeerVacia(w, t)
                     \/ Confirmar(w, t) \/ Reconfirmar(w, t) \/ Borrar(w, t)
    \/ \E t \in Tag, i \in Logico : LeerSinEnlace(w, t, i)
    \/ \E t \in Tag, tam \in Tamanios :
          Crecer(w, t, tam) \/ Achicar(w, t, tam) \/ AchicarMal(w, t, tam)
    \/ \E origen, destino \in Tag : Etiquetar(w, origen, destino) \/ EtiquetarMal(w, origen, destino)
    \/ \E t \in Tag, i \in Logico, v \in Valor :
          EscribirEnSitio(w, t, i, v) \/ EscribirAparte(w, t, i, v)

Escribir(w) ==
    \/ Reservar(w) \/ EscribirDatos(w) \/ LeerIndice(w) \/ GuardarHash(w)
    \/ Enlazar(w) \/ GuardarMetadata(w)

Paso(w) ==
    \/ Alargar(w) \/ Marcar(w) \/ Ligar(w)
    \/ CompararNulo(w) \/ Buscar(w) \/ Soltar(w) \/ Religar(w)
    \/ Desligar(w) \/ Liberar(w) \/ Quitar(w)
    \/ Escribir(w)

Next == (\E w \in Worker : Pedido(w) \/ Paso(w)) \/ Reiniciar

Spec == Init /\ [][Next]_vars

-----------------------------------------------------------------------------
(* Properties.                                                             *)

Tranquilo == EnReposo /\ cortes = 0

\* The two records of where a logical block is, BLOQUES and the hard link,
\* never disagree between requests: READ follows the link and WRITE, COMMIT,
\* TAG and DELETE follow BLOQUES.
EnlacesCoinciden ==
    Tranquilo => \A t \in Tag : \A i \in DOMAIN meta[t].bloques :
                    enlaces[t][i] \in {meta[t].bloques[i], Nadie}

\* The bitmap is exact: a block is in use when a logical block is linked to it
\* and free when none is, after any mix of copies, deduplications, deletes and
\* restarts.
BitmapExacto ==
    Tranquilo => bitmap = {0} \cup ({enlaces[t][i] : t \in Tag, i \in Logico} \ {Nadie})

\* The hash index tells the contents of every block in use, which is what lets
\* COMMIT merge two blocks without comparing them.
HashExacto == Tranquilo => \A b \in bitmap : hash[b] = contenido[b]

\* With one Worker, at every step of every request and until a stop in the
\* middle of one, each block that BLOQUES names has a hash: COMMIT compares it
\* with no check for NULL.
HashPresente ==
    cortes = 0 => \A t \in Tag : \A b \in ToSet(meta[t].bloques) : hash[b] # Nadie

-----------------------------------------------------------------------------
(* What the Workers see.                                                   *)

Contenidos(t) == [i \in DOMAIN meta[t].bloques |-> contenido[meta[t].bloques[i]]]

\* A file:tag that TAG has not marked yet is not there for the Worker.
Vista == [t \in Tag |-> IF \E w \in Worker : En(w, "marcar") /\ hilo[w].tag = t
                        THEN [estado |-> "NO", bloques |-> <<>>]
                        ELSE [estado |-> meta[t].estado, bloques |-> Contenidos(t)]]

\* "No se puede escribir en un File:Tag en estado COMMITED" (storage.c:1433):
\* what is COMMITED stays so, with the same contents, until it is deleted.
ConfirmadoInmutable ==
    [][\A t \in Tag : Vista[t].estado = "COMMITED" =>
          \/ Vista'[t].estado = "NO"
          \/ /\ Vista'[t].estado = "COMMITED"
             /\ IsPrefix(Vista[t].bloques, Vista'[t].bloques)]_vars

-----------------------------------------------------------------------------
(* With one Worker at a time, Storage implements Archivos.                 *)

Logica == INSTANCE Archivos WITH archivos <- Vista, cortado <- cortes > 0

\* Copying, deduplicating, freeing and reusing blocks, one step at a time, never
\* changes what any file:tag holds, except the block that a WRITE is for; a
\* restart between requests changes nothing, and one in the middle of a request
\* leaves every other file:tag as it was.
RefinaArchivos == Logica!Spec
=============================================================================
