---------------------------- MODULE WorkerMemory ----------------------------
(***************************************************************************)
(* The internal memory of one Worker (src/worker/src/worker_memory.c) and  *)
(* the instructions that use it (src/worker/src/worker.c): page tables,    *)
(* frames, LRU and CLOCK-M replacement, FLUSH, COMMIT, DELETE and the flush *)
(* that answers an eviction, for one query after another.                  *)
(*                                                                         *)
(* A step is what runs under memory_mutex, an access to a page or a        *)
(* request to Storage with its answer.  mutex_query_execution admits one   *)
(* query at a time, so only the death of the Worker and the clock come     *)
(* between two steps.  This Worker is alone with Storage, which has blocks *)
(* to spare; TRUNCATE adds whole blocks and CREATE is for a file that      *)
(* never existed: what Storage does otherwise belongs to its own module.   *)
(***************************************************************************)
EXTENDS Integers, SequencesExt

CONSTANTS
    Algoritmos,   \* values of ALGORITMO_REEMPLAZO to start with
    Tag,          \* tags of one file
    Valor,        \* contents of a page
    Cero,         \* contents of the block 0 of Storage
    Marcos,       \* TAM_MEMORIA / BLOCK_SIZE, for each algorithm to start with
    MaxBloques,   \* bound: blocks of a file:tag
    MaxTotal,     \* bound: blocks of all of them
    MaxTramo,     \* bound: pages of a READ or WRITE, beyond the first
    MaxEdad,      \* bound: seconds after which accesses are not told apart
    Ninguna       \* a NULL t_page*

ASSUME MemoriaAssumption ==
    /\ Algoritmos \subseteq {"LRU", "CLOCK-M"}
    /\ IsFiniteSet(Tag)
    /\ Cero \in Valor
    /\ Marcos \in [Algoritmos -> Nat \ {0}] /\ MaxBloques \in Nat /\ MaxTotal \in Nat
    /\ MaxTramo \in Nat /\ MaxEdad \in Nat
    /\ Ninguna \notin Tag \X Nat

VARIABLES
    algoritmo,    \* ALGORITMO_REEMPLAZO, read from the configuration
    tablas,       \* page_tables: the page numbers of each file:tag, oldest first
    fisicas,      \* physical_pages
    pagina,       \* the t_page of each page in memory
    frame_table,  \* frames in use
    usadas,       \* used_pages
    puntero,      \* clock_pointer
    disco,        \* what Storage holds: phase and blocks of each file:tag
    hayFile,      \* the directory of the file exists in Storage
    query,        \* the query that runs, if any
    instr,        \* the READ or WRITE under way, if any
    fallo         \* Storage has answered an error to the query that runs

memoria == <<tablas, fisicas, pagina, frame_table, usadas, puntero>>
almacen == <<disco, hayFile>>
vars == <<algoritmo, memoria, almacen, query, instr, fallo>>

total_pages == Marcos[algoritmo]

Dir == Tag \X (0..(MaxBloques - 1))
Acceso == [op : {"READ", "WRITE"}, tag : Tag, num : 0..(MaxBloques - 1),
           ultima : 0..(MaxBloques - 1), valor : Valor, paso : {"obtener", "acceder"}]
Nada == [op |-> "ninguna"]

Pagina == [contenido : Valor, modificada : BOOLEAN, uso : {0, 1},
           edad : 0..MaxEdad, marco : 0..(total_pages - 1)]
Ausente == [contenido |-> Cero, modificada |-> FALSE, uso |-> 0, edad |-> 0, marco |-> 0]

\* Types of every variable.
TypeOK ==
    /\ algoritmo \in Algoritmos
    /\ tablas \in [Tag -> Seq(0..(MaxBloques - 1))]
    /\ fisicas \in Seq(Dir)
    /\ pagina \in [Dir -> Pagina]
    /\ frame_table \in SUBSET (0..(total_pages - 1))
    /\ usadas \in 0..total_pages
    /\ puntero \in 0..total_pages
    /\ \A t \in Tag : /\ disco[t].fase \in {"no", "wip", "commit"}
                      /\ disco[t].bloques \in Seq(Valor)
    /\ hayFile \in BOOLEAN
    /\ query \in {"ninguna", "corre"}
    /\ instr \in Acceso \cup {Nada}
    /\ fallo \in BOOLEAN

-----------------------------------------------------------------------------
(* Storage, as this Worker sees it.                                        *)

NoExiste == [fase |-> "no", bloques |-> <<>>]
Existe(t) == disco[t].fase # "no"
TieneBloque(d) == d[2] < Len(disco[d[1]].bloques)

\* escribir_bloque answers OK.
Acepta(d) == TieneBloque(d) /\ disco[d[1]].fase = "wip"

Total == Cardinality({d \in Dir : TieneBloque(d)})

\* enviar_write_block_storage for each page of S.
Escritos(S) == [t \in Tag |-> [disco[t] EXCEPT !.bloques =
                   [i \in DOMAIN @ |-> IF <<t, i - 1>> \in S
                                       THEN pagina[<<t, i - 1>>].contenido ELSE @[i]]]]

-----------------------------------------------------------------------------
(* Pages and frames.                                                       *)

EnMemoria == ToSet(fisicas)
Sucias == {d \in EnMemoria : pagina[d].modificada}
PaginasDe(t) == [i \in DOMAIN tablas[t] |-> <<t, tablas[t][i]>>]

\* asignar_marco_libre: the first frame that is free.
MarcoLibre == CHOOSE m \in (0..(total_pages - 1)) \ frame_table :
                 \A n \in (0..(total_pages - 1)) \ frame_table : m <= n

\* Mutant: clock_bit counts the accesses.
TocadaCuenta(p) == [p EXCEPT !.edad = 0, !.uso = IF algoritmo = "CLOCK-M" THEN @ + 1 ELSE @]

\* A hit, a load or an access: last_access and, for CLOCK-M, clock_bit.
Tocada(p) == [p EXCEPT !.edad = 0, !.uso = IF algoritmo = "CLOCK-M" THEN 1 ELSE @]

\* list_remove_element.
Lugar(s, x) == CHOOSE i \in DOMAIN s : s[i] = x
Saca(s, x) == RemoveAt(s, Lugar(s, x))

\* Mutant: the hand stays where it was.
QuitaSinAjuste(e, d) == [e EXCEPT !.lista = Saca(@, d)]

\* Page d leaves physical_pages (e.lista) and clock_pointer (e.p) is adjusted.
Quita(e, d) ==
    LET j == Lugar(e.lista, d)
        n == Len(e.lista) - 1
    IN  [lista |-> Saca(e.lista, d),
         p |-> IF algoritmo # "CLOCK-M" THEN e.p
               ELSE IF j - 1 < e.p THEN e.p - 1
               ELSE IF j - 1 = e.p /\ e.p >= n THEN 0 ELSE e.p]

\* algoritmo_lru_seleccionar_victima: the first of the least recently used.
VictimaLRU ==
    fisicas[CHOOSE i \in DOMAIN fisicas :
        /\ \A j \in DOMAIN fisicas : pagina[fisicas[j]].edad <= pagina[fisicas[i]].edad
        /\ \A j \in 1..(i - 1) : pagina[fisicas[j]].edad < pagina[fisicas[i]].edad]

\* One look of algoritmo_clock_seleccionar_victima: the hand wraps, stops at a
\* page out of use with the wanted modified bit and else goes past it.
Mira(e, modificada, limpia) ==
    LET p == IF e.p >= Len(fisicas) THEN 0 ELSE e.p
        d == fisicas[p + 1]
    IN  IF e.victima # Ninguna THEN e
        ELSE IF e.uso[d] = 0 /\ pagina[d].modificada = modificada
             THEN [e EXCEPT !.victima = d, !.p = p + 1]
             ELSE [e EXCEPT !.p = p + 1, !.uso[d] = IF limpia THEN 0 ELSE @]

Vuelta(e, modificada, limpia) ==
    LET tras[n \in 0..Len(fisicas)] ==
            IF n = 0 THEN e ELSE Mira(tras[n - 1], modificada, limpia)
    IN  tras[Len(fisicas)]

\* Mutant: without the third pass.
ClockSinTercera ==
    LET inicio == [victima |-> Ninguna, p |-> puntero,
                   uso |-> [d \in EnMemoria |-> pagina[d].uso]]
        dos == Vuelta(Vuelta(inicio, FALSE, FALSE), TRUE, TRUE)
    IN  Vuelta(Vuelta(dos, TRUE, FALSE), FALSE, FALSE)

\* Its four passes.
Clock ==
    LET inicio == [victima |-> Ninguna, p |-> puntero,
                   uso |-> [d \in EnMemoria |-> pagina[d].uso]]
        dos == Vuelta(Vuelta(inicio, FALSE, FALSE), TRUE, TRUE)
    IN  Vuelta(Vuelta(dos, FALSE, FALSE), TRUE, FALSE)

\* seleccionar_victima: the victim, the hand and the use bits it leaves.
Seleccion ==
    IF algoritmo = "CLOCK-M" THEN Clock
    ELSE [victima |-> VictimaLRU, p |-> puntero, uso |-> [d \in EnMemoria |-> pagina[d].uso]]

-----------------------------------------------------------------------------
(* procesar_query, around its instructions.                                *)

Libre == query = "corre" /\ instr = Nada

\* An instruction that returns true, one that returns false and ends the query.
Sigue == UNCHANGED <<query, instr, fallo>>
TerminaConError == query' = "ninguna" /\ instr' = Nada /\ fallo' = FALSE

Iniciar ==
    /\ query = "ninguna"
    /\ query' = "corre"
    /\ UNCHANGED <<algoritmo, memoria, almacen, instr, fallo>>

\* END, or the end of the file: what the query wrote stays in memory.
Terminar ==
    /\ Libre
    /\ query' = "ninguna" /\ fallo' = FALSE
    /\ UNCHANGED <<algoritmo, memoria, almacen, instr>>

\* flush_todas_las_paginas_modificadas: a page Storage refuses stays modified
\* and the rest go on.
Desalojar ==
    /\ Libre
    /\ LET escritas == {d \in Sucias : Acepta(d)}
       IN  /\ disco' = Escritos(escritas)
           /\ pagina' = [d \in Dir |-> IF d \in escritas
                                       THEN [pagina[d] EXCEPT !.modificada = FALSE] ELSE pagina[d]]
    /\ query' = "ninguna" /\ fallo' = FALSE
    /\ UNCHANGED <<algoritmo, tablas, fisicas, frame_table, usadas, puntero, hayFile, instr>>

-----------------------------------------------------------------------------
(* READ and WRITE: for each page in turn, obtener_pagina and then the      *)
(* access, outside memory_mutex.                                           *)

Empezar(op, t, primera, ultima, v) ==
    /\ Libre
    /\ ultima - primera \in 0..MaxTramo
    /\ instr' = [op |-> op, tag |-> t, num |-> primera, ultima |-> ultima,
                 valor |-> v, paso |-> "obtener"]
    /\ UNCHANGED <<algoritmo, memoria, almacen, query, fallo>>

Actual == <<instr.tag, instr.num>>
Pide == instr # Nada /\ instr.paso = "obtener"
Obtenida == instr' = [instr EXCEPT !.paso = "acceder"]

Acierto ==
    /\ Pide
    /\ Contains(tablas[instr.tag], instr.num)
    /\ pagina' = [pagina EXCEPT ![Actual] = Tocada(@)]
    /\ Obtenida
    /\ UNCHANGED <<algoritmo, tablas, fisicas, frame_table, usadas, puntero, almacen,
                   query, fallo>>

\* cargar_pagina_desde_storage fails.
FallaLectura ==
    /\ Pide
    /\ ~ Contains(tablas[instr.tag], instr.num)
    /\ ~ TieneBloque(Actual)
    /\ TerminaConError
    /\ UNCHANGED <<algoritmo, memoria, almacen>>

MemoriaMiss ==
    /\ Pide
    /\ ~ Contains(tablas[instr.tag], instr.num)
    /\ TieneBloque(Actual)

Cargada(marco) == [contenido |-> disco[instr.tag].bloques[instr.num + 1],
                   modificada |-> FALSE, uso |-> 1, edad |-> 0, marco |-> marco]

CargaEnMarcoLibre ==
    /\ MemoriaMiss
    /\ usadas < total_pages
    /\ pagina' = [pagina EXCEPT ![Actual] = Cargada(MarcoLibre)]
    /\ frame_table' = frame_table \cup {MarcoLibre}
    /\ usadas' = usadas + 1
    /\ tablas' = [tablas EXCEPT ![instr.tag] = Append(@, instr.num)]
    /\ fisicas' = Append(fisicas, Actual)
    /\ Obtenida
    /\ UNCHANGED <<algoritmo, puntero, almacen, query, fallo>>

\* The answer to the write of a modified victim is ignored.
Reemplaza ==
    /\ MemoriaMiss
    /\ usadas >= total_pages
    /\ LET s == Seleccion
           v == s.victima
           resto == Quita([lista |-> fisicas, p |-> s.p], v)
           otras == [d \in Dir |-> IF d \in EnMemoria THEN [pagina[d] EXCEPT !.uso = s.uso[d]]
                                   ELSE pagina[d]]
           sin == [tablas EXCEPT ![v[1]] = Saca(@, v[2])]
       IN  /\ disco' = Escritos({v} \cap {d \in Sucias : Acepta(d)})
           /\ fallo' = (fallo \/ (v \in Sucias /\ ~ Acepta(v)))
           /\ pagina' = [otras EXCEPT ![v] = Ausente, ![Actual] = Cargada(pagina[v].marco)]
           /\ tablas' = [sin EXCEPT ![instr.tag] = Append(@, instr.num)]
           /\ fisicas' = Append(resto.lista, Actual)
           /\ puntero' = resto.p
    /\ Obtenida
    /\ UNCHANGED <<algoritmo, frame_table, usadas, hayFile, query>>

\* Mutant: a WRITE that does not mark the page.
AccederSinMarcar ==
    /\ instr # Nada
    /\ instr.paso = "acceder"
    /\ pagina' = [pagina EXCEPT ![Actual] =
                     IF instr.op = "WRITE" THEN [Tocada(@) EXCEPT !.contenido = instr.valor]
                     ELSE Tocada(@)]
    /\ instr' = Nada
    /\ UNCHANGED <<algoritmo, tablas, fisicas, frame_table, usadas, puntero, almacen,
                   query, fallo>>

\* The access itself; the next page, if any, is obtained after it.
Acceder ==
    /\ instr # Nada
    /\ instr.paso = "acceder"
    /\ pagina' = [pagina EXCEPT ![Actual] =
                     IF instr.op = "WRITE"
                     THEN [Tocada(@) EXCEPT !.contenido = instr.valor, !.modificada = TRUE]
                     ELSE Tocada(@)]
    /\ instr' = IF instr.num = instr.ultima THEN Nada
                ELSE [instr EXCEPT !.num = @ + 1, !.paso = "obtener"]
    /\ UNCHANGED <<algoritmo, tablas, fisicas, frame_table, usadas, puntero, almacen,
                   query, fallo>>

-----------------------------------------------------------------------------
(* The other instructions.                                                 *)

\* ejecutar_flush writes in the order of the page table up to the first page
\* that Storage refuses.
Rechazada(t) == {i \in DOMAIN tablas[t] : /\ pagina[PaginasDe(t)[i]].modificada
                                          /\ ~ Acepta(PaginasDe(t)[i])}
Volcadas(t) == {PaginasDe(t)[i] : i \in {i \in DOMAIN tablas[t] :
                    pagina[PaginasDe(t)[i]].modificada /\ \A r \in Rechazada(t) : i < r}}
Limpiadas(S) == [d \in Dir |-> IF d \in S THEN [pagina[d] EXCEPT !.modificada = FALSE]
                               ELSE pagina[d]]

Flush(t) ==
    /\ Libre
    /\ disco' = Escritos(Volcadas(t))
    /\ pagina' = Limpiadas(Volcadas(t))
    /\ IF Rechazada(t) = {} THEN Sigue ELSE TerminaConError
    /\ UNCHANGED <<algoritmo, tablas, fisicas, frame_table, usadas, puntero, hayFile>>

\* Mutant: COMMIT without the flush.
CommitSinFlush(t) ==
    /\ Libre
    /\ disco' = IF Existe(t) THEN [disco EXCEPT ![t].fase = "commit"] ELSE disco
    /\ UNCHANGED <<algoritmo, memoria, hayFile, query, instr, fallo>>

\* The flush and, if it went well, the request; Storage's "NO" is a success.
Commit(t) ==
    /\ Libre
    /\ pagina' = Limpiadas(Volcadas(t))
    /\ disco' = IF Rechazada(t) = {} /\ Existe(t)
                THEN [Escritos(Volcadas(t)) EXCEPT ![t].fase = "commit"]
                ELSE Escritos(Volcadas(t))
    /\ IF Rechazada(t) = {} THEN Sigue ELSE TerminaConError
    /\ UNCHANGED <<algoritmo, tablas, fisicas, frame_table, usadas, puntero, hayFile>>

\* physical_pages and clock_pointer when the pages of t have left, one by one.
SinPaginas(t) ==
    LET tras[n \in 0..Len(tablas[t])] ==
            IF n = 0 THEN [lista |-> fisicas, p |-> puntero]
            ELSE Quita(tras[n - 1], <<t, tablas[t][n]>>)
    IN  tras[Len(tablas[t])]

\* ejecutar_delete empties the memory first, whatever Storage answers then.
Delete(t) ==
    /\ Libre
    /\ fisicas' = SinPaginas(t).lista /\ puntero' = SinPaginas(t).p
    /\ frame_table' = frame_table \ {pagina[d].marco : d \in ToSet(PaginasDe(t))}
    /\ usadas' = usadas - Len(tablas[t])
    /\ pagina' = [d \in Dir |-> IF d \in ToSet(PaginasDe(t)) THEN Ausente ELSE pagina[d]]
    /\ tablas' = [tablas EXCEPT ![t] = <<>>]
    /\ disco' = [disco EXCEPT ![t] = NoExiste]
    /\ IF Existe(t) THEN Sigue ELSE TerminaConError
    /\ UNCHANGED <<algoritmo, hayFile>>

\* The file must be new; a file:tag that exists is an error.
Create(t) ==
    /\ Libre
    /\ Existe(t) \/ ~ hayFile
    /\ hayFile' = TRUE
    /\ IF Existe(t) THEN TerminaConError /\ UNCHANGED disco
       ELSE Sigue /\ disco' = [disco EXCEPT ![t].fase = "wip"]
    /\ UNCHANGED <<algoritmo, memoria>>

\* TRUNCATE to a larger size; COMMITED or not.
Truncate(t, n) ==
    /\ Libre
    /\ Len(disco[t].bloques) + n <= MaxBloques /\ Total + n <= MaxTotal
    /\ IF Existe(t)
       THEN Sigue /\ disco' = [disco EXCEPT ![t].bloques = @ \o [i \in 1..n |-> Cero]]
       ELSE TerminaConError /\ UNCHANGED disco
    /\ UNCHANGED <<algoritmo, memoria, hayFile>>

\* TAG of a file:tag that exists.
TagFile(origen, destino) ==
    /\ Libre
    /\ Existe(origen)
    /\ Total + Len(disco[origen].bloques) <= MaxTotal
    /\ IF Existe(destino) THEN TerminaConError /\ UNCHANGED disco
       ELSE Sigue /\ disco' = [disco EXCEPT ![destino] = [disco[origen] EXCEPT !.fase = "wip"]]
    /\ UNCHANGED <<algoritmo, memoria, hayFile>>

-----------------------------------------------------------------------------
\* A second goes by (only LRU looks at the time).
PasaSegundo ==
    /\ algoritmo = "LRU"
    /\ \E d \in EnMemoria : pagina[d].edad < MaxEdad
    /\ pagina' = [d \in Dir |-> IF d \in EnMemoria /\ pagina[d].edad < MaxEdad
                                THEN [pagina[d] EXCEPT !.edad = @ + 1] ELSE pagina[d]]
    /\ UNCHANGED <<algoritmo, tablas, fisicas, frame_table, usadas, puntero, almacen,
                   query, instr, fallo>>

\* The memory of a Worker that has just started.
Vacia ==
    /\ tablas' = [t \in Tag |-> <<>>]
    /\ fisicas' = <<>>
    /\ pagina' = [d \in Dir |-> Ausente]
    /\ frame_table' = {}
    /\ usadas' = 0
    /\ puntero' = 0

\* signal_handler: memory is freed without a flush, and the Worker is started
\* again.
Caer ==
    /\ Vacia
    /\ query' = "ninguna" /\ instr' = Nada /\ fallo' = FALSE
    /\ UNCHANGED <<algoritmo, almacen>>

Init ==
    /\ algoritmo \in Algoritmos
    /\ tablas = [t \in Tag |-> <<>>]
    /\ fisicas = <<>>
    /\ pagina = [d \in Dir |-> Ausente]
    /\ frame_table = {}
    /\ usadas = 0
    /\ puntero = 0
    /\ disco = [t \in Tag |-> NoExiste]
    /\ hayFile = FALSE
    /\ query = "ninguna"
    /\ instr = Nada
    /\ fallo = FALSE

Next ==
    \/ Iniciar \/ Terminar \/ Desalojar \/ PasaSegundo \/ Caer
    \/ \E op \in {"READ", "WRITE"}, t \in Tag, i, j \in 0..(MaxBloques - 1), v \in Valor :
          (op = "READ" => v = Cero) /\ Empezar(op, t, i, j, v)
    \/ Acierto \/ FallaLectura \/ CargaEnMarcoLibre \/ Reemplaza \/ Acceder
    \/ \E t \in Tag : Flush(t) \/ Commit(t) \/ Delete(t) \/ Create(t)
    \/ \E t \in Tag, n \in 1..MaxBloques : Truncate(t, n)
    \/ \E origen, destino \in Tag : TagFile(origen, destino)

Spec == Init /\ [][Next]_vars

-----------------------------------------------------------------------------
(* Properties.                                                             *)

\* The four records of what is in memory agree, after any mix of loads,
\* replacements, deletes and evictions: a page is in its table once and in
\* physical_pages once, in the same order, no two share a frame, frame_table and
\* used_pages count exactly those and the hand of the clock is within the list.
MarcosCoherentes ==
    /\ \A t \in Tag : /\ IsInjective(tablas[t])
                      /\ ToSet(PaginasDe(t)) = {d \in EnMemoria : d[1] = t}
                      /\ \A i, j \in DOMAIN tablas[t] : i < j =>
                            Lugar(fisicas, PaginasDe(t)[i]) < Lugar(fisicas, PaginasDe(t)[j])
    /\ IsInjective(fisicas)
    /\ frame_table = {pagina[d].marco : d \in EnMemoria}
    /\ Cardinality(frame_table) = Len(fisicas) /\ usadas = Len(fisicas)
    /\ puntero <= Len(fisicas)

\* A page that is not modified holds what Storage holds: dropping it without
\* writing it, as obtener_pagina does, loses nothing.
LimpiaIgualDisco ==
    \A d \in EnMemoria \ Sucias :
        TieneBloque(d) /\ pagina[d].contenido = disco[d[1]].bloques[d[2] + 1]

\* The victim is the best there is: the least recently used page, or for
\* CLOCK-M one of the lowest class, out of use before in use and then
\* unmodified before modified, although the algorithm finds it in four passes
\* that change the use bits as they go.
Clase(d) == 2 * pagina[d].uso + (IF pagina[d].modificada THEN 1 ELSE 0)
VictimaOptima ==
    fisicas # <<>> =>
        LET v == Seleccion.victima
        IN  /\ v \in EnMemoria
            /\ \A d \in EnMemoria : IF algoritmo = "LRU" THEN pagina[d].edad <= pagina[v].edad
                                    ELSE Clase(v) <= Clase(d)

\* "Manejo de respuesta desde storage para terminar queries en caso de error"
\* (worker.c:460): no query goes on once Storage has answered it an error.
ErrorTermina == query = "corre" => ~ fallo

-----------------------------------------------------------------------------
(* The memory is transparent: WorkerMemory implements MemoriaPlana.        *)

Vista == [t \in Tag |-> [i \in DOMAIN disco[t].bloques |->
             IF Contains(tablas[t], i - 1) THEN pagina[<<t, i - 1>>].contenido
             ELSE disco[t].bloques[i]]]

Plana == INSTANCE MemoriaPlana WITH vista <- Vista

\* Whatever is replaced, flushed, evicted or deleted in between, what a query
\* reads is what was written last, unless the Worker died or the file:tag was
\* COMMITED first; and what is COMMITED is all that was written.
RefinaMemoria == Plana!Spec
=============================================================================
