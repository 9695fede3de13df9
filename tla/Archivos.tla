------------------------------ MODULE Archivos ------------------------------
(***************************************************************************)
(* What Storage promises the Workers: each file:tag is a sequence of       *)
(* blocks that only a WRITE to it changes, and not once it is COMMITED.    *)
(* There are no physical blocks, links, bitmap or hashes here, and so no   *)
(* copy on write and no deduplication.  A restart keeps all of it, as long *)
(* as no request was in course.  Storage implements it                     *)
(* (Storage!RefinaArchivos).                                               *)
(***************************************************************************)
EXTENDS Naturals, Sequences

CONSTANTS Tag,          \* file:tag names
          Base,         \* initial_file:BASE
          Valor,        \* contents of a block
          Cero,         \* contents of a block just assigned
          MaxLogicos    \* bound: blocks of a file:tag

VARIABLES
    archivos,     \* estado and bloques of each file:tag
    cortado       \* Storage was stopped in the middle of a request

vars == <<archivos, cortado>>

NoExiste == [estado |-> "NO", bloques |-> <<>>]
Existe(t) == archivos[t].estado # "NO"

Init ==
    /\ archivos = [t \in Tag |-> IF t = Base THEN [estado |-> "COMMITED", bloques |-> <<Cero>>]
                                 ELSE NoExiste]
    /\ cortado = FALSE

Crea(t) ==
    /\ ~ Existe(t)
    /\ archivos' = [archivos EXCEPT ![t].estado = "WORK_IN_PROGRESS"]

\* TRUNCATE adds blocks, to a COMMITED file:tag too; it never takes one away.
Crece(t, n) ==
    /\ Existe(t)
    /\ archivos' = [archivos EXCEPT ![t].bloques = @ \o [i \in 1..n |-> Cero]]

Escribe(t, i, v) ==
    /\ archivos[t].estado = "WORK_IN_PROGRESS"
    /\ i \in DOMAIN archivos[t].bloques
    /\ archivos' = [archivos EXCEPT ![t].bloques[i] = v]

Etiqueta(origen, destino) ==
    /\ Existe(origen) /\ ~ Existe(destino)
    /\ archivos' = [archivos EXCEPT
                       ![destino] = [archivos[origen] EXCEPT !.estado = "WORK_IN_PROGRESS"]]

Confirma(t) ==
    /\ archivos[t].estado = "WORK_IN_PROGRESS"
    /\ archivos' = [archivos EXCEPT ![t].estado = "COMMITED"]

Borra(t) ==
    /\ Existe(t)
    /\ archivos' = [archivos EXCEPT ![t] = NoExiste]

\* A stop in the middle of a request for t: t may be left half done, nothing
\* else is.
Corta(t) ==
    /\ cortado' = TRUE
    /\ \A u \in Tag \ {t} : archivos'[u] = archivos[u]

\* A request that changes t.
Pide(t) ==
    /\ archivos'[t] # archivos[t]
    /\ \/ Crea(t) \/ Confirma(t) \/ Borra(t)
       \/ \E n \in 1..MaxLogicos : Crece(t, n)
       \/ \E i \in 1..MaxLogicos, v \in Valor : Escribe(t, i, v)
       \/ \E origen \in Tag : Etiqueta(origen, t)
    /\ UNCHANGED cortado

\* After a stop in the middle of a request, those that follow may do anything.
Next ==
    \/ cortado /\ UNCHANGED cortado
    \/ ~ cortado /\ \E t \in Tag : Pide(t) \/ Corta(t)

Spec == Init /\ [][Next]_vars
=============================================================================
