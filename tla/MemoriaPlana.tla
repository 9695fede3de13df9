---------------------------- MODULE MemoriaPlana ----------------------------
(***************************************************************************)
(* What the Worker's memory promises the queries it runs, with no pages,   *)
(* frames or replacement: each file:tag has the blocks that Storage holds  *)
(* and the contents that READ returns, which differ by the writes not yet  *)
(* sent to Storage.  Writes are lost in two cases only: the Worker dies,   *)
(* or the file:tag was COMMITED and Storage refuses them.  WorkerMemory    *)
(* implements it (WorkerMemory!RefinaMemoria).                             *)
(***************************************************************************)
EXTENDS Naturals, Sequences

CONSTANTS Tag,         \* file:tag names
          Valor,       \* contents of a block
          Cero,        \* contents of a block just assigned
          MaxBloques   \* bound: blocks of a file:tag

VARIABLES disco,   \* what Storage holds: phase and blocks of each file:tag
          vista    \* the blocks of each file:tag as this Worker reads them

vars == <<disco, vista>>

NoExiste == [fase |-> "no", bloques |-> <<>>]
Existe(t) == disco[t].fase # "no"
Bloques == {b \in Tag \X (1..MaxBloques) : b[2] \in DOMAIN disco[b[1]].bloques}

Init ==
    /\ disco = [t \in Tag |-> NoExiste]
    /\ vista = [t \in Tag |-> <<>>]

Crea(t) ==
    /\ ~ Existe(t)
    /\ disco' = [disco EXCEPT ![t].fase = "wip"]
    /\ UNCHANGED vista

Crece(t, n) ==
    /\ Existe(t)
    /\ LET nuevos == [i \in 1..n |-> Cero]
       IN  /\ disco' = [disco EXCEPT ![t].bloques = @ \o nuevos]
           /\ vista' = [vista EXCEPT ![t] = @ \o nuevos]

Escribe(t, i, v) ==
    /\ <<t, i>> \in Bloques
    /\ vista' = [vista EXCEPT ![t][i] = v]
    /\ UNCHANGED disco

\* What was written and Storage does not have.
Pendientes == {b \in Bloques : /\ disco[b[1]].fase = "wip"
                               /\ vista[b[1]][b[2]] # disco[b[1]].bloques[b[2]]}

\* Some of it reaches Storage: a FLUSH, an eviction or a page that is replaced.
Persiste(S) ==
    /\ disco' = [t \in Tag |-> [disco[t] EXCEPT !.bloques =
                    [i \in DOMAIN @ |-> IF <<t, i>> \in S THEN vista[t][i] ELSE @[i]]]]
    /\ UNCHANGED vista

\* Storage refuses a write to a file:tag that is COMMITED.
Descarta(t, i) ==
    /\ <<t, i>> \in Bloques
    /\ disco[t].fase = "commit"
    /\ vista' = [vista EXCEPT ![t][i] = disco[t].bloques[i]]
    /\ UNCHANGED disco

\* TAG copies what Storage holds, not what this Worker has written since.
Etiqueta(origen, destino) ==
    /\ Existe(origen) /\ ~ Existe(destino)
    /\ disco' = [disco EXCEPT ![destino] = [disco[origen] EXCEPT !.fase = "wip"]]
    /\ vista' = [vista EXCEPT ![destino] = disco[origen].bloques]

\* What is COMMITED is everything that was written.
Confirma(t) ==
    /\ disco[t].fase = "wip"
    /\ disco' = [disco EXCEPT ![t] = [fase |-> "commit", bloques |-> vista[t]]]
    /\ UNCHANGED vista

Borra(t) ==
    /\ Existe(t)
    /\ disco' = [disco EXCEPT ![t] = NoExiste]
    /\ vista' = [vista EXCEPT ![t] = <<>>]

\* The Worker dies with what it had not sent.
Cae ==
    /\ vista' = [t \in Tag |-> disco[t].bloques]
    /\ UNCHANGED disco

Next ==
    \/ \E S \in SUBSET Pendientes : Persiste(S)
    \/ \E t \in Tag :
          \/ Crea(t) \/ Confirma(t) \/ Borra(t)
          \/ \E n \in 1..MaxBloques : Crece(t, n)
          \/ \E i \in 1..MaxBloques : Descarta(t, i) \/ \E v \in Valor : Escribe(t, i, v)
    \/ \E origen, destino \in Tag : Etiqueta(origen, destino)
    \/ Cae

Spec == Init /\ [][Next]_vars
=============================================================================
