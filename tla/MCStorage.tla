----------------------------- MODULE MCStorage ------------------------------
(* Instances of Storage for TLC.                                           *)
EXTENDS Storage, TLC

CONSTANTS base, t1, t2, w1, w2

DosTags == [t \in {base, t1, t2} |-> IF t = base THEN "initial_file" ELSE "file"]

\* Bound: after a stop in the middle of a request nothing is promised, and only
\* what a file that it left empty does to the requests that follow is explored.
HastaElCorte ==
    \/ cortes = 0
    \/ /\ \A w \in Worker : hilo[w] = Ocioso \/ hilo[w].paso = "buscar"
       /\ \E t \in Tag : \/ meta[t].estado = "VACIA"
                        \/ \E b \in ToSet(meta[t].bloques) : hash[b] = Nadie

Simetria == Permutations({t1, t2})
=============================================================================
