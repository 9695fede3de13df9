---------------------------- MODULE Planificador ----------------------------
(***************************************************************************)
(* What the Master promises its clients, with no threads, queues,          *)
(* semaphores or messages: a query waits, or runs on exactly one worker,   *)
(* or is over; a worker runs one query at most; an eviction sends the      *)
(* query back to wait; what is over stays over.  Master implements it      *)
(* (Master!RefinaPlanificador).                                            *)
(***************************************************************************)
CONSTANTS Query,    \* queries
          Worker,   \* workers
          NoQuery   \* what a worker that is free runs

VARIABLES espera,     \* queries waiting for a worker
          ejecuta,    \* the query each worker runs
          terminadas  \* queries whose client was told the end

vars == <<espera, ejecuta, terminadas>>

EnEjecucion == {ejecuta[w] : w \in Worker} \ {NoQuery}

Init ==
    /\ espera = {}
    /\ ejecuta = [w \in Worker |-> NoQuery]
    /\ terminadas = {}

Llega(q) ==
    /\ q \notin espera \cup EnEjecucion \cup terminadas
    /\ espera' = espera \cup {q}
    /\ UNCHANGED <<ejecuta, terminadas>>

Asigna(q, w) ==
    /\ q \in espera
    /\ ejecuta[w] = NoQuery
    /\ espera' = espera \ {q}
    /\ ejecuta' = [ejecuta EXCEPT ![w] = q]
    /\ UNCHANGED terminadas

Desaloja(w) ==
    /\ ejecuta[w] # NoQuery
    /\ espera' = espera \cup {ejecuta[w]}
    /\ ejecuta' = [ejecuta EXCEPT ![w] = NoQuery]
    /\ UNCHANGED terminadas

Termina(w) ==
    /\ ejecuta[w] # NoQuery
    /\ terminadas' = terminadas \cup {ejecuta[w]}
    /\ ejecuta' = [ejecuta EXCEPT ![w] = NoQuery]
    /\ UNCHANGED espera

Next ==
    \/ \E q \in Query : Llega(q)
    \/ \E q \in Query : \E w \in Worker : Asigna(q, w)
    \/ \E w \in Worker : Desaloja(w) \/ Termina(w)

Spec == Init /\ [][Next]_vars
=============================================================================
