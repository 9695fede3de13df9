------------------------------ MODULE MCWorker ------------------------------
(* Instances of Worker for TLC.                                            *)
EXTENDS Worker, TLC

CONSTANTS q1, q2, t1, t2, v1, v2

En1(op, t) == [op |-> op, t |-> t, v |-> Nadie]
Escribe(t, v) == [op |-> "WRITE", t |-> t, v |-> v]
End == [op |-> "END"]
Otra == [op |-> "DESCONOCIDA"]

\* Each line may be carried out again.
Repetibles ==
    (q1 :> <<Escribe(t1, v1), En1("FLUSH", t1), Escribe(t1, v2), En1("COMMIT", t1)>>)
    @@ (q2 :> <<En1("TRUNCATE", t1), En1("READ", t1), End>>)

UnCreate ==
    (q1 :> <<En1("CREATE", t1), En1("TRUNCATE", t1), Escribe(t1, v1), Otra, En1("COMMIT", t1), End>>)

\* Bound: a second eviction is explored with Storage in good order only, and a
\* stop of it, or requests that get in each other's way, with one eviction.
UnaODos == desalojos <= 1 \/ (integro /\ cortes = 0)
=============================================================================
