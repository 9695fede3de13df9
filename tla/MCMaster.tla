------------------------------ MODULE MCMaster ------------------------------
(* Instances of Master for TLC.                                            *)
EXTENDS Master, TLC

CONSTANTS a1, a2, a3, q1, q2, q3, w1, w2

PrioTres == (q1 :> 2) @@ (q2 :> 1) @@ (q3 :> 0)
PrioDos == (q1 :> 1) @@ (q2 :> 0)
UnoListo == <<w1>>
DosListos == <<w1, w2>>
=============================================================================
