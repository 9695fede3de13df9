--------------------------- MODULE MCWorkerMemory ---------------------------
(* Instances of WorkerMemory for TLC.                                      *)
EXTENDS WorkerMemory, TLC

TresYDos == ("CLOCK-M" :> 3) @@ ("LRU" :> 2)
DosClock == "CLOCK-M" :> 2
UnoLRU == "LRU" :> 1
Simetria == Permutations(Tag)
=============================================================================
