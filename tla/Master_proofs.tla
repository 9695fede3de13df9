--------------------------- MODULE Master_proofs ---------------------------
(***************************************************************************)
(* Proofs about the Master for any number of queries, workers and aging    *)
(* threads, both scheduling algorithms and any number of disconnections.   *)
(***************************************************************************)
EXTENDS Master, TLAPS, FiniteSetTheorems, SequenceTheorems, WellFoundedInduction

-----------------------------------------------------------------------------
(* The extremes of a set of positions.                                     *)

\* A non-empty set of naturals has a least element.
LEMMA MinimoNat ==
    ASSUME NEW S \in SUBSET Nat, S # {}
    PROVE  \E x \in S : \A y \in S : x <= y
<1>1. IsWellFoundedOn(OpToRel(<, Nat), Nat)
  BY NatLessThanWellFounded
<1>2. PICK x \in S : \A y \in S : ~ (<<y, x>> \in OpToRel(<, Nat))
  BY <1>1, WFMin
<1>3. \A y \in S : ~ (y < x)
  BY <1>2 DEF OpToRel
<1> QED
  BY <1>3

\* Menor picks it: the first worker or the first improvement of a scan.
LEMMA MenorEs ==
    ASSUME NEW S \in SUBSET Nat, S # {}
    PROVE  Menor(S) \in S /\ \A y \in S : Menor(S) <= y
BY MinimoNat DEF Menor

\* Mayor picks the greatest position below a bound: the last improvement.
LEMMA MayorEs ==
    ASSUME NEW n \in Nat, NEW S \in SUBSET (1..n), S # {}
    PROVE  Mayor(S) \in S /\ \A y \in S : y <= Mayor(S)
<1> DEFINE T == {n - x : x \in S}
<1>1. T \in SUBSET Nat
  <2>1. \A x \in S : n - x \in Nat
    OBVIOUS
  <2> QED
    BY <2>1
<1>2. T # {}
  <2>1. PICK x \in S : TRUE
    OBVIOUS
  <2>2. n - x \in T
    BY <2>1
  <2> QED
    BY <2>2
<1>3. PICK m \in T : \A y \in T : m <= y
  BY <1>1, <1>2, MinimoNat
<1>4. PICK x \in S : m = n - x
  BY <1>3
<1>5. \A y \in S : y <= x
  <2> SUFFICES ASSUME NEW y \in S PROVE y <= x
    OBVIOUS
  <2>1. n - y \in T
    OBVIOUS
  <2>2. n - x <= n - y
    BY <1>3, <1>4, <2>1
  <2> QED
    BY <2>2
<1>6. \E i \in S : \A j \in S : j <= i
  BY <1>5
<1> HIDE DEF T
<1> QED
  BY <1>6 DEF Mayor

-----------------------------------------------------------------------------
(* elegir_query_por_prioridad.                                             *)

\* It returns a query of the queue, or none and the queue as it was.
LEMMA ElegidaPrioridadTipo ==
    ASSUME colaReady \in Seq(Query)
    PROVE  ElegidaPrioridad \in QueryN
<1>1. Mejoras \in SUBSET (1..Len(colaReady)) /\ Len(colaReady) \in Nat
  BY DEF Mejoras, Candidatas
<1>2. CASE Mejoras = {}
  BY <1>2 DEF ElegidaPrioridad, QueryN
<1>3. CASE Mejoras # {}
  <2>1. Mayor(Mejoras) \in 1..Len(colaReady)
    BY <1>1, <1>3, MayorEs
  <2>2. colaReady[Mayor(Mejoras)] \in Query
    BY <2>1
  <2> QED
    BY <1>3, <2>2 DEF ElegidaPrioridad, QueryN
<1> QED
  BY <1>2, <1>3

\* What it leaves is a queue one shorter when it returns a query, and the same
\* queue when it returns none.
LEMMA RestoPrioridadTipo ==
    ASSUME NoQuery \notin Query, colaReady \in Seq(Query)
    PROVE  /\ RestoPrioridad \in Seq(Query)
           /\ ElegidaPrioridad = NoQuery => RestoPrioridad = colaReady
           /\ ElegidaPrioridad # NoQuery => Len(RestoPrioridad) = Len(colaReady) - 1
<1> DEFINE n == Len(colaReady)
<1>1. Mejoras \in SUBSET (1..n) /\ n \in Nat
  BY DEF Mejoras, Candidatas
<1>2. CASE Mejoras = {}
  BY <1>2 DEF ElegidaPrioridad, RestoPrioridad
<1>3. CASE Mejoras # {}
  <2> DEFINE primera == Menor(Mejoras)
             A_aux(t) == IF t \in Mejoras
                         THEN colaReady[Mayor({i \in Mejoras : i < t})]
                         ELSE colaReady[t]
             f == [k \in 1..(n - 1) |-> IF k < primera THEN A_aux(k) ELSE A_aux(k + 1)]
  <2>1. RestoPrioridad = f
    BY <1>3 DEF RestoPrioridad
  <2>2. primera \in Mejoras /\ \A y \in Mejoras : primera <= y
    BY <1>1, <1>3, MenorEs
  <2> HIDE DEF primera
  <2>3. ASSUME NEW t \in 1..n, t # primera
        PROVE  A_aux(t) \in Query
    <3>1. CASE t \notin Mejoras
      BY <3>1
    <3>2. CASE t \in Mejoras
      <4> DEFINE S == {i \in Mejoras : i < t}
      <4>1. primera < t
        <5>1. primera <= t /\ primera # t /\ primera \in Nat /\ t \in Nat
          BY <1>1, <2>2, <2>3, <3>2
        <5> QED
          BY <5>1
      <4>2. S \in SUBSET (1..n) /\ S # {}
        BY <1>1, <2>2, <4>1
      <4>3. Mayor(S) \in 1..n
        BY <1>1, <4>2, MayorEs
      <4>4. colaReady[Mayor(S)] \in Query
        BY <4>3
      <4> QED
        BY <3>2, <4>4
    <3> QED
      BY <3>1, <3>2
  <2>4. n - 1 \in Nat /\ primera \in 1..n
    BY <1>1, <2>2
  <2> HIDE DEF A_aux
  <2>5. ASSUME NEW k \in 1..(n - 1)
        PROVE  (IF k < primera THEN A_aux(k) ELSE A_aux(k + 1)) \in Query
    <3>1. CASE k < primera
      BY <2>3, <2>4, <3>1
    <3>2. CASE ~ (k < primera)
      BY <2>3, <2>4, <3>2
    <3> QED
      BY <3>1, <3>2
  <2>6. f \in Seq(Query) /\ Len(f) = n - 1
    BY <2>4, <2>5
  <2>7. ElegidaPrioridad # NoQuery
    <3>1. Mayor(Mejoras) \in 1..n
      BY <1>1, <1>3, MayorEs
    <3>2. colaReady[Mayor(Mejoras)] \in Query
      BY <3>1
    <3> QED
      BY <1>3, <3>2 DEF ElegidaPrioridad
  <2> QED
    BY <2>1, <2>6, <2>7
<1> QED
  BY <1>2, <1>3

-----------------------------------------------------------------------------
(* Updates of channels and of threads.                                     *)

\* Receiving from a channel takes a message of its type out of it.
LEMMA CanalSaca ==
    ASSUME NEW D, NEW M, NEW c \in [D -> Seq(M)], NEW w \in D, c[w] # <<>>
    PROVE  /\ [c EXCEPT ![w] = Tail(@)] \in [D -> Seq(M)]
           /\ Head(c[w]) \in M
OBVIOUS

\* Sending appends one.
LEMMA CanalAgrega ==
    ASSUME NEW D, NEW M, NEW c \in [D -> Seq(M)], NEW w, NEW m \in M
    PROVE  [c EXCEPT ![w] = Append(@, m)] \in [D -> Seq(M)]
<1>1. CASE w \in D
  BY <1>1
<1>2. CASE w \notin D
  BY <1>2
<1> QED
  BY <1>1, <1>2

\* A message to a Worker or to a Query Control keeps the channels typed.
LEMMA EnviaAWorker ==
    ASSUME aWorker \in [Worker -> Seq(MsgAWorker)], NEW w, NEW m \in MsgAWorker,
           EnviarAWorker(w, m)
    PROVE  aWorker' \in [Worker -> Seq(MsgAWorker)]
BY CanalAgrega DEF EnviarAWorker

\* The same for a Query Control: the channel of each query stays typed.
LEMMA EnviaAQC ==
    ASSUME aQC \in [Query -> Seq(MsgAQC)], NEW q, NEW m \in MsgAQC, EnviarAQC(q, m)
    PROVE  aQC' \in [Query -> Seq(MsgAQC)]
BY CanalAgrega DEF EnviarAQC

\* Ageing never takes a priority below zero.
LEMMA PrioridadBaja ==
    ASSUME NEW p \in [Query -> Nat], NEW q
    PROVE  [p EXCEPT ![q] = IF @ > 0 THEN @ - 1 ELSE @] \in [Query -> Nat]
<1>1. CASE q \in Query
  <2>1. p[q] \in Nat
    BY <1>1
  <2>2. (IF p[q] > 0 THEN p[q] - 1 ELSE p[q]) \in Nat
    BY <2>1
  <2> QED
    BY <2>2
<1>2. CASE q \notin Query
  BY <1>2
<1> QED
  BY <1>1, <1>2

-----------------------------------------------------------------------------
(* Type correctness.                                                       *)

PasosAging == Evaluando \cup {"inactivo", "duerme"}
PasosPlenos == {"reencola", "avisa_alta", "confirma"}

\* TypeOK is not inductive alone.  Threads keep queries and workers in locals
\* that may also be empty, and use them where they are not; and an aging thread
\* only evaluates evictions and sleeps: it never posts a semaphore.
HiloBien(h, r) ==
    /\ r \in RegHilo
    /\ h \in HilosAging => r.pc \in PasosAging
    /\ r.pc = "reencola" => r.q \in Query
    /\ r.pc \in {"avisa_alta", "confirma"} => r.w \in Worker

HilosBien == hilo \in [Hilo -> RegHilo] /\ \A h \in Hilo : HiloBien(h, hilo[h])

PlanifPleno ==
    /\ planif.pc \in {"saca_worker", "asigna", "encola_exec", "envia"} => planif.q \in Query
    /\ planif.pc \in {"asigna", "encola_exec", "envia"} => planif.w \in Worker

Tipos == TypeOK /\ PlanifPleno /\ HilosBien

\* The program starts with every variable of its type.
LEMMA TiposInicial == Init => Tipos
<1> USE MasterAssumption
<1> SUFFICES ASSUME Init PROVE Tipos
  OBVIOUS
<1> USE DEF Init
<1>1. Len(YaConectados) \in Nat
  OBVIOUS
<1>2. TypeOK
  BY <1>1 DEF TypeOK, RegPlanif, RegHilo, QueryN, WorkerN, PasosPlanif, PasosHilo,
              Evaluando, Quieto, Hilo
<1>3. PlanifPleno
  BY DEF PlanifPleno
<1>4. ASSUME NEW h \in Hilo
      PROVE  HiloBien(h, hilo[h])
  <2>1. hilo[h] \in RegHilo /\ hilo[h].pc \in {"inactivo", "escucha"}
    BY DEF RegHilo, QueryN, WorkerN, PasosHilo, Evaluando, Quieto
  <2>2. h \in HilosAging => hilo[h].pc = "inactivo"
    BY DEF Hilo, Quieto
  <2> QED
    BY <2>1, <2>2 DEF HiloBien, PasosAging
<1> QED
  BY <1>2, <1>3, <1>4 DEF Tipos, TypeOK, HilosBien

\* A thread that moves to a sound record leaves every thread sound.
LEMMA Mueve ==
    ASSUME HilosBien, NEW h \in Hilo, NEW r, HiloBien(h, r), Pasa(h, r)
    PROVE  HilosBien'
<1>1. r \in RegHilo
  BY DEF HiloBien
<1>2. hilo' \in [Hilo -> RegHilo] /\ hilo'[h] = r
  BY <1>1 DEF HilosBien, Pasa
<1>3. \A x \in Hilo : x # h => hilo'[x] = hilo[x]
  BY DEF HilosBien, Pasa
<1>4. \A x \in Hilo : HiloBien(x, hilo'[x])
  BY <1>2, <1>3 DEF HilosBien
<1> QED
  BY <1>2, <1>4 DEF HilosBien, HiloBien

\* So does one that only changes its place ...
LEMMA Camina ==
    ASSUME HilosBien, NEW h \in Hilo, NEW p \in PasosHilo \ PasosPlenos,
           h \in HilosAging => p \in PasosAging, Ir(h, p)
    PROVE  HilosBien'
<1> DEFINE r == [hilo[h] EXCEPT !.pc = p]
<1>1. r \in RegHilo /\ r.pc = p
  BY DEF HilosBien, RegHilo
<1>2. HiloBien(h, r)
  BY <1>1 DEF HiloBien, PasosPlenos
<1>3. Pasa(h, r)
  BY DEF Ir
<1> HIDE DEF r
<1> QED
  BY <1>2, <1>3, Mueve

\* ... and one that takes or drops a query on the way.
LEMMA CaminaCon ==
    ASSUME HilosBien, NEW h \in Hilo, NEW p \in PasosHilo \ {"avisa_alta", "confirma"},
           NEW q \in QueryN, h \in HilosAging => p \in PasosAging,
           p = "reencola" => q \in Query, IrCon(h, p, q)
    PROVE  HilosBien'
<1> DEFINE r == [hilo[h] EXCEPT !.pc = p, !.q = q]
<1>1. r \in RegHilo /\ r.pc = p /\ r.q = q
  BY DEF HilosBien, RegHilo
<1>2. HiloBien(h, r)
  BY <1>1 DEF HiloBien
<1>3. Pasa(h, r)
  BY DEF IrCon
<1> HIDE DEF r
<1> QED
  BY <1>2, <1>3, Mueve

\* The first half of push_ready queues its query ...
LEMMA EncolarCola ==
    ASSUME NEW h, NEW q \in Query, EncolarReady(h, q), colaReady \in Seq(Query)
    PROVE  /\ colaReady' \in Seq(Query)
           /\ Len(colaReady') = Len(colaReady) + 1
<1>1. colaReady' = Append(colaReady, q)
  BY DEF EncolarReady
<1> QED
  BY <1>1

\* ... moves its thread and starts an aging thread.
LEMMA EncolarHilo ==
    ASSUME HilosBien, NEW h \in Hilo \ HilosAging, NEW q \in Query, EncolarReady(h, q)
    PROVE  HilosBien'
<1> DEFINE p == IF Prioridades THEN "ev_libres" ELSE "despierta"
           r == [hilo[h] EXCEPT !.q = q, !.pc = p]
<1>1. p \in PasosHilo /\ "duerme" \in PasosHilo /\ q \in QueryN /\ p \notin PasosPlenos
  BY DEF PasosHilo, Evaluando, QueryN, PasosPlenos
<1>2. hilo[h] \in RegHilo
  BY DEF HilosBien
<1>3. r \in RegHilo /\ r.pc = p
  BY <1>1, <1>2 DEF RegHilo
<1>4. HiloBien(h, r)
  BY <1>1, <1>3 DEF HiloBien, PasosPlenos
<1>5. ASSUME NEW a \in HilosAging
      PROVE  HiloBien(a, [hilo[a] EXCEPT !.pc = "duerme", !.q = q])
  <2>1. hilo[a] \in RegHilo
    BY DEF HilosBien, Hilo
  <2>2. [hilo[a] EXCEPT !.pc = "duerme", !.q = q] \in RegHilo
    BY <1>1, <2>1 DEF RegHilo
  <2> QED
    BY <2>1, <2>2 DEF HiloBien, PasosAging, RegHilo
<1>6. \/ Pasa(h, r)
      \/ \E a \in HilosAging :
            hilo' = [hilo EXCEPT ![h] = r, ![a] = [@ EXCEPT !.pc = "duerme", !.q = q]]
  BY DEF EncolarReady, Pasa
<1> HIDE DEF p, r
<1>7. ASSUME NEW a \in HilosAging,
             hilo' = [hilo EXCEPT ![h] = r, ![a] = [@ EXCEPT !.pc = "duerme", !.q = q]]
      PROVE  HilosBien'
  <2> DEFINE ra == [hilo[a] EXCEPT !.pc = "duerme", !.q = q]
  <2>1. HiloBien(a, ra) /\ a \in Hilo /\ a # h
    BY <1>5 DEF Hilo
  <2>2. hilo' = [hilo EXCEPT ![h] = r, ![a] = ra]
    BY <1>7, <2>1 DEF HilosBien
  <2> HIDE DEF ra
  <2>3. \A x \in Hilo : hilo'[x] = IF x = h THEN r ELSE IF x = a THEN ra ELSE hilo[x]
    BY <2>1, <2>2 DEF HilosBien
  <2>4. hilo' \in [Hilo -> RegHilo]
    BY <1>3, <2>1, <2>2 DEF HilosBien, HiloBien
  <2>5. \A x \in Hilo : HiloBien(x, hilo'[x])
    BY <1>4, <2>1, <2>3 DEF HilosBien
  <2> QED
    BY <2>4, <2>5 DEF HilosBien, HiloBien
<1> QED
  BY <1>4, <1>6, <1>7, Mueve

\* Every step of every thread and of every process keeps the types.
LEMMA TiposPaso == Tipos /\ [Next]_vars => Tipos'
<1> SUFFICES ASSUME Tipos, [Next]_vars PROVE Tipos'
  OBVIOUS
<1>1. CASE PlanEsperaQuery
  <2>1. semQuery' \in Nat
    BY <1>1 DEF Tipos, TypeOK, PlanEsperaQuery
  <2>2. planif' \in RegPlanif
    BY <1>1 DEF Tipos, TypeOK, PlanEsperaQuery, RegPlanif, PasosPlanif
  <2>3. TypeOK'
    BY <1>1, <2>1, <2>2 DEF Tipos, TypeOK, PlanEsperaQuery, colas, sems,
       datos, procesos
  <2>4. PlanifPleno'
    BY <1>1 DEF Tipos, TypeOK, PlanifPleno, RegPlanif, QueryN, PlanEsperaQuery
  <2> QED
    BY <1>1, <2>3, <2>4 DEF Tipos, HilosBien, HiloBien, PlanEsperaQuery
<1>2. CASE PlanEsperaWorker
  <2>1. semWorker' \in Nat
    BY <1>2 DEF Tipos, TypeOK, PlanEsperaWorker
  <2>2. planif' \in RegPlanif
    BY <1>2 DEF Tipos, TypeOK, PlanEsperaWorker, RegPlanif, PasosPlanif
  <2>3. TypeOK'
    BY <1>2, <2>1, <2>2 DEF Tipos, TypeOK, PlanEsperaWorker, colas, sems,
       datos, procesos
  <2>4. PlanifPleno'
    BY <1>2 DEF Tipos, TypeOK, PlanifPleno, RegPlanif, QueryN,
       PlanEsperaWorker
  <2> QED
    BY <1>2, <2>3, <2>4 DEF Tipos, HilosBien, HiloBien, PlanEsperaWorker
<1>3. CASE PlanElige
  <2>1. (IF Prioridades THEN ElegidaPrioridad ELSE ElegidaFIFO) \in QueryN
    BY <1>3, ElegidaPrioridadTipo DEF Tipos, TypeOK, ElegidaFIFO, QueryN
  <2>2. colaReady' \in Seq(Query)
    BY <1>3, RestoPrioridadTipo, MasterAssumption DEF Tipos, TypeOK,
       PlanElige, RestoFIFO
  <2>3. planif' \in RegPlanif
    BY <1>3, <2>1 DEF Tipos, TypeOK, PlanElige, RegPlanif, PasosPlanif
  <2>4. TypeOK'
    BY <1>3, <2>2, <2>3 DEF Tipos, TypeOK, PlanElige, colas, sems, datos,
       procesos
  <2>5. PlanifPleno'
    BY <1>3, <2>1 DEF Tipos, TypeOK, PlanifPleno, RegPlanif, QueryN, PlanElige
  <2> QED
    BY <1>3, <2>4, <2>5 DEF Tipos, HilosBien, HiloBien, PlanElige
<1>4. CASE PlanSacaWorker
  <2>1. planif \in RegPlanif /\ planif.q \in Query /\ NoQuery \in QueryN
    BY <1>4 DEF Tipos, TypeOK, PlanifPleno, PlanSacaWorker, QueryN
  <2>2. CASE colaLibres = <<>>
    <3>1. colaReady' = Append(colaReady, planif.q) /\ colaLibres' = colaLibres
          /\ planif' = [planif EXCEPT !.pc = "espera_query", !.q = NoQuery]
      BY <1>4, <2>2 DEF PlanSacaWorker
    <3>2. colaReady' \in Seq(Query)
      BY <2>1, <3>1 DEF Tipos, TypeOK
    <3>3. planif' \in RegPlanif /\ planif'.pc = "espera_query"
      BY <2>1, <3>1 DEF RegPlanif, PasosPlanif
    <3> QED
      BY <1>4, <3>1, <3>2, <3>3
         DEF Tipos, TypeOK, PlanifPleno, HilosBien, HiloBien, PlanSacaWorker, sems, datos, procesos
  <2>3. CASE colaLibres # <<>>
    <3>1. colaReady' = colaReady /\ colaLibres' = Tail(colaLibres)
          /\ planif' = [planif EXCEPT !.pc = "asigna", !.w = Head(colaLibres)]
      BY <1>4, <2>3 DEF PlanSacaWorker
    <3>2. colaLibres' \in Seq(Worker) /\ Head(colaLibres) \in Worker
      BY <2>3, <3>1 DEF Tipos, TypeOK
    <3>3. planif' \in RegPlanif /\ planif'.q = planif.q /\ planif'.w \in Worker
      BY <2>1, <3>1, <3>2 DEF RegPlanif, PasosPlanif, WorkerN
    <3> QED
      BY <1>4, <2>1, <3>1, <3>2, <3>3
         DEF Tipos, TypeOK, PlanifPleno, HilosBien, HiloBien, PlanSacaWorker, sems, datos, procesos
  <2> QED
    BY <2>2, <2>3
<1>5. CASE PlanAsigna
  <2>1. planif.q \in Query /\ planif.w \in Worker
    BY <1>5 DEF Tipos, PlanifPleno, PlanAsigna
  <2>2. estado' \in [Query -> {"NUEVA", "READY", "EXEC", "EXIT"}]
    BY <1>5 DEF Tipos, TypeOK, PlanAsigna
  <2>3. idQuery' \in [Worker -> QueryN]
    BY <1>5, <2>1 DEF Tipos, TypeOK, PlanAsigna, QueryN
  <2>4. planif' \in RegPlanif
    BY <1>5 DEF Tipos, TypeOK, PlanAsigna, RegPlanif, PasosPlanif
  <2>5. TypeOK'
    BY <1>5, <2>2, <2>3, <2>4 DEF Tipos, TypeOK, PlanAsigna, colas, sems,
       datos, procesos
  <2>6. PlanifPleno'
    BY <1>5, <2>1 DEF Tipos, TypeOK, PlanifPleno, RegPlanif, QueryN,
       PlanAsigna
  <2> QED
    BY <1>5, <2>5, <2>6 DEF Tipos, HilosBien, HiloBien, PlanAsigna
<1>6. CASE PlanEncolaExec
  <2>1. planif.q \in Query
    BY <1>6 DEF Tipos, PlanifPleno, PlanEncolaExec
  <2>2. colaExec' \in SUBSET Query
    BY <1>6, <2>1 DEF Tipos, TypeOK, PlanEncolaExec
  <2>3. planif' \in RegPlanif
    BY <1>6 DEF Tipos, TypeOK, PlanEncolaExec, RegPlanif, PasosPlanif
  <2>4. TypeOK'
    BY <1>6, <2>2, <2>3 DEF Tipos, TypeOK, PlanEncolaExec, colas, sems, datos,
       procesos
  <2>5. PlanifPleno'
    BY <1>6, <2>1 DEF Tipos, TypeOK, PlanifPleno, RegPlanif, QueryN,
       PlanEncolaExec
  <2> QED
    BY <1>6, <2>4, <2>5 DEF Tipos, HilosBien, HiloBien, PlanEncolaExec
<1>7. CASE PlanEnvia
  <2>1. [op |-> "INICIA", q |-> planif.q, pc |-> pcQuery[planif.q]] \in MsgAWorker
    BY <1>7 DEF Tipos, TypeOK, PlanifPleno, PlanEnvia, MsgAWorker
  <2>2. aWorker' \in [Worker -> Seq(MsgAWorker)]
    BY <1>7, <2>1, EnviaAWorker DEF Tipos, TypeOK, PlanEnvia
  <2>3. planif' \in RegPlanif
    BY <1>7 DEF Tipos, TypeOK, PlanEnvia, RegPlanif, PasosPlanif, QueryN,
       WorkerN
  <2>4. TypeOK'
    BY <1>7, <2>2, <2>3 DEF Tipos, TypeOK, PlanEnvia, colas, sems, datos,
       procesos
  <2>5. PlanifPleno'
    BY <1>7, <2>1 DEF Tipos, TypeOK, PlanifPleno, RegPlanif, QueryN, PlanEnvia
  <2> QED
    BY <1>7, <2>4, <2>5 DEF Tipos, HilosBien, HiloBien, PlanEnvia
<1>8. ASSUME NEW h \in Hilo, EvalLibres(h)
      PROVE  Tipos'
  <2>1. HilosBien'
    BY <1>8, Camina DEF Tipos, EvalLibres, PasosHilo, PasosPlenos, PasosAging,
       Evaluando, TrasEvaluar
  <2>2. TypeOK'
    BY <1>8, <2>1 DEF Tipos, TypeOK, EvalLibres, colas, sems, datos, procesos,
       HilosBien
  <2> QED
    BY <1>8, <2>2, <2>1 DEF Tipos, PlanifPleno, EvalLibres
<1>9. ASSUME NEW h \in Hilo, EvalPeor(h)
      PROVE  Tipos'
  <2>1. ASSUME NEW peor \in Query, Pasa(h, [hilo[h] EXCEPT !.pc = "ev_buscar", !.peor = peor])
        PROVE  HilosBien'
    BY ZenonT(40), <1>9, <2>1, Mueve DEF Tipos, HilosBien, HiloBien, RegHilo, QueryN,
       PasosHilo, PasosPlenos, PasosAging, Evaluando
  <2>2. HilosBien'
    BY <1>9, <2>1, Camina DEF Tipos, TypeOK, EvalPeor, TrasEvaluar,
       PeoresEnExec, EnExec, PasosHilo, PasosPlenos, PasosAging, Evaluando
  <2>3. TypeOK'
    BY <1>9, <2>2 DEF Tipos, TypeOK, EvalPeor, colas, sems, datos, procesos,
       HilosBien
  <2> QED
    BY <1>9, <2>3, <2>2 DEF Tipos, PlanifPleno, EvalPeor
<1>10. ASSUME NEW h \in Hilo, EvalBuscar(h)
      PROVE  Tipos'
  <2>1. HiloBien(h, [hilo[h] EXCEPT !.pc = TrasEvaluar(h), !.peor = NoQuery])
    BY <1>10 DEF Tipos, HilosBien, HiloBien, RegHilo, QueryN, TrasEvaluar,
       PasosHilo, PasosPlenos, PasosAging, Evaluando
  <2>2. WorkersCon(hilo[h].peor) \in SUBSET DOMAIN listaWorkers /\ DOMAIN listaWorkers \in SUBSET Nat
    BY DEF Tipos, TypeOK, WorkersCon
  <2>3. WorkersCon(hilo[h].peor) # {} =>
           Menor(WorkersCon(hilo[h].peor)) \in DOMAIN listaWorkers
    BY <2>2, MenorEs
  <2>4. WorkersCon(hilo[h].peor) # {} =>
           listaWorkers[Menor(WorkersCon(hilo[h].peor))] \in Worker
    BY <2>3 DEF Tipos, TypeOK
  <2>5. ASSUME NEW w \in Worker
        PROVE  HiloBien(h, [hilo[h] EXCEPT !.pc = "ev_envia", !.w = w])
    BY <1>10 DEF Tipos, HilosBien, HiloBien, RegHilo, WorkerN, PasosHilo,
       PasosPlenos, PasosAging, Evaluando
  <2>6. HilosBien'
    BY <1>10, <2>1, <2>4, <2>5, Mueve DEF Tipos, EvalBuscar
  <2>7. TypeOK'
    BY <1>10, <2>6 DEF Tipos, TypeOK, EvalBuscar, colas, sems, datos,
       procesos, HilosBien
  <2> QED
    BY <1>10, <2>7, <2>6 DEF Tipos, PlanifPleno, EvalBuscar
<1>11. ASSUME NEW h \in Hilo, EvalEnvia(h)
      PROVE  Tipos'
  <2>1. HiloBien(h, [hilo[h] EXCEPT !.pc = TrasEvaluar(h), !.peor = NoQuery, !.w = NoWorker])
    BY <1>11 DEF Tipos, HilosBien, HiloBien, RegHilo, QueryN, WorkerN,
       TrasEvaluar, PasosHilo, PasosPlenos, PasosAging, Evaluando
  <2>2. [op |-> "DESALOJAR", q |-> hilo[h].peor, pc |-> 0] \in MsgAWorker
    BY <1>11 DEF Tipos, HilosBien, RegHilo, MsgAWorker
  <2>3. aWorker' \in [Worker -> Seq(MsgAWorker)]
    BY <1>11, <2>2, EnviaAWorker DEF Tipos, TypeOK, EvalEnvia
  <2>4. HilosBien'
    BY <1>11, <2>1, Mueve DEF Tipos, EvalEnvia
  <2>5. TypeOK'
    BY <1>11, <2>3, <2>4 DEF Tipos, TypeOK, EvalEnvia, colas, sems, datos,
       procesos, HilosBien
  <2> QED
    BY <1>11, <2>5, <2>4 DEF Tipos, PlanifPleno, EvalEnvia
<1>12. ASSUME NEW h \in Hilo, Despierta(h)
      PROVE  Tipos'
  <2>1. h \notin HilosAging
    BY <1>12 DEF Tipos, HilosBien, HiloBien, PasosAging, Evaluando, Despierta
  <2>2. semQuery' \in Nat
    BY <1>12 DEF Tipos, TypeOK, Despierta
  <2>3. HilosBien'
    BY <1>12, <2>1, Camina DEF Tipos, Despierta, PasosHilo, PasosPlenos,
       PasosAging, Evaluando
  <2>4. TypeOK'
    BY <1>12, <2>2, <2>3 DEF Tipos, TypeOK, Despierta, colas, sems, datos,
       procesos, HilosBien
  <2> QED
    BY <1>12, <2>4, <2>3 DEF Tipos, PlanifPleno, Despierta
<1>13. ASSUME NEW a \in HilosAging, Envejece(a)
      PROVE  Tipos'
  <2>1. a \in Hilo /\ NoQuery \in QueryN
    BY DEF Hilo, QueryN
  <2>2. [prioridad EXCEPT ![hilo[a].q] = IF @ > 0 THEN @ - 1 ELSE @] \in [Query -> Nat]
    BY PrioridadBaja DEF Tipos, TypeOK
  <2>3. prioridad' \in [Query -> Nat]
    BY <1>13, <2>2 DEF Tipos, TypeOK, Envejece
  <2>4. HilosBien'
    BY <1>13, <2>1, Camina, CaminaCon DEF Tipos, Envejece, PasosHilo,
       PasosPlenos, PasosAging, Evaluando
  <2>5. TypeOK'
    BY <1>13, <2>3, <2>4 DEF Tipos, TypeOK, Envejece, colas, sems, datos,
       procesos, HilosBien
  <2> QED
    BY <1>13, <2>5, <2>4 DEF Tipos, PlanifPleno, Envejece
<1>14. ASSUME NEW q \in Query, AceptarQuery(q)
      PROVE  Tipos'
  <2>1. Aceptador \in Hilo \ HilosAging
    BY MasterAssumption DEF Hilo
  <2>2. estado' \in [Query -> {"NUEVA", "READY", "EXEC", "EXIT"}]
    BY <1>14 DEF Tipos, TypeOK, AceptarQuery, EncolarReady
  <2>3. colaReady' \in Seq(Query)
    BY <1>14, EncolarCola DEF Tipos, TypeOK, AceptarQuery
  <2>4. HilosBien'
    BY <1>14, <2>1, EncolarHilo DEF Tipos, AceptarQuery
  <2>5. TypeOK'
    BY <1>14, <2>2, <2>3, <2>4 DEF Tipos, TypeOK, AceptarQuery, colas, sems,
       datos, procesos, HilosBien
  <2> QED
    BY <1>14, <2>5, <2>4 DEF Tipos, PlanifPleno, AceptarQuery
<1>15. ASSUME NEW w \in Worker, AceptarWorker(w)
      PROVE  Tipos'
  <2>1. Aceptador \in Hilo \ HilosAging
    BY MasterAssumption DEF Hilo
  <2>2. HiloBien(Aceptador, [hilo[Aceptador] EXCEPT !.pc = "avisa_alta", !.w = w])
    BY <1>15, <2>1 DEF Tipos, HilosBien, HiloBien, RegHilo, WorkerN, PasosHilo
  <2>3. listaWorkers' \in Seq(Worker)
    BY <1>15 DEF Tipos, TypeOK, AceptarWorker
  <2>4. colaLibres' \in Seq(Worker)
    BY <1>15 DEF Tipos, TypeOK, AceptarWorker
  <2>5. etapa' \in [Worker -> {"fuera", "esperando_ok", "listo", "desincronizado", "caido"}]
    BY <1>15 DEF Tipos, TypeOK, AceptarWorker
  <2>6. HilosBien'
    BY <1>15, <2>1, <2>2, Mueve DEF Tipos, AceptarWorker
  <2>7. TypeOK'
    BY <1>15, <2>3, <2>4, <2>5, <2>6 DEF Tipos, TypeOK, AceptarWorker, colas,
       sems, datos, procesos, HilosBien
  <2> QED
    BY <1>15, <2>7, <2>6 DEF Tipos, PlanifPleno, AceptarWorker
<1>16. CASE ResponderQC
  <2>1. Aceptador \in Hilo \ HilosAging
    BY MasterAssumption DEF Hilo
  <2>2. NoQuery \in QueryN
    BY DEF QueryN
  <2>3. aQC' \in [Query -> Seq(MsgAQC)]
    BY <1>16, EnviaAQC DEF Tipos, TypeOK, ResponderQC, MsgAQC
  <2>4. HilosBien'
    BY <1>16, <2>1, <2>2, CaminaCon DEF Tipos, ResponderQC, PasosHilo,
       PasosPlenos, PasosAging, Evaluando
  <2>5. TypeOK'
    BY <1>16, <2>3, <2>4 DEF Tipos, TypeOK, ResponderQC, colas, sems, datos,
       procesos, HilosBien
  <2> QED
    BY <1>16, <2>5, <2>4 DEF Tipos, PlanifPleno, ResponderQC
<1>17. CASE AvisarAlta
  <2>1. Aceptador \in Hilo \ HilosAging
    BY MasterAssumption DEF Hilo
  <2>2. HiloBien(Aceptador, [hilo[Aceptador] EXCEPT !.pc = "confirma"])
    BY <1>17, <2>1 DEF Tipos, HilosBien, HiloBien, RegHilo, PasosHilo,
       AvisarAlta
  <2>3. semWorker' \in Nat
    BY <1>17 DEF Tipos, TypeOK, AvisarAlta
  <2>4. HilosBien'
    BY <1>17, <2>1, <2>2, Mueve DEF Tipos, AvisarAlta, Ir
  <2>5. TypeOK'
    BY <1>17, <2>3, <2>4 DEF Tipos, TypeOK, AvisarAlta, colas, sems, datos,
       procesos, HilosBien
  <2> QED
    BY <1>17, <2>5, <2>4 DEF Tipos, PlanifPleno, AvisarAlta
<1>18. CASE ConfirmarWorker
  <2> DEFINE v == hilo[Aceptador].w
             ra == [hilo[Aceptador] EXCEPT !.pc = "inactivo", !.w = NoWorker]
             rv == [hilo[v] EXCEPT !.pc = "escucha"]
  <2>1. Aceptador \in Hilo \ HilosAging /\ v \in Worker /\ v \in Hilo /\ v # Aceptador
        /\ v \notin HilosAging
    BY <1>18, MasterAssumption DEF Tipos, HilosBien, HiloBien, ConfirmarWorker, Hilo
  <2>2. HiloBien(Aceptador, ra) /\ HiloBien(v, rv)
    <3>1. hilo[Aceptador] \in RegHilo /\ hilo[v] \in RegHilo
      BY <2>1 DEF Tipos, HilosBien
    <3>2. NoWorker \in WorkerN /\ {"inactivo", "escucha"} \subseteq PasosHilo
      BY DEF WorkerN, PasosHilo
    <3>3. ra \in RegHilo /\ ra.pc = "inactivo" /\ rv \in RegHilo /\ rv.pc = "escucha"
      BY <3>1, <3>2 DEF RegHilo
    <3> HIDE DEF ra, rv
    <3> QED
      BY <2>1, <3>3 DEF HiloBien
  <2>3. hilo' = [hilo EXCEPT ![Aceptador] = ra, ![v] = rv]
    BY <1>18, <2>1 DEF Tipos, HilosBien, ConfirmarWorker
  <2>4. [op |-> "WORKER_OK", q |-> NoQuery, pc |-> 0] \in MsgAWorker
    BY DEF MsgAWorker, QueryN
  <2>5. aWorker' \in [Worker -> Seq(MsgAWorker)]
    BY <1>18, <2>4, EnviaAWorker DEF Tipos, TypeOK, ConfirmarWorker
  <2> HIDE DEF ra, rv
  <2>6. HilosBien'
    <3>1. \A x \in Hilo : hilo'[x] = IF x = Aceptador THEN ra
                                     ELSE IF x = v THEN rv ELSE hilo[x]
      BY <2>1, <2>3 DEF Tipos, HilosBien
    <3>2. hilo' \in [Hilo -> RegHilo]
      BY <2>1, <2>2, <2>3 DEF Tipos, HilosBien, HiloBien
    <3>3. \A x \in Hilo : HiloBien(x, hilo'[x])
      BY <2>1, <2>2, <3>1 DEF Tipos, HilosBien
    <3> QED
      BY <3>2, <3>3 DEF HilosBien, HiloBien
  <2>7. TypeOK'
    BY <1>18, <2>5, <2>6 DEF Tipos, TypeOK, HilosBien, ConfirmarWorker, colas, sems, datos, procesos
  <2> QED
    BY <1>18, <2>6, <2>7 DEF Tipos, PlanifPleno, ConfirmarWorker
<1>19. ASSUME NEW w \in Worker, RecibirLectura(w)
      PROVE  Tipos'
  <2>1. aMaster' \in [Worker -> Seq(MsgAMaster)]
    BY <1>19, CanalSaca DEF Tipos, TypeOK, RecibirLectura, Llega
  <2>2. aQC' \in [Query -> Seq(MsgAQC)]
    BY <1>19, EnviaAQC DEF Tipos, TypeOK, RecibirLectura, MsgAQC
  <2>3. TypeOK'
    BY <1>19, <2>1, <2>2 DEF Tipos, TypeOK, RecibirLectura, colas, sems,
       datos, procesos
  <2> QED
    BY <1>19, <2>3 DEF Tipos, PlanifPleno, RecibirLectura, HilosBien, HiloBien
<1>20. ASSUME NEW w \in Worker, RecibirFin(w)
      PROVE  Tipos'
  <2>1. w \in Hilo /\ w \notin HilosAging
    BY MasterAssumption DEF Hilo
  <2>2. Head(aMaster[w]) \in MsgAMaster
    BY <1>20, CanalSaca DEF Tipos, TypeOK, RecibirFin, Llega
  <2>3. Head(aMaster[w]).q \in QueryN
    BY <2>2 DEF MsgAMaster, QueryN
  <2>4. aMaster' \in [Worker -> Seq(MsgAMaster)]
    BY <1>20, CanalSaca DEF Tipos, TypeOK, RecibirFin, Llega
  <2>5. colaExec' \in SUBSET Query
    BY <1>20 DEF Tipos, TypeOK, RecibirFin
  <2>6. HilosBien'
    BY <1>20, <2>1, <2>3, CaminaCon DEF Tipos, RecibirFin, PasosHilo,
       PasosPlenos, PasosAging, Evaluando
  <2>7. TypeOK'
    BY <1>20, <2>4, <2>5, <2>6 DEF Tipos, TypeOK, RecibirFin, colas, sems,
       datos, procesos, HilosBien
  <2> QED
    BY <1>20, <2>7, <2>6 DEF Tipos, PlanifPleno, RecibirFin
<1>21. ASSUME NEW w \in Worker, AvisarFin(w)
      PROVE  Tipos'
  <2>1. w \in Hilo /\ w \notin HilosAging
    BY MasterAssumption DEF Hilo
  <2>2. estado' \in [Query -> {"NUEVA", "READY", "EXEC", "EXIT"}]
    BY <1>21 DEF Tipos, TypeOK, AvisarFin
  <2>3. aQC' \in [Query -> Seq(MsgAQC)]
    BY <1>21, EnviaAQC DEF Tipos, TypeOK, AvisarFin, MsgAQC
  <2>4. HilosBien'
    BY <1>21, <2>1, Camina DEF Tipos, AvisarFin, PasosHilo, PasosPlenos,
       PasosAging, Evaluando
  <2>5. TypeOK'
    BY <1>21, <2>2, <2>3, <2>4 DEF Tipos, TypeOK, AvisarFin, colas, sems,
       datos, procesos, HilosBien
  <2> QED
    BY <1>21, <2>5, <2>4 DEF Tipos, PlanifPleno, AvisarFin
<1>22. ASSUME NEW w \in Worker, RecibirDesalojo(w)
      PROVE  Tipos'
  <2>1. w \in Hilo /\ w \notin HilosAging
    BY MasterAssumption DEF Hilo
  <2>2. Head(aMaster[w]) \in MsgAMaster
    BY <1>22, CanalSaca DEF Tipos, TypeOK, RecibirDesalojo, Llega
  <2>3. Head(aMaster[w]).q \in Query /\ Head(aMaster[w]).pc \in Nat
    BY <2>2 DEF MsgAMaster
  <2>4. aMaster' \in [Worker -> Seq(MsgAMaster)]
    BY <1>22, CanalSaca DEF Tipos, TypeOK, RecibirDesalojo, Llega
  <2>5. colaExec' \in SUBSET Query
    BY <1>22 DEF Tipos, TypeOK, RecibirDesalojo
  <2>6. pcQuery' \in [Query -> Nat]
    BY <1>22, <2>3 DEF Tipos, TypeOK, RecibirDesalojo
  <2>7. estado' \in [Query -> {"NUEVA", "READY", "EXEC", "EXIT"}]
    BY <1>22 DEF Tipos, TypeOK, RecibirDesalojo
  <2>8. HilosBien'
    BY <1>22, <2>1, <2>3, CaminaCon DEF Tipos, RecibirDesalojo, QueryN,
       PasosHilo, PasosPlenos, PasosAging, Evaluando
  <2>9. TypeOK'
    BY <1>22, <2>4, <2>5, <2>6, <2>7, <2>8 DEF Tipos, TypeOK, RecibirDesalojo,
       colas, sems, datos, procesos, HilosBien
  <2> QED
    BY <1>22, <2>9, <2>8 DEF Tipos, PlanifPleno, RecibirDesalojo
<1>23. ASSUME NEW w \in Worker, Reencolar(w)
      PROVE  Tipos'
  <2>1. w \in Hilo \ HilosAging
    BY MasterAssumption DEF Hilo
  <2>2. hilo[w].q \in Query
    BY <1>23, <2>1 DEF Tipos, HilosBien, HiloBien, Reencolar
  <2>3. estado' \in [Query -> {"NUEVA", "READY", "EXEC", "EXIT"}]
    BY <1>23, <2>2 DEF Tipos, TypeOK, Reencolar, EncolarReady
  <2>4. colaReady' \in Seq(Query)
    BY <1>23, <2>2, EncolarCola DEF Tipos, TypeOK, Reencolar
  <2>5. HilosBien'
    BY <1>23, <2>1, <2>2, EncolarHilo DEF Tipos, Reencolar
  <2>6. TypeOK'
    BY <1>23, <2>3, <2>4, <2>5 DEF Tipos, TypeOK, Reencolar, colas, sems,
       datos, procesos, HilosBien
  <2> QED
    BY <1>23, <2>6, <2>5 DEF Tipos, PlanifPleno, Reencolar
<1>24. ASSUME NEW w \in Worker, SoltarWorker(w)
      PROVE  Tipos'
  <2>1. w \in Hilo /\ w \notin HilosAging /\ NoQuery \in QueryN
    BY MasterAssumption DEF Hilo, QueryN
  <2>2. idQuery' \in [Worker -> QueryN]
    BY <1>24, <2>1 DEF Tipos, TypeOK, SoltarWorker
  <2>3. colaLibres' \in Seq(Worker)
    BY <1>24 DEF Tipos, TypeOK, SoltarWorker
  <2>4. HilosBien'
    BY <1>24, <2>1, CaminaCon DEF Tipos, SoltarWorker, PasosHilo, PasosPlenos,
       PasosAging, Evaluando
  <2>5. TypeOK'
    BY <1>24, <2>2, <2>3, <2>4 DEF Tipos, TypeOK, SoltarWorker, colas, sems,
       datos, procesos, HilosBien
  <2> QED
    BY <1>24, <2>5, <2>4 DEF Tipos, PlanifPleno, SoltarWorker
<1>25. ASSUME NEW w \in Worker, AvisarLibre(w)
      PROVE  Tipos'
  <2>1. w \in Hilo /\ w \notin HilosAging
    BY MasterAssumption DEF Hilo
  <2>2. semWorker' \in Nat
    BY <1>25 DEF Tipos, TypeOK, AvisarLibre
  <2>3. HilosBien'
    BY <1>25, <2>1, Camina DEF Tipos, AvisarLibre, PasosHilo, PasosPlenos,
       PasosAging, Evaluando
  <2>4. TypeOK'
    BY <1>25, <2>2, <2>3 DEF Tipos, TypeOK, AvisarLibre, colas, sems, datos,
       procesos, HilosBien
  <2> QED
    BY <1>25, <2>4, <2>3 DEF Tipos, PlanifPleno, AvisarLibre
<1>26. ASSUME NEW w \in Worker, BajaWorker(w)
      PROVE  Tipos'
  <2>1. w \in Hilo /\ w \notin HilosAging
    BY MasterAssumption DEF Hilo
  <2>2. colaExec' \in SUBSET Query
    BY <1>26 DEF Tipos, TypeOK, BajaWorker
  <2>3. estado' \in [Query -> {"NUEVA", "READY", "EXEC", "EXIT"}]
    BY <1>26 DEF Tipos, TypeOK, BajaWorker
  <2>4. aQC' \in [Query -> Seq(MsgAQC)]
    BY <1>26, EnviaAQC DEF Tipos, TypeOK, BajaWorker, MsgAQC
  <2>5. HilosBien'
    BY <1>26, <2>1, Camina DEF Tipos, BajaWorker, PasosHilo, PasosPlenos,
       PasosAging, Evaluando
  <2>6. TypeOK'
    BY <1>26, <2>2, <2>3, <2>4, <2>5 DEF Tipos, TypeOK, BajaWorker, colas,
       sems, datos, procesos, HilosBien
  <2> QED
    BY <1>26, <2>6, <2>5 DEF Tipos, PlanifPleno, BajaWorker
<1>27. ASSUME NEW w \in Worker, BajaLimpia(w)
      PROVE  Tipos'
  <2>1. w \in Hilo /\ w \notin HilosAging /\ NoQuery \in QueryN
    BY MasterAssumption DEF Hilo, QueryN
  <2>2. idQuery' \in [Worker -> QueryN]
    BY <1>27, <2>1 DEF Tipos, TypeOK, BajaLimpia
  <2>3. HilosBien'
    BY <1>27, <2>1, Camina DEF Tipos, BajaLimpia, PasosHilo, PasosPlenos,
       PasosAging, Evaluando
  <2>4. TypeOK'
    BY <1>27, <2>2, <2>3 DEF Tipos, TypeOK, BajaLimpia, colas, sems, datos,
       procesos, HilosBien
  <2> QED
    BY <1>27, <2>4, <2>3 DEF Tipos, PlanifPleno, BajaLimpia
<1>28. ASSUME NEW q \in Query, BajaQC(q)
      PROVE  Tipos'
  <2>1. qcIdos' \in SUBSET Query
    BY <1>28 DEF Tipos, TypeOK, BajaQC
  <2>2. estado' \in [Query -> {"NUEVA", "READY", "EXEC", "EXIT"}]
    BY <1>28 DEF Tipos, TypeOK, BajaQC
  <2>3. TypeOK'
    BY <1>28, <2>1, <2>2 DEF Tipos, TypeOK, BajaQC, colas, sems, datos,
       procesos
  <2> QED
    BY <1>28, <2>3 DEF Tipos, PlanifPleno, BajaQC, HilosBien, HiloBien
<1>29. ASSUME NEW w \in Worker, WorkerSaludo(w)
      PROVE  Tipos'
  <2>1. aWorker' \in [Worker -> Seq(MsgAWorker)]
    BY <1>29, CanalSaca DEF Tipos, TypeOK, WorkerSaludo, Consume
  <2>2. etapa' \in [Worker -> {"fuera", "esperando_ok", "listo", "desincronizado", "caido"}]
    BY <1>29 DEF Tipos, TypeOK, WorkerSaludo
  <2>3. TypeOK'
    BY <1>29, <2>1, <2>2 DEF Tipos, TypeOK, WorkerSaludo, colas, sems, datos,
       procesos
  <2> QED
    BY <1>29, <2>3 DEF Tipos, PlanifPleno, WorkerSaludo, HilosBien, HiloBien
<1>30. ASSUME NEW w \in Worker, WorkerRecibeDesalojo(w)
      PROVE  Tipos'
  <2>1. aWorker' \in [Worker -> Seq(MsgAWorker)]
    BY <1>30, CanalSaca DEF Tipos, TypeOK, WorkerRecibeDesalojo, Consume
  <2>2. desalojo' \in [Worker -> BOOLEAN]
    BY <1>30 DEF Tipos, TypeOK, WorkerRecibeDesalojo
  <2>3. TypeOK'
    BY <1>30, <2>1, <2>2 DEF Tipos, TypeOK, WorkerRecibeDesalojo, colas, sems,
       datos, procesos
  <2> QED
    BY <1>30, <2>3 DEF Tipos, PlanifPleno, WorkerRecibeDesalojo, HilosBien,
       HiloBien
<1>31. ASSUME NEW w \in Worker, WorkerRecibeQuery(w)
      PROVE  Tipos'
  <2>1. Head(aWorker[w]) \in MsgAWorker
    BY <1>31, CanalSaca DEF Tipos, TypeOK, WorkerRecibeQuery, Consume
  <2>2. Head(aWorker[w]).q \in Query
    BY <1>31, <2>1 DEF WorkerRecibeQuery, MsgAWorker
  <2>3. aWorker' \in [Worker -> Seq(MsgAWorker)]
    BY <1>31, CanalSaca DEF Tipos, TypeOK, WorkerRecibeQuery, Consume
  <2>4. enCurso' \in [Worker -> SUBSET Query]
    BY <1>31, <2>2 DEF Tipos, TypeOK, WorkerRecibeQuery
  <2>5. TypeOK'
    BY <1>31, <2>3, <2>4 DEF Tipos, TypeOK, WorkerRecibeQuery, colas, sems,
       datos, procesos
  <2> QED
    BY <1>31, <2>5 DEF Tipos, PlanifPleno, WorkerRecibeQuery, HilosBien,
       HiloBien
<1>32. ASSUME NEW w \in Worker, NEW q \in Query, WorkerTermina(w, q)
      PROVE  Tipos'
  <2>1. [op |-> "FIN", q |-> q, pc |-> IF q \in ConError THEN 0 ELSE 1] \in MsgAMaster
    BY DEF MsgAMaster
  <2>2. aMaster' \in [Worker -> Seq(MsgAMaster)]
    BY <1>32, <2>1, CanalAgrega DEF Tipos, TypeOK, WorkerTermina, Contesta
  <2>3. enCurso' \in [Worker -> SUBSET Query]
    BY <1>32 DEF Tipos, TypeOK, WorkerTermina, Contesta
  <2>4. TypeOK'
    BY <1>32, <2>2, <2>3 DEF Tipos, TypeOK, WorkerTermina, colas, sems, datos,
       procesos
  <2> QED
    BY <1>32, <2>4 DEF Tipos, PlanifPleno, WorkerTermina, HilosBien, HiloBien
<1>33. ASSUME NEW w \in Worker, NEW q \in Query, WorkerNoAbre(w, q)
      PROVE  Tipos'
  <2>1. enCurso' \in [Worker -> SUBSET Query]
    BY <1>33 DEF Tipos, TypeOK, WorkerNoAbre
  <2>2. TypeOK'
    BY <1>33, <2>1 DEF Tipos, TypeOK, WorkerNoAbre, colas, sems, datos,
       procesos
  <2> QED
    BY <1>33, <2>2 DEF Tipos, PlanifPleno, WorkerNoAbre, HilosBien, HiloBien
<1>34. ASSUME NEW w \in Worker, NEW q \in Query, NEW pc \in 0..MaxPC, WorkerDesaloja(w, q, pc)
      PROVE  Tipos'
  <2>1. [op |-> "DESALOJAR", q |-> q, pc |-> pc] \in MsgAMaster
    BY MasterAssumption DEF MsgAMaster
  <2>2. aMaster' \in [Worker -> Seq(MsgAMaster)]
    BY <1>34, <2>1, CanalAgrega DEF Tipos, TypeOK, WorkerDesaloja, Contesta
  <2>3. enCurso' \in [Worker -> SUBSET Query]
    BY <1>34 DEF Tipos, TypeOK, WorkerDesaloja, Contesta
  <2>4. desalojo' \in [Worker -> BOOLEAN]
    BY <1>34 DEF Tipos, TypeOK, WorkerDesaloja
  <2>5. TypeOK'
    BY <1>34, <2>2, <2>3, <2>4 DEF Tipos, TypeOK, WorkerDesaloja, colas, sems,
       datos, procesos
  <2> QED
    BY <1>34, <2>5 DEF Tipos, PlanifPleno, WorkerDesaloja, HilosBien, HiloBien
<1>35. ASSUME NEW w \in Worker, NEW q \in Query, WorkerLee(w, q)
      PROVE  Tipos'
  <2>1. [op |-> "LECTURA", q |-> q, pc |-> 0] \in MsgAMaster
    BY DEF MsgAMaster
  <2>2. aMaster' \in [Worker -> Seq(MsgAMaster)]
    BY <1>35, <2>1, CanalAgrega DEF Tipos, TypeOK, WorkerLee
  <2>3. TypeOK'
    BY <1>35, <2>2 DEF Tipos, TypeOK, WorkerLee, colas, sems, datos, procesos
  <2> QED
    BY <1>35, <2>3 DEF Tipos, PlanifPleno, WorkerLee, HilosBien, HiloBien
<1>36. ASSUME NEW w \in Worker, CaeWorker(w)
      PROVE  Tipos'
  <2>1. etapa' \in [Worker -> {"fuera", "esperando_ok", "listo", "desincronizado", "caido"}]
    BY <1>36 DEF Tipos, TypeOK, CaeWorker
  <2>2. enCurso' \in [Worker -> SUBSET Query]
    BY <1>36 DEF Tipos, TypeOK, CaeWorker
  <2>3. aWorker' \in [Worker -> Seq(MsgAWorker)]
    BY <1>36 DEF Tipos, TypeOK, CaeWorker
  <2>4. aMaster' \in [Worker -> Seq(MsgAMaster)]
    BY <1>36 DEF Tipos, TypeOK, CaeWorker
  <2>5. TypeOK'
    BY <1>36, <2>1, <2>2, <2>3, <2>4 DEF Tipos, TypeOK, CaeWorker, colas,
       sems, datos, procesos
  <2> QED
    BY <1>36, <2>5 DEF Tipos, PlanifPleno, CaeWorker, HilosBien, HiloBien
<1>37. CASE UNCHANGED vars
  BY <1>37 DEF Tipos, TypeOK, PlanifPleno, HilosBien, HiloBien, vars, colas,
     sems, datos, procesos
<1> QED
  BY <1>1, <1>2, <1>3, <1>4, <1>5, <1>6, <1>7, <1>8, <1>9, <1>10, <1>11,
     <1>12, <1>13, <1>14, <1>15, <1>16, <1>17, <1>18, <1>19, <1>20, <1>21,
     <1>22, <1>23, <1>24, <1>25, <1>26, <1>27, <1>28, <1>29, <1>30, <1>31,
     <1>32, <1>33, <1>34, <1>35, <1>36, <1>37 DEF Next, Planificador,
     Evaluador, AceptadorAvanza, AtenderWorker, WorkerEscucha, WorkerEjecuta

\* The types of every variable hold in every reachable state: TypeOK.
THEOREM TipoCorrecto == Spec => []TypeOK
<1>1. Tipos => TypeOK
  BY DEF Tipos
<1> QED
  BY <1>1, TiposInicial, TiposPaso, PTL DEF Spec

-----------------------------------------------------------------------------
(* The tokens of the two semaphores.                                       *)

\* The threads of H that f puts at one of the places of S; where each one is.
En(H, f, S) == {x \in H : f[x] \in S}
Lugar == [x \in Hilo |-> hilo[x].pc]

\* Moving one of them changes the count by what it was and what it becomes.
LEMMA Cuenta ==
    ASSUME NEW H, IsFiniteSet(H), NEW f, NEW g, NEW S, NEW h,
           \A x \in H : x # h => g[x] = f[x]
    PROVE  LET A == En(H, f, S)
               B == En(H, g, S)
           IN  /\ h \in H /\ f[h] \notin S /\ g[h] \in S => Cardinality(B) = Cardinality(A) + 1
               /\ h \in H /\ f[h] \in S /\ g[h] \notin S => Cardinality(B) = Cardinality(A) - 1
               /\ h \notin H \/ (f[h] \in S <=> g[h] \in S) => B = A
<1> DEFINE A == En(H, f, S)
           B == En(H, g, S)
<1>1. IsFiniteSet(A) /\ IsFiniteSet(B)
  BY FS_Subset DEF En
<1>2. Cardinality(A) \in Nat /\ Cardinality(B) \in Nat
  BY <1>1, FS_CardinalityType
<1>3. ASSUME h \in H, f[h] \notin S, g[h] \in S
      PROVE  Cardinality(B) = Cardinality(A) + 1
  <2>1. B = A \cup {h} /\ h \notin A
    BY <1>3 DEF En
  <2> QED
    BY <1>1, <2>1, FS_AddElement
<1>4. ASSUME h \in H, f[h] \in S, g[h] \notin S
      PROVE  Cardinality(B) = Cardinality(A) - 1
  <2>1. A = B \cup {h} /\ h \notin B
    BY <1>4 DEF En
  <2>2. Cardinality(A) = Cardinality(B) + 1
    BY <1>1, <2>1, FS_AddElement
  <2> QED
    BY <1>2, <2>2
<1>5. ASSUME h \notin H \/ (f[h] \in S <=> g[h] \in S)
      PROVE  B = A
  BY <1>5 DEF En
<1> QED
  BY <1>3, <1>4, <1>5

Avisando   == {"avisa", "avisa_alta"}
Encolando  == Evaluando \cup {"despierta"}
PorAvisar  == Cardinality(HilosEn(Avisando))
PorEncolar == Cardinality(HilosEncolando)

\* What the counts of the two reserves become when thread h moves to place p.
CuentaMovida(h, p) ==
    /\ hilo[h].pc \notin Avisando /\ p \in Avisando => PorAvisar' = PorAvisar + 1
    /\ hilo[h].pc \in Avisando /\ p \notin Avisando => PorAvisar' = PorAvisar - 1
    /\ (hilo[h].pc \in Avisando <=> p \in Avisando) => PorAvisar' = PorAvisar
    /\ h \notin HilosAging /\ hilo[h].pc \notin Encolando /\ p \in Encolando
       => PorEncolar' = PorEncolar + 1
    /\ h \notin HilosAging /\ hilo[h].pc \in Encolando /\ p \notin Encolando
       => PorEncolar' = PorEncolar - 1
    /\ h \in HilosAging \/ (hilo[h].pc \in Encolando <=> p \in Encolando)
       => PorEncolar' = PorEncolar

\* There are finitely many threads, as MasterAssumption bounds each kind.
LEMMA HilosFinitos == IsFiniteSet(Hilo) /\ IsFiniteSet(Hilo \ HilosAging)
<1>1. IsFiniteSet({Aceptador}) /\ IsFiniteSet(Worker \cup HilosAging)
  BY MasterAssumption, FS_Singleton, FS_Union
<1>2. Hilo = {Aceptador} \cup (Worker \cup HilosAging)
  BY DEF Hilo
<1>3. IsFiniteSet(Hilo)
  BY <1>1, <1>2, FS_Union
<1> QED
  BY <1>3, FS_Subset

\* Both counts are counts of places, before and after a step.
LEMMA PorConteo ==
    /\ PorAvisar = Cardinality(En(Hilo, Lugar, Avisando))
    /\ PorEncolar = Cardinality(En(Hilo \ HilosAging, Lugar, Encolando))
    /\ PorAvisar' = Cardinality(En(Hilo, Lugar', Avisando))
    /\ PorEncolar' = Cardinality(En(Hilo \ HilosAging, Lugar', Encolando))
<1>1. HilosEn(Avisando) = En(Hilo, Lugar, Avisando)
  BY DEF HilosEn, En, Lugar
<1>2. HilosEn(Avisando)' = En(Hilo, Lugar', Avisando)
  BY DEF HilosEn, En, Lugar
<1>3. HilosEncolando = En(Hilo \ HilosAging, Lugar, Encolando)
  BY DEF HilosEn, En, Lugar, HilosEncolando, Encolando
<1>4. HilosEncolando' = En(Hilo \ HilosAging, Lugar', Encolando)
  BY DEF HilosEn, En, Lugar, HilosEncolando, Encolando
<1> QED
  BY <1>1, <1>2, <1>3, <1>4 DEF PorAvisar, PorEncolar

\* A thread that moves alone changes the counts as CuentaMovida says.
LEMMA CuentaPasa ==
    ASSUME HilosBien, NEW h \in Hilo, NEW r, Pasa(h, r)
    PROVE  CuentaMovida(h, r.pc)
<1> DEFINE f == Lugar
           g == Lugar'
           P == Hilo \ HilosAging
<1>1. f[h] = hilo[h].pc /\ g[h] = r.pc /\ \A x \in Hilo : x # h => g[x] = f[x]
  BY DEF HilosBien, Pasa, Lugar
<1>2. /\ IsFiniteSet(Hilo) /\ IsFiniteSet(P)
      /\ \A x \in Hilo : x # h => g[x] = f[x]
      /\ \A x \in P : x # h => g[x] = f[x]
  BY <1>1, HilosFinitos
<1>3. /\ PorAvisar = Cardinality(En(Hilo, f, Avisando))
      /\ PorEncolar = Cardinality(En(P, f, Encolando))
      /\ PorAvisar' = Cardinality(En(Hilo, g, Avisando))
      /\ PorEncolar' = Cardinality(En(P, g, Encolando))
  BY PorConteo
<1>6. h \in P <=> h \notin HilosAging
  OBVIOUS
<1> HIDE DEF f, g, P
<1>4. /\ f[h] \notin Avisando /\ g[h] \in Avisando => PorAvisar' = PorAvisar + 1
      /\ f[h] \in Avisando /\ g[h] \notin Avisando => PorAvisar' = PorAvisar - 1
      /\ (f[h] \in Avisando <=> g[h] \in Avisando) => PorAvisar' = PorAvisar
  BY <1>2, <1>3, Cuenta
<1>5. /\ h \in P /\ f[h] \notin Encolando /\ g[h] \in Encolando => PorEncolar' = PorEncolar + 1
      /\ h \in P /\ f[h] \in Encolando /\ g[h] \notin Encolando => PorEncolar' = PorEncolar - 1
      /\ h \notin P \/ (f[h] \in Encolando <=> g[h] \in Encolando) => PorEncolar' = PorEncolar
  BY <1>2, <1>3, Cuenta
<1> QED
  BY <1>1, <1>4, <1>5, <1>6 DEF CuentaMovida

\* The same for a thread that only changes its place, and with a query.
LEMMA CuentaIr ==
    ASSUME HilosBien, NEW h \in Hilo, NEW p \in PasosHilo,
           Ir(h, p) \/ \E q \in QueryN : IrCon(h, p, q)
    PROVE  CuentaMovida(h, p)
<1>1. hilo[h] \in RegHilo
  BY DEF HilosBien
<1>2. CASE Ir(h, p)
  <2>1. Pasa(h, [hilo[h] EXCEPT !.pc = p]) /\ [hilo[h] EXCEPT !.pc = p].pc = p
    BY <1>1, <1>2 DEF Ir, RegHilo
  <2> QED
    BY <2>1, CuentaPasa
<1>3. CASE \E q \in QueryN : IrCon(h, p, q)
  <2>1. PICK q \in QueryN : IrCon(h, p, q)
    BY <1>3
  <2>2. /\ Pasa(h, [hilo[h] EXCEPT !.pc = p, !.q = q])
        /\ [hilo[h] EXCEPT !.pc = p, !.q = q].pc = p
    BY <1>1, <2>1 DEF IrCon, RegHilo
  <2> QED
    BY <2>2, CuentaPasa
<1> QED
  BY <1>2, <1>3

\* Threads that are in none of the places counted leave the counts alone.
LEMMA CuentaNoCrece ==
    ASSUME HilosBien, \A x \in Hilo : hilo'[x].pc = hilo[x].pc
                                      \/ hilo'[x].pc \notin Avisando \cup Encolando
    PROVE  PorAvisar' <= PorAvisar /\ PorEncolar' <= PorEncolar
<1> DEFINE P == Hilo \ HilosAging
<1>1. /\ En(Hilo, Lugar', Avisando) \subseteq En(Hilo, Lugar, Avisando)
      /\ En(P, Lugar', Encolando) \subseteq En(P, Lugar, Encolando)
  BY DEF En, Lugar
<1>2. IsFiniteSet(En(Hilo, Lugar, Avisando)) /\ IsFiniteSet(En(P, Lugar, Encolando))
  BY HilosFinitos, FS_Subset DEF En
<1> QED
  BY <1>1, <1>2, FS_Subset, PorConteo

\* Nor change them if they were in none before.
LEMMA CuentaNoCambia ==
    ASSUME \A x \in Hilo : \/ hilo'[x].pc = hilo[x].pc
                            \/ /\ hilo'[x].pc \notin Avisando \cup Encolando
                               /\ hilo[x].pc \notin Avisando \cup Encolando
    PROVE  PorAvisar' = PorAvisar /\ PorEncolar' = PorEncolar
<1> DEFINE P == Hilo \ HilosAging
<1>1. /\ En(Hilo, Lugar', Avisando) = En(Hilo, Lugar, Avisando)
      /\ En(P, Lugar', Encolando) = En(P, Lugar, Encolando)
  BY DEF En, Lugar
<1> QED
  BY <1>1, PorConteo

\* push_ready's first half: its thread starts to count, the aging thread never.
LEMMA CuentaEncolar ==
    ASSUME HilosBien, NEW h \in Hilo \ HilosAging, NEW q \in Query, EncolarReady(h, q),
           hilo[h].pc \notin Avisando \cup Encolando
    PROVE  PorAvisar' = PorAvisar /\ PorEncolar' = PorEncolar + 1
<1> DEFINE p == IF Prioridades THEN "ev_libres" ELSE "despierta"
           r == [hilo[h] EXCEPT !.q = q, !.pc = p]
<1>1. p \in Encolando /\ p \notin Avisando /\ p \in PasosHilo
  BY DEF Encolando, Evaluando, Avisando, PasosHilo
<1>2. r.pc = p
  BY <1>1 DEF HilosBien, RegHilo
<1>3. \/ Pasa(h, r)
      \/ \E a \in HilosAging : /\ hilo[a].pc = "inactivo"
            /\ hilo' = [hilo EXCEPT ![h] = r, ![a] = [@ EXCEPT !.pc = "duerme", !.q = q]]
  BY DEF EncolarReady, Pasa
<1> HIDE DEF p, r
<1>4. CASE Pasa(h, r)
  BY <1>1, <1>2, <1>4, CuentaPasa DEF CuentaMovida
<1>5. ASSUME NEW a \in HilosAging, hilo[a].pc = "inactivo",
             hilo' = [hilo EXCEPT ![h] = r, ![a] = [@ EXCEPT !.pc = "duerme", !.q = q]]
      PROVE  PorAvisar' = PorAvisar /\ PorEncolar' = PorEncolar + 1
  <2> DEFINE P == Hilo \ HilosAging
             f == Lugar
             g == Lugar'
  <2>1. a \in Hilo /\ a # h /\ hilo[a] \in RegHilo
    BY DEF HilosBien, Hilo
  <2>2. /\ f[h] = hilo[h].pc /\ g[h] = p /\ f[a] = "inactivo" /\ g[a] = "duerme"
        /\ \A x \in Hilo : x # h /\ x # a => g[x] = f[x]
    <3>1. /\ hilo'[h] = r /\ hilo'[a] = [hilo[a] EXCEPT !.pc = "duerme", !.q = q]
          /\ \A x \in Hilo : x # h /\ x # a => hilo'[x] = hilo[x]
      BY <1>5, <2>1 DEF HilosBien
    <3>2. [hilo[a] EXCEPT !.pc = "duerme", !.q = q].pc = "duerme"
      BY <2>1 DEF RegHilo
    <3>3. \A x \in Hilo : f[x] = hilo[x].pc /\ g[x] = hilo'[x].pc
      BY DEF Lugar
    <3>4. f[h] = hilo[h].pc /\ g[h] = p
      BY <1>2, <3>1, <3>3
    <3>5. f[a] = "inactivo" /\ g[a] = "duerme"
      BY <1>5, <2>1, <3>1, <3>2, <3>3
    <3>6. \A x \in Hilo : x # h /\ x # a => g[x] = f[x]
      <4> SUFFICES ASSUME NEW x \in Hilo, x # h, x # a PROVE g[x] = f[x]
        OBVIOUS
      <4>1. hilo'[x] = hilo[x]
        BY <3>1
      <4> QED
        BY <3>3, <4>1
    <3> QED
      BY <3>4, <3>5, <3>6
  <2>3. /\ IsFiniteSet(P) /\ h \in P /\ f[h] \notin Encolando /\ g[h] \in Encolando
        /\ \A x \in P : x # h => g[x] = f[x]
    BY <1>1, <2>2, HilosFinitos
  <2>4. En(Hilo, g, Avisando) = En(Hilo, f, Avisando)
    BY <1>1, <2>1, <2>2 DEF En, Avisando
  <2>5. /\ PorAvisar = Cardinality(En(Hilo, f, Avisando))
        /\ PorEncolar = Cardinality(En(P, f, Encolando))
        /\ PorAvisar' = Cardinality(En(Hilo, g, Avisando))
        /\ PorEncolar' = Cardinality(En(P, g, Encolando))
    BY PorConteo
  <2> HIDE DEF P, f, g
  <2> QED
    BY <2>3, <2>4, <2>5, Cuenta
<1> QED
  BY <1>3, <1>4, <1>5

\* Counts of threads are natural numbers.
LEMMA PorNat ==
    PorAvisar \in Nat /\ PorEncolar \in Nat /\ PorAvisar' \in Nat /\ PorEncolar' \in Nat
<1>1. \A f, S : /\ IsFiniteSet(En(Hilo, f, S))
                /\ IsFiniteSet(En(Hilo \ HilosAging, f, S))
  BY HilosFinitos, FS_Subset DEF En
<1> QED
  BY <1>1, PorConteo, FS_CardinalityType

\* A token of each semaphore, taken by the scheduler, not yet posted or waiting,
\* is backed by an element of its queue.
Tokens == TokensWorker /\ TokensQuery

\* So many elements of each queue have no token that stands for them.
Sobran(dW, dQ) ==
    /\ ReservaWorker + dW = Len(colaLibres)
    /\ ReservaQuery + dQ = Len(colaReady)

\* The same in terms of the counts.
ConTokens(sW, sQ, pc, nA, nE, nL, nR, dW, dQ) ==
    /\ sW + (IF pc \in {"elige", "saca_worker"} THEN 1 ELSE 0) + nA + dW = nL
    /\ sQ + (IF pc \in {"espera_worker", "elige"} THEN 1 ELSE 0) + nE + dQ = nR

\* Sobran is ConTokens of the current counts, before and after a step.
LEMMA TokensCuentas ==
    ASSUME NEW dW, NEW dQ
    PROVE  /\ Sobran(dW, dQ) <=> ConTokens(semWorker, semQuery, planif.pc, PorAvisar, PorEncolar,
                                           Len(colaLibres), Len(colaReady), dW, dQ)
           /\ Sobran(dW, dQ)' <=> ConTokens(semWorker', semQuery', planif'.pc, PorAvisar', PorEncolar',
                                            Len(colaLibres'), Len(colaReady'), dW, dQ)
BY DEF Sobran, ReservaWorker, ReservaQuery, ConTokens, Unos, PorAvisar, PorEncolar, Avisando

\* Tokens says that no token stands for nothing, TokensExactos that no element
\* of a queue is without its token.
HaySobra == \E dW, dQ \in Nat : Sobran(dW, dQ)

\* The invariant and the property in terms of what is left over.
LEMMA TokensSobran == TypeOK => (Tokens <=> HaySobra) /\ (TokensExactos <=> Sobran(0, 0))
<1> SUFFICES ASSUME TypeOK PROVE (Tokens <=> HaySobra) /\ (TokensExactos <=> Sobran(0, 0))
  OBVIOUS
<1>1. ReservaWorker \in Nat /\ ReservaQuery \in Nat
  <2>1. /\ ReservaWorker = semWorker + Unos(planif.pc \in {"elige", "saca_worker"}) + PorAvisar
        /\ ReservaQuery = semQuery + Unos(planif.pc \in {"espera_worker", "elige"}) + PorEncolar
    BY DEF ReservaWorker, ReservaQuery, PorAvisar, PorEncolar, Avisando
  <2>2. semWorker \in Nat /\ semQuery \in Nat /\ \A b : Unos(b) \in Nat
    BY DEF TypeOK, Unos
  <2> QED
    BY <2>1, <2>2, PorNat
<1>2. Len(colaLibres) \in Nat /\ Len(colaReady) \in Nat
  BY DEF TypeOK
<1>3. \A r, l \in Nat : (r <= l <=> \E d \in Nat : r + d = l) /\ (r = l <=> r + 0 = l)
  <2>1. \A r, l \in Nat : r <= l => l - r \in Nat /\ r + (l - r) = l
    OBVIOUS
  <2> QED
    BY <2>1
<1>4. Tokens <=> (\E d \in Nat : ReservaWorker + d = Len(colaLibres))
                 /\ (\E d \in Nat : ReservaQuery + d = Len(colaReady))
  BY <1>1, <1>2, <1>3 DEF Tokens, TokensWorker, TokensQuery
<1>5. TokensExactos <=> Sobran(0, 0)
  BY <1>1, <1>2, <1>3 DEF TokensExactos, Sobran
<1> QED
  BY <1>4, <1>5 DEF HaySobra, Sobran

\* At the start the only tokens are those of the Workers already connected.
LEMMA TokensInicial == Init => Tokens /\ Sobran(0, 0)
<1> SUFFICES ASSUME Init PROVE Tokens /\ Sobran(0, 0)
  OBVIOUS
<1>1. \A h \in Hilo : hilo[h].pc \in {"inactivo", "escucha"}
  BY DEF Init, Quieto
<1>2. HilosEn(Avisando) = {} /\ HilosEncolando = {}
  BY <1>1 DEF HilosEn, HilosEncolando, Evaluando, Avisando
<1>3. PorAvisar = 0 /\ PorEncolar = 0 /\ Len(YaConectados) \in Nat /\ Len(<<>>) = 0
  BY <1>2, MasterAssumption, FS_EmptySet DEF PorAvisar, PorEncolar
<1>4. planif.pc = "espera_query" /\ semWorker = Len(YaConectados) /\ semQuery = 0
      /\ colaLibres = YaConectados /\ colaReady = <<>>
  BY DEF Init
<1>5. ConTokens(semWorker, semQuery, planif.pc, PorAvisar, PorEncolar,
                Len(colaLibres), Len(colaReady), 0, 0)
  BY <1>3, <1>4 DEF ConTokens
<1>6. Sobran(0, 0) /\ TypeOK
  BY <1>5, TokensCuentas, TiposInicial DEF Tipos
<1> QED
  BY <1>6, TokensSobran DEF HaySobra

\* A step that moves no thread leaves the counts.
LEMMA SinMover == hilo' = hilo => PorAvisar' = PorAvisar /\ PorEncolar' = PorEncolar
BY DEF PorAvisar, PorEncolar, HilosEn, HilosEncolando

\* FIFO takes exactly the query it returns, as RestoPrioridadTipo does.
LEMMA RestoFIFOTipo ==
    ASSUME colaReady \in Seq(Query), NoQuery \notin Query
    PROVE  /\ ElegidaFIFO = NoQuery => RestoFIFO = colaReady
           /\ ElegidaFIFO # NoQuery => Len(RestoFIFO) = Len(colaReady) - 1
BY DEF ElegidaFIFO, RestoFIFO

\* The moves that touch other locals of a thread.
LEMMA CuentaPeor ==
    ASSUME HilosBien, NEW h \in Hilo, NEW peor,
           Pasa(h, [hilo[h] EXCEPT !.pc = "ev_buscar", !.peor = peor])
    PROVE  CuentaMovida(h, "ev_buscar")
<1>1. [hilo[h] EXCEPT !.pc = "ev_buscar", !.peor = peor].pc = "ev_buscar"
  BY DEF HilosBien, RegHilo
<1> QED
  BY <1>1, CuentaPasa

\* Looking for the victim's worker neither adds nor takes a thread counted.
LEMMA CuentaBuscar ==
    ASSUME HilosBien, NEW h \in Hilo, EvalBuscar(h)
    PROVE  CuentaMovida(h, "ev_envia") \/ CuentaMovida(h, TrasEvaluar(h))
<1>1. \A w : [hilo[h] EXCEPT !.pc = "ev_envia", !.w = w].pc = "ev_envia"
  BY DEF HilosBien, RegHilo
<1>2. [hilo[h] EXCEPT !.pc = TrasEvaluar(h), !.peor = NoQuery].pc = TrasEvaluar(h)
  BY DEF HilosBien, RegHilo
<1>3. \/ \E w : Pasa(h, [hilo[h] EXCEPT !.pc = "ev_envia", !.w = w])
      \/ Pasa(h, [hilo[h] EXCEPT !.pc = TrasEvaluar(h), !.peor = NoQuery])
  BY DEF EvalBuscar
<1>4. CASE \E w : Pasa(h, [hilo[h] EXCEPT !.pc = "ev_envia", !.w = w])
  BY <1>1, <1>4, CuentaPasa
<1>5. CASE Pasa(h, [hilo[h] EXCEPT !.pc = TrasEvaluar(h), !.peor = NoQuery])
  BY <1>2, <1>5, CuentaPasa
<1> QED
  BY <1>3, <1>4, <1>5

\* Nor does asking the worker to evict.
LEMMA CuentaEnvia ==
    ASSUME HilosBien, NEW h \in Hilo, EvalEnvia(h)
    PROVE  CuentaMovida(h, TrasEvaluar(h))
<1>1. [hilo[h] EXCEPT !.pc = TrasEvaluar(h), !.peor = NoQuery, !.w = NoWorker].pc
      = TrasEvaluar(h)
  BY DEF HilosBien, RegHilo
<1> QED
  BY <1>1, CuentaPasa DEF EvalEnvia

\* The acceptor counts from the push of the new worker to its sem_post.
LEMMA CuentaAlta ==
    ASSUME HilosBien, NEW w \in Worker, Aceptador \in Hilo, AceptarWorker(w)
    PROVE  PorAvisar' = PorAvisar + 1 /\ PorEncolar' = PorEncolar
<1>1. [hilo[Aceptador] EXCEPT !.pc = "avisa_alta", !.w = w].pc = "avisa_alta"
  BY DEF HilosBien, RegHilo
<1>2. CuentaMovida(Aceptador, "avisa_alta")
  BY <1>1, CuentaPasa DEF AceptarWorker
<1> QED
  BY <1>2 DEF CuentaMovida, AceptarWorker, Avisando, Encolando, Evaluando

\* Every step leaves as many without token as there were, but for two: the
\* scheduler throws both tokens away when it chooses no query; and a thread that
\* is started while it still posts (none is: Master_lugares) would stop counting.
Desperdicia(dW, dQ) == PlanElige /\ planif'.q = NoQuery /\ Sobran(dW + 1, dQ + 1)'
Interrumpe == /\ ConfirmarWorker /\ hilo[hilo[Aceptador].w].pc # "inactivo"
              /\ \E dW, dQ \in Nat : Sobran(dW, dQ)'

\* A step keeps what is left over, but for the two that do not.
LEMMA SobranPaso ==
    ASSUME Tipos, [Next]_vars, NEW dW \in Nat, NEW dQ \in Nat, Sobran(dW, dQ)
    PROVE  Sobran(dW, dQ)' \/ Desperdicia(dW, dQ) \/ Interrumpe
<1>t. /\ semQuery \in Nat /\ semWorker \in Nat
      /\ Len(colaLibres) \in Nat /\ Len(colaReady) \in Nat
  BY DEF Tipos, TypeOK
<1>c. ConTokens(semWorker, semQuery, planif.pc, PorAvisar, PorEncolar,
                Len(colaLibres), Len(colaReady), dW, dQ)
  BY TokensCuentas
<1>1. CASE PlanEsperaQuery
  <2>1. PorAvisar' = PorAvisar /\ PorEncolar' = PorEncolar
    BY <1>1, SinMover DEF PlanEsperaQuery
  <2>2. planif'.pc = "espera_worker"
    BY <1>1 DEF Tipos, TypeOK, RegPlanif, PlanEsperaQuery
  <2>3. ConTokens(semWorker', semQuery', planif'.pc, PorAvisar', PorEncolar',
                 Len(colaLibres'), Len(colaReady'), dW, dQ)
    BY <1>t, <1>c, <1>1, PorNat, <2>1, <2>2 DEF ConTokens, PlanEsperaQuery,
       colas, sems
  <2> QED
    BY <2>3, TokensCuentas
<1>2. CASE PlanEsperaWorker
  <2>1. PorAvisar' = PorAvisar /\ PorEncolar' = PorEncolar
    BY <1>2, SinMover DEF PlanEsperaWorker
  <2>2. planif'.pc = "elige"
    BY <1>2 DEF Tipos, TypeOK, RegPlanif, PlanEsperaWorker
  <2>3. ConTokens(semWorker', semQuery', planif'.pc, PorAvisar', PorEncolar',
                 Len(colaLibres'), Len(colaReady'), dW, dQ)
    BY <1>t, <1>c, <1>2, PorNat, <2>1, <2>2 DEF ConTokens, PlanEsperaWorker,
       colas, sems
  <2> QED
    BY <2>3, TokensCuentas
<1>3. CASE PlanElige
  <2>1. /\ PorAvisar' = PorAvisar /\ PorEncolar' = PorEncolar
        /\ UNCHANGED <<semQuery, semWorker, colaLibres>> /\ planif.pc = "elige"
    BY <1>3, SinMover DEF PlanElige, sems
  <2>2. \/ planif'.pc = "espera_query" /\ Len(colaReady') = Len(colaReady) /\ planif'.q = NoQuery
        \/ planif'.pc = "saca_worker" /\ Len(colaReady') = Len(colaReady) - 1
    BY <1>3, RestoPrioridadTipo, RestoFIFOTipo, MasterAssumption DEF Tipos,
       TypeOK, RegPlanif, PlanElige
  <2>3. CASE planif'.pc = "espera_query" /\ Len(colaReady') = Len(colaReady) /\ planif'.q = NoQuery
    <3>1. ConTokens(semWorker', semQuery', planif'.pc, PorAvisar', PorEncolar',
                    Len(colaLibres'), Len(colaReady'), dW + 1, dQ + 1)
      BY <1>t, <1>c, PorNat, <2>1, <2>3 DEF ConTokens
    <3>2. Sobran(dW + 1, dQ + 1)'
      BY <3>1, TokensCuentas
    <3> QED
      BY <1>3, <2>3, <3>2 DEF Desperdicia
  <2>4. CASE planif'.pc = "saca_worker" /\ Len(colaReady') = Len(colaReady) - 1
    <3>1. ConTokens(semWorker', semQuery', planif'.pc, PorAvisar', PorEncolar',
                    Len(colaLibres'), Len(colaReady'), dW, dQ)
      BY <1>t, <1>c, PorNat, <2>1, <2>4 DEF ConTokens
    <3> QED
      BY <3>1, TokensCuentas
  <2> QED
    BY <2>2, <2>3, <2>4
<1>4. CASE PlanSacaWorker
  <2>1. PorAvisar' = PorAvisar /\ PorEncolar' = PorEncolar
    BY <1>4, SinMover DEF PlanSacaWorker
  <2>2. \/ /\ planif'.pc = "espera_query" /\ colaLibres' = colaLibres
           /\ colaReady' = Append(colaReady, planif.q)
        \/ /\ planif'.pc = "asigna" /\ colaReady' = colaReady
           /\ colaLibres' = Tail(colaLibres) /\ colaLibres # <<>>
    BY <1>4 DEF Tipos, TypeOK, RegPlanif, PlanSacaWorker
  <2>3. \A s \in Seq(Worker) : s # <<>> => Len(Tail(s)) = Len(s) - 1
    OBVIOUS
  <2>4. planif.q \in Query
    BY <1>4 DEF Tipos, PlanifPleno, PlanSacaWorker
  <2>5. Len(Append(colaReady, planif.q)) = Len(colaReady) + 1
    BY <2>4 DEF Tipos, TypeOK
  <2>6. UNCHANGED <<semQuery, semWorker>> /\ planif.pc = "saca_worker"
    BY <1>4 DEF PlanSacaWorker, sems
  <2>7. \/ /\ planif'.pc = "espera_query" /\ Len(colaLibres) = 0
        \/ /\ planif'.pc = "asigna" /\ Len(colaReady') = Len(colaReady)
           /\ Len(colaLibres') = Len(colaLibres) - 1
    BY <1>4, <2>2, <2>3 DEF Tipos, TypeOK, PlanSacaWorker
  <2>8. ConTokens(semWorker', semQuery', planif'.pc, PorAvisar', PorEncolar',
                 Len(colaLibres'), Len(colaReady'), dW, dQ)
    BY <1>t, <1>c, PorNat, <2>1, <2>6, <2>7 DEF ConTokens
  <2> QED
    BY <2>8, TokensCuentas
<1>5. CASE PlanAsigna
  <2>1. PorAvisar' = PorAvisar /\ PorEncolar' = PorEncolar
    BY <1>5, SinMover DEF PlanAsigna
  <2>2. planif'.pc = "encola_exec"
    BY <1>5 DEF Tipos, TypeOK, RegPlanif, PlanAsigna
  <2>3. ConTokens(semWorker', semQuery', planif'.pc, PorAvisar', PorEncolar',
                 Len(colaLibres'), Len(colaReady'), dW, dQ)
    BY <1>t, <1>c, <1>5, PorNat, <2>1, <2>2 DEF ConTokens, PlanAsigna, colas,
       sems
  <2> QED
    BY <2>3, TokensCuentas
<1>6. CASE PlanEncolaExec
  <2>1. PorAvisar' = PorAvisar /\ PorEncolar' = PorEncolar
    BY <1>6, SinMover DEF PlanEncolaExec
  <2>2. planif'.pc = "envia"
    BY <1>6 DEF Tipos, TypeOK, RegPlanif, PlanEncolaExec
  <2>3. ConTokens(semWorker', semQuery', planif'.pc, PorAvisar', PorEncolar',
                 Len(colaLibres'), Len(colaReady'), dW, dQ)
    BY <1>t, <1>c, <1>6, PorNat, <2>1, <2>2 DEF ConTokens, PlanEncolaExec,
       colas, sems
  <2> QED
    BY <2>3, TokensCuentas
<1>7. CASE PlanEnvia
  <2>1. PorAvisar' = PorAvisar /\ PorEncolar' = PorEncolar
    BY <1>7, SinMover DEF PlanEnvia
  <2>2. planif'.pc = "espera_query"
    BY <1>7 DEF Tipos, TypeOK, RegPlanif, PlanEnvia
  <2>3. ConTokens(semWorker', semQuery', planif'.pc, PorAvisar', PorEncolar',
                 Len(colaLibres'), Len(colaReady'), dW, dQ)
    BY <1>t, <1>c, <1>7, PorNat, <2>1, <2>2 DEF ConTokens, PlanEnvia, colas,
       sems
  <2> QED
    BY <2>3, TokensCuentas
<1>8. ASSUME NEW h \in Hilo, EvalLibres(h)
      PROVE  Sobran(dW, dQ)'
  <2>1. PorAvisar' = PorAvisar /\ PorEncolar' = PorEncolar
    BY <1>8, CuentaIr, PorNat, MasterAssumption DEF Tipos, EvalLibres,
       TrasEvaluar, CuentaMovida, PasosHilo, Avisando, Encolando, Evaluando
  <2>2. ConTokens(semWorker', semQuery', planif'.pc, PorAvisar', PorEncolar',
                 Len(colaLibres'), Len(colaReady'), dW, dQ)
    BY <1>t, <1>c, <1>8, PorNat, <2>1 DEF ConTokens, EvalLibres, colas, sems
  <2> QED
    BY <2>2, TokensCuentas
<1>9. ASSUME NEW h \in Hilo, EvalPeor(h)
      PROVE  Sobran(dW, dQ)'
  <2>1. hilo[h].pc = "ev_peor" /\ UNCHANGED <<colaReady, colaLibres, semQuery, semWorker, planif>>
    BY <1>9 DEF EvalPeor, colas, sems
  <2>2. CuentaMovida(h, "ev_buscar") \/ CuentaMovida(h, TrasEvaluar(h))
    BY <1>9, CuentaIr, CuentaPeor DEF Tipos, EvalPeor, TrasEvaluar, PasosHilo,
       Avisando, Encolando, Evaluando
  <2>3. PorAvisar' = PorAvisar /\ PorEncolar' = PorEncolar
    BY <2>1, <2>2, PorNat DEF TrasEvaluar, CuentaMovida, PasosHilo, Avisando,
       Encolando, Evaluando
  <2>4. ConTokens(semWorker', semQuery', planif'.pc, PorAvisar', PorEncolar',
                 Len(colaLibres'), Len(colaReady'), dW, dQ)
    BY <1>t, <1>c, PorNat, <2>1, <2>3 DEF ConTokens
  <2> QED
    BY <2>4, TokensCuentas
<1>10. ASSUME NEW h \in Hilo, EvalBuscar(h)
      PROVE  Sobran(dW, dQ)'
  <2>1. CuentaMovida(h, "ev_envia") \/ CuentaMovida(h, TrasEvaluar(h))
    BY <1>10, CuentaBuscar DEF Tipos, EvalBuscar, TrasEvaluar, PasosHilo,
       Avisando, Encolando, Evaluando
  <2>2. PorAvisar' = PorAvisar /\ PorEncolar' = PorEncolar
    BY <1>10, <2>1, PorNat DEF EvalBuscar, TrasEvaluar, CuentaMovida,
       PasosHilo, Avisando, Encolando, Evaluando
  <2>3. ConTokens(semWorker', semQuery', planif'.pc, PorAvisar', PorEncolar',
                 Len(colaLibres'), Len(colaReady'), dW, dQ)
    BY <1>t, <1>c, <1>10, PorNat, <2>1, <2>2 DEF ConTokens, EvalBuscar, colas,
       sems
  <2> QED
    BY <2>3, TokensCuentas
<1>11. ASSUME NEW h \in Hilo, EvalEnvia(h)
      PROVE  Sobran(dW, dQ)'
  <2>1. CuentaMovida(h, TrasEvaluar(h))
    BY <1>11, CuentaEnvia DEF Tipos, EvalEnvia, TrasEvaluar, PasosHilo,
       Avisando, Encolando, Evaluando
  <2>2. PorAvisar' = PorAvisar /\ PorEncolar' = PorEncolar
    BY <1>11, <2>1, PorNat DEF EvalEnvia, TrasEvaluar, CuentaMovida,
       PasosHilo, Avisando, Encolando, Evaluando
  <2>3. ConTokens(semWorker', semQuery', planif'.pc, PorAvisar', PorEncolar',
                 Len(colaLibres'), Len(colaReady'), dW, dQ)
    BY <1>t, <1>c, <1>11, PorNat, <2>1, <2>2 DEF ConTokens, EvalEnvia, colas,
       sems
  <2> QED
    BY <2>3, TokensCuentas
<1>12. ASSUME NEW h \in Hilo, Despierta(h)
      PROVE  Sobran(dW, dQ)'
  <2>1. h \notin HilosAging
    BY <1>12 DEF Tipos, HilosBien, HiloBien, PasosAging, Evaluando, Despierta
  <2>2. PorAvisar' = PorAvisar /\ PorEncolar' = PorEncolar - 1
    BY <1>12, <2>1, CuentaIr DEF Tipos, Despierta, CuentaMovida, PasosHilo,
       Avisando, Encolando, Evaluando
  <2>3. ConTokens(semWorker', semQuery', planif'.pc, PorAvisar', PorEncolar',
                 Len(colaLibres'), Len(colaReady'), dW, dQ)
    BY SMTT(30), <1>t, <1>c, <1>12, PorNat, <2>1, <2>2 DEF ConTokens, Despierta, colas,
       sems
  <2> QED
    BY <2>3, TokensCuentas
<1>13. ASSUME NEW a \in HilosAging, Envejece(a)
      PROVE  Sobran(dW, dQ)'
  <2>1. a \in Hilo /\ NoQuery \in QueryN
    BY DEF Hilo, QueryN
  <2>2. PorAvisar' = PorAvisar /\ PorEncolar' = PorEncolar
    BY <1>13, <2>1, CuentaIr, PorNat DEF Tipos, Envejece, CuentaMovida,
       PasosHilo, Avisando, Encolando, Evaluando
  <2>3. ConTokens(semWorker', semQuery', planif'.pc, PorAvisar', PorEncolar',
                 Len(colaLibres'), Len(colaReady'), dW, dQ)
    BY <1>t, <1>c, <1>13, PorNat, <2>1, <2>2 DEF ConTokens, Envejece, colas,
       sems
  <2> QED
    BY <2>3, TokensCuentas
<1>14. ASSUME NEW q \in Query, AceptarQuery(q)
      PROVE  Sobran(dW, dQ)'
  <2>1. Aceptador \in Hilo \ HilosAging
    BY MasterAssumption DEF Hilo
  <2>2. PorAvisar' = PorAvisar /\ PorEncolar' = PorEncolar + 1
    BY <1>14, <2>1, CuentaEncolar DEF Tipos, AceptarQuery, PasosHilo,
       Avisando, Encolando, Evaluando
  <2>3. Len(colaReady') = Len(colaReady) + 1
    BY <1>14, EncolarCola DEF Tipos, TypeOK, AceptarQuery
  <2>4. ConTokens(semWorker', semQuery', planif'.pc, PorAvisar', PorEncolar',
                 Len(colaLibres'), Len(colaReady'), dW, dQ)
    BY <1>t, <1>c, <1>14, PorNat, <2>1, <2>2, <2>3 DEF ConTokens,
       AceptarQuery, colas, sems
  <2> QED
    BY <2>4, TokensCuentas
<1>15. ASSUME NEW w \in Worker, AceptarWorker(w)
      PROVE  Sobran(dW, dQ)'
  <2>1. Aceptador \in Hilo \ HilosAging
    BY MasterAssumption DEF Hilo
  <2>2. PorAvisar' = PorAvisar + 1 /\ PorEncolar' = PorEncolar
    BY <1>15, <2>1, CuentaAlta DEF Tipos, AceptarWorker, PasosHilo, Avisando,
       Encolando, Evaluando
  <2>3. Len(colaLibres') = Len(colaLibres) + 1
    BY <1>15 DEF Tipos, TypeOK, AceptarWorker
  <2>4. UNCHANGED <<semWorker, semQuery, planif, colaReady>>
    BY <1>15 DEF AceptarWorker, sems
  <2>5. ConTokens(semWorker', semQuery', planif'.pc, PorAvisar', PorEncolar',
                 Len(colaLibres'), Len(colaReady'), dW, dQ)
    BY <1>t, <1>c, PorNat, <2>2, <2>3, <2>4 DEF ConTokens
  <2> QED
    BY <2>5, TokensCuentas
<1>16. CASE ResponderQC
  <2>1. Aceptador \in Hilo \ HilosAging /\ NoQuery \in QueryN
    BY MasterAssumption DEF Hilo, QueryN
  <2>2. PorAvisar' = PorAvisar /\ PorEncolar' = PorEncolar
    BY <1>16, <2>1, CuentaIr, PorNat DEF Tipos, ResponderQC, CuentaMovida,
       PasosHilo, Avisando, Encolando, Evaluando
  <2>3. ConTokens(semWorker', semQuery', planif'.pc, PorAvisar', PorEncolar',
                 Len(colaLibres'), Len(colaReady'), dW, dQ)
    BY <1>t, <1>c, <1>16, PorNat, <2>1, <2>2 DEF ConTokens, ResponderQC,
       colas, sems
  <2> QED
    BY <2>3, TokensCuentas
<1>17. CASE AvisarAlta
  <2>1. Aceptador \in Hilo \ HilosAging
    BY MasterAssumption DEF Hilo
  <2>2. PorAvisar' = PorAvisar - 1 /\ PorEncolar' = PorEncolar
    BY <1>17, <2>1, CuentaIr DEF Tipos, AvisarAlta, CuentaMovida, PasosHilo,
       Avisando, Encolando, Evaluando
  <2>3. ConTokens(semWorker', semQuery', planif'.pc, PorAvisar', PorEncolar',
                 Len(colaLibres'), Len(colaReady'), dW, dQ)
    BY SMTT(30), <1>t, <1>c, <1>17, PorNat, <2>1, <2>2 DEF ConTokens, AvisarAlta, colas,
       sems
  <2> QED
    BY <2>3, TokensCuentas
<1>18. CASE ConfirmarWorker
  <2>1. Aceptador \in Hilo \ HilosAging /\ hilo[Aceptador].w \in Worker
    BY <1>18, MasterAssumption DEF Tipos, HilosBien, HiloBien,
       ConfirmarWorker, Hilo
  <2>2. /\ \A x \in Hilo : hilo[x] \in RegHilo
        /\ hilo[Aceptador].pc = "confirma"
        /\ UNCHANGED <<semQuery, semWorker, colaLibres, colaReady, planif>>
    BY <1>18 DEF Tipos, HilosBien, ConfirmarWorker, colas, sems
  <2>3. \A x \in Hilo : \/ hilo'[x].pc = hilo[x].pc
                         \/ /\ hilo'[x].pc \in {"inactivo", "escucha"}
                            /\ x = Aceptador \/ x = hilo[Aceptador].w
    BY <1>18, <2>1, <2>2 DEF Tipos, HilosBien, RegHilo, ConfirmarWorker
  <2>4. CASE hilo[hilo[Aceptador].w].pc = "inactivo"
    <3>1. PorAvisar' = PorAvisar /\ PorEncolar' = PorEncolar
      BY <2>2, <2>3, <2>4, CuentaNoCambia DEF Avisando, Encolando, Evaluando
    <3>2. ConTokens(semWorker', semQuery', planif'.pc, PorAvisar', PorEncolar',
                   Len(colaLibres'), Len(colaReady'), dW, dQ)
      BY <1>c, <2>2, <3>1 DEF ConTokens
    <3> QED
      BY <3>2, TokensCuentas
  <2>5. CASE hilo[hilo[Aceptador].w].pc # "inactivo"
    <3>1. PorAvisar' <= PorAvisar /\ PorEncolar' <= PorEncolar
      BY <2>3, CuentaNoCrece DEF Tipos, Avisando, Encolando, Evaluando
    <3>2. PICK eW \in Nat, eQ \in Nat :
              PorAvisar' + eW = PorAvisar + dW /\ PorEncolar' + eQ = PorEncolar + dQ
      <4>1. \A x, y, d \in Nat : y <= x => \E e \in Nat : y + e = x + d
        <5>1. \A x, y, d \in Nat : y <= x => (x - y) + d \in Nat /\ y + ((x - y) + d) = x + d
          OBVIOUS
        <5> QED
          BY <5>1
      <4>2. /\ \E e \in Nat : PorAvisar' + e = PorAvisar + dW
            /\ \E e \in Nat : PorEncolar' + e = PorEncolar + dQ
        BY <3>1, <4>1, PorNat
      <4> QED
        BY <4>2
    <3>3. ConTokens(semWorker', semQuery', planif'.pc, PorAvisar', PorEncolar',
                   Len(colaLibres'), Len(colaReady'), eW, eQ)
      <4>1. ConTokens(semWorker, semQuery, planif.pc, PorAvisar', PorEncolar',
                      Len(colaLibres), Len(colaReady), eW, eQ)
        <5>1. PICK u \in Nat, v \in Nat :
                  /\ u = IF planif.pc \in {"elige", "saca_worker"} THEN 1 ELSE 0
                  /\ v = IF planif.pc \in {"espera_worker", "elige"} THEN 1 ELSE 0
          OBVIOUS
        <5>2. PorAvisar \in Nat /\ PorEncolar \in Nat /\ PorAvisar' \in Nat /\ PorEncolar' \in Nat
          BY PorNat
        <5>3. /\ semWorker + u + PorAvisar + dW = Len(colaLibres)
              /\ semQuery + v + PorEncolar + dQ = Len(colaReady)
          BY <1>c, <5>1 DEF ConTokens
        <5>4. semWorker + u + PorAvisar' + eW = Len(colaLibres)
          <6>1. semWorker \in Int /\ u \in Int /\ PorAvisar \in Int /\ PorAvisar' \in Int /\ dW \in Int /\ eW \in Int
            BY <1>t, <5>1, <5>2
          <6>2. semWorker + u + PorAvisar + dW = (semWorker + u) + (PorAvisar + dW)
            BY <6>1
          <6>3. semWorker + u + PorAvisar' + eW = (semWorker + u) + (PorAvisar' + eW)
            BY <6>1
          <6> QED
            BY <3>2, <5>3, <6>2, <6>3
        <5>5. semQuery + v + PorEncolar' + eQ = Len(colaReady)
          <6>1. semQuery \in Int /\ v \in Int /\ PorEncolar \in Int /\ PorEncolar' \in Int /\ dQ \in Int /\ eQ \in Int
            BY <1>t, <5>1, <5>2
          <6>2. semQuery + v + PorEncolar + dQ = (semQuery + v) + (PorEncolar + dQ)
            BY <6>1
          <6>3. semQuery + v + PorEncolar' + eQ = (semQuery + v) + (PorEncolar' + eQ)
            BY <6>1
          <6> QED
            BY <3>2, <5>3, <6>2, <6>3
        <5> QED
          BY <5>1, <5>4, <5>5 DEF ConTokens
      <4>2. /\ semWorker' = semWorker /\ semQuery' = semQuery /\ planif' = planif
            /\ colaLibres' = colaLibres /\ colaReady' = colaReady
        BY <2>2
      <4> QED
        BY <4>1, <4>2 DEF ConTokens
    <3>4. Sobran(eW, eQ)'
      BY <3>3, TokensCuentas
    <3> QED
      BY <1>18, <2>5, <3>4 DEF Interrumpe
  <2> QED
    BY <2>4, <2>5
<1>19. ASSUME NEW w \in Worker, RecibirFin(w)
      PROVE  Sobran(dW, dQ)'
  <2>1. w \in Hilo /\ w \notin HilosAging
    BY MasterAssumption DEF Hilo
  <2>2. Head(aMaster[w]) \in MsgAMaster
    BY <1>19, CanalSaca DEF Tipos, TypeOK, RecibirFin, Llega
  <2>3. Head(aMaster[w]).q \in QueryN
    BY <2>2 DEF MsgAMaster, QueryN
  <2>4. PorAvisar' = PorAvisar /\ PorEncolar' = PorEncolar
    BY <1>19, <2>1, <2>3, CuentaIr, PorNat DEF Tipos, RecibirFin, Llega,
       CuentaMovida, PasosHilo, Avisando, Encolando, Evaluando
  <2>5. ConTokens(semWorker', semQuery', planif'.pc, PorAvisar', PorEncolar',
                 Len(colaLibres'), Len(colaReady'), dW, dQ)
    BY <1>t, <1>c, <1>19, PorNat, <2>1, <2>2, <2>3, <2>4 DEF ConTokens,
       RecibirFin, colas, sems
  <2> QED
    BY <2>5, TokensCuentas
<1>20. ASSUME NEW w \in Worker, AvisarFin(w)
      PROVE  Sobran(dW, dQ)'
  <2>1. w \in Hilo /\ w \notin HilosAging
    BY MasterAssumption DEF Hilo
  <2>2. PorAvisar' = PorAvisar /\ PorEncolar' = PorEncolar
    BY <1>20, <2>1, CuentaIr, PorNat DEF Tipos, AvisarFin, CuentaMovida,
       PasosHilo, Avisando, Encolando, Evaluando
  <2>3. ConTokens(semWorker', semQuery', planif'.pc, PorAvisar', PorEncolar',
                 Len(colaLibres'), Len(colaReady'), dW, dQ)
    BY <1>t, <1>c, <1>20, PorNat, <2>1, <2>2 DEF ConTokens, AvisarFin, colas,
       sems
  <2> QED
    BY <2>3, TokensCuentas
<1>21. ASSUME NEW w \in Worker, RecibirDesalojo(w)
      PROVE  Sobran(dW, dQ)'
  <2>1. w \in Hilo /\ w \notin HilosAging
    BY MasterAssumption DEF Hilo
  <2>2. Head(aMaster[w]) \in MsgAMaster
    BY <1>21, CanalSaca DEF Tipos, TypeOK, RecibirDesalojo, Llega
  <2>3. Head(aMaster[w]).q \in QueryN
    BY <2>2 DEF MsgAMaster, QueryN
  <2>4. PorAvisar' = PorAvisar /\ PorEncolar' = PorEncolar
    BY <1>21, <2>1, <2>3, CuentaIr, PorNat DEF Tipos, RecibirDesalojo, Llega,
       CuentaMovida, PasosHilo, Avisando, Encolando, Evaluando
  <2>5. ConTokens(semWorker', semQuery', planif'.pc, PorAvisar', PorEncolar',
                 Len(colaLibres'), Len(colaReady'), dW, dQ)
    BY <1>t, <1>c, <1>21, PorNat, <2>1, <2>2, <2>3, <2>4 DEF ConTokens,
       RecibirDesalojo, colas, sems
  <2> QED
    BY <2>5, TokensCuentas
<1>22. ASSUME NEW w \in Worker, Reencolar(w)
      PROVE  Sobran(dW, dQ)'
  <2>1. w \in Hilo \ HilosAging
    BY MasterAssumption DEF Hilo
  <2>2. hilo[w].q \in Query
    BY <1>22, <2>1 DEF Tipos, HilosBien, HiloBien, Reencolar
  <2>3. PorAvisar' = PorAvisar /\ PorEncolar' = PorEncolar + 1
    BY <1>22, <2>1, <2>2, CuentaEncolar DEF Tipos, Reencolar, PasosHilo,
       Avisando, Encolando, Evaluando
  <2>4. Len(colaReady') = Len(colaReady) + 1
    BY <1>22, <2>2, EncolarCola DEF Tipos, TypeOK, Reencolar
  <2>5. ConTokens(semWorker', semQuery', planif'.pc, PorAvisar', PorEncolar',
                 Len(colaLibres'), Len(colaReady'), dW, dQ)
    BY <1>t, <1>c, <1>22, PorNat, <2>1, <2>2, <2>3, <2>4 DEF ConTokens,
       Reencolar, colas, sems
  <2> QED
    BY <2>5, TokensCuentas
<1>23. ASSUME NEW w \in Worker, SoltarWorker(w)
      PROVE  Sobran(dW, dQ)'
  <2>1. w \in Hilo /\ w \notin HilosAging /\ NoQuery \in QueryN
    BY MasterAssumption DEF Hilo, QueryN
  <2>2. PorAvisar' = PorAvisar + 1 /\ PorEncolar' = PorEncolar
    BY <1>23, <2>1, CuentaIr DEF Tipos, SoltarWorker, CuentaMovida, PasosHilo,
       Avisando, Encolando, Evaluando
  <2>3. Len(colaLibres') = Len(colaLibres) + 1
    BY <1>23 DEF Tipos, TypeOK, SoltarWorker
  <2>4. ConTokens(semWorker', semQuery', planif'.pc, PorAvisar', PorEncolar',
                 Len(colaLibres'), Len(colaReady'), dW, dQ)
    BY <1>t, <1>c, <1>23, PorNat, <2>1, <2>2, <2>3 DEF ConTokens,
       SoltarWorker, colas, sems
  <2> QED
    BY <2>4, TokensCuentas
<1>24. ASSUME NEW w \in Worker, AvisarLibre(w)
      PROVE  Sobran(dW, dQ)'
  <2>1. w \in Hilo /\ w \notin HilosAging
    BY MasterAssumption DEF Hilo
  <2>2. PorAvisar' = PorAvisar - 1 /\ PorEncolar' = PorEncolar
    BY <1>24, <2>1, CuentaIr DEF Tipos, AvisarLibre, CuentaMovida, PasosHilo,
       Avisando, Encolando, Evaluando
  <2>3. ConTokens(semWorker', semQuery', planif'.pc, PorAvisar', PorEncolar',
                 Len(colaLibres'), Len(colaReady'), dW, dQ)
    BY SMTT(30), <1>t, <1>c, <1>24, PorNat, <2>1, <2>2 DEF ConTokens, AvisarLibre,
       colas, sems
  <2> QED
    BY <2>3, TokensCuentas
<1>25. ASSUME NEW w \in Worker, BajaWorker(w)
      PROVE  Sobran(dW, dQ)'
  <2>1. w \in Hilo /\ w \notin HilosAging
    BY MasterAssumption DEF Hilo
  <2>2. PorAvisar' = PorAvisar /\ PorEncolar' = PorEncolar
    BY <1>25, <2>1, CuentaIr, PorNat DEF Tipos, BajaWorker, CuentaMovida,
       PasosHilo, Avisando, Encolando, Evaluando
  <2>3. ConTokens(semWorker', semQuery', planif'.pc, PorAvisar', PorEncolar',
                 Len(colaLibres'), Len(colaReady'), dW, dQ)
    BY <1>t, <1>c, <1>25, PorNat, <2>1, <2>2 DEF ConTokens, BajaWorker, colas,
       sems
  <2> QED
    BY <2>3, TokensCuentas
<1>26. ASSUME NEW w \in Worker, BajaLimpia(w)
      PROVE  Sobran(dW, dQ)'
  <2>1. w \in Hilo /\ w \notin HilosAging
    BY MasterAssumption DEF Hilo
  <2>2. PorAvisar' = PorAvisar /\ PorEncolar' = PorEncolar
    BY <1>26, <2>1, CuentaIr, PorNat DEF Tipos, BajaLimpia, CuentaMovida,
       PasosHilo, Avisando, Encolando, Evaluando
  <2>3. ConTokens(semWorker', semQuery', planif'.pc, PorAvisar', PorEncolar',
                 Len(colaLibres'), Len(colaReady'), dW, dQ)
    BY <1>t, <1>c, <1>26, PorNat, <2>1, <2>2 DEF ConTokens, BajaLimpia, colas,
       sems
  <2> QED
    BY <2>3, TokensCuentas
<1>27. ASSUME UNCHANGED <<colaReady, colaLibres, semQuery, semWorker, planif, hilo>>
      PROVE  Sobran(dW, dQ)'
  BY <1>27, <1>c, SinMover, TokensCuentas
<1>28. ASSUME NEW w \in Worker, RecibirLectura(w)
      PROVE  Sobran(dW, dQ)'
  BY <1>28, <1>27 DEF RecibirLectura, colas, sems
<1>29. ASSUME NEW q \in Query, BajaQC(q)
      PROVE  Sobran(dW, dQ)'
  BY <1>29, <1>27 DEF BajaQC, colas, sems
<1>30. ASSUME NEW w \in Worker, WorkerSaludo(w)
      PROVE  Sobran(dW, dQ)'
  BY <1>30, <1>27 DEF WorkerSaludo, colas, sems
<1>31. ASSUME NEW w \in Worker, WorkerRecibeDesalojo(w)
      PROVE  Sobran(dW, dQ)'
  BY <1>31, <1>27 DEF WorkerRecibeDesalojo, colas, sems
<1>32. ASSUME NEW w \in Worker, WorkerRecibeQuery(w)
      PROVE  Sobran(dW, dQ)'
  BY <1>32, <1>27 DEF WorkerRecibeQuery, colas, sems
<1>33. ASSUME NEW w \in Worker, NEW q \in Query, WorkerTermina(w, q)
      PROVE  Sobran(dW, dQ)'
  BY <1>33, <1>27 DEF WorkerTermina, colas, sems
<1>34. ASSUME NEW w \in Worker, NEW q \in Query, WorkerNoAbre(w, q)
      PROVE  Sobran(dW, dQ)'
  BY <1>34, <1>27 DEF WorkerNoAbre, colas, sems
<1>35. ASSUME NEW w \in Worker, NEW q \in Query, NEW pc \in 0..MaxPC, WorkerDesaloja(w, q, pc)
      PROVE  Sobran(dW, dQ)'
  BY <1>35, <1>27 DEF WorkerDesaloja, colas, sems
<1>36. ASSUME NEW w \in Worker, NEW q \in Query, WorkerLee(w, q)
      PROVE  Sobran(dW, dQ)'
  BY <1>36, <1>27 DEF WorkerLee, colas, sems
<1>37. ASSUME NEW w \in Worker, CaeWorker(w)
      PROVE  Sobran(dW, dQ)'
  BY <1>37, <1>27 DEF CaeWorker, colas, sems
<1>38. CASE UNCHANGED vars
  BY <1>38, <1>27 DEF vars, colas, sems
<1> QED
  BY <1>1, <1>2, <1>3, <1>4, <1>5, <1>6, <1>7, <1>8, <1>9, <1>10, <1>11,
     <1>12, <1>13, <1>14, <1>15, <1>16, <1>17, <1>18, <1>19, <1>20, <1>21,
     <1>22, <1>23, <1>24, <1>25, <1>26, <1>28, <1>29, <1>30, <1>31, <1>32,
     <1>33, <1>34, <1>35, <1>36, <1>37, <1>38 DEF Next, Planificador,
     Evaluador, AceptadorAvanza, AtenderWorker, WorkerEscucha, WorkerEjecuta

\* So the tokens never exceed the queues.
LEMMA TokensPaso == Tipos /\ Tokens /\ [Next]_vars => Tokens'
<1> SUFFICES ASSUME Tipos, Tokens, [Next]_vars PROVE Tokens'
  OBVIOUS
<1>1. TypeOK /\ TypeOK'
  BY TiposPaso DEF Tipos
<1>2. PICK dW \in Nat, dQ \in Nat : Sobran(dW, dQ)
  BY <1>1, TokensSobran DEF HaySobra
<1>3. HaySobra'
  BY <1>2, SobranPaso DEF HaySobra, Desperdicia, Interrumpe
<1>4. TypeOK' => (Tokens' <=> HaySobra')
  BY TokensSobran, PTL
<1> QED
  BY <1>1, <1>3, <1>4

\* Each token stands for a worker in cola_workers_libres: TokensWorker.
THEOREM TokensDeWorker == Spec => []TokensWorker
<1>1. Tipos /\ Tokens => TokensWorker
  BY DEF Tokens
<1> QED
  BY <1>1, TiposInicial, TiposPaso, TokensInicial, TokensPaso, PTL DEF Spec

\* Each token stands for a query in cola_ready: TokensQuery.
THEOREM TokensDeQuery == Spec => []TokensQuery
<1>1. Tipos /\ Tokens => TokensQuery
  BY DEF Tokens
<1> QED
  BY <1>1, TiposInicial, TiposPaso, TokensInicial, TokensPaso, PTL DEF Spec

\* A token in the scheduler's hand is a queue that is not empty.
LEMMA TokensSinEspera == Tipos /\ Tokens => SinEsperaEnVano
<1> SUFFICES ASSUME Tipos, Tokens PROVE SinEsperaEnVano
  OBVIOUS
<1>1. /\ semQuery \in Nat /\ semWorker \in Nat
      /\ colaLibres \in Seq(Worker) /\ colaReady \in Seq(Query)
  BY DEF Tipos, TypeOK
<1>2. PICK dW \in Nat, dQ \in Nat :
          ConTokens(semWorker, semQuery, planif.pc, PorAvisar, PorEncolar,
                    Len(colaLibres), Len(colaReady), dW, dQ)
  BY TokensSobran, TokensCuentas DEF Tipos, HaySobra
<1>3. planif.pc = "saca_worker" => Len(colaLibres) >= 1
  BY <1>1, <1>2, PorNat DEF ConTokens
<1>4. planif.pc = "elige" => Len(colaReady) >= 1
  BY <1>1, <1>2, PorNat DEF ConTokens
<1>5. Len(<<>>) = 0
  OBVIOUS
<1> QED
  BY <1>1, <1>3, <1>4, <1>5 DEF SinEsperaEnVano

\* Holding both tokens the scheduler finds neither queue empty, for any number
\* of threads, queries, workers and disconnections: SinEsperaEnVano.
THEOREM NuncaEsperaEnVano == Spec => []SinEsperaEnVano
BY TiposInicial, TiposPaso, TokensInicial, TokensPaso, TokensSinEspera, PTL DEF Spec

=============================================================================
