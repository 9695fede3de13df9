------------------------------- MODULE Master -------------------------------
(***************************************************************************)
(* The Master of src/master/src/master.c: the short-term scheduler, the    *)
(* thread that accepts connections, one thread per connected Worker, and   *)
(* one aging thread per query put back in READY, all over three queues,    *)
(* two counting semaphores and the unlocked fields of t_query and          *)
(* t_worker.  A step is one critical section (or one run of unlocked       *)
(* assignments that no other thread can tell apart), so every interleaving *)
(* of the threads between two mutexes is a behaviour here.                 *)
(*                                                                         *)
(* The Workers and the Query Controls are other processes.  They appear as *)
(* the least that the Master can observe of them: TCP connections as FIFO  *)
(* channels, a Worker that answers each query it was given, and either one *)
(* going away at any moment.                                               *)
(*                                                                         *)
(* Left out because nothing ever reads them: t_worker.libre, cola_exit,    *)
(* cond_aging and mutex_aging.  Sockets are identified with their peers:   *)
(* file descriptor numbers and their reuse are not represented.            *)
(***************************************************************************)
EXTENDS Integers, Sequences, FiniteSets

CONSTANTS
    Query,             \* queries the Query Controls will submit
    Worker,            \* Worker processes
    HilosAging,        \* slots for live aging threads; {} when TIEMPO_AGING = 0
    Aceptador,         \* the thread of manejar_conexiones_entrantes
    NoQuery,           \* id_query = -1, or a NULL t_query*
    NoWorker,          \* a NULL t_worker*
    Prioridades,       \* ALGORITMO_PLANIFICACION is "PRIORIDADES" (else FIFO)
    PrioridadInicial,  \* priority each Query Control asks for
    YaConectados,      \* Workers whose handshake is over at the start, in order
    SinArchivo,        \* queries whose script some Worker may not find
    ConError,          \* queries whose script fails in the Worker
    MaxPC,             \* bound: largest program counter a Worker reports
    MaxLecturas,       \* bound: READ results a query produces
    MaxMensajes,       \* bound: messages in flight towards a Worker
    MaxBajasWorker,    \* bound: Workers that go away
    MaxBajasQC         \* bound: Query Controls the user interrupts

ASSUME MasterAssumption ==
    /\ NoQuery \notin Query
    /\ NoWorker \notin Worker
    /\ IsFiniteSet(Query) /\ IsFiniteSet(Worker) /\ IsFiniteSet(HilosAging)
    /\ Aceptador \notin Worker \cup HilosAging
    /\ Worker \cap HilosAging = {}
    /\ Prioridades \in BOOLEAN
    /\ PrioridadInicial \in [Query -> Nat]
    /\ YaConectados \in Seq(Worker)
    /\ \A i, j \in DOMAIN YaConectados : i # j => YaConectados[i] # YaConectados[j]
    /\ MaxPC \in Nat /\ MaxLecturas \in Nat /\ MaxMensajes \in Nat
    /\ MaxBajasWorker \in Nat /\ MaxBajasQC \in Nat

VARIABLES
    colaReady,     \* cola_ready, oldest first
    colaExec,      \* cola_exec; only membership matters, see PeoresEnExec
    colaLibres,    \* cola_workers_libres
    listaWorkers,  \* lista_workers, in connection order
    semQuery,      \* sem_query_ready
    semWorker,     \* sem_worker_disponible
    estado,        \* t_query.estado; "NUEVA" before the query exists
    prioridad,     \* t_query.prioridad
    pcQuery,       \* t_query.pc
    idQuery,       \* t_worker.id_query
    planif,        \* thread of planificador_corto_plazo: where it is, its q and w
    hilo,          \* every other thread: where it is, its q, peor and w
    aWorker,       \* messages in flight, Master to Worker
    aMaster,       \* messages in flight, Worker to Master
    aQC,           \* every message sent to the Query Control of each query
    etapa,         \* life of each Worker process
    enCurso,       \* queries each Worker process was given and has not answered
    desalojo,      \* desalojo_solicitado of each Worker process
    qcIdos         \* queries whose Query Control was interrupted

colas == <<colaReady, colaExec, colaLibres, listaWorkers>>
sems  == <<semQuery, semWorker>>
datos == <<estado, prioridad, pcQuery, idQuery>>
procesos == <<etapa, enCurso, desalojo, qcIdos>>
vars == <<colas, sems, datos, planif, hilo, aWorker, aMaster, aQC, procesos>>

Hilo    == {Aceptador} \cup Worker \cup HilosAging
QueryN  == Query \cup {NoQuery}
WorkerN == Worker \cup {NoWorker}

PasosPlanif == {"espera_query", "espera_worker", "elige", "saca_worker",
                "asigna", "encola_exec", "envia"}
Evaluando   == {"ev_libres", "ev_peor", "ev_buscar", "ev_envia"}
PasosHilo   == Evaluando \cup
    {"inactivo", "despierta", "responde", "avisa_alta", "confirma",
     "escucha", "fin_qc", "reencola", "suelta", "avisa", "baja_limpia",
     "muerto", "duerme"}

MsgAWorker == [op : {"INICIA"}, q : Query, pc : Nat]
              \cup [op : {"WORKER_OK", "DESALOJAR"}, q : QueryN, pc : Nat]
MsgAMaster == [op : {"LECTURA", "FIN", "DESALOJAR"}, q : Query, pc : Nat]
MsgAQC     == {"QUERY_RECIBIDA", "READ", "FIN_OK", "FIN_ERROR"}

RegPlanif == [pc : PasosPlanif, q : QueryN, w : WorkerN]
RegHilo   == [pc : PasosHilo, q : QueryN, peor : QueryN, w : WorkerN]

\* Types of every variable.
TypeOK ==
    /\ colaReady \in Seq(Query)
    /\ colaExec \in SUBSET Query
    /\ colaLibres \in Seq(Worker)
    /\ listaWorkers \in Seq(Worker)
    /\ semQuery \in Nat
    /\ semWorker \in Nat
    /\ estado \in [Query -> {"NUEVA", "READY", "EXEC", "EXIT"}]
    /\ prioridad \in [Query -> Nat]
    /\ pcQuery \in [Query -> Nat]
    /\ idQuery \in [Worker -> QueryN]
    /\ planif \in RegPlanif
    /\ hilo \in [Hilo -> RegHilo]
    /\ aWorker \in [Worker -> Seq(MsgAWorker)]
    /\ aMaster \in [Worker -> Seq(MsgAMaster)]
    /\ aQC \in [Query -> Seq(MsgAQC)]
    /\ etapa \in [Worker -> {"fuera", "esperando_ok", "listo", "desincronizado", "caido"}]
    /\ enCurso \in [Worker -> SUBSET Query]
    /\ desalojo \in [Worker -> BOOLEAN]
    /\ qcIdos \in SUBSET Query

-----------------------------------------------------------------------------
(* Shared helpers.                                                         *)

\* A process that is gone receives nothing: send() on a closed socket fails
\* and enviar_paquete ignores it.
EnviarAWorker(w, m) ==
    aWorker' = IF etapa[w] = "caido" THEN aWorker
               ELSE [aWorker EXCEPT ![w] = Append(@, m)]

EnviarAQC(q, m) == aQC' = [aQC EXCEPT ![q] = Append(@, m)]

\* Thread h moves on, alone; with a query in its local q.
Pasa(h, r) == hilo' = [hilo EXCEPT ![h] = r]
Ir(h, paso) == Pasa(h, [hilo[h] EXCEPT !.pc = paso])
IrCon(h, paso, q) == Pasa(h, [hilo[h] EXCEPT !.pc = paso, !.q = q])

\* Where a thread goes once evaluar_desalojo_si_corresponde returns: an aging
\* thread goes back to sleep, the others are inside push_ready.
TrasEvaluar(h) == IF h \in HilosAging THEN "duerme" ELSE "despierta"

\* The READY queries of cola_ready as elegir_query_por_prioridad scans it, and
\* the positions at which it finds a better one than all before.
Candidatas == {i \in DOMAIN colaReady : estado[colaReady[i]] = "READY"}
Mejoras == {i \in Candidatas : \A j \in Candidatas :
                j < i => prioridad[colaReady[i]] < prioridad[colaReady[j]]}

Mayor(S) == CHOOSE i \in S : \A j \in S : j <= i
Menor(S) == CHOOSE i \in S : \A j \in S : i <= j

\* elegir_query_por_prioridad: the last improvement wins ...
ElegidaPrioridad ==
    IF Mejoras = {} THEN NoQuery ELSE colaReady[Mayor(Mejoras)]

\* Mutant: looks at the best query without taking it out.
RestoSinSacar == colaReady

\* ... and the queue is rebuilt from aux.  Visiting position t pushes into aux
\* the query that stops being the best there, if t is an improvement, and the
\* query at t if it is not; the first improvement pushes nothing.
RestoPrioridad ==
    IF Mejoras = {} THEN colaReady
    ELSE LET primera == Menor(Mejoras)
             A_aux(t) == IF t \in Mejoras
                         THEN colaReady[Mayor({i \in Mejoras : i < t})]
                         ELSE colaReady[t]
         IN  [k \in 1..(Len(colaReady) - 1) |->
                 IF k < primera THEN A_aux(k) ELSE A_aux(k + 1)]

ElegidaFIFO == IF colaReady = <<>> THEN NoQuery ELSE Head(colaReady)
RestoFIFO   == IF colaReady = <<>> THEN <<>> ELSE Tail(colaReady)

\* obtener_peor_query_en_exec: the code keeps the first of the queries with the
\* largest priority; here any of them.
EnExec == {q \in colaExec : estado[q] = "EXEC"}
PeoresEnExec == {q \in EnExec : \A r \in EnExec : prioridad[r] <= prioridad[q]}

\* buscar_worker_por_query_id: the first of lista_workers that claims the query.
WorkersCon(q) == {i \in DOMAIN listaWorkers : idQuery[listaWorkers[i]] = q}

-----------------------------------------------------------------------------
(* planificador_corto_plazo and asignar_query_a_worker.                    *)

PlanEsperaQuery ==
    /\ planif.pc = "espera_query"
    /\ semQuery > 0
    /\ semQuery' = semQuery - 1
    /\ planif' = [planif EXCEPT !.pc = "espera_worker"]
    /\ UNCHANGED <<colas, semWorker, datos, hilo, aWorker, aMaster, aQC, procesos>>

\* Mutant: sem_trywait for sem_wait.
PlanPruebaWorker ==
    /\ planif.pc = "espera_worker"
    /\ semWorker' = IF semWorker > 0 THEN semWorker - 1 ELSE semWorker
    /\ planif' = [planif EXCEPT !.pc = "elige"]
    /\ UNCHANGED <<colas, semQuery, datos, hilo, aWorker, aMaster, aQC, procesos>>

PlanEsperaWorker ==
    /\ planif.pc = "espera_worker"
    /\ semWorker > 0
    /\ semWorker' = semWorker - 1
    /\ planif' = [planif EXCEPT !.pc = "elige"]
    /\ UNCHANGED <<colas, semQuery, datos, hilo, aWorker, aMaster, aQC, procesos>>

\* With no query to schedule it goes round the loop: both tokens are spent.
PlanElige ==
    /\ planif.pc = "elige"
    /\ LET q == IF Prioridades THEN ElegidaPrioridad ELSE ElegidaFIFO
       IN  planif' = [planif EXCEPT
                         !.q  = q,
                         !.pc = IF q = NoQuery THEN "espera_query" ELSE "saca_worker"]
    /\ colaReady' = IF Prioridades THEN RestoPrioridad ELSE RestoFIFO
    /\ UNCHANGED <<colaExec, colaLibres, listaWorkers, sems, datos, hilo,
                   aWorker, aMaster, aQC, procesos>>

\* pop_worker_libre; without a worker the query goes back to the end of READY.
PlanSacaWorker ==
    /\ planif.pc = "saca_worker"
    /\ IF colaLibres = <<>>
       THEN /\ colaReady' = Append(colaReady, planif.q)
            /\ planif' = [planif EXCEPT !.pc = "espera_query", !.q = NoQuery]
            /\ UNCHANGED colaLibres
       ELSE /\ planif' = [planif EXCEPT !.pc = "asigna", !.w = Head(colaLibres)]
            /\ colaLibres' = Tail(colaLibres)
            /\ UNCHANGED colaReady
    /\ UNCHANGED <<colaExec, listaWorkers, sems, datos, hilo,
                   aWorker, aMaster, aQC, procesos>>

\* Mutant: the worker is not told apart from a free one.
PlanAsignaSinDuenio ==
    /\ planif.pc = "asigna"
    /\ estado' = [estado EXCEPT ![planif.q] = "EXEC"]
    /\ planif' = [planif EXCEPT !.pc = "encola_exec"]
    /\ UNCHANGED <<colas, sems, prioridad, pcQuery, idQuery, hilo,
                   aWorker, aMaster, aQC, procesos>>

\* The unlocked writes of asignar_query_a_worker.
PlanAsigna ==
    /\ planif.pc = "asigna"
    /\ estado' = [estado EXCEPT ![planif.q] = "EXEC"]
    /\ idQuery' = [idQuery EXCEPT ![planif.w] = planif.q]
    /\ planif' = [planif EXCEPT !.pc = "encola_exec"]
    /\ UNCHANGED <<colas, sems, prioridad, pcQuery, hilo, aWorker, aMaster, aQC, procesos>>

PlanEncolaExec ==
    /\ planif.pc = "encola_exec"
    /\ colaExec' = colaExec \cup {planif.q}
    /\ planif' = [planif EXCEPT !.pc = "envia"]
    /\ UNCHANGED <<colaReady, colaLibres, listaWorkers, sems, datos, hilo,
                   aWorker, aMaster, aQC, procesos>>

PlanEnvia ==
    /\ planif.pc = "envia"
    /\ EnviarAWorker(planif.w, [op |-> "INICIA", q |-> planif.q, pc |-> pcQuery[planif.q]])
    /\ planif' = [pc |-> "espera_query", q |-> NoQuery, w |-> NoWorker]
    /\ UNCHANGED <<colas, sems, datos, hilo, aMaster, aQC, procesos>>

Planificador ==
    \/ PlanEsperaQuery \/ PlanEsperaWorker \/ PlanElige \/ PlanSacaWorker
    \/ PlanAsigna \/ PlanEncolaExec \/ PlanEnvia

-----------------------------------------------------------------------------
(* push_ready and evaluar_desalojo_si_corresponde, run by the acceptor for *)
(* a new query, by a Worker's thread for an evicted one; aging threads run *)
(* only the evaluation.                                                    *)

\* The first half of push_ready: queue the query and, under PRIORIDADES, start
\* its aging thread.
EncolarReady(h, q) ==
    /\ estado' = [estado EXCEPT ![q] = "READY"]
    /\ colaReady' = Append(colaReady, q)
    /\ LET siguiente == [hilo[h] EXCEPT !.q = q,
                             !.pc = IF Prioridades THEN "ev_libres" ELSE "despierta"]
       IN  IF Prioridades /\ HilosAging # {}
           THEN \E a \in HilosAging :
                   /\ hilo[a].pc = "inactivo"
                   /\ hilo' = [hilo EXCEPT
                                   ![h] = siguiente,
                                   ![a] = [@ EXCEPT !.pc = "duerme", !.q = q]]
           ELSE Pasa(h, siguiente)

\* With a free worker there is nobody to evict.
EvalLibres(h) ==
    /\ hilo[h].pc = "ev_libres"
    /\ Ir(h, IF colaLibres # <<>> THEN TrasEvaluar(h) ELSE "ev_peor")
    /\ UNCHANGED <<colas, sems, datos, planif, aWorker, aMaster, aQC, procesos>>

EvalPeor(h) ==
    /\ hilo[h].pc = "ev_peor"
    /\ \/ /\ EnExec = {}
          /\ Ir(h, TrasEvaluar(h))
       \/ \E peor \in PeoresEnExec :
             Pasa(h, [hilo[h] EXCEPT !.pc = "ev_buscar", !.peor = peor])
    /\ UNCHANGED <<colas, sems, datos, planif, aWorker, aMaster, aQC, procesos>>

\* The comparison and the unlocked search of the victim's worker.
EvalBuscar(h) ==
    /\ hilo[h].pc = "ev_buscar"
    /\ IF \/ prioridad[hilo[h].q] >= prioridad[hilo[h].peor]
          \/ WorkersCon(hilo[h].peor) = {}
       THEN Pasa(h, [hilo[h] EXCEPT !.pc = TrasEvaluar(h), !.peor = NoQuery])
       ELSE Pasa(h, [hilo[h] EXCEPT
                        !.pc = "ev_envia",
                        !.w = listaWorkers[Menor(WorkersCon(hilo[h].peor))]])
    /\ UNCHANGED <<colas, sems, datos, planif, aWorker, aMaster, aQC, procesos>>

EvalEnvia(h) ==
    /\ hilo[h].pc = "ev_envia"
    /\ Len(aWorker[hilo[h].w]) < MaxMensajes
    /\ EnviarAWorker(hilo[h].w, [op |-> "DESALOJAR", q |-> hilo[h].peor, pc |-> 0])
    /\ Pasa(h, [hilo[h] EXCEPT !.pc = TrasEvaluar(h), !.peor = NoQuery, !.w = NoWorker])
    /\ UNCHANGED <<colas, sems, datos, planif, aMaster, aQC, procesos>>

\* Mutant: the eviction check wakes the scheduler too.
DespiertaDoble(h) ==
    /\ hilo[h].pc = "despierta"
    /\ semQuery' = semQuery + 2
    /\ Ir(h, IF h = Aceptador THEN "responde" ELSE "suelta")
    /\ UNCHANGED <<colas, semWorker, datos, planif, aWorker, aMaster, aQC, procesos>>

\* Mutant: only a new query wakes the scheduler, not one that comes back.
DespiertaSoloNuevas(h) ==
    /\ hilo[h].pc = "despierta"
    /\ semQuery' = IF h = Aceptador THEN semQuery + 1 ELSE semQuery
    /\ Ir(h, IF h = Aceptador THEN "responde" ELSE "suelta")
    /\ UNCHANGED <<colas, semWorker, datos, planif, aWorker, aMaster, aQC, procesos>>

\* The end of push_ready: wake the scheduler.
Despierta(h) ==
    /\ hilo[h].pc = "despierta"
    /\ semQuery' = semQuery + 1
    /\ Ir(h, IF h = Aceptador THEN "responde" ELSE "suelta")
    /\ UNCHANGED <<colas, semWorker, datos, planif, aWorker, aMaster, aQC, procesos>>

Evaluador(h) ==
    EvalLibres(h) \/ EvalPeor(h) \/ EvalBuscar(h) \/ EvalEnvia(h) \/ Despierta(h)

-----------------------------------------------------------------------------
(* hilo_aging_query.                                                       *)

\* Mutant: the priority keeps falling at zero.
EnvejeceSinPiso(a) ==
    /\ hilo[a].pc = "duerme"
    /\ IF estado[hilo[a].q] # "READY"
       THEN /\ IrCon(a, "inactivo", NoQuery)
            /\ UNCHANGED prioridad
       ELSE /\ Ir(a, "ev_libres")
            /\ prioridad' = [prioridad EXCEPT ![hilo[a].q] = @ - 1]
    /\ UNCHANGED <<colas, sems, estado, pcQuery, idQuery, planif,
                   aWorker, aMaster, aQC, procesos>>

\* It wakes, and under mutex_cola_ready leaves or raises the query's priority.
Envejece(a) ==
    /\ hilo[a].pc = "duerme"
    /\ IF estado[hilo[a].q] # "READY"
       THEN /\ IrCon(a, "inactivo", NoQuery)
            /\ UNCHANGED prioridad
       ELSE /\ Ir(a, "ev_libres")
            /\ prioridad' = [prioridad EXCEPT ![hilo[a].q] = IF @ > 0 THEN @ - 1 ELSE @]
    /\ UNCHANGED <<colas, sems, estado, pcQuery, idQuery, planif,
                   aWorker, aMaster, aQC, procesos>>

-----------------------------------------------------------------------------
(* manejar_conexiones_entrantes: a single thread.                          *)

\* A Query Control connects: crear_estructura_query and the start of push_ready.
AceptarQuery(q) ==
    /\ hilo[Aceptador].pc = "inactivo"
    /\ estado[q] = "NUEVA"
    /\ EncolarReady(Aceptador, q)
    /\ UNCHANGED <<colaExec, colaLibres, listaWorkers, sems, prioridad, pcQuery,
                   idQuery, planif, aWorker, aMaster, aQC, procesos>>

\* Only after push_ready does the Query Control get its answer.
ResponderQC ==
    /\ hilo[Aceptador].pc = "responde"
    /\ EnviarAQC(hilo[Aceptador].q, "QUERY_RECIBIDA")
    /\ IrCon(Aceptador, "inactivo", NoQuery)
    /\ UNCHANGED <<colas, sems, datos, planif, aWorker, aMaster, procesos>>

\* manejar_desconexion_worker keeps mutex_lista_workers up to its last write.
ListaWorkersTomada == \E v \in Worker : hilo[v].pc = "baja_limpia"

\* A Worker connects: crear_estructura_worker up to its sem_post.
AceptarWorker(w) ==
    /\ hilo[Aceptador].pc = "inactivo"
    /\ etapa[w] = "fuera"
    /\ ~ ListaWorkersTomada
    /\ listaWorkers' = Append(listaWorkers, w)
    /\ colaLibres' = Append(colaLibres, w)
    /\ etapa' = [etapa EXCEPT ![w] = "esperando_ok"]
    /\ Pasa(Aceptador, [hilo[Aceptador] EXCEPT !.pc = "avisa_alta", !.w = w])
    /\ UNCHANGED <<colaReady, colaExec, sems, datos, planif, aWorker, aMaster,
                   aQC, enCurso, desalojo, qcIdos>>

AvisarAlta ==
    /\ hilo[Aceptador].pc = "avisa_alta"
    /\ semWorker' = semWorker + 1
    /\ Ir(Aceptador, "confirma")
    /\ UNCHANGED <<colas, semQuery, datos, planif, aWorker, aMaster, aQC, procesos>>

\* WORKER_OK, and the thread that serves the Worker starts.
ConfirmarWorker ==
    /\ hilo[Aceptador].pc = "confirma"
    /\ EnviarAWorker(hilo[Aceptador].w, [op |-> "WORKER_OK", q |-> NoQuery, pc |-> 0])
    /\ hilo' = [hilo EXCEPT ![Aceptador] = [@ EXCEPT !.pc = "inactivo", !.w = NoWorker],
                            ![hilo[Aceptador].w] = [@ EXCEPT !.pc = "escucha"]]
    /\ UNCHANGED <<colas, sems, datos, planif, aMaster, aQC, procesos>>

AceptadorAvanza == ResponderQC \/ AvisarAlta \/ ConfirmarWorker

-----------------------------------------------------------------------------
(* comunicacion_con_worker and manejar_desconexion_worker.                 *)

Llega(w, op) ==
    /\ hilo[w].pc = "escucha"
    /\ aMaster[w] # <<>>
    /\ Head(aMaster[w]).op = op
    /\ aMaster' = [aMaster EXCEPT ![w] = Tail(@)]

RecibirLectura(w) ==
    /\ Llega(w, "LECTURA")
    /\ EnviarAQC(Head(aMaster[w]).q, "READ")
    /\ UNCHANGED <<colas, sems, datos, planif, hilo, aWorker, procesos>>

\* WORKER_FIN_QUERY: the status that follows the id is never extracted.
RecibirFin(w) ==
    /\ Llega(w, "FIN")
    /\ LET q == Head(aMaster[w]).q
       IN  /\ colaExec' = colaExec \ {q}
           /\ IrCon(w, "fin_qc", q)
    /\ UNCHANGED <<colaReady, colaLibres, listaWorkers, sems, datos, planif,
                   aWorker, aQC, procesos>>

\* Mutant: the query that ended keeps its old state.
AvisarFinSinExit(w) ==
    /\ hilo[w].pc = "fin_qc"
    /\ EnviarAQC(hilo[w].q, "FIN_OK")
    /\ Ir(w, "suelta")
    /\ UNCHANGED <<colas, sems, datos, planif, aWorker, aMaster, procesos>>

\* Mutant: the worker is offered here and once more when it is released.
AvisarFinOfrece(w) ==
    /\ hilo[w].pc = "fin_qc"
    /\ estado' = [estado EXCEPT ![hilo[w].q] = "EXIT"]
    /\ colaLibres' = Append(colaLibres, w)
    /\ EnviarAQC(hilo[w].q, "FIN_OK")
    /\ Ir(w, "suelta")
    /\ UNCHANGED <<colaReady, colaExec, listaWorkers, sems, prioridad, pcQuery,
                   idQuery, planif, aWorker, aMaster, procesos>>

AvisarFin(w) ==
    /\ hilo[w].pc = "fin_qc"
    /\ estado' = [estado EXCEPT ![hilo[w].q] = "EXIT"]
    /\ EnviarAQC(hilo[w].q, "FIN_OK")
    /\ Ir(w, "suelta")
    /\ UNCHANGED <<colas, sems, prioridad, pcQuery, idQuery, planif,
                   aWorker, aMaster, procesos>>

RecibirDesalojo(w) ==
    /\ Llega(w, "DESALOJAR")
    /\ LET m == Head(aMaster[w])
       IN  /\ colaExec' = colaExec \ {m.q}
           /\ pcQuery' = [pcQuery EXCEPT ![m.q] = m.pc]
           /\ estado' = [estado EXCEPT ![m.q] = "READY"]
           /\ IrCon(w, "reencola", m.q)
    /\ UNCHANGED <<colaReady, colaLibres, listaWorkers, sems, prioridad, idQuery,
                   planif, aWorker, aQC, procesos>>

\* push_ready of the evicted query, while its worker is still taken.
Reencolar(w) ==
    /\ hilo[w].pc = "reencola"
    /\ EncolarReady(w, hilo[w].q)
    /\ UNCHANGED <<colaExec, colaLibres, listaWorkers, sems, prioridad, pcQuery,
                   idQuery, planif, aWorker, aMaster, aQC, procesos>>

\* Mutant: the worker is released without going back to the queue.
SoltarSinEncolar(w) ==
    /\ hilo[w].pc = "suelta"
    /\ idQuery' = [idQuery EXCEPT ![w] = NoQuery]
    /\ IrCon(w, "avisa", NoQuery)
    /\ UNCHANGED <<colas, sems, estado, prioridad,
                   pcQuery, planif, aWorker, aMaster, aQC, procesos>>

\* Mutant: id_query keeps naming the query that ended.
SoltarSinLimpiar(w) ==
    /\ hilo[w].pc = "suelta"
    /\ colaLibres' = Append(colaLibres, w)
    /\ IrCon(w, "avisa", NoQuery)
    /\ UNCHANGED <<colaReady, colaExec, listaWorkers, sems, datos, planif,
                   aWorker, aMaster, aQC, procesos>>

\* id_query = -1 and back to cola_workers_libres; nobody looks at both.
SoltarWorker(w) ==
    /\ hilo[w].pc = "suelta"
    /\ idQuery' = [idQuery EXCEPT ![w] = NoQuery]
    /\ colaLibres' = Append(colaLibres, w)
    /\ IrCon(w, "avisa", NoQuery)
    /\ UNCHANGED <<colaReady, colaExec, listaWorkers, sems, estado, prioridad,
                   pcQuery, planif, aWorker, aMaster, aQC, procesos>>

\* Mutant: no sem_post for a worker that comes back.
AvisarNada(w) ==
    /\ hilo[w].pc = "avisa"
    /\ Ir(w, "escucha")
    /\ UNCHANGED <<colas, sems, datos, planif, aWorker, aMaster, aQC, procesos>>

AvisarLibre(w) ==
    /\ hilo[w].pc = "avisa"
    /\ semWorker' = semWorker + 1
    /\ Ir(w, "escucha")
    /\ UNCHANGED <<colas, semQuery, datos, planif, aWorker, aMaster, aQC, procesos>>

\* End of file: the query the worker claims ends with an error.  The worker
\* stays in lista_workers and, if it was free, in cola_workers_libres.
BajaWorker(w) ==
    /\ hilo[w].pc = "escucha"
    /\ aMaster[w] = <<>>
    /\ etapa[w] = "caido"
    /\ ~ ListaWorkersTomada
    /\ LET q == idQuery[w]
       IN  IF q = NoQuery
           THEN UNCHANGED <<colaExec, estado, aQC>>
           ELSE /\ colaExec' = colaExec \ {q}
                /\ estado' = [estado EXCEPT ![q] = "EXIT"]
                /\ EnviarAQC(q, "FIN_ERROR")
    /\ Ir(w, "baja_limpia")
    /\ UNCHANGED <<colaReady, colaLibres, listaWorkers, sems, prioridad, pcQuery,
                   idQuery, planif, aWorker, aMaster, procesos>>

BajaLimpia(w) ==
    /\ hilo[w].pc = "baja_limpia"
    /\ idQuery' = [idQuery EXCEPT ![w] = NoQuery]
    /\ Ir(w, "muerto")
    /\ UNCHANGED <<colas, sems, estado, prioridad, pcQuery, planif,
                   aWorker, aMaster, aQC, procesos>>

AtenderWorker(w) ==
    \/ RecibirLectura(w) \/ RecibirFin(w) \/ AvisarFin(w) \/ RecibirDesalojo(w)
    \/ Reencolar(w) \/ SoltarWorker(w) \/ AvisarLibre(w) \/ BajaWorker(w) \/ BajaLimpia(w)

\* comunicacion_con_query_control: the Query Control is gone; the query is only
\* marked, wherever it is.
BajaQC(q) ==
    /\ q \notin qcIdos
    /\ Cardinality(qcIdos) < MaxBajasQC
    /\ \E i \in DOMAIN aQC[q] : aQC[q][i] = "QUERY_RECIBIDA"
    /\ qcIdos' = qcIdos \cup {q}
    /\ estado' = [estado EXCEPT ![q] = "EXIT"]
    /\ UNCHANGED <<colas, sems, prioridad, pcQuery, idQuery, planif, hilo,
                   aWorker, aMaster, aQC, etapa, enCurso, desalojo>>

-----------------------------------------------------------------------------
(* The Worker process as the Master sees it (src/worker/src/worker.c).     *)

Consume(w) ==
    /\ aWorker[w] # <<>>
    /\ aWorker' = [aWorker EXCEPT ![w] = Tail(@)]

\* conectarse_a_master: the first operation is taken for the handshake's; any
\* other leaves its payload in the stream and the two ends out of step for good.
WorkerSaludo(w) ==
    /\ etapa[w] = "esperando_ok"
    /\ Consume(w)
    /\ etapa' = [etapa EXCEPT ![w] =
                    IF Head(aWorker[w]).op = "WORKER_OK" THEN "listo" ELSE "desincronizado"]
    /\ UNCHANGED <<colas, sems, datos, planif, hilo, aMaster, aQC,
                   enCurso, desalojo, qcIdos>>

\* manejar_comunicacion_master: a flag for an eviction, whatever query it
\* names, and a thread for each query.
WorkerRecibeDesalojo(w) ==
    /\ etapa[w] = "listo"
    /\ Consume(w)
    /\ Head(aWorker[w]).op = "DESALOJAR"
    /\ desalojo' = [desalojo EXCEPT ![w] = TRUE]
    /\ UNCHANGED <<colas, sems, datos, planif, hilo, aMaster, aQC, etapa, enCurso, qcIdos>>

WorkerRecibeQuery(w) ==
    /\ etapa[w] = "listo"
    /\ Consume(w)
    /\ Head(aWorker[w]).op = "INICIA"
    /\ enCurso' = [enCurso EXCEPT ![w] = @ \cup {Head(aWorker[w]).q}]
    /\ UNCHANGED <<colas, sems, datos, planif, hilo, aMaster, aQC, etapa, desalojo, qcIdos>>

\* procesar_query, as far as the Master can tell.
Ejecuta(w, q) == etapa[w] = "listo" /\ q \in enCurso[w]

Contesta(w, m) ==
    /\ aMaster' = [aMaster EXCEPT ![w] = Append(@, m)]
    /\ enCurso' = [enCurso EXCEPT ![w] = @ \ {m.q}]

Lecturas(w, q) ==
    Cardinality({i \in DOMAIN aMaster[w] : aMaster[w][i].op = "LECTURA"})
    + Cardinality({i \in DOMAIN aQC[q] : aQC[q][i] = "READ"})

WorkerLee(w, q) ==
    /\ Ejecuta(w, q)
    /\ Lecturas(w, q) < MaxLecturas
    /\ aMaster' = [aMaster EXCEPT ![w] = Append(@, [op |-> "LECTURA", q |-> q, pc |-> 0])]
    /\ UNCHANGED <<colas, sems, datos, planif, hilo, aWorker, aQC, procesos>>

\* The end of the script or an error; the second field is 0 = error, 1 = success.
\* An eviction asked for after the last line was read leaves the flag up.
WorkerTermina(w, q) ==
    /\ Ejecuta(w, q)
    /\ Contesta(w, [op |-> "FIN", q |-> q, pc |-> IF q \in ConError THEN 0 ELSE 1])
    /\ UNCHANGED <<colas, sems, datos, planif, hilo, aWorker, aQC,
                   etapa, desalojo, qcIdos>>

WorkerDesaloja(w, q, pc) ==
    /\ Ejecuta(w, q)
    /\ desalojo[w]
    /\ desalojo' = [desalojo EXCEPT ![w] = FALSE]
    /\ Contesta(w, [op |-> "DESALOJAR", q |-> q, pc |-> pc])
    /\ UNCHANGED <<colas, sems, datos, planif, hilo, aWorker, aQC, etapa, qcIdos>>

\* fopen fails: procesar_query returns without a word to the Master.
WorkerNoAbre(w, q) ==
    /\ Ejecuta(w, q)
    /\ q \in SinArchivo
    /\ enCurso' = [enCurso EXCEPT ![w] = @ \ {q}]
    /\ UNCHANGED <<colas, sems, datos, planif, hilo, aWorker, aMaster, aQC,
                   etapa, desalojo, qcIdos>>

\* The Worker process ends; a suffix of what it had sent may be lost with it.
CaeWorker(w) ==
    /\ etapa[w] \in {"esperando_ok", "listo", "desincronizado"}
    /\ Cardinality({v \in Worker : etapa[v] = "caido"}) < MaxBajasWorker
    /\ etapa' = [etapa EXCEPT ![w] = "caido"]
    /\ enCurso' = [enCurso EXCEPT ![w] = {}]
    /\ aWorker' = [aWorker EXCEPT ![w] = <<>>]
    /\ \E n \in 0..Len(aMaster[w]) : aMaster' = [aMaster EXCEPT ![w] = SubSeq(@, 1, n)]
    /\ UNCHANGED <<colas, sems, datos, planif, hilo, aQC, desalojo, qcIdos>>

\* The two threads of the Worker process: the one that reads the socket and the
\* one that runs the script.
WorkerEscucha(w) == WorkerSaludo(w) \/ WorkerRecibeDesalojo(w) \/ WorkerRecibeQuery(w)

WorkerEjecuta(w) ==
    \E q \in Query : \/ WorkerTermina(w, q)
                    \/ WorkerNoAbre(w, q)
                    \/ \E pc \in 0..MaxPC : WorkerDesaloja(w, q, pc)

-----------------------------------------------------------------------------
Conectado(w) == \E i \in DOMAIN YaConectados : YaConectados[i] = w

Quieto == [pc |-> "inactivo", q |-> NoQuery, peor |-> NoQuery, w |-> NoWorker]

\* iniciar_colas, iniciar_listas and iniciar_sem, after the Workers of
\* YaConectados have completed their handshakes and before any query arrived.
Init ==
    /\ colaReady = <<>>
    /\ colaExec = {}
    /\ colaLibres = YaConectados
    /\ listaWorkers = YaConectados
    /\ semQuery = 0
    /\ semWorker = Len(YaConectados)
    /\ estado = [q \in Query |-> "NUEVA"]
    /\ prioridad = PrioridadInicial
    /\ pcQuery = [q \in Query |-> 0]
    /\ idQuery = [w \in Worker |-> NoQuery]
    /\ planif = [pc |-> "espera_query", q |-> NoQuery, w |-> NoWorker]
    /\ hilo = [h \in Hilo |-> IF h \in Worker /\ Conectado(h)
                              THEN [Quieto EXCEPT !.pc = "escucha"] ELSE Quieto]
    /\ aWorker = [w \in Worker |-> <<>>]
    /\ aMaster = [w \in Worker |-> <<>>]
    /\ aQC = [q \in Query |-> <<>>]
    /\ etapa = [w \in Worker |-> IF Conectado(w) THEN "listo" ELSE "fuera"]
    /\ enCurso = [w \in Worker |-> {}]
    /\ desalojo = [w \in Worker |-> FALSE]
    /\ qcIdos = {}

Next ==
    \/ Planificador
    \/ \E h \in Hilo : Evaluador(h)
    \/ \E a \in HilosAging : Envejece(a)
    \/ \E q \in Query : AceptarQuery(q)
    \/ \E w \in Worker : AceptarWorker(w)
    \/ AceptadorAvanza
    \/ \E w \in Worker : AtenderWorker(w)
    \/ \E q \in Query : BajaQC(q)
    \/ \E w \in Worker : WorkerEscucha(w) \/ WorkerEjecuta(w)
    \/ \E w \in Worker : \E q \in Query : WorkerLee(w, q)
    \/ \E w \in Worker : CaeWorker(w)

Spec == Init /\ [][Next]_vars

\* Every thread of the Master keeps running, and a Worker keeps reading its
\* socket and finishes the script it runs.  Nobody is obliged to connect, to
\* go away or to read.
Equidad ==
    /\ WF_vars(Planificador)
    /\ \A h \in Hilo : WF_vars(Evaluador(h))
    /\ \A a \in HilosAging : WF_vars(Envejece(a))
    /\ WF_vars(AceptadorAvanza)
    /\ \A w \in Worker : WF_vars(AtenderWorker(w))
    /\ \A w \in Worker : WF_vars(WorkerEscucha(w)) /\ WF_vars(WorkerEjecuta(w))

SpecJusta == Spec /\ Equidad

-----------------------------------------------------------------------------
(* Properties.                                                             *)

Unos(b) == IF b THEN 1 ELSE 0
HilosEn(pasos) == {h \in Hilo : hilo[h].pc \in pasos}
HilosEncolando == HilosEn(Evaluando \cup {"despierta"}) \ HilosAging

ReservaWorker == semWorker + Unos(planif.pc \in {"elige", "saca_worker"})
                 + Cardinality(HilosEn({"avisa", "avisa_alta"}))
ReservaQuery  == semQuery + Unos(planif.pc \in {"espera_worker", "elige"})
                 + Cardinality(HilosEncolando)

\* Each token of sem_worker_disponible, taken by the scheduler or still to be
\* posted, stands for a worker that is in cola_workers_libres: the push comes
\* before the sem_post in crear_estructura_worker and in both answers of a
\* worker, and nobody but the scheduler takes workers out.
TokensWorker == ReservaWorker <= Len(colaLibres)

\* The same for sem_query_ready and cola_ready, across push_ready's eviction
\* check, which runs between the push and the sem_post.
TokensQuery == ReservaQuery <= Len(colaReady)

\* Holding both tokens the scheduler never finds a queue empty: the branch for
\* the "caso raro" of master.c:49-54 never runs, nor does a pop of an empty
\* cola_ready under FIFO.
SinEsperaEnVano ==
    /\ planif.pc = "saca_worker" => colaLibres # <<>>
    /\ planif.pc = "elige" => colaReady # <<>>

\* No token is lost: a worker in cola_workers_libres can be waited for, and so
\* can a query in cola_ready ("Despierto al planificador", master.c:180).
TokensExactos ==
    /\ ReservaWorker = Len(colaLibres)
    /\ ReservaQuery = Len(colaReady)

Respuestas == {"FIN", "DESALOJAR"}
EnVuelo(w, q) ==
    {<<"inicia", w, i>> : i \in {i \in DOMAIN aWorker[w] :
                                    aWorker[w][i].op = "INICIA" /\ aWorker[w][i].q = q}}
    \cup {<<"corre", w, 0>> : v \in {v \in {w} : q \in enCurso[v]}}
    \cup {<<"contesta", w, i>> : i \in {i \in DOMAIN aMaster[w] :
                                    aMaster[w][i].op \in Respuestas /\ aMaster[w][i].q = q}}

\* Every place where something will still be done with query q.
LugaresQuery(q) ==
    {<<"ready", NoWorker, i>> : i \in {i \in DOMAIN colaReady : colaReady[i] = q}}
    \cup {<<"plan", NoWorker, 0>> : p \in {p \in {planif} : p.q = q}}
    \cup {<<"hilo", w, 0>> : w \in {w \in Worker :
                        hilo[w].pc \in {"fin_qc", "reencola"} /\ hilo[w].q = q}}
    \cup UNION {EnVuelo(w, q) : w \in Worker}

\* A query is in one place at most: never queued twice, never queued while it
\* runs, never run by two workers, whatever is evicted, ends or disconnects in
\* between.  Its READ results and its COMMITs depend on it.
UnaSolaInstancia == \A q \in Query : \A a, b \in LugaresQuery(q) : a = b

\* Every use of worker w: free, chosen by the scheduler, running, answering.
LugaresWorker(w) ==
    {<<"libre", NoQuery, i>> : i \in {i \in DOMAIN colaLibres : colaLibres[i] = w}}
    \cup {<<"plan", NoQuery, 0>> : p \in {p \in {planif} : p.w = w}}
    \cup {<<"hilo", NoQuery, 0>> : h \in {h \in {hilo[w]} :
              h.pc \in Evaluando \cup {"fin_qc", "reencola", "despierta", "suelta"}}}
    \cup UNION {{<<l, q>> : l \in EnVuelo(w, q)} : q \in Query}

\* A worker serves one query at a time and is offered once: its id never appears
\* twice in cola_workers_libres nor there while it serves, so that the mutex with
\* which it runs "Solo una query a la vez" (worker.c:238) is never contended.
UnWorkerUnaQuery == \A w \in Worker : \A a, b \in LugaresWorker(w) : a = b

\* The Master knows what each of its workers is doing: as long as a worker that
\* is alive has a query, w->id_query names it.  Eviction and the end of a query
\* whose worker dies look it up there.
AsignacionCoherente ==
    \A w \in Worker : \A q \in Query :
        etapa[w] # "caido" /\ EnVuelo(w, q) # {} => idQuery[w] = q

Fines == {"FIN_OK", "FIN_ERROR"}
Finalizada(q) == \E i \in DOMAIN aQC[q] : aQC[q][i] \in Fines

\* A Query Control is told the end once, by the worker's answer or by the
\* worker's disconnection but not by both, and no READ result follows it.
\* QUERY_RECIBIDA may follow: push_ready comes before the handshake's answer.
FinUnico ==
    \A q \in Query : \A i, j \in DOMAIN aQC[q] :
        i < j /\ aQC[q][i] \in Fines => aQC[q][j] = "QUERY_RECIBIDA"

\* A query whose Query Control was told it ended stays in EXIT for good: no
\* late eviction or assignment puts it back in READY or EXEC.
FinEsFinal == [][\A q \in Query : Finalizada(q) => estado'[q] = "EXIT"]_vars

\* Under FIFO and under PRIORIDADES alike every query that was accepted ends
\* and its Query Control is told so.
TodasTerminan == \A q \in Query : (estado[q] # "NUEVA") ~> Finalizada(q)

\* A Worker that still answers: its script is not one it could not open.
Responde(w) ==
    /\ etapa[w] = "listo"
    /\ ~ \E q \in Query : /\ idQuery[w] = q /\ EnVuelo(w, q) = {}
                          /\ planif.w # w /\ hilo[w].pc = "escucha"
Perdidos == {w \in Worker : etapa[w] # "fuera" /\ ~ Responde(w)}
SinTerminar == {q \in Query : estado[q] # "NUEVA" /\ ~ Finalizada(q)}

\* As long as one Worker answers, each Worker that is lost, whether it dies idle
\* in cola_workers_libres, dies while a query is assigned to it, never
\* understands the Master because a query overtook its WORKER_OK, or does not
\* find a script, costs one query that never ends, at most; all others end.
CadaPerdidaCuestaUna ==
    <>[]((\E w \in Worker : Responde(w))
         => Cardinality(SinTerminar) <= Cardinality(Perdidos))

\* "Worker sabe qué Query desalojar" (master.c:385): without aging, the query a
\* worker gives back is one that some other query outranks.
DesalojoJustificado ==
    \A w \in Worker : \A i \in DOMAIN aMaster[w] :
        aMaster[w][i].op = "DESALOJAR" =>
            \E r \in Query : prioridad[r] < prioridad[aMaster[w][i].q]

-----------------------------------------------------------------------------
(* Master implements Planificador while no worker dies (a worker that dies *)
(* can take along a query assigned to it while it was being written off). *)

\* A query waits from the push into cola_ready to the write of w->id_query.
EnEspera == {q \in Query :
    \/ \E i \in DOMAIN colaReady : colaReady[i] = q
    \/ planif.pc \in {"saca_worker", "asigna"} /\ planif.q = q}

\* It runs from that write until the worker's answer is handled: until then
\* w->id_query keeps naming it, a little longer than it is true.
EnWorker == [w \in Worker |->
    IF hilo[w].pc \in Evaluando \cup {"despierta", "suelta", "baja_limpia"}
    THEN NoQuery ELSE idQuery[w]]

Promesa == INSTANCE Planificador WITH
    espera <- EnEspera, ejecuta <- EnWorker, terminadas <- {q \in Query : Finalizada(q)}

\* Every step of the Master is one of the promised steps or none, under any
\* interleaving of its threads.
RefinaPlanificador == Promesa!Spec
=============================================================================
