--------------------------- MODULE Master_lugares ---------------------------
(***************************************************************************)
(* Where the Master has each query and each worker: in one place at most,  *)
(* whatever is evicted, ends, disconnects or arrives late; and that the    *)
(* end of a query is told once and is final.                               *)
(*   Then what it promises to those who wait.  No token of its semaphores  *)
(* is lost: with Master_proofs, which shows that none is invented, each    *)
(* counter is exactly the length of its queue.  It is so under FIFO, and   *)
(* under PRIORIDADES as long as no Query Control leaves: a query that is   *)
(* marked EXIT in cola_ready makes the scheduler drop its two tokens.      *)
(*   And it implements Planificador while no Worker goes away: whatever    *)
(* its threads interleave, a query arrives, is given to a worker that runs *)
(* none, goes back to wait, or ends, one at a time, and nothing else       *)
(* happens.  The places say why: what the scheduler, the eviction check    *)
(* and the workers' threads read stays true until they use it.             *)
(***************************************************************************)
EXTENDS Master_proofs

-----------------------------------------------------------------------------
(* The inductive invariant.                                                *)

\* Where a query or a worker is, one predicate per place.
EnReady(q) == \E i \in DOMAIN colaReady : colaReady[i] = q
Libre(w) == \E i \in DOMAIN colaLibres : colaLibres[i] = w
Manda(w, q) ==
    \E i \in DOMAIN aWorker[w] : aWorker[w][i].op = "INICIA" /\ aWorker[w][i].q = q
Respondida(w, q) ==
    \E i \in DOMAIN aMaster[w] : aMaster[w][i].op \in Respuestas /\ aMaster[w][i].q = q
Leida(w, q) ==
    \E i \in DOMAIN aMaster[w] : aMaster[w][i].op = "LECTURA" /\ aMaster[w][i].q = q

\* The thread of w is about to finish or to queue again the query of an answer;
\* or has done it and has still to release its worker, and id_query is old.
Cierra(w)     == hilo[w].pc \in {"fin_qc", "reencola"}
Soltando      == Evaluando \cup {"despierta", "suelta"}
Suelta(w)     == hilo[w].pc \in Soltando
Ocupa(w)      == Cierra(w) \/ Suelta(w)
Atiende(w, q) == Cierra(w) /\ hilo[w].q = q
Vuela(w, q)   == Manda(w, q) \/ q \in enCurso[w] \/ Respondida(w, q)
Tiene(w, q)   == Vuela(w, q) \/ Atiende(w, q)

\* Each of them is at one position of its channel; an answer is the last message.
UnicaReady(q) == \A i, j \in DOMAIN colaReady : colaReady[i] = q /\ colaReady[j] = q => i = j
UnicoLibre(w) == \A i, j \in DOMAIN colaLibres : colaLibres[i] = w /\ colaLibres[j] = w => i = j
UnaOrden(w) == \A i, j \in DOMAIN aWorker[w] :
    aWorker[w][i].op = "INICIA" /\ aWorker[w][j].op = "INICIA" => i = j
RespuestaAlFinal(w) == \A i \in DOMAIN aMaster[w] :
    aMaster[w][i].op \in Respuestas => i = Len(aMaster[w])

\* The uses of a worker exclude one another.
UsoBien(w) ==
    /\ UnicoLibre(w) /\ UnaOrden(w) /\ RespuestaAlFinal(w)
    /\ Libre(w) => planif.w # w /\ ~ Ocupa(w)
    /\ planif.w = w => ~ Ocupa(w)
    /\ \A q \in Query :
        /\ Vuela(w, q) => ~ Libre(w) /\ planif.w # w /\ ~ Ocupa(w)
        /\ Manda(w, q) => \A p \in Query : p \notin enCurso[w] /\ ~ Respondida(w, p)
        /\ q \in enCurso[w] => \A p \in Query : (p \in enCurso[w] => p = q) /\ ~ Respondida(w, p)
    /\ hilo[w].pc = "fin_qc" => hilo[w].q \in Query

\* What the life of the Worker process says about the Master's data.
VidaBien(w) ==
    /\ etapa[w] = "fuera" =>
        /\ ~ Libre(w) /\ planif.w # w /\ hilo[w].pc = "inactivo" /\ idQuery[w] = NoQuery
        /\ \A q \in Query : ~ Vuela(w, q)
    /\ etapa[w] = "caido" => aWorker[w] = <<>> /\ enCurso[w] = {}
    /\ hilo[w].pc \in {"baja_limpia", "muerto"} => etapa[w] = "caido" /\ aMaster[w] = <<>>
    /\ hilo[Aceptador].pc \in {"avisa_alta", "confirma"} /\ hilo[Aceptador].w = w
       => etapa[w] # "fuera" /\ hilo[w].pc = "inactivo"

\* The places of a query exclude one another.
LugarBien(q) ==
    /\ UnicaReady(q)
    /\ EnReady(q) => planif.q # q /\ \A w \in Worker : ~ Tiene(w, q)
    /\ planif.q = q => \A w \in Worker : ~ Tiene(w, q)
    /\ \A v, w \in Worker : Tiene(v, q) /\ Tiene(w, q) => v = w
    /\ estado[q] = "NUEVA" =>
        /\ ~ EnReady(q) /\ planif.q # q /\ ~ Finalizada(q)
        /\ \A w \in Worker : idQuery[w] # q /\ ~ Tiene(w, q)

\* The scheduler's locals are empty before it fills them; from the write of
\* w->id_query on they agree with it, unless the worker was written off.
Temprano == {"espera_query", "espera_worker", "elige"}
Tardio == {"encola_exec", "envia"}
PlanifBien ==
    /\ planif.pc \in Temprano => planif.q = NoQuery
    /\ planif.pc \in Temprano \cup {"saca_worker"} => planif.w = NoWorker
    /\ planif.pc \in Tardio /\ etapa[planif.w] # "caido" => idQuery[planif.w] = planif.q

\* w->id_query is right while it matters: it names what the worker has, and what
\* it names (until the answer was handled) is nowhere else.
DuenioBien(w) ==
    /\ Libre(w) \/ (planif.pc = "asigna" /\ planif.w = w) => idQuery[w] = NoQuery
    /\ \A q \in Query :
        /\ Tiene(w, q) => idQuery[w] = q
        /\ idQuery[w] = q /\ ~ Suelta(w) =>
            /\ ~ EnReady(q)
            /\ planif.q = q => planif.w = w /\ planif.pc \in Tardio
            /\ \A v \in Worker : v # w => ~ Tiene(v, q) /\ (idQuery[v] = q => Suelta(v))
        /\ Leida(w, q) => idQuery[w] = q /\ ~ Ocupa(w) /\ hilo[w].pc # "baja_limpia"

\* A query whose client was told the end is in no place where anything would
\* still be done with it, except an assignment to a worker that is gone.
FinBien(q) ==
    Finalizada(q) =>
        /\ estado[q] = "EXIT" /\ ~ EnReady(q)
        /\ planif.q = q => planif.pc \in Tardio /\ etapa[planif.w] = "caido"
        /\ \A w \in Worker : /\ ~ Tiene(w, q)
                             /\ idQuery[w] = q => Suelta(w) \/ hilo[w].pc = "baja_limpia"

Lugares ==
    /\ PlanifBien
    /\ \A w \in Worker : UsoBien(w) /\ VidaBien(w) /\ DuenioBien(w)
    /\ \A q \in Query : LugarBien(q) /\ FinBien(q)

-----------------------------------------------------------------------------
(* Steps that only take things out of their places.                        *)

HilosMenguan ==
    /\ \A w \in Worker : \/ hilo'[w] = hilo[w]
                         \/ Suelta(w) /\ hilo'[w].pc \in Soltando
                         \/ hilo[w].pc = "avisa" /\ hilo'[w].pc = "escucha"
    /\ hilo'[Aceptador].pc \in {"avisa_alta", "confirma"}
       => hilo[Aceptador].pc \in {"avisa_alta", "confirma"} /\ hilo'[Aceptador].w = hilo[Aceptador].w

PlanifMengua ==
    /\ planif'.q = planif.q /\ planif'.w = planif.w
    /\ \/ planif'.pc = planif.pc
       \/ planif.pc \in Temprano /\ planif'.pc \in Temprano
       \/ planif.pc \in Tardio /\ planif'.pc \in Tardio

CanalesMenguan ==
    \A w \in Worker :
        /\ UnaOrden(w) => UnaOrden(w)'
        /\ RespuestaAlFinal(w) => RespuestaAlFinal(w)'
        /\ aMaster[w] = <<>> => aMaster'[w] = <<>>
        /\ enCurso'[w] \subseteq enCurso[w]
        /\ \A q \in Query : /\ Manda(w, q)' => Manda(w, q)
                            /\ Respondida(w, q)' => Respondida(w, q)
                            /\ Leida(w, q)' => Leida(w, q)

VidasSiguen ==
    \A w \in Worker :
        /\ etapa'[w] = "fuera" => etapa[w] = "fuera"
        /\ etapa[w] = "fuera" => etapa'[w] = "fuera"
        /\ etapa[w] = "caido" => etapa'[w] = "caido"
        /\ etapa'[w] = "caido" => aWorker'[w] = <<>> /\ enCurso'[w] = {}

QueriesSiguen ==
    \A q \in Query :
        /\ estado'[q] = "NUEVA" => estado[q] = "NUEVA"
        /\ estado[q] = "EXIT" => estado'[q] = "EXIT"
        /\ Finalizada(q)' => Finalizada(q)

Mengua ==
    /\ HilosMenguan /\ PlanifMengua /\ CanalesMenguan /\ VidasSiguen /\ QueriesSiguen
    /\ UNCHANGED <<colaReady, colaLibres, idQuery>>

\* They keep the invariant.
LEMMA MenguaPaso ==
    ASSUME Tipos, Lugares, Mengua
    PROVE  Lugares'
<1>1. /\ \A q \in Query : (EnReady(q)' <=> EnReady(q)) /\ (UnicaReady(q)' <=> UnicaReady(q))
      /\ \A w \in Worker : (Libre(w)' <=> Libre(w)) /\ (UnicoLibre(w)' <=> UnicoLibre(w))
  BY DEF Mengua, EnReady, UnicaReady, Libre, UnicoLibre
<1>2. /\ \A w \in Worker : (Suelta(w)' <=> Suelta(w)) /\ (Cierra(w)' <=> Cierra(w))
                           /\ (Ocupa(w)' <=> Ocupa(w))
      /\ \A w \in Worker : \A q \in Query : Atiende(w, q)' <=> Atiende(w, q)
      /\ \A w \in Worker : \A s \in {"inactivo", "baja_limpia", "muerto", "fin_qc"} :
            hilo'[w].pc = s <=> hilo[w].pc = s
      /\ \A w \in Worker : hilo[w].pc = "fin_qc" => hilo'[w].q = hilo[w].q
  BY DEF Mengua, HilosMenguan, Suelta, Cierra, Ocupa, Atiende, Soltando, Evaluando
<1>3. \A w \in Worker : \A q \in Query :
          (Vuela(w, q)' => Vuela(w, q)) /\ (Tiene(w, q)' => Tiene(w, q))
  BY <1>2 DEF Mengua, CanalesMenguan, Vuela, Tiene
<1>4. ASSUME NEW w \in Worker PROVE UsoBien(w)'
  BY <1>1, <1>2, <1>3 DEF Lugares, UsoBien, Mengua, PlanifMengua, CanalesMenguan
<1>5. ASSUME NEW w \in Worker PROVE VidaBien(w)'
  BY <1>1, <1>2, <1>3 DEF Lugares, VidaBien, Mengua, PlanifMengua, HilosMenguan,
                          CanalesMenguan, VidasSiguen
<1>6. ASSUME NEW q \in Query PROVE LugarBien(q)'
  BY <1>1, <1>3 DEF Lugares, LugarBien, Mengua, PlanifMengua, QueriesSiguen
<1>7. PlanifBien'
  BY DEF Lugares, PlanifBien, Mengua, PlanifMengua, VidasSiguen, Temprano, Tardio,
         Tipos, PlanifPleno
<1>8. ASSUME NEW w \in Worker PROVE DuenioBien(w)'
  BY <1>1, <1>2, <1>3 DEF Lugares, DuenioBien, Mengua, PlanifMengua, CanalesMenguan,
                          Temprano, Tardio
<1>9. ASSUME NEW q \in Query PROVE FinBien(q)'
  BY <1>1, <1>2, <1>3 DEF Lugares, FinBien, Mengua, PlanifMengua, QueriesSiguen, VidasSiguen,
                          Temprano, Tardio, Tipos, PlanifPleno
<1> QED
  BY <1>4, <1>5, <1>6, <1>7, <1>8, <1>9 DEF Lugares

-----------------------------------------------------------------------------
(* What a send and a receive do to the places in a channel.                *)

\* Append and Tail, position by position.
LEMMA Agrega ==
    ASSUME NEW T, NEW s \in Seq(T), NEW m
    PROVE  /\ Len(s) \in Nat /\ DOMAIN s = 1..Len(s)
           /\ DOMAIN Append(s, m) = 1..(Len(s) + 1) /\ Len(Append(s, m)) = Len(s) + 1
           /\ Append(s, m)[Len(s) + 1] = m
           /\ \A i \in DOMAIN s : Append(s, m)[i] = s[i]
OBVIOUS

\* A queue that loses its head.
LEMMA Quita ==
    ASSUME NEW T, NEW s \in Seq(T), s # <<>>
    PROVE  /\ Len(s) \in Nat \ {0} /\ DOMAIN s = 1..Len(s) /\ Head(s) = s[1] /\ s[1] \in T
           /\ DOMAIN Tail(s) = 1..(Len(s) - 1) /\ Len(Tail(s)) = Len(s) - 1
           /\ \A i \in 1..(Len(s) - 1) : Tail(s)[i] = s[i + 1]
OBVIOUS

\* The start of a queue.
LEMMA Corta ==
    ASSUME NEW T, NEW s \in Seq(T), NEW n \in 0..Len(s)
    PROVE  /\ Len(s) \in Nat /\ DOMAIN s = 1..Len(s)
           /\ DOMAIN SubSeq(s, 1, n) = 1..n /\ Len(SubSeq(s, 1, n)) = n
           /\ \A i \in 1..n : SubSeq(s, 1, n)[i] = s[i]
OBVIOUS

\* A message to a Worker that is there puts a query in its channel, if it is one
\* that does, and takes none out.
LEMMA AlMandar ==
    ASSUME aWorker \in [Worker -> Seq(MsgAWorker)], NEW w \in Worker, NEW m,
           EnviarAWorker(w, m), NEW v \in Worker
    PROVE  /\ \A q \in Query : Manda(v, q)' =>
                Manda(v, q) \/ (v = w /\ etapa[w] # "caido" /\ m.op = "INICIA" /\ m.q = q)
           /\ UnaOrden(v) /\ (v = w /\ m.op = "INICIA" => \A q \in Query : ~ Manda(w, q))
              => UnaOrden(v)'
           /\ etapa[v] = "caido" => aWorker'[v] = aWorker[v]
<1>1. CASE v # w \/ etapa[w] = "caido"
  <2>1. aWorker'[v] = aWorker[v]
    BY <1>1 DEF EnviarAWorker
  <2>2. \A q \in Query : Manda(v, q)' => Manda(v, q)
    BY <2>1 DEF Manda
  <2>3. UnaOrden(v) => UnaOrden(v)'
    BY <2>1 DEF UnaOrden
  <2> QED
    BY <2>1, <2>2, <2>3
<1>2. CASE v = w /\ etapa[w] # "caido"
  <2> DEFINE s == aWorker[w]
             t == aWorker'[w]
  <2>1. s \in Seq(MsgAWorker) /\ t = Append(s, m)
    BY <1>2 DEF EnviarAWorker
  <2>2. /\ Len(s) \in Nat /\ DOMAIN s = 1..Len(s) /\ DOMAIN t = 1..(Len(s) + 1)
        /\ t[Len(s) + 1] = m /\ \A i \in DOMAIN s : t[i] = s[i]
    BY <2>1, Agrega
  <2>3. \A i \in DOMAIN s : s[i].op = "INICIA" => s[i].q \in Query
    BY <2>1 DEF MsgAWorker
  <2>4. \A q \in Query : Manda(v, q)' => Manda(v, q) \/ (m.op = "INICIA" /\ m.q = q)
    BY <1>2, <2>2 DEF Manda
  <2>5. ASSUME UnaOrden(v), m.op = "INICIA" => \A q \in Query : ~ Manda(w, q)
        PROVE  UnaOrden(v)'
    <3>1. m.op = "INICIA" => \A i \in DOMAIN s : s[i].op # "INICIA"
      BY <2>3, <2>5 DEF Manda
    <3>2. \A i, j \in DOMAIN t : t[i].op = "INICIA" /\ t[j].op = "INICIA" => i = j
      BY <1>2, <2>2, <2>5, <3>1 DEF UnaOrden
    <3> QED
      BY <1>2, <3>2 DEF UnaOrden
  <2> HIDE DEF s, t
  <2> QED
    BY <1>2, <2>4, <2>5
<1> QED
  BY <1>1, <1>2

\* Reading the next message takes its query out of the channel.
LEMMA AlConsumir ==
    ASSUME aWorker \in [Worker -> Seq(MsgAWorker)], NEW w \in Worker, Consume(w), NEW v \in Worker
    PROVE  /\ \A q \in Query : Manda(v, q)' => Manda(v, q)
           /\ UnaOrden(v) => UnaOrden(v)'
           /\ aWorker[v] = <<>> => aWorker'[v] = <<>>
           /\ Head(aWorker[w]).op = "INICIA" =>
                /\ Head(aWorker[w]).q \in Query /\ Manda(w, Head(aWorker[w]).q)
                /\ UnaOrden(w) => \A q \in Query : ~ Manda(w, q)'
<1> DEFINE s == aWorker[w]
           t == aWorker'[w]
<1>1. s \in Seq(MsgAWorker) /\ s # <<>> /\ t = Tail(s)
  BY DEF Consume
<1>2. /\ Len(s) \in Nat \ {0} /\ DOMAIN s = 1..Len(s) /\ DOMAIN t = 1..(Len(s) - 1)
      /\ \A i \in DOMAIN t : t[i] = s[i + 1] /\ i + 1 \in DOMAIN s /\ i + 1 # 1
      /\ Head(s) = s[1] /\ 1 \in DOMAIN s /\ s[1] \in MsgAWorker
  BY <1>1, Quita
<1>3. CASE v # w
  <2>1. aWorker'[v] = aWorker[v]
    BY <1>3 DEF Consume
  <2>2. Head(s).op = "INICIA" =>
          Head(s).q \in Query /\ Manda(w, Head(s).q)
    BY <1>2 DEF Manda, MsgAWorker
  <2>3. Head(s).op = "INICIA" /\ UnaOrden(w) => \A q \in Query : ~ Manda(w, q)'
    BY <1>2 DEF Manda, UnaOrden
  <2> QED
    BY <2>1, <2>2, <2>3 DEF Manda, UnaOrden
<1>4. CASE v = w
  <2>1. \A q \in Query : Manda(w, q)' => Manda(w, q)
    BY <1>2 DEF Manda
  <2>2. UnaOrden(w) => UnaOrden(w)'
    BY <1>2 DEF UnaOrden
  <2>3. Head(s).op = "INICIA" =>
          Head(s).q \in Query /\ Manda(w, Head(s).q)
    BY <1>2 DEF Manda, MsgAWorker
  <2>4. Head(s).op = "INICIA" /\ UnaOrden(w) => \A q \in Query : ~ Manda(w, q)'
    BY <1>2 DEF Manda, UnaOrden
  <2> QED
    BY <1>1, <1>4, <2>1, <2>2, <2>3, <2>4
<1> QED
  BY <1>3, <1>4

\* A message to the Master; an answer to a query must find none before it.
LEMMA AlContestar ==
    ASSUME aMaster \in [Worker -> Seq(MsgAMaster)], NEW w \in Worker, NEW m,
           aMaster' = [aMaster EXCEPT ![w] = Append(@, m)], NEW v \in Worker
    PROVE  /\ \A q \in Query : Respondida(v, q)' =>
                Respondida(v, q) \/ (v = w /\ m.op \in Respuestas /\ m.q = q)
           /\ \A q \in Query : Leida(v, q)' =>
                Leida(v, q) \/ (v = w /\ m.op = "LECTURA" /\ m.q = q)
           /\ RespuestaAlFinal(v) /\ (v = w => \A q \in Query : ~ Respondida(w, q))
              => RespuestaAlFinal(v)'
           /\ v # w => aMaster'[v] = aMaster[v]
<1>1. CASE v # w
  <2>1. aMaster'[v] = aMaster[v]
    BY <1>1
  <2>2. \A q \in Query : (Respondida(v, q)' => Respondida(v, q)) /\ (Leida(v, q)' => Leida(v, q))
    BY <2>1 DEF Respondida, Leida
  <2>3. RespuestaAlFinal(v) => RespuestaAlFinal(v)'
    BY <2>1 DEF RespuestaAlFinal
  <2> QED
    BY <1>1, <2>1, <2>2, <2>3
<1>2. CASE v = w
  <2> DEFINE s == aMaster[w]
             t == aMaster'[w]
  <2>1. s \in Seq(MsgAMaster) /\ t = Append(s, m)
    OBVIOUS
  <2>2. /\ Len(s) \in Nat /\ DOMAIN s = 1..Len(s) /\ DOMAIN t = 1..(Len(s) + 1)
        /\ Len(t) = Len(s) + 1
        /\ t[Len(s) + 1] = m /\ \A i \in DOMAIN s : t[i] = s[i]
    BY <2>1, Agrega
  <2>3. \A i \in DOMAIN s : s[i].q \in Query
    <3>1. \A i \in DOMAIN s : s[i] \in MsgAMaster
      BY <2>1
    <3> QED
      BY <3>1 DEF MsgAMaster
  <2>4. \A q \in Query : Respondida(v, q)' => Respondida(v, q) \/ (m.op \in Respuestas /\ m.q = q)
    BY <1>2, <2>2 DEF Respondida
  <2>5. \A q \in Query : Leida(v, q)' => Leida(v, q) \/ (m.op = "LECTURA" /\ m.q = q)
    BY <1>2, <2>2 DEF Leida
  <2>6. ASSUME \A q \in Query : ~ Respondida(w, q)
        PROVE  RespuestaAlFinal(v)'
    <3>1. \A i \in DOMAIN s : s[i].op \notin Respuestas
      BY <2>3, <2>6 DEF Respondida
    <3>2. \A i \in DOMAIN t : t[i].op \in Respuestas => i = Len(t)
      BY <2>2, <3>1
    <3> QED
      BY <1>2, <3>2 DEF RespuestaAlFinal
  <2> HIDE DEF s, t
  <2> QED
    BY <1>2, <2>4, <2>5, <2>6
<1> QED
  BY <1>1, <1>2

\* The Master's thread takes the next message; after an answer there is none.
LEMMA AlLlegar ==
    ASSUME aMaster \in [Worker -> Seq(MsgAMaster)], NEW w \in Worker, NEW op, Llega(w, op),
           NEW v \in Worker
    PROVE  /\ \A q \in Query : (Respondida(v, q)' => Respondida(v, q)) /\ (Leida(v, q)' => Leida(v, q))
           /\ RespuestaAlFinal(v) => RespuestaAlFinal(v)'
           /\ aMaster[v] = <<>> => aMaster'[v] = <<>>
           /\ Head(aMaster[w]) \in MsgAMaster
           /\ op = "LECTURA" => Leida(w, Head(aMaster[w]).q)
           /\ op \in Respuestas =>
                /\ Respondida(w, Head(aMaster[w]).q)
                /\ RespuestaAlFinal(w) => \A q \in Query : ~ Respondida(w, q)' /\ ~ Leida(w, q)'
<1> DEFINE s == aMaster[w]
           t == aMaster'[w]
<1>1. s \in Seq(MsgAMaster) /\ s # <<>> /\ t = Tail(s) /\ Head(s).op = op
  BY DEF Llega
<1>2. /\ Len(s) \in Nat \ {0} /\ DOMAIN s = 1..Len(s) /\ DOMAIN t = 1..(Len(s) - 1)
      /\ Len(t) = Len(s) - 1
      /\ \A i \in DOMAIN t : t[i] = s[i + 1] /\ i + 1 \in DOMAIN s
      /\ Head(s) = s[1] /\ 1 \in DOMAIN s /\ s[1] \in MsgAMaster
  BY <1>1, Quita
<1>3. /\ op = "LECTURA" => Leida(w, Head(s).q)
      /\ op \in Respuestas => Respondida(w, Head(s).q)
  BY <1>1, <1>2 DEF Leida, Respondida
<1>4. ASSUME op \in Respuestas, RespuestaAlFinal(w)
      PROVE  \A q \in Query : ~ Respondida(w, q)' /\ ~ Leida(w, q)'
  <2>1. DOMAIN t = {}
    BY <1>1, <1>2, <1>4 DEF RespuestaAlFinal
  <2> QED
    BY <2>1 DEF Respondida, Leida
<1>5. CASE v # w
  <2>1. aMaster'[v] = aMaster[v]
    BY <1>5 DEF Llega
  <2> QED
    BY <1>2, <1>3, <1>4, <2>1 DEF Respondida, Leida, RespuestaAlFinal
<1>6. CASE v = w
  <2>1. \A q \in Query : (Respondida(w, q)' => Respondida(w, q)) /\ (Leida(w, q)' => Leida(w, q))
    BY <1>2 DEF Respondida, Leida
  <2>2. RespuestaAlFinal(w) => RespuestaAlFinal(w)'
    <3>1. ASSUME RespuestaAlFinal(w), NEW i \in 1..(Len(s) - 1), t[i].op \in Respuestas
          PROVE  i = Len(t)
      <4>1. i + 1 \in DOMAIN s /\ s[i + 1].op \in Respuestas
        BY <1>2, <3>1
      <4>2. i + 1 = Len(s)
        BY <3>1, <4>1 DEF RespuestaAlFinal
      <4>3. Len(s) \in Nat /\ Len(t) = Len(s) - 1
        BY <1>2
      <4>4. i \in Nat
        OBVIOUS
      <4> HIDE DEF s, t
      <4> QED
        BY <4>2, <4>3, <4>4
    <3> QED
      BY <1>2, <3>1 DEF RespuestaAlFinal
  <2> QED
    BY <1>1, <1>2, <1>3, <1>4, <1>6, <2>1, <2>2
<1> QED
  BY <1>5, <1>6

\* A message to a Query Control ends its query only if it says so.
LEMMA AlAvisar ==
    ASSUME aQC \in [Query -> Seq(MsgAQC)], NEW p \in Query, NEW m, EnviarAQC(p, m), NEW q \in Query
    PROVE  Finalizada(q)' <=> Finalizada(q) \/ (q = p /\ m \in Fines)
<1>1. CASE q # p
  <2>1. aQC'[q] = aQC[q]
    BY <1>1 DEF EnviarAQC
  <2> QED
    BY <1>1, <2>1 DEF Finalizada
<1>2. CASE q = p
  <2> DEFINE s == aQC[q]
             t == aQC'[q]
  <2>1. s \in Seq(MsgAQC) /\ t = Append(s, m)
    BY <1>2 DEF EnviarAQC
  <2>2. /\ Len(s) \in Nat /\ DOMAIN s = 1..Len(s) /\ DOMAIN t = 1..(Len(s) + 1)
        /\ t[Len(s) + 1] = m /\ \A i \in DOMAIN s : t[i] = s[i]
    BY <2>1, Agrega
  <2>3. Finalizada(q)' => Finalizada(q) \/ m \in Fines
    BY <2>2 DEF Finalizada
  <2>4. Finalizada(q) \/ m \in Fines => Finalizada(q)'
    BY <2>2 DEF Finalizada
  <2> QED
    BY <1>2, <2>3, <2>4
<1> QED
  BY <1>1, <1>2

-----------------------------------------------------------------------------
(* The steps of Next that Mengua describes.                                *)

\* The Workers' threads, the acceptor and the aging threads are different ones.
LEMMA HilosDistintos ==
    /\ Aceptador \in Hilo /\ Aceptador \notin Worker /\ Aceptador \notin HilosAging
    /\ \A w \in Worker : w \in Hilo /\ w \notin HilosAging /\ w # Aceptador
    /\ \A a \in HilosAging : a \in Hilo /\ a \notin Worker /\ a # Aceptador
    /\ NoQuery \notin Query /\ NoWorker \notin Worker
BY MasterAssumption DEF Hilo

\* A thread that moves leaves the others where they are.
LEMMA MueveUno ==
    ASSUME HilosBien, NEW h \in Hilo, NEW r, Pasa(h, r)
    PROVE  hilo'[h] = r /\ \A x \in Hilo : x # h => hilo'[x] = hilo[x]
BY DEF HilosBien, Pasa

\* What is not a channel, a queue, a life or the end of a query stays.
LEMMA NadaMengua ==
    /\ UNCHANGED <<aWorker, aMaster, enCurso, etapa>> /\ Lugares => CanalesMenguan /\ VidasSiguen
    /\ UNCHANGED <<aWorker, aMaster, enCurso>> => CanalesMenguan
    /\ UNCHANGED aWorker => \A w \in Worker : /\ UnaOrden(w) => UnaOrden(w)'
                                              /\ \A q \in Query : Manda(w, q)' => Manda(w, q)
    /\ UNCHANGED aMaster => \A w \in Worker :
          /\ RespuestaAlFinal(w) => RespuestaAlFinal(w)'
          /\ \A q \in Query : (Respondida(w, q)' => Respondida(w, q)) /\ (Leida(w, q)' => Leida(w, q))
    /\ UNCHANGED <<estado, aQC>> => QueriesSiguen
    /\ UNCHANGED aQC => \A q \in Query : Finalizada(q)' <=> Finalizada(q)
    /\ UNCHANGED hilo => HilosMenguan
    /\ UNCHANGED planif => PlanifMengua
<1>1. UNCHANGED aWorker => \A w \in Worker : /\ UnaOrden(w) => UnaOrden(w)'
                                             /\ \A q \in Query : Manda(w, q)' => Manda(w, q)
  BY DEF UnaOrden, Manda
<1>2. UNCHANGED aMaster => \A w \in Worker :
          /\ RespuestaAlFinal(w) => RespuestaAlFinal(w)'
          /\ \A q \in Query : (Respondida(w, q)' => Respondida(w, q)) /\ (Leida(w, q)' => Leida(w, q))
  BY DEF RespuestaAlFinal, Respondida, Leida
<1>3. UNCHANGED aQC => \A q \in Query : Finalizada(q)' <=> Finalizada(q)
  BY DEF Finalizada
<1>4. UNCHANGED <<aWorker, aMaster, enCurso>> => CanalesMenguan
  BY <1>1, <1>2 DEF CanalesMenguan
<1>5. UNCHANGED <<aWorker, aMaster, enCurso, etapa>> /\ Lugares => CanalesMenguan /\ VidasSiguen
  BY <1>4 DEF VidasSiguen, Lugares, VidaBien
<1>6. UNCHANGED <<estado, aQC>> => QueriesSiguen
  BY <1>3 DEF QueriesSiguen
<1>7. (UNCHANGED hilo => HilosMenguan) /\ (UNCHANGED planif => PlanifMengua)
  BY DEF HilosMenguan, PlanifMengua
<1> QED
  BY <1>1, <1>2, <1>3, <1>4, <1>5, <1>6, <1>7

\* A step that changes no variable but the semaphores, the priorities, the list
\* of workers, the flags of the processes and the like.
LEMMA PasoQuieto ==
    ASSUME Tipos, Lugares, HilosMenguan, PlanifMengua,
           UNCHANGED <<colaReady, colaLibres, idQuery, aWorker, aMaster, aQC, enCurso, etapa>>,
           \A q \in Query : estado'[q] = estado[q] \/ estado'[q] = "EXIT"
    PROVE  Lugares'
<1>1. QueriesSiguen
  BY NadaMengua DEF QueriesSiguen
<1> QED
  BY <1>1, NadaMengua, MenguaPaso DEF Mengua

\* The scheduler's waits, and its push into cola_exec.
LEMMA PasoPlanif ==
    ASSUME Tipos, Lugares, PlanEsperaQuery \/ PlanEsperaWorker \/ PlanEncolaExec
    PROVE  Lugares'
<1>1. PlanifMengua
  BY DEF Tipos, TypeOK, RegPlanif, PlanEsperaQuery, PlanEsperaWorker, PlanEncolaExec,
         PlanifMengua, Temprano, Tardio
<1>2. UNCHANGED <<colaReady, colaLibres, datos, hilo, aWorker, aMaster, aQC, procesos>>
  BY DEF PlanEsperaQuery, PlanEsperaWorker, PlanEncolaExec, colas
<1> QED
  BY <1>1, <1>2, NadaMengua, PasoQuieto DEF datos, procesos

\* A thread that evaluates an eviction keeps its worker taken until it ends.
LEMMA EvaluaMengua ==
    ASSUME Tipos, NEW h \in Hilo, Evaluador(h)
    PROVE  HilosMenguan
<1>1. hilo[h] \in RegHilo /\ HilosBien
  BY DEF Tipos, HilosBien
<1>2. hilo[h].pc \in Evaluando \cup {"despierta"}
  BY DEF Evaluador, EvalLibres, EvalPeor, EvalBuscar, EvalEnvia, Despierta, Evaluando
<1>3. PICK r : Pasa(h, r) /\ \/ r.pc \in Evaluando \cup {TrasEvaluar(h)}
                             \/ r.pc = IF h = Aceptador THEN "responde" ELSE "suelta"
  <2> DEFINE D(r) == /\ Pasa(h, r)
                     /\ \/ r.pc \in Evaluando \cup {TrasEvaluar(h)}
                        \/ r.pc = IF h = Aceptador THEN "responde" ELSE "suelta"
  <2>1. ASSUME NEW p, Ir(h, p), \/ p \in Evaluando \cup {TrasEvaluar(h)}
                                \/ p = IF h = Aceptador THEN "responde" ELSE "suelta"
        PROVE  \E r : D(r)
    <3>1. Pasa(h, [hilo[h] EXCEPT !.pc = p]) /\ [hilo[h] EXCEPT !.pc = p].pc = p
      BY <1>1, <2>1 DEF Ir, RegHilo
    <3> QED
      BY <2>1, <3>1
  <2>2. CASE EvalLibres(h)
    BY <2>1, <2>2 DEF EvalLibres, Evaluando
  <2>3. CASE EvalPeor(h)
    <3>1. \A x : [hilo[h] EXCEPT !.pc = "ev_buscar", !.peor = x].pc \in Evaluando
      BY <1>1 DEF RegHilo, Evaluando
    <3> QED
      BY <2>1, <2>3, <3>1 DEF EvalPeor
  <2>4. CASE EvalBuscar(h)
    <3>1. \A x : [hilo[h] EXCEPT !.pc = "ev_envia", !.w = x].pc \in Evaluando
      BY <1>1 DEF RegHilo, Evaluando
    <3>2. [hilo[h] EXCEPT !.pc = TrasEvaluar(h), !.peor = NoQuery].pc = TrasEvaluar(h)
      BY <1>1 DEF RegHilo
    <3> QED
      BY <2>4, <3>1, <3>2 DEF EvalBuscar
  <2>5. CASE EvalEnvia(h)
    <3>1. [hilo[h] EXCEPT !.pc = TrasEvaluar(h), !.peor = NoQuery, !.w = NoWorker].pc = TrasEvaluar(h)
      BY <1>1 DEF RegHilo
    <3> QED
      BY <2>5, <3>1 DEF EvalEnvia
  <2>6. CASE Despierta(h)
    BY <2>1, <2>6 DEF Despierta
  <2> QED
    BY <2>2, <2>3, <2>4, <2>5, <2>6 DEF Evaluador
<1>4. hilo'[h] = r /\ \A x \in Hilo : x # h => hilo'[x] = hilo[x]
  BY <1>1, <1>3, MueveUno
<1>5. CASE h \in Worker
  <2>1. r.pc \in Soltando /\ Suelta(h) /\ h # Aceptador
    BY <1>2, <1>3, <1>5, HilosDistintos DEF Soltando, TrasEvaluar, Suelta
  <2> QED
    BY <1>4, <2>1, HilosDistintos DEF HilosMenguan
<1>6. CASE h \notin Worker
  <2>1. r.pc \notin {"avisa_alta", "confirma"}
    BY <1>3 DEF TrasEvaluar, Evaluando
  <2> QED
    BY <1>4, <1>6, <2>1, HilosDistintos DEF HilosMenguan
<1> QED
  BY <1>5, <1>6

\* The eviction check, its request and the sem_post of push_ready.
LEMMA PasoEvaluador ==
    ASSUME Tipos, Lugares, NEW h \in Hilo, Evaluador(h)
    PROVE  Lugares'
<1>1. HilosMenguan
  BY EvaluaMengua
<1>2. UNCHANGED <<colas, datos, planif, aMaster, aQC, procesos>>
  BY DEF Evaluador, EvalLibres, EvalPeor, EvalBuscar, EvalEnvia, Despierta, sems
<1>3. CASE UNCHANGED aWorker
  BY <1>1, <1>2, <1>3, NadaMengua, PasoQuieto DEF colas, datos, procesos
<1>4. CASE EvalEnvia(h)
  <2> DEFINE w == hilo[h].w
             m == [op |-> "DESALOJAR", q |-> hilo[h].peor, pc |-> 0]
  <2>1. EnviarAWorker(w, m) /\ aWorker \in [Worker -> Seq(MsgAWorker)]
    BY <1>4 DEF EvalEnvia, Tipos, TypeOK
  <2>2. CASE w \notin Worker
    <3>1. aWorker' = aWorker
      BY <2>1, <2>2 DEF EnviarAWorker
    <3> QED
      BY <1>3, <3>1
  <2>3. CASE w \in Worker
    <3>1. m.op = "DESALOJAR"
      OBVIOUS
    <3> HIDE DEF w, m
    <3>2. \A v \in Worker :
            /\ \A q \in Query : Manda(v, q)' => Manda(v, q)
            /\ UnaOrden(v) => UnaOrden(v)'
            /\ etapa[v] = "caido" => aWorker'[v] = aWorker[v]
      BY <2>1, <2>3, <3>1, AlMandar
    <3>3. CanalesMenguan /\ VidasSiguen
      BY <1>2, <3>2, NadaMengua DEF CanalesMenguan, VidasSiguen, procesos, Lugares, VidaBien
    <3>4. QueriesSiguen /\ PlanifMengua
      BY <1>2, NadaMengua DEF datos
    <3> QED
      BY <1>1, <1>2, <3>3, <3>4, MenguaPaso DEF Mengua, colas, datos
  <2> QED
    BY <2>2, <2>3
<1> QED
  BY <1>3, <1>4 DEF Evaluador, EvalLibres, EvalPeor, EvalBuscar, Despierta

\* An aging thread wakes; the acceptor answers a Query Control or counts a
\* worker; a Worker's thread posts its worker; a Query Control leaves.
LEMMA PasoSuelto ==
    ASSUME Tipos, Lugares,
           \/ \E a \in HilosAging : Envejece(a)
           \/ AvisarAlta
           \/ \E w \in Worker : AvisarLibre(w)
           \/ \E q \in Query : BajaQC(q)
    PROVE  Lugares'
<1>0. HilosBien
  BY DEF Tipos
<1>1. ASSUME NEW a \in HilosAging, Envejece(a) PROVE Lugares'
  <2>1. PICK r : Pasa(a, r)
    BY <1>1 DEF Envejece, Ir, IrCon
  <2>2. HilosMenguan
    BY <1>0, <2>1, MueveUno, HilosDistintos DEF HilosMenguan
  <2>3. UNCHANGED <<colas, estado, idQuery, planif, aWorker, aMaster, aQC, procesos>>
    BY <1>1 DEF Envejece
  <2> QED
    BY <2>2, <2>3, NadaMengua, PasoQuieto DEF colas, procesos
<1>2. CASE AvisarAlta
  <2>1. /\ Pasa(Aceptador, [hilo[Aceptador] EXCEPT !.pc = "confirma"])
        /\ [hilo[Aceptador] EXCEPT !.pc = "confirma"].w = hilo[Aceptador].w
    BY <1>0, <1>2, HilosDistintos DEF AvisarAlta, Ir, HilosBien, RegHilo
  <2>2. HilosMenguan
    BY <1>0, <1>2, <2>1, MueveUno, HilosDistintos DEF HilosMenguan, AvisarAlta
  <2>3. UNCHANGED <<colas, datos, planif, aWorker, aMaster, aQC, procesos>>
    BY <1>2 DEF AvisarAlta
  <2> QED
    BY <2>2, <2>3, NadaMengua, PasoQuieto DEF colas, datos, procesos
<1>3. ASSUME NEW w \in Worker, AvisarLibre(w) PROVE Lugares'
  <2>1. /\ Pasa(w, [hilo[w] EXCEPT !.pc = "escucha"])
        /\ [hilo[w] EXCEPT !.pc = "escucha"].pc = "escucha"
    BY <1>0, <1>3, HilosDistintos DEF AvisarLibre, Ir, HilosBien, RegHilo
  <2>2. HilosMenguan
    BY <1>0, <1>3, <2>1, MueveUno, HilosDistintos DEF HilosMenguan, AvisarLibre
  <2>3. UNCHANGED <<colas, datos, planif, aWorker, aMaster, aQC, procesos>>
    BY <1>3 DEF AvisarLibre
  <2> QED
    BY <2>2, <2>3, NadaMengua, PasoQuieto DEF colas, datos, procesos
<1>4. ASSUME NEW p \in Query, BajaQC(p) PROVE Lugares'
  <2>1. \A q \in Query : estado'[q] = estado[q] \/ estado'[q] = "EXIT"
    BY <1>4 DEF BajaQC, Tipos, TypeOK
  <2>2. UNCHANGED <<colas, idQuery, planif, hilo, aWorker, aMaster, aQC, etapa, enCurso>>
    BY <1>4 DEF BajaQC
  <2> QED
    BY <2>1, <2>2, NadaMengua, PasoQuieto DEF colas
<1> QED
  BY <1>1, <1>2, <1>3, <1>4

\* The answer to a Query Control and a READ result on its way to one.
LEMMA PasoAviso ==
    ASSUME Tipos, Lugares, ResponderQC \/ \E w \in Worker : RecibirLectura(w)
    PROVE  Lugares'
<1>0. HilosBien /\ aQC \in [Query -> Seq(MsgAQC)] /\ aMaster \in [Worker -> Seq(MsgAMaster)]
  BY DEF Tipos, TypeOK
<1>1. CASE ResponderQC
  <2> DEFINE p == hilo[Aceptador].q
  <2>1. EnviarAQC(p, "QUERY_RECIBIDA")
    BY <1>1 DEF ResponderQC
  <2>2. \A q \in Query : Finalizada(q)' => Finalizada(q)
    <3>1. CASE p \in Query
      BY <1>0, <2>1, <3>1, AlAvisar DEF Fines
    <3>2. CASE p \notin Query
      <4>1. aQC' = aQC
        BY <1>0, <2>1, <3>2 DEF EnviarAQC
      <4> QED
        BY <4>1, NadaMengua
    <3> QED
      BY <3>1, <3>2
  <2>3. UNCHANGED <<colas, datos, planif, aWorker, aMaster, procesos>>
    BY <1>1 DEF ResponderQC
  <2>4. QueriesSiguen
    BY <2>2, <2>3 DEF QueriesSiguen, datos
  <2>5. /\ Pasa(Aceptador, [hilo[Aceptador] EXCEPT !.pc = "inactivo", !.q = NoQuery])
        /\ [hilo[Aceptador] EXCEPT !.pc = "inactivo", !.q = NoQuery].pc = "inactivo"
    BY <1>0, <1>1, HilosDistintos DEF ResponderQC, IrCon, HilosBien, RegHilo
  <2>6. HilosMenguan
    BY <1>0, <2>5, MueveUno, HilosDistintos DEF HilosMenguan
  <2> QED
    BY <2>3, <2>4, <2>6, NadaMengua, MenguaPaso DEF Mengua, colas, datos, procesos
<1>2. ASSUME NEW w \in Worker, RecibirLectura(w) PROVE Lugares'
  <2> DEFINE p == Head(aMaster[w]).q
  <2>1. Llega(w, "LECTURA") /\ EnviarAQC(p, "READ")
    BY <1>2 DEF RecibirLectura
  <2>2. p \in Query
    BY <1>0, <2>1, AlLlegar DEF MsgAMaster
  <2>3. UNCHANGED <<colas, sems, datos, planif, hilo, aWorker, procesos>>
    BY <1>2 DEF RecibirLectura
  <2>4. \A v \in Worker :
          /\ \A q \in Query : (Respondida(v, q)' => Respondida(v, q)) /\ (Leida(v, q)' => Leida(v, q))
          /\ RespuestaAlFinal(v) => RespuestaAlFinal(v)'
          /\ aMaster[v] = <<>> => aMaster'[v] = <<>>
    BY <1>0, <2>1, AlLlegar
  <2>5. CanalesMenguan /\ VidasSiguen
    BY <2>3, <2>4, NadaMengua DEF CanalesMenguan, VidasSiguen, procesos, Lugares, VidaBien
  <2>6. \A q \in Query : Finalizada(q)' => Finalizada(q)
    BY <1>0, <2>1, <2>2, AlAvisar DEF Fines
  <2>7. QueriesSiguen
    BY <2>3, <2>6 DEF QueriesSiguen, datos
  <2> QED
    BY <2>3, <2>5, <2>7, NadaMengua, MenguaPaso DEF Mengua, colas, datos, procesos
<1> QED
  BY <1>1, <1>2

\* What a Worker process does without answering: it reads the handshake's answer
\* or an eviction, finds no script, or dies.
LEMMA PasoProceso ==
    ASSUME Tipos, Lugares, NEW w \in Worker,
           \/ WorkerSaludo(w) \/ WorkerRecibeDesalojo(w) \/ CaeWorker(w)
           \/ \E q \in Query : WorkerNoAbre(w, q)
    PROVE  Lugares'
<1>0. /\ aWorker \in [Worker -> Seq(MsgAWorker)] /\ aMaster \in [Worker -> Seq(MsgAMaster)]
      /\ enCurso \in [Worker -> SUBSET Query]
      /\ etapa \in [Worker -> {"fuera", "esperando_ok", "listo", "desincronizado", "caido"}]
      /\ \A v \in Worker : etapa[v] = "caido" => aWorker[v] = <<>> /\ enCurso[v] = {}
  BY DEF Tipos, TypeOK, Lugares, VidaBien
<1>1. UNCHANGED <<colas, datos, planif, hilo, aQC>>
  BY DEF WorkerSaludo, WorkerRecibeDesalojo, CaeWorker, WorkerNoAbre
<1>2. CASE WorkerSaludo(w) \/ WorkerRecibeDesalojo(w)
  <2>1. Consume(w) /\ UNCHANGED <<aMaster, enCurso>>
    BY <1>2 DEF WorkerSaludo, WorkerRecibeDesalojo
  <2>2. \A v \in Worker :
          /\ \A q \in Query : Manda(v, q)' => Manda(v, q)
          /\ UnaOrden(v) => UnaOrden(v)'
          /\ aWorker[v] = <<>> => aWorker'[v] = <<>>
    BY <1>0, <2>1, AlConsumir
  <2>3. CanalesMenguan
    BY <2>1, <2>2, NadaMengua DEF CanalesMenguan
  <2>4. \A v \in Worker : \/ etapa'[v] = etapa[v]
                          \/ etapa[v] = "esperando_ok" /\ etapa'[v] \in {"listo", "desincronizado"}
    <3>1. CASE WorkerSaludo(w)
      <4>1. PICK e \in {"listo", "desincronizado"} : etapa' = [etapa EXCEPT ![w] = e]
        BY <3>1 DEF WorkerSaludo
      <4>2. etapa[w] = "esperando_ok"
        BY <3>1 DEF WorkerSaludo
      <4> QED
        BY <1>0, <4>1, <4>2
    <3>2. CASE WorkerRecibeDesalojo(w)
      BY <3>2 DEF WorkerRecibeDesalojo
    <3> QED
      BY <1>2, <3>1, <3>2
  <2>5. VidasSiguen
    BY <1>0, <2>1, <2>2, <2>4 DEF VidasSiguen
  <2> QED
    BY <1>1, <2>3, <2>5, NadaMengua, MenguaPaso DEF Mengua, colas, datos
<1>3. CASE CaeWorker(w)
  <2>1. PICK n \in 0..Len(aMaster[w]) : aMaster' = [aMaster EXCEPT ![w] = SubSeq(@, 1, n)]
    BY <1>3 DEF CaeWorker
  <2>2. /\ etapa' = [etapa EXCEPT ![w] = "caido"] /\ etapa[w] # "fuera"
        /\ enCurso' = [enCurso EXCEPT ![w] = {}]
        /\ aWorker' = [aWorker EXCEPT ![w] = <<>>]
    BY <1>3 DEF CaeWorker
  <2>3. \A v \in Worker : /\ UnaOrden(v) => UnaOrden(v)'
                          /\ \A q \in Query : Manda(v, q)' => Manda(v, q)
    BY <1>0, <2>2 DEF UnaOrden, Manda
  <2>4. ASSUME NEW v \in Worker
        PROVE  /\ RespuestaAlFinal(v) => RespuestaAlFinal(v)'
               /\ aMaster[v] = <<>> => aMaster'[v] = <<>>
               /\ \A q \in Query : (Respondida(v, q)' => Respondida(v, q))
                                   /\ (Leida(v, q)' => Leida(v, q))
    <3>1. CASE v # w
      <4>1. aMaster'[v] = aMaster[v]
        BY <1>0, <2>1, <3>1
      <4> QED
        BY <4>1 DEF RespuestaAlFinal, Respondida, Leida
    <3>2. CASE v = w
      <4> DEFINE s == aMaster[w]
                 t == aMaster'[w]
      <4>1. s \in Seq(MsgAMaster) /\ t = SubSeq(s, 1, n) /\ n \in 0..Len(s)
        BY <1>0, <2>1
      <4>2. /\ Len(s) \in Nat /\ DOMAIN s = 1..Len(s) /\ DOMAIN t = 1..n /\ Len(t) = n
            /\ \A i \in 1..n : t[i] = s[i] /\ i \in DOMAIN s /\ i \in Nat
        BY <4>1, Corta
      <4>3. RespuestaAlFinal(w) => RespuestaAlFinal(w)'
        <5> SUFFICES ASSUME RespuestaAlFinal(w), NEW i \in 1..n, t[i].op \in Respuestas
                     PROVE  i = n
          BY <4>2 DEF RespuestaAlFinal
        <5>1. i = Len(s)
          BY <4>2 DEF RespuestaAlFinal
        <5>2. n \in Nat /\ n <= Len(s) /\ i \in Nat /\ i <= n /\ Len(s) \in Nat
          BY <4>1, <4>2
        <5> HIDE DEF s, t
        <5> QED
          BY <5>1, <5>2
      <4>4. \A q \in Query : (Respondida(w, q)' => Respondida(w, q)) /\ (Leida(w, q)' => Leida(w, q))
        BY <4>2 DEF Respondida, Leida
      <4>5. s = <<>> => t = <<>>
        BY <4>1, <4>2
      <4> QED
        BY <3>2, <4>3, <4>4, <4>5
    <3> QED
      BY <3>1, <3>2
  <2>5. CanalesMenguan
    BY <1>0, <2>2, <2>3, <2>4 DEF CanalesMenguan
  <2>6. VidasSiguen
    BY <1>0, <2>2 DEF VidasSiguen
  <2> QED
    BY <1>1, <2>5, <2>6, NadaMengua, MenguaPaso DEF Mengua, colas, datos
<1>4. ASSUME NEW p \in Query, WorkerNoAbre(w, p) PROVE Lugares'
  <2>1. UNCHANGED <<aWorker, aMaster, etapa>> /\ enCurso' = [enCurso EXCEPT ![w] = @ \ {p}]
    BY <1>4 DEF WorkerNoAbre
  <2>2. \A v \in Worker : enCurso'[v] \subseteq enCurso[v]
    BY <1>0, <2>1
  <2>3. CanalesMenguan
    BY <2>1, <2>2, NadaMengua DEF CanalesMenguan
  <2>4. VidasSiguen
    BY <1>0, <2>1, <2>2 DEF VidasSiguen
  <2> QED
    BY <1>1, <2>3, <2>4, NadaMengua, MenguaPaso DEF Mengua, colas, datos
<1> QED
  BY <1>2, <1>3, <1>4

-----------------------------------------------------------------------------
(* elegir_query_por_prioridad, query by query.                             *)

\* Position t of the scan puts into aux the query that was the best until then if
\* t improves on it, its own query if not; the first improvement puts nothing.
Previa(M, n) == [t \in 1..n |-> IF t \in M THEN Mayor({i \in M : i < t}) ELSE t]
Origen(M, n) == [k \in 1..(n - 1) |-> IF k < Menor(M) THEN Previa(M, n)[k] ELSE Previa(M, n)[k + 1]]

\* Apart from the first improvement, no two positions put the same query, and
\* every query but the last improvement is put.
LEMMA PreviaBien ==
    ASSUME NEW n \in Nat, NEW M \in SUBSET (1..n), M # {}
    PROVE  LET P == Previa(M, n) a == Menor(M) z == Mayor(M) IN
           /\ \A t \in 1..n : t # a => P[t] \in 1..n /\ P[t] # z
           /\ \A t, u \in 1..n : t # a /\ u # a /\ P[t] = P[u] => t = u
           /\ \A i \in 1..n : i # z => \E t \in 1..n : t # a /\ P[t] = i
<1> DEFINE P == Previa(M, n)
           a == Menor(M)
           z == Mayor(M)
           B(t) == {i \in M : i < t}
           C(t) == {i \in M : t < i}
<1>0. M \in SUBSET Nat /\ \A y \in M : y \in 1..n /\ y \in Nat
  OBVIOUS
<1>1. a \in M /\ z \in M /\ a \in Nat /\ z \in 1..n /\ z \in Nat
      /\ \A y \in M : a <= y /\ y <= z
  BY <1>0, MenorEs, MayorEs
<1>2. \A t \in 1..n : P[t] = IF t \in M THEN Mayor(B(t)) ELSE t
  BY DEF Previa
<1> HIDE DEF P, a, z
<1>3. ASSUME NEW t \in M, t # a
      PROVE  P[t] \in M /\ P[t] < t /\ \A y \in M : y < t => y <= P[t]
  <2>1. t \in 1..n /\ t \in Nat /\ a \in B(t) /\ B(t) \in SUBSET (1..n)
    <3>1. t \in 1..n /\ t \in Nat /\ a <= t /\ a \in Nat /\ a \in M
      BY <1>0, <1>1
    <3>2. a < t
      BY <1>3, <3>1
    <3> QED
      BY <3>1, <3>2
  <2>2. Mayor(B(t)) \in B(t) /\ \A y \in B(t) : y <= Mayor(B(t))
    <3> HIDE DEF B
    <3> QED
      BY <2>1, MayorEs
  <2> QED
    BY <1>2, <2>1, <2>2
<1>4. \A t \in 1..n : t \notin M => P[t] = t
  BY <1>2
<1>5. ASSUME NEW t \in 1..n, t # a
      PROVE  P[t] \in 1..n /\ P[t] # z
  <2>1. CASE t \in M
    <3>1. P[t] \in M /\ P[t] < t /\ t <= z /\ P[t] \in Nat /\ t \in Nat /\ z \in Nat
      BY <1>0, <1>1, <1>3, <1>5, <2>1
    <3> QED
      BY <1>0, <3>1
  <2>2. CASE t \notin M
    BY <1>1, <1>4, <2>2
  <2> QED
    BY <2>1, <2>2
<1>6. ASSUME NEW t \in 1..n, NEW u \in 1..n, t # a, u # a, P[t] = P[u]
      PROVE  t = u
  <2>1. ASSUME NEW x \in M, NEW y \in M, x # a, y # a, x < y
        PROVE  P[x] # P[y]
    <3>1. P[x] < x /\ x <= P[y] /\ x \in Nat /\ P[x] \in Nat /\ P[y] \in Nat
      BY <1>0, <1>1, <1>3, <2>1
    <3> QED
      BY <3>1
  <2>2. CASE t \in M /\ u \in M
    <3>1. t < u \/ u < t \/ t = u
      OBVIOUS
    <3> QED
      BY <1>6, <2>1, <2>2, <3>1
  <2>3. CASE ~ (t \in M /\ u \in M)
    BY <1>3, <1>4, <1>6, <2>3
  <2> QED
    BY <2>2, <2>3
<1>7. ASSUME NEW i \in 1..n, i # z
      PROVE  \E t \in 1..n : t # a /\ P[t] = i
  <2>1. CASE i \notin M
    BY <1>1, <1>4, <2>1
  <2>2. CASE i \in M
    <3> DEFINE t == Menor(C(i))
    <3>1. C(i) \in SUBSET Nat /\ z \in C(i)
      <4>1. i <= z /\ i \in Nat /\ z \in Nat /\ z \in M
        BY <1>0, <1>1, <2>2
      <4>2. i < z
        BY <1>7, <4>1
      <4> QED
        BY <1>0, <4>1, <4>2
    <3>2. t \in C(i) /\ \A y \in C(i) : t <= y
      <4> HIDE DEF C
      <4> QED
        BY <3>1, MenorEs
    <3> HIDE DEF t
    <3>3. t \in M /\ i < t /\ t \in 1..n /\ t \in Nat /\ i \in Nat /\ a <= i /\ a \in Nat
      BY <1>0, <1>1, <2>2, <3>2
    <3>4. t # a
      BY <3>3
    <3>5. P[t] \in M /\ P[t] < t /\ i <= P[t] /\ P[t] \in Nat
      BY <1>0, <1>1, <1>3, <2>2, <3>3, <3>4
    <3>6. ~ (i < P[t])
      <4> SUFFICES ASSUME i < P[t] PROVE FALSE
        OBVIOUS
      <4>1. P[t] \in C(i)
        BY <3>5
      <4>2. t <= P[t]
        BY <3>2, <4>1
      <4> QED
        BY <3>3, <3>5, <4>2
    <3>7. P[t] = i
      BY <3>3, <3>5, <3>6
    <3> QED
      BY <3>3, <3>4, <3>7
  <2> QED
    BY <2>1, <2>2
<1> QED
  BY <1>5, <1>6, <1>7 DEF P, a, z

\* The same for the queue rebuilt from aux, where the positions after the first
\* improvement have moved one forward.
LEMMA OrigenBien ==
    ASSUME NEW n \in Nat, NEW M \in SUBSET (1..n), M # {}
    PROVE  LET F == Origen(M, n) z == Mayor(M) IN
           /\ \A k \in 1..(n - 1) : F[k] \in 1..n /\ F[k] # z
           /\ \A k, l \in 1..(n - 1) : F[k] = F[l] => k = l
           /\ \A i \in 1..n : i # z => \E k \in 1..(n - 1) : F[k] = i
<1> DEFINE F == Origen(M, n)
           P == Previa(M, n)
           a == Menor(M)
           z == Mayor(M)
<1>1. a \in 1..n
  <2>1. M \in SUBSET Nat
    OBVIOUS
  <2> QED
    BY <2>1, MenorEs
<1>2. /\ \A t \in 1..n : t # a => P[t] \in 1..n /\ P[t] # z
      /\ \A t, u \in 1..n : t # a /\ u # a /\ P[t] = P[u] => t = u
      /\ \A i \in 1..n : i # z => \E t \in 1..n : t # a /\ P[t] = i
  BY PreviaBien
<1>3. \A k \in 1..(n - 1) : F[k] = IF k < a THEN P[k] ELSE P[k + 1]
  BY DEF Origen
<1> HIDE DEF F, P, a, z
<1>4. \A k \in 1..(n - 1) : /\ k < a => k \in 1..n /\ k # a /\ F[k] = P[k]
                            /\ ~ (k < a) => k + 1 \in 1..n /\ k + 1 # a /\ F[k] = P[k + 1]
  BY <1>1, <1>3
<1>5. ASSUME NEW i \in 1..n, i # z
      PROVE  \E k \in 1..(n - 1) : F[k] = i
  <2>1. PICK t \in 1..n : t # a /\ P[t] = i
    BY <1>2, <1>5
  <2>2. CASE t < a
    <3>1. t \in 1..(n - 1)
      BY <1>1, <2>2
    <3> QED
      BY <1>4, <2>1, <2>2, <3>1
  <2>3. CASE ~ (t < a)
    <3>1. t - 1 \in 1..(n - 1) /\ ~ (t - 1 < a) /\ (t - 1) + 1 = t
      BY <1>1, <2>1, <2>3
    <3> QED
      BY <1>4, <2>1, <3>1
  <2> QED
    BY <2>2, <2>3
<1>6. ASSUME NEW k \in 1..(n - 1), NEW l \in 1..(n - 1), F[k] = F[l]
      PROVE  k = l
  <2>1. PICK t \in 1..n : t # a /\ F[k] = P[t] /\ t = IF k < a THEN k ELSE k + 1
    BY <1>4
  <2>2. PICK u \in 1..n : u # a /\ F[l] = P[u] /\ u = IF l < a THEN l ELSE l + 1
    BY <1>4
  <2>3. t = u
    BY <1>2, <1>6, <2>1, <2>2
  <2> QED
    BY <1>1, <2>1, <2>2, <2>3
<1> QED
  BY <1>2, <1>4, <1>5, <1>6 DEF F, z

\* The code's queue is the one Origen describes.
LEMMA RestoOrigen ==
    ASSUME colaReady \in Seq(Query), Mejoras # {}
    PROVE  LET n == Len(colaReady) IN
           /\ n \in Nat /\ DOMAIN colaReady = 1..n /\ Mejoras \in SUBSET (1..n)
           /\ DOMAIN RestoPrioridad = 1..(n - 1)
           /\ \A k \in 1..(n - 1) : RestoPrioridad[k] = colaReady[Origen(Mejoras, n)[k]]
           /\ ElegidaPrioridad = colaReady[Mayor(Mejoras)] /\ Mayor(Mejoras) \in 1..n
<1> DEFINE n == Len(colaReady)
           a == Menor(Mejoras)
           A_aux(t) == IF t \in Mejoras
                       THEN colaReady[Mayor({i \in Mejoras : i < t})]
                       ELSE colaReady[t]
           f == [k \in 1..(n - 1) |-> IF k < a THEN A_aux(k) ELSE A_aux(k + 1)]
<1>1. n \in Nat /\ DOMAIN colaReady = 1..n /\ Mejoras \in SUBSET (1..n)
  BY DEF Mejoras, Candidatas
<1>2. RestoPrioridad = f
  BY DEF RestoPrioridad
<1>3. \A t \in 1..n : A_aux(t) = colaReady[Previa(Mejoras, n)[t]]
  BY DEF Previa
<1>4. a \in 1..n /\ Mayor(Mejoras) \in 1..n
  <2>1. Mejoras \in SUBSET Nat
    BY <1>1
  <2> QED
    BY <1>1, <2>1, MenorEs, MayorEs
<1> HIDE DEF A_aux
<1>5. \A k \in 1..(n - 1) : f[k] = colaReady[Origen(Mejoras, n)[k]]
  <2> SUFFICES ASSUME NEW k \in 1..(n - 1) PROVE f[k] = colaReady[Origen(Mejoras, n)[k]]
    OBVIOUS
  <2>1. k \in 1..n /\ k + 1 \in 1..n
    BY <1>1
  <2>2. Origen(Mejoras, n)[k] = IF k < a THEN Previa(Mejoras, n)[k] ELSE Previa(Mejoras, n)[k + 1]
    BY DEF Origen
  <2>3. f[k] = IF k < a THEN A_aux(k) ELSE A_aux(k + 1)
    OBVIOUS
  <2> QED
    BY <1>3, <2>1, <2>2, <2>3
<1> QED
  BY <1>1, <1>2, <1>4, <1>5 DEF ElegidaPrioridad

\* The scheduler takes out of cola_ready the query it chooses, once, and no
\* other; with none to choose it leaves the queue alone.
LEMMA AlElegir ==
    ASSUME Tipos, PlanElige, NEW e, e = planif'.q
    PROVE  /\ e \in QueryN
           /\ \A p \in Query : (EnReady(p)' => EnReady(p)) /\ (UnicaReady(p) => UnicaReady(p)')
           /\ \A p \in Query : EnReady(p) /\ p # e => EnReady(p)'
           /\ e \in Query => EnReady(e) /\ (UnicaReady(e) => ~ EnReady(e)')
           /\ planif'.w = planif.w
           /\ planif'.pc = IF e = NoQuery THEN "espera_query" ELSE "saca_worker"
<1>1. colaReady \in Seq(Query) /\ NoQuery \notin Query /\ planif \in RegPlanif
  BY HilosDistintos DEF Tipos, TypeOK
<1>2. /\ e = IF Prioridades THEN ElegidaPrioridad ELSE ElegidaFIFO
      /\ planif'.w = planif.w
      /\ planif'.pc = IF e = NoQuery THEN "espera_query" ELSE "saca_worker"
  BY <1>1 DEF PlanElige, RegPlanif
<1> DEFINE n == Len(colaReady)
<1>3. n \in Nat /\ DOMAIN colaReady = 1..n /\ \A i \in 1..n : colaReady[i] \in Query
  BY <1>1
<1>4. PICK m : m = n
  OBVIOUS
<1>5. ASSUME e = NoQuery, colaReady' = colaReady
      PROVE  /\ e \in QueryN
             /\ \A p \in Query : (EnReady(p)' => EnReady(p)) /\ (UnicaReady(p) => UnicaReady(p)')
             /\ \A p \in Query : EnReady(p) /\ p # e => EnReady(p)'
             /\ e \notin Query
  BY <1>1, <1>5 DEF EnReady, UnicaReady, QueryN
<1> HIDE DEF n
<1>6. ASSUME NEW F, NEW z \in 1..m, e = colaReady[z],
             DOMAIN colaReady' = 1..(m - 1),
             \A k \in 1..(m - 1) : colaReady'[k] = colaReady[F[k]],
             \A k \in 1..(m - 1) : F[k] \in 1..m /\ F[k] # z,
             \A k, l \in 1..(m - 1) : F[k] = F[l] => k = l,
             \A i \in 1..m : i # z => \E k \in 1..(m - 1) : F[k] = i
      PROVE  /\ e \in Query
             /\ \A p \in Query : (EnReady(p)' => EnReady(p)) /\ (UnicaReady(p) => UnicaReady(p)')
             /\ \A p \in Query : EnReady(p) /\ p # e => EnReady(p)'
             /\ EnReady(e) /\ (UnicaReady(e) => ~ EnReady(e)')
  <2>0. DOMAIN colaReady = 1..m /\ \A i \in 1..m : colaReady[i] \in Query
    BY <1>3, <1>4
  <2>1. e \in Query /\ EnReady(e)
    BY <2>0, <1>6 DEF EnReady
  <2>2. \A p \in Query : EnReady(p)' => EnReady(p)
    BY <2>0, <1>6 DEF EnReady
  <2>3. \A p \in Query : UnicaReady(p) => UnicaReady(p)'
    BY <2>0, <1>6 DEF UnicaReady
  <2>4. ASSUME NEW p \in Query, EnReady(p), p # e
        PROVE  EnReady(p)'
    <3>1. PICK i \in 1..m : colaReady[i] = p
      BY <2>0, <2>4 DEF EnReady
    <3>2. PICK k \in 1..(m - 1) : F[k] = i
      BY <1>6, <2>4, <3>1
    <3>3. colaReady'[k] = p
      BY <1>6, <3>1, <3>2
    <3> QED
      BY <1>6, <3>3 DEF EnReady
  <2>5. ASSUME UnicaReady(e), EnReady(e)'
        PROVE  FALSE
    <3>1. PICK k \in 1..(m - 1) : colaReady'[k] = e
      BY <1>6, <2>5 DEF EnReady
    <3>2. F[k] \in 1..m /\ F[k] # z /\ colaReady[F[k]] = e
      BY <1>6, <3>1
    <3> QED
      BY <2>0, <1>6, <2>5, <3>2 DEF UnicaReady
  <2> QED
    BY <2>1, <2>2, <2>3, <2>4, <2>5
<1>7. CASE Prioridades
  <2>1. e = ElegidaPrioridad /\ colaReady' = RestoPrioridad
    BY <1>2, <1>7 DEF PlanElige
  <2>2. CASE Mejoras = {}
    <3>1. e = NoQuery /\ colaReady' = colaReady
      BY <2>1, <2>2 DEF ElegidaPrioridad, RestoPrioridad
    <3> QED
      BY <1>2, <1>5, <3>1
  <2>3. CASE Mejoras # {}
    <3>1. PICK F, z : F = Origen(Mejoras, m) /\ z = Mayor(Mejoras)
      OBVIOUS
    <3>2. /\ DOMAIN colaReady' = 1..(m - 1) /\ \A k \in 1..(m - 1) : colaReady'[k] = colaReady[F[k]]
          /\ e = colaReady[z] /\ z \in 1..m /\ Mejoras \in SUBSET (1..m)
      BY <1>1, <1>4, <2>1, <2>3, <3>1, RestoOrigen DEF n
    <3>3. /\ \A k \in 1..(m - 1) : F[k] \in 1..m /\ F[k] # z
          /\ \A k, l \in 1..(m - 1) : F[k] = F[l] => k = l
          /\ \A i \in 1..m : i # z => \E k \in 1..(m - 1) : F[k] = i
      <4>1. PICK M \in SUBSET (1..m) : M = Mejoras /\ M # {}
        BY <2>3, <3>2
      <4>2. F = Origen(M, m) /\ z = Mayor(M) /\ m \in Nat
        BY <1>3, <1>4, <3>1, <4>1
      <4> QED
        BY <4>1, <4>2, OrigenBien
    <3>4. /\ e \in Query
          /\ \A p \in Query : (EnReady(p)' => EnReady(p)) /\ (UnicaReady(p) => UnicaReady(p)')
          /\ \A p \in Query : EnReady(p) /\ p # e => EnReady(p)'
          /\ EnReady(e) /\ (UnicaReady(e) => ~ EnReady(e)')
      BY <1>6, <3>2, <3>3
    <3> QED
      BY <1>2, <3>4 DEF QueryN
  <2> QED
    BY <2>2, <2>3
<1>8. CASE ~ Prioridades
  <2>1. e = ElegidaFIFO /\ colaReady' = RestoFIFO
    BY <1>2, <1>8 DEF PlanElige
  <2>2. CASE colaReady = <<>>
    <3>1. e = NoQuery /\ colaReady' = colaReady
      BY <2>1, <2>2 DEF ElegidaFIFO, RestoFIFO
    <3> QED
      BY <1>2, <1>5, <3>1
  <2>3. CASE colaReady # <<>>
    <3>1. PICK F, z : F = [k \in 1..(m - 1) |-> k + 1] /\ z = 1
      OBVIOUS
    <3>2. /\ m \in Nat \ {0} /\ DOMAIN colaReady' = 1..(m - 1)
          /\ e = colaReady[z] /\ z \in 1..m
          /\ \A k \in 1..(m - 1) : colaReady'[k] = colaReady[k + 1]
      BY <1>1, <1>4, <2>1, <3>1, <2>3, Quita DEF ElegidaFIFO, RestoFIFO, n
    <3>3. \A k \in 1..(m - 1) : F[k] = k + 1 /\ F[k] \in 1..m /\ F[k] # z
      BY <3>1, <3>2
    <3>4. \A k, l \in 1..(m - 1) : F[k] = F[l] => k = l
      BY <3>3
    <3>5. \A i \in 1..m : i # z => \E k \in 1..(m - 1) : F[k] = i
      <4>1. \A i \in 1..m : i # z => i - 1 \in 1..(m - 1) /\ F[i - 1] = i
        BY <3>1, <3>2
      <4> QED
        BY <4>1
    <3>6. \A k \in 1..(m - 1) : colaReady'[k] = colaReady[F[k]]
      BY <3>2, <3>3
    <3>7. /\ DOMAIN colaReady' = 1..(m - 1) /\ e = colaReady[z] /\ z \in 1..m
          /\ \A k \in 1..(m - 1) : F[k] \in 1..m /\ F[k] # z
      BY <3>2, <3>3
    <3>8. /\ e \in Query
          /\ \A p \in Query : (EnReady(p)' => EnReady(p)) /\ (UnicaReady(p) => UnicaReady(p)')
          /\ \A p \in Query : EnReady(p) /\ p # e => EnReady(p)'
          /\ EnReady(e) /\ (UnicaReady(e) => ~ EnReady(e)')
      BY <1>6, <3>4, <3>5, <3>6, <3>7
    <3> QED
      BY <1>2, <3>8 DEF QueryN
  <2> QED
    BY <2>2, <2>3
<1> QED
  BY <1>7, <1>8

-----------------------------------------------------------------------------
(* The steps that move a query or a worker from one place to another.      *)

\* Whoever is in a queue, a channel or a thread that does not change stays there.
QuedaReady == \A q \in Query : (EnReady(q)' <=> EnReady(q)) /\ (UnicaReady(q)' <=> UnicaReady(q))
QuedaLibres == \A w \in Worker : (Libre(w)' <=> Libre(w)) /\ (UnicoLibre(w)' <=> UnicoLibre(w))
QuedaMandado == \A w \in Worker : /\ UnaOrden(w)' <=> UnaOrden(w)
                                  /\ \A q \in Query : Manda(w, q)' <=> Manda(w, q)
QuedaContestado == \A w \in Worker : /\ RespuestaAlFinal(w)' <=> RespuestaAlFinal(w)
                                     /\ \A q \in Query : /\ Respondida(w, q)' <=> Respondida(w, q)
                                                         /\ Leida(w, q)' <=> Leida(w, q)
QuedaAvisado == \A q \in Query : Finalizada(q)' <=> Finalizada(q)
QuedaHilo(w) ==
    /\ hilo'[w] = hilo[w]
    /\ (Cierra(w)' <=> Cierra(w)) /\ (Suelta(w)' <=> Suelta(w)) /\ (Ocupa(w)' <=> Ocupa(w))
    /\ \A q \in Query : Atiende(w, q)' <=> Atiende(w, q)
QuedaEnVuelo ==
    /\ UNCHANGED <<aWorker, aMaster, enCurso>> /\ QuedaMandado /\ QuedaContestado
    /\ \A w \in Worker : \A q \in Query : Vuela(w, q)' <=> Vuela(w, q)
QuedaTenido == \A w \in Worker : \A q \in Query : Tiene(w, q)' <=> Tiene(w, q)

\* The places that a step leaves as they were.
LEMMA Quedan ==
    /\ UNCHANGED colaReady => QuedaReady
    /\ UNCHANGED colaLibres => QuedaLibres
    /\ UNCHANGED aWorker => QuedaMandado
    /\ UNCHANGED aMaster => QuedaContestado
    /\ UNCHANGED aQC => QuedaAvisado
    /\ \A w \in Worker : hilo'[w] = hilo[w] => QuedaHilo(w)
    /\ UNCHANGED <<aWorker, aMaster, enCurso>> => QuedaEnVuelo
    /\ QuedaEnVuelo /\ (\A w \in Worker : QuedaHilo(w)) => QuedaTenido
<1>1. UNCHANGED colaReady => QuedaReady
  BY DEF QuedaReady, EnReady, UnicaReady
<1>2. UNCHANGED colaLibres => QuedaLibres
  BY DEF QuedaLibres, Libre, UnicoLibre
<1>3. UNCHANGED aWorker => QuedaMandado
  BY DEF QuedaMandado, Manda, UnaOrden
<1>4. UNCHANGED aMaster => QuedaContestado
  BY DEF QuedaContestado, Respondida, Leida, RespuestaAlFinal
<1>5. UNCHANGED aQC => QuedaAvisado
  BY DEF QuedaAvisado, Finalizada
<1>6. \A w \in Worker : hilo'[w] = hilo[w] => QuedaHilo(w)
  BY DEF QuedaHilo, Cierra, Suelta, Ocupa, Atiende
<1>7. UNCHANGED <<aWorker, aMaster, enCurso>> => QuedaEnVuelo
  <2>1. UNCHANGED <<aWorker, aMaster, enCurso>> =>
          \A w \in Worker : \A q \in Query : Vuela(w, q)' <=> Vuela(w, q)
    BY <1>3, <1>4 DEF QuedaMandado, QuedaContestado, Vuela
  <2> QED
    BY <1>3, <1>4, <2>1 DEF QuedaEnVuelo
<1>8. QuedaEnVuelo /\ (\A w \in Worker : QuedaHilo(w)) => QuedaTenido
  BY DEF QuedaEnVuelo, QuedaHilo, QuedaTenido, Tiene
<1> QED
  BY <1>1, <1>2, <1>3, <1>4, <1>5, <1>6, <1>7, <1>8

\* The scheduler chooses a query.
LEMMA PasoElige ==
    ASSUME Tipos, Lugares, PlanElige
    PROVE  Lugares'
<1>1. PICK e : e = planif'.q
  OBVIOUS
<1>2. /\ e \in QueryN
      /\ \A p \in Query : (EnReady(p)' => EnReady(p)) /\ (UnicaReady(p) => UnicaReady(p)')
      /\ e \in Query => EnReady(e) /\ (UnicaReady(e) => ~ EnReady(e)')
      /\ planif'.w = planif.w /\ planif'.q = e
      /\ planif'.pc = IF e = NoQuery THEN "espera_query" ELSE "saca_worker"
  BY <1>1, AlElegir
<1>3. /\ planif.pc = "elige" /\ planif.q = NoQuery /\ planif.w = NoWorker
      /\ planif'.pc \notin Tardio /\ planif'.pc # "asigna"
  BY <1>2 DEF PlanElige, Lugares, PlanifBien, Temprano, Tardio
<1>4. UNCHANGED <<colaLibres, estado, idQuery, hilo, aWorker, aMaster, aQC, etapa, enCurso>>
  BY DEF PlanElige, datos, procesos
<1>5. /\ QuedaLibres /\ QuedaEnVuelo /\ QuedaAvisado /\ QuedaTenido
      /\ \A w \in Worker : QuedaHilo(w)
  BY <1>4, Quedan
<1> USE <1>2, <1>3, <1>4, <1>5, HilosDistintos
<1>6. PlanifBien'
  BY DEF Lugares, PlanifBien, Temprano, Tardio
<1>7. ASSUME NEW w \in Worker PROVE UsoBien(w)'
  BY DEF Lugares, UsoBien, QuedaLibres, QuedaEnVuelo, QuedaMandado, QuedaContestado, QuedaHilo
<1>8. ASSUME NEW w \in Worker PROVE VidaBien(w)'
  BY DEF Lugares, VidaBien, QuedaLibres, QuedaEnVuelo
<1>9. ASSUME NEW w \in Worker PROVE DuenioBien(w)'
  BY DEF Lugares, DuenioBien, QuedaLibres, QuedaEnVuelo, QuedaContestado, QuedaTenido, QuedaHilo
<1>10. ASSUME NEW q \in Query PROVE LugarBien(q)'
  BY DEF Lugares, LugarBien, QuedaTenido, QuedaAvisado
<1>11. ASSUME NEW q \in Query PROVE FinBien(q)'
  BY DEF Lugares, FinBien, QuedaTenido, QuedaAvisado, QuedaHilo
<1> QED
  BY <1>6, <1>7, <1>8, <1>9, <1>10, <1>11 DEF Lugares

\* A query or a worker that is queued, and one that is taken out.
LEMMA AlEncolar ==
    ASSUME colaReady \in Seq(Query), NEW p \in Query, colaReady' = Append(colaReady, p),
           NEW q \in Query
    PROVE  /\ EnReady(q)' <=> EnReady(q) \/ q = p
           /\ UnicaReady(q) /\ (q = p => ~ EnReady(q)) => UnicaReady(q)'
<1>1. /\ Len(colaReady) \in Nat /\ DOMAIN colaReady = 1..Len(colaReady)
      /\ DOMAIN colaReady' = 1..(Len(colaReady) + 1) /\ colaReady'[Len(colaReady) + 1] = p
      /\ \A i \in DOMAIN colaReady : colaReady'[i] = colaReady[i]
  BY Agrega
<1>2. EnReady(q)' => EnReady(q) \/ q = p
  BY <1>1 DEF EnReady
<1>3. EnReady(q) \/ q = p => EnReady(q)'
  BY <1>1 DEF EnReady
<1>4. UnicaReady(q) /\ (q = p => ~ EnReady(q)) => UnicaReady(q)'
  BY <1>1 DEF EnReady, UnicaReady
<1> QED
  BY <1>2, <1>3, <1>4

\* A worker is offered at the end of cola_workers_libres ...
LEMMA AlOfrecer ==
    ASSUME colaLibres \in Seq(Worker), NEW v \in Worker, colaLibres' = Append(colaLibres, v),
           NEW w \in Worker
    PROVE  /\ Libre(w)' <=> Libre(w) \/ w = v
           /\ UnicoLibre(w) /\ (w = v => ~ Libre(w)) => UnicoLibre(w)'
<1>1. /\ Len(colaLibres) \in Nat /\ DOMAIN colaLibres = 1..Len(colaLibres)
      /\ DOMAIN colaLibres' = 1..(Len(colaLibres) + 1) /\ colaLibres'[Len(colaLibres) + 1] = v
      /\ \A i \in DOMAIN colaLibres : colaLibres'[i] = colaLibres[i]
  BY Agrega
<1>2. Libre(w)' => Libre(w) \/ w = v
  BY <1>1 DEF Libre
<1>3. Libre(w) \/ w = v => Libre(w)'
  BY <1>1 DEF Libre
<1>4. UnicoLibre(w) /\ (w = v => ~ Libre(w)) => UnicoLibre(w)'
  BY <1>1 DEF Libre, UnicoLibre
<1> QED
  BY <1>2, <1>3, <1>4

\* ... and taken from its head.
LEMMA AlTomar ==
    ASSUME colaLibres \in Seq(Worker), colaLibres # <<>>, colaLibres' = Tail(colaLibres),
           NEW w \in Worker
    PROVE  /\ Libre(w)' => Libre(w)
           /\ UnicoLibre(w) => UnicoLibre(w)'
           /\ w = Head(colaLibres) => Libre(w) /\ (UnicoLibre(w) => ~ Libre(w)')
<1> DEFINE n == Len(colaLibres)
<1>1. /\ n \in Nat \ {0} /\ DOMAIN colaLibres = 1..n /\ Head(colaLibres) = colaLibres[1]
      /\ DOMAIN colaLibres' = 1..(n - 1)
      /\ \A i \in 1..(n - 1) : /\ colaLibres'[i] = colaLibres[i + 1]
                               /\ i + 1 \in 1..n /\ i + 1 # 1 /\ i \in Nat
      /\ 1 \in 1..n
  BY Quita
<1> HIDE DEF n
<1>2. Libre(w)' => Libre(w)
  BY <1>1 DEF Libre
<1>3. UnicoLibre(w) => UnicoLibre(w)'
  BY <1>1 DEF UnicoLibre
<1>4. w = Head(colaLibres) => Libre(w) /\ (UnicoLibre(w) => ~ Libre(w)')
  BY <1>1 DEF Libre, UnicoLibre
<1> QED
  BY <1>2, <1>3, <1>4

\* The scheduler takes a worker, which its token says is there.
LEMMA PasoSaca ==
    ASSUME Tipos, Tokens, Lugares, PlanSacaWorker
    PROVE  Lugares'
<1>1. colaLibres \in Seq(Worker) /\ colaLibres # <<>> /\ planif \in RegPlanif
  BY TokensSinEspera DEF Tipos, TypeOK, SinEsperaEnVano, PlanSacaWorker
<1>2. PICK v \in Worker : v = Head(colaLibres)
  BY <1>1
<1>3. /\ planif.pc = "saca_worker" /\ planif'.pc = "asigna"
      /\ planif'.q = planif.q /\ planif'.w = v /\ planif.w = NoWorker
  BY <1>1, <1>2 DEF PlanSacaWorker, RegPlanif, Lugares, PlanifBien
<1>4. UNCHANGED <<colaReady, estado, idQuery, hilo, aWorker, aMaster, aQC, etapa, enCurso>>
  BY <1>1 DEF PlanSacaWorker, datos, procesos
<1>5. /\ \A w \in Worker : (Libre(w)' => Libre(w)) /\ (UnicoLibre(w) => UnicoLibre(w)')
      /\ Libre(v) /\ (UnicoLibre(v) => ~ Libre(v)')
  BY <1>1, <1>2, AlTomar DEF PlanSacaWorker
<1>6. /\ QuedaReady /\ QuedaEnVuelo /\ QuedaAvisado /\ QuedaTenido
      /\ \A w \in Worker : QuedaHilo(w)
  BY <1>4, Quedan
<1> USE <1>3, <1>4, <1>5, <1>6, HilosDistintos
<1>7. PlanifBien'
  BY DEF Lugares, PlanifBien, Temprano, Tardio
<1>8. ASSUME NEW w \in Worker PROVE UsoBien(w)'
  BY DEF Lugares, UsoBien, QuedaEnVuelo, QuedaMandado, QuedaContestado, QuedaHilo
<1>9. ASSUME NEW w \in Worker PROVE VidaBien(w)'
  BY DEF Lugares, VidaBien, QuedaEnVuelo
<1>10. ASSUME NEW w \in Worker PROVE DuenioBien(w)'
  BY DEF Lugares, DuenioBien, QuedaReady, QuedaEnVuelo, QuedaContestado, QuedaTenido, QuedaHilo,
         Tardio
<1>11. ASSUME NEW q \in Query PROVE LugarBien(q)'
  BY DEF Lugares, LugarBien, QuedaReady, QuedaTenido, QuedaAvisado
<1>12. ASSUME NEW q \in Query PROVE FinBien(q)'
  BY DEF Lugares, FinBien, QuedaReady, QuedaTenido, QuedaAvisado, QuedaHilo, Tardio
<1> QED
  BY <1>7, <1>8, <1>9, <1>10, <1>11, <1>12 DEF Lugares

\* The scheduler writes the query's state and the worker's id_query.
LEMMA PasoAsigna ==
    ASSUME Tipos, Lugares, PlanAsigna
    PROVE  Lugares'
<1>1. planif.pc = "asigna" /\ planif.q \in Query /\ planif.w \in Worker /\ planif \in RegPlanif
  BY DEF PlanAsigna, Tipos, TypeOK, PlanifPleno
<1>2. PICK p \in Query, v \in Worker : p = planif.q /\ v = planif.w
  BY <1>1
<1>3. planif'.pc = "encola_exec" /\ planif'.q = p /\ planif'.w = v
  BY <1>1, <1>2 DEF PlanAsigna, RegPlanif
<1>4. /\ \A q \in Query : q # p => estado'[q] = estado[q]
      /\ estado'[p] = "EXEC"
      /\ \A w \in Worker : w # v => idQuery'[w] = idQuery[w]
      /\ idQuery'[v] = p
  BY <1>1, <1>2 DEF PlanAsigna, Tipos, TypeOK
<1>5. UNCHANGED <<colaReady, colaLibres, hilo, aWorker, aMaster, aQC, etapa, enCurso>>
  BY DEF PlanAsigna, colas, procesos
<1>6. /\ QuedaReady /\ QuedaLibres /\ QuedaEnVuelo /\ QuedaAvisado /\ QuedaTenido
      /\ \A w \in Worker : QuedaHilo(w)
  BY <1>5, Quedan
<1> USE <1>2, <1>3, <1>4, <1>5, <1>6, HilosDistintos
<1>7. PlanifBien'
  BY DEF Lugares, PlanifBien, Temprano, Tardio
<1>8. ASSUME NEW w \in Worker PROVE UsoBien(w)'
  BY DEF Lugares, UsoBien, QuedaLibres, QuedaEnVuelo, QuedaMandado, QuedaContestado, QuedaHilo
<1>9. ASSUME NEW w \in Worker PROVE VidaBien(w)'
  BY DEF Lugares, VidaBien, QuedaLibres, QuedaEnVuelo
<1>10. /\ ~ Libre(v) /\ (\A q \in Query : ~ Tiene(v, q) /\ ~ Leida(v, q)) /\ idQuery[v] = NoQuery
       /\ ~ EnReady(p) /\ \A w \in Worker : ~ Tiene(w, p) /\ (idQuery[w] = p => Suelta(w))
  <2>1. ~ Libre(v) /\ ~ Ocupa(v) /\ \A q \in Query : ~ Vuela(v, q)
    BY <1>1 DEF Lugares, UsoBien
  <2>2. \A q \in Query : ~ Tiene(v, q)
    BY <2>1 DEF Tiene, Atiende, Ocupa
  <2>3. idQuery[v] = NoQuery /\ \A q \in Query : ~ Leida(v, q)
    BY <1>1 DEF Lugares, DuenioBien
  <2>4. ~ EnReady(p) /\ \A w \in Worker : ~ Tiene(w, p)
    BY <1>1 DEF Lugares, LugarBien
  <2>5. \A w \in Worker : idQuery[w] = p => Suelta(w)
    BY <1>1 DEF Lugares, DuenioBien, Tardio
  <2> QED
    BY <2>1, <2>2, <2>3, <2>4, <2>5
<1>11. ASSUME NEW w \in Worker PROVE DuenioBien(w)'
  BY <1>1, <1>10 DEF Lugares, DuenioBien, QuedaReady, QuedaLibres, QuedaEnVuelo, QuedaContestado,
                     QuedaTenido, QuedaHilo, Tardio
<1>12. ASSUME NEW q \in Query PROVE LugarBien(q)'
  BY <1>1 DEF Lugares, LugarBien, QuedaReady, QuedaTenido, QuedaAvisado
<1>13. ASSUME NEW q \in Query PROVE FinBien(q)'
  BY <1>1 DEF Lugares, FinBien, QuedaReady, QuedaTenido, QuedaAvisado, QuedaHilo, Tardio
<1> QED
  BY <1>7, <1>8, <1>9, <1>11, <1>12, <1>13 DEF Lugares

\* The scheduler sends the query to the worker and forgets both.
LEMMA PasoEnvia ==
    ASSUME Tipos, Lugares, PlanEnvia
    PROVE  Lugares'
<1>1. planif.pc = "envia" /\ planif.q \in Query /\ planif.w \in Worker
  BY DEF PlanEnvia, Tipos, PlanifPleno
<1>2. PICK p \in Query, v \in Worker : p = planif.q /\ v = planif.w
  BY <1>1
<1>3. planif'.pc = "espera_query" /\ planif'.q = NoQuery /\ planif'.w = NoWorker
  BY DEF PlanEnvia
<1>4. UNCHANGED <<colaReady, colaLibres, estado, idQuery, hilo, aMaster, aQC, etapa, enCurso>>
  BY DEF PlanEnvia, colas, datos, procesos
<1>5. /\ QuedaReady /\ QuedaLibres /\ QuedaContestado /\ QuedaAvisado
      /\ \A w \in Worker : QuedaHilo(w)
  BY <1>4, Quedan
<1>6. /\ ~ Libre(v) /\ ~ Ocupa(v) /\ etapa[v] # "fuera" /\ estado[p] # "NUEVA"
      /\ \A q \in Query : ~ Vuela(v, q)
      /\ etapa[v] # "caido" => idQuery[v] = p /\ ~ Finalizada(p)
      /\ ~ EnReady(p) /\ \A w \in Worker : ~ Tiene(w, p)
      /\ \A w \in Worker : idQuery[w] = p /\ ~ Suelta(w) => w = v
  <2>1. ~ Libre(v) /\ ~ Ocupa(v) /\ \A q \in Query : ~ Vuela(v, q)
    BY <1>1, <1>2 DEF Lugares, UsoBien
  <2>2. etapa[v] # "fuera"
    BY <1>1, <1>2 DEF Lugares, VidaBien
  <2>3. estado[p] # "NUEVA" /\ ~ EnReady(p) /\ \A w \in Worker : ~ Tiene(w, p)
    BY <1>1, <1>2 DEF Lugares, LugarBien
  <2>4. etapa[v] # "caido" => idQuery[v] = p /\ ~ Finalizada(p)
    BY <1>1, <1>2 DEF Lugares, PlanifBien, FinBien, Tardio
  <2>5. \A w \in Worker : idQuery[w] = p /\ ~ Suelta(w) => w = v
    BY <1>1, <1>2 DEF Lugares, DuenioBien
  <2> QED
    BY <2>1, <2>2, <2>3, <2>4, <2>5
<1>7. ASSUME NEW w \in Worker
      PROVE  /\ \A q \in Query : Manda(w, q)' => Manda(w, q) \/ (w = v /\ q = p /\ etapa[v] # "caido")
             /\ UnaOrden(w) => UnaOrden(w)'
             /\ etapa[w] = "caido" => aWorker'[w] = aWorker[w]
  <2> DEFINE m == [op |-> "INICIA", q |-> planif.q, pc |-> pcQuery[planif.q]]
  <2>1. EnviarAWorker(v, m) /\ m.q = p /\ aWorker \in [Worker -> Seq(MsgAWorker)]
    BY <1>2 DEF PlanEnvia, Tipos, TypeOK
  <2>2. \A q \in Query : ~ Manda(v, q)
    BY <1>6 DEF Vuela
  <2> HIDE DEF m
  <2> QED
    BY <2>1, <2>2, AlMandar
<1>8. /\ \A w \in Worker : \A q \in Query :
            Vuela(w, q)' => Vuela(w, q) \/ (w = v /\ q = p /\ etapa[v] # "caido" /\ Manda(w, q)')
      /\ \A w \in Worker : \A q \in Query :
            Tiene(w, q)' => Tiene(w, q) \/ (w = v /\ q = p /\ etapa[v] # "caido")
  BY <1>4, <1>5, <1>7 DEF Vuela, Tiene, QuedaContestado, QuedaHilo
<1> USE <1>2, <1>3, <1>4, <1>5, <1>6, <1>8, HilosDistintos
<1>9. PlanifBien'
  BY DEF Lugares, PlanifBien, Temprano, Tardio
<1>10. ASSUME NEW w \in Worker PROVE UsoBien(w)'
  <2>1. CASE w = v
    <3>1. \A q \in Query : q \notin enCurso[v] /\ ~ Respondida(v, q)
      BY DEF Vuela
    <3> QED
      BY <1>7, <2>1, <3>1 DEF Lugares, UsoBien, QuedaLibres, QuedaContestado, QuedaHilo
  <2>2. CASE w # v
    BY <1>7, <2>2 DEF Lugares, UsoBien, QuedaLibres, QuedaContestado, QuedaHilo
  <2> QED
    BY <2>1, <2>2
<1>11. ASSUME NEW w \in Worker PROVE VidaBien(w)'
  BY <1>7 DEF Lugares, VidaBien, QuedaLibres
<1>12. ASSUME NEW w \in Worker PROVE DuenioBien(w)'
  BY DEF Lugares, DuenioBien, QuedaReady, QuedaLibres, QuedaContestado, QuedaHilo, Tardio
<1>13. ASSUME NEW q \in Query PROVE LugarBien(q)'
  BY DEF Lugares, LugarBien, QuedaReady, QuedaAvisado
<1>14. ASSUME NEW q \in Query PROVE FinBien(q)'
  BY DEF Lugares, FinBien, QuedaReady, QuedaAvisado, QuedaHilo
<1> QED
  BY <1>9, <1>10, <1>11, <1>12, <1>13, <1>14 DEF Lugares

\* push_ready moves its thread and perhaps an aging thread, and no other.
LEMMA AlEmpujar ==
    ASSUME Tipos, NEW h \in Hilo \ HilosAging, NEW p \in Query, EncolarReady(h, p)
    PROVE  /\ hilo'[h].pc \in {"ev_libres", "despierta"}
           /\ \A x \in Hilo \ HilosAging : x # h => hilo'[x] = hilo[x]
           /\ colaReady' = Append(colaReady, p)
           /\ estado'[p] = "READY" /\ \A q \in Query : q # p => estado'[q] = estado[q]
<1> DEFINE r == [hilo[h] EXCEPT !.q = p, !.pc = IF Prioridades THEN "ev_libres" ELSE "despierta"]
<1>1. HilosBien /\ hilo[h] \in RegHilo
  BY DEF Tipos, HilosBien
<1>2. r.pc \in {"ev_libres", "despierta"}
  BY <1>1 DEF RegHilo
<1>3. \/ Pasa(h, r)
      \/ \E a \in HilosAging :
            hilo' = [hilo EXCEPT ![h] = r, ![a] = [@ EXCEPT !.pc = "duerme", !.q = p]]
  BY DEF EncolarReady, Pasa
<1> HIDE DEF r
<1>4. hilo'[h] = r /\ \A x \in Hilo \ HilosAging : x # h => hilo'[x] = hilo[x]
  <2>1. CASE Pasa(h, r)
    BY <1>1, <2>1, MueveUno
  <2>2. ASSUME NEW a \in HilosAging,
               hilo' = [hilo EXCEPT ![h] = r, ![a] = [@ EXCEPT !.pc = "duerme", !.q = p]]
        PROVE  hilo'[h] = r /\ \A x \in Hilo \ HilosAging : x # h => hilo'[x] = hilo[x]
    BY <1>1, <2>2 DEF HilosBien, Hilo
  <2> QED
    BY <1>3, <2>1, <2>2
<1>5. estado'[p] = "READY" /\ \A q \in Query : q # p => estado'[q] = estado[q]
  BY DEF EncolarReady, Tipos, TypeOK
<1> QED
  BY <1>2, <1>4, <1>5 DEF EncolarReady

\* A Query Control connects: its query was nowhere.
LEMMA PasoAlta ==
    ASSUME Tipos, Lugares, NEW p \in Query, AceptarQuery(p)
    PROVE  Lugares'
<1>1. /\ estado[p] = "NUEVA" /\ EncolarReady(Aceptador, p) /\ colaReady \in Seq(Query)
      /\ UNCHANGED <<colaLibres, idQuery, planif, aWorker, aMaster, aQC, etapa, enCurso>>
  BY DEF AceptarQuery, Tipos, TypeOK, procesos
<1>2. /\ hilo'[Aceptador].pc \in {"ev_libres", "despierta"}
      /\ \A w \in Worker : hilo'[w] = hilo[w]
      /\ colaReady' = Append(colaReady, p)
      /\ estado'[p] = "READY" /\ \A q \in Query : q # p => estado'[q] = estado[q]
  BY <1>1, AlEmpujar, HilosDistintos
<1>3. /\ QuedaLibres /\ QuedaEnVuelo /\ QuedaAvisado /\ QuedaTenido
      /\ \A w \in Worker : QuedaHilo(w)
  BY <1>1, <1>2, Quedan
<1>4. ~ EnReady(p) /\ planif.q # p /\ ~ Finalizada(p)
      /\ \A w \in Worker : idQuery[w] # p /\ ~ Tiene(w, p)
  BY <1>1 DEF Lugares, LugarBien
<1>5. \A q \in Query : (EnReady(q)' <=> EnReady(q) \/ q = p) /\ (UnicaReady(q) => UnicaReady(q)')
  BY <1>1, <1>2, <1>4, AlEncolar
<1> USE <1>1, <1>2, <1>3, <1>4, <1>5, HilosDistintos
<1>6. PlanifBien'
  BY DEF Lugares, PlanifBien
<1>7. ASSUME NEW w \in Worker PROVE UsoBien(w)'
  BY DEF Lugares, UsoBien, QuedaLibres, QuedaEnVuelo, QuedaMandado, QuedaContestado, QuedaHilo
<1>8. ASSUME NEW w \in Worker PROVE VidaBien(w)'
  BY DEF Lugares, VidaBien, QuedaLibres, QuedaEnVuelo
<1>9. ASSUME NEW w \in Worker PROVE DuenioBien(w)'
  BY DEF Lugares, DuenioBien, QuedaLibres, QuedaEnVuelo, QuedaContestado, QuedaTenido, QuedaHilo
<1>10. ASSUME NEW q \in Query PROVE LugarBien(q)'
  BY DEF Lugares, LugarBien, QuedaTenido, QuedaAvisado
<1>11. ASSUME NEW q \in Query PROVE FinBien(q)'
  BY DEF Lugares, FinBien, QuedaTenido, QuedaAvisado, QuedaHilo
<1> QED
  BY <1>6, <1>7, <1>8, <1>9, <1>10, <1>11 DEF Lugares

\* push_ready of an evicted query, which leaves its worker's thread.
LEMMA PasoReencola ==
    ASSUME Tipos, Lugares, NEW v \in Worker, Reencolar(v)
    PROVE  Lugares'
<1>1. PICK p \in Query : p = hilo[v].q
  BY DEF Reencolar, Tipos, HilosBien, HiloBien, Hilo
<1>2. /\ hilo[v].pc = "reencola" /\ EncolarReady(v, p) /\ colaReady \in Seq(Query)
      /\ UNCHANGED <<colaLibres, idQuery, planif, aWorker, aMaster, aQC, etapa, enCurso>>
  BY <1>1 DEF Reencolar, Tipos, TypeOK, procesos
<1>3. /\ hilo'[v].pc \in {"ev_libres", "despierta"}
      /\ hilo'[Aceptador] = hilo[Aceptador]
      /\ \A w \in Worker : w # v => hilo'[w] = hilo[w]
      /\ colaReady' = Append(colaReady, p)
      /\ estado'[p] = "READY" /\ \A q \in Query : q # p => estado'[q] = estado[q]
  BY <1>2, AlEmpujar, HilosDistintos
<1>4. /\ QuedaLibres /\ QuedaEnVuelo /\ QuedaAvisado
      /\ \A w \in Worker : w # v => QuedaHilo(w)
  BY <1>2, <1>3, Quedan
<1>5. Ocupa(v) /\ Atiende(v, p) /\ Tiene(v, p) /\ ~ Suelta(v) /\ etapa[v] # "fuera"
  BY <1>1, <1>2 DEF Ocupa, Cierra, Atiende, Tiene, Suelta, Soltando, Evaluando, Lugares, VidaBien
<1>6. Ocupa(v)' /\ Suelta(v)' /\ ~ Cierra(v)' /\ \A q \in Query : ~ Atiende(v, q)'
  BY <1>3 DEF Ocupa, Cierra, Atiende, Suelta, Soltando, Evaluando
<1>7. /\ ~ EnReady(p) /\ planif.q # p /\ ~ Finalizada(p)
      /\ \A w \in Worker : w # v => ~ Tiene(w, p)
  BY <1>5 DEF Lugares, LugarBien, FinBien
<1>8. /\ idQuery[v] = p /\ \A q \in Query : ~ Leida(v, q) /\ ~ Vuela(v, q)
      /\ \A w \in Worker : w # v /\ idQuery[w] = p => Suelta(w)
  BY <1>5 DEF Lugares, DuenioBien, UsoBien
<1>9. \A q \in Query : (EnReady(q)' <=> EnReady(q) \/ q = p) /\ (UnicaReady(q) => UnicaReady(q)')
  BY <1>2, <1>3, <1>7, AlEncolar
<1>10. /\ \A q \in Query : ~ Tiene(v, q)'
       /\ \A w \in Worker : \A q \in Query : w # v => (Tiene(w, q)' <=> Tiene(w, q))
  BY <1>4, <1>6, <1>8 DEF Tiene, QuedaEnVuelo, QuedaHilo
<1> USE <1>2, <1>3, <1>4, <1>5, <1>6, <1>7, <1>8, <1>9, <1>10, HilosDistintos
<1>11. PlanifBien'
  BY DEF Lugares, PlanifBien
<1>12. ASSUME NEW w \in Worker PROVE UsoBien(w)'
  BY DEF Lugares, UsoBien, QuedaLibres, QuedaEnVuelo, QuedaMandado, QuedaContestado, QuedaHilo
<1>13. ASSUME NEW w \in Worker PROVE VidaBien(w)'
  BY DEF Lugares, VidaBien, QuedaLibres, QuedaEnVuelo
<1>14. ASSUME NEW w \in Worker PROVE DuenioBien(w)'
  BY DEF Lugares, DuenioBien, QuedaLibres, QuedaEnVuelo, QuedaContestado, QuedaHilo
<1>15. ASSUME NEW q \in Query PROVE LugarBien(q)'
  BY DEF Lugares, LugarBien, QuedaAvisado
<1>16. ASSUME NEW q \in Query PROVE FinBien(q)'
  BY DEF Lugares, FinBien, QuedaAvisado, QuedaHilo
<1> QED
  BY <1>11, <1>12, <1>13, <1>14, <1>15, <1>16 DEF Lugares

\* A Worker connects: nothing was known of it.
LEMMA PasoConecta ==
    ASSUME Tipos, Lugares, NEW v \in Worker, AceptarWorker(v)
    PROVE  Lugares'
<1>1. /\ etapa[v] = "fuera" /\ colaLibres \in Seq(Worker) /\ colaLibres' = Append(colaLibres, v)
      /\ etapa'[v] = "esperando_ok" /\ \A w \in Worker : w # v => etapa'[w] = etapa[w]
      /\ Pasa(Aceptador, [hilo[Aceptador] EXCEPT !.pc = "avisa_alta", !.w = v])
      /\ UNCHANGED <<colaReady, estado, idQuery, planif, aWorker, aMaster, aQC, enCurso>>
  BY DEF AceptarWorker, Tipos, TypeOK, datos
<1>2. /\ hilo'[Aceptador].w = v
      /\ \A w \in Worker : hilo'[w] = hilo[w]
  <2>1. HilosBien /\ [hilo[Aceptador] EXCEPT !.pc = "avisa_alta", !.w = v].w = v
    BY HilosDistintos DEF Tipos, HilosBien, RegHilo
  <2> QED
    BY <1>1, <2>1, MueveUno, HilosDistintos
<1>3. /\ QuedaReady /\ QuedaEnVuelo /\ QuedaAvisado /\ QuedaTenido
      /\ \A w \in Worker : QuedaHilo(w)
  BY <1>1, <1>2, Quedan
<1>4. /\ ~ Libre(v) /\ planif.w # v /\ idQuery[v] = NoQuery /\ hilo[v].pc = "inactivo"
      /\ \A q \in Query : ~ Vuela(v, q)
      /\ ~ Ocupa(v)
  BY <1>1 DEF Lugares, VidaBien, Ocupa, Cierra, Suelta, Soltando, Evaluando
<1>5. /\ \A w \in Worker : /\ Libre(w)' <=> Libre(w) \/ w = v
                           /\ UnicoLibre(w) => UnicoLibre(w)'
  BY <1>1, <1>4, AlOfrecer
<1> USE <1>1, <1>2, <1>3, <1>4, <1>5, HilosDistintos
<1>6. PlanifBien'
  <2>1. planif.pc \in Tardio => planif.w \in Worker /\ planif.w # v
    BY DEF Tipos, PlanifPleno, Tardio
  <2> QED
    BY <2>1 DEF Lugares, PlanifBien
<1>7. ASSUME NEW w \in Worker PROVE UsoBien(w)'
  BY DEF Lugares, UsoBien, QuedaEnVuelo, QuedaMandado, QuedaContestado, QuedaHilo
<1>8. ASSUME NEW w \in Worker PROVE VidaBien(w)'
  BY DEF Lugares, VidaBien, QuedaEnVuelo
<1>9. ASSUME NEW w \in Worker PROVE DuenioBien(w)'
  BY DEF Lugares, DuenioBien, QuedaReady, QuedaEnVuelo, QuedaContestado, QuedaTenido, QuedaHilo
<1>10. ASSUME NEW q \in Query PROVE LugarBien(q)'
  BY DEF Lugares, LugarBien, QuedaReady, QuedaTenido, QuedaAvisado
<1>11. ASSUME NEW q \in Query PROVE FinBien(q)'
  <2>1. planif.pc \in Tardio => planif.w \in Worker /\ planif.w # v
    BY DEF Tipos, PlanifPleno, Tardio
  <2> QED
    BY <2>1 DEF Lugares, FinBien, QuedaReady, QuedaTenido, QuedaAvisado, QuedaHilo
<1> QED
  BY <1>6, <1>7, <1>8, <1>9, <1>10, <1>11 DEF Lugares

\* WORKER_OK is sent and the thread of the Worker starts.
LEMMA PasoConfirma ==
    ASSUME Tipos, Lugares, ConfirmarWorker
    PROVE  Lugares'
<1>1. PICK v \in Worker : v = hilo[Aceptador].w
  BY HilosDistintos DEF ConfirmarWorker, Tipos, HilosBien, HiloBien
<1>2. /\ hilo[Aceptador].pc = "confirma"
      /\ UNCHANGED <<colaReady, colaLibres, estado, idQuery, planif, aMaster, aQC, etapa, enCurso>>
  BY DEF ConfirmarWorker, colas, datos, procesos
<1>3. /\ hilo'[Aceptador].pc = "inactivo" /\ hilo'[v].pc = "escucha"
      /\ \A w \in Worker : w # v => hilo'[w] = hilo[w]
  <2> DEFINE ra == [hilo[Aceptador] EXCEPT !.pc = "inactivo", !.w = NoWorker]
             rv == [hilo[v] EXCEPT !.pc = "escucha"]
  <2>1. hilo \in [Hilo -> RegHilo] /\ ra.pc = "inactivo" /\ rv.pc = "escucha" /\ v # Aceptador
        /\ v \in Hilo /\ Aceptador \in Hilo
    BY HilosDistintos DEF Tipos, HilosBien, RegHilo
  <2>2. hilo' = [hilo EXCEPT ![Aceptador] = ra, ![v] = rv]
    BY <1>1, <2>1 DEF ConfirmarWorker
  <2> HIDE DEF ra, rv
  <2> QED
    BY <2>1, <2>2, HilosDistintos
<1>4. /\ QuedaReady /\ QuedaLibres /\ QuedaContestado /\ QuedaAvisado
      /\ \A w \in Worker : w # v => QuedaHilo(w)
  BY <1>2, <1>3, Quedan
<1>5. etapa[v] # "fuera" /\ hilo[v].pc = "inactivo"
  BY <1>1, <1>2 DEF Lugares, VidaBien
<1>6. /\ (Cierra(v)' <=> Cierra(v)) /\ (Suelta(v)' <=> Suelta(v)) /\ (Ocupa(v)' <=> Ocupa(v))
      /\ \A q \in Query : Atiende(v, q)' <=> Atiende(v, q)
      /\ ~ Suelta(v)
  BY <1>3, <1>5 DEF Cierra, Suelta, Ocupa, Atiende, Soltando, Evaluando
<1>7. ASSUME NEW w \in Worker
      PROVE  /\ \A q \in Query : Manda(w, q)' => Manda(w, q)
             /\ UnaOrden(w) => UnaOrden(w)'
             /\ etapa[w] = "caido" => aWorker'[w] = aWorker[w]
  <2> DEFINE m == [op |-> "WORKER_OK", q |-> NoQuery, pc |-> 0]
  <2>1. EnviarAWorker(v, m) /\ m.op # "INICIA" /\ aWorker \in [Worker -> Seq(MsgAWorker)]
    BY <1>1 DEF ConfirmarWorker, Tipos, TypeOK
  <2> HIDE DEF m
  <2> QED
    BY <2>1, AlMandar
<1>8. \A w \in Worker : \A q \in Query :
          (Vuela(w, q)' => Vuela(w, q)) /\ (Tiene(w, q)' => Tiene(w, q))
  BY <1>2, <1>4, <1>6, <1>7 DEF Vuela, Tiene, QuedaContestado, QuedaHilo
<1> USE <1>2, <1>3, <1>4, <1>5, <1>6, <1>8, HilosDistintos
<1>9. PlanifBien'
  BY DEF Lugares, PlanifBien
<1>10. ASSUME NEW w \in Worker PROVE UsoBien(w)'
  BY <1>7 DEF Lugares, UsoBien, QuedaLibres, QuedaContestado, QuedaHilo
<1>11. ASSUME NEW w \in Worker PROVE VidaBien(w)'
  BY <1>7 DEF Lugares, VidaBien, QuedaLibres
<1>12. ASSUME NEW w \in Worker PROVE DuenioBien(w)'
  BY DEF Lugares, DuenioBien, QuedaReady, QuedaLibres, QuedaContestado, QuedaHilo
<1>13. ASSUME NEW q \in Query PROVE LugarBien(q)'
  BY DEF Lugares, LugarBien, QuedaReady, QuedaAvisado
<1>14. ASSUME NEW q \in Query PROVE FinBien(q)'
  BY DEF Lugares, FinBien, QuedaReady, QuedaAvisado, QuedaHilo
<1> QED
  BY <1>9, <1>10, <1>11, <1>12, <1>13, <1>14 DEF Lugares

\* A Worker's thread takes the answer to a query: it had it, and has it still.
LEMMA PasoRespuesta ==
    ASSUME Tipos, Lugares, NEW v \in Worker, RecibirFin(v) \/ RecibirDesalojo(v)
    PROVE  Lugares'
<1>1. PICK op \in Respuestas : Llega(v, op)
  BY DEF RecibirFin, RecibirDesalojo, Respuestas
<1>2. PICK p \in Query : p = Head(aMaster[v]).q
  BY <1>1, AlLlegar DEF Tipos, TypeOK, MsgAMaster
<1>3. /\ hilo[v].pc = "escucha"
      /\ UNCHANGED <<colaReady, colaLibres, idQuery, planif, aWorker, aQC, etapa, enCurso>>
  BY DEF RecibirFin, RecibirDesalojo, Llega, datos, procesos
<1>4. /\ hilo'[v].pc \in {"fin_qc", "reencola"} /\ hilo'[v].q = p
      /\ hilo'[Aceptador] = hilo[Aceptador]
      /\ \A w \in Worker : w # v => hilo'[w] = hilo[w]
  <2>1. PICK s \in {"fin_qc", "reencola"} : IrCon(v, s, p)
    BY <1>2 DEF RecibirFin, RecibirDesalojo
  <2> DEFINE r == [hilo[v] EXCEPT !.pc = s, !.q = p]
  <2>2. HilosBien /\ r.pc = s /\ r.q = p /\ Pasa(v, r)
    BY <2>1, HilosDistintos DEF Tipos, HilosBien, RegHilo, IrCon
  <2> HIDE DEF r
  <2> QED
    BY <2>2, MueveUno, HilosDistintos
<1>5. \A q \in Query : /\ q # p => estado'[q] = estado[q]
                       /\ estado'[p] = estado[p] \/ estado'[p] = "READY"
  BY <1>2 DEF RecibirFin, RecibirDesalojo, Tipos, TypeOK, datos
<1>6. /\ QuedaReady /\ QuedaLibres /\ QuedaMandado /\ QuedaAvisado
      /\ \A w \in Worker : w # v => QuedaHilo(w)
  BY <1>3, <1>4, Quedan
<1>7. /\ \A w \in Worker :
            /\ \A q \in Query : (Respondida(w, q)' => Respondida(w, q)) /\ (Leida(w, q)' => Leida(w, q))
            /\ RespuestaAlFinal(w) => RespuestaAlFinal(w)'
            /\ aMaster[w] = <<>> => aMaster'[w] = <<>>
      /\ Respondida(v, p)
      /\ \A q \in Query : ~ Respondida(v, q)' /\ ~ Leida(v, q)'
  BY <1>1, <1>2, AlLlegar DEF Tipos, TypeOK, Lugares, UsoBien
<1>8. /\ \A q \in Query : ~ Manda(v, q) /\ q \notin enCurso[v]
      /\ ~ Libre(v) /\ planif.w # v /\ etapa[v] # "fuera"
      /\ Vuela(v, p) /\ Tiene(v, p)
  <2>1. Vuela(v, p) /\ Tiene(v, p)
    BY <1>7 DEF Vuela, Tiene
  <2>2. ~ Libre(v) /\ planif.w # v /\ \A q \in Query : ~ Manda(v, q) /\ q \notin enCurso[v]
    BY <1>7, <2>1 DEF Lugares, UsoBien
  <2> QED
    BY <2>1, <2>2 DEF Lugares, VidaBien
<1>9. /\ estado[p] # "NUEVA" /\ ~ Finalizada(p) /\ \A q \in Query : idQuery[v] = q => ~ Finalizada(q)
  BY <1>3, <1>8 DEF Lugares, LugarBien, FinBien, Suelta, Soltando, Evaluando
<1>10. /\ Cierra(v)' /\ Ocupa(v)' /\ ~ Suelta(v)' /\ ~ Suelta(v)
       /\ \A q \in Query : Atiende(v, q)' <=> q = p
  BY <1>3, <1>4 DEF Cierra, Suelta, Ocupa, Atiende, Soltando, Evaluando
<1>11. /\ \A w \in Worker : \A q \in Query : (Vuela(w, q)' => Vuela(w, q)) /\ ~ Vuela(v, q)'
       /\ \A w \in Worker : \A q \in Query : Tiene(w, q)' => Tiene(w, q)
  BY <1>3, <1>6, <1>7, <1>8, <1>10 DEF Vuela, Tiene, QuedaMandado, QuedaHilo
<1> USE <1>3, <1>4, <1>5, <1>6, <1>7, <1>8, <1>9, <1>10, <1>11, HilosDistintos
<1>12. PlanifBien'
  BY DEF Lugares, PlanifBien
<1>13. ASSUME NEW w \in Worker PROVE UsoBien(w)'
  BY DEF Lugares, UsoBien, QuedaLibres, QuedaMandado, QuedaHilo
<1>14. ASSUME NEW w \in Worker PROVE VidaBien(w)'
  BY DEF Lugares, VidaBien, QuedaLibres
<1>15. ASSUME NEW w \in Worker PROVE DuenioBien(w)'
  BY DEF Lugares, DuenioBien, QuedaReady, QuedaLibres, QuedaHilo
<1>16. ASSUME NEW q \in Query PROVE LugarBien(q)'
  BY DEF Lugares, LugarBien, QuedaReady, QuedaAvisado
<1>17. ASSUME NEW q \in Query PROVE FinBien(q)'
  BY DEF Lugares, FinBien, QuedaReady, QuedaAvisado, QuedaHilo
<1> QED
  BY <1>12, <1>13, <1>14, <1>15, <1>16, <1>17 DEF Lugares

\* The Query Control is told the end, and the query is nowhere any more.
LEMMA PasoFin ==
    ASSUME Tipos, Lugares, NEW v \in Worker, AvisarFin(v)
    PROVE  Lugares'
<1>1. hilo[v].pc = "fin_qc" /\ hilo[v].q \in Query
  BY DEF AvisarFin, Lugares, UsoBien
<1>2. PICK p \in Query : p = hilo[v].q
  BY <1>1
<1>3. /\ UNCHANGED <<colaReady, colaLibres, idQuery, planif, aWorker, aMaster, etapa, enCurso>>
      /\ estado'[p] = "EXIT" /\ \A q \in Query : q # p => estado'[q] = estado[q]
  BY <1>2 DEF AvisarFin, colas, procesos, Tipos, TypeOK
<1>4. /\ hilo'[v].pc = "suelta" /\ hilo'[Aceptador] = hilo[Aceptador]
      /\ \A w \in Worker : w # v => hilo'[w] = hilo[w]
  <2>1. HilosBien /\ [hilo[v] EXCEPT !.pc = "suelta"].pc = "suelta"
        /\ Pasa(v, [hilo[v] EXCEPT !.pc = "suelta"])
    BY HilosDistintos DEF Tipos, HilosBien, RegHilo, AvisarFin, Ir
  <2> QED
    BY <2>1, MueveUno, HilosDistintos
<1>5. \A q \in Query : Finalizada(q)' <=> Finalizada(q) \/ q = p
  <2>1. EnviarAQC(p, "FIN_OK") /\ aQC \in [Query -> Seq(MsgAQC)]
    BY <1>2 DEF AvisarFin, Tipos, TypeOK
  <2> QED
    BY <2>1, AlAvisar DEF Fines
<1>6. /\ QuedaReady /\ QuedaLibres /\ QuedaEnVuelo /\ \A w \in Worker : w # v => QuedaHilo(w)
  BY <1>3, <1>4, Quedan
<1>7. Ocupa(v) /\ Atiende(v, p) /\ Tiene(v, p) /\ ~ Suelta(v) /\ etapa[v] # "fuera"
  BY <1>1, <1>2 DEF Ocupa, Cierra, Atiende, Tiene, Suelta, Soltando, Evaluando, Lugares, VidaBien
<1>8. Ocupa(v)' /\ Suelta(v)' /\ ~ Cierra(v)' /\ \A q \in Query : ~ Atiende(v, q)'
  BY <1>4 DEF Ocupa, Cierra, Atiende, Suelta, Soltando, Evaluando
<1>9. /\ ~ EnReady(p) /\ planif.q # p /\ estado[p] # "NUEVA"
      /\ \A w \in Worker : w # v => ~ Tiene(w, p)
  BY <1>7 DEF Lugares, LugarBien
<1>10. /\ idQuery[v] = p /\ \A q \in Query : ~ Leida(v, q) /\ ~ Vuela(v, q)
       /\ \A w \in Worker : w # v /\ idQuery[w] = p => Suelta(w)
  BY <1>7 DEF Lugares, DuenioBien, UsoBien
<1>11. /\ \A q \in Query : ~ Tiene(v, q)'
       /\ \A w \in Worker : \A q \in Query : w # v => (Tiene(w, q)' <=> Tiene(w, q))
  BY <1>6, <1>8, <1>10 DEF Tiene, QuedaEnVuelo, QuedaHilo
<1> USE <1>1, <1>3, <1>4, <1>5, <1>6, <1>7, <1>8, <1>9, <1>10, <1>11, HilosDistintos
<1>12. PlanifBien'
  BY DEF Lugares, PlanifBien
<1>13. ASSUME NEW w \in Worker PROVE UsoBien(w)'
  BY DEF Lugares, UsoBien, QuedaLibres, QuedaEnVuelo, QuedaMandado, QuedaContestado, QuedaHilo
<1>14. ASSUME NEW w \in Worker PROVE VidaBien(w)'
  BY DEF Lugares, VidaBien, QuedaLibres, QuedaEnVuelo
<1>15. ASSUME NEW w \in Worker PROVE DuenioBien(w)'
  BY DEF Lugares, DuenioBien, QuedaReady, QuedaLibres, QuedaEnVuelo, QuedaContestado, QuedaHilo
<1>16. ASSUME NEW q \in Query PROVE LugarBien(q)'
  BY DEF Lugares, LugarBien, QuedaReady
<1>17. ASSUME NEW q \in Query PROVE FinBien(q)'
  BY DEF Lugares, FinBien, QuedaReady, QuedaHilo
<1> QED
  BY <1>12, <1>13, <1>14, <1>15, <1>16, <1>17 DEF Lugares

\* A Worker's thread offers its worker again.
LEMMA PasoSuelta ==
    ASSUME Tipos, Lugares, NEW v \in Worker, SoltarWorker(v)
    PROVE  Lugares'
<1>1. /\ hilo[v].pc = "suelta" /\ colaLibres \in Seq(Worker) /\ colaLibres' = Append(colaLibres, v)
      /\ idQuery'[v] = NoQuery /\ \A w \in Worker : w # v => idQuery'[w] = idQuery[w]
      /\ UNCHANGED <<colaReady, estado, planif, aWorker, aMaster, aQC, etapa, enCurso>>
  BY DEF SoltarWorker, Tipos, TypeOK, procesos
<1>2. /\ hilo'[v].pc = "avisa" /\ hilo'[Aceptador] = hilo[Aceptador]
      /\ \A w \in Worker : w # v => hilo'[w] = hilo[w]
  <2>1. HilosBien /\ [hilo[v] EXCEPT !.pc = "avisa", !.q = NoQuery].pc = "avisa"
        /\ Pasa(v, [hilo[v] EXCEPT !.pc = "avisa", !.q = NoQuery])
    BY HilosDistintos DEF Tipos, HilosBien, RegHilo, SoltarWorker, IrCon
  <2> QED
    BY <2>1, MueveUno, HilosDistintos
<1>3. /\ QuedaReady /\ QuedaEnVuelo /\ QuedaAvisado /\ \A w \in Worker : w # v => QuedaHilo(w)
  BY <1>1, <1>2, Quedan
<1>4. Ocupa(v) /\ Suelta(v) /\ etapa[v] # "fuera"
  BY <1>1 DEF Ocupa, Suelta, Soltando, Lugares, VidaBien
<1>5. ~ Ocupa(v)' /\ ~ Suelta(v)' /\ \A q \in Query : ~ Atiende(v, q)'
  BY <1>2 DEF Ocupa, Cierra, Atiende, Suelta, Soltando, Evaluando
<1>6. /\ ~ Libre(v) /\ planif.w # v /\ \A q \in Query : ~ Vuela(v, q) /\ ~ Leida(v, q)
  BY <1>4 DEF Lugares, UsoBien, DuenioBien
<1>7. \A w \in Worker : /\ Libre(w)' <=> Libre(w) \/ w = v
                        /\ UnicoLibre(w) => UnicoLibre(w)'
  BY <1>1, <1>6, AlOfrecer
<1>8. /\ \A q \in Query : ~ Tiene(v, q)'
      /\ \A w \in Worker : \A q \in Query : w # v => (Tiene(w, q)' <=> Tiene(w, q))
  BY <1>3, <1>5, <1>6 DEF Tiene, QuedaEnVuelo, QuedaHilo
<1> USE <1>1, <1>2, <1>3, <1>4, <1>5, <1>6, <1>7, <1>8, HilosDistintos
<1>9. PlanifBien'
  <2>1. planif.pc \in Tardio => planif.w \in Worker
    BY DEF Tipos, PlanifPleno, Tardio
  <2> QED
    BY <2>1 DEF Lugares, PlanifBien
<1>10. ASSUME NEW w \in Worker PROVE UsoBien(w)'
  BY DEF Lugares, UsoBien, QuedaEnVuelo, QuedaMandado, QuedaContestado, QuedaHilo
<1>11. ASSUME NEW w \in Worker PROVE VidaBien(w)'
  BY DEF Lugares, VidaBien, QuedaEnVuelo
<1>12. ASSUME NEW w \in Worker PROVE DuenioBien(w)'
  BY DEF Lugares, DuenioBien, QuedaReady, QuedaEnVuelo, QuedaContestado, QuedaHilo
<1>13. ASSUME NEW q \in Query PROVE LugarBien(q)'
  BY DEF Lugares, LugarBien, QuedaReady, QuedaAvisado
<1>14. ASSUME NEW q \in Query PROVE FinBien(q)'
  BY DEF Lugares, FinBien, QuedaReady, QuedaAvisado, QuedaHilo
<1> QED
  BY <1>9, <1>10, <1>11, <1>12, <1>13, <1>14 DEF Lugares

\* Of a Worker that went away, once its last message was read, nothing is left.
LEMMA NadaQueda ==
    ASSUME Tipos, Lugares, NEW v \in Worker, etapa[v] = "caido", aMaster[v] = <<>>
    PROVE  \A q \in Query : ~ Vuela(v, q) /\ ~ Leida(v, q)
<1>1. aWorker[v] = <<>> /\ enCurso[v] = {}
  BY DEF Lugares, VidaBien
<1>2. \A q \in Query : ~ Manda(v, q) /\ ~ Respondida(v, q) /\ ~ Leida(v, q)
  BY <1>1 DEF Manda, Respondida, Leida
<1> QED
  BY <1>1, <1>2 DEF Vuela

\* A Worker is written off, with the query that its id_query names.
LEMMA PasoBaja ==
    ASSUME Tipos, Lugares, NEW v \in Worker, BajaWorker(v)
    PROVE  Lugares'
<1>1. /\ hilo[v].pc = "escucha" /\ aMaster[v] = <<>> /\ etapa[v] = "caido"
      /\ UNCHANGED <<colaReady, colaLibres, idQuery, planif, aWorker, aMaster, etapa, enCurso>>
  BY DEF BajaWorker, procesos
<1>2. /\ hilo'[v].pc = "baja_limpia" /\ hilo'[Aceptador] = hilo[Aceptador]
      /\ \A w \in Worker : w # v => hilo'[w] = hilo[w]
  <2>1. HilosBien /\ [hilo[v] EXCEPT !.pc = "baja_limpia"].pc = "baja_limpia"
        /\ Pasa(v, [hilo[v] EXCEPT !.pc = "baja_limpia"])
    BY HilosDistintos DEF Tipos, HilosBien, RegHilo, BajaWorker, Ir
  <2> QED
    BY <2>1, MueveUno, HilosDistintos
<1>3. PICK p \in QueryN : p = idQuery[v]
  BY DEF Tipos, TypeOK
<1>4. \A q \in Query : /\ q # p => estado'[q] = estado[q]
                       /\ q = p => estado'[q] = "EXIT"
                       /\ Finalizada(q)' <=> Finalizada(q) \/ q = p
  <2>1. CASE p = NoQuery
    <3>1. UNCHANGED <<estado, aQC>>
      BY <1>3, <2>1 DEF BajaWorker
    <3> QED
      BY <2>1, <3>1, Quedan, HilosDistintos DEF QuedaAvisado
  <2>2. CASE p # NoQuery
    <3>1. p \in Query /\ estado' = [estado EXCEPT ![p] = "EXIT"] /\ EnviarAQC(p, "FIN_ERROR")
      BY <1>3, <2>2 DEF BajaWorker, QueryN
    <3>2. aQC \in [Query -> Seq(MsgAQC)] /\ "FIN_ERROR" \in Fines
          /\ \A q \in Query : estado'[q] = IF q = p THEN "EXIT" ELSE estado[q]
      BY <3>1 DEF Tipos, TypeOK, Fines
    <3>3. \A q \in Query : Finalizada(q)' <=> Finalizada(q) \/ q = p
      BY <3>1, <3>2, AlAvisar
    <3> QED
      BY <3>2, <3>3
  <2> QED
    BY <2>1, <2>2
<1>5. /\ QuedaReady /\ QuedaLibres /\ QuedaEnVuelo /\ \A w \in Worker : w # v => QuedaHilo(w)
  BY <1>1, <1>2, Quedan
<1>6. /\ (Cierra(v)' <=> Cierra(v)) /\ (Suelta(v)' <=> Suelta(v)) /\ (Ocupa(v)' <=> Ocupa(v))
      /\ \A q \in Query : ~ Atiende(v, q)' /\ ~ Atiende(v, q)
      /\ ~ Suelta(v)
  BY <1>1, <1>2 DEF Cierra, Suelta, Ocupa, Atiende, Soltando, Evaluando
<1>7. \A q \in Query : ~ Vuela(v, q) /\ ~ Leida(v, q) /\ ~ Tiene(v, q)
  BY <1>1, <1>6, NadaQueda DEF Tiene
<1>8. \A w \in Worker : \A q \in Query : Tiene(w, q)' <=> Tiene(w, q)
  BY <1>5, <1>6 DEF Tiene, QuedaEnVuelo, QuedaHilo
<1>9. p \in Query =>
        /\ ~ EnReady(p) /\ (planif.q = p => planif.w = v /\ planif.pc \in Tardio)
        /\ \A w \in Worker : ~ Tiene(w, p) /\ (w # v /\ idQuery[w] = p => Suelta(w))
  BY <1>3, <1>6, <1>7 DEF Lugares, DuenioBien
<1> USE <1>1, <1>2, <1>3, <1>4, <1>5, <1>6, <1>7, <1>8, <1>9, HilosDistintos
<1>10. PlanifBien'
  BY DEF Lugares, PlanifBien
<1>11. ASSUME NEW w \in Worker PROVE UsoBien(w)'
  BY DEF Lugares, UsoBien, QuedaLibres, QuedaEnVuelo, QuedaMandado, QuedaContestado, QuedaHilo
<1>12. ASSUME NEW w \in Worker PROVE VidaBien(w)'
  BY DEF Lugares, VidaBien, QuedaLibres, QuedaEnVuelo
<1>13. ASSUME NEW w \in Worker PROVE DuenioBien(w)'
  BY DEF Lugares, DuenioBien, QuedaReady, QuedaLibres, QuedaEnVuelo, QuedaContestado, QuedaHilo
<1>14. ASSUME NEW q \in Query PROVE LugarBien(q)'
  BY DEF Lugares, LugarBien, QuedaReady
<1>15. ASSUME NEW q \in Query PROVE FinBien(q)'
  BY DEF Lugares, FinBien, QuedaReady, QuedaHilo
<1> QED
  BY <1>10, <1>11, <1>12, <1>13, <1>14, <1>15 DEF Lugares

\* Then id_query is cleared and the thread ends.
LEMMA PasoBajaLimpia ==
    ASSUME Tipos, Lugares, NEW v \in Worker, BajaLimpia(v)
    PROVE  Lugares'
<1>1. /\ hilo[v].pc = "baja_limpia"
      /\ idQuery'[v] = NoQuery /\ \A w \in Worker : w # v => idQuery'[w] = idQuery[w]
      /\ UNCHANGED <<colaReady, colaLibres, estado, planif, aWorker, aMaster, aQC, etapa, enCurso>>
  BY DEF BajaLimpia, Tipos, TypeOK, colas, procesos
<1>2. /\ hilo'[v].pc = "muerto" /\ hilo'[Aceptador] = hilo[Aceptador]
      /\ \A w \in Worker : w # v => hilo'[w] = hilo[w]
  <2>1. HilosBien /\ [hilo[v] EXCEPT !.pc = "muerto"].pc = "muerto"
        /\ Pasa(v, [hilo[v] EXCEPT !.pc = "muerto"])
    BY HilosDistintos DEF Tipos, HilosBien, RegHilo, BajaLimpia, Ir
  <2> QED
    BY <2>1, MueveUno, HilosDistintos
<1>3. /\ QuedaReady /\ QuedaLibres /\ QuedaEnVuelo /\ QuedaAvisado
      /\ \A w \in Worker : w # v => QuedaHilo(w)
  BY <1>1, <1>2, Quedan
<1>4. /\ ~ Cierra(v)' /\ ~ Suelta(v)' /\ ~ Ocupa(v)' /\ ~ Suelta(v)
      /\ \A q \in Query : ~ Atiende(v, q)' /\ ~ Atiende(v, q)
  BY <1>1, <1>2 DEF Cierra, Suelta, Ocupa, Atiende, Soltando, Evaluando
<1>5. etapa[v] = "caido" /\ aMaster[v] = <<>>
  BY <1>1 DEF Lugares, VidaBien
<1>6. \A q \in Query : ~ Vuela(v, q) /\ ~ Leida(v, q) /\ ~ Tiene(v, q)
  BY <1>4, <1>5, NadaQueda DEF Tiene
<1>7. \A w \in Worker : \A q \in Query : Tiene(w, q)' <=> Tiene(w, q)
  BY <1>3, <1>4, <1>6 DEF Tiene, QuedaEnVuelo, QuedaHilo
<1> USE <1>1, <1>2, <1>3, <1>4, <1>5, <1>6, <1>7, HilosDistintos
<1>8. PlanifBien'
  <2>1. planif.pc \in Tardio => planif.w \in Worker
    BY DEF Tipos, PlanifPleno, Tardio
  <2> QED
    BY <2>1 DEF Lugares, PlanifBien
<1>9. ASSUME NEW w \in Worker PROVE UsoBien(w)'
  BY DEF Lugares, UsoBien, QuedaLibres, QuedaEnVuelo, QuedaMandado, QuedaContestado, QuedaHilo
<1>10. ASSUME NEW w \in Worker PROVE VidaBien(w)'
  BY DEF Lugares, VidaBien, QuedaLibres, QuedaEnVuelo
<1>11. ASSUME NEW w \in Worker PROVE DuenioBien(w)'
  BY DEF Lugares, DuenioBien, QuedaReady, QuedaLibres, QuedaEnVuelo, QuedaContestado, QuedaHilo
<1>12. ASSUME NEW q \in Query PROVE LugarBien(q)'
  BY DEF Lugares, LugarBien, QuedaReady, QuedaAvisado
<1>13. ASSUME NEW q \in Query PROVE FinBien(q)'
  BY DEF Lugares, FinBien, QuedaReady, QuedaAvisado, QuedaHilo
<1> QED
  BY <1>8, <1>9, <1>10, <1>11, <1>12, <1>13 DEF Lugares

\* A Worker process takes its query out of the socket.
LEMMA PasoRecibe ==
    ASSUME Tipos, Lugares, NEW v \in Worker, WorkerRecibeQuery(v)
    PROVE  Lugares'
<1>1. /\ aWorker \in [Worker -> Seq(MsgAWorker)] /\ Consume(v) /\ Head(aWorker[v]).op = "INICIA"
      /\ etapa[v] = "listo"
      /\ UNCHANGED <<colaReady, colaLibres, estado, idQuery, planif, hilo, aMaster, aQC, etapa>>
  BY DEF WorkerRecibeQuery, Tipos, TypeOK, colas, datos
<1>2. PICK p \in Query : p = Head(aWorker[v]).q
  BY <1>1, AlConsumir
<1>3. /\ \A w \in Worker : /\ \A q \in Query : Manda(w, q)' => Manda(w, q)
                           /\ UnaOrden(w) => UnaOrden(w)'
                           /\ aWorker[w] = <<>> => aWorker'[w] = <<>>
      /\ Manda(v, p) /\ \A q \in Query : ~ Manda(v, q)'
  BY <1>1, <1>2, AlConsumir DEF Lugares, UsoBien
<1>4. /\ enCurso'[v] = enCurso[v] \cup {p}
      /\ \A w \in Worker : w # v => enCurso'[w] = enCurso[w]
  BY <1>2 DEF WorkerRecibeQuery, Tipos, TypeOK
<1>5. /\ QuedaReady /\ QuedaLibres /\ QuedaContestado /\ QuedaAvisado
      /\ \A w \in Worker : QuedaHilo(w)
  BY <1>1, Quedan
<1>6. Vuela(v, p) /\ Tiene(v, p) /\ \A q \in Query : q \notin enCurso[v] /\ ~ Respondida(v, q)
  BY <1>3 DEF Vuela, Tiene, Lugares, UsoBien
<1>7. \A w \in Worker : \A q \in Query :
          (Vuela(w, q)' => Vuela(w, q)) /\ (Tiene(w, q)' => Tiene(w, q))
  BY <1>3, <1>4, <1>5, <1>6 DEF Vuela, Tiene, QuedaContestado, QuedaHilo
<1> USE <1>1, <1>3, <1>4, <1>5, <1>6, <1>7, HilosDistintos
<1>8. PlanifBien'
  BY DEF Lugares, PlanifBien
<1>9. ASSUME NEW w \in Worker PROVE UsoBien(w)'
  BY DEF Lugares, UsoBien, QuedaLibres, QuedaContestado, QuedaHilo
<1>10. ASSUME NEW w \in Worker PROVE VidaBien(w)'
  BY DEF Lugares, VidaBien, QuedaLibres
<1>11. ASSUME NEW w \in Worker PROVE DuenioBien(w)'
  BY DEF Lugares, DuenioBien, QuedaReady, QuedaLibres, QuedaContestado, QuedaHilo
<1>12. ASSUME NEW q \in Query PROVE LugarBien(q)'
  BY DEF Lugares, LugarBien, QuedaReady, QuedaAvisado
<1>13. ASSUME NEW q \in Query PROVE FinBien(q)'
  BY DEF Lugares, FinBien, QuedaReady, QuedaAvisado, QuedaHilo
<1> QED
  BY <1>8, <1>9, <1>10, <1>11, <1>12, <1>13 DEF Lugares

\* A Worker process sends a READ result of the query it runs, or its answer.
LEMMA PasoContesta ==
    ASSUME Tipos, Lugares, NEW v \in Worker, NEW p \in Query,
           \/ WorkerLee(v, p) \/ WorkerTermina(v, p)
           \/ \E pc \in 0..MaxPC : WorkerDesaloja(v, p, pc)
    PROVE  Lugares'
<1>1. /\ etapa[v] = "listo" /\ p \in enCurso[v] /\ aMaster \in [Worker -> Seq(MsgAMaster)]
      /\ UNCHANGED <<colaReady, colaLibres, estado, idQuery, planif, hilo, aWorker, aQC, etapa>>
  BY DEF WorkerLee, WorkerTermina, WorkerDesaloja, Ejecuta, Tipos, TypeOK, colas, datos, procesos
<1>2. PICK m : /\ m.q = p /\ aMaster' = [aMaster EXCEPT ![v] = Append(@, m)]
               /\ \/ m.op = "LECTURA" /\ UNCHANGED enCurso
                  \/ m.op \in Respuestas /\ enCurso' = [enCurso EXCEPT ![v] = @ \ {p}]
  <2> DEFINE D(m) == /\ m.q = p /\ aMaster' = [aMaster EXCEPT ![v] = Append(@, m)]
                     /\ \/ m.op = "LECTURA" /\ UNCHANGED enCurso
                        \/ m.op \in Respuestas /\ enCurso' = [enCurso EXCEPT ![v] = @ \ {p}]
  <2>1. CASE WorkerLee(v, p)
    <3>1. D([op |-> "LECTURA", q |-> p, pc |-> 0])
      BY <2>1 DEF WorkerLee, procesos
    <3> QED
      BY <3>1
  <2>2. CASE WorkerTermina(v, p)
    <3>1. D([op |-> "FIN", q |-> p, pc |-> IF p \in ConError THEN 0 ELSE 1])
      BY <2>2 DEF WorkerTermina, Contesta, Respuestas
    <3> QED
      BY <3>1
  <2>3. ASSUME NEW pc \in 0..MaxPC, WorkerDesaloja(v, p, pc) PROVE \E m : D(m)
    <3>1. D([op |-> "DESALOJAR", q |-> p, pc |-> pc])
      BY <2>3 DEF WorkerDesaloja, Contesta, Respuestas
    <3> QED
      BY <3>1
  <2> QED
    BY <2>1, <2>2, <2>3
<1>3. /\ \A q \in enCurso'[v] : q \in enCurso[v]
      /\ m.op \in Respuestas => \A q \in enCurso'[v] : q # p
      /\ \A w \in Worker : w # v => enCurso'[w] = enCurso[w]
      /\ "LECTURA" \notin Respuestas
  BY <1>2 DEF Tipos, TypeOK, Respuestas
<1>4. /\ QuedaReady /\ QuedaLibres /\ QuedaMandado /\ QuedaAvisado
      /\ \A w \in Worker : QuedaHilo(w)
  BY <1>1, Quedan
<1>5. /\ Vuela(v, p) /\ Tiene(v, p)
      /\ \A q \in Query : ~ Manda(v, q) /\ ~ Respondida(v, q) /\ (q \in enCurso[v] => q = p)
  BY <1>1 DEF Vuela, Tiene, Lugares, UsoBien
<1>6. ASSUME NEW w \in Worker
      PROVE  /\ \A q \in Query : Respondida(w, q)' =>
                  Respondida(w, q) \/ (w = v /\ m.op \in Respuestas /\ q = p)
             /\ \A q \in Query : Leida(w, q)' => Leida(w, q) \/ (w = v /\ q = p /\ m.op = "LECTURA")
             /\ RespuestaAlFinal(w) => RespuestaAlFinal(w)'
             /\ w # v => aMaster'[w] = aMaster[w]
  <2>1. /\ aMaster \in [Worker -> Seq(MsgAMaster)]
        /\ aMaster' = [aMaster EXCEPT ![v] = Append(@, m)] /\ m.q = p
        /\ \A q \in Query : ~ Respondida(v, q)
    BY <1>1, <1>2, <1>5
  <2>2. /\ \A q \in Query : Respondida(w, q)' =>
              Respondida(w, q) \/ (w = v /\ m.op \in Respuestas /\ m.q = q)
        /\ \A q \in Query : Leida(w, q)' =>
              Leida(w, q) \/ (w = v /\ m.op = "LECTURA" /\ m.q = q)
        /\ RespuestaAlFinal(w) => RespuestaAlFinal(w)'
        /\ w # v => aMaster'[w] = aMaster[w]
    BY <2>1, AlContestar
  <2> QED
    BY <2>1, <2>2
<1>7. \A w \in Worker : \A q \in Query :
          (Vuela(w, q)' => Vuela(w, q)) /\ (Tiene(w, q)' => Tiene(w, q))
  BY <1>3, <1>4, <1>5, <1>6 DEF Vuela, Tiene, QuedaMandado, QuedaHilo
<1>8. /\ hilo[v].pc \notin {"baja_limpia", "muerto"} /\ ~ Ocupa(v) /\ idQuery[v] = p
      /\ ~ Libre(v) /\ planif.w # v
  BY <1>1, <1>5 DEF Lugares, VidaBien, UsoBien, DuenioBien
<1> USE <1>1, <1>3, <1>4, <1>5, <1>6, <1>7, <1>8, HilosDistintos
<1>9. PlanifBien'
  BY DEF Lugares, PlanifBien
<1>10. ASSUME NEW w \in Worker PROVE UsoBien(w)'
  BY DEF Lugares, UsoBien, QuedaLibres, QuedaMandado, QuedaHilo
<1>11. ASSUME NEW w \in Worker PROVE VidaBien(w)'
  BY DEF Lugares, VidaBien, QuedaLibres
<1>12. ASSUME NEW w \in Worker PROVE DuenioBien(w)'
  BY DEF Lugares, DuenioBien, QuedaReady, QuedaLibres, QuedaHilo
<1>13. ASSUME NEW q \in Query PROVE LugarBien(q)'
  BY DEF Lugares, LugarBien, QuedaReady, QuedaAvisado
<1>14. ASSUME NEW q \in Query PROVE FinBien(q)'
  BY DEF Lugares, FinBien, QuedaReady, QuedaAvisado, QuedaHilo
<1> QED
  BY <1>9, <1>10, <1>11, <1>12, <1>13, <1>14 DEF Lugares

-----------------------------------------------------------------------------
(* Every reachable state has every query and every worker in its place.    *)

\* At the start ...
LEMMA LugaresInicial == Init => Lugares
<1> SUFFICES ASSUME Init PROVE Lugares
  OBVIOUS
<1> USE HilosDistintos
<1>1. /\ colaReady = <<>> /\ colaLibres = YaConectados
      /\ planif.pc = "espera_query" /\ planif.q = NoQuery /\ planif.w = NoWorker
      /\ \A w \in Worker : /\ idQuery[w] = NoQuery /\ aWorker[w] = <<>> /\ aMaster[w] = <<>>
                           /\ enCurso[w] = {}
                           /\ etapa[w] = IF Conectado(w) THEN "listo" ELSE "fuera"
                           /\ hilo[w].pc = IF Conectado(w) THEN "escucha" ELSE "inactivo"
      /\ \A q \in Query : aQC[q] = <<>>
      /\ hilo[Aceptador].pc = "inactivo"
  BY DEF Init, Quieto
<1>2. /\ \A q \in Query : ~ EnReady(q) /\ UnicaReady(q) /\ ~ Finalizada(q)
      /\ \A w \in Worker : \A q \in Query : ~ Manda(w, q) /\ ~ Respondida(w, q) /\ ~ Leida(w, q)
      /\ \A w \in Worker : UnaOrden(w) /\ RespuestaAlFinal(w)
  BY <1>1 DEF EnReady, UnicaReady, Finalizada, Manda, Respondida, Leida, UnaOrden, RespuestaAlFinal
<1>3. \A w \in Worker : (Libre(w) <=> Conectado(w)) /\ UnicoLibre(w)
  BY <1>1, MasterAssumption DEF Libre, Conectado, UnicoLibre
<1>4. \A w \in Worker : ~ Suelta(w) /\ ~ Ocupa(w) /\ \A q \in Query : ~ Atiende(w, q)
  BY <1>1 DEF Suelta, Ocupa, Cierra, Atiende, Soltando, Evaluando
<1>5. \A w \in Worker : \A q \in Query : ~ Vuela(w, q) /\ ~ Tiene(w, q)
  BY <1>1, <1>2, <1>4 DEF Vuela, Tiene
<1> HIDE DEF Init
<1>6. PlanifBien
  BY <1>1 DEF PlanifBien, Tardio
<1>7. ASSUME NEW w \in Worker PROVE UsoBien(w) /\ VidaBien(w) /\ DuenioBien(w)
  <2>1. UsoBien(w)
    BY <1>1, <1>2, <1>3, <1>4, <1>5 DEF UsoBien
  <2>2. VidaBien(w)
    BY <1>1, <1>2, <1>3, <1>4, <1>5 DEF VidaBien
  <2>3. DuenioBien(w)
    BY <1>1, <1>2, <1>3, <1>4, <1>5 DEF DuenioBien
  <2> QED
    BY <2>1, <2>2, <2>3
<1>8. ASSUME NEW q \in Query PROVE LugarBien(q) /\ FinBien(q)
  BY <1>1, <1>2, <1>5 DEF LugarBien, FinBien, Tardio
<1> QED
  BY <1>6, <1>7, <1>8 DEF Lugares

\* ... and after each step.
LEMMA LugaresPaso == Tipos /\ Tokens /\ Lugares /\ [Next]_vars => Lugares'
<1> SUFFICES ASSUME Tipos, Tokens, Lugares, [Next]_vars PROVE Lugares'
  OBVIOUS
<1>1. CASE Planificador
  BY <1>1, PasoPlanif, PasoElige, PasoSaca, PasoAsigna, PasoEnvia DEF Planificador
<1>2. CASE \E h \in Hilo : Evaluador(h)
  BY <1>2, PasoEvaluador
<1>3. CASE AceptadorAvanza
  BY <1>3, PasoAviso, PasoSuelto, PasoConfirma DEF AceptadorAvanza
<1>4. ASSUME NEW w \in Worker, AtenderWorker(w) PROVE Lugares'
  BY <1>4, PasoAviso, PasoRespuesta, PasoFin, PasoReencola, PasoSuelta, PasoSuelto, PasoBaja,
     PasoBajaLimpia DEF AtenderWorker
<1>5. ASSUME NEW w \in Worker, WorkerEscucha(w) \/ WorkerEjecuta(w) \/ CaeWorker(w) PROVE Lugares'
  BY <1>5, PasoProceso, PasoRecibe, PasoContesta DEF WorkerEscucha, WorkerEjecuta
<1>6. ASSUME NEW w \in Worker, NEW q \in Query, WorkerLee(w, q) PROVE Lugares'
  BY <1>6, PasoContesta
<1>7. CASE UNCHANGED vars
  BY <1>7, NadaMengua, PasoQuieto DEF vars, colas, datos, procesos
<1>8. CASE (\E a \in HilosAging : Envejece(a)) \/ (\E q \in Query : BajaQC(q))
  BY <1>8, PasoSuelto
<1>9. CASE (\E q \in Query : AceptarQuery(q)) \/ (\E w \in Worker : AceptarWorker(w))
  BY <1>9, PasoAlta, PasoConecta
<1> QED
  BY <1>1, <1>2, <1>3, <1>4, <1>5, <1>6, <1>7, <1>8, <1>9 DEF Next

-----------------------------------------------------------------------------
(* What it says of the properties of Master.                               *)

\* What worker w has of query q is in one place, and it has no other query.
LEMMA VueloUnico ==
    ASSUME NEW w \in Worker, UsoBien(w), aMaster \in [Worker -> Seq(MsgAMaster)]
    PROVE  /\ \A q \in Query : EnVuelo(w, q) # {} <=> Vuela(w, q)
           /\ \A q \in Query : \A a, b \in EnVuelo(w, q) : a = b
           /\ \A p, q \in Query : Vuela(w, p) /\ Vuela(w, q) => p = q
<1> DEFINE I(q) == {i \in DOMAIN aWorker[w] : aWorker[w][i].op = "INICIA" /\ aWorker[w][i].q = q}
           C(q) == {i \in DOMAIN aMaster[w] : aMaster[w][i].op \in Respuestas /\ aMaster[w][i].q = q}
<1>1. \A q \in Query : \A a : a \in EnVuelo(w, q) <=>
          \/ \E i \in I(q) : a = <<"inicia", w, i>>
          \/ q \in enCurso[w] /\ a = <<"corre", w, 0>>
          \/ \E i \in C(q) : a = <<"contesta", w, i>>
  BY DEF EnVuelo
<1>2. \A q \in Query : (I(q) # {} <=> Manda(w, q)) /\ (C(q) # {} <=> Respondida(w, q))
  BY DEF Manda, Respondida
<1>3. \A p, q \in Query : \A i \in I(p), j \in I(q) : i = j
  BY DEF UsoBien, UnaOrden
<1>4. \A p, q \in Query : \A i \in C(p), j \in C(q) : i = j
  BY DEF UsoBien, RespuestaAlFinal
<1>5. \A p, q \in Query : (I(p) # {} /\ I(q) # {} => p = q) /\ (C(p) # {} /\ C(q) # {} => p = q)
  BY <1>3, <1>4
<1> HIDE DEF I, C
<1>6. ASSUME NEW q \in Query PROVE EnVuelo(w, q) # {} <=> Vuela(w, q)
  BY <1>1, <1>2 DEF Vuela
<1>7. /\ \A p, q \in Query : I(p) # {} => q \notin enCurso[w] /\ C(q) = {}
      /\ \A p, q \in Query : p \in enCurso[w] => (q \in enCurso[w] => p = q) /\ C(q) = {}
  BY <1>2 DEF UsoBien
<1>8. ASSUME NEW q \in Query, NEW a \in EnVuelo(w, q), NEW b \in EnVuelo(w, q) PROVE a = b
  <2>1. CASE \E i \in I(q) : a = <<"inicia", w, i>>
    BY <1>1, <1>3, <1>7, <2>1
  <2>2. CASE q \in enCurso[w] /\ a = <<"corre", w, 0>>
    BY <1>1, <1>7, <2>2
  <2>3. CASE \E i \in C(q) : a = <<"contesta", w, i>>
    BY <1>1, <1>4, <1>7, <2>3
  <2> QED
    BY <1>1, <2>1, <2>2, <2>3
<1>9. ASSUME NEW p \in Query, NEW q \in Query, Vuela(w, p), Vuela(w, q) PROVE p = q
  BY <1>2, <1>5, <1>7, <1>9 DEF Vuela
<1> QED
  BY <1>6, <1>8, <1>9

\* A query is queued, chosen, on a worker or with the thread of a worker, and in
\* only one of these places, whatever the interleaving and whoever goes away.
LEMMA LugaresUnaSolaInstancia == Tipos /\ Lugares => UnaSolaInstancia
<1> SUFFICES ASSUME Tipos, Lugares, NEW q \in Query,
                    NEW a \in LugaresQuery(q), NEW b \in LugaresQuery(q)
             PROVE  a = b
  BY DEF UnaSolaInstancia
<1> DEFINE R(x) == \E i \in DOMAIN colaReady : colaReady[i] = q /\ x = <<"ready", NoWorker, i>>
           P(x) == planif.q = q /\ x = <<"plan", NoWorker, 0>>
           H(x) == \E w \in Worker : Atiende(w, q) /\ x = <<"hilo", w, 0>>
           V(x) == \E w \in Worker : x \in EnVuelo(w, q)
<1>1. \A x \in LugaresQuery(q) : R(x) \/ P(x) \/ H(x) \/ V(x)
  BY DEF LugaresQuery, Atiende, Cierra
<1>2. \A x : R(x) => EnReady(q)
  BY DEF EnReady
<1>3. \A w \in Worker : UsoBien(w) /\ aMaster \in [Worker -> Seq(MsgAMaster)]
  BY DEF Lugares, Tipos, TypeOK
<1>4. \A x : \A w \in Worker : x \in EnVuelo(w, q) => Vuela(w, q)
  BY <1>3, VueloUnico
<1>5. LugarBien(q)
  BY DEF Lugares
<1>6. CASE R(a)
  <2>1. R(b)
    BY <1>1, <1>2, <1>4, <1>5, <1>6 DEF LugarBien, Tiene
  <2> QED
    BY <1>5, <1>6, <2>1 DEF LugarBien, UnicaReady
<1>7. CASE P(a)
  <2>1. P(b)
    BY <1>1, <1>2, <1>4, <1>5, <1>7 DEF LugarBien, Tiene
  <2> QED
    BY <1>7, <2>1
<1>8. CASE H(a)
  <2>1. PICK w \in Worker : Atiende(w, q) /\ a = <<"hilo", w, 0>>
    BY <1>8
  <2>2. Tiene(w, q) /\ ~ Vuela(w, q)
    BY <1>3, <2>1 DEF Tiene, Atiende, Ocupa, UsoBien
  <2>3. H(b)
    BY <1>1, <1>2, <1>4, <1>5, <2>2 DEF LugarBien, Tiene
  <2>4. PICK v \in Worker : Atiende(v, q) /\ b = <<"hilo", v, 0>>
    BY <2>3
  <2>5. v = w
    BY <1>5, <2>2, <2>4 DEF LugarBien, Tiene
  <2> QED
    BY <2>1, <2>4, <2>5
<1>9. CASE V(a)
  <2>1. PICK w \in Worker : a \in EnVuelo(w, q)
    BY <1>9
  <2>2. Tiene(w, q) /\ Vuela(w, q) /\ ~ Atiende(w, q)
    BY <1>3, <1>4, <2>1 DEF Tiene, Atiende, Ocupa, UsoBien
  <2>3. V(b)
    BY <1>1, <1>2, <1>5, <2>2 DEF LugarBien, Tiene
  <2>4. PICK v \in Worker : b \in EnVuelo(v, q)
    BY <2>3
  <2>5. v = w
    BY <1>4, <1>5, <2>2, <2>4 DEF LugarBien, Tiene
  <2> QED
    BY <1>3, <2>1, <2>4, <2>5, VueloUnico
<1> QED
  BY <1>1, <1>6, <1>7, <1>8, <1>9

\* A worker is free, chosen, with one query or with its thread, once.
LEMMA LugaresUnWorker == Tipos /\ Lugares => UnWorkerUnaQuery
<1> SUFFICES ASSUME Tipos, Lugares, NEW w \in Worker,
                    NEW a \in LugaresWorker(w), NEW b \in LugaresWorker(w)
             PROVE  a = b
  BY DEF UnWorkerUnaQuery
<1> DEFINE L(x) == \E i \in DOMAIN colaLibres : colaLibres[i] = w /\ x = <<"libre", NoQuery, i>>
           P(x) == planif.w = w /\ x = <<"plan", NoQuery, 0>>
           H(x) == Ocupa(w) /\ x = <<"hilo", NoQuery, 0>>
           V(x) == \E q \in Query : \E l \in EnVuelo(w, q) : x = <<l, q>>
<1>1. \A x \in LugaresWorker(w) : L(x) \/ P(x) \/ H(x) \/ V(x)
  BY DEF LugaresWorker, Ocupa, Cierra, Suelta, Soltando
<1>2. \A x : L(x) => Libre(w)
  BY DEF Libre
<1>3. UsoBien(w) /\ aMaster \in [Worker -> Seq(MsgAMaster)]
  BY DEF Lugares, Tipos, TypeOK
<1>4. \A x : V(x) => \E q \in Query : Vuela(w, q)
  BY <1>3, VueloUnico
<1>5. CASE L(a)
  <2>1. L(b)
    BY <1>1, <1>2, <1>3, <1>4, <1>5 DEF UsoBien
  <2> QED
    BY <1>3, <1>5, <2>1 DEF UsoBien, UnicoLibre
<1>6. CASE P(a)
  BY <1>1, <1>2, <1>3, <1>4, <1>6 DEF UsoBien
<1>7. CASE H(a)
  BY <1>1, <1>2, <1>3, <1>4, <1>7 DEF UsoBien
<1>8. CASE V(a)
  <2>1. V(b)
    BY <1>1, <1>2, <1>3, <1>4, <1>8 DEF UsoBien
  <2>2. PICK p \in Query, q \in Query : \E l \in EnVuelo(w, p), m \in EnVuelo(w, q) :
            a = <<l, p>> /\ b = <<m, q>>
    BY <1>8, <2>1
  <2>3. p = q
    BY <1>3, <2>2, VueloUnico
  <2> QED
    BY <1>3, <2>2, <2>3, VueloUnico
<1> QED
  BY <1>1, <1>5, <1>6, <1>7, <1>8

\* Whatever a worker has, its id_query names.
LEMMA LugaresAsignacion == Tipos /\ Lugares => AsignacionCoherente
<1> SUFFICES ASSUME Tipos, Lugares, NEW w \in Worker, NEW q \in Query, EnVuelo(w, q) # {}
             PROVE  idQuery[w] = q
  BY DEF AsignacionCoherente
<1>1. Vuela(w, q)
  BY VueloUnico DEF Lugares, Tipos, TypeOK
<1> QED
  BY <1>1 DEF Tiene, Lugares, DuenioBien

-----------------------------------------------------------------------------
(* The theorems about places.                                              *)

\* The inductive invariant holds in every reachable state.
LEMMA LugaresSiempre == Spec => [](Tipos /\ Tokens /\ Lugares)
BY TiposInicial, TiposPaso, TokensInicial, TokensPaso, LugaresInicial, LugaresPaso, PTL DEF Spec

\* A query is never queued twice, queued while it runs, or run by two workers.
THEOREM QueryEnUnLugar == Spec => []UnaSolaInstancia
BY LugaresSiempre, LugaresUnaSolaInstancia, PTL

\* A worker serves one query at a time and is offered once.
THEOREM WorkerEnUnUso == Spec => []UnWorkerUnaQuery
BY LugaresSiempre, LugaresUnWorker, PTL

\* While a live worker has a query its id_query names it, for evaluar_desalojo
\* and for manejar_desconexion_worker.
THEOREM IdQueryCorrecto == Spec => []AsignacionCoherente
BY LugaresSiempre, LugaresAsignacion, PTL

-----------------------------------------------------------------------------
(* The end of a query.                                                     *)

\* No message but QUERY_RECIBIDA is sent to a client that was told the end.
Calla == \/ aQC' = aQC
         \/ \E p \in Query : \E m : /\ EnviarAQC(p, m)
                                    /\ m = "QUERY_RECIBIDA" \/ ~ Finalizada(p)

\* A Query Control is written to when it arrives, and then until it is told its end.
LEMMA FinCalla ==
    ASSUME Tipos, Lugares, [Next]_vars
    PROVE  Calla
<1>1. CASE ResponderQC
  <2>1. CASE hilo[Aceptador].q \in Query
    BY <1>1, <2>1 DEF ResponderQC, Calla
  <2>2. CASE hilo[Aceptador].q \notin Query
    BY <1>1, <2>2 DEF ResponderQC, EnviarAQC, Calla, Tipos, TypeOK
  <2> QED
    BY <2>1, <2>2
<1>2. ASSUME NEW w \in Worker, RecibirLectura(w) PROVE Calla
  <2>1. PICK p : p = Head(aMaster[w]).q
    OBVIOUS
  <2>2. Llega(w, "LECTURA") /\ EnviarAQC(p, "READ") /\ hilo[w].pc = "escucha"
    BY <1>2, <2>1 DEF RecibirLectura, Llega
  <2>3. p \in Query /\ Leida(w, p)
    BY <2>1, <2>2, AlLlegar DEF Tipos, TypeOK, MsgAMaster
  <2>4. idQuery[w] = p /\ ~ Suelta(w)
    BY <2>3 DEF Lugares, DuenioBien, Ocupa
  <2>5. ~ Finalizada(p)
    BY <2>2, <2>3, <2>4 DEF Lugares, FinBien
  <2> QED
    BY <2>2, <2>3, <2>5 DEF Calla
<1>3. ASSUME NEW w \in Worker, AvisarFin(w) PROVE Calla
  <2>1. PICK p : p = hilo[w].q
    OBVIOUS
  <2>2. hilo[w].pc = "fin_qc" /\ EnviarAQC(p, "FIN_OK")
    BY <1>3, <2>1 DEF AvisarFin
  <2>3. p \in Query /\ Tiene(w, p)
    BY <2>1, <2>2 DEF Lugares, UsoBien, Tiene, Atiende, Cierra
  <2>4. ~ Finalizada(p)
    BY <2>3 DEF Lugares, FinBien
  <2> QED
    BY <2>2, <2>3, <2>4 DEF Calla
<1>4. ASSUME NEW w \in Worker, BajaWorker(w) PROVE Calla
  <2>1. PICK p : p = idQuery[w]
    OBVIOUS
  <2>2. /\ hilo[w].pc = "escucha" /\ ~ Suelta(w) /\ p \in QueryN
        /\ IF p = NoQuery THEN aQC' = aQC ELSE EnviarAQC(p, "FIN_ERROR")
    BY <1>4, <2>1 DEF BajaWorker, Tipos, TypeOK, Suelta, Soltando, Evaluando
  <2>3. p \in Query => ~ Finalizada(p)
    BY <2>1, <2>2 DEF Lugares, FinBien
  <2> QED
    BY <2>2, <2>3 DEF Calla, QueryN
<1>5. CASE aQC' = aQC
  BY <1>5 DEF Calla
<1>6. CASE Planificador
  BY <1>5, <1>6 DEF Planificador, PlanEsperaQuery, PlanEsperaWorker, PlanElige, PlanSacaWorker,
     PlanAsigna, PlanEncolaExec, PlanEnvia
<1>7. ASSUME NEW h \in Hilo, Evaluador(h) PROVE Calla
  BY <1>5, <1>7 DEF Evaluador, EvalLibres, EvalPeor, EvalBuscar, EvalEnvia, Despierta
<1>8. CASE AceptadorAvanza
  BY <1>1, <1>5, <1>8 DEF AceptadorAvanza, AvisarAlta, ConfirmarWorker
<1>9. ASSUME NEW w \in Worker, AtenderWorker(w) PROVE Calla
  BY <1>2, <1>3, <1>4, <1>5, <1>9 DEF AtenderWorker, RecibirFin, RecibirDesalojo, Reencolar,
     SoltarWorker, AvisarLibre, BajaLimpia
<1>10. ASSUME NEW w \in Worker, WorkerEscucha(w) \/ WorkerEjecuta(w) \/ CaeWorker(w) PROVE Calla
  BY <1>5, <1>10 DEF WorkerEscucha, WorkerSaludo, WorkerRecibeDesalojo, WorkerRecibeQuery,
     WorkerEjecuta, WorkerTermina, WorkerNoAbre, WorkerDesaloja, CaeWorker
<1>11. ASSUME NEW w \in Worker, NEW q \in Query, WorkerLee(w, q) PROVE Calla
  BY <1>5, <1>11 DEF WorkerLee
<1>12. ASSUME NEW q \in Query, BajaQC(q) \/ AceptarQuery(q) PROVE Calla
  BY <1>5, <1>12 DEF BajaQC, AceptarQuery
<1>13. ASSUME NEW w \in Worker, AceptarWorker(w) PROVE Calla
  BY <1>5, <1>13 DEF AceptarWorker
<1>14. CASE \E a \in HilosAging : Envejece(a)
  BY <1>5, <1>14 DEF Envejece
<1>15. CASE UNCHANGED vars
  BY <1>5, <1>15 DEF vars
<1> QED
  BY <1>6, <1>7, <1>8, <1>9, <1>10, <1>11, <1>12, <1>13, <1>14, <1>15 DEF Next

\* Each step keeps the end, if it was told, the last thing told.
LEMMA FinUnicoPaso == Tipos /\ Lugares /\ FinUnico /\ [Next]_vars => FinUnico'
<1> SUFFICES ASSUME Tipos, Lugares, FinUnico, [Next]_vars, NEW q \in Query,
                    NEW i \in DOMAIN aQC'[q], NEW j \in DOMAIN aQC'[q],
                    i < j, aQC'[q][i] \in Fines
             PROVE  aQC'[q][j] = "QUERY_RECIBIDA"
  BY DEF FinUnico
<1>1. CASE aQC'[q] = aQC[q]
  BY <1>1 DEF FinUnico
<1>2. CASE aQC'[q] # aQC[q]
  <2>1. PICK m : /\ EnviarAQC(q, m)
                 /\ m = "QUERY_RECIBIDA" \/ ~ Finalizada(q)
    BY <1>2, FinCalla DEF Calla, EnviarAQC, Tipos, TypeOK
  <2> DEFINE s == aQC[q]
             t == aQC'[q]
  <2>2. s \in Seq(MsgAQC) /\ t = Append(s, m)
    BY <2>1 DEF EnviarAQC, Tipos, TypeOK
  <2>3. /\ Len(s) \in Nat /\ DOMAIN s = 1..Len(s) /\ DOMAIN t = 1..(Len(s) + 1)
        /\ t[Len(s) + 1] = m /\ \A k \in DOMAIN s : t[k] = s[k]
    BY <2>2, Agrega
  <2>4. \A k, l \in DOMAIN s : k < l /\ s[k] \in Fines => s[l] = "QUERY_RECIBIDA"
    BY DEF FinUnico
  <2>5. i \in DOMAIN s
    BY <2>3
  <2>6. Finalizada(q)
    BY <2>3, <2>5 DEF Finalizada
  <2> QED
    BY <2>1, <2>3, <2>4, <2>5, <2>6
<1> QED
  BY <1>1, <1>2

\* A Query Control is told the end once, by the worker's answer or by its
\* disconnection, and no READ result follows.
THEOREM FinUnaVez == Spec => []FinUnico
<1>1. Init => FinUnico
  BY DEF Init, FinUnico
<1> QED
  BY <1>1, LugaresSiempre, FinUnicoPaso, PTL DEF Spec

\* What was told stays told.
LEMMA FinSigue ==
    ASSUME Tipos, Lugares, [Next]_vars, NEW q \in Query, Finalizada(q)
    PROVE  Finalizada(q)'
<1>1. aQC \in [Query -> Seq(MsgAQC)]
  BY DEF Tipos, TypeOK
<1>2. CASE aQC' = aQC
  BY <1>2 DEF Finalizada
<1>3. CASE \E p \in Query : \E m : EnviarAQC(p, m)
  BY <1>1, <1>3, AlAvisar
<1> QED
  BY <1>2, <1>3, FinCalla DEF Calla

\* A query whose Query Control was told it ended stays in EXIT for good.
THEOREM FinDefinitivo == Spec => FinEsFinal
<1>1. Tipos /\ Tokens /\ Lugares /\ Lugares' /\ [Next]_vars
      => [\A q \in Query : Finalizada(q) => estado'[q] = "EXIT"]_vars
  BY FinSigue DEF Lugares, FinBien
<1> QED
  BY <1>1, LugaresSiempre, PTL DEF Spec, FinEsFinal

-----------------------------------------------------------------------------
(* The tokens.                                                             *)

Ordenado == ~ Prioridades \/ MaxBajasQC = 0

\* What elegir_query_por_prioridad looks at: the queries of cola_ready are READY.
ReadyBien == MaxBajasQC = 0 => \A q \in Query : EnReady(q) => estado[q] = "READY"

\* With no Query Control to leave, none leaves.
LEMMA SinBajaQC ==
    ASSUME Tipos, MaxBajasQC = 0, NEW q \in Query
    PROVE  ~ BajaQC(q)
<1>1. Cardinality(qcIdos) \in Nat
  BY MasterAssumption, FS_Subset, FS_CardinalityType DEF Tipos, TypeOK
<1> QED
  BY <1>1 DEF BajaQC

\* A query is not in cola_ready while its state is another's to write.
LEMMA ReadyPaso ==
    ASSUME Tipos, Tokens, Lugares, ReadyBien, [Next]_vars
    PROVE  ReadyBien'
<1> SUFFICES ASSUME MaxBajasQC = 0, NEW q \in Query, EnReady(q)'
             PROVE  estado'[q] = "READY"
  BY DEF ReadyBien
<1> DEFINE Igual == (EnReady(q)' => EnReady(q)) /\ (EnReady(q) => estado'[q] = estado[q])
<1>1. Igual => estado'[q] = "READY"
  BY DEF ReadyBien
<1> HIDE DEF Igual
<1>2. UNCHANGED <<colaReady, estado>> => Igual
  BY DEF Igual, EnReady
<1>3. CASE Planificador
  <2>1. CASE PlanElige
    <3>1. PICK e : e = planif'.q
      OBVIOUS
    <3>2. EnReady(q)' => EnReady(q)
      BY <2>1, <3>1, AlElegir
    <3> QED
      BY <1>1, <2>1, <3>2 DEF Igual, PlanElige, datos
  <2>2. CASE PlanSacaWorker
    BY <1>1, <1>2, <2>2, TokensSinEspera DEF PlanSacaWorker, SinEsperaEnVano, datos
  <2>3. CASE PlanAsigna
    <3>1. EnReady(q)' => EnReady(q)
      BY <2>3 DEF PlanAsigna, EnReady, colas
    <3>2. EnReady(q) => planif.q # q
      BY DEF Lugares, LugarBien
    <3> QED
      BY <1>1, <2>3, <3>1, <3>2 DEF Igual, PlanAsigna, Tipos, TypeOK
  <2> QED
    BY <1>1, <1>2, <1>3, <2>1, <2>2, <2>3 DEF Planificador, PlanEsperaQuery, PlanEsperaWorker,
       PlanEncolaExec, PlanEnvia, colas, datos
<1>4. ASSUME NEW h \in Hilo, Evaluador(h) PROVE estado'[q] = "READY"
  BY <1>1, <1>2, <1>4 DEF Evaluador, EvalLibres, EvalPeor, EvalBuscar, EvalEnvia, Despierta,
     colas, datos
<1>5. CASE AceptadorAvanza
  BY <1>1, <1>2, <1>5 DEF AceptadorAvanza, ResponderQC, AvisarAlta, ConfirmarWorker, colas, datos
<1>6. ASSUME NEW h, NEW p \in Query, EncolarReady(h, p) PROVE estado'[q] = "READY"
  <2>1. /\ estado \in [Query -> {"NUEVA", "READY", "EXEC", "EXIT"}]
        /\ estado' = [estado EXCEPT ![p] = "READY"]
        /\ colaReady \in Seq(Query) /\ colaReady' = Append(colaReady, p)
    BY <1>6 DEF EncolarReady, Tipos, TypeOK
  <2>2. CASE q = p
    BY <2>1, <2>2
  <2>3. CASE q # p
    <3>1. EnReady(q)' => EnReady(q)
      BY <2>1, <2>3, AlEncolar
    <3> QED
      BY <1>1, <2>1, <2>3, <3>1 DEF Igual
  <2> QED
    BY <2>2, <2>3
<1>7. ASSUME NEW w \in Worker, AtenderWorker(w) PROVE estado'[q] = "READY"
  <2>1. CASE AvisarFin(w)
    <3>1. EnReady(q)' => EnReady(q)
      BY <2>1 DEF AvisarFin, EnReady, colas
    <3>2. EnReady(q) => hilo[w].q # q
      BY <2>1 DEF AvisarFin, Lugares, LugarBien, Tiene, Atiende, Cierra
    <3> QED
      BY <1>1, <2>1, <3>1, <3>2 DEF Igual, AvisarFin, Tipos, TypeOK
  <2>2. CASE RecibirDesalojo(w)
    <3>1. EnReady(q)' => EnReady(q)
      BY <2>2 DEF RecibirDesalojo, EnReady
    <3>2. estado'[q] = "READY" \/ estado'[q] = estado[q]
      BY <2>2 DEF RecibirDesalojo, Tipos, TypeOK
    <3> QED
      BY <1>1, <3>1, <3>2 DEF Igual
  <2>3. CASE Reencolar(w)
    BY <1>6, <2>3 DEF Reencolar, Tipos, HilosBien, HiloBien, Hilo
  <2>4. CASE BajaWorker(w)
    <3>1. EnReady(q)' => EnReady(q)
      BY <2>4 DEF BajaWorker, EnReady
    <3>2. EnReady(q) => idQuery[w] # q
      BY <2>4 DEF BajaWorker, Lugares, DuenioBien, Suelta, Soltando, Evaluando
    <3> QED
      BY <1>1, <2>4, <3>1, <3>2, MasterAssumption DEF Igual, BajaWorker, Tipos, TypeOK
  <2> QED
    BY <1>1, <1>2, <1>7, <2>1, <2>2, <2>3, <2>4 DEF AtenderWorker, RecibirLectura, RecibirFin,
       SoltarWorker, AvisarLibre, BajaLimpia, colas, datos
<1>8. ASSUME NEW w \in Worker, WorkerEscucha(w) \/ WorkerEjecuta(w) \/ CaeWorker(w)
      PROVE  estado'[q] = "READY"
  BY <1>1, <1>2, <1>8 DEF WorkerEscucha, WorkerSaludo, WorkerRecibeDesalojo, WorkerRecibeQuery,
     WorkerEjecuta, WorkerTermina, WorkerNoAbre, WorkerDesaloja, CaeWorker, colas, datos
<1>9. ASSUME NEW w \in Worker, NEW p \in Query, WorkerLee(w, p) PROVE estado'[q] = "READY"
  BY <1>1, <1>2, <1>9 DEF WorkerLee, colas, datos
<1>10. ASSUME NEW p \in Query, BajaQC(p) \/ AceptarQuery(p) PROVE estado'[q] = "READY"
  BY <1>6, <1>10, SinBajaQC DEF AceptarQuery
<1>11. ASSUME NEW w \in Worker, AceptarWorker(w) PROVE estado'[q] = "READY"
  BY <1>1, <1>2, <1>11 DEF AceptarWorker, datos
<1>12. CASE \E a \in HilosAging : Envejece(a)
  BY <1>1, <1>2, <1>12 DEF Envejece, colas
<1>13. CASE UNCHANGED vars
  BY <1>1, <1>2, <1>13 DEF vars, colas, datos
<1> QED
  BY <1>3, <1>4, <1>5, <1>7, <1>8, <1>9, <1>10, <1>11, <1>12, <1>13 DEF Next

\* The scan of a queue with something to choose chooses something.
LEMMA EligeAlguna ==
    ASSUME Tipos, Tokens, ReadyBien, Ordenado, PlanElige
    PROVE  planif'.q # NoQuery
<1>1. /\ colaReady \in Seq(Query) /\ colaReady # <<>> /\ NoQuery \notin Query
      /\ planif \in RegPlanif
  BY TokensSinEspera, MasterAssumption DEF PlanElige, SinEsperaEnVano, Tipos, TypeOK
<1>2. 1 \in 1..Len(colaReady) /\ Len(colaReady) \in Nat /\ DOMAIN colaReady = 1..Len(colaReady)
      /\ colaReady[1] \in Query
  BY <1>1
<1>3. planif'.q = IF Prioridades THEN ElegidaPrioridad ELSE ElegidaFIFO
  BY <1>1 DEF PlanElige, RegPlanif
<1>4. CASE ~ Prioridades
  <2>1. Head(colaReady) \in Query
    BY <1>1
  <2> QED
    BY <1>1, <1>3, <1>4, <2>1 DEF ElegidaFIFO
<1>5. CASE Prioridades
  <2>1. EnReady(colaReady[1]) /\ estado[colaReady[1]] = "READY"
    BY <1>2, <1>5 DEF EnReady, ReadyBien, Ordenado
  <2>2. 1 \in Mejoras /\ Mejoras \in SUBSET (1..Len(colaReady))
    BY <1>2, <2>1 DEF Mejoras, Candidatas
  <2>3. Mayor(Mejoras) \in 1..Len(colaReady)
    BY <1>2, <2>2, MayorEs
  <2>4. colaReady[Mayor(Mejoras)] \in Query
    BY <1>1, <2>3
  <2> QED
    BY <1>1, <1>3, <1>5, <2>2, <2>4 DEF ElegidaPrioridad
<1> QED
  BY <1>4, <1>5

\* The thread of a Worker is started only once.
LEMMA NoInterrumpe ==
    ASSUME Tipos, Lugares
    PROVE  ~ Interrumpe
<1> SUFFICES ASSUME ConfirmarWorker, hilo[hilo[Aceptador].w].pc # "inactivo" PROVE FALSE
  BY DEF Interrumpe
<1>1. hilo[Aceptador].pc = "confirma" /\ hilo[Aceptador].w \in Worker
  BY DEF ConfirmarWorker, Tipos, HilosBien, HiloBien, Hilo
<1>2. PICK w \in Worker : w = hilo[Aceptador].w
  BY <1>1
<1> QED
  BY <1>1, <1>2 DEF Lugares, VidaBien

\* So no step leaves an element of a queue without its token.
LEMMA ExactosPaso ==
    ASSUME Tipos, Tokens, Lugares, ReadyBien, Ordenado, Sobran(0, 0), [Next]_vars
    PROVE  Sobran(0, 0)'
<1>1. Sobran(0, 0)' \/ Desperdicia(0, 0) \/ Interrumpe
  BY SobranPaso
<1> QED
  BY <1>1, EligeAlguna, NoInterrumpe DEF Desperdicia

\* A worker in cola_workers_libres and a query in cola_ready can be waited for:
\* the semaphores lose no token.
THEOREM NingunTokenSePierde == ASSUME Ordenado PROVE Spec => []TokensExactos
<1>1. Init => ReadyBien
  BY DEF Init, ReadyBien, EnReady
<1>2. Tipos /\ Tokens /\ Lugares /\ ReadyBien /\ [Next]_vars => ReadyBien'
  BY ReadyPaso
<1>3. Tipos /\ Tokens /\ Lugares /\ ReadyBien /\ Sobran(0, 0) /\ [Next]_vars => Sobran(0, 0)'
  BY ExactosPaso
<1>4. Tipos /\ Sobran(0, 0) => TokensExactos
  BY TokensSobran DEF Tipos
<1> QED
  BY <1>1, <1>2, <1>3, <1>4, TokensInicial, LugaresSiempre, PTL DEF Spec

-----------------------------------------------------------------------------
(* What the promise sees of a state.                                       *)

Espera(q) == EnReady(q) \/ (planif.pc \in {"saca_worker", "asigna"} /\ planif.q = q)
Tapa(w)   == hilo[w].pc \in Soltando \cup {"baja_limpia"}
Corre(w)  == IF Tapa(w) THEN NoQuery ELSE idQuery[w]

Paso == Promesa!Next \/ UNCHANGED Promesa!vars

\* The sets in terms of where each query and each worker is.
LEMMA Vista ==
    /\ EnEspera = {q \in Query : Espera(q)} /\ EnEspera' = {q \in Query : Espera(q)'}
    /\ EnWorker = [w \in Worker |-> Corre(w)] /\ EnWorker' = [w \in Worker |-> Corre(w)']
BY DEF EnEspera, Espera, EnReady, EnWorker, Corre, Tapa, Soltando

\* A step that changes none of it is a stutter of Planificador.
LEMMA Muda ==
    ASSUME \A q \in Query : (Espera(q)' <=> Espera(q)) /\ (Finalizada(q)' <=> Finalizada(q)),
           \A w \in Worker : Corre(w)' = Corre(w)
    PROVE  Paso
<1>1. EnEspera' = EnEspera /\ EnWorker' = EnWorker
  BY Vista
<1>2. {q \in Query : Finalizada(q)}' = {q \in Query : Finalizada(q)}
  OBVIOUS
<1> QED
  BY <1>1, <1>2 DEF Paso, Promesa!vars

HilosMudos == \A w \in Worker : Tapa(w)' <=> Tapa(w)

\* Such is a step that leaves the queue, the owners and the ends alone.
LEMMA SinNovedad ==
    ASSUME UNCHANGED <<colaReady, idQuery>>, PlanifMengua, HilosMudos, QuedaAvisado
    PROVE  Paso
<1>1. \A q \in Query : Espera(q)' <=> Espera(q)
  BY Quedan DEF QuedaReady, Espera, PlanifMengua, Temprano, Tardio
<1>2. \A w \in Worker : Corre(w)' = Corre(w)
  BY DEF Corre, HilosMudos
<1> QED
  BY <1>1, <1>2, Muda DEF QuedaAvisado

\* A thread that is not a Worker's, or that stays on the same side.
LEMMA MueveMudo ==
    ASSUME Tipos, NEW h \in Hilo, NEW r, Pasa(h, r),
           h \in Worker => (r.pc \in Soltando \cup {"baja_limpia"} <=> Tapa(h))
    PROVE  HilosMudos
<1>1. hilo'[h] = r /\ \A x \in Hilo : x # h => hilo'[x] = hilo[x]
  BY MueveUno DEF Tipos
<1> QED
  BY <1>1, HilosDistintos DEF HilosMudos, Tapa

\* Nobody was written off.
SinCaidos == \A w \in Worker : etapa[w] # "caido"

\* Threads that only go on do not change what the promise sees.
LEMMA MenguanMudos == HilosMenguan => HilosMudos
BY DEF HilosMenguan, HilosMudos, Tapa, Suelta, Soltando, Evaluando

-----------------------------------------------------------------------------
(* The four steps that the promise sees.                                   *)

\* A query arrives and waits.
LEMMA PromesaLlega ==
    ASSUME Tipos, Lugares, NEW p \in Query, AceptarQuery(p)
    PROVE  Paso
<1>1. /\ estado[p] = "NUEVA" /\ EncolarReady(Aceptador, p) /\ colaReady \in Seq(Query)
      /\ UNCHANGED <<idQuery, planif, aQC>>
  BY DEF AceptarQuery, Tipos, TypeOK
<1>2. colaReady' = Append(colaReady, p) /\ \A w \in Worker : hilo'[w] = hilo[w]
  BY <1>1, AlEmpujar, HilosDistintos
<1>3. ~ EnReady(p) /\ planif.q # p /\ ~ Finalizada(p) /\ \A w \in Worker : idQuery[w] # p
  BY <1>1 DEF Lugares, LugarBien
<1>4. \A q \in Query : EnReady(q)' <=> EnReady(q) \/ q = p
  BY <1>1, <1>2, AlEncolar
<1>5. /\ \A q \in Query : Espera(q)' <=> Espera(q) \/ q = p
      /\ ~ Espera(p)
      /\ \A w \in Worker : Corre(w)' = Corre(w) /\ Corre(w) # p
  BY <1>1, <1>2, <1>3, <1>4, HilosDistintos DEF Espera, Corre, Tapa
<1>6. \A q \in Query : Finalizada(q)' <=> Finalizada(q)
  BY <1>1, Quedan DEF QuedaAvisado
<1>7. /\ p \notin EnEspera \cup Promesa!EnEjecucion \cup {q \in Query : Finalizada(q)}
      /\ EnEspera' = EnEspera \cup {p} /\ EnWorker' = EnWorker
  BY <1>3, <1>5, Vista DEF Promesa!EnEjecucion
<1>8. {q \in Query : Finalizada(q)}' = {q \in Query : Finalizada(q)}
  BY <1>6
<1>9. Promesa!Llega(p)
  BY <1>7, <1>8 DEF Promesa!Llega
<1> QED
  BY <1>9 DEF Paso, Promesa!Next

\* The scheduler gives it to a worker that has none.
LEMMA PromesaAsigna ==
    ASSUME Tipos, Lugares, SinCaidos, PlanAsigna
    PROVE  Paso
<1>1. /\ planif.pc = "asigna" /\ planif'.pc = "encola_exec"
      /\ UNCHANGED <<colaReady, hilo, aQC>>
      /\ planif.q \in Query /\ planif.w \in Worker
      /\ idQuery' = [idQuery EXCEPT ![planif.w] = planif.q]
  BY DEF PlanAsigna, Tipos, TypeOK, RegPlanif, PlanifPleno, colas
<1>2. PICK p \in Query, v \in Worker : p = planif.q /\ v = planif.w
  BY <1>1
<1>3. idQuery[v] = NoQuery /\ ~ Ocupa(v) /\ ~ EnReady(p) /\ etapa[v] # "fuera"
  BY <1>1, <1>2 DEF Lugares, DuenioBien, UsoBien, LugarBien, VidaBien
<1>4. idQuery'[v] = p /\ \A w \in Worker : w # v => idQuery'[w] = idQuery[w]
  BY <1>1, <1>2 DEF Tipos, TypeOK
<1>5. /\ \A q \in Query : Espera(q)' <=> Espera(q) /\ q # p
      /\ Espera(p)
  BY <1>1, <1>2, <1>3, Quedan DEF Espera, QuedaReady
<1>6. /\ \A w \in Worker : Tapa(w)' <=> Tapa(w)
      /\ ~ Tapa(v)
  BY <1>1, <1>3 DEF Tapa, SinCaidos, Lugares, VidaBien, Ocupa, Suelta
<1>7. /\ Corre(v) = NoQuery /\ Corre(v)' = p
      /\ \A w \in Worker : w # v => Corre(w)' = Corre(w)
  BY <1>3, <1>4, <1>6 DEF Corre
<1>8. /\ p \in EnEspera /\ EnEspera' = EnEspera \ {p}
      /\ EnWorker[v] = NoQuery /\ EnWorker' = [EnWorker EXCEPT ![v] = p]
  BY <1>5, <1>7, Vista
<1>9. {q \in Query : Finalizada(q)}' = {q \in Query : Finalizada(q)}
  BY <1>1, Quedan DEF QuedaAvisado
<1>10. Promesa!Asigna(p, v)
  BY <1>8, <1>9 DEF Promesa!Asigna
<1> QED
  BY <1>10 DEF Paso, Promesa!Next

\* A query that was evicted waits again.
LEMMA PromesaDesaloja ==
    ASSUME Tipos, Lugares, NEW v \in Worker, Reencolar(v)
    PROVE  Paso
<1>1. PICK p \in Query : p = hilo[v].q
  BY DEF Reencolar, Tipos, HilosBien, HiloBien, Hilo
<1>2. /\ hilo[v].pc = "reencola" /\ EncolarReady(v, p) /\ colaReady \in Seq(Query)
      /\ UNCHANGED <<idQuery, planif, aQC>>
  BY <1>1 DEF Reencolar, Tipos, TypeOK
<1>3. /\ hilo'[v].pc \in {"ev_libres", "despierta"}
      /\ \A w \in Worker : w # v => hilo'[w] = hilo[w]
      /\ colaReady' = Append(colaReady, p)
  BY <1>2, AlEmpujar, HilosDistintos
<1>4. Atiende(v, p) /\ Tiene(v, p)
  BY <1>1, <1>2 DEF Cierra, Atiende, Tiene
<1>5. idQuery[v] = p /\ p # NoQuery
  BY <1>4, HilosDistintos DEF Lugares, DuenioBien
<1>6. \A q \in Query : EnReady(q)' <=> EnReady(q) \/ q = p
  BY <1>2, <1>3, AlEncolar
<1>7. /\ \A q \in Query : Espera(q)' <=> Espera(q) \/ q = p
      /\ Corre(v) = p /\ Corre(v)' = NoQuery
      /\ \A w \in Worker : w # v => Corre(w)' = Corre(w)
  BY <1>2, <1>3, <1>5, <1>6 DEF Espera, Corre, Tapa, Soltando, Evaluando
<1>8. /\ EnWorker[v] = p /\ EnEspera' = EnEspera \cup {p}
      /\ EnWorker' = [EnWorker EXCEPT ![v] = NoQuery]
  BY <1>7, Vista
<1>9. {q \in Query : Finalizada(q)}' = {q \in Query : Finalizada(q)}
  BY <1>2, Quedan DEF QuedaAvisado
<1>10. Promesa!Desaloja(v)
  BY <1>5, <1>8, <1>9 DEF Promesa!Desaloja
<1> QED
  BY <1>10 DEF Paso, Promesa!Next

\* A query ends.
LEMMA PromesaTermina ==
    ASSUME Tipos, Lugares, NEW v \in Worker, AvisarFin(v)
    PROVE  Paso
<1>1. PICK p \in Query : p = hilo[v].q
  BY DEF AvisarFin, Lugares, UsoBien
<1>2. /\ hilo[v].pc = "fin_qc" /\ EnviarAQC(p, "FIN_OK") /\ aQC \in [Query -> Seq(MsgAQC)]
      /\ UNCHANGED <<colaReady, idQuery, planif>>
  BY <1>1 DEF AvisarFin, Tipos, TypeOK, colas
<1>3. hilo'[v].pc = "suelta" /\ \A w \in Worker : w # v => hilo'[w] = hilo[w]
  <2>1. /\ HilosBien /\ [hilo[v] EXCEPT !.pc = "suelta"].pc = "suelta"
        /\ Pasa(v, [hilo[v] EXCEPT !.pc = "suelta"])
    BY HilosDistintos DEF Tipos, HilosBien, RegHilo, AvisarFin, Ir
  <2> QED
    BY <2>1, MueveUno, HilosDistintos
<1>4. Atiende(v, p) /\ Tiene(v, p)
  BY <1>1, <1>2 DEF Cierra, Atiende, Tiene
<1>5. idQuery[v] = p /\ p # NoQuery
  BY <1>4, HilosDistintos DEF Lugares, DuenioBien
<1>6. \A q \in Query : Finalizada(q)' <=> Finalizada(q) \/ q = p
  BY <1>2, AlAvisar DEF Fines
<1>7. /\ \A q \in Query : Espera(q)' <=> Espera(q)
      /\ Corre(v) = p /\ Corre(v)' = NoQuery
      /\ \A w \in Worker : w # v => Corre(w)' = Corre(w)
  BY <1>2, <1>3, <1>5, Quedan DEF QuedaReady, Espera, Corre, Tapa, Soltando, Evaluando
<1>8. /\ EnWorker[v] = p /\ EnEspera' = EnEspera
      /\ EnWorker' = [EnWorker EXCEPT ![v] = NoQuery]
  BY <1>7, Vista
<1>9. {q \in Query : Finalizada(q)}' = {q \in Query : Finalizada(q)} \cup {p}
  BY <1>6
<1>10. Promesa!Termina(v)
  BY <1>5, <1>8, <1>9 DEF Promesa!Termina
<1> QED
  BY <1>10 DEF Paso, Promesa!Next

-----------------------------------------------------------------------------
(* The steps that it does not see.                                         *)

\* The scheduler chooses, takes a worker, registers the query or sends it.
LEMMA MudoPlanif ==
    ASSUME Tipos, Tokens, Lugares, Planificador, ~ PlanAsigna
    PROVE  Paso
<1>1. CASE PlanEsperaQuery \/ PlanEsperaWorker \/ PlanEncolaExec
  <2>1. PlanifMengua
    BY <1>1 DEF Tipos, TypeOK, RegPlanif, PlanEsperaQuery, PlanEsperaWorker, PlanEncolaExec,
       PlanifMengua, Temprano, Tardio
  <2>2. UNCHANGED <<colaReady, idQuery, hilo, aQC>>
    BY <1>1 DEF PlanEsperaQuery, PlanEsperaWorker, PlanEncolaExec, colas, datos
  <2>3. HilosMudos /\ QuedaAvisado
    BY <2>2, Quedan DEF HilosMudos, Tapa
  <2> QED
    BY <2>1, <2>2, <2>3, SinNovedad
<1>2. ASSUME UNCHANGED <<idQuery, hilo, aQC>>, \A q \in Query : Espera(q)' <=> Espera(q)
      PROVE  Paso
  <2>1. \A w \in Worker : Corre(w)' = Corre(w)
    BY <1>2 DEF Corre, Tapa
  <2> QED
    BY <1>2, <2>1, Quedan, Muda DEF QuedaAvisado
<1>3. CASE PlanElige
  <2>1. PICK e : e = planif'.q
    OBVIOUS
  <2>2. /\ \A p \in Query : (EnReady(p)' => EnReady(p)) /\ (EnReady(p) /\ p # e => EnReady(p)')
        /\ e \in Query => EnReady(e)
        /\ e \in QueryN
        /\ planif'.pc = IF e = NoQuery THEN "espera_query" ELSE "saca_worker"
    BY <1>3, <2>1, AlElegir
  <2>3. planif.pc = "elige" /\ UNCHANGED <<idQuery, hilo, aQC>>
    BY <1>3 DEF PlanElige, datos
  <2>4. \A q \in Query : Espera(q)' <=> Espera(q)
    BY <2>1, <2>2, <2>3, HilosDistintos DEF Espera, QueryN
  <2> QED
    BY <1>2, <2>3, <2>4
<1>4. CASE PlanSacaWorker
  <2>1. /\ planif.pc = "saca_worker" /\ planif'.pc = "asigna" /\ planif'.q = planif.q
        /\ UNCHANGED <<colaReady, idQuery, hilo, aQC>>
    BY <1>4, TokensSinEspera DEF PlanSacaWorker, SinEsperaEnVano, Tipos, TypeOK, RegPlanif, datos
  <2>2. \A q \in Query : Espera(q)' <=> Espera(q)
    BY <2>1, Quedan DEF Espera, QuedaReady
  <2> QED
    BY <1>2, <2>1, <2>2
<1>5. CASE PlanEnvia
  <2>1. /\ planif.pc = "envia" /\ planif'.pc = "espera_query"
        /\ UNCHANGED <<colaReady, idQuery, hilo, aQC>>
    BY <1>5 DEF PlanEnvia, colas, datos
  <2>2. \A q \in Query : Espera(q)' <=> Espera(q)
    BY <2>1, Quedan DEF Espera, QuedaReady
  <2> QED
    BY <1>2, <2>1, <2>2
<1> QED
  BY <1>1, <1>3, <1>4, <1>5 DEF Planificador

\* The eviction check, the aging threads, and a connection.
LEMMA MudoMaestro ==
    ASSUME Tipos, Lugares,
           \/ \E h \in Hilo : Evaluador(h)
           \/ \E a \in HilosAging : Envejece(a)
           \/ \E w \in Worker : AceptarWorker(w)
           \/ AceptadorAvanza
    PROVE  Paso
<1>1. ASSUME NEW h \in Hilo, Evaluador(h) PROVE Paso
  <2>1. UNCHANGED <<colaReady, idQuery, planif, aQC>>
    BY <1>1 DEF Evaluador, EvalLibres, EvalPeor, EvalBuscar, EvalEnvia, Despierta, colas, datos
  <2> QED
    BY <1>1, <2>1, EvaluaMengua, MenguanMudos, NadaMengua, Quedan, SinNovedad
<1>2. ASSUME NEW h \in Hilo \ Worker, NEW r, Pasa(h, r), UNCHANGED <<colaReady, idQuery, planif>>,
             QuedaAvisado
      PROVE  Paso
  BY <1>2, MueveMudo, NadaMengua, SinNovedad
<1>3. ASSUME NEW a \in HilosAging, Envejece(a) PROVE Paso
  <2>1. UNCHANGED <<colaReady, idQuery, planif, aQC>> /\ \E r : Pasa(a, r)
    BY <1>3 DEF Envejece, Ir, IrCon, colas
  <2> QED
    BY <1>2, <2>1, HilosDistintos, Quedan
<1>4. ASSUME NEW w \in Worker, AceptarWorker(w) PROVE Paso
  <2>1. UNCHANGED <<colaReady, idQuery, planif, aQC>> /\ \E r : Pasa(Aceptador, r)
    BY <1>4 DEF AceptarWorker, datos
  <2> QED
    BY <1>2, <2>1, HilosDistintos, Quedan
<1>5. CASE AvisarAlta
  <2>1. UNCHANGED <<colaReady, idQuery, planif, aQC>> /\ \E r : Pasa(Aceptador, r)
    BY <1>5 DEF AvisarAlta, Ir, colas, datos
  <2> QED
    BY <1>2, <2>1, HilosDistintos, Quedan
<1>6. CASE ResponderQC
  <2>1. PICK p : p = hilo[Aceptador].q
    OBVIOUS
  <2>2. /\ UNCHANGED <<colaReady, idQuery, planif>> /\ \E r : Pasa(Aceptador, r)
        /\ EnviarAQC(p, "QUERY_RECIBIDA") /\ aQC \in [Query -> Seq(MsgAQC)]
    BY <1>6, <2>1 DEF ResponderQC, IrCon, colas, datos, Tipos, TypeOK
  <2>3. ASSUME p \in Query PROVE QuedaAvisado
    BY <2>2, <2>3, AlAvisar DEF QuedaAvisado, Fines
  <2>4. ASSUME p \notin Query PROVE QuedaAvisado
    <3>1. aQC' = aQC
      BY <2>2, <2>4 DEF EnviarAQC
    <3> QED
      BY <3>1, Quedan
  <2>5. QuedaAvisado
    BY <2>3, <2>4
  <2> QED
    BY <1>2, <2>2, <2>5, HilosDistintos
<1>7. CASE ConfirmarWorker
  <2>1. PICK v \in Worker : v = hilo[Aceptador].w
    BY <1>7 DEF ConfirmarWorker, Tipos, HilosBien, HiloBien, Hilo
  <2>2. hilo[v].pc = "inactivo"
    BY <1>7, <2>1 DEF ConfirmarWorker, Lugares, VidaBien
  <2>3. hilo'[v].pc = "escucha" /\ \A w \in Worker : w # v => hilo'[w] = hilo[w]
    BY <1>7, <2>1, HilosDistintos DEF ConfirmarWorker, Tipos, HilosBien, RegHilo
  <2>4. HilosMudos
    BY <2>2, <2>3 DEF HilosMudos, Tapa, Soltando, Evaluando
  <2>5. UNCHANGED <<colaReady, idQuery, planif, aQC>>
    BY <1>7 DEF ConfirmarWorker, colas, datos
  <2> QED
    BY <2>4, <2>5, NadaMengua, Quedan, SinNovedad
<1> QED
  BY <1>1, <1>3, <1>4, <1>5, <1>6, <1>7 DEF AceptadorAvanza

\* What a Worker's thread does but for telling the end and queueing again.
LEMMA MudoHilo ==
    ASSUME Tipos, Lugares, SinCaidos, NEW v \in Worker, AtenderWorker(v),
           ~ AvisarFin(v), ~ Reencolar(v)
    PROVE  Paso
<1>0. v \in Hilo /\ HilosBien /\ hilo[v] \in RegHilo
  BY HilosDistintos DEF Tipos, HilosBien
<1>1. CASE RecibirLectura(v)
  <2>1. PICK p : p = Head(aMaster[v]).q
    OBVIOUS
  <2>2. /\ UNCHANGED <<colaReady, idQuery, planif, hilo>> /\ Llega(v, "LECTURA")
        /\ EnviarAQC(p, "READ") /\ aQC \in [Query -> Seq(MsgAQC)]
    BY <1>1, <2>1 DEF RecibirLectura, Tipos, TypeOK, colas, datos
  <2>3. p \in Query
    BY <2>1, <2>2, AlLlegar DEF MsgAMaster, Tipos, TypeOK
  <2>4. QuedaAvisado
    BY <2>2, <2>3, AlAvisar DEF QuedaAvisado, Fines
  <2> QED
    BY <2>2, <2>4, NadaMengua, MenguanMudos, SinNovedad
<1>2. CASE RecibirFin(v) \/ RecibirDesalojo(v)
  <2>1. PICK s, p : s \in {"fin_qc", "reencola"} /\ IrCon(v, s, p)
    BY <1>2 DEF RecibirFin, RecibirDesalojo
  <2>2. [hilo[v] EXCEPT !.pc = s, !.q = p].pc = s /\ hilo[v].pc = "escucha"
    BY <1>0, <1>2 DEF RecibirFin, RecibirDesalojo, Llega, RegHilo
  <2>3. HilosMudos
    BY <1>0, <2>1, <2>2, MueveMudo DEF IrCon, Tapa, Soltando, Evaluando
  <2>4. UNCHANGED <<colaReady, idQuery, planif, aQC>>
    BY <1>2 DEF RecibirFin, RecibirDesalojo, datos
  <2> QED
    BY <2>3, <2>4, NadaMengua, Quedan, SinNovedad
<1>3. CASE SoltarWorker(v)
  <2>1. /\ hilo[v].pc = "suelta"
        /\ idQuery'[v] = NoQuery /\ \A w \in Worker : w # v => idQuery'[w] = idQuery[w]
        /\ UNCHANGED <<colaReady, planif, aQC>>
    BY <1>3 DEF SoltarWorker, Tipos, TypeOK
  <2>2. \A w \in Worker : w # v => hilo'[w] = hilo[w]
    BY <1>0, <1>3, MueveUno, HilosDistintos DEF SoltarWorker, IrCon
  <2>3. \A w \in Worker : Corre(w)' = Corre(w)
    BY <2>1, <2>2 DEF Corre, Tapa, Soltando
  <2>4. \A q \in Query : Espera(q)' <=> Espera(q)
    BY <2>1, Quedan DEF Espera, QuedaReady
  <2> QED
    BY <2>1, <2>3, <2>4, Quedan, Muda DEF QuedaAvisado
<1>4. CASE AvisarLibre(v)
  <2>1. /\ Pasa(v, [hilo[v] EXCEPT !.pc = "escucha"]) /\ hilo[v].pc = "avisa"
        /\ [hilo[v] EXCEPT !.pc = "escucha"].pc = "escucha"
    BY <1>0, <1>4 DEF AvisarLibre, Ir, RegHilo
  <2>2. HilosMudos
    BY <1>0, <2>1, MueveMudo DEF Tapa, Soltando, Evaluando
  <2>3. UNCHANGED <<colaReady, idQuery, planif, aQC>>
    BY <1>4 DEF AvisarLibre, colas, datos
  <2> QED
    BY <2>2, <2>3, NadaMengua, Quedan, SinNovedad
<1>5. ~ BajaWorker(v) /\ ~ BajaLimpia(v)
  BY DEF BajaWorker, BajaLimpia, SinCaidos, Lugares, VidaBien
<1> QED
  BY <1>1, <1>2, <1>3, <1>4, <1>5 DEF AtenderWorker

\* What the Worker processes and the Query Controls do on their own.
LEMMA MudoAfuera ==
    ASSUME Tipos,
           \/ \E q \in Query : BajaQC(q)
           \/ \E w \in Worker : WorkerEscucha(w) \/ WorkerEjecuta(w) \/ CaeWorker(w)
           \/ \E w \in Worker : \E q \in Query : WorkerLee(w, q)
           \/ UNCHANGED vars
    PROVE  Paso
<1>1. UNCHANGED <<colaReady, idQuery, planif, hilo, aQC>>
  BY DEF BajaQC, WorkerEscucha, WorkerSaludo, WorkerRecibeDesalojo, WorkerRecibeQuery,
     WorkerEjecuta, WorkerTermina, WorkerNoAbre, WorkerDesaloja, CaeWorker, WorkerLee,
     vars, colas, datos
<1> QED
  BY <1>1, NadaMengua, MenguanMudos, Quedan, SinNovedad

-----------------------------------------------------------------------------
(* The implementation.                                                     *)

\* Each step of the Master is one of those, or a stutter ...
LEMMA PromesaPaso ==
    ASSUME Tipos, Tokens, Lugares, SinCaidos, [Next]_vars
    PROVE  [Promesa!Next]_(Promesa!vars)
<1>1. CASE Planificador
  BY <1>1, MudoPlanif, PromesaAsigna DEF Paso
<1>2. ASSUME NEW q \in Query, AceptarQuery(q) PROVE Paso
  BY <1>2, PromesaLlega
<1>3. ASSUME NEW w \in Worker, AtenderWorker(w) PROVE Paso
  BY <1>3, MudoHilo, PromesaTermina, PromesaDesaloja
<1> QED
  BY <1>1, <1>2, <1>3, MudoMaestro, MudoAfuera DEF Paso, Next

\* CaeWorker is the only step of which a Worker is gone, and it has its bound.
LEMMA SinCaidosPaso ==
    ASSUME Tipos, MaxBajasWorker = 0, SinCaidos, [Next]_vars
    PROVE  SinCaidos'
<1>1. etapa \in [Worker -> {"fuera", "esperando_ok", "listo", "desincronizado", "caido"}]
  BY DEF Tipos, TypeOK
<1>2. \A w \in Worker : ~ CaeWorker(w)
  <2>1. Cardinality({v \in Worker : etapa[v] = "caido"}) \in Nat
    BY MasterAssumption, FS_Subset, FS_CardinalityType
  <2> QED
    BY <2>1 DEF CaeWorker
<1>3. UNCHANGED etapa => SinCaidos'
  BY DEF SinCaidos
<1>4. ASSUME NEW w \in Worker, AceptarWorker(w) \/ WorkerSaludo(w) PROVE SinCaidos'
  BY <1>1, <1>4 DEF SinCaidos, AceptarWorker, WorkerSaludo
<1>5. CASE Planificador
  BY <1>3, <1>5 DEF Planificador, PlanEsperaQuery, PlanEsperaWorker, PlanElige, PlanSacaWorker,
     PlanAsigna, PlanEncolaExec, PlanEnvia, procesos
<1>6. ASSUME NEW h \in Hilo, Evaluador(h) PROVE SinCaidos'
  BY <1>3, <1>6 DEF Evaluador, EvalLibres, EvalPeor, EvalBuscar, EvalEnvia, Despierta, procesos
<1>7. ASSUME NEW a \in HilosAging, Envejece(a) PROVE SinCaidos'
  BY <1>3, <1>7 DEF Envejece, procesos
<1>8. ASSUME NEW q \in Query, AceptarQuery(q) \/ BajaQC(q) PROVE SinCaidos'
  BY <1>3, <1>8 DEF AceptarQuery, BajaQC, procesos
<1>9. CASE AceptadorAvanza
  BY <1>3, <1>9 DEF AceptadorAvanza, ResponderQC, AvisarAlta, ConfirmarWorker, procesos
<1>10. ASSUME NEW w \in Worker, AtenderWorker(w) PROVE SinCaidos'
  BY <1>3, <1>10 DEF AtenderWorker, RecibirLectura, RecibirFin, AvisarFin, RecibirDesalojo,
     Reencolar, SoltarWorker, AvisarLibre, BajaWorker, BajaLimpia, procesos
<1>11. ASSUME NEW w \in Worker, WorkerEscucha(w) \/ WorkerEjecuta(w) PROVE SinCaidos'
  BY <1>3, <1>4, <1>11 DEF WorkerEscucha, WorkerRecibeDesalojo, WorkerRecibeQuery,
     WorkerEjecuta, WorkerTermina, WorkerNoAbre, WorkerDesaloja
<1>12. ASSUME NEW w \in Worker, NEW q \in Query, WorkerLee(w, q) PROVE SinCaidos'
  BY <1>3, <1>12 DEF WorkerLee, procesos
<1>13. CASE UNCHANGED vars
  BY <1>3, <1>13 DEF vars, procesos
<1> QED
  BY <1>2, <1>4, <1>5, <1>6, <1>7, <1>8, <1>9, <1>10, <1>11, <1>12, <1>13 DEF Next

\* ... and it starts where the promise does.
LEMMA PromesaInicial == Init => Promesa!Init /\ SinCaidos
<1> SUFFICES ASSUME Init PROVE Promesa!Init /\ SinCaidos
  OBVIOUS
<1>1. /\ \A q \in Query : ~ Finalizada(q) /\ ~ Espera(q)
      /\ \A w \in Worker : Corre(w) = NoQuery
  BY DEF Init, Finalizada, Espera, EnReady, Corre
<1>2. EnEspera = {} /\ EnWorker = [w \in Worker |-> NoQuery]
  BY <1>1, Vista
<1>3. {q \in Query : Finalizada(q)} = {}
  BY <1>1
<1>4. SinCaidos
  BY DEF Init, SinCaidos
<1> QED
  BY <1>2, <1>3, <1>4 DEF Promesa!Init

\* While no Worker goes away every step of the Master is a step of Planificador
\* or none: RefinaPlanificador.
THEOREM CumplePromesa == ASSUME MaxBajasWorker = 0 PROVE Spec => RefinaPlanificador
<1>1. Tipos /\ SinCaidos /\ [Next]_vars => SinCaidos'
  BY SinCaidosPaso
<1>2. Tipos /\ Tokens /\ Lugares /\ SinCaidos /\ [Next]_vars => [Promesa!Next]_(Promesa!vars)
  BY PromesaPaso
<1> QED
  BY <1>1, <1>2, PromesaInicial, LugaresSiempre, PTL DEF Spec, RefinaPlanificador, Promesa!Spec
=============================================================================
