-------------------------- MODULE Worker_confirmado --------------------------
(***************************************************************************)
(* ConfirmadoLoEscrito: a file:tag that one script writes and commits      *)
(* keeps what the script wrote last.  Three invariants carry it, with      *)
(* those of Worker_desalojo:                                               *)
(*   Nombres       wherever a Worker has a query, it is the one the        *)
(*                 Master gave it, which no other Worker has, which does   *)
(*                 not wait and which has not ended;                       *)
(*   PendienteBien until its file:tag is committed, a page is modified     *)
(*                 in the Worker that runs its script only, or in those    *)
(*                 where the script has ended;                             *)
(*   EnMemoria     that Worker has in memory what the lines of the         *)
(*                 script that it has run wrote last, and Storage has it   *)
(*                 as well if the page is not modified.                    *)
(* The first makes the second true: an evicted query is run again, in      *)
(* that Worker or in another, only when the answer to the eviction has     *)
(* arrived, and by then no page of it is left to be written.               *)
(* All but Nombres hold while Storage's requests do not get in each        *)
(* other's way (integro): from there on Storage may answer anything.       *)
(*                                                                         *)
(* CuestaUnaQuery: a stop of Storage costs each Worker one query at most.  *)
(* What a Worker owes is counted in the state of its connection: while it  *)
(* is cut and not yet closed, one query may still fail for it, and the one *)
(* that does closes it.  So the queries that have failed, plus one if the  *)
(* connection is cut, never exceed the stops (CuestaBien).  That no query  *)
(* fails for another reason rests on ConfirmaBien: the script that commits *)
(* a file:tag has nothing left to do, and is nowhere from where it could   *)
(* be run again.                                                           *)
(***************************************************************************)
EXTENDS Worker_desalojo, FiniteSetTheorems, WellFoundedInduction

-----------------------------------------------------------------------------
(* The query of each worker.                                               *)

\* Wherever a worker has a query, it is the one the Master gave it ...
NombreBien(w) ==
    /\ \A i \in DOMAIN aWorker[w] : aWorker[w][i].op = "INICIA" => aWorker[w][i].q = asignada[w]
    /\ \A q \in enCola[w] : q = asignada[w]
    /\ hilo[w].paso # "libre" => hilo[w].q = asignada[w]
    /\ \A i \in DOMAIN aMaster[w] : aMaster[w][i].q = asignada[w]

\* ... which no other worker has, which does not wait and which has not ended.
AsignaBien(w) ==
    asignada[w] # NoQuery =>
      /\ asignada[w] \notin espera /\ fin[asignada[w]] = SinFin
      /\ \A v \in Worker : asignada[v] = asignada[w] => v = w

EsperaBien == \A q \in espera : fin[q] = SinFin

Nombres == EsperaBien /\ \A w \in Worker : NombreBien(w) /\ AsignaBien(w)

\* A worker that a step does not touch.
LEMMA NombreIgual ==
    ASSUME NEW v \in Worker, NombreBien(v), aWorker'[v] = aWorker[v], enCola'[v] = enCola[v],
           aMaster'[v] = aMaster[v], asignada'[v] = asignada[v],
           hilo'[v].paso = "libre" \/ (hilo[v].paso # "libre" /\ hilo'[v].q = hilo[v].q)
           \/ hilo'[v] = hilo[v]
    PROVE  NombreBien(v)'
BY DEF NombreBien

\* The thread that answers names the query it runs.
LEMMA NombreContesta ==
    ASSUME NEW w \in Worker, NombreBien(w), NEW m \in MsgAMaster,
           aMaster \in [Worker -> Seq(MsgAMaster)], aMaster[w] = <<>>,
           aMaster' = [aMaster EXCEPT ![w] = Append(@, m)], m.q = hilo[w].q,
           hilo[w].paso # "libre", hilo'[w].paso = "libre",
           aWorker'[w] = aWorker[w], enCola'[w] = enCola[w], asignada'[w] = asignada[w]
    PROVE  NombreBien(w)' /\ aMaster'[w] = <<m>>
<1>1. aMaster'[w] = Append(<<>>, m)
  OBVIOUS
<1>2. aMaster'[w] = <<m>>
  BY <1>1
<1>3. m.q = asignada[w]
  BY DEF NombreBien
<1> QED
  BY <1>2, <1>3 DEF NombreBien

\* A step of the query thread takes the query on.
LEMMA NombreProcesa ==
    ASSUME Base, NEW w \in Worker, HaceAlgo(w), TurnoBien(w), NombreBien(w)
    PROVE  NombreBien(w)'
<1>0. /\ enCola \in [Worker -> SUBSET Query] /\ hilo \in [Worker -> Hilo]
      /\ aWorker \in [Worker -> Seq(MsgAWorker)] /\ aMaster \in [Worker -> Seq(MsgAMaster)]
      /\ aMaster[w] = <<>>
  BY SinRespuesta DEF Base, TypeOK, MsgAWorker, MsgAMaster
<1>1. ASSUME NEW q \in Query, HaceToma(w, q) PROVE NombreBien(w)'
  <2>1. /\ q \in enCola[w] /\ enCola'[w] \subseteq enCola[w]
        /\ UNCHANGED <<aWorker, aMaster, asignada>>
        /\ hilo'[w].q = q \/ hilo'[w].paso = "libre"
    BY <1>0, <1>1 DEF HaceToma, Libre
  <2> QED
    BY <2>1 DEF NombreBien
<1>2. ASSUME HaceReconectaEnVano(w) PROVE NombreBien(w)'
  <2>1. /\ hilo'[w].paso = "libre" /\ enCola'[w] = {} /\ aWorker'[w] = <<>>
        /\ UNCHANGED <<aMaster, asignada>>
    BY <1>0, <1>2 DEF HaceReconectaEnVano, Libre
  <2> QED
    BY <2>1 DEF NombreBien
<1>3. ASSUME HaceReconecta(w) \/ HaceDesaloja(w) \/ HacePideInstruccion(w) \/ HaceEjecuta(w)
             \/ HaceSirve(w) \/ HaceVuelca(w) \/ HaceRecibeVolcado(w)
      PROVE  NombreBien(w)'
  <2>1. /\ hilo[w].paso # "libre" /\ UNCHANGED <<aWorker, enCola, aMaster, asignada>>
        /\ hilo'[w].paso = "libre" \/ hilo'[w].q = hilo[w].q
    BY <1>0, <1>3 DEF HaceReconecta, HaceDesaloja, HacePideInstruccion, HaceEjecuta, HaceSirve,
                      HaceVuelca, HaceRecibeVolcado, Libre
  <2> QED
    BY <2>1, NombreIgual
<1>4. ASSUME hilo[w].paso # "libre", hilo' = [hilo EXCEPT ![w] = Libre],
             UNCHANGED <<aWorker, enCola, asignada>>, NEW m \in MsgAMaster, m.q = hilo[w].q,
             aMaster' = [aMaster EXCEPT ![w] = Append(@, m)]
      PROVE  NombreBien(w)'
  <2>1. hilo'[w].paso = "libre"
    BY <1>0, <1>4 DEF Libre
  <2> QED
    BY <1>0, <1>4, <2>1, NombreContesta
<1>5. ASSUME HaceTermina(w) PROVE NombreBien(w)'
  <2>1. PICK m \in MsgAMaster : m = [op |-> "FIN", q |-> hilo[w].q, dato |-> 1]
    BY <1>5 DEF HaceTermina, MsgAMaster
  <2> QED
    BY <1>4, <1>5, <2>1 DEF HaceTermina
<1>6. ASSUME HaceRecibe(w) PROVE NombreBien(w)'
  <2>1. CASE RecibeBien(w)
    <3>1. /\ hilo[w].paso # "libre" /\ UNCHANGED <<aWorker, enCola, aMaster, asignada>>
          /\ hilo'[w].q = hilo[w].q
      BY <1>0, <1>6, <2>1 DEF HaceRecibe, RecibeBien
    <3> QED
      BY <3>1, NombreIgual
  <2>2. CASE RecibeMal(w)
    <3>1. PICK m \in MsgAMaster : m = [op |-> "FIN", q |-> hilo[w].q, dato |-> 0]
      BY <1>6 DEF HaceRecibe, MsgAMaster
    <3>2. hilo[w].paso # "libre" /\ UNCHANGED <<aWorker, enCola, asignada>>
      BY <1>6 DEF HaceRecibe
    <3> QED
      BY <1>4, <2>2, <3>1, <3>2 DEF RecibeMal
  <2> QED
    BY <1>6, <2>1, <2>2 DEF HaceRecibe
<1>7. ASSUME HaceContestaDesalojo(w) PROVE NombreBien(w)'
  <2>1. PICK m \in MsgAMaster : m = [op |-> "DESALOJAR", q |-> hilo[w].q, dato |-> hilo[w].pc]
    BY <1>0, <1>7, CampoHilo DEF HaceContestaDesalojo, MsgAMaster
  <2> QED
    BY <1>4, <1>7, <2>1 DEF HaceContestaDesalojo
<1> QED
  BY <1>1, <1>2, <1>3, <1>5, <1>6, <1>7 DEF HaceAlgo

\* What a step of the query thread of w leaves as it was.
LEMMA ProcesaAjeno ==
    ASSUME Base, NEW w \in Worker, HaceAlgo(w)
    PROVE  /\ UNCHANGED <<cortes, espera, asignada, fin>>
           /\ \A v \in Worker \ {w} : /\ hilo'[v] = hilo[v] /\ memoria'[v] = memoria[v]
                                      /\ aWorker'[v] = aWorker[v] /\ enCola'[v] = enCola[v]
                                      /\ aMaster'[v] = aMaster[v]
<1>1. UNCHANGED <<cortes, espera, asignada, fin>>
  BY DEF HaceAlgo, HaceToma, HaceReconecta, HaceReconectaEnVano, HaceDesaloja, HaceTermina,
         HacePideInstruccion, HaceEjecuta, HaceSirve, HaceRecibe, HaceVuelca, HaceRecibeVolcado,
         HaceContestaDesalojo
<1>2. /\ enCola \in [Worker -> SUBSET Query] /\ aWorker \in [Worker -> Seq(MsgAWorker)]
      /\ aMaster \in [Worker -> Seq(MsgAMaster)]
  BY DEF Base, TypeOK, MsgAWorker, MsgAMaster
<1>3. ASSUME NEW v \in Worker, v # w
      PROVE  /\ hilo'[v] = hilo[v] /\ memoria'[v] = memoria[v]
             /\ aWorker'[v] = aWorker[v] /\ enCola'[v] = enCola[v] /\ aMaster'[v] = aMaster[v]
  <2>1. hilo'[v] = hilo[v] /\ memoria'[v] = memoria[v]
    BY <1>3, ProcesaLoSuyo DEF Base
  <2>2. aWorker'[v] = aWorker[v] /\ enCola'[v] = enCola[v] /\ aMaster'[v] = aMaster[v]
    BY <1>2, <1>3 DEF HaceAlgo, HaceToma, HaceReconecta, HaceReconectaEnVano, HaceDesaloja,
       HaceTermina, HacePideInstruccion, HaceEjecuta, HaceSirve, HaceRecibe, RecibeBien, RecibeMal,
       HaceVuelca, HaceRecibeVolcado, HaceContestaDesalojo
  <2> QED
    BY <2>1, <2>2
<1> QED
  BY <1>1, <1>3

\* Neither a thread nor Storage changes what the Master knows.
LEMMA AsignaIgual ==
    ASSUME Nombres, UNCHANGED <<espera, asignada, fin>>
    PROVE  EsperaBien' /\ \A w \in Worker : AsignaBien(w)'
BY DEF Nombres, EsperaBien, AsignaBien

\* A step of the query thread keeps the names in order; so do, each with its lemma,
\* the thread that reads the Master, the Master and the loss of a worker.
LEMMA NombresProcesa ==
    ASSUME Desalojos, Nombres, NEW w \in Worker, HaceAlgo(w)
    PROVE  Nombres'
<1>0. Base /\ TurnoBien(w) /\ \A v \in Worker : NombreBien(v)
  BY DEF Desalojos, VidasYTurnos, Nombres
<1>1. EsperaBien' /\ \A v \in Worker : AsignaBien(v)'
  BY <1>0, ProcesaAjeno, AsignaIgual
<1>2. NombreBien(w)'
  BY <1>0, NombreProcesa
<1>3. ASSUME NEW v \in Worker, v # w PROVE NombreBien(v)'
  BY <1>0, <1>3, ProcesaAjeno, NombreIgual
<1> QED
  BY <1>1, <1>2, <1>3 DEF Nombres

\* The message of a query is taken from the queue.
LEMMA NombresEscucha ==
    ASSUME Desalojos, Nombres, NEW w \in Worker, Escucha(w)
    PROVE  Nombres'
<1>0. /\ \A v \in Worker : NombreBien(v)
      /\ enCola \in [Worker -> SUBSET Query] /\ aWorker \in [Worker -> Seq(MsgAWorker)]
  BY DEF Desalojos, Base, TypeOK, MsgAWorker, Nombres
<1>1. EsperaBien' /\ \A v \in Worker : AsignaBien(v)'
  BY AsignaIgual DEF Escucha, master
<1>2. PICK s \in Seq(MsgAWorker) : s = aWorker[w] /\ s # <<>>
  BY <1>0 DEF Escucha
<1>3. /\ aWorker'[w] = Tail(s) /\ UNCHANGED <<hilo, aMaster, asignada>>
      /\ \/ Head(s).op = "INICIA" /\ enCola'[w] = enCola[w] \cup {Head(s).q}
         \/ enCola'[w] = enCola[w]
  BY <1>0, <1>2 DEF Escucha, master
<1>4. /\ \A i \in DOMAIN Tail(s) : i + 1 \in DOMAIN s /\ Tail(s)[i] = s[i + 1]
      /\ 1 \in DOMAIN s /\ Head(s) = s[1]
  <2>1. /\ DOMAIN Tail(s) = 1..(Len(s) - 1) /\ DOMAIN s = 1..Len(s) /\ Len(s) \in Nat \ {0}
        /\ Head(s) = s[1] /\ \A i \in DOMAIN Tail(s) : Tail(s)[i] = s[i + 1]
    BY <1>2, ColaMengua
  <2> QED
    BY <2>1
<1>5. Head(s).op = "INICIA" => Head(s).q = asignada[w]
  BY <1>0, <1>2, <1>4 DEF NombreBien
<1>6. NombreBien(w)'
  <2>1. ASSUME NEW i \in DOMAIN Tail(s), Tail(s)[i].op = "INICIA" PROVE Tail(s)[i].q = asignada[w]
    <3>1. i + 1 \in DOMAIN s /\ Tail(s)[i] = s[i + 1]
      BY <1>4
    <3>2. \A j \in DOMAIN s : s[j].op = "INICIA" => s[j].q = asignada[w]
      BY <1>0, <1>2 DEF NombreBien
    <3> QED
      BY <2>1, <3>1, <3>2
  <2>2. \A q \in enCola'[w] : q = asignada[w]
    BY <1>0, <1>3, <1>5 DEF NombreBien
  <2> QED
    BY <1>0, <1>3, <2>1, <2>2 DEF NombreBien
<1>7. ASSUME NEW v \in Worker, v # w PROVE NombreBien(v)'
  <2>1. /\ aWorker'[v] = aWorker[v] /\ enCola'[v] = enCola[v] /\ aMaster' = aMaster
        /\ asignada' = asignada /\ hilo' = hilo
    BY <1>0, <1>7 DEF Escucha, master
  <2> QED
    BY <1>0, <2>1, NombreIgual
<1> QED
  BY <1>1, <1>6, <1>7 DEF Nombres

\* A query that waits is given to a worker that has none.
LEMMA NombresAsigna ==
    ASSUME WorkerAssumption, Desalojos, Nombres, NEW w \in Worker, NEW q \in Query,
           MasterAsigna(w, q)
    PROVE  Nombres'
<1>0. /\ \A v \in Worker : NombreBien(v) /\ AsignaBien(v)
      /\ aWorker \in [Worker -> Seq(MsgAWorker)] /\ asignada \in [Worker -> Query \cup {NoQuery}]
      /\ TurnoBien(w) /\ EsperaBien
  BY DEF Desalojos, VidasYTurnos, Base, TypeOK, MsgAWorker, Nombres
<1>1. /\ asignada[w] = NoQuery /\ q \in espera /\ espera' = espera \ {q}
      /\ asignada'[w] = q /\ \A v \in Worker \ {w} : asignada'[v] = asignada[v]
      /\ UNCHANGED <<enCola, hilo, aMaster, fin>>
      /\ \A v \in Worker \ {w} : aWorker'[v] = aWorker[v]
  BY <1>0 DEF MasterAsigna, MasterEnvia
<1>2. EsperaBien'
  BY <1>0, <1>1 DEF EsperaBien
<1>3. \A v \in Worker : AsignaBien(v)'
  <2>1. \A v \in Worker : asignada[v] # q
    BY <1>0, <1>1 DEF AsignaBien, WorkerAssumption
  <2>2. fin[q] = SinFin
    BY <1>0, <1>1 DEF EsperaBien
  <2>3. AsignaBien(w)'
    BY <1>1, <2>1, <2>2 DEF AsignaBien
  <2>4. ASSUME NEW v \in Worker, v # w, asignada[v] # NoQuery PROVE AsignaBien(v)'
    <3>1. asignada[v] \notin espera /\ fin[asignada[v]] = SinFin
      BY <1>0, <2>4 DEF AsignaBien
    <3>2. \A u \in Worker : asignada[u] = asignada[v] => u = v
      BY <1>0, <2>4 DEF AsignaBien
    <3>3. asignada'[v] = asignada[v] /\ asignada[v] # q
      BY <1>1, <2>1, <2>4
    <3>4. \A u \in Worker : asignada'[u] = asignada[v] => u = v
      BY <1>1, <3>2, <3>3
    <3> QED
      BY <1>1, <3>1, <3>3, <3>4 DEF AsignaBien
  <2>5. ASSUME NEW v \in Worker, v # w, asignada[v] = NoQuery PROVE AsignaBien(v)'
    BY <1>1, <2>5 DEF AsignaBien
  <2> QED
    BY <2>3, <2>4, <2>5
<1>4. NombreBien(w)'
  <2>1. hilo[w].paso = "libre" /\ aMaster[w] = <<>> /\ enCola[w] = {} /\ SinOrden(w)
    BY <1>0, <1>1 DEF TurnoBien
  <2>2. PICK s \in Seq(MsgAWorker), m \in MsgAWorker :
           s = aWorker[w] /\ m = [op |-> "INICIA", q |-> q]
    BY <1>0 DEF MsgAWorker
  <2>3. aWorker'[w] = Append(s, m)
    BY <1>0, <2>2 DEF MasterAsigna, MasterEnvia
  <2>4. /\ DOMAIN Append(s, m) = 1..(Len(s) + 1) /\ DOMAIN s = 1..Len(s) /\ Len(s) \in Nat
        /\ Append(s, m)[Len(s) + 1] = m /\ \A i \in DOMAIN s : Append(s, m)[i] = s[i]
    BY ColaCrece
  <2>5. \A i \in DOMAIN Append(s, m) : Append(s, m)[i].op = "INICIA" => Append(s, m)[i].q = q
    <3>1. ASSUME NEW i \in DOMAIN Append(s, m), i # Len(s) + 1 PROVE Append(s, m)[i].op # "INICIA"
      BY <2>1, <2>2, <2>4, <3>1 DEF SinOrden
    <3> QED
      BY <2>2, <2>4, <3>1
  <2> QED
    BY <1>1, <2>1, <2>3, <2>5 DEF NombreBien
<1>5. ASSUME NEW v \in Worker, v # w PROVE NombreBien(v)'
  BY <1>0, <1>1, <1>5, NombreIgual
<1> QED
  BY <1>2, <1>3, <1>4, <1>5 DEF Nombres

\* The Master asks for a query back.
LEMMA NombresPideDesalojo ==
    ASSUME Desalojos, Nombres, NEW w \in Worker, MasterPideDesalojo(w)
    PROVE  Nombres'
<1>0. /\ \A v \in Worker : NombreBien(v)
      /\ aWorker \in [Worker -> Seq(MsgAWorker)] /\ asignada \in [Worker -> Query \cup {NoQuery}]
  BY DEF Desalojos, Base, TypeOK, MsgAWorker, Nombres
<1>1. EsperaBien' /\ \A v \in Worker : AsignaBien(v)'
  BY AsignaIgual DEF MasterPideDesalojo
<1>2. PICK s \in Seq(MsgAWorker), m \in MsgAWorker :
         s = aWorker[w] /\ m = [op |-> "DESALOJAR", q |-> asignada[w]]
  BY <1>0 DEF MsgAWorker, MasterPideDesalojo
<1>3. /\ aWorker'[w] = Append(s, m) /\ UNCHANGED <<enCola, hilo, aMaster, asignada>>
      /\ \A v \in Worker \ {w} : aWorker'[v] = aWorker[v]
  BY <1>0, <1>2 DEF MasterPideDesalojo, MasterEnvia
<1>4. /\ DOMAIN Append(s, m) = 1..(Len(s) + 1) /\ DOMAIN s = 1..Len(s) /\ Len(s) \in Nat
      /\ Append(s, m)[Len(s) + 1] = m /\ \A i \in DOMAIN s : Append(s, m)[i] = s[i]
  BY ColaCrece
<1>5. \A i \in DOMAIN Append(s, m) : Append(s, m)[i].op = "INICIA"
                                   => Append(s, m)[i].q = asignada[w]
  BY <1>0, <1>2, <1>4 DEF NombreBien
<1>6. NombreBien(w)'
  BY <1>0, <1>3, <1>5 DEF NombreBien
<1>7. ASSUME NEW v \in Worker, v # w PROVE NombreBien(v)'
  BY <1>0, <1>3, <1>7, NombreIgual
<1> QED
  BY <1>1, <1>6, <1>7 DEF Nombres

\* The Master lets go of a worker's query: none of the places of the worker has one.
LEMMA NombresSuelta ==
    ASSUME WorkerAssumption, Desalojos, Nombres, NEW w \in Worker, TurnoBien(w)',
           NEW q \in Query, asignada[w] = q,
           asignada' = [asignada EXCEPT ![w] = NoQuery], UNCHANGED <<enCola, hilo, aWorker>>,
           \A v \in Worker \ {w} : aMaster'[v] = aMaster[v],
           \/ espera' = espera \cup {q} /\ fin' = fin
           \/ espera' = espera /\ \A p \in Query \ {q} : fin'[p] = fin[p]
    PROVE  Nombres'
<1>0. /\ \A v \in Worker : NombreBien(v) /\ AsignaBien(v)
      /\ asignada \in [Worker -> Query \cup {NoQuery}] /\ EsperaBien /\ espera \subseteq Query
  BY DEF Desalojos, Base, TypeOK, Nombres
<1>1. asignada'[w] = NoQuery /\ \A v \in Worker \ {w} : asignada'[v] = asignada[v]
  BY <1>0
<1>2. NombreBien(w)'
  <2>1. /\ hilo'[w].paso = "libre" /\ aMaster'[w] = <<>> /\ enCola'[w] = {} /\ SinOrden(w)'
    BY <1>1 DEF TurnoBien
  <2> QED
    BY <2>1 DEF NombreBien, SinOrden
<1>3. ASSUME NEW v \in Worker, v # w PROVE NombreBien(v)'
  BY <1>0, <1>1, <1>3, NombreIgual
<1>4. q # NoQuery => q \notin espera /\ fin[q] = SinFin
                     /\ \A v \in Worker : asignada[v] = q => v = w
  BY <1>0 DEF AsignaBien
<1>5. ASSUME NEW v \in Worker PROVE AsignaBien(v)'
  <2>1. CASE v = w \/ asignada[v] = NoQuery
    BY <1>1, <2>1 DEF AsignaBien
  <2>2. CASE v # w /\ asignada[v] # NoQuery
    <3>1. asignada[v] \notin espera /\ fin[asignada[v]] = SinFin /\ asignada[v] \in Query
      BY <1>0, <2>2 DEF AsignaBien
    <3>2. \A u \in Worker : asignada[u] = asignada[v] => u = v
      BY <1>0, <2>2 DEF AsignaBien
    <3>3. asignada[v] # q /\ asignada'[v] = asignada[v]
      BY <1>1, <2>2, <3>2
    <3>4. \A u \in Worker : asignada'[u] = asignada[v] => u = v
      BY <1>1, <2>2, <3>2
    <3>5. asignada[v] \notin espera' /\ fin'[asignada[v]] = SinFin
      BY <3>1, <3>3
    <3> QED
      BY <3>3, <3>4, <3>5 DEF AsignaBien
  <2> QED
    BY <2>1, <2>2
<1>6. EsperaBien'
  <2>1. CASE espera' = espera \cup {q} /\ fin' = fin
    <3>1. fin[q] = SinFin
      BY <1>4 DEF WorkerAssumption
    <3> QED
      BY <1>0, <2>1, <3>1 DEF EsperaBien
  <2>2. CASE espera' = espera /\ \A p \in Query \ {q} : fin'[p] = fin[p]
    <3>1. q \notin espera
      BY <1>4 DEF WorkerAssumption
    <3> QED
      BY <1>0, <2>2, <3>1 DEF EsperaBien
  <2> QED
    BY <2>1, <2>2
<1> QED
  BY <1>2, <1>3, <1>5, <1>6 DEF Nombres

\* The Master takes in an answer: the query is the one it gave that worker.
LEMMA NombresRecibe ==
    ASSUME WorkerAssumption, Desalojos, Nombres, NEW w \in Worker, MasterRecibe(w)
    PROVE  Nombres'
<1>0. /\ aMaster \in [Worker -> Seq(MsgAMaster)] /\ TurnoBien(w) /\ NombreBien(w) /\ Base
      /\ fin \in [Query -> Final \cup {SinFin}]
  BY DEF Desalojos, VidasYTurnos, Base, TypeOK, MsgAMaster, Nombres
<1>1. PICK s \in Seq(MsgAMaster) : s = aMaster[w] /\ s # <<>>
  BY <1>0 DEF MasterRecibe
<1>2. Head(s) = s[1] /\ 1 \in DOMAIN s /\ Head(s) \in MsgAMaster
  <2>1. /\ DOMAIN s = 1..Len(s) /\ Len(s) \in Nat \ {0} /\ Head(s) = s[1] /\ Head(s) \in MsgAMaster
    BY <1>1, ColaMengua
  <2> QED
    BY <2>1
<1>3. Head(s).q = asignada[w] /\ Head(s).q \in Query
  BY <1>0, <1>1, <1>2 DEF NombreBien, MsgAMaster
<1>4. PICK q \in Query : q = asignada[w] /\ q = Head(s).q
  BY <1>3
<1>5. /\ asignada' = [asignada EXCEPT ![w] = NoQuery] /\ UNCHANGED <<enCola, hilo, aWorker>>
      /\ \A v \in Worker \ {w} : aMaster'[v] = aMaster[v]
  BY <1>0 DEF MasterRecibe
<1>6. \/ espera' = espera \cup {q} /\ fin' = fin
      \/ espera' = espera /\ \A p \in Query \ {q} : fin'[p] = fin[p]
  BY <1>0, <1>1, <1>4 DEF MasterRecibe
<1>7. TurnoBien(w)'
  BY <1>0, TurnoRecibe
<1> QED
  BY <1>4, <1>5, <1>6, <1>7, NombresSuelta

\* The Master sees a worker go.
LEMMA NombresPierde ==
    ASSUME WorkerAssumption, Desalojos, Nombres, NEW w \in Worker, MasterPierde(w)
    PROVE  Nombres'
<1>0. /\ TurnoBien(w) /\ VidaBien(w) /\ Base /\ fin \in [Query -> Final \cup {SinFin}]
      /\ asignada \in [Worker -> Query \cup {NoQuery}]
  BY DEF Desalojos, VidasYTurnos, Base, TypeOK
<1>1. PICK q \in Query : q = asignada[w]
  BY <1>0 DEF MasterPierde
<1>2. /\ asignada' = [asignada EXCEPT ![w] = NoQuery] /\ UNCHANGED <<enCola, hilo, aWorker>>
      /\ aMaster' = aMaster /\ espera' = espera /\ \A p \in Query \ {q} : fin'[p] = fin[p]
  BY <1>0, <1>1 DEF MasterPierde, canales
<1>3. TurnoBien(w)'
  BY <1>0, TurnoPierde
<1> QED
  BY <1>1, <1>2, <1>3, NombresSuelta

\* At the start every query waits ...
LEMMA NombresInicial ==
    ASSUME WorkerAssumption, Init
    PROVE  Nombres
BY DEF Init, Nombres, EsperaBien, NombreBien, AsignaBien, Libre

\* ... and each step keeps the names in order.
LEMMA NombresPaso ==
    ASSUME WorkerAssumption, Desalojos, Nombres, [Next]_vars
    PROVE  Nombres'
<1>0. Base /\ \A w \in Worker : NombreBien(w)
  BY DEF Desalojos, Nombres
<1>1. ASSUME UNCHANGED <<enCola, hilo, aWorker, aMaster, espera, asignada, fin>> PROVE Nombres'
  BY <1>1 DEF Nombres, EsperaBien, NombreBien, AsignaBien
<1>2. ASSUME NEW w \in Worker, ProcesaQuery(w) \/ Sirve(w) PROVE Nombres'
  <2>1. HaceAlgo(w)
    BY <1>0, <1>2, EfectoProcesa DEF Base, HilosBien
  <2> QED
    BY <2>1, NombresProcesa
<1>3. ASSUME CaeStorage \/ VuelveStorage \/ Aparte PROVE Nombres'
  BY <1>1, <1>3 DEF CaeStorage, VuelveStorage, Aparte, canales, master
<1> QED
  BY <1>0, <1>2, <1>3, PasoEs, NombresEscucha, NombresAsigna, NombresPideDesalojo, NombresRecibe,
     NombresPierde DEF Base

-----------------------------------------------------------------------------
(* What was written.                                                       *)

Confirma(q, t) == \E i \in DOMAIN Guion[q] : Guion[q][i].op = "COMMIT" /\ Guion[q][i].t = t

\* A file:tag that a script commits is written and committed by that script only,
\* and is not written after it.
UnEscritor ==
    \A q \in Query : \A t \in Tag : Confirma(q, t) =>
        /\ \A i, j \in DOMAIN Guion[q] :
              Guion[q][i].op = "COMMIT" /\ Guion[q][i].t = t /\ j \in Escrituras(q, t) => j < i
        /\ \A p \in Query \ {q} : ~ Confirma(p, t) /\ Escrituras(p, t) = {}

ContestoFin(w, q) ==
    \E i \in DOMAIN aMaster[w] : aMaster[w][i].op = "FIN" /\ aMaster[w][i].q = q
Terminada(q) == fin[q] # SinFin \/ \E w \in Worker : ContestoFin(w, q)

\* Line i of q is the last of its first n that writes t.
UltimaHasta(q, t, n, i) ==
    i \in Escrituras(q, t) /\ i <= n /\ \A j \in Escrituras(q, t) : j <= n => j <= i

\* The page is the one of Storage, or Storage has just taken it.
Escrita(w, t) ==
    \/ ~ Modificada(w, t)
    \/ /\ hilo[w].paso = "recibe" /\ hilo[w].op = "ESCRIBIR" /\ hilo[w].res = "OK"
       /\ hilo[w].t = t

\* Until t is committed only the worker that runs q may have it modified, unless
\* q has ended; and that worker has in memory what the script wrote last.
PendienteBien(w, q, t) == Modificada(w, t) => hilo[w].q = q \/ Terminada(q)
Tiene(w, q, t, n) ==
    \A i \in DOMAIN Guion[q] : UltimaHasta(q, t, n, i) =>
      /\ memoria[w][t] # Nadie /\ memoria[w][t].valor = Guion[q][i].v
      /\ Escrita(w, t) => disco[t] = Guion[q][i].v
EnMemoria(w, q, t) == hilo[w].q = q /\ EnInstruccion(w) => Tiene(w, q, t, hilo[w].pc)
SuyaBien(w, q, t) == archivo[t] # "COMMITED" => PendienteBien(w, q, t) /\ EnMemoria(w, q, t)

ConfirmadaBien(q, t) ==
    archivo[t] = "COMMITED" =>
        \A i \in DOMAIN Guion[q] :
            UltimaHasta(q, t, Len(Guion[q]), i) => disco[t] = Guion[q][i].v

EscritoBien(q, t) ==
    cortes = 0 /\ Confirma(q, t) => ConfirmadaBien(q, t) /\ \A w \in Worker : SuyaBien(w, q, t)

ConfirmaAlguna(t) == archivo[t] = "COMMITED" => \E q \in Query : Confirma(q, t)

\* The lines that write a file:tag, and what they write.
LEMMA EscrituraEs ==
    ASSUME WorkerAssumption, NEW q \in Query, NEW t \in Tag
    PROVE  /\ Len(Guion[q]) \in Nat /\ DOMAIN Guion[q] = 1..Len(Guion[q])
           /\ Escrituras(q, t) \subseteq DOMAIN Guion[q]
           /\ \A i \in Escrituras(q, t) : Guion[q][i].v \in Valor /\ Guion[q][i].v # Nadie
<1>1. Guion[q] \in Seq(Instruccion)
  BY DEF WorkerAssumption
<1>2. Len(Guion[q]) \in Nat /\ DOMAIN Guion[q] = 1..Len(Guion[q])
  BY <1>1
<1>3. ASSUME NEW i \in Escrituras(q, t) PROVE Guion[q][i].v \in Valor /\ Guion[q][i].v # Nadie
  <2>1. i \in DOMAIN Guion[q] /\ Guion[q][i].op = "WRITE"
    BY <1>3 DEF Escrituras
  <2> QED
    BY <2>1 DEF WorkerAssumption
<1> QED
  BY <1>2, <1>3 DEF Escrituras

\* The query of a thread that has one has not ended, and no other thread runs it.
LEMMA NoTerminada ==
    ASSUME WorkerAssumption, Desalojos, Nombres, NEW v \in Worker, NEW q \in Query, hilo[v].q = q
    PROVE  ~ Terminada(q) /\ \A u \in Worker : hilo[u].q = q => u = v
<1>0. /\ \A u \in Worker : NombreBien(u) /\ AsignaBien(u) /\ HiloBien(u) /\ TurnoBien(u)
      /\ q # NoQuery
  BY DEF Nombres, Desalojos, VidasYTurnos, Base, HilosBien, WorkerAssumption
<1>1. ASSUME NEW u \in Worker, hilo[u].q = q PROVE hilo[u].paso # "libre" /\ asignada[u] = q
  BY <1>0, <1>1 DEF HiloBien, Libre, NombreBien
<1>2. asignada[v] = q /\ hilo[v].paso # "libre"
  BY <1>1
<1>3. fin[q] = SinFin /\ \A u \in Worker : asignada[u] = q => u = v
  BY <1>0, <1>2 DEF AsignaBien
<1>4. ASSUME NEW u \in Worker, ContestoFin(u, q) PROVE FALSE
  <2>1. asignada[u] = q /\ aMaster[u] # <<>>
    BY <1>0, <1>4 DEF ContestoFin, NombreBien
  <2>2. u = v
    BY <1>3, <2>1
  <2> QED
    BY <1>0, <1>2, <2>1, <2>2 DEF TurnoBien
<1> QED
  BY <1>1, <1>3, <1>4 DEF Terminada

-----------------------------------------------------------------------------
(* What changes in Storage.                                                *)

\* The contents of a block that exists are changed by the flush of a page only.
LEMMA QuienEscribe ==
    ASSUME Base, NEW w \in Worker, HaceAlgo(w), NEW t \in Tag, disco[t] # Nadie,
           disco'[t] # disco[t]
    PROVE  archivo[t] # "COMMITED" /\ Modificada(w, t)
<1>0. HiloBien(w)
  BY DEF Base, HilosBien
<1>1. HaceSirve(w)
  BY DEF HaceAlgo, HaceToma, HaceReconecta, HaceReconectaEnVano, HaceDesaloja, HaceTermina,
         HacePideInstruccion, HaceEjecuta, HaceRecibe, HaceVuelca, HaceRecibeVolcado,
         HaceContestaDesalojo
<1>2. PICK op \in Pedidos, u \in Tag : op = hilo[w].op /\ u = hilo[w].t
  BY <1>1 DEF HaceSirve
<1>3. Sirvio(op, u, memoria[w][u].valor) /\ hilo[w].paso = "pide"
  BY <1>1, <1>2 DEF HaceSirve
<1>4. t = u /\ op \in {"TRUNCATE", "ESCRIBIR"}
  BY <1>3 DEF Sirvio
<1>5. op = "ESCRIBIR"
  BY <1>3, <1>4 DEF Sirvio
<1> QED
  BY <1>0, <1>2, <1>3, <1>4, <1>5 DEF Sirvio, HiloBien, EnPedido

\* A file:tag is committed by the COMMIT of the line under way, with its page clean.
LEMMA QuienConfirma ==
    ASSUME WorkerAssumption, Base, NEW w \in Worker, HaceAlgo(w), NEW t \in Tag,
           archivo[t] # "COMMITED", archivo'[t] = "COMMITED"
    PROVE  /\ HaceSirve(w) /\ hilo[w].op = "COMMIT"
           /\ hilo[w].q \in Query /\ EnInstruccion(w) /\ ~ Modificada(w, t) /\ disco' = disco
           /\ hilo[w].pc + 1 \in DOMAIN Guion[hilo[w].q]
           /\ Guion[hilo[w].q][hilo[w].pc + 1].op = "COMMIT"
           /\ Guion[hilo[w].q][hilo[w].pc + 1].t = t
<1>0. HiloBien(w) /\ TypeOK
  BY DEF Base, HilosBien
<1>1. HaceSirve(w)
  BY DEF HaceAlgo, HaceToma, HaceReconecta, HaceReconectaEnVano, HaceDesaloja, HaceTermina,
         HacePideInstruccion, HaceEjecuta, HaceRecibe, HaceVuelca, HaceRecibeVolcado,
         HaceContestaDesalojo
<1>2. PICK op \in Pedidos, u \in Tag : op = hilo[w].op /\ u = hilo[w].t
  BY <1>1 DEF HaceSirve
<1>3. Sirvio(op, u, memoria[w][u].valor) /\ hilo[w].paso = "pide" /\ hilo[w].q \in Query
  BY <1>1, <1>2 DEF HaceSirve
<1>4. t = u /\ op = "COMMIT" /\ disco' = disco
  BY <1>3 DEF Sirvio
<1>5. ~ hilo[w].desaloja
  BY <1>0, <1>2, <1>3, <1>4 DEF HiloBien, EnPedido
<1>6. QuedanLineas(w) /\ Pedido(Linea(w), w) = "COMMIT" /\ Linea(w).t = t
  BY <1>0, <1>2, <1>3, <1>4, <1>5 DEF HiloBien, EnPedido
<1>7. Linea(w) \in Instruccion /\ hilo[w].pc + 1 \in DOMAIN Guion[hilo[w].q]
  BY <1>0, <1>3, <1>6, LineaTipo
<1>8. Linea(w).op = "COMMIT" /\ ~ Modificada(w, Linea(w).t)
  BY <1>6, <1>7, PedidoTipo
<1> QED
  BY <1>1, <1>2, <1>3, <1>4, <1>5, <1>6, <1>7, <1>8 DEF EnInstruccion, Linea

\* A query that has ended stays so.
LEMMA TerminadaSigue ==
    ASSUME Desalojos, NEW w \in Worker, HaceAlgo(w), NEW q \in Query, Terminada(q)
    PROVE  Terminada(q)'
<1>0. Base /\ aMaster[w] = <<>>
  BY SinRespuesta DEF Desalojos, VidasYTurnos
<1>1. fin' = fin /\ \A v \in Worker \ {w} : aMaster'[v] = aMaster[v]
  BY <1>0, ProcesaAjeno
<1>2. ASSUME NEW v \in Worker, ContestoFin(v, q) PROVE ContestoFin(v, q)'
  <2>1. v # w
    BY <1>0, <1>2 DEF ContestoFin
  <2> QED
    BY <1>1, <1>2, <2>1 DEF ContestoFin
<1> QED
  BY <1>1, <1>2 DEF Terminada

-----------------------------------------------------------------------------
(* A step of the query thread.                                             *)

\* What is committed stays; and what is being committed is what was written last.
LEMMA ConfirmadaProcesa ==
    ASSUME WorkerAssumption, UnEscritor, Base, NEW w \in Worker, HaceAlgo(w),
           NEW q \in Query, NEW t \in Tag, Confirma(q, t), ConfirmadaBien(q, t), SuyaBien(w, q, t)
    PROVE  ConfirmadaBien(q, t)'
<1>1. SUFFICES ASSUME archivo'[t] = "COMMITED", NEW i \in DOMAIN Guion[q],
                      UltimaHasta(q, t, Len(Guion[q]), i)
               PROVE  disco'[t] = Guion[q][i].v
  BY DEF ConfirmadaBien
<1>2. Guion[q][i].v # Nadie /\ i \in Escrituras(q, t)
  BY <1>1, EscrituraEs DEF UltimaHasta
<1>3. CASE archivo[t] = "COMMITED"
  <2>1. disco[t] = Guion[q][i].v
    BY <1>1, <1>3 DEF ConfirmadaBien
  <2> QED
    BY <1>2, <1>3, <2>1, QuienEscribe
<1>4. CASE archivo[t] # "COMMITED"
  <2>0. PICK p \in Query : p = hilo[w].q
    BY <1>1, <1>4, QuienConfirma
  <2>1. PICK k \in DOMAIN Guion[p] :
          /\ k = hilo[w].pc + 1 /\ Guion[p][k].op = "COMMIT" /\ Guion[p][k].t = t
          /\ EnInstruccion(w) /\ ~ Modificada(w, t) /\ disco' = disco
    BY <1>1, <1>4, <2>0, QuienConfirma
  <2>2. p = q
    BY <2>0, <2>1 DEF Confirma, UnEscritor
  <2>3. \A j \in Escrituras(q, t) : j < k
    BY <2>1, <2>2, EscrituraEs DEF UnEscritor
  <2>4. hilo[w].pc \in Nat /\ DOMAIN Guion[q] \subseteq Nat /\ Escrituras(q, t) \subseteq Nat
    BY EscrituraEs, CampoHilo DEF Base, TypeOK
  <2>5. UltimaHasta(q, t, hilo[w].pc, i)
    <3>1. i \in Escrituras(q, t) /\ i < k
      BY <1>2, <2>3
    <3>2. \A j \in Escrituras(q, t) : j \in 1..Len(Guion[q]) /\ Len(Guion[q]) \in Nat
      BY EscrituraEs
    <3>3. \A j \in Escrituras(q, t) : j <= i
      BY <1>1, <3>2 DEF UltimaHasta
    <3> QED
      BY <2>1, <2>4, <3>1, <3>3 DEF UltimaHasta
  <2> QED
    BY <1>4, <2>0, <2>1, <2>2, <2>5 DEF SuyaBien, EnMemoria, Tiene, Escrita
<1> QED
  BY <1>3, <1>4

\* While Storage has not stopped no thread has to connect again.
LEMMA SinReconexion ==
    ASSUME Desalojos, cortes = 0, NEW w \in Worker
    PROVE  ~ HaceReconecta(w) /\ ~ HaceReconectaEnVano(w)
BY DEF Desalojos, VidasYTurnos, VidaBien, HaceReconecta, HaceReconectaEnVano

\* The page the answer to a request leaves was modified before it.
LEMMA GuardoModificada ==
    ASSUME NEW w \in Worker, NEW t \in Tag, NEW op \in Pedidos, NEW u \in Tag, NEW d,
           Guardo(w, op, u, d), Modificada(w, t)'
    PROVE  Modificada(w, t)
BY DEF Guardo, Modificada

\* An answer of the end of a query reaches the channel.
LEMMA RespuestaFin ==
    ASSUME Desalojos, NEW w \in Worker, HaceAlgo(w), NEW q \in Query, NEW n \in Nat,
           aMaster' = [aMaster EXCEPT ![w] = Append(@, [op |-> "FIN", q |-> q, dato |-> n])]
    PROVE  Terminada(q)'
<1>0. aMaster[w] = <<>> /\ aMaster \in [Worker -> Seq(MsgAMaster)]
  BY SinRespuesta DEF Desalojos, VidasYTurnos, Base, TypeOK, MsgAMaster
<1>1. PICK m \in MsgAMaster : m = [op |-> "FIN", q |-> q, dato |-> n]
  BY DEF MsgAMaster
<1>2. aMaster'[w] = Append(<<>>, m)
  BY <1>0, <1>1
<1>3. PICK s \in Seq(MsgAMaster) : s = aMaster[w] /\ s = <<>>
  BY <1>0
<1>4. 1 \in DOMAIN aMaster'[w] /\ aMaster'[w][1] = m
  <2>1. DOMAIN Append(s, m) = 1..(Len(s) + 1) /\ Append(s, m)[Len(s) + 1] = m
    BY ColaCrece
  <2>2. DOMAIN Append(s, m) = 1..1 /\ Append(s, m)[1] = m
    BY <1>3, <2>1
  <2> QED
    BY <1>2, <1>3, <2>2
<1>5. m.op = "FIN" /\ m.q = q
  BY <1>1
<1> QED
  BY <1>4, <1>5 DEF Terminada, ContestoFin

\* A page of t is modified by the script that commits t, and is flushed or that
\* query has ended when the thread lets go of it.
LEMMA PendienteProcesa ==
    ASSUME WorkerAssumption, UnEscritor, Desalojos, integro, cortes = 0, NEW w \in Worker,
           HaceAlgo(w), NEW q \in Query, NEW t \in Tag, Confirma(q, t), archivo[t] # "COMMITED",
           PendienteBien(w, q, t)
    PROVE  PendienteBien(w, q, t)'
<1>0. /\ Base /\ HiloBien(w) /\ hilo \in [Worker -> Hilo] /\ VolcadoBien(w) /\ DiscoBien(t)
      /\ archivo[t] \in {"NO", "WORK_IN_PROGRESS", "COMMITED"} /\ q # NoQuery
  BY DEF Desalojos, VolcadosBien, DiscosBien, Base, HilosBien, TypeOK, WorkerAssumption
<1>1. SUFFICES ASSUME Modificada(w, t)', ~ Terminada(q)' PROVE hilo'[w].q = q
  BY DEF PendienteBien
<1>2. Modificada(w, t) => hilo[w].q = q
  BY <1>1, TerminadaSigue DEF PendienteBien
<1>3. ASSUME hilo'[w].q = hilo[w].q, Modificada(w, t) PROVE hilo'[w].q = q
  BY <1>2, <1>3
<1>4. ASSUME NEW p \in Query, HaceToma(w, p) PROVE FALSE
  <2>1. Modificada(w, t) /\ hilo[w] = Libre
    BY <1>0, <1>1, <1>4 DEF HaceToma, Modificada, HiloBien
  <2> QED
    BY <1>0, <1>2, <2>1 DEF Libre
<1>5. ASSUME HaceDesaloja(w) \/ HacePideInstruccion(w) \/ HaceSirve(w) \/ HaceVuelca(w)
      PROVE  hilo'[w].q = q
  <2>1. hilo'[w].q = hilo[w].q /\ memoria' = memoria
    BY <1>0, <1>5 DEF HaceDesaloja, HacePideInstruccion, HaceSirve, HaceVuelca
  <2> QED
    BY <1>1, <1>3, <2>1 DEF Modificada
<1>6. ASSUME HaceEjecuta(w) PROVE hilo'[w].q = q
  <2>1. hilo'[w].q = hilo[w].q
    BY <1>0, <1>6 DEF HaceEjecuta
  <2>2. CASE Modificada(w, t)
    BY <1>3, <2>1, <2>2
  <2>3. CASE ~ Modificada(w, t)
    <3>1. Linea(w).op = "WRITE" /\ Linea(w).t = t
      BY <1>1, <1>6, <2>3 DEF HaceEjecuta, Modificada
    <3>2. PICK p \in Query : p = hilo[w].q
      BY <1>6 DEF HaceEjecuta
    <3>3. PICK k \in DOMAIN Guion[p] : Linea(w) = Guion[p][k]
      BY <1>0, <1>6, <3>2, LineaTipo DEF HaceEjecuta, Linea, Base
    <3>4. Escrituras(p, t) # {}
      BY <3>1, <3>3 DEF Escrituras
    <3> QED
      BY <2>1, <3>2, <3>4 DEF UnEscritor
  <2> QED
    BY <2>2, <2>3
<1>7. ASSUME HaceTermina(w) PROVE FALSE
  <2>1. Modificada(w, t)
    BY <1>1, <1>7 DEF HaceTermina, Modificada
  <2> QED
    BY <1>1, <1>2, <1>7, <2>1, RespuestaFin DEF HaceTermina
<1>8. ASSUME HaceRecibe(w) PROVE hilo'[w].q = q
  <2>1. CASE RecibeBien(w)
    <3>1. hilo'[w].q = hilo[w].q
      BY <1>0, <2>1 DEF RecibeBien
    <3>2. Modificada(w, t)
      BY <1>1, <1>8, <2>1, GuardoModificada DEF HaceRecibe, RecibeBien
    <3> QED
      BY <1>3, <3>1, <3>2
  <2>2. CASE RecibeMal(w)
    <3>1. Modificada(w, t)
      BY <1>1, <2>2 DEF RecibeMal, Modificada
    <3> QED
      BY <1>1, <1>2, <2>2, <3>1, RespuestaFin DEF RecibeMal
  <2> QED
    BY <1>8, <2>1, <2>2 DEF HaceRecibe
<1>9. ASSUME HaceRecibeVolcado(w) PROVE hilo'[w].q = q
  <2>1. hilo'[w].q = hilo[w].q
    BY <1>0, <1>9 DEF HaceRecibeVolcado
  <2>2. Modificada(w, t)
    <3>1. CASE memoria' = memoria
      BY <1>1, <3>1 DEF Modificada
    <3>2. CASE Guardo(w, hilo[w].op, hilo[w].t, hilo[w].dato)
      BY <1>1, <1>9, <3>2, GuardoModificada DEF HaceRecibeVolcado, Pedidos
    <3> QED
      BY <1>9, <3>1, <3>2 DEF HaceRecibeVolcado
  <2> QED
    BY <1>3, <2>1, <2>2
<1>10. ASSUME HaceContestaDesalojo(w) PROVE FALSE
  <2>1. Modificada(w, t) /\ hilo[w].desaloja /\ hilo[w].faltan = {}
    BY <1>1, <1>10 DEF HaceContestaDesalojo, Modificada
  <2>2. archivo[t] # "WORK_IN_PROGRESS"
    BY <1>0, <2>1 DEF VolcadoBien, Guardada
  <2>3. archivo[t] # "NO"
    BY <1>0, <2>1 DEF DiscoBien, Modificada
  <2> QED
    BY <1>0, <2>2, <2>3
<1> QED
  BY <1>4, <1>5, <1>6, <1>7, <1>8, <1>9, <1>10, SinReconexion DEF HaceAlgo

\* The line after the n first is the last write of the n + 1 first, if it is one.
LEMMA UltimaCrece ==
    ASSUME WorkerAssumption, NEW q \in Query, NEW t \in Tag, NEW n \in Nat,
           NEW i \in DOMAIN Guion[q],
           UltimaHasta(q, t, n + 1, i)
    PROVE  IF n + 1 \in Escrituras(q, t) THEN i = n + 1 ELSE UltimaHasta(q, t, n, i)
<1>1. Escrituras(q, t) \subseteq Nat
  BY EscrituraEs
<1>2. i \in Escrituras(q, t) /\ i <= n + 1 /\ \A j \in Escrituras(q, t) : j <= n + 1 => j <= i
  BY DEF UltimaHasta
<1>3. CASE n + 1 \in Escrituras(q, t)
  <2>1. i \in Nat /\ n + 1 <= i
    BY <1>1, <1>2, <1>3
  <2> QED
    BY <1>2, <1>3, <2>1
<1>4. CASE n + 1 \notin Escrituras(q, t)
  <2>1. i \in Nat /\ i # n + 1
    BY <1>1, <1>2, <1>4
  <2>2. i <= n /\ \A j \in Escrituras(q, t) : j <= n => j <= i
    BY <1>1, <1>2, <2>1
  <2> QED
    BY <1>2, <1>4, <2>2 DEF UltimaHasta
<1> QED
  BY <1>3, <1>4

\* A step that leaves the page of t alone, and what Storage has of it.
LEMMA TieneIgual ==
    ASSUME NEW w \in Worker, NEW q \in Query, NEW t \in Tag, NEW n, Tiene(w, q, t, n),
           memoria'[w][t] = memoria[w][t], disco'[t] = disco[t], Escrita(w, t)' => Escrita(w, t)
    PROVE  Tiene(w, q, t, n)'
BY DEF Tiene

\* One line more, which does not write t.
LEMMA TieneSigue ==
    ASSUME WorkerAssumption, NEW w \in Worker, NEW q \in Query, NEW t \in Tag, NEW n \in Nat,
           Tiene(w, q, t, n), n + 1 \notin Escrituras(q, t)
    PROVE  Tiene(w, q, t, n + 1)
BY UltimaCrece DEF Tiene

\* The line under way is carried out.
LEMMA TieneEjecuta ==
    ASSUME WorkerAssumption, Base, NEW w \in Worker, HaceEjecuta(w), NEW q \in Query, NEW t \in Tag,
           hilo[w].q = q, Tiene(w, q, t, hilo[w].pc)
    PROVE  Tiene(w, q, t, hilo[w].pc)'
<1>0. /\ hilo \in [Worker -> Hilo] /\ disco' = disco /\ hilo'[w].paso = "linea"
      /\ hilo'[w].pc = hilo[w].pc + 1 /\ QuedanLineas(w) /\ TypeOK
  BY DEF Base, TypeOK, HaceEjecuta
<1>1. PICK n \in Nat : n = hilo[w].pc
  BY <1>0, CampoHilo
<1>2. n + 1 \in DOMAIN Guion[q] /\ Linea(w) = Guion[q][n + 1]
  BY <1>0, <1>1, LineaTipo DEF Linea
<1>n. SUFFICES Tiene(w, q, t, n + 1)'
  BY <1>0, <1>1 DEF Tiene
<1>3. CASE Linea(w).op = "WRITE" /\ Linea(w).t = t
  <2>1. n + 1 \in Escrituras(q, t)
    BY <1>2, <1>3 DEF Escrituras
  <2>2. PICK p \in Pagina : /\ memoria'[w][t] = p /\ p # Nadie /\ p.modificada = TRUE
                            /\ p.valor = Guion[q][n + 1].v
    BY <1>2, <1>3 DEF HaceEjecuta
  <2>3. ~ Escrita(w, t)'
    BY <1>0, <2>2 DEF Escrita, Modificada
  <2> QED
    BY <1>0, <1>1, <2>1, <2>2, <2>3, UltimaCrece DEF Tiene
<1>4. CASE ~ (Linea(w).op = "WRITE" /\ Linea(w).t = t)
  <2>1. n + 1 \notin Escrituras(q, t)
    BY <1>2, <1>4 DEF Escrituras
  <2>2. Tiene(w, q, t, n + 1)
    BY <1>1, <2>1, TieneSigue
  <2>3. memoria'[w][t] = memoria[w][t]
    BY <1>4 DEF HaceEjecuta
  <2>4. Escrita(w, t)' => Escrita(w, t)
    BY <1>0, <2>3 DEF Escrita, Modificada
  <2> QED
    BY <1>0, <1>1, <2>2, <2>3, <2>4, TieneIgual
<1> QED
  BY <1>3, <1>4

\* A request is served.
LEMMA TieneSirve ==
    ASSUME WorkerAssumption, Base, NEW w \in Worker, HaceSirve(w), integro', NEW q \in Query,
           NEW t \in Tag, Tiene(w, q, t, hilo[w].pc)
    PROVE  Tiene(w, q, t, hilo[w].pc)'
<1>0. /\ hilo \in [Worker -> Hilo] /\ HaceAlgo(w) /\ memoria' = memoria /\ hilo[w].paso = "pide"
      /\ hilo'[w].pc = hilo[w].pc /\ hilo'[w].op = hilo[w].op /\ hilo'[w].t = hilo[w].t
      /\ hilo'[w].res = "OK" => Sirvio(hilo[w].op, hilo[w].t, memoria[w][hilo[w].t].valor)
  BY DEF Base, TypeOK, HaceSirve, HaceAlgo
<1>1. PICK n : n = hilo[w].pc
  OBVIOUS
<1>2. SUFFICES ASSUME NEW i \in DOMAIN Guion[q], UltimaHasta(q, t, n, i)
               PROVE  /\ memoria'[w][t] # Nadie /\ memoria'[w][t].valor = Guion[q][i].v
                      /\ Escrita(w, t)' => disco'[t] = Guion[q][i].v
  BY <1>0, <1>1 DEF Tiene
<1>3. /\ memoria[w][t] # Nadie /\ memoria[w][t].valor = Guion[q][i].v
      /\ ~ Modificada(w, t) => disco[t] = Guion[q][i].v
  BY <1>1, <1>2 DEF Tiene, Escrita
<1>4. ASSUME ~ Modificada(w, t) PROVE disco'[t] = Guion[q][i].v
  <2>1. Guion[q][i].v # Nadie
    BY <1>2, EscrituraEs DEF UltimaHasta
  <2> QED
    BY <1>0, <1>3, <1>4, <2>1, QuienEscribe
<1>5. ASSUME Modificada(w, t), Escrita(w, t)' PROVE disco'[t] = Guion[q][i].v
  <2>1. Modificada(w, t)'
    BY <1>0, <1>5 DEF Modificada
  <2>2. hilo[w].op = "ESCRIBIR" /\ hilo[w].t = t /\ hilo'[w].res = "OK"
    BY <1>0, <1>5, <2>1 DEF Escrita
  <2>3. disco'[t] = memoria[w][t].valor
    BY <1>0, <2>2 DEF Sirvio
  <2> QED
    BY <1>3, <2>3
<1> QED
  BY <1>0, <1>3, <1>4, <1>5

\* The answer to a request of an instruction.
LEMMA TieneRecibe ==
    ASSUME WorkerAssumption, Base, NEW w \in Worker, HaceRecibe(w), RecibeBien(w),
           NEW q \in Query, NEW t \in Tag, hilo[w].q = q, Tiene(w, q, t, hilo[w].pc)
    PROVE  Tiene(w, q, t, hilo[w].pc)'
<1>0. /\ hilo \in [Worker -> Hilo] /\ disco' = disco /\ hilo[w].paso = "recibe" /\ TypeOK
      /\ hilo[w].res = "OK" /\ ~ hilo[w].desaloja /\ HiloBien(w) /\ hilo'[w].paso # "recibe"
      /\ hilo'[w].pc = (IF hilo[w].op \in {"LEER", "ESCRIBIR"} THEN hilo[w].pc
                                                              ELSE hilo[w].pc + 1)
  BY DEF Base, TypeOK, HilosBien, HaceRecibe, RecibeBien
<1>1. PICK n \in Nat, op \in Pedidos, u \in Tag :
         n = hilo[w].pc /\ op = hilo[w].op /\ u = hilo[w].t
  BY <1>0, CampoHilo DEF HaceRecibe
<1>2. QuedanLineas(w) /\ op = Pedido(Linea(w), w) /\ u = Linea(w).t
  BY <1>0, <1>1 DEF HiloBien, EnPedido
<1>3. n + 1 \in DOMAIN Guion[q] /\ Linea(w) = Guion[q][n + 1] /\ Linea(w) \in Instruccion
  BY <1>0, <1>1, <1>2, LineaTipo DEF Linea
<1>4. /\ op = "LEER" => memoria[w][u] = Nadie
      /\ op \notin {"LEER", "ESCRIBIR"} => Linea(w).op # "WRITE"
  <2>1. op # "-"
    BY <1>1 DEF Pedidos
  <2> QED
    BY <1>1, <1>2, <1>3, <2>1, PedidoTipo DEF Pedidos
<1>5. Guardo(w, op, u, hilo[w].dato)
  BY <1>1 DEF RecibeBien
<1>6. Escrita(w, t)' => ~ Modificada(w, t)'
  BY <1>0 DEF Escrita
<1>7. CASE op \notin {"LEER", "ESCRIBIR"}
  <2>1. n + 1 \notin Escrituras(q, t)
    BY <1>3, <1>4, <1>7 DEF Escrituras
  <2>2. Tiene(w, q, t, n + 1)
    BY <1>1, <2>1, TieneSigue
  <2>3. memoria' = memoria
    BY <1>5, <1>7 DEF Guardo
  <2>4. Tiene(w, q, t, n + 1)'
    BY <1>0, <1>6, <2>2, <2>3, TieneIgual DEF Escrita, Modificada
  <2> QED
    BY <1>0, <1>1, <1>7, <2>4 DEF Tiene
<1>8. CASE op \in {"LEER", "ESCRIBIR"}
  <2>1. SUFFICES Tiene(w, q, t, n)'
    BY <1>0, <1>1, <1>8 DEF Tiene
  <2>2. CASE u # t
    <3>1. memoria'[w][t] = memoria[w][t]
      BY <1>5, <2>2 DEF Guardo
    <3> QED
      BY <1>0, <1>1, <1>6, <3>1, TieneIgual DEF Escrita, Modificada
  <2>3. CASE u = t /\ op = "LEER"
    <3>1. \A i \in DOMAIN Guion[q] : ~ UltimaHasta(q, t, n, i)
      BY <1>1, <1>4, <2>3 DEF Tiene
    <3> QED
      BY <3>1 DEF Tiene
  <2>4. CASE u = t /\ op = "ESCRIBIR"
    <3>1. Escrita(w, t)
      BY <1>0, <1>1, <2>4 DEF Escrita
    <3>2. memoria'[w][t] # Nadie /\ memoria'[w][t].valor = memoria[w][t].valor
      BY <1>5, <2>4 DEF Guardo
    <3> QED
      BY <1>0, <1>1, <3>1, <3>2 DEF Tiene
  <2> QED
    BY <1>8, <2>2, <2>3, <2>4
<1> QED
  BY <1>7, <1>8

\* The worker that runs q has in memory what q wrote, wherever its thread is.
LEMMA EnMemoriaProcesa ==
    ASSUME WorkerAssumption, Desalojos, integro', cortes = 0, NEW w \in Worker, HaceAlgo(w),
           NEW q \in Query, NEW t \in Tag, EnMemoria(w, q, t)
    PROVE  EnMemoria(w, q, t)'
<1>0. Base /\ hilo \in [Worker -> Hilo]
  BY DEF Desalojos, Base, TypeOK
<1>1. SUFFICES ASSUME hilo'[w].q = q, EnInstruccion(w)' PROVE Tiene(w, q, t, hilo[w].pc)'
  BY DEF EnMemoria
<1>2. ASSUME NEW p \in Query, HaceToma(w, p) PROVE Tiene(w, q, t, hilo[w].pc)'
  <2>1. hilo'[w].pc = 0
    BY <1>0, <1>2 DEF HaceToma, Libre
  <2>2. \A i \in DOMAIN Guion[q] : ~ UltimaHasta(q, t, 0, i)
    BY EscrituraEs DEF UltimaHasta
  <2> QED
    BY <2>1, <2>2 DEF Tiene
<1>3. ASSUME HaceDesaloja(w) \/ HaceVuelca(w) \/ HaceRecibeVolcado(w) PROVE FALSE
  BY <1>0, <1>1, <1>3 DEF HaceDesaloja, HaceVuelca, HaceRecibeVolcado, EnInstruccion
<1>4. ASSUME hilo' = [hilo EXCEPT ![w] = Libre] PROVE FALSE
  BY <1>0, <1>1, <1>4 DEF EnInstruccion, Libre
<1>5. ASSUME HaceTermina(w) \/ HaceContestaDesalojo(w) PROVE FALSE
  BY <1>4, <1>5 DEF HaceTermina, HaceContestaDesalojo
<1>6. ASSUME HacePideInstruccion(w) PROVE Tiene(w, q, t, hilo[w].pc)'
  <2>1. /\ hilo'[w].q = hilo[w].q /\ hilo'[w].pc = hilo[w].pc /\ hilo'[w].paso = "pide"
        /\ hilo'[w].desaloja = hilo[w].desaloja /\ hilo[w].paso \in {"linea", "ejecuta"}
        /\ UNCHANGED <<memoria, disco>>
    BY <1>0, <1>6 DEF HacePideInstruccion
  <2>2. PICK n : n = hilo[w].pc
    OBVIOUS
  <2>3. Tiene(w, q, t, n)
    BY <1>1, <2>1, <2>2 DEF EnMemoria, EnInstruccion
  <2>4. Tiene(w, q, t, n)'
    BY <2>1, <2>3, TieneIgual DEF Escrita, Modificada
  <2> QED
    BY <2>1, <2>2, <2>4 DEF Tiene
<1>7. ASSUME HaceEjecuta(w) PROVE Tiene(w, q, t, hilo[w].pc)'
  <2>1. /\ hilo'[w].q = hilo[w].q /\ hilo'[w].desaloja = hilo[w].desaloja
        /\ hilo[w].paso \in {"linea", "ejecuta"}
    BY <1>0, <1>7 DEF HaceEjecuta
  <2> QED
    BY <1>0, <1>1, <1>7, <2>1, TieneEjecuta DEF EnMemoria, EnInstruccion
<1>8. ASSUME HaceSirve(w) PROVE Tiene(w, q, t, hilo[w].pc)'
  <2>1. /\ hilo'[w].q = hilo[w].q /\ hilo'[w].desaloja = hilo[w].desaloja
        /\ hilo[w].paso = "pide"
    BY <1>0, <1>8 DEF HaceSirve
  <2> QED
    BY <1>0, <1>1, <1>8, <2>1, TieneSirve DEF EnMemoria, EnInstruccion
<1>9. ASSUME HaceRecibe(w) PROVE Tiene(w, q, t, hilo[w].pc)'
  <2>1. CASE RecibeMal(w)
    BY <1>4, <2>1 DEF RecibeMal
  <2>2. CASE RecibeBien(w)
    <3>1. hilo'[w].q = hilo[w].q /\ ~ hilo[w].desaloja /\ hilo[w].paso = "recibe"
      BY <1>0, <1>9, <2>2 DEF HaceRecibe, RecibeBien
    <3> QED
      BY <1>0, <1>1, <1>9, <2>2, <3>1, TieneRecibe DEF EnMemoria, EnInstruccion
  <2> QED
    BY <1>9, <2>1, <2>2 DEF HaceRecibe
<1> QED
  BY <1>2, <1>3, <1>5, <1>6, <1>7, <1>8, <1>9, SinReconexion DEF HaceAlgo

\* No step of another worker takes it from the query that runs.
LEMMA SuyaAjena ==
    ASSUME WorkerAssumption, Desalojos, Nombres, NEW w \in Worker, HaceAlgo(w),
           NEW v \in Worker, v # w, NEW q \in Query, NEW t \in Tag, archivo[t] # "COMMITED",
           PendienteBien(w, q, t), PendienteBien(v, q, t), EnMemoria(v, q, t)
    PROVE  PendienteBien(v, q, t)' /\ EnMemoria(v, q, t)'
<1>0. Base /\ hilo'[v] = hilo[v] /\ memoria'[v] = memoria[v]
  BY ProcesaAjeno DEF Desalojos
<1>1. PendienteBien(v, q, t)'
  BY <1>0, TerminadaSigue DEF PendienteBien, Modificada
<1>2. EnMemoria(v, q, t)'
  <2>1. SUFFICES ASSUME hilo[v].q = q, EnInstruccion(v), NEW i \in DOMAIN Guion[q],
                        UltimaHasta(q, t, hilo[v].pc, i)
                 PROVE  /\ memoria[v][t] # Nadie /\ memoria[v][t].valor = Guion[q][i].v
                        /\ Escrita(v, t) => disco'[t] = Guion[q][i].v
    BY <1>0 DEF EnMemoria, Tiene, Escrita, EnInstruccion, Modificada
  <2>2. /\ memoria[v][t] # Nadie /\ memoria[v][t].valor = Guion[q][i].v
        /\ Escrita(v, t) => disco[t] = Guion[q][i].v
    BY <2>1 DEF EnMemoria, Tiene
  <2>3. Guion[q][i].v # Nadie
    BY <2>1, EscrituraEs DEF UltimaHasta
  <2>4. ~ Modificada(w, t)
    BY <2>1, NoTerminada DEF PendienteBien
  <2> QED
    BY <1>0, <2>2, <2>3, <2>4, QuienEscribe
<1> QED
  BY <1>1, <1>2

\* What a script wrote last is what it commits, after a step of the query thread ...
LEMMA EscritoProcesa ==
    ASSUME WorkerAssumption, UnEscritor, Desalojos, Nombres, integro, integro',
           NEW w \in Worker, HaceAlgo(w), NEW q \in Query, NEW t \in Tag, EscritoBien(q, t)
    PROVE  EscritoBien(q, t)'
<1>1. cortes' = cortes /\ Base
  BY ProcesaAjeno DEF Desalojos
<1>2. SUFFICES ASSUME cortes = 0, Confirma(q, t)
               PROVE  ConfirmadaBien(q, t)' /\ \A v \in Worker : SuyaBien(v, q, t)'
  BY <1>1 DEF EscritoBien
<1>3. ConfirmadaBien(q, t) /\ \A v \in Worker : SuyaBien(v, q, t)
  BY <1>2 DEF EscritoBien
<1>4. ConfirmadaBien(q, t)'
  BY <1>1, <1>2, <1>3, ConfirmadaProcesa
<1>5. SUFFICES ASSUME NEW v \in Worker, archivo'[t] # "COMMITED"
               PROVE  PendienteBien(v, q, t)' /\ EnMemoria(v, q, t)'
  BY <1>4 DEF SuyaBien
<1>6. archivo[t] # "COMMITED"
  BY <1>1, <1>5, AvanzaProcesa DEF Avanza
<1>7. \A u \in Worker : PendienteBien(u, q, t) /\ EnMemoria(u, q, t)
  BY <1>3, <1>6 DEF SuyaBien
<1>8. CASE v = w
  BY <1>2, <1>6, <1>7, <1>8, PendienteProcesa, EnMemoriaProcesa
<1>9. CASE v # w
  BY <1>6, <1>7, <1>9, SuyaAjena
<1> QED
  BY <1>8, <1>9

\* ... and a file:tag that is committed is one that some script commits.
LEMMA AlgunaProcesa ==
    ASSUME WorkerAssumption, Base, NEW w \in Worker, HaceAlgo(w), NEW t \in Tag, ConfirmaAlguna(t)
    PROVE  ConfirmaAlguna(t)'
<1>1. SUFFICES ASSUME archivo'[t] = "COMMITED", archivo[t] # "COMMITED"
               PROVE  \E q \in Query : Confirma(q, t)
  BY DEF ConfirmaAlguna
<1> QED
  BY <1>1, QuienConfirma DEF Confirma

-----------------------------------------------------------------------------
(* The other steps.                                                        *)

\* A query that has ended stays so for the Master: it takes in the answer, or
\* sees the worker go.
LEMMA TerminadaOtros ==
    ASSUME Desalojos, NEW q \in Query, Terminada(q),
           \/ Aparte
           \/ \E w \in Worker : Escucha(w)
           \/ CaeStorage \/ VuelveStorage
           \/ \E w \in Worker : \E p \in Query : MasterAsigna(w, p)
           \/ \E w \in Worker : MasterPideDesalojo(w) \/ MasterRecibe(w) \/ MasterPierde(w)
    PROVE  Terminada(q)'
<1>0. /\ aMaster \in [Worker -> Seq(MsgAMaster)] /\ fin \in [Query -> Final \cup {SinFin}]
      /\ \A w \in Worker : TurnoBien(w)
  BY DEF Desalojos, VidasYTurnos, Base, TypeOK, MsgAMaster
<1>1. ASSUME fin' = fin, aMaster' = aMaster PROVE Terminada(q)'
  BY <1>1 DEF Terminada, ContestoFin
<1>2. ASSUME NEW w \in Worker, NEW c \in {"exito", "error", "baja"}
      PROVE  [w |-> w, como |-> c] # SinFin
  <2>1. [w |-> w, como |-> c].como = c /\ SinFin.como = "no"
    BY DEF SinFin
  <2> QED
    BY <2>1
<1>3. ASSUME NEW w \in Worker, MasterPierde(w) PROVE Terminada(q)'
  <2>1. aMaster' = aMaster /\ (fin[q] # SinFin => fin'[q] # SinFin)
    BY <1>0, <1>2, <1>3 DEF MasterPierde, canales
  <2> QED
    BY <2>1 DEF Terminada, ContestoFin
<1>4. ASSUME NEW w \in Worker, MasterRecibe(w) PROVE Terminada(q)'
  <2>1. fin[q] # SinFin => fin'[q] # SinFin
    BY <1>0, <1>2, <1>4 DEF MasterRecibe
  <2>2. ASSUME NEW v \in Worker, v # w, ContestoFin(v, q) PROVE ContestoFin(v, q)'
    BY <1>0, <1>4, <2>2 DEF MasterRecibe, ContestoFin
  <2>3. ASSUME ContestoFin(w, q) PROVE fin'[q] # SinFin
    <3>1. PICK s \in Seq(MsgAMaster) : s = aMaster[w]
      BY <1>0
    <3>2. s # <<>> /\ Len(s) = 1
      BY <1>0, <1>4, <3>1 DEF MasterRecibe, TurnoBien
    <3>3. DOMAIN s = 1..1 /\ Head(s) = s[1]
      BY <3>2, ColaMengua
    <3>4. s[1].op = "FIN" /\ s[1].q = q
      BY <2>3, <3>1, <3>3 DEF ContestoFin
    <3>5. fin' = [fin EXCEPT ![q] = [w |-> w, como |-> IF s[1].dato = 1 THEN "exito" ELSE "error"]]
      BY <1>4, <3>1, <3>3, <3>4 DEF MasterRecibe
    <3>6. PICK c \in {"exito", "error", "baja"} : c = (IF s[1].dato = 1 THEN "exito" ELSE "error")
      OBVIOUS
    <3>7. fin'[q] = [w |-> w, como |-> c]
      BY <1>0, <3>5, <3>6
    <3> QED
      BY <1>2, <3>7
  <2> QED
    BY <2>1, <2>2, <2>3 DEF Terminada
<1>5. CASE ~ \E w \in Worker : MasterRecibe(w) \/ MasterPierde(w)
  <2>1. fin' = fin /\ aMaster' = aMaster
    BY <1>5 DEF Escucha, CaeStorage, VuelveStorage, MasterAsigna, MasterPideDesalojo, Aparte, canales,
       master
  <2> QED
    BY <1>1, <2>1
<1> QED
  BY <1>3, <1>4, <1>5

\* They touch neither the threads nor Storage.
LEMMA EscritoOtros ==
    ASSUME Desalojos, NEW t \in Tag,
           \/ Aparte
           \/ \E w \in Worker : Escucha(w)
           \/ CaeStorage \/ VuelveStorage
           \/ \E w \in Worker : \E p \in Query : MasterAsigna(w, p)
           \/ \E w \in Worker : MasterPideDesalojo(w) \/ MasterRecibe(w) \/ MasterPierde(w)
    PROVE  /\ \A q \in Query : EscritoBien(q, t) => EscritoBien(q, t)'
           /\ ConfirmaAlguna(t) => ConfirmaAlguna(t)'
<1>1. UNCHANGED <<hilo, memoria>>
  BY OtrosQuietos DEF Aparte
<1>2. UNCHANGED <<archivo, disco>> /\ (cortes' = 0 => cortes = 0)
  <2>1. CASE CaeStorage
    <3>1. cortes \in 0..MaxCortes
      BY DEF Desalojos, Base, TypeOK
    <3> QED
      BY <2>1, <3>1 DEF CaeStorage
  <2>2. CASE ~ CaeStorage
    BY <2>2 DEF Escucha, VuelveStorage, MasterAsigna, MasterPideDesalojo, MasterRecibe,
       MasterPierde, storage, Aparte
  <2> QED
    BY <2>1, <2>2
<1>3. \A q \in Query : Terminada(q) => Terminada(q)'
  BY TerminadaOtros
<1> QED
  BY <1>1, <1>2, <1>3 DEF EscritoBien, ConfirmadaBien, SuyaBien, PendienteBien, EnMemoria, Tiene,
     Escrita, Modificada, EnInstruccion, ConfirmaAlguna

-----------------------------------------------------------------------------
(* The invariant.                                                          *)

Escritos ==
    /\ Desalojos /\ Nombres
    /\ integro => \A t \in Tag : ConfirmaAlguna(t) /\ \A q \in Query : EscritoBien(q, t)

\* At the start nothing is committed and nothing is in memory ...
LEMMA EscritosInicial ==
    ASSUME WorkerAssumption, Init
    PROVE  Escritos
<1>1. Desalojos /\ Nombres
  BY DesalojosInicial, NombresInicial
<1>2. ASSUME NEW t \in Tag PROVE ConfirmaAlguna(t) /\ \A q \in Query : EscritoBien(q, t)
  <2>1. archivo[t] # "COMMITED" /\ \A w \in Worker : memoria[w][t] = Nadie /\ hilo[w].paso = "libre"
    BY DEF Init, Libre
  <2> QED
    BY <2>1 DEF ConfirmaAlguna, EscritoBien, ConfirmadaBien, SuyaBien, PendienteBien, EnMemoria,
       EnInstruccion, Modificada
<1> QED
  BY <1>1, <1>2 DEF Escritos

\* ... and each step keeps the invariant.
LEMMA EscritosPaso ==
    ASSUME WorkerAssumption, UnEscritor, Escritos, [Next]_vars
    PROVE  Escritos'
<1>0. Desalojos /\ Nombres /\ Base /\ TypeOK
  BY DEF Escritos, Desalojos, Base
<1>1. Desalojos' /\ Nombres'
  BY <1>0, DesalojosPaso, NombresPaso
<1>2. SUFFICES ASSUME integro', NEW t \in Tag
               PROVE  ConfirmaAlguna(t)' /\ \A q \in Query : EscritoBien(q, t)'
  BY <1>1 DEF Escritos
<1>3. integro
  BY <1>0, <1>2, IntegroAntes DEF Base, HilosBien
<1>4. ConfirmaAlguna(t) /\ \A q \in Query : EscritoBien(q, t)
  BY <1>3 DEF Escritos
<1>5. ASSUME NEW w \in Worker, ProcesaQuery(w) \/ Sirve(w)
      PROVE  ConfirmaAlguna(t)' /\ \A q \in Query : EscritoBien(q, t)'
  <2>1. HaceAlgo(w)
    BY <1>0, <1>5, EfectoProcesa DEF Base, HilosBien
  <2>2. ConfirmaAlguna(t)'
    BY <1>0, <1>4, <2>1, AlgunaProcesa
  <2>3. ASSUME NEW q \in Query PROVE EscritoBien(q, t)'
    BY <1>0, <1>2, <1>3, <1>4, <2>1, EscritoProcesa
  <2> QED
    BY <2>2, <2>3
<1>6. CASE ~ \E w \in Worker : ProcesaQuery(w) \/ Sirve(w)
  <2>1. \/ Aparte
        \/ \E w \in Worker : Escucha(w)
        \/ CaeStorage \/ VuelveStorage
        \/ \E w \in Worker : \E p \in Query : MasterAsigna(w, p)
        \/ \E w \in Worker : MasterPideDesalojo(w) \/ MasterRecibe(w) \/ MasterPierde(w)
    BY <1>0, <1>6, PasoEs
  <2> QED
    BY <1>0, <1>4, <2>1, EscritoOtros
<1> QED
  BY <1>5, <1>6

\* A set of lines that is not empty has a last one.
LEMMA UltimaLinea ==
    ASSUME NEW n \in Nat, NEW S \in SUBSET (1..n), S # {}
    PROVE  \E x \in S : \A y \in S : y <= x
<1> DEFINE T == {n - x : x \in S}
<1>1. T \in SUBSET Nat
  <2>1. \A x \in S : n - x \in Nat
    OBVIOUS
  <2> QED
    BY <2>1
<1>2. \E m \in T : TRUE
  <2>1. PICK x \in S : TRUE
    OBVIOUS
  <2>2. n - x \in T
    BY <2>1
  <2> QED
    BY <2>2
<1>3. IsWellFoundedOn(OpToRel(<, Nat), Nat)
  BY NatLessThanWellFounded
<1>4. PICK m \in T : \A y \in T : m <= y
  <2> HIDE DEF T
  <2>1. T # {}
    BY <1>2
  <2>2. PICK m \in T : \A y \in T : ~ (<<y, m>> \in OpToRel(<, Nat))
    BY <1>1, <1>3, <2>1, WFMin
  <2>3. \A y \in T : ~ (y < m)
    BY <1>1, <2>2 DEF OpToRel
  <2> QED
    BY <1>1, <2>3
<1>5. PICK x \in S : m = n - x
  BY <1>4
<1>6. ASSUME NEW y \in S PROVE y <= x
  <2>1. n - y \in T
    OBVIOUS
  <2>2. n - x <= n - y
    BY <1>4, <1>5, <2>1
  <2> QED
    BY <2>2
<1> QED
  BY <1>6

\* Ultima is the last line of a script that writes the file:tag.
LEMMA UltimaEs ==
    ASSUME WorkerAssumption, NEW q \in Query, NEW t \in Tag, Escrituras(q, t) # {}
    PROVE  UltimaHasta(q, t, Len(Guion[q]), Ultima(q, t)) /\ Ultima(q, t) \in DOMAIN Guion[q]
<1>1. PICK n \in Nat : /\ n = Len(Guion[q]) /\ DOMAIN Guion[q] = 1..n
                      /\ Escrituras(q, t) \subseteq 1..n
  BY EscrituraEs
<1>2. \E x \in Escrituras(q, t) : \A y \in Escrituras(q, t) : y <= x
  BY <1>1, UltimaLinea
<1>3. Ultima(q, t) \in Escrituras(q, t) /\ \A y \in Escrituras(q, t) : y <= Ultima(q, t)
  BY <1>2 DEF Ultima
<1> QED
  BY <1>1, <1>3 DEF UltimaHasta

\* When each file:tag that is committed has one script that writes and commits
\* it, and for as long as Storage has not stopped, has had blocks and its requests
\* have not got in each other's way, its block keeps what that script wrote last,
\* for any scripts, Workers and evictions: the runs of a query that was evicted
\* leave pages behind that were written before the answer, so no flush of a later
\* query brings an old page back over what is to be committed.
THEOREM WorkerConfirma ==
    ASSUME UnEscritor
    PROVE  Spec => []ConfirmadoLoEscrito
<1>1. Init => Escritos
  BY WorkerAssumption, EscritosInicial
<1>2. Escritos /\ [Next]_vars => Escritos'
  BY WorkerAssumption, EscritosPaso
<1>3. Escritos => ConfirmadoLoEscrito
  <2>1. SUFFICES ASSUME Escritos, integro, cortes = 0, NEW q \in Query, NEW t \in Tag,
                        Escrituras(q, t) # {}, archivo[t] = "COMMITED"
                 PROVE  disco[t] = Guion[q][Ultima(q, t)].v
    BY DEF ConfirmadoLoEscrito
  <2>2. PICK p \in Query : Confirma(p, t)
    BY <2>1 DEF Escritos, ConfirmaAlguna
  <2>3. p = q
    BY <2>1, <2>2 DEF UnEscritor
  <2>4. ConfirmadaBien(q, t)
    BY <2>1, <2>2, <2>3 DEF Escritos, EscritoBien
  <2> QED
    BY <2>1, <2>4, WorkerAssumption, UltimaEs DEF ConfirmadaBien
<1> QED
  BY <1>1, <1>2, <1>3, PTL DEF Spec

\* What a script asks for can be done: its file:tags exist, it commits on its last
\* line, and no other script flushes or commits what it commits.
Realizables ==
    \A q \in Query : \A i \in DOMAIN Guion[q] :
        /\ Guion[q][i].op # "CREATE"
        /\ Guion[q][i].op \in {"TRUNCATE", "WRITE", "READ", "FLUSH", "COMMIT"}
           => Guion[q][i].t \in Existentes
        /\ Guion[q][i].op = "COMMIT" =>
             /\ i = Len(Guion[q])
             /\ \A p \in Query \ {q} : \A j \in DOMAIN Guion[p] :
                  Guion[p][j].op \in {"FLUSH", "COMMIT"} => Guion[p][j].t # Guion[q][i].t

ExistenBien == \A t \in Existentes : disco[t] # Nadie

\* Nothing is left to do but to receive the answer to the COMMIT and to end.
Tarde(w) ==
    \/ hilo[w].paso = "recibe" /\ ~ hilo[w].desaloja /\ hilo[w].op = "COMMIT"
    \/ hilo[w].paso = "linea" /\ ~ QuedanLineas(w)

\* Where a query is that may still run a line.
Pedida(w, q) == \E i \in DOMAIN aWorker[w] : aWorker[w][i].op = "INICIA" /\ aWorker[w][i].q = q
Desalojada(w, q) ==
    \E i \in DOMAIN aMaster[w] : aMaster[w][i].op = "DESALOJAR" /\ aMaster[w][i].q = q
PorCorrer(w, q) ==
    Pedida(w, q) \/ q \in enCola[w] \/ (hilo[w].q = q /\ ~ Tarde(w)) \/ Desalojada(w, q)
Vigente(q) == q \in espera \/ \E w \in Worker : PorCorrer(w, q)

ConfirmaBien(t) ==
    archivo[t] = "COMMITED" => \A q \in Query : Confirma(q, t) => ~ Vigente(q)

Cortada(w) == IF conexion[w] = "cortada" THEN 1 ELSE 0

CuestaBien(w) ==
    /\ hilo[w].paso = "recibe" /\ ~ hilo[w].desaloja => hilo[w].res # "NO"
    /\ \A i \in DOMAIN aMaster[w] : aMaster[w][i].op = "FIN" => aMaster[w][i].dato \in {0, 1}
    /\ Cardinality(Errores(w)) + Cortada(w) <= cortes

-----------------------------------------------------------------------------
(* What was committed is not run again.                                    *)

\* The query thread takes its query on and never back, and does not run the
\* COMMIT twice.
LEMMA VigenteProcesa ==
    ASSUME WorkerAssumption, Realizables, Desalojos, NEW w \in Worker, HaceAlgo(w),
           NEW q \in Query, PorCorrer(w, q)'
    PROVE  PorCorrer(w, q)
<1>0. /\ Base /\ TypeOK /\ HiloBien(w) /\ hilo \in [Worker -> Hilo] /\ q # NoQuery
      /\ enCola \in [Worker -> SUBSET Query] /\ aWorker \in [Worker -> Seq(MsgAWorker)]
      /\ aMaster \in [Worker -> Seq(MsgAMaster)] /\ TurnoBien(w)
  BY DEF Desalojos, VidasYTurnos, Base, HilosBien, TypeOK, MsgAWorker, MsgAMaster, WorkerAssumption
<1>1. aMaster[w] = <<>>
  BY <1>0, SinRespuesta
<1>2. ASSUME NEW p \in Query, HaceToma(w, p) PROVE PorCorrer(w, q)
  <2>1. /\ hilo'[w].q = p \/ hilo'[w].q = NoQuery
        /\ p \in enCola[w] /\ enCola'[w] \subseteq enCola[w] /\ UNCHANGED <<aWorker, aMaster>>
    BY <1>0, <1>2 DEF HaceToma, Libre
  <2> QED
    BY <1>0, <2>1 DEF PorCorrer, Pedida, Desalojada
<1>3. ASSUME HaceReconectaEnVano(w) PROVE PorCorrer(w, q)
  <2>1. /\ hilo'[w].q = NoQuery /\ enCola'[w] = {} /\ aWorker'[w] = <<>> /\ aMaster' = aMaster
    BY <1>0, <1>3 DEF HaceReconectaEnVano, Libre
  <2> QED
    BY <1>0, <1>1, <2>1 DEF PorCorrer, Pedida, Desalojada
<1>4. ASSUME UNCHANGED <<enCola, aWorker, aMaster>>,
             hilo'[w].q = q /\ ~ Tarde(w)' => hilo[w].q = q /\ ~ Tarde(w)
      PROVE  PorCorrer(w, q)
  BY <1>4 DEF PorCorrer, Pedida, Desalojada
<1>5. ASSUME HaceReconecta(w) \/ HaceVuelca(w) \/ HaceSirve(w) PROVE PorCorrer(w, q)
  <2>1. /\ UNCHANGED <<enCola, aWorker, aMaster>> /\ hilo[w].paso \in {"conecta", "vuelca", "pide"}
        /\ hilo'[w].q = hilo[w].q \/ hilo'[w].q = NoQuery
    BY <1>0, <1>5 DEF HaceReconecta, HaceVuelca, HaceSirve, Libre
  <2>2. ~ Tarde(w)
    BY <2>1 DEF Tarde
  <2> QED
    BY <1>0, <1>4, <2>1, <2>2
<1>6. ASSUME HaceDesaloja(w) \/ HacePideInstruccion(w) \/ HaceEjecuta(w) PROVE PorCorrer(w, q)
  <2>1. /\ UNCHANGED <<enCola, aWorker, aMaster>> /\ hilo[w].paso \in {"linea", "ejecuta"}
        /\ hilo'[w].q = hilo[w].q /\ QuedanLineas(w)
    BY <1>0, <1>6 DEF HaceDesaloja, HacePideInstruccion, HaceEjecuta
  <2>2. ~ Tarde(w)
    BY <2>1 DEF Tarde
  <2> QED
    BY <1>0, <1>4, <2>1, <2>2
<1>7. ASSUME HaceRecibeVolcado(w) PROVE PorCorrer(w, q)
  <2>1. /\ UNCHANGED <<enCola, aWorker, aMaster>> /\ hilo[w].paso = "recibe" /\ hilo[w].desaloja
        /\ hilo'[w].q = hilo[w].q
    BY <1>0, <1>7 DEF HaceRecibeVolcado
  <2>2. ~ Tarde(w)
    BY <2>1 DEF Tarde
  <2> QED
    BY <1>0, <1>4, <2>1, <2>2
<1>8. ASSUME NEW m \in MsgAMaster, aMaster' = [aMaster EXCEPT ![w] = Append(@, m)],
             hilo' = [hilo EXCEPT ![w] = Libre], UNCHANGED <<enCola, aWorker>>,
             m.op = "DESALOJAR" /\ m.q = q => hilo[w].q = q /\ ~ Tarde(w)
      PROVE  PorCorrer(w, q)
  <2>1. hilo'[w].q = NoQuery
    BY <1>0, <1>8 DEF Libre
  <2>2. PICK s \in Seq(MsgAMaster) : s = aMaster[w] /\ s = <<>> /\ aMaster'[w] = Append(s, m)
    BY <1>0, <1>1, <1>8
  <2>3. DOMAIN Append(s, m) = 1..(Len(s) + 1) /\ Append(s, m)[Len(s) + 1] = m
    BY ColaCrece
  <2>4. DOMAIN aMaster'[w] = 1..1 /\ aMaster'[w][1] = m
    BY <2>2, <2>3
  <2>5. Desalojada(w, q)' => m.op = "DESALOJAR" /\ m.q = q
    BY <2>4 DEF Desalojada
  <2> QED
    BY <1>0, <1>8, <2>1, <2>5 DEF PorCorrer, Pedida
<1>9. ASSUME HaceTermina(w) PROVE PorCorrer(w, q)
  <2>1. PICK m \in MsgAMaster : m = [op |-> "FIN", q |-> hilo[w].q, dato |-> 1]
    BY <1>9 DEF HaceTermina, MsgAMaster
  <2> QED
    BY <1>8, <1>9, <2>1 DEF HaceTermina
<1>10. ASSUME HaceContestaDesalojo(w) PROVE PorCorrer(w, q)
  <2>1. PICK m \in MsgAMaster : m = [op |-> "DESALOJAR", q |-> hilo[w].q, dato |-> hilo[w].pc]
    BY <1>0, <1>10, CampoHilo DEF HaceContestaDesalojo, MsgAMaster
  <2>2. ~ Tarde(w)
    BY <1>10 DEF HaceContestaDesalojo, Tarde
  <2> QED
    BY <1>8, <1>10, <2>1, <2>2 DEF HaceContestaDesalojo
<1>11. ASSUME HaceRecibe(w) PROVE PorCorrer(w, q)
  <2>1. CASE RecibeMal(w)
    <3>1. PICK m \in MsgAMaster : m = [op |-> "FIN", q |-> hilo[w].q, dato |-> 0]
      BY <1>11 DEF HaceRecibe, MsgAMaster
    <3> QED
      BY <1>8, <1>11, <2>1, <3>1 DEF HaceRecibe, RecibeMal
  <2>2. CASE RecibeBien(w)
    <3>1. /\ UNCHANGED <<enCola, aWorker, aMaster>> /\ hilo[w].paso = "recibe" /\ ~ hilo[w].desaloja
          /\ hilo'[w].q = hilo[w].q /\ hilo[w].q \in Query /\ hilo[w].op \in Pedidos
      BY <1>0, <1>11, <2>2 DEF HaceRecibe, RecibeBien
    <3>2. CASE hilo[w].op # "COMMIT"
      <4>1. ~ Tarde(w)
        BY <3>1, <3>2 DEF Tarde
      <4> QED
        BY <1>4, <3>1, <4>1
    <3>3. CASE hilo[w].op = "COMMIT"
      <4>1. QuedanLineas(w) /\ Pedido(Linea(w), w) = "COMMIT"
        BY <1>0, <3>1, <3>3 DEF HiloBien, EnPedido
      <4>2. PICK p \in Query, n \in Nat : p = hilo[w].q /\ n = hilo[w].pc
        BY <1>0, <3>1, CampoHilo
      <4>3. n + 1 \in DOMAIN Guion[p] /\ Linea(w) = Guion[p][n + 1] /\ Linea(w) \in Instruccion
        BY <1>0, <4>1, <4>2, LineaTipo DEF Linea
      <4>4. Guion[p][n + 1].op = "COMMIT"
        BY <4>1, <4>3, PedidoTipo
      <4>5. n + 1 = Len(Guion[p])
        BY <4>3, <4>4 DEF Realizables
      <4>6. hilo'[w].paso = "linea" /\ hilo'[w].pc = n + 1 /\ hilo'[w].q = p
        BY <1>0, <2>2, <3>1, <3>3, <4>2 DEF RecibeBien
      <4>7. Tarde(w)'
        BY <4>5, <4>6 DEF Tarde, QuedanLineas
      <4> QED
        BY <1>4, <3>1, <4>7
    <3> QED
      BY <3>2, <3>3
  <2> QED
    BY <1>11, <2>1, <2>2 DEF HaceRecibe
<1> QED
  BY <1>2, <1>3, <1>5, <1>6, <1>7, <1>9, <1>10, <1>11 DEF HaceAlgo

\* A worker that a step does not touch.
LEMMA PorCorrerIgual ==
    ASSUME NEW v \in Worker, NEW q \in Query, aWorker'[v] = aWorker[v], enCola'[v] = enCola[v],
           hilo'[v] = hilo[v], aMaster'[v] = aMaster[v]
    PROVE  PorCorrer(v, q)' <=> PorCorrer(v, q)
BY DEF PorCorrer, Pedida, Desalojada, Tarde, QuedanLineas

\* The other steps move a query from one of its places to another.
LEMMA VigenteOtros ==
    ASSUME Desalojos, NEW q \in Query, Vigente(q)',
           \/ Aparte
           \/ \E w \in Worker : Escucha(w)
           \/ CaeStorage \/ VuelveStorage
           \/ \E w \in Worker : \E p \in Query : MasterAsigna(w, p)
           \/ \E w \in Worker : MasterPideDesalojo(w) \/ MasterRecibe(w) \/ MasterPierde(w)
    PROVE  Vigente(q)
<1>0. /\ enCola \in [Worker -> SUBSET Query] /\ aWorker \in [Worker -> Seq(MsgAWorker)]
      /\ aMaster \in [Worker -> Seq(MsgAMaster)] /\ asignada \in [Worker -> Query \cup {NoQuery}]
  BY DEF Desalojos, Base, TypeOK, MsgAWorker, MsgAMaster
<1>1. ASSUME UNCHANGED <<espera, aWorker, enCola, hilo, aMaster>> PROVE Vigente(q)
  BY <1>1, PorCorrerIgual DEF Vigente
<1>2. ASSUME NEW w \in Worker, Escucha(w) PROVE Vigente(q)
  <2>1. PICK s \in Seq(MsgAWorker) : s = aWorker[w] /\ s # <<>>
    BY <1>0, <1>2 DEF Escucha
  <2>2. /\ aWorker'[w] = Tail(s) /\ UNCHANGED <<espera, hilo, aMaster>>
        /\ \/ Head(s).op = "INICIA" /\ enCola'[w] = enCola[w] \cup {Head(s).q}
           \/ enCola'[w] = enCola[w]
        /\ \A v \in Worker \ {w} : aWorker'[v] = aWorker[v] /\ enCola'[v] = enCola[v]
    BY <1>0, <1>2, <2>1 DEF Escucha, master
  <2>3. 1 \in DOMAIN s /\ Head(s) = s[1] /\ \A i \in DOMAIN Tail(s) : i + 1 \in DOMAIN s
                                                               /\ Tail(s)[i] = s[i + 1]
    <3>1. /\ DOMAIN Tail(s) = 1..(Len(s) - 1) /\ DOMAIN s = 1..Len(s) /\ Len(s) \in Nat \ {0}
          /\ Head(s) = s[1] /\ \A i \in DOMAIN Tail(s) : Tail(s)[i] = s[i + 1]
      BY <2>1, ColaMengua
    <3> QED
      BY <3>1
  <2>4. Pedida(w, q)' => Pedida(w, q)
    BY <2>1, <2>2, <2>3 DEF Pedida
  <2>5. q \in enCola'[w] => Pedida(w, q) \/ q \in enCola[w]
    BY <2>1, <2>2, <2>3 DEF Pedida
  <2>6. PorCorrer(w, q)' => PorCorrer(w, q)
    BY <2>2, <2>4, <2>5 DEF PorCorrer, Desalojada, Tarde, QuedanLineas
  <2> QED
    BY <2>2, <2>6, PorCorrerIgual DEF Vigente
<1>3. ASSUME NEW w \in Worker, NEW m \in MsgAWorker,
             aWorker' = [aWorker EXCEPT ![w] = Append(@, m)], UNCHANGED <<enCola, hilo, aMaster>>,
             espera' \subseteq espera,
             m.op = "INICIA" /\ m.q = q => q \in espera
      PROVE  Vigente(q)
  <2>1. PICK s \in Seq(MsgAWorker) : s = aWorker[w] /\ aWorker'[w] = Append(s, m)
    BY <1>0, <1>3
  <2>2. /\ DOMAIN Append(s, m) = 1..(Len(s) + 1) /\ DOMAIN s = 1..Len(s) /\ Len(s) \in Nat
        /\ Append(s, m)[Len(s) + 1] = m /\ \A i \in DOMAIN s : Append(s, m)[i] = s[i]
    BY ColaCrece
  <2>3. \A i \in DOMAIN Append(s, m) : i \in DOMAIN s \/ i = Len(s) + 1
    BY <2>2
  <2>4. Pedida(w, q)' => Pedida(w, q) \/ q \in espera
    BY <1>3, <2>1, <2>2, <2>3 DEF Pedida
  <2>5. PorCorrer(w, q)' => PorCorrer(w, q) \/ q \in espera
    BY <1>3, <2>4 DEF PorCorrer, Desalojada, Tarde, QuedanLineas
  <2>6. \A v \in Worker \ {w} : aWorker'[v] = aWorker[v]
    BY <1>0, <1>3
  <2> QED
    BY <1>3, <2>5, <2>6, PorCorrerIgual DEF Vigente
<1>4. ASSUME NEW w \in Worker, NEW p \in Query, MasterAsigna(w, p) PROVE Vigente(q)
  <2>1. PICK m \in MsgAWorker : m = [op |-> "INICIA", q |-> p]
    BY DEF MsgAWorker
  <2> QED
    BY <1>3, <1>4, <2>1 DEF MasterAsigna, MasterEnvia
<1>5. ASSUME NEW w \in Worker, MasterPideDesalojo(w) PROVE Vigente(q)
  <2>1. PICK m \in MsgAWorker : m = [op |-> "DESALOJAR", q |-> asignada[w]]
    BY <1>0, <1>5 DEF MsgAWorker, MasterPideDesalojo
  <2> QED
    BY <1>3, <1>5, <2>1 DEF MasterPideDesalojo, MasterEnvia
<1>6. ASSUME NEW w \in Worker, MasterRecibe(w) PROVE Vigente(q)
  <2>1. PICK s \in Seq(MsgAMaster) : s = aMaster[w] /\ s # <<>>
    BY <1>0, <1>6 DEF MasterRecibe
  <2>2. /\ aMaster'[w] = Tail(s) /\ UNCHANGED <<hilo, aWorker, enCola>>
        /\ \/ Head(s).op = "DESALOJAR" /\ espera' = espera \cup {Head(s).q}
           \/ espera' = espera
        /\ \A v \in Worker \ {w} : aMaster'[v] = aMaster[v]
    BY <1>0, <1>6, <2>1 DEF MasterRecibe
  <2>3. 1 \in DOMAIN s /\ Head(s) = s[1] /\ \A i \in DOMAIN Tail(s) : i + 1 \in DOMAIN s
                                                               /\ Tail(s)[i] = s[i + 1]
    <3>1. /\ DOMAIN Tail(s) = 1..(Len(s) - 1) /\ DOMAIN s = 1..Len(s) /\ Len(s) \in Nat \ {0}
          /\ Head(s) = s[1] /\ \A i \in DOMAIN Tail(s) : Tail(s)[i] = s[i + 1]
      BY <2>1, ColaMengua
    <3> QED
      BY <3>1
  <2>4. Desalojada(w, q)' => Desalojada(w, q)
    BY <2>1, <2>2, <2>3 DEF Desalojada
  <2>5. q \in espera' => q \in espera \/ Desalojada(w, q)
    BY <2>1, <2>2, <2>3 DEF Desalojada
  <2>6. PorCorrer(w, q)' => PorCorrer(w, q)
    BY <2>2, <2>4 DEF PorCorrer, Pedida, Tarde, QuedanLineas
  <2>7. Desalojada(w, q) => PorCorrer(w, q)
    BY DEF PorCorrer
  <2> QED
    BY <2>2, <2>5, <2>6, <2>7, PorCorrerIgual DEF Vigente
<1>7. ASSUME \/ Aparte \/ CaeStorage \/ VuelveStorage
             \/ \E w \in Worker : MasterPierde(w)
      PROVE  Vigente(q)
  BY <1>1, <1>7 DEF Aparte, CaeStorage, VuelveStorage, MasterPierde, canales, master
<1> QED
  BY <1>2, <1>4, <1>5, <1>6, <1>7

\* A script that commits a file:tag has then nothing left to run.
LEMMA ConfirmaProcesa ==
    ASSUME WorkerAssumption, Realizables, Desalojos, Nombres, NEW w \in Worker, HaceAlgo(w),
           NEW t \in Tag, ConfirmaBien(t)
    PROVE  ConfirmaBien(t)'
<1>0. /\ Base /\ hilo \in [Worker -> Hilo] /\ NoQuery \notin Query
      /\ \A v \in Worker : NombreBien(v) /\ AsignaBien(v) /\ TurnoBien(v) /\ HiloBien(v)
  BY DEF Desalojos, VidasYTurnos, Base, HilosBien, TypeOK, Nombres, WorkerAssumption
<1>1. SUFFICES ASSUME archivo'[t] = "COMMITED", NEW q \in Query, Confirma(q, t), Vigente(q)'
               PROVE  FALSE
  BY DEF ConfirmaBien
<1>2. Vigente(q)
  <2>1. PorCorrer(w, q)' => PorCorrer(w, q)
    BY VigenteProcesa
  <2>2. \A v \in Worker \ {w} : PorCorrer(v, q)' <=> PorCorrer(v, q)
    BY <1>0, ProcesaAjeno, PorCorrerIgual
  <2>3. espera' = espera
    BY <1>0, ProcesaAjeno
  <2> QED
    BY <1>1, <2>1, <2>2, <2>3 DEF Vigente
<1>3. archivo[t] # "COMMITED"
  BY <1>1, <1>2 DEF ConfirmaBien
<1>4. /\ HaceSirve(w) /\ hilo[w].op = "COMMIT" /\ hilo[w].q \in Query /\ EnInstruccion(w)
      /\ hilo[w].pc + 1 \in DOMAIN Guion[hilo[w].q]
      /\ Guion[hilo[w].q][hilo[w].pc + 1].op = "COMMIT"
      /\ Guion[hilo[w].q][hilo[w].pc + 1].t = t
  BY <1>0, <1>1, <1>3, QuienConfirma
<1>5. hilo[w].q = q
  <2>1. PICK p \in Query : p = hilo[w].q
    BY <1>4
  <2>2. PICK k \in DOMAIN Guion[p] : Guion[p][k].op = "COMMIT" /\ Guion[p][k].t = t
    BY <1>4, <2>1
  <2>3. PICK j \in DOMAIN Guion[q] : Guion[q][j].op = "COMMIT" /\ Guion[q][j].t = t
    BY <1>1 DEF Confirma
  <2> QED
    BY <2>1, <2>2, <2>3 DEF Realizables
<1>6. /\ hilo[w].paso = "pide" /\ UNCHANGED <<espera, enCola, aWorker, aMaster>>
      /\ hilo'[w].paso = "recibe" /\ hilo'[w].op = "COMMIT" /\ ~ hilo'[w].desaloja
      /\ \A v \in Worker \ {w} : hilo'[v] = hilo[v]
  BY <1>0, <1>4 DEF HaceSirve, EnInstruccion
<1>7. /\ asignada[w] = q /\ q # NoQuery /\ q \notin espera
      /\ \A v \in Worker : asignada[v] = q => v = w
  BY <1>0, <1>5, <1>6 DEF NombreBien, AsignaBien
<1>8. ~ PorCorrer(w, q)'
  <2>1. Tarde(w)'
    BY <1>6 DEF Tarde
  <2>2. enCola[w] = {} /\ SinOrden(w) /\ aMaster[w] = <<>>
    BY <1>0, <1>6 DEF TurnoBien
  <2>3. ~ Desalojada(w, q)' /\ ~ Pedida(w, q)'
    BY <1>6, <2>2 DEF Desalojada, Pedida, SinOrden
  <2> QED
    BY <1>6, <2>1, <2>2, <2>3 DEF PorCorrer
<1>9. ASSUME NEW v \in Worker, v # w PROVE ~ PorCorrer(v, q)'
  <2>1. asignada[v] # q
    BY <1>7, <1>9
  <2>2. ~ Pedida(v, q) /\ q \notin enCola[v] /\ ~ Desalojada(v, q)
    BY <1>0, <2>1 DEF NombreBien, Pedida, Desalojada
  <2>3. hilo[v].q # q
    BY <1>0, <2>1 DEF NombreBien, HiloBien, Libre
  <2> QED
    BY <1>6, <1>9, <2>2, <2>3 DEF PorCorrer, Pedida, Desalojada
<1> QED
  BY <1>1, <1>6, <1>7, <1>8, <1>9 DEF Vigente

-----------------------------------------------------------------------------
(* No request of an instruction is refused.                                *)

\* The file:tags are there, and what a query writes is not committed while it runs.
LEMMA NuncaRechaza ==
    ASSUME WorkerAssumption, Realizables, Desalojos, integro, ExistenBien,
           \A t \in Tag : ConfirmaBien(t) /\ ConfirmaAlguna(t), NEW w \in Worker,
           hilo[w].paso = "pide", ~ hilo[w].desaloja
    PROVE  ~ Rechazado(hilo[w].op, hilo[w].t)
<1>0. /\ TypeOK /\ HiloBien(w) /\ \A t \in Tag : DiscoBien(t) /\ hilo[w] \in Hilo
      /\ \A t \in Tag : archivo[t] \in {"NO", "WORK_IN_PROGRESS", "COMMITED"}
  BY DEF Desalojos, DiscosBien, Base, HilosBien, TypeOK
<1>1. PICK op \in Pedidos, u \in Tag, q \in Query, n \in Nat :
        op = hilo[w].op /\ u = hilo[w].t /\ q = hilo[w].q /\ n = hilo[w].pc
  BY <1>0, CampoHilo DEF HiloBien, EnPedido
<1>2. QuedanLineas(w) /\ op = Pedido(Linea(w), w) /\ u = Linea(w).t
  BY <1>0, <1>1 DEF HiloBien, EnPedido
<1>3. n + 1 \in DOMAIN Guion[q] /\ Linea(w) = Guion[q][n + 1] /\ Linea(w) \in Instruccion
  BY <1>0, <1>1, <1>2, LineaTipo DEF Linea
<1>4. PICK k \in DOMAIN Guion[q] : Linea(w) = Guion[q][k]
  BY <1>3
<1>5. /\ Linea(w).op \in {"CREATE", "TRUNCATE", "WRITE", "READ", "FLUSH", "COMMIT"}
      /\ op = "ESCRIBIR" => Linea(w).op \in {"FLUSH", "COMMIT"} /\ Modificada(w, u)
      /\ op = "CREATE" => Linea(w).op = "CREATE"
  <2>1. op # "-"
    BY <1>1 DEF Pedidos
  <2> QED
    BY <1>2, <1>3, <2>1, PedidoTipo
<1>6. Linea(w).op # "CREATE" /\ u \in Existentes
  BY <1>2, <1>4, <1>5 DEF Realizables
<1>7. disco[u] # Nadie /\ archivo[u] # "NO"
  BY <1>0, <1>1, <1>6 DEF ExistenBien, DiscoBien
<1>8. ASSUME op = "ESCRIBIR" PROVE archivo[u] # "COMMITED"
  <2>1. SUFFICES ASSUME archivo[u] = "COMMITED" PROVE FALSE
    OBVIOUS
  <2>2. PICK p \in Query : Confirma(p, u)
    BY <1>1, <2>1 DEF ConfirmaAlguna
  <2>3. PICK i \in DOMAIN Guion[p] : Guion[p][i].op = "COMMIT" /\ Guion[p][i].t = u
    BY <2>2 DEF Confirma
  <2>4. p = q
    BY <1>2, <1>4, <1>5, <1>8, <2>3 DEF Realizables
  <2>5. ~ PorCorrer(w, q)
    BY <1>1, <2>1, <2>2, <2>4 DEF ConfirmaBien, Vigente
  <2>6. Tarde(w)
    BY <1>1, <2>5 DEF PorCorrer
  <2> QED
    BY <2>6 DEF Tarde
<1> QED
  BY <1>0, <1>1, <1>5, <1>6, <1>7, <1>8 DEF Rechazado

-----------------------------------------------------------------------------
(* What a stop costs.                                                      *)

\* The queries that a worker has failed are queries, and finitely many.
LEMMA ErroresSon ==
    ASSUME WorkerAssumption, TypeOK, NEW w \in Worker
    PROVE  /\ Errores(w) \subseteq Query /\ IsFiniteSet(Errores(w))
           /\ Cardinality(Errores(w)) \in Nat
<1>1. \A i \in DOMAIN aMaster[w] : aMaster[w][i].q \in Query
  <2>1. PICK s \in Seq(MsgAMaster) : s = aMaster[w]
    BY DEF TypeOK, MsgAMaster
  <2>2. \A i \in DOMAIN s : s[i] \in MsgAMaster
    OBVIOUS
  <2> QED
    BY <2>1, <2>2 DEF MsgAMaster
<1>2. Errores(w) \subseteq Query
  BY <1>1 DEF Errores
<1> QED
  BY <1>2, FS_Subset, FS_CardinalityType DEF WorkerAssumption

\* A step that adds no failure and cuts no connection.
LEMMA CuestaSigue ==
    ASSUME WorkerAssumption, TypeOK, TypeOK', NEW w \in Worker, CuestaBien(w),
           hilo'[w].paso = "recibe" /\ ~ hilo'[w].desaloja => hilo'[w].res # "NO",
           \A i \in DOMAIN aMaster'[w] :
             aMaster'[w][i].op = "FIN" => aMaster'[w][i].dato \in {0, 1},
           Errores(w)' \subseteq Errores(w), Cortada(w)' <= Cortada(w), cortes <= cortes'
    PROVE  CuestaBien(w)'
<1>1. Cardinality(Errores(w)') <= Cardinality(Errores(w))
  BY ErroresSon, FS_Subset
<1>2. Cardinality(Errores(w)) \in Nat /\ Cardinality(Errores(w)') \in Nat
  <2>1. Errores(w)' \subseteq Query
    BY ErroresSon
  <2> QED
    BY <2>1, ErroresSon, FS_Subset, FS_CardinalityType DEF WorkerAssumption
<1>3. Cortada(w) \in {0, 1} /\ Cortada(w)' \in {0, 1} /\ cortes \in Nat /\ cortes' \in Nat
  BY DEF Cortada, TypeOK, WorkerAssumption
<1>4. Cardinality(Errores(w)') + Cortada(w)' <= cortes'
  BY <1>1, <1>2, <1>3 DEF CuestaBien
<1> QED
  BY <1>4 DEF CuestaBien

\* A worker that has answered nothing yet answers.
LEMMA ErroresContesta ==
    ASSUME NEW w \in Worker, NEW m \in MsgAMaster, aMaster \in [Worker -> Seq(MsgAMaster)],
           aMaster[w] = <<>>, aMaster' = [aMaster EXCEPT ![w] = Append(@, m)], fin' = fin
    PROVE  /\ \A i \in DOMAIN aMaster'[w] : aMaster'[w][i] = m
           /\ Errores(w)' \subseteq Errores(w) \cup {m.q}
           /\ ~ (m.op = "FIN" /\ m.dato = 0) => Errores(w)' \subseteq Errores(w)
<1>1. PICK s \in Seq(MsgAMaster) : s = aMaster[w] /\ s = <<>> /\ aMaster'[w] = Append(s, m)
  OBVIOUS
<1>2. DOMAIN Append(s, m) = 1..(Len(s) + 1) /\ Append(s, m)[Len(s) + 1] = m
  BY ColaCrece
<1>3. DOMAIN aMaster'[w] = 1..1 /\ aMaster'[w][1] = m
  BY <1>1, <1>2
<1>4. \A i \in DOMAIN aMaster'[w] : aMaster'[w][i] = m
  BY <1>3
<1> QED
  BY <1>4 DEF Errores

\* A step that neither answers nor ends a query.
LEMMA CuestaQuieta ==
    ASSUME WorkerAssumption, TypeOK, TypeOK', NEW w \in Worker, CuestaBien(w), fin' = fin,
           aMaster'[w] = aMaster[w], Cortada(w)' <= Cortada(w), cortes' = cortes,
           hilo'[w].paso = "recibe" /\ ~ hilo'[w].desaloja => hilo'[w].res # "NO"
    PROVE  CuestaBien(w)'
<1>1. Errores(w)' = Errores(w)
  BY DEF Errores
<1>2. cortes \in Nat
  BY DEF TypeOK, WorkerAssumption
<1> QED
  BY <1>1, <1>2, CuestaSigue DEF CuestaBien

\* A query fails only because the connection is cut, and closes it.
LEMMA CuestaRecibe ==
    ASSUME WorkerAssumption, TypeOK, TypeOK', NEW w \in Worker, CuestaBien(w), VidaBien(w),
           HaceRecibe(w), RecibeMal(w), aMaster[w] = <<>>
    PROVE  CuestaBien(w)'
<1>0. /\ aMaster \in [Worker -> Seq(MsgAMaster)] /\ hilo[w] \in Hilo /\ hilo \in [Worker -> Hilo]
      /\ conexion[w] \in {"abierta", "cortada", "cerrada"} /\ cortes \in Nat
  <2>1. cortes \in 0..MaxCortes /\ MaxCortes \in Nat
    BY DEF TypeOK, WorkerAssumption
  <2>2. /\ aMaster \in [Worker -> Seq(MsgAMaster)] /\ hilo \in [Worker -> Hilo]
        /\ conexion \in [Worker -> {"abierta", "cortada", "cerrada"}]
    BY DEF TypeOK, MsgAMaster
  <2> QED
    BY <2>1, <2>2
<1>1. PICK m \in MsgAMaster : m = [op |-> "FIN", q |-> hilo[w].q, dato |-> 0]
  BY DEF HaceRecibe, MsgAMaster
<1>2. /\ aMaster' = [aMaster EXCEPT ![w] = Append(@, m)] /\ hilo'[w] = Libre
      /\ UNCHANGED <<fin, cortes>>
  BY <1>0, <1>1 DEF RecibeMal, HaceRecibe
<1>3. /\ \A i \in DOMAIN aMaster'[w] : aMaster'[w][i] = m
      /\ Errores(w)' \subseteq Errores(w) \cup {m.q}
  BY <1>0, <1>2, ErroresContesta
<1>4. Cortada(w) = 1 /\ Cortada(w)' = 0
  <2>1. hilo[w].res # "NO" /\ hilo[w].res \in {"-", "OK", "NO"} /\ conexion[w] # "cerrada"
    BY <1>0, CampoHilo DEF CuestaBien, VidaBien, HaceRecibe, EnInstruccion
  <2>2. conexion[w] = "cortada"
    BY <1>0, <2>1 DEF VidaBien, HaceRecibe, RecibeMal
  <2>3. conexion'[w] = "cerrada"
    BY <2>2 DEF HaceRecibe
  <2> QED
    BY <2>2, <2>3 DEF Cortada
<1>5. Cardinality(Errores(w)') <= Cardinality(Errores(w)) + 1 /\ Cardinality(Errores(w)') \in Nat
  <2>1. IsFiniteSet(Errores(w)) /\ Cardinality(Errores(w)) \in Nat
    BY ErroresSon
  <2>2. /\ IsFiniteSet(Errores(w) \cup {m.q})
        /\ Cardinality(Errores(w) \cup {m.q})
             = (IF m.q \in Errores(w) THEN Cardinality(Errores(w)) ELSE Cardinality(Errores(w)) + 1)
    BY <2>1, FS_AddElement
  <2>3. Cardinality(Errores(w)') <= Cardinality(Errores(w) \cup {m.q})
    BY <1>3, <2>2, FS_Subset
  <2>4. IsFiniteSet(Errores(w)')
    BY <1>3, <2>2, FS_Subset
  <2>5. Cardinality(Errores(w)') \in Nat
    BY <2>4, FS_CardinalityType
  <2> QED
    BY <2>1, <2>2, <2>3, <2>5
<1>6. Cardinality(Errores(w)') + Cortada(w)' <= cortes'
  <2>1. Cardinality(Errores(w)) \in Nat
    BY ErroresSon
  <2> QED
    BY <1>0, <1>2, <1>4, <1>5, <2>1 DEF CuestaBien
<1>7. hilo'[w].paso # "recibe" /\ m.dato = 0
  BY <1>1, <1>2 DEF Libre
<1> QED
  BY <1>3, <1>6, <1>7 DEF CuestaBien

\* A step of the query thread.
LEMMA CuestaProcesa ==
    ASSUME WorkerAssumption, Realizables, Desalojos, TypeOK', integro, integro', ExistenBien,
           \A t \in Tag : ConfirmaBien(t) /\ ConfirmaAlguna(t), NEW w \in Worker, HaceAlgo(w),
           CuestaBien(w)
    PROVE  CuestaBien(w)'
<1>0. /\ Base /\ TypeOK /\ hilo \in [Worker -> Hilo] /\ aMaster \in [Worker -> Seq(MsgAMaster)]
      /\ conexion \in [Worker -> {"abierta", "cortada", "cerrada"}]
      /\ VidaBien(w) /\ HiloBien(w) /\ aMaster[w] = <<>> /\ UNCHANGED <<fin, cortes>>
  <2>1. Base /\ TypeOK /\ VidaBien(w) /\ TurnoBien(w) /\ HiloBien(w)
    BY DEF Desalojos, Base, VidasYTurnos, HilosBien
  <2>2. aMaster[w] = <<>> /\ UNCHANGED <<fin, cortes>>
    BY <2>1, SinRespuesta, ProcesaAjeno
  <2> QED
    BY <2>1, <2>2 DEF TypeOK, MsgAMaster
<1>1. ASSUME aMaster' = aMaster, conexion'[w] \in {conexion[w], "abierta", "cerrada"},
             hilo'[w].paso # "recibe" \/ hilo'[w].desaloja \/ hilo'[w].res # "NO"
      PROVE  CuestaBien(w)'
  <2>1. Cortada(w)' <= Cortada(w)
    BY <1>1 DEF Cortada
  <2> QED
    BY <1>0, <1>1, <2>1, CuestaQuieta
<1>2. ASSUME NEW q \in Query, HaceToma(w, q) PROVE CuestaBien(w)'
  <2>1. UNCHANGED <<aMaster, conexion>> /\ hilo'[w].paso # "recibe"
    BY <1>0, <1>2 DEF HaceToma, Libre
  <2> QED
    BY <1>1, <2>1
<1>3. ASSUME HaceReconecta(w) \/ HaceReconectaEnVano(w) PROVE CuestaBien(w)'
  <2>1. /\ aMaster' = aMaster /\ conexion'[w] \in {"abierta", "cerrada"}
        /\ hilo'[w].paso # "recibe"
    BY <1>0, <1>3 DEF HaceReconecta, HaceReconectaEnVano, Libre
  <2> QED
    BY <1>1, <2>1
<1>4. ASSUME HaceDesaloja(w) \/ HacePideInstruccion(w) \/ HaceEjecuta(w) \/ HaceVuelca(w)
      PROVE  CuestaBien(w)'
  <2>1. UNCHANGED <<aMaster, conexion>> /\ hilo'[w].paso # "recibe"
    BY <1>0, <1>4 DEF HaceDesaloja, HacePideInstruccion, HaceEjecuta, HaceVuelca
  <2> QED
    BY <1>1, <2>1
<1>5. ASSUME HaceSirve(w) PROVE CuestaBien(w)'
  <2>1. /\ UNCHANGED <<aMaster, conexion>> /\ hilo[w].paso = "pide"
        /\ hilo'[w].desaloja = hilo[w].desaloja
        /\ hilo'[w].res = "NO" => Rechazado(hilo[w].op, hilo[w].t)
    BY <1>0, <1>5 DEF HaceSirve
  <2>2. hilo'[w].desaloja \/ hilo'[w].res # "NO"
    BY <2>1, NuncaRechaza
  <2> QED
    BY <1>1, <2>1, <2>2
<1>6. ASSUME HaceRecibe(w) PROVE CuestaBien(w)'
  <2>1. CASE RecibeMal(w)
    BY <1>0, <1>6, <2>1, CuestaRecibe
  <2>2. CASE RecibeBien(w)
    <3>1. aMaster' = aMaster /\ hilo'[w].paso # "recibe"
      BY <1>0, <2>2 DEF RecibeBien
    <3>2. conexion'[w] \in {"abierta", "cerrada"}
      BY <1>6 DEF HaceRecibe
    <3> QED
      BY <1>1, <3>1, <3>2
  <2> QED
    BY <1>6, <2>1, <2>2 DEF HaceRecibe
<1>7. ASSUME HaceRecibeVolcado(w) PROVE CuestaBien(w)'
  <2>1. aMaster' = aMaster /\ hilo'[w].paso # "recibe" /\ conexion'[w] \in {"abierta", "cerrada"}
    BY <1>0, <1>7 DEF HaceRecibeVolcado
  <2> QED
    BY <1>1, <2>1
<1>8. ASSUME NEW m \in MsgAMaster, aMaster' = [aMaster EXCEPT ![w] = Append(@, m)],
             hilo' = [hilo EXCEPT ![w] = Libre], conexion' = conexion,
             m.op = "FIN" => m.dato = 1
      PROVE  CuestaBien(w)'
  <2>0. aMaster' = [aMaster EXCEPT ![w] = Append(@, m)] /\ fin' = fin /\ m \in MsgAMaster
        /\ ~ (m.op = "FIN" /\ m.dato = 0)
    BY <1>0, <1>8
  <2>1. /\ \A i \in DOMAIN aMaster'[w] : aMaster'[w][i] = m
        /\ Errores(w)' \subseteq Errores(w)
    BY <1>0, <2>0, ErroresContesta
  <2>2. hilo'[w].paso # "recibe" /\ Cortada(w)' = Cortada(w) /\ cortes' = cortes
    BY <1>0, <1>8 DEF Libre, Cortada
  <2>3. Cortada(w) \in Nat /\ cortes \in Nat
    <3>1. cortes \in 0..MaxCortes /\ MaxCortes \in Nat
      BY <1>0 DEF TypeOK, WorkerAssumption
    <3> QED
      BY <3>1 DEF Cortada
  <2>4. \A i \in DOMAIN aMaster'[w] : aMaster'[w][i].op = "FIN" => aMaster'[w][i].dato \in {0, 1}
    BY <1>8, <2>1
  <2>5. Cortada(w)' <= Cortada(w) /\ cortes <= cortes'
    BY <2>2, <2>3
  <2> QED
    BY <1>0, <2>1, <2>2, <2>4, <2>5, CuestaSigue
<1>9. ASSUME HaceTermina(w) PROVE CuestaBien(w)'
  <2>1. PICK m \in MsgAMaster : m = [op |-> "FIN", q |-> hilo[w].q, dato |-> 1]
    BY <1>9 DEF HaceTermina, MsgAMaster
  <2> QED
    BY <1>8, <1>9, <2>1 DEF HaceTermina
<1>10. ASSUME HaceContestaDesalojo(w) PROVE CuestaBien(w)'
  <2>1. PICK m \in MsgAMaster : m = [op |-> "DESALOJAR", q |-> hilo[w].q, dato |-> hilo[w].pc]
    BY <1>0, <1>10, CampoHilo DEF HaceContestaDesalojo, MsgAMaster
  <2> QED
    BY <1>8, <1>10, <2>1 DEF HaceContestaDesalojo
<1> QED
  BY <1>2, <1>3, <1>4, <1>5, <1>6, <1>7, <1>9, <1>10 DEF HaceAlgo

\* The Master counts a failure once: it takes it from the answer.
LEMMA ErroresRecibe ==
    ASSUME TypeOK, NEW w \in Worker, MasterRecibe(w), CuestaBien(w), NEW u \in Worker
    PROVE  /\ Errores(u)' \subseteq Errores(u)
           /\ \A i \in DOMAIN aMaster'[u] :
                \E j \in DOMAIN aMaster[u] : aMaster'[u][i] = aMaster[u][j]
<1>0. aMaster \in [Worker -> Seq(MsgAMaster)] /\ fin \in [Query -> Final \cup {SinFin}]
  BY DEF TypeOK, MsgAMaster
<1>1. PICK s \in Seq(MsgAMaster) : s = aMaster[w] /\ s # <<>>
  BY <1>0 DEF MasterRecibe
<1>2. PICK m \in MsgAMaster : m = Head(s)
  BY <1>1, ColaMengua
<1>3. /\ DOMAIN Tail(s) = 1..(Len(s) - 1) /\ DOMAIN s = 1..Len(s) /\ Len(s) \in Nat \ {0}
      /\ m = s[1] /\ \A i \in DOMAIN Tail(s) : Tail(s)[i] = s[i + 1]
  BY <1>1, <1>2, ColaMengua
<1>4. 1 \in DOMAIN s /\ \A i \in DOMAIN Tail(s) : i + 1 \in DOMAIN s
  BY <1>3
<1>5. /\ aMaster'[w] = Tail(s) /\ \A v \in Worker \ {w} : aMaster'[v] = aMaster[v]
      /\ \/ m.op = "DESALOJAR" /\ fin' = fin
         \/ /\ m.op = "FIN" /\ m.q \in Query
            /\ fin' = [fin EXCEPT ![m.q] =
                         [w |-> w, como |-> IF m.dato = 1 THEN "exito" ELSE "error"]]
  BY <1>0, <1>1, <1>2 DEF MasterRecibe, MsgAMaster
<1>6. \A i \in DOMAIN aMaster'[u] : \E j \in DOMAIN aMaster[u] : aMaster'[u][i] = aMaster[u][j]
  <2>1. CASE u = w
    <3>1. \A i \in DOMAIN Tail(s) : i + 1 \in DOMAIN s /\ Tail(s)[i] = s[i + 1]
      BY <1>3, <1>4
    <3>2. aMaster[u] = s /\ aMaster'[u] = Tail(s)
      BY <1>1, <1>5, <2>1
    <3>3. ASSUME NEW i \in DOMAIN Tail(s) PROVE \E j \in DOMAIN s : Tail(s)[i] = s[j]
      BY <3>1
    <3> QED
      BY <3>2, <3>3
  <2>2. CASE u # w
    BY <1>5, <2>2
  <2> QED
    BY <2>1, <2>2
<1>7. ASSUME NEW q \in Query, fin'[q] = [w |-> u, como |-> "error"] PROVE q \in Errores(u)
  <2>1. CASE fin'[q] = fin[q]
    BY <1>7, <2>1 DEF Errores
  <2>2. CASE fin'[q] # fin[q]
    <3>1. /\ m.op = "FIN" /\ q = m.q
          /\ fin'[q] = [w |-> w, como |-> IF m.dato = 1 THEN "exito" ELSE "error"]
      BY <1>0, <1>5, <2>2
    <3>2. fin'[q].w = w /\ fin'[q].como = (IF m.dato = 1 THEN "exito" ELSE "error")
      BY <3>1
    <3>3. fin'[q].w = u /\ fin'[q].como = "error"
      BY <1>7
    <3>4. u = w /\ m.dato # 1
      BY <3>2, <3>3
    <3>5. m.dato = 0
      BY <1>1, <1>3, <1>4, <3>1, <3>4 DEF CuestaBien
    <3> QED
      BY <1>1, <1>3, <1>4, <3>1, <3>4, <3>5 DEF Errores
  <2> QED
    BY <2>1, <2>2
<1>8. Errores(u)' \subseteq Errores(u)
  BY <1>6, <1>7 DEF Errores
<1> QED
  BY <1>6, <1>8

\* The other steps: a stop of Storage cuts the connections and is counted.
LEMMA CuestaOtros ==
    ASSUME WorkerAssumption, TypeOK, TypeOK', \A v \in Worker : CuestaBien(v), NEW u \in Worker,
           \/ Aparte
           \/ \E w \in Worker : Escucha(w)
           \/ CaeStorage \/ VuelveStorage
           \/ \E w \in Worker : \E p \in Query : MasterAsigna(w, p)
           \/ \E w \in Worker : MasterPideDesalojo(w) \/ MasterRecibe(w) \/ MasterPierde(w)
    PROVE  CuestaBien(u)'
<1>0. /\ hilo' = hilo /\ CuestaBien(u) /\ cortes \in Nat /\ Cortada(u) \in {0, 1}
      /\ fin \in [Query -> Final \cup {SinFin}]
  <2>1. cortes \in 0..MaxCortes /\ MaxCortes \in Nat /\ fin \in [Query -> Final \cup {SinFin}]
    BY DEF TypeOK, WorkerAssumption
  <2>2. hilo' = hilo
    BY OtrosQuietos DEF Aparte
  <2>3. CuestaBien(u) /\ Cortada(u) \in {0, 1}
    BY DEF Cortada
  <2> QED
    BY <2>1, <2>2, <2>3
<1>1. ASSUME UNCHANGED <<cortes, conexion>>, Errores(u)' \subseteq Errores(u),
             \A i \in DOMAIN aMaster'[u] :
               \E j \in DOMAIN aMaster[u] : aMaster'[u][i] = aMaster[u][j]
      PROVE  CuestaBien(u)'
  <2>1. Cortada(u)' = Cortada(u)
    BY <1>1 DEF Cortada
  <2> QED
    BY <1>0, <1>1, <2>1, CuestaSigue DEF CuestaBien
<1>2. ASSUME UNCHANGED <<cortes, conexion, fin, aMaster>> PROVE CuestaBien(u)'
  BY <1>0, <1>1, <1>2 DEF Errores
<1>3. ASSUME CaeStorage PROVE CuestaBien(u)'
  <2>1. cortes' = cortes + 1 /\ UNCHANGED <<fin, aMaster, hilo>> /\ Cortada(u)' \in {0, 1}
    BY <1>3 DEF CaeStorage, canales, master, Cortada
  <2>2. Errores(u)' = Errores(u) /\ Cardinality(Errores(u)) \in Nat
    BY <2>1, ErroresSon DEF Errores
  <2>3. Cardinality(Errores(u)') + Cortada(u)' <= cortes'
    BY <1>0, <2>1, <2>2 DEF CuestaBien
  <2> QED
    BY <1>0, <2>1, <2>3 DEF CuestaBien
<1>4. ASSUME NEW w \in Worker, MasterRecibe(w) PROVE CuestaBien(u)'
  <2>1. UNCHANGED <<cortes, conexion>>
    BY <1>4 DEF MasterRecibe, storage
  <2> QED
    BY <1>1, <1>4, <2>1, ErroresRecibe
<1>5. ASSUME NEW w \in Worker, MasterPierde(w) PROVE CuestaBien(u)'
  <2>1. UNCHANGED <<cortes, conexion, aMaster>> /\ asignada[w] \in Query
        /\ fin' = [fin EXCEPT ![asignada[w]] = [w |-> w, como |-> "baja"]]
    BY <1>5 DEF MasterPierde, storage, canales, TypeOK
  <2>2. [w |-> w, como |-> "baja"] # [w |-> u, como |-> "error"]
    <3>1. [w |-> w, como |-> "baja"].como = "baja" /\ [w |-> u, como |-> "error"].como = "error"
      OBVIOUS
    <3> QED
      BY <3>1
  <2>3. \A q \in Query :
          fin'[q] = [w |-> u, como |-> "error"] => fin[q] = [w |-> u, como |-> "error"]
    BY <1>0, <2>1, <2>2
  <2>4. Errores(u)' \subseteq Errores(u)
    BY <2>1, <2>3 DEF Errores
  <2> QED
    BY <1>1, <2>1, <2>4
<1>6. CASE ~ CaeStorage /\ ~ \E w \in Worker : MasterRecibe(w) \/ MasterPierde(w)
  <2>1. UNCHANGED <<cortes, conexion, fin, aMaster>>
    BY <1>6 DEF Escucha, VuelveStorage, MasterAsigna, MasterPideDesalojo, Aparte, storage,
       canales, master
  <2> QED
    BY <1>2, <2>1
<1> QED
  BY <1>3, <1>4, <1>5, <1>6

-----------------------------------------------------------------------------
(* The invariant.                                                          *)

CostosBien ==
    /\ ExistenBien
    /\ \A t \in Tag : ConfirmaBien(t) /\ ConfirmaAlguna(t)
    /\ \A w \in Worker : CuestaBien(w)

Costos == Desalojos /\ Nombres /\ (integro => CostosBien)

\* At the start nothing has failed and nothing is committed ...
LEMMA CostosInicial ==
    ASSUME WorkerAssumption, Init
    PROVE  Costos
<1>1. Desalojos /\ Nombres
  BY DesalojosInicial, NombresInicial
<1>2. ExistenBien
  <2>1. \A t \in Existentes : t \in Tag /\ disco[t] = Cero
    BY DEF Init, WorkerAssumption
  <2> QED
    BY <2>1 DEF ExistenBien, WorkerAssumption
<1>3. \A t \in Tag : ConfirmaBien(t) /\ ConfirmaAlguna(t)
  BY DEF Init, ConfirmaBien, ConfirmaAlguna
<1>4. ASSUME NEW w \in Worker PROVE CuestaBien(w)
  <2>1. /\ hilo[w].paso = "libre" /\ aMaster[w] = <<>> /\ conexion[w] = "abierta" /\ cortes = 0
        /\ \A q \in Query : fin[q] = SinFin
    BY DEF Init, Libre
  <2>2. SinFin # [w |-> w, como |-> "error"]
    <3>1. SinFin.como = "no" /\ [w |-> w, como |-> "error"].como = "error"
      BY DEF SinFin
    <3> QED
      BY <3>1
  <2>3. DOMAIN aMaster[w] = {}
    BY <2>1
  <2>4. Errores(w) = {}
    BY <2>1, <2>2, <2>3 DEF Errores
  <2>5. Cardinality(Errores(w)) = 0
    BY <2>4, FS_EmptySet
  <2> QED
    BY <2>1, <2>3, <2>5 DEF CuestaBien, Cortada
<1> QED
  BY <1>1, <1>2, <1>3, <1>4 DEF Costos, CostosBien

\* ... and each step keeps the invariant.
LEMMA CostosPaso ==
    ASSUME WorkerAssumption, Realizables, Costos, [Next]_vars
    PROVE  Costos'
<1>a. Desalojos /\ Nombres /\ Base /\ TypeOK
  BY DEF Costos, Desalojos, Base
<1>1. Desalojos' /\ Nombres' /\ TypeOK'
  <2>1. Desalojos' /\ Nombres'
    BY <1>a, DesalojosPaso, NombresPaso
  <2> QED
    BY <2>1 DEF Desalojos, Base
<1>b. SUFFICES ASSUME integro' PROVE CostosBien'
  BY <1>1 DEF Costos
<1>c. integro
  BY <1>a, <1>b, IntegroAntes DEF Base, HilosBien
<1>0. /\ Desalojos /\ Nombres /\ Base /\ TypeOK /\ ExistenBien
      /\ \A t \in Tag : ConfirmaBien(t) /\ ConfirmaAlguna(t)
      /\ \A w \in Worker : CuestaBien(w)
  BY <1>a, <1>c DEF Costos, CostosBien
<1>2. ASSUME NEW w \in Worker, ProcesaQuery(w) \/ Sirve(w) PROVE CostosBien'
  <2>1. HaceAlgo(w)
    BY <1>0, <1>2, EfectoProcesa DEF Base, HilosBien
  <2>2. ExistenBien'
    <3>1. \A t \in Tag : disco[t] # Nadie => disco'[t] # Nadie
      BY <1>0, <2>1, AvanzaProcesa DEF Avanza
    <3> QED
      BY <1>0, <3>1 DEF ExistenBien, WorkerAssumption
  <2>3. \A t \in Tag : ConfirmaBien(t)' /\ ConfirmaAlguna(t)'
    BY <1>0, <2>1, ConfirmaProcesa, AlgunaProcesa
  <2>4. CuestaBien(w)'
    BY <1>0, <1>1, <1>b, <1>c, <2>1, CuestaProcesa
  <2>5. ASSUME NEW v \in Worker, v # w PROVE CuestaBien(v)'
    <3>1. /\ UNCHANGED <<cortes, fin>> /\ hilo'[v] = hilo[v] /\ aMaster'[v] = aMaster[v]
      BY <1>0, <2>1, <2>5, ProcesaAjeno
    <3>2. conexion'[v] = conexion[v]
      BY <1>0, <2>1, <2>5 DEF HaceAlgo, HaceToma, HaceReconecta, HaceReconectaEnVano,
         HaceDesaloja, HaceTermina, HacePideInstruccion, HaceEjecuta, HaceSirve, HaceRecibe,
         HaceVuelca, HaceRecibeVolcado, HaceContestaDesalojo, TypeOK
    <3>3. Cortada(v)' <= Cortada(v)
      BY <3>2 DEF Cortada
    <3> QED
      BY <1>0, <1>1, <3>1, <3>3, CuestaQuieta DEF CuestaBien
  <2> QED
    BY <2>2, <2>3, <2>4, <2>5 DEF CostosBien
<1>3. CASE ~ \E w \in Worker : ProcesaQuery(w) \/ Sirve(w)
  <2>1. \/ Aparte
        \/ \E w \in Worker : Escucha(w)
        \/ CaeStorage \/ VuelveStorage
        \/ \E w \in Worker : \E p \in Query : MasterAsigna(w, p)
        \/ \E w \in Worker : MasterPideDesalojo(w) \/ MasterRecibe(w) \/ MasterPierde(w)
    BY <1>0, <1>3, PasoEs
  <2>2. UNCHANGED <<archivo, disco>>
    BY <2>1 DEF Escucha, CaeStorage, VuelveStorage, MasterAsigna, MasterPideDesalojo, MasterRecibe,
       MasterPierde, storage, Aparte
  <2>3. \A q \in Query : Vigente(q)' => Vigente(q)
    BY <1>0, <2>1, VigenteOtros
  <2>4. \A t \in Tag : ConfirmaBien(t)' /\ ConfirmaAlguna(t)'
    BY <1>0, <2>2, <2>3 DEF ConfirmaBien, ConfirmaAlguna
  <2>5. \A v \in Worker : CuestaBien(v)'
    BY <1>0, <1>1, <2>1, CuestaOtros
  <2> QED
    BY <1>0, <2>2, <2>4, <2>5 DEF ExistenBien, CostosBien
<1> QED
  BY <1>2, <1>3

\* While what the scripts ask for can be done and Storage does it whole, no Worker
\* ends more queries with an error than Storage has stopped times, for any Workers,
\* scripts, evictions and stops that cut no request short: the failure of a query
\* closes the connection that a stop has cut, so the queries after it do not run on
\* that one.
THEOREM WorkerCuesta ==
    ASSUME Realizables
    PROVE  Spec => []CuestaUnaQuery
<1>1. Init => Costos
  BY WorkerAssumption, CostosInicial
<1>2. Costos /\ [Next]_vars => Costos'
  BY WorkerAssumption, CostosPaso
<1>3. Costos => CuestaUnaQuery
  <2>1. SUFFICES ASSUME Costos, integro, NEW w \in Worker
                 PROVE  Cardinality(Errores(w)) <= cortes
    BY DEF CuestaUnaQuery
  <2>2. TypeOK /\ CuestaBien(w)
    BY <2>1 DEF Costos, CostosBien, Desalojos, Base
  <2>3. Cardinality(Errores(w)) \in Nat
    BY <2>2, WorkerAssumption, ErroresSon
  <2>4. cortes \in 0..MaxCortes /\ MaxCortes \in Nat /\ Cortada(w) \in {0, 1}
    BY <2>2, WorkerAssumption DEF Cortada, TypeOK, WorkerAssumption
  <2> QED
    BY <2>2, <2>3, <2>4 DEF CuestaBien
<1> QED
  BY <1>1, <1>2, <1>3, PTL DEF Spec
=============================================================================
