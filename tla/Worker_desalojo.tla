-------------------------- MODULE Worker_desalojo --------------------------
(***************************************************************************)
(* VolcadoAlDesalojar: when the answer to an eviction is on its way, what  *)
(* was to be kept is in Storage.  Four invariants carry it:                *)
(*   VidaBien     a dead worker holds nothing, and what the step of the    *)
(*                query thread says of its connection;                     *)
(*   TurnoBien    a worker holds at most one query, and none when the      *)
(*                Master has given it none, so that nothing runs while an  *)
(*                answer is on its way;                                    *)
(*   DiscoBien    a page in memory has its block, so that its file:tag     *)
(*                exists and CREATE cannot reopen it;                      *)
(*   VolcadoBien  during the flush, a page is still to be written or safe. *)
(* The last two hold while Storage's requests do not get in each other's   *)
(* way (integro), the other two whatever Storage does.                     *)
(***************************************************************************)
EXTENDS Worker_proofs

EnInstruccion(w) == ~ hilo[w].desaloja /\ hilo[w].paso \in {"linea", "ejecuta", "pide", "recibe"}

VidaBien(w) ==
    /\ etapa[w] = "caido" => hilo[w].paso = "libre" /\ enCola[w] = {} /\ aWorker[w] = <<>>
    /\ hilo[w].paso = "conecta" => conexion[w] = "cerrada"
    /\ EnInstruccion(w) => conexion[w] # "cerrada"
    /\ hilo[w].paso = "recibe" /\ hilo[w].res = "-" => conexion[w] # "abierta"
    /\ cortes = 0 => conexion[w] = "abierta"

SinOrden(w) == \A i \in DOMAIN aWorker[w] : aWorker[w][i].op # "INICIA"
UnaOrden(w) ==
    \A i, j \in DOMAIN aWorker[w] :
        aWorker[w][i].op = "INICIA" /\ aWorker[w][j].op = "INICIA" => i = j

TurnoBien(w) ==
    /\ UnaOrden(w)
    /\ \A p, q \in enCola[w] : p = q
    /\ aMaster[w] # <<>> => Len(aMaster[w]) = 1 /\ hilo[w].paso = "libre"
    /\ hilo[w].paso # "libre" \/ aMaster[w] # <<>> => enCola[w] = {}
    /\ hilo[w].paso # "libre" \/ aMaster[w] # <<>> \/ enCola[w] # {} => SinOrden(w)
    /\ asignada[w] = NoQuery
       => hilo[w].paso = "libre" /\ aMaster[w] = <<>> /\ enCola[w] = {} /\ SinOrden(w)

Leida(w, t) ==
    /\ hilo[w].paso = "recibe" /\ hilo[w].op = "LEER" /\ hilo[w].res = "OK"
    /\ hilo[w].t = t

DiscoBien(t) ==
    /\ disco[t] # Nadie => archivo[t] # "NO"
    /\ \A w \in Worker : memoria[w][t] # Nadie \/ Leida(w, t) => disco[t] # Nadie

Guardada(w, t) == Modificada(w, t) => archivo[t] # "WORK_IN_PROGRESS"
Contesto(w) == \E i \in DOMAIN aMaster[w] : aMaster[w][i].op = "DESALOJAR"

VolcadoBien(w) ==
    cortes = 0 =>
      /\ hilo[w].desaloja => \A t \in Tag : t \in hilo[w].faltan \/ Guardada(w, t)
      /\ hilo[w].desaloja /\ hilo[w].paso = "recibe" /\ hilo[w].res # "OK"
         => archivo[hilo[w].t] # "WORK_IN_PROGRESS"
      /\ Contesto(w) => \A t \in Tag : Guardada(w, t)

-----------------------------------------------------------------------------
(* Life.                                                                   *)

\* A worker that a step does not touch.
LEMMA VidaIgual ==
    ASSUME NEW v \in Worker, VidaBien(v), hilo'[v] = hilo[v], etapa'[v] = etapa[v],
           conexion'[v] = conexion[v], cortes' = cortes,
           etapa[v] = "caido" => enCola'[v] = enCola[v] /\ aWorker'[v] = aWorker[v]
    PROVE  VidaBien(v)'
BY DEF VidaBien, EnInstruccion

\* A step of the query thread.
LEMMA VidaProcesa ==
    ASSUME WorkerAssumption, Base, NEW w \in Worker, HaceAlgo(w), \A v \in Worker : VidaBien(v)
    PROVE  \A v \in Worker : VidaBien(v)'
<1>0. TypeOK /\ HiloBien(w) /\ VidaBien(w) /\ hilo \in [Worker -> Hilo]
  BY DEF Base, HilosBien, TypeOK
<1>t. /\ enCola \in [Worker -> SUBSET Query] /\ etapa \in [Worker -> {"listo", "caido"}]
      /\ conexion \in [Worker -> {"abierta", "cortada", "cerrada"}]
  BY <1>0 DEF TypeOK
<1>1. ASSUME NEW q \in Query, HaceToma(w, q) PROVE VidaBien(w)'
  <2>1. /\ etapa'[w] = "listo" /\ UNCHANGED <<conexion, cortes>>
        /\ \/ /\ hilo'[w].paso = (IF conexion[w] = "cerrada" THEN "conecta" ELSE "linea")
              /\ hilo'[w].res = "-"
           \/ hilo'[w] = Libre
    BY <1>0, <1>1 DEF HaceToma
  <2> QED
    BY <1>0, <2>1 DEF VidaBien, EnInstruccion, Libre
<1>2. ASSUME HaceReconecta(w) PROVE VidaBien(w)'
  <2>1. /\ etapa'[w] = "listo" /\ conexion'[w] = "abierta"
        /\ hilo'[w].paso = "linea" \/ hilo'[w] = Libre
    BY <1>0, <1>t, <1>2 DEF HaceReconecta
  <2> QED
    BY <2>1 DEF VidaBien, EnInstruccion, Libre
<1>3. ASSUME HaceReconectaEnVano(w) PROVE VidaBien(w)'
  <2>1. /\ hilo[w].paso = "conecta" /\ hilo'[w] = Libre /\ enCola'[w] = {} /\ cortes' = cortes
        /\ aWorker'[w] = <<>>
    BY <1>0, <1>t, <1>3 DEF HaceReconectaEnVano, TypeOK
  <2>2. cortes # 0
    BY <1>0, <2>1 DEF VidaBien
  <2> QED
    BY <2>1, <2>2 DEF VidaBien, EnInstruccion, Libre
<1>4. ASSUME HaceDesaloja(w) PROVE VidaBien(w)'
  <2>1. /\ etapa'[w] = "listo" /\ UNCHANGED <<conexion, cortes>>
        /\ hilo'[w].paso = "vuelca"
    BY <1>0, <1>4 DEF HaceDesaloja
  <2> QED
    BY <1>0, <2>1 DEF VidaBien, EnInstruccion
<1>5. ASSUME etapa'[w] = "listo", UNCHANGED <<conexion, cortes>>, hilo'[w] = Libre
      PROVE  VidaBien(w)'
  BY <1>0, <1>5 DEF VidaBien, EnInstruccion, Libre
<1>6. ASSUME HaceTermina(w) PROVE VidaBien(w)'
  BY <1>0, <1>5, <1>6 DEF HaceTermina
<1>7. ASSUME HacePideInstruccion(w) PROVE VidaBien(w)'
  <2>1. /\ etapa'[w] = "listo" /\ UNCHANGED <<conexion, cortes>>
        /\ hilo'[w].paso = "pide" /\ hilo'[w].desaloja = hilo[w].desaloja
        /\ hilo[w].paso \in {"linea", "ejecuta"}
    BY <1>0, <1>7 DEF HacePideInstruccion
  <2> QED
    BY <1>0, <2>1 DEF VidaBien, EnInstruccion
<1>8. ASSUME HaceEjecuta(w) PROVE VidaBien(w)'
  <2>1. /\ etapa'[w] = "listo" /\ UNCHANGED <<conexion, cortes>>
        /\ hilo'[w].paso = "linea" /\ hilo'[w].desaloja = hilo[w].desaloja
        /\ hilo[w].paso \in {"linea", "ejecuta"}
    BY <1>0, <1>8 DEF HaceEjecuta
  <2> QED
    BY <1>0, <2>1 DEF VidaBien, EnInstruccion
<1>9. ASSUME HaceSirve(w) PROVE VidaBien(w)'
  <2>1. /\ etapa'[w] = "listo" /\ UNCHANGED <<conexion, cortes>>
        /\ hilo'[w].paso = "recibe" /\ hilo'[w].desaloja = hilo[w].desaloja
        /\ hilo[w].paso = "pide" /\ (hilo'[w].res = "-" => conexion[w] # "abierta")
    BY <1>0, <1>9 DEF HaceSirve
  <2> QED
    BY <1>0, <2>1 DEF VidaBien, EnInstruccion
<1>10. ASSUME HaceRecibe(w) PROVE VidaBien(w)'
  <2>1. /\ etapa'[w] = "listo" /\ cortes' = cortes
        /\ conexion'[w] = (IF conexion[w] = "abierta" THEN "abierta" ELSE "cerrada")
        /\ \/ hilo'[w].paso \in {"ejecuta", "linea"} /\ conexion[w] = "abierta"
           \/ hilo'[w] = Libre
    BY <1>0, <1>10 DEF HaceRecibe, RecibeBien, RecibeMal
  <2> QED
    BY <1>0, <2>1 DEF VidaBien, EnInstruccion, Libre
<1>11. ASSUME HaceVuelca(w) PROVE VidaBien(w)'
  <2>1. /\ etapa'[w] = "listo" /\ UNCHANGED <<conexion, cortes>>
        /\ hilo'[w].paso = "pide" /\ hilo'[w].desaloja = TRUE
    BY <1>0, <1>11 DEF HaceVuelca
  <2> QED
    BY <1>0, <2>1 DEF VidaBien, EnInstruccion
<1>12. ASSUME HaceRecibeVolcado(w) PROVE VidaBien(w)'
  <2>1. /\ etapa'[w] = "listo" /\ cortes' = cortes
        /\ conexion'[w] = (IF conexion[w] = "abierta" THEN "abierta" ELSE "cerrada")
        /\ hilo'[w].paso = "vuelca"
    BY <1>0, <1>12 DEF HaceRecibeVolcado
  <2> QED
    BY <1>0, <2>1 DEF VidaBien, EnInstruccion
<1>13. ASSUME HaceContestaDesalojo(w) PROVE VidaBien(w)'
  BY <1>0, <1>5, <1>13 DEF HaceContestaDesalojo
<1>14. VidaBien(w)'
  BY <1>1, <1>2, <1>3, <1>4, <1>6, <1>7, <1>8, <1>9, <1>10, <1>11, <1>12, <1>13 DEF HaceAlgo
<1>15. ASSUME NEW v \in Worker, v # w PROVE VidaBien(v)'
  <2>1. hilo'[v] = hilo[v]
    BY <1>0, <1>15, ProcesaLoSuyo
  <2>2. /\ etapa'[v] = etapa[v] /\ conexion'[v] = conexion[v] /\ cortes' = cortes
        /\ enCola'[v] = enCola[v] /\ aWorker'[v] = aWorker[v]
    <3>1. aWorker \in [Worker -> Seq([op : {"INICIA", "DESALOJAR"}, q : Query])]
      BY <1>0 DEF TypeOK
    <3> QED
      BY <1>t, <1>15, <3>1 DEF HaceAlgo, HaceToma, HaceReconecta, HaceReconectaEnVano,
         HaceDesaloja, HaceTermina, HacePideInstruccion, HaceEjecuta, HaceSirve, HaceRecibe,
         HaceVuelca, HaceRecibeVolcado, HaceContestaDesalojo
  <2> QED
    BY <2>1, <2>2, VidaIgual
<1> QED
  BY <1>14, <1>15

\* The other steps.
LEMMA VidaOtros ==
    ASSUME WorkerAssumption, Base, \A v \in Worker : VidaBien(v),
           \/ \E w \in Worker : Escucha(w)
           \/ CaeStorage \/ VuelveStorage
           \/ \E w \in Worker : \E q \in Query : MasterAsigna(w, q)
           \/ \E w \in Worker : MasterPideDesalojo(w) \/ MasterRecibe(w) \/ MasterPierde(w)
    PROVE  \A v \in Worker : VidaBien(v)'
<1>0. /\ enCola \in [Worker -> SUBSET Query] /\ etapa \in [Worker -> {"listo", "caido"}]
      /\ conexion \in [Worker -> {"abierta", "cortada", "cerrada"}]
      /\ aWorker \in [Worker -> Seq(MsgAWorker)] /\ cortes \in 0..MaxCortes
  BY DEF Base, TypeOK, MsgAWorker
<1> SUFFICES ASSUME NEW v \in Worker PROVE VidaBien(v)'
  OBVIOUS
<1>1. ASSUME NEW w \in Worker, Escucha(w) PROVE VidaBien(v)'
  <2>1. /\ UNCHANGED <<hilo, etapa, conexion, cortes>> /\ etapa[w] = "listo"
        /\ v # w => aWorker'[v] = aWorker[v] /\ enCola'[v] = enCola[v]
    BY <1>0, <1>1 DEF Escucha, storage
  <2>2. etapa[v] = "caido" => aWorker'[v] = aWorker[v] /\ enCola'[v] = enCola[v]
    BY <2>1
  <2> QED
    BY <2>1, <2>2, VidaIgual
<1>2. ASSUME CaeStorage PROVE VidaBien(v)'
  <2>1. /\ UNCHANGED <<hilo, etapa, enCola, aWorker>> /\ cortes' # 0
        /\ conexion'[v] = (IF conexion[v] = "abierta" THEN "cortada" ELSE conexion[v])
    BY <1>0, <1>2 DEF CaeStorage, canales
  <2> QED
    BY <2>1 DEF VidaBien, EnInstruccion
<1>3. ASSUME VuelveStorage PROVE VidaBien(v)'
  BY <1>3, VidaIgual DEF VuelveStorage, canales
<1>4. ASSUME NEW w \in Worker, UNCHANGED <<hilo, etapa, conexion, cortes, enCola>>,
             aWorker'[v] = aWorker[v] \/ (v = w /\ etapa[w] = "listo")
      PROVE  VidaBien(v)'
  <2>1. etapa[v] = "caido" => aWorker'[v] = aWorker[v]
    BY <1>4
  <2> QED
    BY <1>4, <2>1, VidaIgual
<1>5. ASSUME NEW w \in Worker, NEW q \in Query, MasterAsigna(w, q) PROVE VidaBien(v)'
  BY <1>0, <1>4, <1>5 DEF MasterAsigna, MasterEnvia, storage
<1>6. ASSUME NEW w \in Worker, MasterPideDesalojo(w) PROVE VidaBien(v)'
  BY <1>0, <1>4, <1>6 DEF MasterPideDesalojo, MasterEnvia, storage
<1>7. ASSUME NEW w \in Worker, MasterRecibe(w) \/ MasterPierde(w) PROVE VidaBien(v)'
  BY <1>4, <1>7 DEF MasterRecibe, MasterPierde, storage, canales
<1> QED
  BY <1>1, <1>2, <1>3, <1>5, <1>6, <1>7

-----------------------------------------------------------------------------
(* Turns.                                                                  *)

\* A worker that a step does not touch.
LEMMA TurnoIgual ==
    ASSUME NEW v \in Worker, TurnoBien(v), aWorker'[v] = aWorker[v], enCola'[v] = enCola[v],
           aMaster'[v] = aMaster[v], asignada'[v] = asignada[v],
           hilo'[v].paso = "libre" <=> hilo[v].paso = "libre"
    PROVE  TurnoBien(v)'
BY DEF TurnoBien, UnaOrden, SinOrden

\* One message is added to a queue, or taken from it.
LEMMA ColaCrece ==
    ASSUME NEW S, NEW s \in Seq(S), NEW m \in S
    PROVE  /\ Append(s, m) \in Seq(S) /\ Len(Append(s, m)) = Len(s) + 1
           /\ DOMAIN Append(s, m) = 1..(Len(s) + 1) /\ DOMAIN s = 1..Len(s)
           /\ Append(s, m)[Len(s) + 1] = m
           /\ \A i \in DOMAIN s : Append(s, m)[i] = s[i]
OBVIOUS

\* The rest of a queue is its messages but the first.
LEMMA ColaMengua ==
    ASSUME NEW S, NEW s \in Seq(S), s # <<>>
    PROVE  /\ Tail(s) \in Seq(S) /\ Len(Tail(s)) = Len(s) - 1 /\ Len(s) \in Nat \ {0}
           /\ DOMAIN Tail(s) = 1..(Len(s) - 1) /\ DOMAIN s = 1..Len(s)
           /\ Head(s) = s[1] /\ Head(s) \in S
           /\ \A i \in DOMAIN Tail(s) : Tail(s)[i] = s[i + 1]
OBVIOUS

\* The message of a query goes from the queue to the wait for the lock.
LEMMA TurnoEscucha ==
    ASSUME Base, NEW w \in Worker, Escucha(w), TurnoBien(w)
    PROVE  TurnoBien(w)'
<1>0. /\ enCola \in [Worker -> SUBSET Query] /\ aWorker \in [Worker -> Seq(MsgAWorker)]
      /\ aWorker[w] # <<>>
  BY DEF Base, TypeOK, MsgAWorker, Escucha
<1>1. /\ aWorker'[w] = Tail(aWorker[w]) /\ UNCHANGED <<hilo, aMaster, asignada>>
      /\ \/ Head(aWorker[w]).op = "INICIA" /\ enCola'[w] = enCola[w] \cup {Head(aWorker[w]).q}
         \/ Head(aWorker[w]).op = "DESALOJAR" /\ enCola'[w] = enCola[w]
  BY <1>0 DEF Escucha, master
<1>2. PICK s \in Seq(MsgAWorker) : s = aWorker[w]
  BY <1>0
<1>3. /\ DOMAIN Tail(s) = 1..(Len(s) - 1) /\ DOMAIN s = 1..Len(s) /\ Head(s) = s[1]
      /\ Len(s) \in Nat \ {0} /\ \A i \in DOMAIN Tail(s) : Tail(s)[i] = s[i + 1]
  BY <1>0, <1>2, ColaMengua
<1>4. \A i \in 1..(Len(s) - 1) : i + 1 \in 1..Len(s) /\ Tail(s)[i] = s[i + 1] /\ i + 1 # 1
  BY <1>3
<1>5. 1 \in DOMAIN s
  BY <1>3
<1>6. UnaOrden(w)' /\ (SinOrden(w) => SinOrden(w)')
  <2>1. ASSUME NEW i \in DOMAIN Tail(s), NEW j \in DOMAIN Tail(s), Tail(s)[i].op = "INICIA",
               Tail(s)[j].op = "INICIA"
        PROVE  i = j
    <3>1. i + 1 = j + 1
      BY <1>2, <1>3, <1>4, <2>1 DEF TurnoBien, UnaOrden
    <3> QED
      BY <1>3, <3>1
  <2>2. ASSUME SinOrden(w), NEW i \in DOMAIN Tail(s) PROVE Tail(s)[i].op # "INICIA"
    BY <1>2, <1>3, <1>4, <2>2 DEF SinOrden
  <2> QED
    BY <1>1, <1>2, <2>1, <2>2 DEF UnaOrden, SinOrden
<1>7. CASE Head(aWorker[w]).op = "DESALOJAR"
  <2>1. enCola'[w] = enCola[w]
    BY <1>1, <1>7
  <2> QED
    BY <1>1, <1>6, <2>1 DEF TurnoBien
<1>8. CASE Head(aWorker[w]).op = "INICIA"
  <2>1. ~ SinOrden(w)
    BY <1>2, <1>3, <1>5, <1>8 DEF SinOrden
  <2>2. enCola[w] = {} /\ aMaster[w] = <<>> /\ hilo[w].paso = "libre" /\ asignada[w] # NoQuery
    BY <2>1 DEF TurnoBien
  <2>3. enCola'[w] = {Head(aWorker[w]).q}
    BY <1>1, <1>8, <2>2
  <2>4. SinOrden(w)'
    <3>1. ASSUME NEW i \in DOMAIN Tail(s) PROVE Tail(s)[i].op # "INICIA"
      BY SMTT(30), <1>2, <1>3, <1>4, <1>5, <1>8 DEF TurnoBien, UnaOrden
    <3> QED
      BY <1>1, <1>2, <3>1 DEF SinOrden
  <2> QED
    BY <1>1, <1>6, <2>2, <2>3, <2>4 DEF TurnoBien
<1> QED
  BY <1>1, <1>7, <1>8

\* A thread that has the lock goes on, or lets go of it without a word.
LEMMA TurnoSigue ==
    ASSUME NEW v \in Worker, TurnoBien(v), aWorker'[v] = aWorker[v], enCola'[v] = enCola[v],
           aMaster'[v] = aMaster[v], asignada'[v] = asignada[v], hilo[v].paso # "libre"
    PROVE  TurnoBien(v)'
BY DEF TurnoBien, UnaOrden, SinOrden

\* It lets go of the lock with an answer.
LEMMA TurnoContesta ==
    ASSUME NEW v \in Worker, TurnoBien(v), aWorker'[v] = aWorker[v], enCola'[v] = enCola[v],
           aMaster'[v] \in Seq(MsgAMaster), Len(aMaster'[v]) = Len(aMaster[v]) + 1,
           asignada'[v] = asignada[v], hilo[v].paso # "libre", hilo'[v].paso = "libre"
    PROVE  TurnoBien(v)'
<1>1. aMaster[v] = <<>> /\ enCola[v] = {} /\ SinOrden(v) /\ asignada[v] # NoQuery
  BY DEF TurnoBien
<1>2. Len(aMaster'[v]) = 1
  BY <1>1
<1> QED
  BY <1>1, <1>2 DEF TurnoBien, UnaOrden, SinOrden

\* A step of the query thread moves its query one place on.
LEMMA TurnoProcesa ==
    ASSUME Base, NEW w \in Worker, HaceAlgo(w), TurnoBien(w)
    PROVE  TurnoBien(w)'
<1>0. /\ enCola \in [Worker -> SUBSET Query] /\ hilo \in [Worker -> Hilo]
      /\ aWorker \in [Worker -> Seq(MsgAWorker)] /\ aMaster \in [Worker -> Seq(MsgAMaster)]
  BY DEF Base, TypeOK, MsgAWorker, MsgAMaster
<1>1. ASSUME NEW q \in Query, HaceToma(w, q) PROVE TurnoBien(w)'
  <2>1. /\ hilo[w].paso = "libre" /\ q \in enCola[w] /\ enCola'[w] = enCola[w] \ {q}
        /\ UNCHANGED <<aWorker, aMaster, asignada>>
    BY <1>0, <1>1 DEF HaceToma
  <2>2. enCola'[w] = {} /\ SinOrden(w) /\ aMaster[w] = <<>> /\ asignada[w] # NoQuery
    BY <2>1 DEF TurnoBien
  <2> QED
    BY <2>1, <2>2 DEF TurnoBien, UnaOrden, SinOrden
<1>2. ASSUME HaceReconectaEnVano(w) PROVE TurnoBien(w)'
  <2>1. /\ hilo[w].paso = "conecta" /\ hilo'[w] = Libre /\ enCola'[w] = {} /\ aWorker'[w] = <<>>
        /\ UNCHANGED <<aMaster, asignada>>
    BY <1>0, <1>2 DEF HaceReconectaEnVano
  <2>2. aMaster[w] = <<>> /\ hilo'[w].paso = "libre"
    BY <2>1 DEF TurnoBien, Libre
  <2> QED
    BY <2>1, <2>2 DEF TurnoBien, UnaOrden, SinOrden
<1>3. ASSUME HaceReconecta(w) \/ HaceDesaloja(w) \/ HacePideInstruccion(w) \/ HaceEjecuta(w)
             \/ HaceSirve(w) \/ HaceVuelca(w) \/ HaceRecibeVolcado(w)
      PROVE  TurnoBien(w)'
  <2>1. hilo[w].paso # "libre" /\ UNCHANGED <<aWorker, enCola, aMaster, asignada>>
    BY <1>3 DEF HaceReconecta, HaceDesaloja, HacePideInstruccion, HaceEjecuta, HaceSirve,
                HaceVuelca, HaceRecibeVolcado
  <2> QED
    BY <2>1, TurnoSigue
<1>4. ASSUME hilo[w].paso # "libre", hilo' = [hilo EXCEPT ![w] = Libre],
             UNCHANGED <<aWorker, enCola, asignada>>, NEW m \in MsgAMaster,
             aMaster' = [aMaster EXCEPT ![w] = Append(@, m)]
      PROVE  TurnoBien(w)'
  <2>1. PICK s \in Seq(MsgAMaster) : s = aMaster[w]
    BY <1>0
  <2>2. aMaster'[w] = Append(s, m) /\ hilo'[w] = Libre
    BY <1>0, <1>4, <2>1
  <2>3. aMaster'[w] \in Seq(MsgAMaster) /\ Len(aMaster'[w]) = Len(aMaster[w]) + 1
    BY <1>4, <2>1, <2>2, ColaCrece
  <2>4. hilo'[w].paso = "libre"
    BY <2>2 DEF Libre
  <2> QED
    BY <1>4, <2>3, <2>4, TurnoContesta
<1>5. ASSUME HaceTermina(w) PROVE TurnoBien(w)'
  <2>1. [op |-> "FIN", q |-> hilo[w].q, dato |-> 1] \in MsgAMaster
    BY <1>5 DEF HaceTermina, MsgAMaster
  <2> QED
    BY <1>4, <1>5, <2>1 DEF HaceTermina
<1>6. ASSUME HaceRecibe(w) PROVE TurnoBien(w)'
  <2>1. CASE RecibeBien(w)
    <3>1. hilo[w].paso # "libre" /\ UNCHANGED <<aWorker, enCola, aMaster, asignada>>
      BY <1>6, <2>1 DEF HaceRecibe, RecibeBien
    <3> QED
      BY <3>1, TurnoSigue
  <2>2. CASE RecibeMal(w)
    <3>1. [op |-> "FIN", q |-> hilo[w].q, dato |-> 0] \in MsgAMaster
      BY <1>6 DEF HaceRecibe, MsgAMaster
    <3>2. hilo[w].paso # "libre" /\ UNCHANGED <<aWorker, enCola, asignada>>
      BY <1>6 DEF HaceRecibe
    <3> QED
      BY <1>4, <2>2, <3>1, <3>2 DEF RecibeMal
  <2> QED
    BY <1>6, <2>1, <2>2 DEF HaceRecibe
<1>7. ASSUME HaceContestaDesalojo(w) PROVE TurnoBien(w)'
  <2>1. [op |-> "DESALOJAR", q |-> hilo[w].q, dato |-> hilo[w].pc] \in MsgAMaster
    BY <1>0, <1>7, CampoHilo DEF HaceContestaDesalojo, MsgAMaster
  <2> QED
    BY <1>4, <1>7, <2>1 DEF HaceContestaDesalojo
<1> QED
  BY <1>1, <1>2, <1>3, <1>5, <1>6, <1>7 DEF HaceAlgo

\* The Master gives a query only to a worker with nothing left to do.
LEMMA TurnoAsigna ==
    ASSUME WorkerAssumption, Base, NEW w \in Worker, NEW q \in Query, MasterAsigna(w, q),
           TurnoBien(w)
    PROVE  TurnoBien(w)'
<1>1. PICK s \in Seq(MsgAWorker) : s = aWorker[w]
  BY DEF Base, TypeOK, MsgAWorker
<1>2. PICK m \in MsgAWorker : m = [op |-> "INICIA", q |-> q]
  BY DEF MsgAWorker
<1>3. /\ aWorker'[w] = Append(s, m) /\ asignada[w] = NoQuery /\ asignada'[w] = q
      /\ UNCHANGED <<enCola, hilo, aMaster>>
  BY <1>1, <1>2 DEF MasterAsigna, MasterEnvia, Base, TypeOK
<1>4. hilo[w].paso = "libre" /\ aMaster[w] = <<>> /\ enCola[w] = {} /\ SinOrden(w)
  BY <1>3 DEF TurnoBien
<1>5. UnaOrden(w)'
  <2>1. /\ DOMAIN Append(s, m) = 1..(Len(s) + 1) /\ DOMAIN s = 1..Len(s) /\ Len(s) \in Nat
        /\ \A i \in DOMAIN s : Append(s, m)[i] = s[i]
    BY ColaCrece
  <2>2. \A i \in DOMAIN s : Append(s, m)[i].op # "INICIA"
    BY <1>1, <1>4, <2>1 DEF SinOrden
  <2>3. \A i \in DOMAIN Append(s, m) : Append(s, m)[i].op = "INICIA" => i = Len(s) + 1
    BY <2>1, <2>2
  <2> QED
    BY <1>3, <2>3 DEF UnaOrden
<1>6. q # NoQuery
  BY DEF WorkerAssumption
<1> QED
  BY <1>3, <1>4, <1>5, <1>6 DEF TurnoBien

\* An eviction request is not a query.
LEMMA TurnoPideDesalojo ==
    ASSUME Base, NEW w \in Worker, MasterPideDesalojo(w), TurnoBien(w)
    PROVE  TurnoBien(w)'
<1>1. PICK s \in Seq(MsgAWorker) : s = aWorker[w]
  BY DEF Base, TypeOK, MsgAWorker
<1>2. PICK m \in MsgAWorker : m = [op |-> "DESALOJAR", q |-> asignada[w]]
  BY DEF MsgAWorker, Base, TypeOK, MasterPideDesalojo
<1>3. /\ aWorker'[w] = Append(s, m) /\ asignada[w] # NoQuery
      /\ UNCHANGED <<enCola, hilo, aMaster, asignada>>
  BY <1>1, <1>2 DEF MasterPideDesalojo, MasterEnvia, Base, TypeOK
<1>4. /\ DOMAIN Append(s, m) = 1..(Len(s) + 1) /\ DOMAIN s = 1..Len(s) /\ Len(s) \in Nat
      /\ Append(s, m)[Len(s) + 1] = m
      /\ \A i \in DOMAIN s : Append(s, m)[i] = s[i]
  BY ColaCrece
<1>5. \A i \in DOMAIN Append(s, m) : Append(s, m)[i].op = "INICIA"
                                   => i \in DOMAIN s /\ s[i].op = "INICIA"
  BY <1>2, <1>4
<1>6. UnaOrden(w)'
  <2>1. ASSUME NEW i \in DOMAIN Append(s, m), NEW j \in DOMAIN Append(s, m),
               Append(s, m)[i].op = "INICIA", Append(s, m)[j].op = "INICIA"
        PROVE  i = j
    <3>1. /\ i \in DOMAIN s /\ s[i].op = "INICIA"
          /\ j \in DOMAIN s /\ s[j].op = "INICIA"
      BY <1>5, <2>1
    <3> QED
      BY <1>1, <3>1 DEF TurnoBien, UnaOrden
  <2> QED
    BY <1>3, <2>1 DEF UnaOrden
<1>7. SinOrden(w) => SinOrden(w)'
  BY <1>1, <1>3, <1>5 DEF SinOrden
<1> QED
  BY <1>3, <1>6, <1>7 DEF TurnoBien

\* Once the Master has the answer there is nothing else of the worker.
LEMMA TurnoRecibe ==
    ASSUME Base, NEW w \in Worker, MasterRecibe(w), TurnoBien(w)
    PROVE  TurnoBien(w)'
<1>1. PICK s \in Seq(MsgAMaster) : s = aMaster[w] /\ s # <<>>
  BY DEF Base, TypeOK, MsgAMaster, MasterRecibe
<1>2. aMaster'[w] = Tail(s) /\ UNCHANGED <<enCola, hilo, aWorker>>
  BY <1>1 DEF MasterRecibe, Base, TypeOK
<1>3. Len(s) = 1 /\ hilo[w].paso = "libre" /\ enCola[w] = {} /\ SinOrden(w)
  BY <1>1 DEF TurnoBien
<1>4. Tail(s) = <<>>
  <2>1. Tail(s) \in Seq(MsgAMaster) /\ Len(Tail(s)) = 0
    BY <1>1, <1>3, ColaMengua
  <2>2. Tail(s) # <<>> => Len(Tail(s)) \in Nat \ {0}
    BY <2>1, ColaMengua
  <2> QED
    BY <2>1, <2>2
<1> QED
  BY <1>2, <1>3, <1>4 DEF TurnoBien, UnaOrden, SinOrden

\* Nor of one that is gone, once the Master has read all it had sent.
LEMMA TurnoPierde ==
    ASSUME Base, NEW w \in Worker, MasterPierde(w), TurnoBien(w), VidaBien(w)
    PROVE  TurnoBien(w)'
<1>1. /\ hilo[w].paso = "libre" /\ enCola[w] = {} /\ aWorker[w] = <<>> /\ aMaster[w] = <<>>
      /\ UNCHANGED <<hilo, enCola, aWorker, aMaster>>
  BY DEF MasterPierde, VidaBien, canales
<1> QED
  BY <1>1 DEF TurnoBien, UnaOrden, SinOrden

-----------------------------------------------------------------------------
(* Files.                                                                  *)

\* A block is never taken from a file:tag, nor is a commit undone, and only a
\* file:tag that exists is given one.
Avanza(t) ==
    /\ disco[t] # Nadie => disco'[t] # Nadie
    /\ archivo[t] # "NO" => archivo'[t] # "NO"
    /\ archivo[t] = "COMMITED" => archivo'[t] = "COMMITED"
    /\ disco[t] = Nadie /\ disco'[t] # Nadie => archivo'[t] # "NO"

\* The steps that leave Storage alone.
LEMMA AvanzaQuieto ==
    ASSUME UNCHANGED <<archivo, disco>>, NEW t \in Tag
    PROVE  Avanza(t)
BY DEF Avanza

\* A request that is served.
LEMMA AvanzaSirve ==
    ASSUME WorkerAssumption, Base, NEW w \in Worker, HaceSirve(w), NEW t \in Tag
    PROVE  Avanza(t)
<1>0. HiloBien(w) /\ memoria[w] \in [Tag -> Pagina \cup {Nadie}]
      /\ archivo[t] \in {"NO", "WORK_IN_PROGRESS", "COMMITED"}
  BY DEF Base, HilosBien, TypeOK
<1>1. PICK op \in Pedidos, u \in Tag : op = hilo[w].op /\ u = hilo[w].t
  BY DEF HaceSirve
<1> DEFINE v == memoria[w][u].valor
<1>2. Sirvio(op, u, v) \/ UNCHANGED <<archivo, disco>>
  BY <1>1 DEF HaceSirve
<1>3. Cero # Nadie
  BY DEF WorkerAssumption
<1>4. op = "ESCRIBIR" => v # Nadie
  <2>1. SUFFICES ASSUME op = "ESCRIBIR" PROVE v # Nadie
    OBVIOUS
  <2>2. memoria[w][u] # Nadie
    BY <1>0, <1>1, <2>1 DEF HiloBien, EnPedido, HaceSirve, Modificada
  <2>3. v \in Valor
    BY <1>0, <1>1, <2>2, PaginaEs
  <2> QED
    BY <2>3 DEF WorkerAssumption
<1>5. CASE UNCHANGED <<archivo, disco>>
  BY <1>5, AvanzaQuieto
<1>6. CASE Sirvio(op, u, v)
  <2>1. CASE t # u
    BY <1>6, <2>1 DEF Sirvio, Avanza
  <2>2. CASE t = u
    <3>1. CASE op = "CREATE"
      BY <1>6, <2>2, <3>1 DEF Sirvio, Avanza
    <3>2. CASE op = "TRUNCATE"
      BY <1>3, <1>6, <2>2, <3>2 DEF Sirvio, Avanza
    <3>3. CASE op = "LEER"
      BY <1>6, <2>2, <3>3 DEF Sirvio, Avanza
    <3>4. CASE op = "ESCRIBIR"
      BY <1>4, <1>6, <2>2, <3>4 DEF Sirvio, Avanza
    <3>5. CASE op = "COMMIT"
      BY <1>6, <2>2, <3>5 DEF Sirvio, Avanza
    <3> QED
      BY <1>1, <3>1, <3>2, <3>3, <3>4, <3>5 DEF Pedidos
  <2> QED
    BY <2>1, <2>2
<1> QED
  BY <1>2, <1>5, <1>6

\* Any step of the query thread.
LEMMA AvanzaProcesa ==
    ASSUME WorkerAssumption, Base, NEW w \in Worker, HaceAlgo(w), NEW t \in Tag
    PROVE  Avanza(t)
<1>1. HaceSirve(w) \/ UNCHANGED <<archivo, disco>>
  BY DEF HaceAlgo, HaceToma, HaceReconecta, HaceReconectaEnVano, HaceDesaloja, HaceTermina,
         HacePideInstruccion, HaceEjecuta, HaceRecibe, HaceVuelca, HaceRecibeVolcado,
         HaceContestaDesalojo
<1> QED
  BY <1>1, AvanzaQuieto, AvanzaSirve

\* The pages that come into memory come from a block.
LEMMA DiscoIgual ==
    ASSUME NEW t \in Tag, DiscoBien(t), Avanza(t),
           \A v \in Worker : memoria'[v][t] # Nadie \/ Leida(v, t)'
                            => memoria[v][t] # Nadie \/ Leida(v, t) \/ disco[t] # Nadie
    PROVE  DiscoBien(t)'
BY DEF DiscoBien, Avanza

\* A step of the query thread keeps a block for every page in memory.
LEMMA DiscoProcesa ==
    ASSUME WorkerAssumption, Base, NEW w \in Worker, HaceAlgo(w), integro', NEW t \in Tag,
           DiscoBien(t)
    PROVE  DiscoBien(t)'
<1>0. TypeOK /\ HiloBien(w) /\ hilo \in [Worker -> Hilo]
  BY DEF Base, HilosBien, TypeOK
<1>1. Avanza(t)
  BY AvanzaProcesa
<1>2. ASSUME NEW v \in Worker, v # w
      PROVE  memoria'[v][t] = memoria[v][t] /\ (Leida(v, t)' <=> Leida(v, t))
  BY <1>0, <1>2, ProcesaLoSuyo DEF Leida
<1> DEFINE Sale == memoria'[w][t] # Nadie \/ Leida(w, t)'
                   => memoria[w][t] # Nadie \/ Leida(w, t) \/ disco[t] # Nadie
<1>3. ASSUME memoria'[w] = memoria[w], hilo'[w].paso # "recibe" PROVE Sale
  BY <1>3 DEF Leida
<1>4. ASSUME NEW q \in Query, HaceToma(w, q) PROVE Sale
  <2>1. hilo'[w].paso \in {"conecta", "linea"} \/ hilo'[w] = Libre
    BY <1>0, <1>4 DEF HaceToma
  <2> QED
    BY <1>3, <1>4, <2>1 DEF HaceToma, Libre
<1>5. ASSUME HaceReconecta(w) PROVE Sale
  <2>1. hilo'[w].paso = "linea" \/ hilo'[w] = Libre
    BY <1>0, <1>5 DEF HaceReconecta
  <2> QED
    BY <1>3, <1>5, <2>1 DEF HaceReconecta, Libre
<1>6. ASSUME HaceReconectaEnVano(w) PROVE Sale
  <2>1. hilo'[w] = Libre /\ memoria'[w][t] = Nadie
    BY <1>0, <1>6 DEF HaceReconectaEnVano
  <2> QED
    BY <2>1 DEF Leida, Libre
<1>7. ASSUME HaceDesaloja(w) PROVE Sale
  <2>1. hilo'[w].paso = "vuelca"
    BY <1>0, <1>7 DEF HaceDesaloja
  <2> QED
    BY <1>3, <1>7, <2>1 DEF HaceDesaloja
<1>8. ASSUME HaceTermina(w) \/ HaceContestaDesalojo(w) PROVE Sale
  <2>1. hilo'[w] = Libre /\ memoria' = memoria
    BY <1>0, <1>8 DEF HaceTermina, HaceContestaDesalojo
  <2> QED
    BY <1>3, <2>1 DEF Libre
<1>9. ASSUME HacePideInstruccion(w) PROVE Sale
  <2>1. hilo'[w].paso = "pide"
    BY <1>0, <1>9 DEF HacePideInstruccion
  <2> QED
    BY <1>3, <1>9, <2>1 DEF HacePideInstruccion
<1>10. ASSUME HaceEjecuta(w) PROVE Sale
  <2>1. hilo'[w].paso = "linea"
    BY <1>0, <1>10 DEF HaceEjecuta
  <2>2. memoria'[w][t] = Nadie \/ memoria[w][t] # Nadie
    BY <1>10 DEF HaceEjecuta
  <2> QED
    BY <2>1, <2>2 DEF Leida
<1>11. ASSUME HaceSirve(w) PROVE Sale
  <2>1. /\ memoria' = memoria /\ hilo'[w].op = hilo[w].op /\ hilo'[w].t = hilo[w].t
        /\ hilo'[w].res = "OK" => Sirvio(hilo[w].op, hilo[w].t, memoria[w][hilo[w].t].valor)
    BY <1>0, <1>11 DEF HaceSirve
  <2>2. Leida(w, t)' => disco[t] # Nadie
    BY <2>1 DEF Leida, Sirvio
  <2> QED
    BY <2>1, <2>2
<1>12. ASSUME Guardo(w, hilo[w].op, hilo[w].t, hilo[w].dato), hilo[w].paso = "recibe",
              hilo[w].res = "OK", hilo[w].op \in Pedidos
       PROVE  memoria'[w][t] # Nadie => memoria[w][t] # Nadie \/ Leida(w, t)
  <2>1. CASE hilo[w].t # t
    BY <1>12, <2>1 DEF Guardo
  <2>2. CASE hilo[w].t = t /\ hilo[w].op = "LEER"
    BY <1>12, <2>2 DEF Leida
  <2>3. CASE hilo[w].t = t /\ hilo[w].op = "ESCRIBIR"
    BY <1>0, <1>12, <2>3 DEF HiloBien, EnPedido, Modificada
  <2>4. CASE hilo[w].op \notin {"LEER", "ESCRIBIR"}
    BY <1>12, <2>4 DEF Guardo
  <2> QED
    BY <2>1, <2>2, <2>3, <2>4
<1>13. ASSUME HaceRecibe(w) PROVE Sale
  <2>1. CASE RecibeMal(w)
    <3>1. hilo'[w] = Libre /\ memoria' = memoria
      BY <1>0, <2>1 DEF RecibeMal
    <3> QED
      BY <1>3, <3>1 DEF Libre
  <2>2. CASE RecibeBien(w)
    <3>1. hilo'[w].paso \in {"ejecuta", "linea"}
      BY <1>0, <2>2 DEF RecibeBien
    <3>2. memoria'[w][t] # Nadie => memoria[w][t] # Nadie \/ Leida(w, t)
      BY <1>12, <1>13, <2>2 DEF HaceRecibe, RecibeBien
    <3> QED
      BY <3>1, <3>2 DEF Leida
  <2> QED
    BY <1>13, <2>1, <2>2 DEF HaceRecibe
<1>14. ASSUME HaceVuelca(w) PROVE Sale
  <2>1. hilo'[w].paso = "pide"
    BY <1>0, <1>14 DEF HaceVuelca
  <2> QED
    BY <1>3, <1>14, <2>1 DEF HaceVuelca
<1>15. ASSUME HaceRecibeVolcado(w) PROVE Sale
  <2>1. hilo'[w].paso = "vuelca"
    BY <1>0, <1>15 DEF HaceRecibeVolcado
  <2>2. memoria'[w][t] # Nadie => memoria[w][t] # Nadie \/ Leida(w, t)
    <3>1. CASE memoria' = memoria
      BY <3>1
    <3>2. CASE hilo[w].res = "OK" /\ Guardo(w, hilo[w].op, hilo[w].t, hilo[w].dato)
      BY <1>12, <1>15, <3>2 DEF HaceRecibeVolcado, Pedidos
    <3> QED
      BY <1>15, <3>1, <3>2 DEF HaceRecibeVolcado
  <2> QED
    BY <2>1, <2>2 DEF Leida
<1>16. Sale
  BY <1>4, <1>5, <1>6, <1>7, <1>8, <1>9, <1>10, <1>11, <1>13, <1>14, <1>15 DEF HaceAlgo
<1>17. \A v \in Worker : memoria'[v][t] # Nadie \/ Leida(v, t)'
                        => memoria[v][t] # Nadie \/ Leida(v, t) \/ disco[t] # Nadie
  BY <1>2, <1>16
<1> QED
  BY <1>1, <1>17, DiscoIgual

-----------------------------------------------------------------------------
(* The flush.                                                              *)

\* A page that was safe stays so, whoever's the step is, while it is not written.
LEMMA GuardadaSigue ==
    ASSUME Base, NEW v \in Worker, NEW t \in Tag, DiscoBien(t), Avanza(t), Guardada(v, t),
           Modificada(v, t)' => Modificada(v, t)
    PROVE  Guardada(v, t)'
<1>1. SUFFICES ASSUME Modificada(v, t)' PROVE archivo'[t] # "WORK_IN_PROGRESS"
  BY DEF Guardada
<1>2. Modificada(v, t) /\ archivo[t] # "WORK_IN_PROGRESS"
  BY <1>1 DEF Guardada
<1>3. archivo[t] # "NO"
  BY <1>2 DEF Modificada, DiscoBien
<1>4. archivo[t] \in {"NO", "WORK_IN_PROGRESS", "COMMITED"}
  BY DEF Base, TypeOK
<1> QED
  BY <1>2, <1>3, <1>4 DEF Avanza

\* A worker that a step does not touch, whatever it does to Storage.
LEMMA VolcadoIgual ==
    ASSUME Base, NEW v \in Worker, VolcadoBien(v), \A t \in Tag : DiscoBien(t) /\ Avanza(t),
           hilo'[v] = hilo[v], memoria'[v] = memoria[v], cortes' = 0 => cortes = 0,
           Contesto(v)' => Contesto(v)
    PROVE  VolcadoBien(v)'
<1>0. HiloBien(v)
  BY DEF Base, HilosBien
<1>1. \A t \in Tag : Guardada(v, t) => Guardada(v, t)'
  <2>1. ASSUME NEW t \in Tag, Guardada(v, t) PROVE Guardada(v, t)'
    BY <2>1, ModificadaIgual, GuardadaSigue
  <2> QED
    BY <2>1
<1>2. ASSUME cortes = 0, hilo[v].desaloja, hilo[v].paso = "recibe", hilo[v].res # "OK"
      PROVE  archivo'[hilo[v].t] # "WORK_IN_PROGRESS"
  <2>1. PICK t \in Tag : t = hilo[v].t
    BY <1>0, <1>2 DEF HiloBien, EnPedido
  <2>2. archivo[t] # "WORK_IN_PROGRESS" /\ Modificada(v, t)
    BY <1>0, <1>2, <2>1 DEF HiloBien, EnPedido, VolcadoBien
  <2>3. archivo[t] # "NO" /\ Avanza(t)
    BY <2>2 DEF Modificada, DiscoBien
  <2>4. archivo[t] \in {"NO", "WORK_IN_PROGRESS", "COMMITED"}
    BY DEF Base, TypeOK
  <2> QED
    BY <2>1, <2>2, <2>3, <2>4 DEF Avanza
<1> QED
  BY <1>1, <1>2 DEF VolcadoBien

\* A thread that does not evict: what is left of it is an answer, if any.
LEMMA VolcadoSinDesalojo ==
    ASSUME NEW w \in Worker, ~ hilo'[w].desaloja, ~ Contesto(w)'
    PROVE  VolcadoBien(w)'
BY DEF VolcadoBien

\* While an answer is on its way the thread takes no step.
LEMMA SinRespuesta ==
    ASSUME Base, NEW w \in Worker, HaceAlgo(w), TurnoBien(w)
    PROVE  aMaster[w] = <<>> /\ ~ Contesto(w)
<1>1. hilo[w].paso # "libre" \/ enCola[w] # {}
  BY DEF HaceAlgo, HaceToma, HaceReconecta, HaceReconectaEnVano, HaceDesaloja, HaceTermina,
         HacePideInstruccion, HaceEjecuta, HaceSirve, HaceRecibe, HaceVuelca, HaceRecibeVolcado,
         HaceContestaDesalojo
<1>2. aMaster[w] = <<>>
  BY <1>1 DEF TurnoBien
<1> QED
  BY <1>2 DEF Contesto

\* A step of the query thread, during the flush or not.
LEMMA VolcadoProcesa ==
    ASSUME WorkerAssumption, Base, NEW w \in Worker, HaceAlgo(w), VidaBien(w), TurnoBien(w),
           integro', VolcadoBien(w), \A t \in Tag : DiscoBien(t)
    PROVE  VolcadoBien(w)'
<1>0. /\ TypeOK /\ HiloBien(w) /\ hilo \in [Worker -> Hilo]
      /\ aMaster \in [Worker -> Seq(MsgAMaster)]
  BY DEF Base, HilosBien, TypeOK, MsgAMaster
<1>1. aMaster[w] = <<>> /\ ~ Contesto(w)
  BY SinRespuesta
<1>2. \A t \in Tag : Avanza(t)
  BY AvanzaProcesa
<1>3. ASSUME aMaster'[w] = aMaster[w] PROVE ~ Contesto(w)'
  BY <1>1, <1>3 DEF Contesto
<1>4. ASSUME NEW m \in MsgAMaster, aMaster' = [aMaster EXCEPT ![w] = Append(@, m)], m.op = "FIN"
      PROVE  ~ Contesto(w)'
  <2>1. aMaster'[w] = Append(<<>>, m)
    BY <1>0, <1>1, <1>4
  <2>2. aMaster'[w] = <<m>>
    BY <2>1
  <2> QED
    BY <1>4, <2>2 DEF Contesto
<1>5. ASSUME NEW q \in Query, HaceToma(w, q) PROVE VolcadoBien(w)'
  <2>1. ~ hilo'[w].desaloja
    BY <1>0, <1>5 DEF HaceToma, Libre
  <2> QED
    BY <1>3, <1>5, <2>1, VolcadoSinDesalojo DEF HaceToma
<1>6. ASSUME HaceReconecta(w) PROVE VolcadoBien(w)'
  <2>1. ~ hilo'[w].desaloja
    BY <1>0, <1>6 DEF HaceReconecta, Libre
  <2> QED
    BY <1>3, <1>6, <2>1, VolcadoSinDesalojo DEF HaceReconecta
<1>7. ASSUME HaceReconectaEnVano(w) PROVE VolcadoBien(w)'
  <2>1. ~ hilo'[w].desaloja
    BY <1>0, <1>7 DEF HaceReconectaEnVano, Libre
  <2> QED
    BY <1>3, <1>7, <2>1, VolcadoSinDesalojo DEF HaceReconectaEnVano
<1>8. ASSUME HaceDesaloja(w) PROVE VolcadoBien(w)'
  <2>1. /\ hilo'[w].paso = "vuelca" /\ hilo'[w].faltan = Modificadas(w) /\ memoria' = memoria
        /\ aMaster' = aMaster
    BY <1>0, <1>8 DEF HaceDesaloja
  <2>2. ASSUME NEW t \in Tag, t \notin Modificadas(w) PROVE Guardada(w, t)'
    BY <2>1, <2>2 DEF Guardada, Modificadas, Modificada
  <2>3. ~ Contesto(w)'
    BY <1>3, <2>1
  <2> QED
    BY <2>1, <2>2, <2>3 DEF VolcadoBien
<1>9. ASSUME HaceTermina(w) PROVE VolcadoBien(w)'
  <2>1. /\ ~ hilo'[w].desaloja
        /\ [op |-> "FIN", q |-> hilo[w].q, dato |-> 1] \in MsgAMaster
    BY <1>0, <1>9 DEF HaceTermina, Libre, MsgAMaster
  <2>2. ~ Contesto(w)'
    BY <1>4, <1>9, <2>1 DEF HaceTermina
  <2> QED
    BY <2>1, <2>2, VolcadoSinDesalojo
<1>10. ASSUME HacePideInstruccion(w) PROVE VolcadoBien(w)'
  <2>1. hilo'[w].desaloja = hilo[w].desaloja /\ hilo[w].desaloja = FALSE /\ aMaster' = aMaster
    BY <1>0, <1>10 DEF HacePideInstruccion, HiloBien, EnPedido, Hilo
  <2> QED
    BY <1>3, <2>1, VolcadoSinDesalojo
<1>11. ASSUME HaceEjecuta(w) PROVE VolcadoBien(w)'
  <2>1. hilo'[w].desaloja = hilo[w].desaloja /\ hilo[w].desaloja = FALSE /\ aMaster' = aMaster
    BY <1>0, <1>11 DEF HaceEjecuta, HiloBien, EnPedido, Hilo
  <2> QED
    BY <1>3, <2>1, VolcadoSinDesalojo
<1>12. ASSUME HaceRecibe(w) PROVE VolcadoBien(w)'
  <2>1. CASE RecibeBien(w)
    <3>1. ~ hilo'[w].desaloja /\ aMaster' = aMaster
      BY <1>0, <2>1 DEF RecibeBien
    <3> QED
      BY <1>3, <3>1, VolcadoSinDesalojo
  <2>2. CASE RecibeMal(w)
    <3>1. /\ ~ hilo'[w].desaloja
          /\ [op |-> "FIN", q |-> hilo[w].q, dato |-> 0] \in MsgAMaster
      BY <1>0, <1>12, <2>2 DEF HaceRecibe, RecibeMal, Libre, MsgAMaster
    <3>2. ~ Contesto(w)'
      BY <1>4, <2>2, <3>1 DEF RecibeMal
    <3> QED
      BY <3>1, <3>2, VolcadoSinDesalojo
  <2> QED
    BY <1>12, <2>1, <2>2 DEF HaceRecibe
<1>13. ASSUME cortes' = 0, cortes' = cortes,
              NEW t \in Tag, t \in hilo[w].faltan \/ Guardada(w, t),
              Modificada(w, t)' => Modificada(w, t)
       PROVE  t \in hilo[w].faltan \/ Guardada(w, t)'
  BY <1>2, <1>13, GuardadaSigue
<1>14. ASSUME HaceVuelca(w) PROVE VolcadoBien(w)'
  <2>1. /\ hilo'[w].paso = "pide" /\ hilo'[w].faltan = hilo[w].faltan /\ hilo[w].desaloja
        /\ memoria' = memoria /\ aMaster' = aMaster /\ cortes' = cortes
    BY <1>0, <1>14 DEF HaceVuelca
  <2>2. ASSUME cortes' = 0, NEW t \in Tag PROVE t \in hilo[w].faltan \/ Guardada(w, t)'
    <3>1. t \in hilo[w].faltan \/ Guardada(w, t)
      BY <2>1, <2>2 DEF VolcadoBien
    <3>2. Modificada(w, t)' => Modificada(w, t)
      BY <2>1, ModificadaIgual
    <3> QED
      BY <1>13, <2>1, <2>2, <3>1, <3>2
  <2>3. ~ Contesto(w)'
    BY <1>3, <2>1
  <2> QED
    BY <2>1, <2>2, <2>3 DEF VolcadoBien
<1>15. ASSUME HaceSirve(w) PROVE VolcadoBien(w)'
  <2>1. /\ hilo[w].paso = "pide" /\ hilo'[w].faltan = hilo[w].faltan
        /\ hilo'[w].desaloja = hilo[w].desaloja /\ hilo'[w].t = hilo[w].t
        /\ memoria' = memoria /\ aMaster' = aMaster /\ cortes' = cortes
    BY <1>0, <1>15 DEF HaceSirve
  <2>2. ASSUME cortes' = 0, hilo[w].desaloja, NEW t \in Tag
        PROVE  t \in hilo[w].faltan \/ Guardada(w, t)'
    <3>1. t \in hilo[w].faltan \/ Guardada(w, t)
      BY <2>1, <2>2 DEF VolcadoBien
    <3>2. Modificada(w, t)' => Modificada(w, t)
      BY <2>1, ModificadaIgual
    <3> QED
      BY <1>13, <2>1, <2>2, <3>1, <3>2
  <2>3. ASSUME cortes' = 0, hilo[w].desaloja, hilo'[w].res # "OK"
        PROVE  archivo'[hilo[w].t] # "WORK_IN_PROGRESS"
    <3>1. conexion[w] = "abierta"
      BY <2>1, <2>3 DEF VidaBien
    <3>2. PICK t \in Tag : t = hilo[w].t /\ hilo[w].op = "ESCRIBIR" /\ Modificada(w, t)
      BY <1>0, <2>1, <2>3 DEF HiloBien, EnPedido
    <3>3. Rechazado(hilo[w].op, hilo[w].t) /\ archivo' = archivo
      BY <1>0, <1>15, <2>3, <3>1 DEF HaceSirve
    <3>4. disco[t] # Nadie
      BY <3>2 DEF Modificada, DiscoBien
    <3> QED
      BY <3>2, <3>3, <3>4 DEF Rechazado
  <2>4. ~ Contesto(w)'
    BY <1>3, <2>1
  <2> QED
    BY <2>1, <2>2, <2>3, <2>4 DEF VolcadoBien
<1>16. ASSUME HaceRecibeVolcado(w) PROVE VolcadoBien(w)'
  <2>1. /\ hilo[w].paso = "recibe" /\ hilo[w].desaloja /\ hilo[w].op = "ESCRIBIR"
        /\ hilo'[w].paso = "vuelca" /\ hilo'[w].faltan = hilo[w].faltan \ {hilo[w].t}
        /\ aMaster' = aMaster /\ archivo' = archivo /\ cortes' = cortes
    BY <1>0, <1>16 DEF HaceRecibeVolcado
  <2>2. PICK u \in Tag : u = hilo[w].t
    BY <1>16 DEF HaceRecibeVolcado
  <2>3. ASSUME cortes' = 0 PROVE Guardada(w, u)'
    <3>1. CASE hilo[w].res = "OK"
      <4>1. conexion[w] = "abierta"
        BY <2>1, <2>3 DEF VidaBien
      <4>2. Guardo(w, "ESCRIBIR", u, hilo[w].dato)
        BY <1>16, <2>1, <2>2, <3>1, <4>1 DEF HaceRecibeVolcado
      <4>3. ~ Modificada(w, u)'
        BY <4>2 DEF Guardo, Modificada
      <4> QED
        BY <4>3 DEF Guardada
    <3>2. CASE hilo[w].res # "OK"
      <4>1. archivo[u] # "WORK_IN_PROGRESS"
        BY <2>1, <2>2, <2>3, <3>2 DEF VolcadoBien
      <4> QED
        BY <2>1, <4>1 DEF Guardada
    <3> QED
      BY <3>1, <3>2
  <2>4. ASSUME cortes' = 0, NEW t \in Tag, t # u
        PROVE  t \in hilo[w].faltan \/ Guardada(w, t)'
    <3>1. t \in hilo[w].faltan \/ Guardada(w, t)
      BY <2>1, <2>4 DEF VolcadoBien
    <3>2. memoria'[w][t] = memoria[w][t]
      BY <1>16, <2>2, <2>4 DEF HaceRecibeVolcado, Guardo
    <3>3. Modificada(w, t)' => Modificada(w, t)
      BY <3>2, ModificadaIgual
    <3> QED
      BY <1>13, <2>1, <2>4, <3>1, <3>3
  <2>5. ~ Contesto(w)'
    BY <1>3, <2>1
  <2> QED
    BY <2>1, <2>2, <2>3, <2>4, <2>5 DEF VolcadoBien
<1>17. ASSUME HaceContestaDesalojo(w) PROVE VolcadoBien(w)'
  <2>1. /\ hilo[w].desaloja /\ hilo[w].faltan = {} /\ hilo'[w] = Libre
        /\ memoria' = memoria /\ cortes' = cortes
    BY <1>0, <1>17 DEF HaceContestaDesalojo
  <2>2. ASSUME cortes' = 0, NEW t \in Tag PROVE Guardada(w, t)'
    <3>1. Guardada(w, t)
      BY <2>1, <2>2 DEF VolcadoBien
    <3>2. Modificada(w, t)' => Modificada(w, t)
      BY <2>1, ModificadaIgual
    <3> QED
      BY <1>2, <3>1, <3>2, GuardadaSigue
  <2>3. ~ hilo'[w].desaloja
    BY <2>1 DEF Libre
  <2> QED
    BY <2>2, <2>3 DEF VolcadoBien
<1> QED
  BY <1>5, <1>6, <1>7, <1>8, <1>9, <1>10, <1>11, <1>12, <1>14, <1>15, <1>16, <1>17 DEF HaceAlgo

-----------------------------------------------------------------------------
(* The invariant, and the theorems.                                        *)

VidasYTurnos == \A w \in Worker : VidaBien(w) /\ TurnoBien(w)
DiscosBien == \A t \in Tag : DiscoBien(t)
VolcadosBien == \A w \in Worker : VolcadoBien(w)
Desalojos == Base /\ VidasYTurnos /\ (integro => DiscosBien /\ VolcadosBien)

\* The invariant holds at the start ...
LEMMA DesalojosInicial ==
    ASSUME WorkerAssumption, Init
    PROVE  Desalojos
<1>1. ASSUME NEW w \in Worker PROVE VidaBien(w) /\ TurnoBien(w) /\ VolcadoBien(w)
  <2>1. /\ etapa[w] = "listo" /\ conexion[w] = "abierta" /\ hilo[w] = Libre
        /\ enCola[w] = {} /\ aWorker[w] = <<>> /\ aMaster[w] = <<>>
    BY <1>1 DEF Init
  <2>2. hilo[w].paso = "libre" /\ hilo[w].desaloja = FALSE
    BY <2>1 DEF Libre
  <2> QED
    BY <2>1, <2>2 DEF VidaBien, EnInstruccion, TurnoBien, UnaOrden, SinOrden, VolcadoBien, Contesto
<1>2. ASSUME NEW t \in Tag PROVE DiscoBien(t)
  <2>1. disco[t] # Nadie => archivo[t] # "NO"
    BY <1>2 DEF Init
  <2>2. \A w \in Worker : memoria[w][t] = Nadie /\ ~ Leida(w, t)
    BY <1>2 DEF Init, Leida, Libre
  <2> QED
    BY <2>1, <2>2 DEF DiscoBien
<1> QED
  BY <1>1, <1>2, BaseInicial DEF Desalojos, VidasYTurnos, DiscosBien, VolcadosBien

\* A step of a query thread.
LEMMA DesalojosProcesa ==
    ASSUME WorkerAssumption, Desalojos, Base', integro' => integro, NEW w \in Worker,
           ProcesaQuery(w) \/ Sirve(w)
    PROVE  Desalojos'
<1>0. /\ Base /\ TypeOK /\ \A v \in Worker : VidaBien(v) /\ TurnoBien(v)
      /\ integro' => \A v \in Worker : VolcadoBien(v)
      /\ integro' => \A t \in Tag : DiscoBien(t)
  BY DEF Desalojos, VidasYTurnos, DiscosBien, VolcadosBien, Base
<1>1. HaceAlgo(w)
  BY <1>0, EfectoProcesa DEF Base, HilosBien
<1>2. \A v \in Worker : VidaBien(v)'
  BY <1>0, <1>1, VidaProcesa
<1>3. /\ enCola \in [Worker -> SUBSET Query] /\ aWorker \in [Worker -> Seq(MsgAWorker)]
      /\ aMaster \in [Worker -> Seq(MsgAMaster)]
  BY <1>0 DEF TypeOK, MsgAWorker, MsgAMaster
<1>4. ASSUME NEW v \in Worker, v # w PROVE TurnoBien(v)' /\ (integro' => VolcadoBien(v)')
  <2>1. hilo'[v] = hilo[v] /\ memoria'[v] = memoria[v]
    BY <1>0, <1>1, <1>4, ProcesaLoSuyo
  <2>2. /\ aWorker'[v] = aWorker[v] /\ enCola'[v] = enCola[v] /\ aMaster'[v] = aMaster[v]
        /\ asignada' = asignada /\ cortes' = cortes
    BY <1>1, <1>3, <1>4 DEF HaceAlgo, HaceToma, HaceReconecta, HaceReconectaEnVano,
       HaceDesaloja, HaceTermina, HacePideInstruccion, HaceEjecuta, HaceSirve, HaceRecibe,
       RecibeBien, RecibeMal, HaceVuelca, HaceRecibeVolcado, HaceContestaDesalojo
  <2>3. TurnoBien(v)'
    BY <1>0, <2>1, <2>2, TurnoIgual
  <2>4. \A t \in Tag : (integro' => DiscoBien(t)) /\ Avanza(t)
    BY <1>0, <1>1, AvanzaProcesa
  <2>5. Contesto(v)' => Contesto(v)
    BY <2>2 DEF Contesto
  <2> QED
    BY <1>0, <2>1, <2>2, <2>3, <2>4, <2>5, VolcadoIgual
<1>5. TurnoBien(w)' /\ (integro' => VolcadoBien(w)')
  BY <1>0, <1>1, TurnoProcesa, VolcadoProcesa
<1>6. integro' => \A t \in Tag : DiscoBien(t)'
  BY <1>0, <1>1, DiscoProcesa
<1> QED
  BY <1>2, <1>4, <1>5, <1>6 DEF Desalojos, VidasYTurnos, DiscosBien, VolcadosBien

\* The other steps: none touches a thread, a memory or a file.
LEMMA DesalojosOtros ==
    ASSUME WorkerAssumption, Desalojos, Base', integro' => integro,
           \/ \E w \in Worker : Escucha(w)
           \/ CaeStorage \/ VuelveStorage
           \/ \E w \in Worker : \E q \in Query : MasterAsigna(w, q)
           \/ \E w \in Worker : MasterPideDesalojo(w) \/ MasterRecibe(w) \/ MasterPierde(w)
    PROVE  Desalojos'
<1>0. /\ Base /\ TypeOK /\ \A v \in Worker : VidaBien(v) /\ TurnoBien(v)
      /\ integro' => \A v \in Worker : VolcadoBien(v)
      /\ integro' => \A t \in Tag : DiscoBien(t)
  BY DEF Desalojos, VidasYTurnos, DiscosBien, VolcadosBien, Base
<1>1. \A v \in Worker : VidaBien(v)'
  BY <1>0, VidaOtros
<1>2. UNCHANGED <<hilo, memoria>>
  BY OtrosQuietos
<1>3. UNCHANGED <<archivo, disco>> /\ (cortes' = 0 => cortes = 0)
  <2>1. CASE CaeStorage
    <3>1. cortes \in 0..MaxCortes
      BY <1>0 DEF TypeOK
    <3> QED
      BY <2>1, <3>1 DEF CaeStorage
  <2>2. CASE ~ CaeStorage
    BY <2>2 DEF Escucha, VuelveStorage, MasterAsigna, MasterPideDesalojo, MasterRecibe,
       MasterPierde, storage
  <2> QED
    BY <2>1, <2>2
<1>4. \A t \in Tag : Avanza(t) /\ (integro' => DiscoBien(t)')
  <2>1. ASSUME NEW t \in Tag PROVE Avanza(t) /\ (integro' => DiscoBien(t)')
    <3>1. Avanza(t)
      BY <1>3, AvanzaQuieto
    <3>2. \A v \in Worker : memoria'[v][t] # Nadie \/ Leida(v, t)'
                           => memoria[v][t] # Nadie \/ Leida(v, t) \/ disco[t] # Nadie
      BY <1>2 DEF Leida
    <3> QED
      BY <1>0, <3>1, <3>2, DiscoIgual
  <2> QED
    BY <2>1
<1>5. /\ enCola \in [Worker -> SUBSET Query] /\ aWorker \in [Worker -> Seq(MsgAWorker)]
      /\ aMaster \in [Worker -> Seq(MsgAMaster)] /\ asignada \in [Worker -> Query \cup {NoQuery}]
  BY <1>0 DEF TypeOK, MsgAWorker, MsgAMaster
<1>6. ASSUME integro', NEW v \in Worker PROVE VolcadoBien(v)'
  <2>1. Contesto(v)' => Contesto(v)
    <3>1. ASSUME NEW w \in Worker, MasterRecibe(w), Contesto(v)' PROVE Contesto(v)
      <4>1. CASE v # w
        BY <1>5, <3>1, <4>1 DEF MasterRecibe, Contesto
      <4>2. CASE v = w
        <5>1. PICK s \in Seq(MsgAMaster) : s = aMaster[w] /\ s # <<>>
          BY <1>5, <3>1 DEF MasterRecibe
        <5>2. aMaster'[w] = Tail(s)
          BY <1>5, <3>1, <5>1 DEF MasterRecibe
        <5>3. \A i \in DOMAIN Tail(s) : i + 1 \in DOMAIN s /\ Tail(s)[i] = s[i + 1]
          <6>1. /\ DOMAIN Tail(s) = 1..(Len(s) - 1) /\ DOMAIN s = 1..Len(s) /\ Len(s) \in Nat \ {0}
                /\ \A i \in DOMAIN Tail(s) : Tail(s)[i] = s[i + 1]
            BY <5>1, ColaMengua
          <6> QED
            BY <6>1
        <5> QED
          BY <3>1, <4>2, <5>1, <5>2, <5>3 DEF Contesto
      <4> QED
        BY <4>1, <4>2
    <3>2. CASE ~ \E w \in Worker : MasterRecibe(w)
      <4>1. aMaster' = aMaster
        BY <3>2 DEF Escucha, CaeStorage, VuelveStorage, MasterAsigna, MasterPideDesalojo,
           MasterPierde, canales
      <4> QED
        BY <4>1 DEF Contesto
    <3> QED
      BY <3>1, <3>2
  <2> QED
    BY <1>0, <1>2, <1>3, <1>4, <1>6, <2>1, VolcadoIgual
<1>7. ASSUME NEW v \in Worker PROVE TurnoBien(v)'
  <2>1. ASSUME NEW w \in Worker, Escucha(w) PROVE TurnoBien(v)'
    <3>1. CASE v # w
      <4>1. /\ aWorker'[v] = aWorker[v] /\ enCola'[v] = enCola[v] /\ aMaster' = aMaster
            /\ asignada' = asignada /\ hilo' = hilo
        BY <1>5, <2>1, <3>1 DEF Escucha, master
      <4> QED
        BY <1>0, <4>1, TurnoIgual
    <3> QED
      BY <1>0, <2>1, <3>1, TurnoEscucha
  <2>2. ASSUME NEW w \in Worker, NEW q \in Query, MasterAsigna(w, q) PROVE TurnoBien(v)'
    <3>1. CASE v # w
      <4>1. /\ aWorker'[v] = aWorker[v] /\ enCola' = enCola /\ aMaster' = aMaster
            /\ asignada'[v] = asignada[v] /\ hilo' = hilo
        BY <1>5, <2>2, <3>1 DEF MasterAsigna, MasterEnvia
      <4> QED
        BY <1>0, <4>1, TurnoIgual
    <3> QED
      BY <1>0, <2>2, <3>1, TurnoAsigna
  <2>3. ASSUME NEW w \in Worker, MasterPideDesalojo(w) PROVE TurnoBien(v)'
    <3>1. CASE v # w
      <4>1. /\ aWorker'[v] = aWorker[v] /\ enCola' = enCola /\ aMaster' = aMaster
            /\ asignada' = asignada /\ hilo' = hilo
        BY <1>5, <2>3, <3>1 DEF MasterPideDesalojo, MasterEnvia
      <4> QED
        BY <1>0, <4>1, TurnoIgual
    <3> QED
      BY <1>0, <2>3, <3>1, TurnoPideDesalojo
  <2>4. ASSUME NEW w \in Worker, MasterRecibe(w) PROVE TurnoBien(v)'
    <3>1. CASE v # w
      <4>1. /\ aWorker' = aWorker /\ enCola' = enCola /\ aMaster'[v] = aMaster[v]
            /\ asignada'[v] = asignada[v] /\ hilo' = hilo
        BY <1>5, <2>4, <3>1 DEF MasterRecibe
      <4> QED
        BY <1>0, <4>1, TurnoIgual
    <3> QED
      BY <1>0, <2>4, <3>1, TurnoRecibe
  <2>5. ASSUME NEW w \in Worker, MasterPierde(w) PROVE TurnoBien(v)'
    <3>1. CASE v # w
      <4>1. /\ aWorker' = aWorker /\ enCola' = enCola /\ aMaster' = aMaster
            /\ asignada'[v] = asignada[v] /\ hilo' = hilo
        BY <1>5, <2>5, <3>1 DEF MasterPierde, canales
      <4> QED
        BY <1>0, <4>1, TurnoIgual
    <3> QED
      BY <1>0, <2>5, <3>1, TurnoPierde
  <2>6. ASSUME CaeStorage \/ VuelveStorage PROVE TurnoBien(v)'
    <3>1. UNCHANGED <<aWorker, enCola, aMaster, asignada, hilo>>
      BY <2>6 DEF CaeStorage, VuelveStorage, canales, master
    <3> QED
      BY <1>0, <3>1, TurnoIgual
  <2> QED
    BY <2>1, <2>2, <2>3, <2>4, <2>5, <2>6
<1> QED
  BY <1>1, <1>4, <1>6, <1>7 DEF Desalojos, VidasYTurnos, DiscosBien, VolcadosBien

\* ... and after each step.
LEMMA DesalojosPaso ==
    ASSUME WorkerAssumption, Desalojos, [Next]_vars
    PROVE  Desalojos'
<1>1. Base'
  BY BasePaso DEF Desalojos
<1>0. integro' => integro
  BY IntegroAntes DEF Desalojos, Base, HilosBien
<1>2. CASE Aparte
  <2>1. UNCHANGED <<cortes, archivo, disco, etapa, conexion, memoria, enCola, hilo, aWorker,
                    aMaster, asignada>>
    BY <1>2 DEF Aparte
  <2>2. ASSUME NEW w \in Worker PROVE VidaBien(w)' /\ TurnoBien(w)'
    BY <2>1 DEF Desalojos, VidasYTurnos, VidaBien, EnInstruccion, TurnoBien, UnaOrden, SinOrden
  <2>3. ASSUME integro', NEW w \in Worker PROVE VolcadoBien(w)'
    BY <1>0, <2>1, <2>3 DEF Desalojos, VolcadosBien, VolcadoBien, Contesto, Guardada, Modificada
  <2>4. ASSUME integro', NEW t \in Tag PROVE DiscoBien(t)'
    BY <1>0, <2>1, <2>4 DEF Desalojos, DiscosBien, DiscoBien, Leida
  <2> QED
    BY <1>1, <2>2, <2>3, <2>4 DEF Desalojos, VidasYTurnos, DiscosBien, VolcadosBien
<1> QED
  BY <1>0, <1>1, <1>2, PasoEs, DesalojosProcesa, DesalojosOtros DEF Desalojos, Base

\* A Worker has one query at most at any time, in its queue of messages, waiting
\* for mutex_query_execution, running or answered, and none that the Master has
\* not given it: what it assigns next finds a Worker with nothing to do.
THEOREM WorkerUnTurno == Spec => [](\A w \in Worker : TurnoBien(w))
<1>1. Init => Desalojos
  BY WorkerAssumption, DesalojosInicial
<1>2. Desalojos /\ [Next]_vars => Desalojos'
  BY WorkerAssumption, DesalojosPaso
<1>3. Desalojos => \A w \in Worker : TurnoBien(w)
  BY DEF Desalojos, VidasYTurnos
<1> QED
  BY <1>1, <1>2, <1>3, PTL DEF Spec

\* While Storage has not stopped, has had blocks and its requests have not got in
\* each other's way, an answer to an eviction finds every modified page of the
\* Worker written or no longer writable: flush_todas_las_paginas_modificadas
\* leaves nothing behind, and nothing runs before the Master knows.
THEOREM WorkerVuelca == Spec => []VolcadoAlDesalojar
<1>1. Init => Desalojos
  BY WorkerAssumption, DesalojosInicial
<1>2. Desalojos /\ [Next]_vars => Desalojos'
  BY WorkerAssumption, DesalojosPaso
<1>3. Desalojos => VolcadoAlDesalojar
  <2>1. SUFFICES ASSUME Desalojos, integro, cortes = 0, NEW w \in Worker, Contesto(w),
                        NEW t \in Modificadas(w)
                 PROVE  archivo[t] # "WORK_IN_PROGRESS"
    BY DEF VolcadoAlDesalojar, Contesto
  <2>2. t \in Tag /\ Modificada(w, t)
    BY DEF Modificadas
  <2> QED
    BY <2>1, <2>2 DEF Desalojos, VolcadosBien, VolcadoBien, Guardada
<1> QED
  BY <1>1, <1>2, <1>3, PTL DEF Spec
=============================================================================
