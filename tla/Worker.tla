------------------------------- MODULE Worker -------------------------------
(***************************************************************************)
(* The threads and the connections of the Workers (src/worker/src/worker.c *)
(* and the requests of worker_memory.c): the thread that reads the         *)
(* Master's messages, the thread that runs a query under                   *)
(* mutex_query_execution, the eviction flag between them, and the          *)
(* connection to Storage, checked and made again at the start of a query.  *)
(*                                                                         *)
(* Storage is another process, which may stop and start again over the     *)
(* same files, with a thread for each Worker.  What a request does there   *)
(* is what Archivos says (Storage models the steps of one) for as long as  *)
(* none that writes is under way with another, or is cut, and no WRITE     *)
(* runs out of blocks: integro.  From there on Storage may answer anything.*)
(* An answer may be lost.  The Master is what a Worker sees                *)
(* of it: it hands a waiting query to a Worker without one, may ask for it *)
(* back, and handles the answers in order.  Each file has one tag and each *)
(* tag one page, and there is a frame for each (WorkerMemory models        *)
(* replacement).  CREATE stands for every instruction that is one request  *)
(* Storage may refuse, TAG among them; DELETE, which also empties the      *)
(* memory, is in WorkerMemory.  The results of READ are left out, and a    *)
(* Worker that a signal stops (Master models it).                          *)
(***************************************************************************)
EXTENDS Integers, Sequences, FiniteSets

CONSTANTS
    Worker,        \* Worker processes
    Query,         \* queries
    NoQuery,       \* no query
    Tag,           \* file:tags
    Valor,         \* contents of a page
    Cero,          \* contents of a block TRUNCATE adds
    Nadie,         \* no page, no file:tag
    Guion,         \* the lines of each script
    SinArchivo,    \* queries whose script a Worker may not find
    Existentes,    \* file:tags that exist, with a block, at the start
    MaxDesalojos,  \* bound: evictions the Master asks for
    MaxCortes      \* bound: times Storage stops

Instruccion == [op : {"CREATE", "TRUNCATE", "WRITE", "READ", "FLUSH", "COMMIT"},
                t : Tag, v : Valor \cup {Nadie}]
               \cup [op : {"END", "DESCONOCIDA"}]

Pagina == [valor : Valor, modificada : BOOLEAN]

ASSUME WorkerAssumption ==
    /\ IsFiniteSet(Worker) /\ IsFiniteSet(Query) /\ IsFiniteSet(Tag)
    /\ NoQuery \notin Query
    /\ Nadie \notin Tag \cup Valor \cup Pagina /\ Cero \in Valor
    /\ Guion \in [Query -> Seq(Instruccion)]
    /\ \A q \in Query : \A i \in DOMAIN Guion[q] :
           Guion[q][i].op = "WRITE" => Guion[q][i].v \in Valor
    /\ SinArchivo \subseteq Query /\ Existentes \subseteq Tag
    /\ MaxDesalojos \in Nat /\ MaxCortes \in Nat

VARIABLES
    viva,       \* Storage is running
    cortes,     \* times it has stopped
    archivo,    \* ESTADO of each file:tag in Storage
    disco,      \* contents of its block, if it has one
    servicio,   \* what Storage's thread for each Worker is at
    integro,    \* no requests so far have got in each other's way
    etapa,      \* life of each Worker
    conexion,   \* fd_storage of each Worker
    memoria,    \* its page of each file:tag, if it is present
    desalojo,   \* desalojo_solicitado
    enCola,     \* queries whose thread waits for mutex_query_execution
    hilo,       \* the thread that holds it
    aWorker,    \* messages in flight, Master to Worker
    aMaster,    \* messages in flight, Worker to Master
    espera,     \* queries READY in the Master
    asignada,   \* the query the Master has given each Worker
    fin,        \* how each query ended
    desalojos   \* evictions asked for so far

storage == <<viva, cortes, archivo, disco, servicio, integro>>
canales == <<aWorker, aMaster>>
master == <<espera, asignada, fin, desalojos>>
vars == <<storage, etapa, conexion, memoria, desalojo, enCola, hilo, canales, master>>

Pasos == {"libre", "conecta", "linea", "ejecuta", "pide", "recibe", "vuelca"}
Pedidos == {"CREATE", "TRUNCATE", "COMMIT", "LEER", "ESCRIBIR"}

\* q runs line pc + 1; op on t is the request under way, res its answer and dato
\* the block it brings; while desaloja, faltan are the pages still to be written.
Hilo == [paso : Pasos, q : Query \cup {NoQuery}, pc : Nat,
         op : Pedidos \cup {"-"}, t : Tag \cup {Nadie}, res : {"-", "OK", "NO"},
         dato : Valor \cup {Nadie}, desaloja : BOOLEAN, faltan : SUBSET Tag]
Libre == [paso |-> "libre", q |-> NoQuery, pc |-> 0, op |-> "-", t |-> Nadie,
          res |-> "-", dato |-> Nadie, desaloja |-> FALSE, faltan |-> {}]

Final == [w : Worker, como : {"exito", "error", "baja"}]
SinFin == [w |-> Nadie, como |-> "no"]

\* Types of every variable.
TypeOK ==
    /\ viva \in BOOLEAN /\ cortes \in 0..MaxCortes
    /\ archivo \in [Tag -> {"NO", "WORK_IN_PROGRESS", "COMMITED"}]
    /\ disco \in [Tag -> Valor \cup {Nadie}]
    /\ servicio \in [Worker -> {"libre", "atiende", "guarda"}]
    /\ integro \in BOOLEAN
    /\ etapa \in [Worker -> {"listo", "caido"}]
    /\ conexion \in [Worker -> {"abierta", "cortada", "cerrada"}]
    /\ memoria \in [Worker -> [Tag -> Pagina \cup {Nadie}]]
    /\ desalojo \in [Worker -> BOOLEAN]
    /\ enCola \in [Worker -> SUBSET Query]
    /\ hilo \in [Worker -> Hilo]
    /\ aWorker \in [Worker -> Seq([op : {"INICIA", "DESALOJAR"}, q : Query])]
    /\ aMaster \in [Worker -> Seq([op : {"FIN", "DESALOJAR"}, q : Query, dato : Nat])]
    /\ espera \subseteq Query
    /\ asignada \in [Worker -> Query \cup {NoQuery}]
    /\ fin \in [Query -> Final \cup {SinFin}]
    /\ desalojos \in 0..MaxDesalojos

-----------------------------------------------------------------------------
(* manejar_comunicacion_master: a flag for an eviction, whatever query it  *)
(* names, and a thread for each query.                                     *)

Escucha(w) ==
    /\ etapa[w] = "listo" /\ aWorker[w] # <<>>
    /\ aWorker' = [aWorker EXCEPT ![w] = Tail(@)]
    /\ LET m == Head(aWorker[w])
       IN  \/ /\ m.op = "INICIA"
              /\ enCola' = [enCola EXCEPT ![w] = @ \cup {m.q}]
              /\ UNCHANGED desalojo
           \/ /\ m.op = "DESALOJAR"
              /\ desalojo' = [desalojo EXCEPT ![w] = TRUE]
              /\ UNCHANGED enCola
    /\ UNCHANGED <<storage, etapa, conexion, memoria, hilo, aMaster, master>>

-----------------------------------------------------------------------------
(* procesar_query.                                                         *)

En(w, paso) == etapa[w] = "listo" /\ hilo[w].paso = paso
Pasa(w, paso) == hilo' = [hilo EXCEPT ![w].paso = paso]

\* fopen; when it fails procesar_query returns without a word to the Master.
Abre(w, q) ==
    \/ hilo' = [hilo EXCEPT ![w] = [Libre EXCEPT !.q = q, !.paso = "linea"]]
    \/ q \in SinArchivo /\ hilo' = [hilo EXCEPT ![w] = Libre]

\* Lock, and verificar_conexion_storage: SO_ERROR tells a socket that was
\* closed here, never one that the other side has closed.
Toma(w, q) ==
    /\ En(w, "libre") /\ q \in enCola[w]
    /\ enCola' = [enCola EXCEPT ![w] = @ \ {q}]
    /\ IF conexion[w] = "cerrada"
       THEN hilo' = [hilo EXCEPT ![w] = [Libre EXCEPT !.q = q, !.paso = "conecta"]]
       ELSE Abre(w, q)
    /\ UNCHANGED <<storage, etapa, conexion, memoria, desalojo, canales, master>>

\* The process is gone, with its memory and what it had still to read.
Cae(w) ==
    /\ etapa' = [etapa EXCEPT ![w] = "caido"]
    /\ conexion' = [conexion EXCEPT ![w] = "cerrada"]
    /\ memoria' = [memoria EXCEPT ![w] = [t \in Tag |-> Nadie]]
    /\ hilo' = [hilo EXCEPT ![w] = Libre]
    /\ enCola' = [enCola EXCEPT ![w] = {}]
    /\ desalojo' = [desalojo EXCEPT ![w] = FALSE]
    /\ aWorker' = [aWorker EXCEPT ![w] = <<>>]

\* reconectar_storage and conectarse_a_storage; crear_conexion and a handshake
\* that is cut end the process.
Reconecta(w) ==
    /\ En(w, "conecta") /\ viva
    /\ conexion' = [conexion EXCEPT ![w] = "abierta"]
    /\ Abre(w, hilo[w].q)
    /\ UNCHANGED <<storage, etapa, memoria, desalojo, enCola, canales, master>>

\* Mutant: it tries again until Storage is there.
ReconectaInsiste(w) ==
    /\ En(w, "conecta") /\ ~ viva
    /\ UNCHANGED vars

ReconectaEnVano(w) ==
    /\ En(w, "conecta") /\ ~ viva
    /\ Cae(w)
    /\ UNCHANGED <<storage, aMaster, master>>

Modificada(w, t) == memoria[w][t] # Nadie /\ memoria[w][t].modificada
Modificadas(w) == {t \in Tag : Modificada(w, t)}

QuedanLineas(w) == hilo[w].pc < Len(Guion[hilo[w].q])
Linea(w) == Guion[hilo[w].q][hilo[w].pc + 1]

\* Mutant: the id is read after the lock was released.
ContestaTarde(w, op, dato) ==
    /\ hilo' = [hilo EXCEPT ![w] = Libre]
    /\ aMaster' = [aMaster EXCEPT ![w] = Append(@, [op |-> op, q |-> Libre.q, dato |-> dato])]

\* The answer, and unlock.
Contesta(w, op, dato) ==
    /\ aMaster' = [aMaster EXCEPT ![w] = Append(@, [op |-> op, q |-> hilo[w].q, dato |-> dato])]
    /\ hilo' = [hilo EXCEPT ![w] = Libre]

TerminaBien(w) == Contesta(w, "FIN", 1)
TerminaMal(w) == Contesta(w, "FIN", 0)

\* fgets and the check of the flag, which any eviction request has raised.
Desaloja(w) ==
    /\ En(w, "linea") /\ QuedanLineas(w) /\ desalojo[w]
    /\ desalojo' = [desalojo EXCEPT ![w] = FALSE]
    /\ hilo' = [hilo EXCEPT ![w] = [@ EXCEPT !.paso = "vuelca", !.desaloja = TRUE,
                                              !.faltan = Modificadas(w)]]
    /\ UNCHANGED <<storage, etapa, conexion, memoria, enCola, canales, master>>

\* The line is carried out, or goes on after one of its requests.
EnLinea(w) ==
    \/ En(w, "linea") /\ QuedanLineas(w) /\ ~ desalojo[w]
    \/ En(w, "ejecuta")

\* The last line was read, or END.
Termina(w) ==
    /\ \/ En(w, "linea") /\ ~ QuedanLineas(w)
       \/ EnLinea(w) /\ Linea(w).op = "END"
    /\ TerminaBien(w)
    /\ UNCHANGED <<storage, etapa, conexion, memoria, desalojo, enCola, aWorker, master>>

Pide(w, op, t) ==
    hilo' = [hilo EXCEPT ![w] = [@ EXCEPT !.paso = "pide", !.op = op, !.t = t]]
SigueLinea(w) ==
    hilo' = [hilo EXCEPT ![w] = [@ EXCEPT !.paso = "linea", !.pc = hilo[w].pc + 1]]

\* Mutant: COMMIT without the FLUSH.
PedidoSinFlush(i, w) ==
    CASE i.op \in {"CREATE", "TRUNCATE", "COMMIT"} -> i.op
      [] i.op \in {"WRITE", "READ"} /\ memoria[w][i.t] = Nadie -> "LEER"
      [] i.op = "FLUSH" /\ Modificada(w, i.t) -> "ESCRIBIR"
      [] OTHER -> "-"

\* WRITE and READ bring the page first, FLUSH and COMMIT write it if it is modified.
Pedido(i, w) ==
    CASE i.op \in {"CREATE", "TRUNCATE"} -> i.op
      [] i.op \in {"WRITE", "READ"} /\ memoria[w][i.t] = Nadie -> "LEER"
      [] i.op \in {"FLUSH", "COMMIT"} /\ Modificada(w, i.t) -> "ESCRIBIR"
      [] i.op = "COMMIT" /\ ~ Modificada(w, i.t) -> "COMMIT"
      [] OTHER -> "-"

\* ejecutar_instruccion: the next request it needs, or its end.
PideInstruccion(w) ==
    /\ EnLinea(w)
    /\ Pedido(Linea(w), w) # "-"
    /\ Pide(w, Pedido(Linea(w), w), Linea(w).t)
    /\ UNCHANGED <<storage, etapa, conexion, memoria, desalojo, enCola, canales, master>>

Ejecuta(w) ==
    /\ EnLinea(w) /\ Linea(w).op # "END"
    /\ Pedido(Linea(w), w) = "-"
    /\ SigueLinea(w)
    /\ memoria' = IF Linea(w).op = "WRITE"
                  THEN [memoria EXCEPT ![w][Linea(w).t] =
                            [valor |-> Linea(w).v, modificada |-> TRUE]]
                  ELSE memoria
    /\ UNCHANGED <<storage, etapa, conexion, desalojo, enCola, canales, master>>

-----------------------------------------------------------------------------
(* A request to Storage and its answer.                                    *)

\* What a request does.  To the Worker the answer NO to a COMMIT, which changes
\* nothing, is a good one.
Servido(op, t, v) ==
    \/ /\ op = "CREATE" /\ archivo[t] = "NO"
       /\ archivo' = [archivo EXCEPT ![t] = "WORK_IN_PROGRESS"]
       /\ UNCHANGED disco
    \/ /\ op = "TRUNCATE" /\ archivo[t] # "NO"
       /\ disco' = [disco EXCEPT ![t] = IF @ = Nadie THEN Cero ELSE @]
       /\ UNCHANGED archivo
    \/ /\ op = "LEER" /\ archivo[t] # "NO" /\ disco[t] # Nadie
       /\ UNCHANGED <<archivo, disco>>
    \/ /\ op = "ESCRIBIR" /\ archivo[t] = "WORK_IN_PROGRESS" /\ disco[t] # Nadie
       /\ disco' = [disco EXCEPT ![t] = v]
       /\ UNCHANGED archivo
    \/ /\ op = "COMMIT"
       /\ archivo' = [archivo EXCEPT ![t] = IF @ = "NO" THEN @ ELSE "COMMITED"]
       /\ UNCHANGED disco

Rechazado(op, t) ==
    \/ op = "CREATE" /\ archivo[t] # "NO"
    \/ op = "TRUNCATE" /\ archivo[t] = "NO"
    \/ op = "LEER" /\ disco[t] = Nadie
    \/ op = "ESCRIBIR" /\ (archivo[t] # "WORK_IN_PROGRESS" \/ disco[t] = Nadie)

\* Storage's thread reads metadata.config and works from what it read, with no
\* lock: only a READ may go on next to another READ.
Leyendo(w) == servicio[w] = "atiende" /\ hilo[w].op = "LEER"
Quieto(w) == servicio[w] = "libre" \/ Leyendo(w)

Atiende(w) ==
    /\ En(w, "pide") /\ conexion[w] = "abierta" /\ servicio[w] = "libre"
    /\ servicio' = [servicio EXCEPT ![w] = "atiende"]
    /\ integro' = /\ integro
                  /\ \A v \in Worker : IF hilo[w].op = "LEER" THEN Quieto(v)
                                       ELSE servicio[v] = "libre"
    /\ UNCHANGED <<viva, cortes, archivo, disco, etapa, conexion, memoria, desalojo, enCola,
                   hilo, canales, master>>

\* The answer, with the block that a READ brings.  A WRITE is answered before
\* its metadata is saved.
Responde(w, res, dato) ==
    /\ hilo' = [hilo EXCEPT ![w] = [@ EXCEPT !.paso = "recibe", !.res = res, !.dato = dato]]
    /\ servicio' = [servicio EXCEPT ![w] =
                       IF hilo[w].op = "ESCRIBIR" /\ res = "OK" THEN "guarda" ELSE "libre"]

Bien(w) ==
    /\ integro /\ UNCHANGED integro
    /\ LET h == hilo[w]
       IN  /\ Servido(h.op, h.t, IF h.op = "ESCRIBIR" THEN memoria[w][h.t].valor ELSE Nadie)
           /\ Responde(w, "OK", IF h.op = "LEER" THEN disco[h.t] ELSE Nadie)

Mal(w) ==
    /\ integro /\ UNCHANGED integro
    /\ Rechazado(hilo[w].op, hilo[w].t)
    /\ Responde(w, "NO", Nadie)
    /\ UNCHANGED <<archivo, disco>>

\* A WRITE that needs a block when none is free.
SinBloque(w) ==
    /\ integro /\ integro' = FALSE
    /\ hilo[w].op = "ESCRIBIR"
    /\ Responde(w, "NO", Nadie)
    /\ UNCHANGED <<archivo, disco>>

\* After requests that got in each other's way: nothing is said of the disk.
Cualquiera(w) ==
    /\ ~ integro /\ UNCHANGED integro
    /\ \/ Responde(w, "NO", Nadie)
       \/ \E dato \in IF hilo[w].op = "LEER" THEN Valor ELSE {Nadie} : Responde(w, "OK", dato)
    /\ UNCHANGED <<archivo, disco>>

Sirve(w) ==
    /\ En(w, "pide") /\ conexion[w] = "abierta" /\ servicio[w] = "atiende"
    /\ Bien(w) \/ Mal(w) \/ SinBloque(w) \/ Cualquiera(w)
    /\ UNCHANGED <<viva, cortes, etapa, conexion, memoria, desalojo, enCola, canales, master>>

\* The metadata that a WRITE saves after its answer.
Acaba(w) ==
    /\ servicio[w] = "guarda"
    /\ servicio' = [servicio EXCEPT ![w] = "libre"]
    /\ UNCHANGED <<viva, cortes, archivo, disco, integro, etapa, conexion, memoria, desalojo,
                   enCola, hilo, canales, master>>

HiloStorage(w) == Atiende(w) \/ Sirve(w) \/ Acaba(w)

\* What is sent on a connection that is not open reaches nobody.
EnviaEnVano(w) ==
    /\ En(w, "pide") /\ conexion[w] # "abierta"
    /\ Pasa(w, "recibe")
    /\ UNCHANGED <<storage, etapa, conexion, memoria, desalojo, enCola, canales, master>>

\* Mutant: the socket stays open after the end of file.
TrasRecibirSinCerrar(w) == conexion[w]

\* recibir_operacion closes the socket at the end of file.
TrasRecibir(w) == IF conexion[w] = "abierta" THEN "abierta" ELSE "cerrada"

Recibido(w) == conexion[w] = "abierta" /\ hilo[w].res = "OK"

\* What a good answer changes in memory.
TrasPedido(m, h) ==
    CASE h.op = "LEER" -> [m EXCEPT ![h.t] = [valor |-> h.dato, modificada |-> FALSE]]
      [] h.op = "ESCRIBIR" -> [m EXCEPT ![h.t].modificada = FALSE]
      [] OTHER -> m

Vuelve(w, paso, pc) ==
    hilo' = [hilo EXCEPT ![w] = [@ EXCEPT !.paso = paso, !.pc = pc, !.op = "-", !.t = Nadie,
                                          !.res = "-", !.dato = Nadie,
                                          !.faltan = hilo[w].faltan \ {hilo[w].t}]]

\* The answer to a request of an instruction; an error ends the query.
Recibe(w) ==
    /\ En(w, "recibe") /\ ~ hilo[w].desaloja
    /\ conexion' = [conexion EXCEPT ![w] = TrasRecibir(w)]
    /\ IF Recibido(w)
       THEN /\ memoria' = [memoria EXCEPT ![w] = TrasPedido(memoria[w], hilo[w])]
            /\ IF hilo[w].op \in {"LEER", "ESCRIBIR"}
               THEN Vuelve(w, "ejecuta", hilo[w].pc)
               ELSE Vuelve(w, "linea", hilo[w].pc + 1)
            /\ UNCHANGED aMaster
       ELSE /\ TerminaMal(w)
            /\ UNCHANGED memoria
    /\ UNCHANGED <<storage, etapa, desalojo, enCola, aWorker, master>>

-----------------------------------------------------------------------------
(* flush_todas_las_paginas_modificadas, whichever query they are of, and   *)
(* the answer.  A page that cannot be written stays modified.              *)

Vuelca(w) ==
    /\ En(w, "vuelca")
    /\ \E t \in hilo[w].faltan : Pide(w, "ESCRIBIR", t)
    /\ UNCHANGED <<storage, etapa, conexion, memoria, desalojo, enCola, canales, master>>

RecibeVolcado(w) ==
    /\ En(w, "recibe") /\ hilo[w].desaloja
    /\ conexion' = [conexion EXCEPT ![w] = TrasRecibir(w)]
    /\ memoria' = IF Recibido(w) THEN [memoria EXCEPT ![w] = TrasPedido(memoria[w], hilo[w])]
                                 ELSE memoria
    /\ Vuelve(w, "vuelca", hilo[w].pc)
    /\ UNCHANGED <<storage, etapa, desalojo, enCola, canales, master>>

\* Mutant: the answer first.
ContestaSinVolcar(w) ==
    /\ En(w, "vuelca")
    /\ Contesta(w, "DESALOJAR", hilo[w].pc)
    /\ UNCHANGED <<storage, etapa, conexion, memoria, desalojo, enCola, aWorker, master>>

ContestaDesalojo(w) ==
    /\ En(w, "vuelca") /\ hilo[w].faltan = {}
    /\ Contesta(w, "DESALOJAR", hilo[w].pc)
    /\ UNCHANGED <<storage, etapa, conexion, memoria, desalojo, enCola, aWorker, master>>

\* The thread of a query.
ProcesaQuery(w) ==
    \/ \E q \in Query : Toma(w, q)
    \/ Reconecta(w) \/ ReconectaEnVano(w)
    \/ Desaloja(w) \/ Termina(w) \/ PideInstruccion(w) \/ Ejecuta(w)
    \/ EnviaEnVano(w) \/ Recibe(w)
    \/ Vuelca(w) \/ RecibeVolcado(w) \/ ContestaDesalojo(w)

-----------------------------------------------------------------------------
(* The other processes.                                                    *)

\* Storage goes away, and every connection with it; the files stay, but for
\* those that a request was changing.
CaeStorage ==
    /\ viva /\ cortes < MaxCortes
    /\ viva' = FALSE /\ cortes' = cortes + 1
    /\ servicio' = [w \in Worker |-> "libre"]
    /\ integro' = (integro /\ \A w \in Worker : Quieto(w))
    /\ conexion' = [w \in Worker |-> IF conexion[w] = "abierta" THEN "cortada" ELSE conexion[w]]
    /\ UNCHANGED <<archivo, disco, etapa, memoria, desalojo, enCola, hilo, canales, master>>

VuelveStorage ==
    /\ ~ viva /\ viva' = TRUE
    /\ UNCHANGED <<cortes, archivo, disco, servicio, integro, etapa, conexion, memoria, desalojo,
                   enCola, hilo, canales, master>>

MasterEnvia(w, op, q) == aWorker' = [aWorker EXCEPT ![w] = Append(@, [op |-> op, q |-> q])]

\* The PC it holds is the third field of the message; the Worker never
\* extracts it.
MasterAsigna(w, q) ==
    /\ etapa[w] = "listo" /\ asignada[w] = NoQuery /\ q \in espera
    /\ espera' = espera \ {q}
    /\ asignada' = [asignada EXCEPT ![w] = q]
    /\ MasterEnvia(w, "INICIA", q)
    /\ UNCHANGED <<storage, etapa, conexion, memoria, desalojo, enCola, hilo, aMaster,
                   fin, desalojos>>

MasterPideDesalojo(w) ==
    /\ etapa[w] = "listo" /\ asignada[w] # NoQuery /\ desalojos < MaxDesalojos
    /\ desalojos' = desalojos + 1
    /\ MasterEnvia(w, "DESALOJAR", asignada[w])
    /\ UNCHANGED <<storage, etapa, conexion, memoria, desalojo, enCola, hilo, aMaster,
                   espera, asignada, fin>>

MasterRecibe(w) ==
    /\ aMaster[w] # <<>>
    /\ aMaster' = [aMaster EXCEPT ![w] = Tail(@)]
    /\ asignada' = [asignada EXCEPT ![w] = NoQuery]
    /\ LET m == Head(aMaster[w])
       IN  IF m.op = "DESALOJAR"
           THEN espera' = espera \cup {m.q} /\ UNCHANGED fin
           ELSE /\ fin' = [fin EXCEPT ![m.q] =
                              [w |-> w, como |-> IF m.dato = 1 THEN "exito" ELSE "error"]]
                /\ UNCHANGED espera
    /\ UNCHANGED <<storage, etapa, conexion, memoria, desalojo, enCola, hilo, aWorker, desalojos>>

\* The end of file of a Worker's connection.
MasterPierde(w) ==
    /\ etapa[w] = "caido" /\ aMaster[w] = <<>> /\ asignada[w] # NoQuery
    /\ asignada' = [asignada EXCEPT ![w] = NoQuery]
    /\ fin' = [fin EXCEPT ![asignada[w]] = [w |-> w, como |-> "baja"]]
    /\ UNCHANGED <<storage, etapa, conexion, memoria, desalojo, enCola, hilo, canales,
                   espera, desalojos>>

-----------------------------------------------------------------------------
Init ==
    /\ viva = TRUE /\ cortes = 0
    /\ archivo = [t \in Tag |-> IF t \in Existentes THEN "WORK_IN_PROGRESS" ELSE "NO"]
    /\ disco = [t \in Tag |-> IF t \in Existentes THEN Cero ELSE Nadie]
    /\ servicio = [w \in Worker |-> "libre"]
    /\ integro = TRUE
    /\ etapa = [w \in Worker |-> "listo"]
    /\ conexion = [w \in Worker |-> "abierta"]
    /\ memoria = [w \in Worker |-> [t \in Tag |-> Nadie]]
    /\ desalojo = [w \in Worker |-> FALSE]
    /\ enCola = [w \in Worker |-> {}]
    /\ hilo = [w \in Worker |-> Libre]
    /\ aWorker = [w \in Worker |-> <<>>]
    /\ aMaster = [w \in Worker |-> <<>>]
    /\ espera = Query
    /\ asignada = [w \in Worker |-> NoQuery]
    /\ fin = [q \in Query |-> SinFin]
    /\ desalojos = 0

Next ==
    \/ \E w \in Worker : Escucha(w) \/ ProcesaQuery(w) \/ HiloStorage(w)
    \/ CaeStorage \/ VuelveStorage
    \/ \E w \in Worker : \E q \in Query : MasterAsigna(w, q)
    \/ \E w \in Worker : MasterPideDesalojo(w) \/ MasterRecibe(w) \/ MasterPierde(w)

Spec == Init /\ [][Next]_vars

\* The two threads of a Worker and those of Storage and the Master for it keep
\* running.  Storage need not come back.
Equidad ==
    \A w \in Worker : /\ WF_vars(Escucha(w)) /\ WF_vars(ProcesaQuery(w))
                      /\ WF_vars(HiloStorage(w))
                      /\ WF_vars(MasterRecibe(w)) /\ WF_vars(MasterPierde(w))

SpecJusta == Spec /\ Equidad

-----------------------------------------------------------------------------
(* Properties.                                                             *)

\* The queries that Worker w has ended with an error.
Errores(w) ==
    {q \in Query : fin[q] = [w |-> w, como |-> "error"]}
    \cup {aMaster[w][i].q : i \in {i \in DOMAIN aMaster[w] :
                                      aMaster[w][i].op = "FIN" /\ aMaster[w][i].dato = 0}}

\* A stop of Storage costs each Worker one query at most, while what the scripts
\* ask for can be done and is done whole: verificar_conexion_storage does not see
\* that the other side has closed, so the next query runs on a dead connection
\* until its first request, and that one closes the socket for the query after it.
CuestaUnaQuery == integro => \A w \in Worker : Cardinality(Errores(w)) <= cortes

\* "Realizando FLUSH antes de desalojo" (worker.c:317): when an evicted query
\* waits, or the answer is on its way, nothing that was to be kept is left in a
\* Worker's memory only, whatever it and others ran before.
VolcadoAlDesalojar ==
    integro /\ cortes = 0 =>
        \A w \in Worker :
            (\E i \in DOMAIN aMaster[w] : aMaster[w][i].op = "DESALOJAR")
            => \A t \in Modificadas(w) : archivo[t] # "WORK_IN_PROGRESS"

Escrituras(q, t) ==
    {i \in DOMAIN Guion[q] : Guion[q][i].op = "WRITE" /\ Guion[q][i].t = t}
Ultima(q, t) == CHOOSE i \in Escrituras(q, t) : \A j \in Escrituras(q, t) : j <= i

\* A file:tag that one script writes and commits keeps what the script wrote
\* last, however many times the query was evicted, in whichever Workers it ran
\* again from its first line, and whatever pages of its earlier runs they still
\* have and write back when another query is evicted.
ConfirmadoLoEscrito ==
    integro /\ cortes = 0 =>
        \A q \in Query : \A t \in Tag :
            Escrituras(q, t) # {} /\ archivo[t] = "COMMITED"
            => disco[t] = Guion[q][Ultima(q, t)].v

\* A Worker that is given a query whose script it finds answers, or is gone and
\* the Master sees it go: on every path, with Storage or without it.
TodaQueryContesta ==
    \A w \in Worker : \A q \in Query \ SinArchivo :
        (asignada[w] = q) ~> (asignada[w] # q)

\* "Actualizar contexto y volver a READY" (master.c:557): a query that would end
\* well ends well too if it is evicted and resumed.
DesalojoTransparente ==
    integro /\ cortes = 0 => \A w \in Worker : Errores(w) = {}
=============================================================================
