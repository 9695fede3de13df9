--------------------------- MODULE Worker_proofs ---------------------------
(***************************************************************************)
(* Type correctness of the Workers.  TypeOK is not inductive: a page that  *)
(* arrives, a request and the instruction under way have their types only  *)
(* because of where the thread is.  HiloBien says it: a thread that waits  *)
(* for mutex_query_execution holds nothing, a request is one that the      *)
(* instruction or the flush asks for, a page that is written is there and  *)
(* modified, and a page that was read has contents.                        *)
(*                                                                         *)
(* For each step of the query thread, Hace<Step> is what it does to each   *)
(* variable, with the record of the thread named: the proofs use it in     *)
(* place of the action (lemmas Efecto<Step>).                              *)
(***************************************************************************)
EXTENDS Worker, TLAPS

EnPedido(w) == hilo[w].paso \in {"pide", "recibe"}

HiloBien(w) ==
    /\ hilo[w].paso = "libre" => hilo[w] = Libre
    /\ hilo[w].paso # "libre" => hilo[w].q \in Query /\ hilo[w].pc <= Len(Guion[hilo[w].q])
    /\ hilo[w].paso = "vuelca" => hilo[w].desaloja
    /\ hilo[w].desaloja => hilo[w].paso = "vuelca" \/ EnPedido(w)
    /\ hilo[w].faltan \subseteq Modificadas(w)
    /\ hilo[w].paso # "recibe" => hilo[w].res = "-"
    /\ hilo[w].paso = "ejecuta" \/ (EnPedido(w) /\ ~ hilo[w].desaloja) => QuedanLineas(w)
    /\ EnPedido(w) =>
        /\ hilo[w].op \in Pedidos /\ hilo[w].t \in Tag
        /\ hilo[w].op = "ESCRIBIR" => Modificada(w, hilo[w].t)
        /\ hilo[w].desaloja => hilo[w].op = "ESCRIBIR" /\ hilo[w].t \in hilo[w].faltan
        /\ ~ hilo[w].desaloja => hilo[w].op = Pedido(Linea(w), w) /\ hilo[w].t = Linea(w).t
    /\ hilo[w].paso = "recibe" /\ hilo[w].op = "LEER" /\ hilo[w].res = "OK"
       => hilo[w].dato \in Valor

HilosBien == \A w \in Worker : HiloBien(w)

\* The instruction that a query is at is one of its script.
LEMMA LineaTipo ==
    ASSUME WorkerAssumption, TypeOK, NEW w \in Worker, hilo[w].q \in Query, QuedanLineas(w)
    PROVE  /\ Linea(w) \in Instruccion
           /\ hilo[w].pc + 1 \in DOMAIN Guion[hilo[w].q]
           /\ hilo[w].pc + 1 <= Len(Guion[hilo[w].q])
           /\ Linea(w).op = "WRITE" => Linea(w).v \in Valor
<1>1. PICK q \in Query, n \in Nat : q = hilo[w].q /\ n = hilo[w].pc
  BY DEF TypeOK, Hilo
<1>2. Guion[q] \in Seq(Instruccion)
  BY <1>1 DEF WorkerAssumption
<1>3. n < Len(Guion[q])
  BY <1>1 DEF QuedanLineas
<1>4. n + 1 \in 1..Len(Guion[q]) /\ DOMAIN Guion[q] = 1..Len(Guion[q])
  BY <1>2, <1>3
<1>5. Guion[q][n + 1] \in Instruccion
  BY <1>2, <1>4
<1>6. Guion[q][n + 1].op = "WRITE" => Guion[q][n + 1].v \in Valor
  BY <1>4 DEF WorkerAssumption
<1> QED
  BY <1>1, <1>4, <1>5, <1>6 DEF Linea

-----------------------------------------------------------------------------
(* Types.                                                                  *)

MsgAWorker == [op : {"INICIA", "DESALOJAR"}, q : Query]
MsgAMaster == [op : {"FIN", "DESALOJAR"}, q : Query, dato : Nat]

\* A record with one field changed, and a function with one value changed.
LEMMA CampoHilo ==
    ASSUME NEW h \in Hilo
    PROVE  /\ h.paso \in Pasos /\ h.q \in Query \cup {NoQuery} /\ h.pc \in Nat
           /\ h.op \in Pedidos \cup {"-"} /\ h.t \in Tag \cup {Nadie}
           /\ h.res \in {"-", "OK", "NO"} /\ h.dato \in Valor \cup {Nadie}
           /\ h.desaloja \in BOOLEAN /\ h.faltan \in SUBSET Tag
BY DEF Hilo

\* The record that holds a thread after one of its steps.
LEMMA HiloNuevo ==
    ASSUME NEW w \in Worker, NEW r \in Hilo, hilo \in [Worker -> Hilo],
           hilo' = [hilo EXCEPT ![w] = r]
    PROVE  /\ hilo' \in [Worker -> Hilo] /\ hilo'[w] = r
           /\ \A v \in Worker \ {w} : hilo'[v] = hilo[v]
OBVIOUS

\* The record of a thread that has no query.
LEMMA LibreEnHilo == Libre \in Hilo
BY DEF Libre, Hilo, Pasos

\* A page put in the memory of a worker.
LEMMA MemoriaNueva ==
    ASSUME memoria \in [Worker -> [Tag -> Pagina \cup {Nadie}]],
           NEW w \in Worker, NEW t \in Tag, NEW p \in Pagina,
           memoria' = [memoria EXCEPT ![w] = [@ EXCEPT ![t] = p]]
    PROVE  /\ memoria' \in [Worker -> [Tag -> Pagina \cup {Nadie}]]
           /\ memoria'[w][t] = p
           /\ \A u \in Tag \ {t} : memoria'[w][u] = memoria[w][u]
           /\ \A v \in Worker \ {w} : memoria'[v] = memoria[v]
OBVIOUS

\* A page is not Nadie.
LEMMA PaginaEs ==
    ASSUME WorkerAssumption, NEW p \in Pagina
    PROVE  p # Nadie /\ p.valor \in Valor /\ p.modificada \in BOOLEAN
BY DEF Pagina, WorkerAssumption

-----------------------------------------------------------------------------
(* What each step of the query thread does.                                *)

HaceToma(w, q) ==
    /\ etapa[w] = "listo" /\ hilo[w].paso = "libre" /\ q \in enCola[w]
    /\ enCola' = [enCola EXCEPT ![w] = @ \ {q}]
    /\ \E r \in Hilo :
         /\ hilo' = [hilo EXCEPT ![w] = r]
         /\ \/ /\ r.paso = (IF conexion[w] = "cerrada" THEN "conecta" ELSE "linea")
               /\ r.q = q /\ r.pc = 0 /\ r.op = "-" /\ r.t = Nadie /\ r.res = "-"
               /\ r.dato = Nadie /\ r.desaloja = FALSE /\ r.faltan = {}
            \/ r = Libre /\ q \in SinArchivo /\ conexion[w] # "cerrada"
    /\ UNCHANGED <<viva, cortes, archivo, disco, servicio, integro, etapa, conexion, memoria,
                   desalojo, aWorker, aMaster, espera, asignada, fin, desalojos>>

\* Taking the lock does what HaceToma says; the same for each step that follows.
LEMMA EfectoToma ==
    ASSUME TypeOK, NEW w \in Worker, NEW q \in Query, Toma(w, q)
    PROVE  HaceToma(w, q)
<1> USE DEF HaceToma
<1>1. /\ [Libre EXCEPT !.q = q, !.paso = "conecta"] \in Hilo
      /\ [Libre EXCEPT !.q = q, !.paso = "linea"] \in Hilo /\ Libre \in Hilo
  BY DEF Libre, Hilo, Pasos
<1>2. PICK r \in Hilo :
         /\ hilo' = [hilo EXCEPT ![w] = r]
         /\ \/ /\ conexion[w] = "cerrada" /\ r = [Libre EXCEPT !.q = q, !.paso = "conecta"]
            \/ /\ conexion[w] # "cerrada" /\ r = [Libre EXCEPT !.q = q, !.paso = "linea"]
            \/ /\ conexion[w] # "cerrada" /\ r = Libre /\ q \in SinArchivo
  BY <1>1 DEF Toma, Abre
<1>3. \/ /\ r.paso = (IF conexion[w] = "cerrada" THEN "conecta" ELSE "linea")
         /\ r.q = q /\ r.pc = 0 /\ r.op = "-" /\ r.t = Nadie /\ r.res = "-"
         /\ r.dato = Nadie /\ r.desaloja = FALSE /\ r.faltan = {}
      \/ r = Libre /\ q \in SinArchivo /\ conexion[w] # "cerrada"
  BY <1>2 DEF Libre
<1>4. UNCHANGED <<viva, cortes, archivo, disco, servicio, integro, etapa, conexion, memoria,
                  desalojo, aWorker, aMaster, espera, asignada, fin, desalojos>>
  BY DEF Toma, storage, canales, master
<1> QED
  BY <1>2, <1>3, <1>4 DEF Toma, En

HaceReconecta(w) ==
    /\ etapa[w] = "listo" /\ hilo[w].paso = "conecta" /\ hilo[w].q \in Query
    /\ conexion' = [conexion EXCEPT ![w] = "abierta"]
    /\ \E r \in Hilo :
         /\ hilo' = [hilo EXCEPT ![w] = r]
         /\ \/ /\ r.paso = "linea" /\ r.q = hilo[w].q /\ r.pc = 0 /\ r.op = "-"
               /\ r.t = Nadie /\ r.res = "-" /\ r.dato = Nadie
               /\ r.desaloja = FALSE /\ r.faltan = {}
            \/ r = Libre /\ hilo[w].q \in SinArchivo
    /\ UNCHANGED <<viva, cortes, archivo, disco, servicio, integro, etapa, memoria, desalojo,
                   enCola, aWorker, aMaster, espera, asignada, fin, desalojos>>

\* The script of the query that waited for the connection is opened.
LEMMA EfectoReconecta ==
    ASSUME TypeOK, NEW w \in Worker, HiloBien(w), Reconecta(w)
    PROVE  HaceReconecta(w)
<1> USE DEF HaceReconecta
<1>1. PICK q \in Query : q = hilo[w].q
  BY DEF HiloBien, Reconecta, En
<1>2. [Libre EXCEPT !.q = q, !.paso = "linea"] \in Hilo /\ Libre \in Hilo
  BY DEF Libre, Hilo, Pasos
<1>3. PICK r \in Hilo :
         /\ hilo' = [hilo EXCEPT ![w] = r]
         /\ r = [Libre EXCEPT !.q = q, !.paso = "linea"] \/ (r = Libre /\ q \in SinArchivo)
  BY <1>1, <1>2 DEF Reconecta, Abre
<1>4. \/ /\ r.paso = "linea" /\ r.q = q /\ r.pc = 0 /\ r.op = "-"
         /\ r.t = Nadie /\ r.res = "-" /\ r.dato = Nadie
         /\ r.desaloja = FALSE /\ r.faltan = {}
      \/ r = Libre /\ q \in SinArchivo
  BY <1>3 DEF Libre
<1>5. UNCHANGED <<viva, cortes, archivo, disco, servicio, integro, etapa, memoria, desalojo,
                  enCola, aWorker, aMaster, espera, asignada, fin, desalojos>>
  BY DEF Reconecta, storage, canales, master
<1> QED
  BY <1>1, <1>3, <1>4, <1>5 DEF Reconecta, En

HaceReconectaEnVano(w) ==
    /\ etapa[w] = "listo" /\ hilo[w].paso = "conecta" /\ ~ viva
    /\ etapa' = [etapa EXCEPT ![w] = "caido"]
    /\ conexion' = [conexion EXCEPT ![w] = "cerrada"]
    /\ memoria' \in [Worker -> [Tag -> Pagina \cup {Nadie}]]
    /\ \A t \in Tag : memoria'[w][t] = Nadie
    /\ \A v \in Worker \ {w} : memoria'[v] = memoria[v]
    /\ hilo' = [hilo EXCEPT ![w] = Libre]
    /\ enCola' = [enCola EXCEPT ![w] = {}]
    /\ desalojo' = [desalojo EXCEPT ![w] = FALSE]
    /\ aWorker' = [aWorker EXCEPT ![w] = <<>>]
    /\ UNCHANGED <<viva, cortes, archivo, disco, servicio, integro, aMaster, espera, asignada,
                   fin, desalojos>>

\* A Worker that cannot reach Storage is gone, with its memory.
LEMMA EfectoReconectaEnVano ==
    ASSUME TypeOK, NEW w \in Worker, ReconectaEnVano(w)
    PROVE  HaceReconectaEnVano(w)
<1> USE DEF HaceReconectaEnVano
<1>1. memoria' = [memoria EXCEPT ![w] = [t \in Tag |-> Nadie]]
  BY DEF ReconectaEnVano, Cae
<1>2. UNCHANGED <<viva, cortes, archivo, disco, servicio, integro, aMaster, espera, asignada,
                  fin, desalojos>>
  BY DEF ReconectaEnVano, storage, master
<1> QED
  BY <1>1, <1>2 DEF ReconectaEnVano, Cae, En, TypeOK

HaceDesaloja(w) ==
    /\ etapa[w] = "listo" /\ hilo[w].paso = "linea" /\ QuedanLineas(w)
    /\ desalojo' = [desalojo EXCEPT ![w] = FALSE]
    /\ \E r \in Hilo :
         /\ hilo' = [hilo EXCEPT ![w] = r]
         /\ r.paso = "vuelca" /\ r.q = hilo[w].q /\ r.pc = hilo[w].pc
         /\ r.op = hilo[w].op /\ r.t = hilo[w].t /\ r.res = hilo[w].res
         /\ r.dato = hilo[w].dato /\ r.desaloja = TRUE /\ r.faltan = Modificadas(w)
    /\ UNCHANGED <<viva, cortes, archivo, disco, servicio, integro, etapa, conexion, memoria,
                   enCola, aWorker, aMaster, espera, asignada, fin, desalojos>>

\* An eviction leaves the modified pages to be written.
LEMMA EfectoDesaloja ==
    ASSUME TypeOK, NEW w \in Worker, Desaloja(w)
    PROVE  HaceDesaloja(w)
<1> USE DEF HaceDesaloja
<1>1. PICK h \in Hilo, F \in SUBSET Tag : h = hilo[w] /\ F = Modificadas(w)
  BY DEF TypeOK, Modificadas
<1>2. PICK r : r = [h EXCEPT !.paso = "vuelca", !.desaloja = TRUE, !.faltan = F]
  OBVIOUS
<1>3. hilo' = [hilo EXCEPT ![w] = r]
  BY <1>1, <1>2 DEF Desaloja
<1>4. UNCHANGED <<viva, cortes, archivo, disco, servicio, integro, etapa, conexion, memoria,
                  enCola, aWorker, aMaster, espera, asignada, fin, desalojos>>
  BY DEF Desaloja, storage, canales, master
<1>5. /\ r \in Hilo /\ r.paso = "vuelca" /\ r.q = h.q /\ r.pc = h.pc
      /\ r.op = h.op /\ r.t = h.t /\ r.res = h.res /\ r.dato = h.dato
      /\ r.desaloja = TRUE /\ r.faltan = F
  BY <1>1, <1>2 DEF Hilo, Pasos
<1> QED
  BY <1>1, <1>3, <1>4, <1>5 DEF Desaloja, En

HaceTermina(w) ==
    /\ etapa[w] = "listo" /\ hilo[w].paso \in {"linea", "ejecuta"} /\ hilo[w].q \in Query
    /\ hilo' = [hilo EXCEPT ![w] = Libre]
    /\ aMaster' = [aMaster EXCEPT ![w] =
                     Append(@, [op |-> "FIN", q |-> hilo[w].q, dato |-> 1])]
    /\ UNCHANGED <<viva, cortes, archivo, disco, servicio, integro, etapa, conexion, memoria,
                   desalojo, enCola, aWorker, espera, asignada, fin, desalojos>>

\* The end of a script is answered and the lock is let go.
LEMMA EfectoTermina ==
    ASSUME TypeOK, NEW w \in Worker, HiloBien(w), Termina(w)
    PROVE  HaceTermina(w)
<1> USE DEF HaceTermina
<1>1. UNCHANGED <<viva, cortes, archivo, disco, servicio, integro, etapa, conexion, memoria,
                  desalojo, enCola, aWorker, espera, asignada, fin, desalojos>>
  BY DEF Termina, storage, master
<1> QED
  BY <1>1 DEF Termina, TerminaBien, Contesta, EnLinea, En, HiloBien

\* The instruction a thread is at, when it has one.
LEMMA EnLineaEs ==
    ASSUME WorkerAssumption, TypeOK, NEW w \in Worker, HiloBien(w), EnLinea(w)
    PROVE  /\ etapa[w] = "listo" /\ hilo[w].paso \in {"linea", "ejecuta"} /\ hilo[w].q \in Query
           /\ QuedanLineas(w) /\ Linea(w) \in Instruccion
           /\ Linea(w).op = "WRITE" => Linea(w).v \in Valor
<1>1. /\ etapa[w] = "listo" /\ hilo[w].paso \in {"linea", "ejecuta"} /\ hilo[w].q \in Query
      /\ QuedanLineas(w)
  BY DEF EnLinea, En, HiloBien
<1> QED
  BY <1>1, LineaTipo

\* The request an instruction needs, when it needs one.
LEMMA PedidoTipo ==
    ASSUME NEW i \in Instruccion, NEW w \in Worker, Pedido(i, w) # "-"
    PROVE  /\ Pedido(i, w) \in Pedidos
           /\ i.op \in {"CREATE", "TRUNCATE", "WRITE", "READ", "FLUSH", "COMMIT"} /\ i.t \in Tag
           /\ Pedido(i, w) = "ESCRIBIR" <=> i.op \in {"FLUSH", "COMMIT"} /\ Modificada(w, i.t)
           /\ Pedido(i, w) = "LEER" <=> i.op \in {"WRITE", "READ"}
           /\ Pedido(i, w) = "COMMIT" <=> i.op = "COMMIT" /\ ~ Modificada(w, i.t)
           /\ Pedido(i, w) = "TRUNCATE" <=> i.op = "TRUNCATE"
           /\ Pedido(i, w) = "CREATE" <=> i.op = "CREATE"
           /\ i.op \in {"WRITE", "READ"} => memoria[w][i.t] = Nadie
<1>1. \/ i.op \in {"CREATE", "TRUNCATE"} /\ Pedido(i, w) = i.op
      \/ i.op \in {"WRITE", "READ"} /\ memoria[w][i.t] = Nadie /\ Pedido(i, w) = "LEER"
      \/ i.op \in {"FLUSH", "COMMIT"} /\ Modificada(w, i.t) /\ Pedido(i, w) = "ESCRIBIR"
      \/ i.op = "COMMIT" /\ ~ Modificada(w, i.t) /\ Pedido(i, w) = "COMMIT"
  BY DEF Pedido
<1>2. i.op \in {"CREATE", "TRUNCATE", "WRITE", "READ", "FLUSH", "COMMIT"}
  BY <1>1
<1>3. i.t \in Tag
  BY <1>2 DEF Instruccion
<1> QED
  BY <1>1, <1>3 DEF Pedidos

HacePideInstruccion(w) ==
    /\ etapa[w] = "listo" /\ hilo[w].paso \in {"linea", "ejecuta"} /\ hilo[w].q \in Query
    /\ QuedanLineas(w) /\ Linea(w) \in Instruccion
    /\ \E r \in Hilo :
         /\ hilo' = [hilo EXCEPT ![w] = r]
         /\ r.paso = "pide" /\ r.q = hilo[w].q /\ r.pc = hilo[w].pc
         /\ r.op = Pedido(Linea(w), w) /\ r.op \in Pedidos
         /\ r.t = Linea(w).t /\ r.t \in Tag
         /\ r.res = hilo[w].res /\ r.dato = hilo[w].dato
         /\ r.desaloja = hilo[w].desaloja /\ r.faltan = hilo[w].faltan
    /\ UNCHANGED <<viva, cortes, archivo, disco, servicio, integro, etapa, conexion, memoria,
                   desalojo, enCola, aWorker, aMaster, espera, asignada, fin, desalojos>>

\* The thread waits for the answer to the request of its instruction.
LEMMA EfectoPideInstruccion ==
    ASSUME WorkerAssumption, TypeOK, NEW w \in Worker, HiloBien(w), PideInstruccion(w)
    PROVE  HacePideInstruccion(w)
<1> USE DEF HacePideInstruccion
<1>1. UNCHANGED <<viva, cortes, archivo, disco, servicio, integro, etapa, conexion, memoria,
                  desalojo, enCola, aWorker, aMaster, espera, asignada, fin, desalojos>>
  BY DEF PideInstruccion, storage, canales, master
<1>2. EnLinea(w) /\ Pedido(Linea(w), w) # "-"
  BY DEF PideInstruccion
<1>3. PICK h \in Hilo, op \in Pedidos, t \in Tag :
         h = hilo[w] /\ op = Pedido(Linea(w), w) /\ t = Linea(w).t
  BY <1>2, EnLineaEs, PedidoTipo DEF TypeOK
<1>4. PICK r : r = [h EXCEPT !.paso = "pide", !.op = op, !.t = t]
  OBVIOUS
<1>5. hilo' = [hilo EXCEPT ![w] = r]
  BY <1>3, <1>4 DEF PideInstruccion, Pide
<1>6. /\ r \in Hilo /\ r.paso = "pide" /\ r.q = h.q /\ r.pc = h.pc
      /\ r.op = op /\ r.t = t /\ r.res = h.res /\ r.dato = h.dato
      /\ r.desaloja = h.desaloja /\ r.faltan = h.faltan
  BY <1>3, <1>4 DEF Hilo, Pasos
<1> QED
  BY <1>1, <1>2, <1>3, <1>5, <1>6, EnLineaEs

HaceEjecuta(w) ==
    /\ etapa[w] = "listo" /\ hilo[w].paso \in {"linea", "ejecuta"} /\ hilo[w].q \in Query
    /\ QuedanLineas(w) /\ Linea(w) \in Instruccion /\ Pedido(Linea(w), w) = "-"
    /\ \E r \in Hilo :
         /\ hilo' = [hilo EXCEPT ![w] = r]
         /\ r.paso = "linea" /\ r.q = hilo[w].q /\ r.pc = hilo[w].pc + 1
         /\ r.op = hilo[w].op /\ r.t = hilo[w].t
         /\ r.res = hilo[w].res /\ r.dato = hilo[w].dato
         /\ r.desaloja = hilo[w].desaloja /\ r.faltan = hilo[w].faltan
    /\ memoria' \in [Worker -> [Tag -> Pagina \cup {Nadie}]]
    /\ \/ /\ Linea(w).op = "WRITE" /\ Linea(w).t \in Tag
          /\ memoria[w][Linea(w).t] # Nadie
          /\ \E p \in Pagina :
               /\ p # Nadie /\ p.valor = Linea(w).v /\ p.modificada = TRUE
               /\ memoria'[w][Linea(w).t] = p
          /\ \A u \in Tag \ {Linea(w).t} : memoria'[w][u] = memoria[w][u]
          /\ \A v \in Worker \ {w} : memoria'[v] = memoria[v]
       \/ Linea(w).op # "WRITE" /\ memoria' = memoria
    /\ UNCHANGED <<viva, cortes, archivo, disco, servicio, integro, etapa, conexion, desalojo,
                   enCola, aWorker, aMaster, espera, asignada, fin, desalojos>>

\* An instruction is carried out; a WRITE finds its page in memory.
LEMMA EfectoEjecuta ==
    ASSUME WorkerAssumption, TypeOK, NEW w \in Worker, HiloBien(w), Ejecuta(w)
    PROVE  HaceEjecuta(w)
<1> USE DEF HaceEjecuta
<1>1. UNCHANGED <<viva, cortes, archivo, disco, servicio, integro, etapa, conexion, desalojo,
                  enCola, aWorker, aMaster, espera, asignada, fin, desalojos>>
  BY DEF Ejecuta, storage, canales, master
<1>2. EnLinea(w) /\ Pedido(Linea(w), w) = "-"
  BY DEF Ejecuta
<1>3. PICK h \in Hilo, i \in Instruccion, n \in Nat :
         h = hilo[w] /\ i = Linea(w) /\ n = h.pc + 1
  <2>1. hilo[w] \in Hilo /\ hilo[w].pc + 1 \in Nat
    BY DEF TypeOK, Hilo
  <2> QED
    BY <1>2, <2>1, EnLineaEs
<1>4. PICK r : r = [h EXCEPT !.paso = "linea", !.pc = n]
  OBVIOUS
<1>5. hilo' = [hilo EXCEPT ![w] = r]
  BY <1>3, <1>4 DEF Ejecuta, SigueLinea
<1>6. /\ r \in Hilo /\ r.paso = "linea" /\ r.q = h.q /\ r.pc = n
      /\ r.op = h.op /\ r.t = h.t /\ r.res = h.res /\ r.dato = h.dato
      /\ r.desaloja = h.desaloja /\ r.faltan = h.faltan
  BY <1>3, <1>4 DEF Hilo, Pasos
<1>9. /\ etapa[w] = "listo" /\ hilo[w].paso \in {"linea", "ejecuta"} /\ hilo[w].q \in Query
      /\ QuedanLineas(w) /\ Linea(w) \in Instruccion /\ Pedido(Linea(w), w) = "-"
      /\ \E e \in Hilo :
            /\ hilo' = [hilo EXCEPT ![w] = e]
            /\ e.paso = "linea" /\ e.q = hilo[w].q /\ e.pc = hilo[w].pc + 1
            /\ e.op = hilo[w].op /\ e.t = hilo[w].t
            /\ e.res = hilo[w].res /\ e.dato = hilo[w].dato
            /\ e.desaloja = hilo[w].desaloja /\ e.faltan = hilo[w].faltan
      /\ UNCHANGED <<viva, cortes, archivo, disco, servicio, integro, etapa, conexion,
                     desalojo, enCola, aWorker, aMaster, espera, asignada, fin, desalojos>>
  BY <1>1, <1>2, <1>3, <1>5, <1>6, EnLineaEs
<1>7. CASE i.op = "WRITE"
  <2>1. i.t \in Tag /\ i.v \in Valor
    BY <1>2, <1>3, <1>7, EnLineaEs DEF Instruccion
  <2>2. memoria[w][i.t] # Nadie
    BY <1>2, <1>3, <1>7 DEF Pedido
  <2>3. PICK p \in Pagina : p = [valor |-> i.v, modificada |-> TRUE]
    BY <2>1 DEF Pagina
  <2>4. p # Nadie /\ p.valor = i.v /\ p.modificada = TRUE
    BY <2>3, PaginaEs
  <2>5. memoria' = [memoria EXCEPT ![w] = [@ EXCEPT ![i.t] = p]]
    BY <1>3, <1>7, <2>3 DEF Ejecuta
  <2>6. /\ memoria' \in [Worker -> [Tag -> Pagina \cup {Nadie}]]
        /\ memoria'[w][i.t] = p
        /\ \A u \in Tag \ {i.t} : memoria'[w][u] = memoria[w][u]
        /\ \A v \in Worker \ {w} : memoria'[v] = memoria[v]
    BY <2>1, <2>3, <2>5, MemoriaNueva DEF TypeOK
  <2>7. /\ Linea(w).op = "WRITE" /\ Linea(w).t \in Tag
        /\ memoria[w][Linea(w).t] # Nadie
        /\ \E e \in Pagina :
             /\ e # Nadie /\ e.valor = Linea(w).v /\ e.modificada = TRUE
             /\ memoria'[w][Linea(w).t] = e
        /\ \A u \in Tag \ {Linea(w).t} : memoria'[w][u] = memoria[w][u]
        /\ \A v \in Worker \ {w} : memoria'[v] = memoria[v]
    BY <1>3, <1>7, <2>1, <2>2, <2>3, <2>4, <2>6
  <2> QED
    BY <1>9, <2>6, <2>7
<1>8. CASE i.op # "WRITE"
  <2>1. memoria' = memoria
    BY <1>3, <1>8 DEF Ejecuta
  <2> QED
    BY <1>3, <1>8, <1>9, <2>1 DEF TypeOK
<1> QED
  BY <1>7, <1>8

\* A request and its parts.
LEMMA EnPedidoEs ==
    ASSUME TypeOK, NEW w \in Worker, HiloBien(w), hilo[w].paso \in {"pide", "recibe"}
    PROVE  hilo[w].q \in Query /\ hilo[w].op \in Pedidos /\ hilo[w].t \in Tag
BY DEF HiloBien, EnPedido

\* What Storage has done when it accepts a request.
Sirvio(op, t, v) ==
    /\ \A u \in Tag \ {t} : archivo'[u] = archivo[u] /\ disco'[u] = disco[u]
    /\ op = "CREATE" => archivo[t] = "NO" /\ archivo'[t] = "WORK_IN_PROGRESS"
    /\ op = "TRUNCATE" => archivo[t] # "NO" /\ disco'[t] = (IF disco[t] = Nadie THEN Cero ELSE disco[t])
    /\ op = "LEER" => archivo[t] # "NO" /\ disco[t] # Nadie
    /\ op = "ESCRIBIR" => archivo[t] = "WORK_IN_PROGRESS" /\ disco[t] # Nadie /\ disco'[t] = v
    /\ op = "COMMIT" => archivo'[t] = (IF archivo[t] = "NO" THEN "NO" ELSE "COMMITED")
    /\ op \notin {"CREATE", "COMMIT"} => archivo' = archivo
    /\ op \notin {"TRUNCATE", "ESCRIBIR"} => disco' = disco

\* What a request that is served changes in Storage.
LEMMA EfectoServido ==
    ASSUME WorkerAssumption, TypeOK, NEW op \in Pedidos, NEW t \in Tag, NEW v \in Valor \cup {Nadie},
           Servido(op, t, v)
    PROVE  /\ Sirvio(op, t, v)
           /\ archivo' \in [Tag -> {"NO", "WORK_IN_PROGRESS", "COMMITED"}]
           /\ disco' \in [Tag -> Valor \cup {Nadie}]
<1>1. /\ archivo \in [Tag -> {"NO", "WORK_IN_PROGRESS", "COMMITED"}]
      /\ disco \in [Tag -> Valor \cup {Nadie}] /\ Cero \in Valor
  BY DEF TypeOK, WorkerAssumption
<1>2. CASE op = "CREATE"
  BY <1>1, <1>2 DEF Servido, Sirvio
<1>3. CASE op = "TRUNCATE"
  BY <1>1, <1>3 DEF Servido, Sirvio
<1>4. CASE op = "LEER"
  BY <1>1, <1>4 DEF Servido, Sirvio
<1>5. CASE op = "ESCRIBIR"
  BY <1>1, <1>5 DEF Servido, Sirvio
<1>6. CASE op = "COMMIT"
  BY <1>1, <1>6 DEF Servido, Sirvio
<1> QED
  BY <1>2, <1>3, <1>4, <1>5, <1>6 DEF Pedidos

HaceSirve(w) ==
    /\ etapa[w] = "listo" /\ hilo[w].paso = "pide" /\ hilo[w].q \in Query
    /\ hilo[w].op \in Pedidos /\ hilo[w].t \in Tag /\ hilo[w].res = "-"
    /\ \E r \in Hilo :
         /\ hilo' = [hilo EXCEPT ![w] = r]
         /\ r.paso = "recibe" /\ r.q = hilo[w].q /\ r.pc = hilo[w].pc
         /\ r.op = hilo[w].op /\ r.t = hilo[w].t
         /\ r.desaloja = hilo[w].desaloja /\ r.faltan = hilo[w].faltan
         /\ \/ /\ conexion[w] = "abierta" /\ r.res = "OK"
               /\ Sirvio(hilo[w].op, hilo[w].t, memoria[w][hilo[w].t].valor)
               /\ hilo[w].op = "LEER" => r.dato = disco[hilo[w].t] /\ r.dato \in Valor
            \/ /\ conexion[w] = "abierta" /\ r.res = "NO"
               /\ Rechazado(hilo[w].op, hilo[w].t)
               /\ UNCHANGED <<archivo, disco>>
            \/ /\ conexion[w] = "abierta" /\ r.res \in {"OK", "NO"} /\ ~ integro'
               /\ hilo[w].op = "LEER" /\ r.res = "OK" => r.dato \in Valor
               /\ UNCHANGED <<archivo, disco>>
            \/ /\ conexion[w] # "abierta" /\ r.res = "-"
               /\ UNCHANGED <<archivo, disco>>
    /\ archivo' \in [Tag -> {"NO", "WORK_IN_PROGRESS", "COMMITED"}]
    /\ disco' \in [Tag -> Valor \cup {Nadie}]
    /\ servicio' \in [Worker -> {"libre", "atiende", "guarda"}]
    /\ integro' \in BOOLEAN /\ (integro' => integro)
    /\ UNCHANGED <<viva, cortes, etapa, conexion, memoria, desalojo,
                   enCola, aWorker, aMaster, espera, asignada, fin, desalojos>>

\* Storage's thread for a worker stays typed when it answers.
LEMMA EfectoResponde ==
    ASSUME TypeOK, NEW w \in Worker, NEW res, NEW dato, Responde(w, res, dato)
    PROVE  servicio' \in [Worker -> {"libre", "atiende", "guarda"}]
BY DEF TypeOK, Responde

\* The answer, if the connection brings one, is the one Storage gave; once
\* requests have got in each other's way it is any.
LEMMA EfectoSirve ==
    ASSUME WorkerAssumption, TypeOK, NEW w \in Worker, HiloBien(w), Sirve(w) \/ EnviaEnVano(w)
    PROVE  HaceSirve(w)
<1> USE DEF HaceSirve
<1>1. UNCHANGED <<viva, cortes, etapa, conexion, memoria, desalojo,
                  enCola, aWorker, aMaster, espera, asignada, fin, desalojos>>
  BY DEF Sirve, EnviaEnVano, storage, canales, master
<1>2. etapa[w] = "listo" /\ hilo[w].paso = "pide" /\ hilo[w].q \in Query /\ hilo[w].res = "-"
  BY DEF Sirve, EnviaEnVano, En, HiloBien
<1>3. PICK h \in Hilo, op \in Pedidos, t \in Tag : h = hilo[w] /\ op = h.op /\ t = h.t
  BY <1>2, EnPedidoEs DEF TypeOK
<1>4. PICK v : v = IF op = "ESCRIBIR" THEN memoria[w][t].valor ELSE Nadie
  OBVIOUS
<1>5. v \in Valor \cup {Nadie} /\ (op = "ESCRIBIR" => v = memoria[w][t].valor)
  <2>1. ASSUME op = "ESCRIBIR" PROVE memoria[w][t] \in Pagina
    BY <1>2, <1>3, <2>1 DEF HiloBien, EnPedido, Modificada, TypeOK
  <2> QED
    BY <1>4, <2>1 DEF Pagina
\* The record of the thread after an answer.
<1>6. ASSUME NEW res \in {"OK", "NO"}, NEW d \in Valor \cup {Nadie}, Responde(w, res, d)
      PROVE  /\ \E r \in Hilo :
                   /\ hilo' = [hilo EXCEPT ![w] = r]
                   /\ r.paso = "recibe" /\ r.q = h.q /\ r.pc = h.pc
                   /\ r.op = op /\ r.t = t /\ r.res = res /\ r.dato = d
                   /\ r.desaloja = h.desaloja /\ r.faltan = h.faltan
             /\ servicio' \in [Worker -> {"libre", "atiende", "guarda"}]
  <2>1. PICK r : r = [h EXCEPT !.paso = "recibe", !.res = res, !.dato = d]
    OBVIOUS
  <2>2. hilo' = [hilo EXCEPT ![w] = r]
    BY <1>3, <1>6, <2>1 DEF Responde
  <2>3. /\ r \in Hilo /\ r.paso = "recibe" /\ r.q = h.q /\ r.pc = h.pc
        /\ r.op = op /\ r.t = t /\ r.res = res /\ r.dato = d
        /\ r.desaloja = h.desaloja /\ r.faltan = h.faltan
    BY <1>3, <2>1 DEF Hilo, Pasos
  <2> QED
    BY <1>6, <2>2, <2>3, EfectoResponde
<1>0. /\ archivo \in [Tag -> {"NO", "WORK_IN_PROGRESS", "COMMITED"}]
      /\ disco \in [Tag -> Valor \cup {Nadie}]
      /\ servicio \in [Worker -> {"libre", "atiende", "guarda"}] /\ integro \in BOOLEAN
  BY DEF TypeOK
<1>7. CASE Sirve(w) /\ Bien(w)
  <2>1. PICK d : d = IF op = "LEER" THEN disco[t] ELSE Nadie
    OBVIOUS
  <2>2. d \in Valor \cup {Nadie}
    BY <1>0, <2>1
  <2>3. conexion[w] = "abierta" /\ Servido(op, t, v) /\ Responde(w, "OK", d) /\ integro' = integro
    BY <1>3, <1>4, <1>7, <2>1 DEF Sirve, Bien
  <2>4. PICK r \in Hilo :
          /\ hilo' = [hilo EXCEPT ![w] = r]
          /\ r.paso = "recibe" /\ r.q = h.q /\ r.pc = h.pc
          /\ r.op = op /\ r.t = t /\ r.res = "OK" /\ r.dato = d
          /\ r.desaloja = h.desaloja /\ r.faltan = h.faltan
    BY <1>6, <2>2, <2>3
  <2>5. servicio' \in [Worker -> {"libre", "atiende", "guarda"}]
    BY <2>3, EfectoResponde
  <2>6. /\ Sirvio(op, t, v)
        /\ archivo' \in [Tag -> {"NO", "WORK_IN_PROGRESS", "COMMITED"}]
        /\ disco' \in [Tag -> Valor \cup {Nadie}]
    BY <1>3, <1>5, <2>3, EfectoServido
  <2>7. Sirvio(op, t, memoria[w][t].valor)
    BY <1>5, <2>6 DEF Sirvio
  <2>8. op = "LEER" => r.dato = disco[t] /\ r.dato \in Valor
    BY <2>1, <2>2, <2>4, <2>6 DEF Sirvio
  <2> QED
    BY <1>0, <1>1, <1>2, <1>3, <2>3, <2>4, <2>5, <2>6, <2>7, <2>8
<1>8. CASE Sirve(w) /\ Mal(w)
  <2>1. /\ conexion[w] = "abierta" /\ Rechazado(op, t) /\ Responde(w, "NO", Nadie)
        /\ integro' = integro /\ UNCHANGED <<archivo, disco>>
    BY <1>3, <1>8 DEF Sirve, Mal
  <2>2. PICK r \in Hilo :
          /\ hilo' = [hilo EXCEPT ![w] = r]
          /\ r.paso = "recibe" /\ r.q = h.q /\ r.pc = h.pc
          /\ r.op = op /\ r.t = t /\ r.res = "NO" /\ r.dato = Nadie
          /\ r.desaloja = h.desaloja /\ r.faltan = h.faltan
    BY <1>6, <2>1
  <2>3. servicio' \in [Worker -> {"libre", "atiende", "guarda"}]
    BY <2>1, EfectoResponde
  <2>4. \E e \in Hilo :
          /\ hilo' = [hilo EXCEPT ![w] = e]
          /\ e.paso = "recibe" /\ e.q = hilo[w].q /\ e.pc = hilo[w].pc
          /\ e.op = hilo[w].op /\ e.t = hilo[w].t
          /\ e.desaloja = hilo[w].desaloja /\ e.faltan = hilo[w].faltan
          /\ conexion[w] = "abierta" /\ e.res = "NO"
          /\ Rechazado(hilo[w].op, hilo[w].t)
          /\ UNCHANGED <<archivo, disco>>
    BY <1>3, <2>1, <2>2
  <2>5. hilo[w].op \in Pedidos /\ hilo[w].t \in Tag
    BY <1>3
  <2> QED
    BY ZenonT(40), <1>0, <1>1, <1>2, <2>1, <2>3, <2>4, <2>5
<1>9. CASE Sirve(w) /\ (SinBloque(w) \/ Cualquiera(w))
  <2>1. /\ conexion[w] = "abierta" /\ integro' = FALSE /\ UNCHANGED <<archivo, disco>>
        /\ \E res \in {"OK", "NO"}, d \in Valor \cup {Nadie} :
              Responde(w, res, d) /\ (op = "LEER" /\ res = "OK" => d \in Valor)
    BY <1>0, <1>3, <1>9 DEF Sirve, SinBloque, Cualquiera
  <2>2. PICK res \in {"OK", "NO"}, d \in Valor \cup {Nadie} :
          Responde(w, res, d) /\ (op = "LEER" /\ res = "OK" => d \in Valor)
    BY <2>1
  <2>3. PICK r \in Hilo :
          /\ hilo' = [hilo EXCEPT ![w] = r]
          /\ r.paso = "recibe" /\ r.q = h.q /\ r.pc = h.pc
          /\ r.op = op /\ r.t = t /\ r.res = res /\ r.dato = d
          /\ r.desaloja = h.desaloja /\ r.faltan = h.faltan
    BY <1>6, <2>2
  <2>4. servicio' \in [Worker -> {"libre", "atiende", "guarda"}]
    BY <2>2, EfectoResponde
  <2> QED
    BY <1>0, <1>1, <1>2, <1>3, <2>1, <2>2, <2>3, <2>4
<1>10. CASE EnviaEnVano(w)
  <2>1. /\ conexion[w] # "abierta" /\ Pasa(w, "recibe")
        /\ UNCHANGED <<archivo, disco, servicio, integro>>
    BY <1>10 DEF EnviaEnVano, storage
  <2>2. PICK r : r = [h EXCEPT !.paso = "recibe"]
    OBVIOUS
  <2>3. hilo' = [hilo EXCEPT ![w] = r]
    BY <1>3, <2>1, <2>2 DEF Pasa
  <2>4. /\ r \in Hilo /\ r.paso = "recibe" /\ r.q = h.q /\ r.pc = h.pc
        /\ r.op = op /\ r.t = t /\ r.res = h.res
        /\ r.desaloja = h.desaloja /\ r.faltan = h.faltan
    BY <1>3, <2>2 DEF Hilo, Pasos
  <2> QED
    BY <1>0, <1>1, <1>2, <1>3, <2>1, <2>3, <2>4
<1> QED
  BY <1>7, <1>8, <1>9, <1>10 DEF Sirve

\* What a good answer leaves in the memory of the worker.
Guardo(w, op, t, dato) ==
    /\ memoria' \in [Worker -> [Tag -> Pagina \cup {Nadie}]]
    /\ \A v \in Worker \ {w} : memoria'[v] = memoria[v]
    /\ \A u \in Tag \ {t} : memoria'[w][u] = memoria[w][u]
    /\ op = "LEER" => \E p \in Pagina : /\ memoria'[w][t] = p /\ p # Nadie
                                        /\ p.valor = dato /\ p.modificada = FALSE
    /\ op = "ESCRIBIR" => \E p \in Pagina : /\ memoria'[w][t] = p /\ p # Nadie
                                            /\ p.valor = memoria[w][t].valor
                                            /\ p.modificada = FALSE
    /\ op \notin {"LEER", "ESCRIBIR"} => memoria' = memoria

\* A good answer changes one page: the one read, or the one written.
LEMMA EfectoGuarda ==
    ASSUME WorkerAssumption, TypeOK, NEW w \in Worker, HiloBien(w),
           hilo[w].paso = "recibe", hilo[w].res = "OK",
           memoria' = [memoria EXCEPT ![w] = TrasPedido(memoria[w], hilo[w])]
    PROVE  Guardo(w, hilo[w].op, hilo[w].t, hilo[w].dato)
<1>1. PICK h \in Hilo, t \in Tag : h = hilo[w] /\ t = h.t
  BY EnPedidoEs DEF TypeOK
<1>2. memoria \in [Worker -> [Tag -> Pagina \cup {Nadie}]]
  BY DEF TypeOK
<1>6. t \in Tag
  BY <1>1
<1>3. CASE h.op = "LEER"
  <2>1. h.dato \in Valor
    BY <1>1, <1>3 DEF HiloBien
  <2>2. PICK p \in Pagina : p = [valor |-> h.dato, modificada |-> FALSE]
    BY <2>1 DEF Pagina
  <2>3. p \in Pagina /\ p # Nadie /\ p.valor = h.dato /\ p.modificada = FALSE
    BY <2>2, PaginaEs
  <2>4. memoria' = [memoria EXCEPT ![w] = [@ EXCEPT ![t] = p]]
    BY <1>1, <1>3, <2>2 DEF TrasPedido
  <2>5. /\ memoria' \in [Worker -> [Tag -> Pagina \cup {Nadie}]]
        /\ memoria'[w][t] = p
        /\ \A u \in Tag \ {t} : memoria'[w][u] = memoria[w][u]
        /\ \A v \in Worker \ {w} : memoria'[v] = memoria[v]
    BY <1>2, <1>6, <2>3, <2>4, MemoriaNueva
  <2> QED
    BY <1>1, <1>3, <2>3, <2>5 DEF Guardo
<1>4. CASE h.op = "ESCRIBIR"
  <2>1. memoria[w][t] \in Pagina
    BY <1>1, <1>2, <1>4 DEF HiloBien, EnPedido, Modificada
  <2>2. PICK p : p = [memoria[w][t] EXCEPT !.modificada = FALSE]
    OBVIOUS
  <2>3. p \in Pagina /\ p.valor = memoria[w][t].valor /\ p.modificada = FALSE
    BY <2>1, <2>2 DEF Pagina
  <2>4. p # Nadie
    BY <2>3, PaginaEs
  <2>5. memoria' = [memoria EXCEPT ![w] = [@ EXCEPT ![t] = p]]
    BY <1>1, <1>4, <2>2 DEF TrasPedido
  <2>6. /\ memoria' \in [Worker -> [Tag -> Pagina \cup {Nadie}]]
        /\ memoria'[w][t] = p
        /\ \A u \in Tag \ {t} : memoria'[w][u] = memoria[w][u]
        /\ \A v \in Worker \ {w} : memoria'[v] = memoria[v]
    BY <1>2, <1>6, <2>3, <2>5, MemoriaNueva
  <2> QED
    BY <1>1, <1>4, <2>3, <2>4, <2>6 DEF Guardo
<1>5. CASE h.op \notin {"LEER", "ESCRIBIR"}
  <2>1. memoria' = memoria
    BY <1>1, <1>2, <1>5 DEF TrasPedido
  <2> QED
    BY <1>1, <1>2, <1>5, <2>1 DEF Guardo
<1> QED
  BY <1>3, <1>4, <1>5

\* What receiving does to the socket.
LEMMA EfectoRecepcion ==
    ASSUME TypeOK, NEW w \in Worker, conexion' = [conexion EXCEPT ![w] = TrasRecibir(w)]
    PROVE  /\ conexion' \in [Worker -> {"abierta", "cortada", "cerrada"}]
           /\ conexion'[w] = (IF conexion[w] = "abierta" THEN "abierta" ELSE "cerrada")
           /\ \A v \in Worker \ {w} : conexion'[v] = conexion[v]
BY DEF TypeOK, TrasRecibir

HaceVuelve(w, p, n) ==
    \E r \in Hilo :
       /\ hilo' = [hilo EXCEPT ![w] = r]
       /\ r.paso = p /\ r.q = hilo[w].q /\ r.pc = n /\ r.op = "-" /\ r.t = Nadie
       /\ r.res = "-" /\ r.dato = Nadie /\ r.desaloja = hilo[w].desaloja
       /\ r.faltan = hilo[w].faltan \ {hilo[w].t}

\* The request is over, and its page is no longer among those to be written.
LEMMA EfectoVuelve ==
    ASSUME TypeOK, NEW w \in Worker, NEW p \in Pasos, NEW n \in Nat, Vuelve(w, p, n)
    PROVE  HaceVuelve(w, p, n)
<1>1. PICK h \in Hilo, F \in SUBSET Tag : h = hilo[w] /\ F = h.faltan \ {h.t}
  <2>1. hilo[w] \in Hilo /\ hilo[w].faltan \ {hilo[w].t} \in SUBSET Tag
    BY DEF TypeOK, Hilo
  <2> QED
    BY <2>1
<1>2. PICK r : r = [h EXCEPT !.paso = p, !.pc = n, !.op = "-", !.t = Nadie, !.res = "-",
                             !.dato = Nadie, !.faltan = F]
  OBVIOUS
<1>3. hilo' = [hilo EXCEPT ![w] = r]
  BY <1>1, <1>2 DEF Vuelve
<1>4. /\ r \in Hilo /\ r.paso = p /\ r.q = h.q /\ r.pc = n /\ r.op = "-" /\ r.t = Nadie
      /\ r.res = "-" /\ r.dato = Nadie /\ r.desaloja = h.desaloja /\ r.faltan = F
  BY <1>1, <1>2 DEF Hilo
<1> QED
  BY <1>1, <1>3, <1>4 DEF HaceVuelve

RecibeBien(w) ==
    /\ conexion[w] = "abierta" /\ hilo[w].res = "OK"
    /\ Guardo(w, hilo[w].op, hilo[w].t, hilo[w].dato)
    /\ \E r \in Hilo :
         /\ hilo' = [hilo EXCEPT ![w] = r]
         /\ r.paso = (IF hilo[w].op \in {"LEER", "ESCRIBIR"} THEN "ejecuta" ELSE "linea")
         /\ r.pc = (IF hilo[w].op \in {"LEER", "ESCRIBIR"} THEN hilo[w].pc ELSE hilo[w].pc + 1)
         /\ r.q = hilo[w].q /\ r.op = "-" /\ r.t = Nadie /\ r.res = "-"
         /\ r.dato = Nadie /\ r.desaloja = FALSE
         /\ r.faltan = hilo[w].faltan \ {hilo[w].t}
    /\ UNCHANGED aMaster

RecibeMal(w) ==
    /\ ~ (conexion[w] = "abierta" /\ hilo[w].res = "OK")
    /\ hilo' = [hilo EXCEPT ![w] = Libre]
    /\ aMaster' = [aMaster EXCEPT ![w] =
                     Append(@, [op |-> "FIN", q |-> hilo[w].q, dato |-> 0])]
    /\ UNCHANGED memoria

HaceRecibe(w) ==
    /\ etapa[w] = "listo" /\ hilo[w].paso = "recibe" /\ hilo[w].q \in Query
    /\ hilo[w].op \in Pedidos /\ hilo[w].t \in Tag /\ hilo[w].desaloja = FALSE
    /\ conexion' \in [Worker -> {"abierta", "cortada", "cerrada"}]
    /\ conexion'[w] = (IF conexion[w] = "abierta" THEN "abierta" ELSE "cerrada")
    /\ \A v \in Worker \ {w} : conexion'[v] = conexion[v]
    /\ RecibeBien(w) \/ RecibeMal(w)
    /\ UNCHANGED <<viva, cortes, archivo, disco, servicio, integro, etapa, desalojo, enCola,
                   aWorker, espera, asignada, fin, desalojos>>

\* The answer to a request of an instruction: the line goes on, or the query ends.
LEMMA EfectoRecibe ==
    ASSUME WorkerAssumption, TypeOK, NEW w \in Worker, HiloBien(w), Recibe(w)
    PROVE  HaceRecibe(w)
<1> USE DEF HaceRecibe
<1>1. UNCHANGED <<viva, cortes, archivo, disco, servicio, integro, etapa, desalojo, enCola,
                  aWorker, espera, asignada, fin, desalojos>>
  BY DEF Recibe, storage, master
<1>2. etapa[w] = "listo" /\ hilo[w].paso = "recibe" /\ hilo[w].desaloja = FALSE
  BY DEF Recibe, En, TypeOK, Hilo
<1>3. hilo[w].q \in Query /\ hilo[w].op \in Pedidos /\ hilo[w].t \in Tag
  BY <1>2, EnPedidoEs
<1>4. /\ conexion' \in [Worker -> {"abierta", "cortada", "cerrada"}]
      /\ conexion'[w] = (IF conexion[w] = "abierta" THEN "abierta" ELSE "cerrada")
      /\ \A v \in Worker \ {w} : conexion'[v] = conexion[v]
  BY EfectoRecepcion DEF Recibe
<1>5. CASE Recibido(w)
  <2>1. conexion[w] = "abierta" /\ hilo[w].res = "OK"
    BY <1>5 DEF Recibido
  <2>2. memoria' = [memoria EXCEPT ![w] = TrasPedido(memoria[w], hilo[w])] /\ UNCHANGED aMaster
    BY <1>5 DEF Recibe
  <2>3. Guardo(w, hilo[w].op, hilo[w].t, hilo[w].dato)
    BY <1>2, <2>1, <2>2, EfectoGuarda
  <2>4. PICK p \in Pasos, n \in Nat :
           /\ p = (IF hilo[w].op \in {"LEER", "ESCRIBIR"} THEN "ejecuta" ELSE "linea")
           /\ n = (IF hilo[w].op \in {"LEER", "ESCRIBIR"} THEN hilo[w].pc ELSE hilo[w].pc + 1)
           /\ Vuelve(w, p, n)
    <3>1. hilo[w].pc \in Nat /\ hilo[w].pc + 1 \in Nat /\ "ejecuta" \in Pasos /\ "linea" \in Pasos
      BY DEF TypeOK, Hilo, Pasos
    <3> QED
      BY <1>5, <3>1 DEF Recibe
  <2>5. HaceVuelve(w, p, n)
    BY <2>4, EfectoVuelve
  <2>6. RecibeBien(w)
    BY <2>1, <2>2, <2>3, <2>4, <2>5, <1>2 DEF RecibeBien, HaceVuelve
  <2> QED
    BY <1>1, <1>2, <1>3, <1>4, <2>6
<1>6. CASE ~ Recibido(w)
  <2>1. /\ ~ (conexion[w] = "abierta" /\ hilo[w].res = "OK")
        /\ hilo' = [hilo EXCEPT ![w] = Libre]
        /\ aMaster' = [aMaster EXCEPT ![w] =
                         Append(@, [op |-> "FIN", q |-> hilo[w].q, dato |-> 0])]
        /\ UNCHANGED memoria
    BY <1>6 DEF Recibido, Recibe, TerminaMal, Contesta
  <2>2. RecibeMal(w)
    BY <2>1 DEF RecibeMal
  <2> QED
    BY <1>1, <1>2, <1>3, <1>4, <2>2
<1> QED
  BY <1>5, <1>6

HaceVuelca(w) ==
    /\ etapa[w] = "listo" /\ hilo[w].paso = "vuelca" /\ hilo[w].q \in Query
    /\ hilo[w].res = "-" /\ hilo[w].desaloja = TRUE
    /\ \E r \in Hilo :
         /\ hilo' = [hilo EXCEPT ![w] = r]
         /\ r.paso = "pide" /\ r.q = hilo[w].q /\ r.pc = hilo[w].pc
         /\ r.op = "ESCRIBIR" /\ r.t \in hilo[w].faltan
         /\ r.res = hilo[w].res /\ r.dato = hilo[w].dato
         /\ r.desaloja = hilo[w].desaloja /\ r.faltan = hilo[w].faltan
    /\ UNCHANGED <<viva, cortes, archivo, disco, servicio, integro, etapa, conexion, memoria,
                   desalojo, enCola, aWorker, aMaster, espera, asignada, fin, desalojos>>

\* The next page of the flush is sent.
LEMMA EfectoVuelca ==
    ASSUME TypeOK, NEW w \in Worker, HiloBien(w), Vuelca(w)
    PROVE  HaceVuelca(w)
<1> USE DEF HaceVuelca
<1>1. UNCHANGED <<viva, cortes, archivo, disco, servicio, integro, etapa, conexion, memoria,
                  desalojo, enCola, aWorker, aMaster, espera, asignada, fin, desalojos>>
  BY DEF Vuelca, storage, canales, master
<1>2. /\ etapa[w] = "listo" /\ hilo[w].paso = "vuelca" /\ hilo[w].q \in Query
      /\ hilo[w].res = "-" /\ hilo[w].desaloja = TRUE
  BY DEF Vuelca, En, HiloBien, TypeOK, Hilo
<1>3. PICK t \in hilo[w].faltan : Pide(w, "ESCRIBIR", t)
  BY DEF Vuelca
<1>4. PICK h \in Hilo : h = hilo[w] /\ t \in Tag
  BY <1>3 DEF TypeOK, Hilo
<1>5. PICK r : r = [h EXCEPT !.paso = "pide", !.op = "ESCRIBIR", !.t = t]
  OBVIOUS
<1>6. hilo' = [hilo EXCEPT ![w] = r]
  BY <1>3, <1>4, <1>5 DEF Pide
<1>7. /\ r \in Hilo /\ r.paso = "pide" /\ r.q = h.q /\ r.pc = h.pc
      /\ r.op = "ESCRIBIR" /\ r.t = t /\ r.res = h.res /\ r.dato = h.dato
      /\ r.desaloja = h.desaloja /\ r.faltan = h.faltan
  BY ZenonT(40), <1>4, <1>5 DEF Hilo, Pasos, Pedidos
<1> QED
  BY <1>1, <1>2, <1>3, <1>4, <1>6, <1>7

HaceRecibeVolcado(w) ==
    /\ etapa[w] = "listo" /\ hilo[w].paso = "recibe" /\ hilo[w].q \in Query
    /\ hilo[w].op = "ESCRIBIR" /\ hilo[w].t \in Tag /\ hilo[w].desaloja = TRUE
    /\ conexion' \in [Worker -> {"abierta", "cortada", "cerrada"}]
    /\ conexion'[w] = (IF conexion[w] = "abierta" THEN "abierta" ELSE "cerrada")
    /\ \A v \in Worker \ {w} : conexion'[v] = conexion[v]
    /\ \/ /\ conexion[w] = "abierta" /\ hilo[w].res = "OK"
          /\ Guardo(w, hilo[w].op, hilo[w].t, hilo[w].dato)
       \/ ~ (conexion[w] = "abierta" /\ hilo[w].res = "OK") /\ UNCHANGED memoria
    /\ \E r \in Hilo :
         /\ hilo' = [hilo EXCEPT ![w] = r]
         /\ r.paso = "vuelca" /\ r.q = hilo[w].q /\ r.pc = hilo[w].pc /\ r.op = "-"
         /\ r.t = Nadie /\ r.res = "-" /\ r.dato = Nadie /\ r.desaloja = TRUE
         /\ r.faltan = hilo[w].faltan \ {hilo[w].t}
    /\ UNCHANGED <<viva, cortes, archivo, disco, servicio, integro, etapa, desalojo, enCola,
                   aWorker, aMaster, espera, asignada, fin, desalojos>>

\* Its answer: the page is clean, or stays modified.
LEMMA EfectoRecibeVolcado ==
    ASSUME WorkerAssumption, TypeOK, NEW w \in Worker, HiloBien(w), RecibeVolcado(w)
    PROVE  HaceRecibeVolcado(w)
<1> USE DEF HaceRecibeVolcado
<1>1. UNCHANGED <<viva, cortes, archivo, disco, servicio, integro, etapa, desalojo, enCola,
                  aWorker, aMaster, espera, asignada, fin, desalojos>>
  BY DEF RecibeVolcado, storage, canales, master
<1>2. etapa[w] = "listo" /\ hilo[w].paso = "recibe" /\ hilo[w].desaloja = TRUE
  BY DEF RecibeVolcado, En, TypeOK, Hilo
<1>3. hilo[w].q \in Query /\ hilo[w].op = "ESCRIBIR" /\ hilo[w].t \in Tag
  BY <1>2, EnPedidoEs DEF HiloBien, EnPedido
<1>4. /\ conexion' \in [Worker -> {"abierta", "cortada", "cerrada"}]
      /\ conexion'[w] = (IF conexion[w] = "abierta" THEN "abierta" ELSE "cerrada")
      /\ \A v \in Worker \ {w} : conexion'[v] = conexion[v]
  BY EfectoRecepcion DEF RecibeVolcado
<1>5. /\ Recibido(w) => memoria' = [memoria EXCEPT ![w] = TrasPedido(memoria[w], hilo[w])]
      /\ ~ Recibido(w) => UNCHANGED memoria
      /\ Vuelve(w, "vuelca", hilo[w].pc)
  BY DEF RecibeVolcado
<1>6. \/ /\ conexion[w] = "abierta" /\ hilo[w].res = "OK"
         /\ Guardo(w, hilo[w].op, hilo[w].t, hilo[w].dato)
      \/ ~ (conexion[w] = "abierta" /\ hilo[w].res = "OK") /\ UNCHANGED memoria
  BY <1>2, <1>5, EfectoGuarda DEF Recibido
<1>7. PICK n \in Nat : n = hilo[w].pc
  BY DEF TypeOK, Hilo
<1>8. HaceVuelve(w, "vuelca", n)
  BY <1>5, <1>7, EfectoVuelve DEF Pasos
<1> QED
  BY <1>1, <1>2, <1>3, <1>4, <1>6, <1>7, <1>8 DEF HaceVuelve

HaceContestaDesalojo(w) ==
    /\ etapa[w] = "listo" /\ hilo[w].paso = "vuelca" /\ hilo[w].q \in Query
    /\ hilo[w].desaloja = TRUE /\ hilo[w].faltan = {}
    /\ hilo' = [hilo EXCEPT ![w] = Libre]
    /\ aMaster' = [aMaster EXCEPT ![w] =
                     Append(@, [op |-> "DESALOJAR", q |-> hilo[w].q, dato |-> hilo[w].pc])]
    /\ UNCHANGED <<viva, cortes, archivo, disco, servicio, integro, etapa, conexion, memoria,
                   desalojo, enCola, aWorker, espera, asignada, fin, desalojos>>

\* The answer to the eviction, once no page is left to be written.
LEMMA EfectoContestaDesalojo ==
    ASSUME TypeOK, NEW w \in Worker, HiloBien(w), ContestaDesalojo(w)
    PROVE  HaceContestaDesalojo(w)
<1> USE DEF HaceContestaDesalojo
<1>1. UNCHANGED <<viva, cortes, archivo, disco, servicio, integro, etapa, conexion, memoria,
                  desalojo, enCola, aWorker, espera, asignada, fin, desalojos>>
  BY DEF ContestaDesalojo, storage, master
<1> QED
  BY <1>1 DEF ContestaDesalojo, Contesta, En, HiloBien, TypeOK, Hilo

\* Whatever step the query thread takes is one of these.
HaceAlgo(w) ==
    \/ \E q \in Query : HaceToma(w, q)
    \/ HaceReconecta(w) \/ HaceReconectaEnVano(w) \/ HaceDesaloja(w) \/ HaceTermina(w)
    \/ HacePideInstruccion(w) \/ HaceEjecuta(w) \/ HaceSirve(w) \/ HaceRecibe(w)
    \/ HaceVuelca(w) \/ HaceRecibeVolcado(w) \/ HaceContestaDesalojo(w)

\* Every step of the query thread, and the answer of Storage it waits for, does
\* one of these things.
LEMMA EfectoProcesa ==
    ASSUME WorkerAssumption, TypeOK, NEW w \in Worker, HiloBien(w), ProcesaQuery(w) \/ Sirve(w)
    PROVE  HaceAlgo(w)
<1>1. ASSUME NEW q \in Query, Toma(w, q) PROVE HaceToma(w, q)
  BY <1>1, EfectoToma
<1>2. Reconecta(w) => HaceReconecta(w)
  BY EfectoReconecta
<1>3. ReconectaEnVano(w) => HaceReconectaEnVano(w)
  BY EfectoReconectaEnVano
<1>4. Desaloja(w) => HaceDesaloja(w)
  BY EfectoDesaloja
<1>5. Termina(w) => HaceTermina(w)
  BY EfectoTermina
<1>6. PideInstruccion(w) => HacePideInstruccion(w)
  BY EfectoPideInstruccion
<1>7. Ejecuta(w) => HaceEjecuta(w)
  BY EfectoEjecuta
<1>8. Sirve(w) \/ EnviaEnVano(w) => HaceSirve(w)
  BY EfectoSirve
<1>9. Recibe(w) => HaceRecibe(w)
  BY EfectoRecibe
<1>10. Vuelca(w) => HaceVuelca(w)
  BY EfectoVuelca
<1>11. RecibeVolcado(w) => HaceRecibeVolcado(w)
  BY EfectoRecibeVolcado
<1>12. ContestaDesalojo(w) => HaceContestaDesalojo(w)
  BY EfectoContestaDesalojo
<1> QED
  BY <1>1, <1>2, <1>3, <1>4, <1>5, <1>6, <1>7, <1>8, <1>9, <1>10, <1>11, <1>12
     DEF HaceAlgo, ProcesaQuery

-----------------------------------------------------------------------------
(* Types and threads are preserved.                                        *)

\* Reading a message of the Master keeps every variable typed.
LEMMA TipoEscucha ==
    ASSUME TypeOK, NEW w \in Worker, Escucha(w)
    PROVE  TypeOK'
<1>1. aWorker[w] \in Seq(MsgAWorker) /\ aWorker[w] # <<>>
  BY DEF Escucha, TypeOK, MsgAWorker
<1>2. Head(aWorker[w]) \in MsgAWorker /\ Tail(aWorker[w]) \in Seq(MsgAWorker)
  BY <1>1
<1>3. aWorker' \in [Worker -> Seq(MsgAWorker)]
  BY <1>2 DEF Escucha, TypeOK, MsgAWorker
<1>4. PICK p \in Query : p = Head(aWorker[w]).q
  BY <1>2 DEF MsgAWorker
<1>5. /\ enCola' = enCola \/ enCola' = [enCola EXCEPT ![w] = @ \cup {p}]
      /\ desalojo' = desalojo \/ desalojo' = [desalojo EXCEPT ![w] = TRUE]
  BY <1>4 DEF Escucha
<1>6. enCola' \in [Worker -> SUBSET Query] /\ desalojo' \in [Worker -> BOOLEAN]
  <2>1. enCola \in [Worker -> SUBSET Query] /\ desalojo \in [Worker -> BOOLEAN]
    BY DEF TypeOK
  <2>2. [enCola EXCEPT ![w] = @ \cup {p}] \in [Worker -> SUBSET Query]
    BY <1>4, <2>1
  <2> QED
    BY <1>5, <2>1, <2>2
<1>7. UNCHANGED <<storage, etapa, conexion, memoria, hilo, aMaster, master>>
  BY DEF Escucha
<1> QED
  BY <1>3, <1>6, <1>7 DEF TypeOK, MsgAWorker, storage, master

\* A message of the thread for the Master.
LEMMA AvisoTipo ==
    ASSUME TypeOK, NEW w \in Worker, NEW m \in MsgAMaster,
           aMaster' = [aMaster EXCEPT ![w] = Append(@, m)]
    PROVE  aMaster' \in [Worker -> Seq(MsgAMaster)]
<1>1. aMaster \in [Worker -> Seq(MsgAMaster)]
  BY DEF TypeOK, MsgAMaster
<1>2. Append(aMaster[w], m) \in Seq(MsgAMaster)
  BY <1>1
<1> QED
  BY <1>1, <1>2

\* So does every step of the query thread.
LEMMA TipoProcesa ==
    ASSUME WorkerAssumption, TypeOK, NEW w \in Worker, HaceAlgo(w)
    PROVE  TypeOK'
<1>1. ASSUME NEW q \in Query, HaceToma(w, q) PROVE TypeOK'
  <2>1. PICK r \in Hilo : hilo' = [hilo EXCEPT ![w] = r]
    BY <1>1 DEF HaceToma
  <2>2. hilo' \in [Worker -> Hilo]
    BY <2>1, HiloNuevo DEF TypeOK
  <2>3. enCola' = [enCola EXCEPT ![w] = @ \ {q}]
    BY <1>1 DEF HaceToma
  <2>4. enCola' \in [Worker -> SUBSET Query]
    BY <2>3 DEF TypeOK
  <2>5. UNCHANGED <<viva, cortes, archivo, disco, servicio, integro, etapa, conexion, memoria,
                    desalojo, aWorker, aMaster, espera, asignada, fin, desalojos>>
    BY <1>1 DEF HaceToma
  <2> QED
    BY <2>2, <2>4, <2>5 DEF TypeOK
<1>2. ASSUME HaceReconecta(w) PROVE TypeOK'
  <2>1. PICK r \in Hilo : hilo' = [hilo EXCEPT ![w] = r]
    BY <1>2 DEF HaceReconecta
  <2>2. hilo' \in [Worker -> Hilo]
    BY <2>1, HiloNuevo DEF TypeOK
  <2>3. conexion' = [conexion EXCEPT ![w] = "abierta"]
    BY <1>2 DEF HaceReconecta
  <2>4. conexion' \in [Worker -> {"abierta", "cortada", "cerrada"}]
    BY <2>3 DEF TypeOK
  <2>5. UNCHANGED <<viva, cortes, archivo, disco, servicio, integro, etapa, memoria, desalojo,
                    enCola, aWorker, aMaster, espera, asignada, fin, desalojos>>
    BY <1>2 DEF HaceReconecta
  <2> QED
    BY <2>2, <2>4, <2>5 DEF TypeOK
<1>3. ASSUME HaceReconectaEnVano(w) PROVE TypeOK'
  <2>1. /\ etapa' = [etapa EXCEPT ![w] = "caido"]
        /\ conexion' = [conexion EXCEPT ![w] = "cerrada"]
        /\ enCola' = [enCola EXCEPT ![w] = {}]
        /\ desalojo' = [desalojo EXCEPT ![w] = FALSE]
    BY <1>3 DEF HaceReconectaEnVano
  <2>2. /\ etapa' \in [Worker -> {"listo", "caido"}]
        /\ conexion' \in [Worker -> {"abierta", "cortada", "cerrada"}]
        /\ enCola' \in [Worker -> SUBSET Query]
        /\ desalojo' \in [Worker -> BOOLEAN]
    BY <2>1 DEF TypeOK
  <2>3. hilo' \in [Worker -> Hilo]
    BY <1>3, LibreEnHilo, HiloNuevo DEF HaceReconectaEnVano, TypeOK
  <2>4. aWorker' \in [Worker -> Seq(MsgAWorker)]
    <3>1. <<>> \in Seq(MsgAWorker)
      OBVIOUS
    <3>2. aWorker' = [aWorker EXCEPT ![w] = <<>>] /\ aWorker \in [Worker -> Seq(MsgAWorker)]
      BY <1>3 DEF HaceReconectaEnVano, TypeOK, MsgAWorker
    <3> QED
      BY <3>1, <3>2
  <2>5. /\ memoria' \in [Worker -> [Tag -> Pagina \cup {Nadie}]]
        /\ UNCHANGED <<viva, cortes, archivo, disco, servicio, integro, aMaster, espera,
                       asignada, fin, desalojos>>
    BY <1>3 DEF HaceReconectaEnVano
  <2> QED
    BY <2>2, <2>3, <2>4, <2>5 DEF TypeOK, MsgAWorker
<1>4. ASSUME HaceDesaloja(w) PROVE TypeOK'
  <2>1. PICK r \in Hilo : hilo' = [hilo EXCEPT ![w] = r]
    BY <1>4 DEF HaceDesaloja
  <2>2. hilo' \in [Worker -> Hilo]
    BY <2>1, HiloNuevo DEF TypeOK
  <2>3. desalojo' = [desalojo EXCEPT ![w] = FALSE]
    BY <1>4 DEF HaceDesaloja
  <2>4. desalojo' \in [Worker -> BOOLEAN]
    BY <2>3 DEF TypeOK
  <2>5. UNCHANGED <<viva, cortes, archivo, disco, servicio, integro, etapa, conexion, memoria,
                    enCola, aWorker, aMaster, espera, asignada, fin, desalojos>>
    BY <1>4 DEF HaceDesaloja
  <2> QED
    BY <2>2, <2>4, <2>5 DEF TypeOK
<1>5. ASSUME NEW m \in MsgAMaster, hilo' = [hilo EXCEPT ![w] = Libre],
             aMaster' = [aMaster EXCEPT ![w] = Append(@, m)],
             memoria' \in [Worker -> [Tag -> Pagina \cup {Nadie}]],
             conexion' \in [Worker -> {"abierta", "cortada", "cerrada"}],
             UNCHANGED <<viva, cortes, archivo, disco, servicio, integro, etapa, desalojo,
                         enCola, aWorker, espera, asignada, fin, desalojos>>
      PROVE  TypeOK'
  <2>1. aMaster' \in [Worker -> Seq(MsgAMaster)]
    BY <1>5, AvisoTipo
  <2>2. hilo' \in [Worker -> Hilo]
    BY <1>5, LibreEnHilo, HiloNuevo DEF TypeOK
  <2> QED
    BY <1>5, <2>1, <2>2 DEF TypeOK, MsgAMaster
<1>6. ASSUME HaceTermina(w) PROVE TypeOK'
  <2>1. PICK m : /\ m = [op |-> "FIN", q |-> hilo[w].q, dato |-> 1]
                 /\ aMaster' = [aMaster EXCEPT ![w] = Append(@, m)] /\ hilo[w].q \in Query
    BY <1>6 DEF HaceTermina
  <2>2. m \in MsgAMaster
    BY <2>1 DEF MsgAMaster
  <2>3. /\ hilo' = [hilo EXCEPT ![w] = Libre]
        /\ UNCHANGED <<viva, cortes, archivo, disco, servicio, integro, etapa, conexion,
                       memoria, desalojo, enCola, aWorker, espera, asignada, fin, desalojos>>
    BY <1>6 DEF HaceTermina
  <2> QED
    BY <1>5, <2>1, <2>2, <2>3 DEF TypeOK
<1>7. ASSUME HacePideInstruccion(w) PROVE TypeOK'
  <2>1. PICK r \in Hilo : hilo' = [hilo EXCEPT ![w] = r]
    BY <1>7 DEF HacePideInstruccion
  <2>2. hilo' \in [Worker -> Hilo]
    BY <2>1, HiloNuevo DEF TypeOK
  <2>3. UNCHANGED <<viva, cortes, archivo, disco, servicio, integro, etapa, conexion, memoria,
                    desalojo, enCola, aWorker, aMaster, espera, asignada, fin, desalojos>>
    BY <1>7 DEF HacePideInstruccion
  <2> QED
    BY <2>2, <2>3 DEF TypeOK
<1>8. ASSUME HaceEjecuta(w) PROVE TypeOK'
  <2>1. PICK r \in Hilo : hilo' = [hilo EXCEPT ![w] = r]
    BY <1>8 DEF HaceEjecuta
  <2>2. hilo' \in [Worker -> Hilo]
    BY <2>1, HiloNuevo DEF TypeOK
  <2>3. /\ memoria' \in [Worker -> [Tag -> Pagina \cup {Nadie}]]
        /\ UNCHANGED <<viva, cortes, archivo, disco, servicio, integro, etapa, conexion,
                       desalojo, enCola, aWorker, aMaster, espera, asignada, fin, desalojos>>
    BY <1>8 DEF HaceEjecuta
  <2> QED
    BY <2>2, <2>3 DEF TypeOK
<1>9. ASSUME HaceSirve(w) PROVE TypeOK'
  <2>1. PICK r \in Hilo : hilo' = [hilo EXCEPT ![w] = r]
    BY <1>9 DEF HaceSirve
  <2>2. hilo' \in [Worker -> Hilo]
    BY <2>1, HiloNuevo DEF TypeOK
  <2>3. /\ archivo' \in [Tag -> {"NO", "WORK_IN_PROGRESS", "COMMITED"}]
        /\ disco' \in [Tag -> Valor \cup {Nadie}]
        /\ servicio' \in [Worker -> {"libre", "atiende", "guarda"}] /\ integro' \in BOOLEAN
        /\ UNCHANGED <<viva, cortes, etapa, conexion, memoria, desalojo,
                       enCola, aWorker, aMaster, espera, asignada, fin, desalojos>>
    BY <1>9 DEF HaceSirve
  <2> QED
    BY <2>2, <2>3 DEF TypeOK
<1>10. ASSUME HaceRecibe(w) PROVE TypeOK'
  <2>1. /\ conexion' \in [Worker -> {"abierta", "cortada", "cerrada"}]
        /\ UNCHANGED <<viva, cortes, archivo, disco, servicio, integro, etapa, desalojo,
                       enCola, aWorker, espera, asignada, fin, desalojos>>
    BY <1>10 DEF HaceRecibe
  <2>2. CASE RecibeMal(w)
    <3>1. PICK m : /\ m = [op |-> "FIN", q |-> hilo[w].q, dato |-> 0]
                   /\ aMaster' = [aMaster EXCEPT ![w] = Append(@, m)] /\ hilo[w].q \in Query
      BY <1>10, <2>2 DEF HaceRecibe, RecibeMal
    <3>2. m \in MsgAMaster
      BY <3>1 DEF MsgAMaster
    <3>3. hilo' = [hilo EXCEPT ![w] = Libre] /\ UNCHANGED memoria
      BY <2>2 DEF RecibeMal
    <3> QED
      BY <1>5, <2>1, <3>1, <3>2, <3>3 DEF TypeOK
  <2>3. CASE RecibeBien(w)
    <3>1. PICK r \in Hilo : hilo' = [hilo EXCEPT ![w] = r]
      BY <2>3 DEF RecibeBien
    <3>2. hilo' \in [Worker -> Hilo]
      BY <3>1, HiloNuevo DEF TypeOK
    <3>3. memoria' \in [Worker -> [Tag -> Pagina \cup {Nadie}]] /\ UNCHANGED aMaster
      BY <2>3 DEF RecibeBien, Guardo
    <3> QED
      BY <2>1, <3>2, <3>3 DEF TypeOK
  <2> QED
    BY <1>10, <2>2, <2>3 DEF HaceRecibe
<1>11. ASSUME HaceVuelca(w) PROVE TypeOK'
  <2>1. PICK r \in Hilo : hilo' = [hilo EXCEPT ![w] = r]
    BY <1>11 DEF HaceVuelca
  <2>2. hilo' \in [Worker -> Hilo]
    BY <2>1, HiloNuevo DEF TypeOK
  <2>3. UNCHANGED <<viva, cortes, archivo, disco, servicio, integro, etapa, conexion, memoria,
                    desalojo, enCola, aWorker, aMaster, espera, asignada, fin, desalojos>>
    BY <1>11 DEF HaceVuelca
  <2> QED
    BY <2>2, <2>3 DEF TypeOK
<1>12. ASSUME HaceRecibeVolcado(w) PROVE TypeOK'
  <2>1. PICK r \in Hilo : hilo' = [hilo EXCEPT ![w] = r]
    BY <1>12 DEF HaceRecibeVolcado
  <2>2. hilo' \in [Worker -> Hilo]
    BY <2>1, HiloNuevo DEF TypeOK
  <2>3. memoria' \in [Worker -> [Tag -> Pagina \cup {Nadie}]]
    <3>1. Guardo(w, hilo[w].op, hilo[w].t, hilo[w].dato) \/ UNCHANGED memoria
      BY <1>12 DEF HaceRecibeVolcado
    <3> QED
      BY <3>1 DEF Guardo, TypeOK
  <2>4. /\ conexion' \in [Worker -> {"abierta", "cortada", "cerrada"}]
        /\ UNCHANGED <<viva, cortes, archivo, disco, servicio, integro, etapa, desalojo,
                       enCola, aWorker, aMaster, espera, asignada, fin, desalojos>>
    BY <1>12 DEF HaceRecibeVolcado
  <2> QED
    BY <2>2, <2>3, <2>4 DEF TypeOK
<1>13. ASSUME HaceContestaDesalojo(w) PROVE TypeOK'
  <2>1. PICK m : /\ m = [op |-> "DESALOJAR", q |-> hilo[w].q, dato |-> hilo[w].pc]
                 /\ aMaster' = [aMaster EXCEPT ![w] = Append(@, m)] /\ hilo[w].q \in Query
    BY <1>13 DEF HaceContestaDesalojo
  <2>2. m \in MsgAMaster
    BY <2>1 DEF MsgAMaster, TypeOK, Hilo
  <2>3. /\ hilo' = [hilo EXCEPT ![w] = Libre]
        /\ UNCHANGED <<viva, cortes, archivo, disco, servicio, integro, etapa, conexion,
                       memoria, desalojo, enCola, aWorker, espera, asignada, fin, desalojos>>
    BY <1>13 DEF HaceContestaDesalojo
  <2> QED
    BY <1>5, <2>1, <2>2, <2>3 DEF TypeOK
<1> QED
  BY <1>1, <1>2, <1>3, <1>4, <1>6, <1>7, <1>8, <1>9, <1>10, <1>11, <1>12, <1>13 DEF HaceAlgo

\* Storage, and the Master's side of each connection.
LEMMA TipoOtros ==
    ASSUME WorkerAssumption, TypeOK,
           \/ CaeStorage \/ VuelveStorage
           \/ \E w \in Worker : \E q \in Query : MasterAsigna(w, q)
           \/ \E w \in Worker : MasterPideDesalojo(w) \/ MasterRecibe(w) \/ MasterPierde(w)
    PROVE  TypeOK'
<1>1. CASE CaeStorage
  <2>1. cortes' \in 0..MaxCortes /\ viva' \in BOOLEAN
    <3>1. cortes' = cortes + 1 /\ cortes < MaxCortes /\ viva' = FALSE
      BY <1>1 DEF CaeStorage
    <3>2. MaxCortes \in Nat
      BY DEF WorkerAssumption
    <3>3. cortes \in 0..MaxCortes
      BY DEF TypeOK
    <3>4. cortes \in Nat /\ cortes + 1 \in 0..MaxCortes
      BY <3>1, <3>2, <3>3
    <3> QED
      BY <3>1, <3>4
  <2>2. conexion' \in [Worker -> {"abierta", "cortada", "cerrada"}]
    BY <1>1 DEF CaeStorage, TypeOK
  <2>3. UNCHANGED <<archivo, disco, etapa, memoria, desalojo, enCola, hilo, canales, master>>
    BY <1>1 DEF CaeStorage
  <2>4. servicio' \in [Worker -> {"libre", "atiende", "guarda"}] /\ integro' \in BOOLEAN
    BY <1>1 DEF CaeStorage
  <2> QED
    BY <2>1, <2>2, <2>3, <2>4 DEF TypeOK, canales, master
<1>2. CASE VuelveStorage
  <2>1. viva' \in BOOLEAN
    BY <1>2 DEF VuelveStorage
  <2>2. UNCHANGED <<cortes, archivo, disco, servicio, integro, etapa, conexion, memoria,
                    desalojo, enCola, hilo, canales, master>>
    BY <1>2 DEF VuelveStorage
  <2> QED
    BY <2>1, <2>2 DEF TypeOK, canales, master
<1>3. ASSUME NEW w \in Worker, NEW op \in {"INICIA", "DESALOJAR"}, NEW q \in Query,
             MasterEnvia(w, op, q)
      PROVE  aWorker' \in [Worker -> Seq(MsgAWorker)]
  <2>1. aWorker \in [Worker -> Seq(MsgAWorker)]
    BY DEF TypeOK, MsgAWorker
  <2>2. PICK m \in MsgAWorker : m = [op |-> op, q |-> q]
    BY DEF MsgAWorker
  <2>3. aWorker' = [aWorker EXCEPT ![w] = Append(@, m)]
    BY <1>3, <2>2 DEF MasterEnvia
  <2>4. Append(aWorker[w], m) \in Seq(MsgAWorker)
    BY <2>1, <2>2
  <2> QED
    BY <2>1, <2>3, <2>4
<1>4. ASSUME NEW w \in Worker, NEW q \in Query, MasterAsigna(w, q) PROVE TypeOK'
  <2>1. aWorker' \in [Worker -> Seq(MsgAWorker)]
    BY <1>3, <1>4 DEF MasterAsigna
  <2>2. asignada' \in [Worker -> Query \cup {NoQuery}] /\ espera' \subseteq Query
    BY <1>4 DEF MasterAsigna, TypeOK
  <2>3. UNCHANGED <<storage, etapa, conexion, memoria, desalojo, enCola, hilo, aMaster,
                    fin, desalojos>>
    BY <1>4 DEF MasterAsigna
  <2> QED
    BY <2>1, <2>2, <2>3 DEF TypeOK, MsgAWorker, storage
<1>5. ASSUME NEW w \in Worker, MasterPideDesalojo(w) PROVE TypeOK'
  <2>1. asignada[w] \in Query
    BY <1>5 DEF MasterPideDesalojo, TypeOK
  <2>2. aWorker' \in [Worker -> Seq(MsgAWorker)]
    BY <1>3, <1>5, <2>1 DEF MasterPideDesalojo
  <2>3. desalojos' \in 0..MaxDesalojos
    BY <1>5 DEF MasterPideDesalojo, TypeOK, WorkerAssumption
  <2>4. UNCHANGED <<storage, etapa, conexion, memoria, desalojo, enCola, hilo, aMaster,
                    espera, asignada, fin>>
    BY <1>5 DEF MasterPideDesalojo
  <2> QED
    BY <2>2, <2>3, <2>4 DEF TypeOK, MsgAWorker, storage
<1>6. ASSUME NEW w \in Worker, MasterRecibe(w) PROVE TypeOK'
  <2>1. aMaster \in [Worker -> Seq(MsgAMaster)] /\ aMaster[w] # <<>>
    BY <1>6 DEF MasterRecibe, TypeOK, MsgAMaster
  <2>2. PICK m \in MsgAMaster : m = Head(aMaster[w])
    BY <2>1
  <2>3. aMaster' \in [Worker -> Seq(MsgAMaster)]
    <3>1. Tail(aMaster[w]) \in Seq(MsgAMaster)
      BY <2>1
    <3> QED
      BY <1>6, <2>1, <3>1 DEF MasterRecibe
  <2>4. asignada' \in [Worker -> Query \cup {NoQuery}]
    BY <1>6 DEF MasterRecibe, TypeOK
  <2>5. m.q \in Query
    BY <2>2 DEF MsgAMaster
  <2>6. espera' \subseteq Query /\ fin' \in [Query -> Final \cup {SinFin}]
    <3>1. PICK e : e = [w |-> w, como |-> IF m.dato = 1 THEN "exito" ELSE "error"]
      OBVIOUS
    <3>2. e \in Final
      BY <3>1 DEF Final
    <3>3. \/ espera' = espera \cup {m.q} /\ fin' = fin
          \/ espera' = espera /\ fin' = [fin EXCEPT ![m.q] = e]
      BY <1>6, <2>2, <3>1 DEF MasterRecibe
    <3>4. espera \subseteq Query /\ fin \in [Query -> Final \cup {SinFin}]
      BY DEF TypeOK
    <3>5. espera \cup {m.q} \subseteq Query
      BY <2>5, <3>4
    <3>6. [fin EXCEPT ![m.q] = e] \in [Query -> Final \cup {SinFin}]
      BY <2>5, <3>2, <3>4
    <3> QED
      BY <3>3, <3>4, <3>5, <3>6
  <2>7. UNCHANGED <<storage, etapa, conexion, memoria, desalojo, enCola, hilo, aWorker, desalojos>>
    BY <1>6 DEF MasterRecibe
  <2> QED
    BY <2>3, <2>4, <2>6, <2>7 DEF TypeOK, MsgAMaster, storage
<1>7. ASSUME NEW w \in Worker, MasterPierde(w) PROVE TypeOK'
  <2>1. asignada' \in [Worker -> Query \cup {NoQuery}]
    BY <1>7 DEF MasterPierde, TypeOK
  <2>2. fin' \in [Query -> Final \cup {SinFin}]
    <3>1. PICK e \in Final : e = [w |-> w, como |-> "baja"]
      BY DEF Final
    <3> QED
      BY <1>7, <3>1 DEF MasterPierde, TypeOK
  <2>3. UNCHANGED <<storage, etapa, conexion, memoria, desalojo, enCola, hilo, canales,
                    espera, desalojos>>
    BY <1>7 DEF MasterPierde
  <2> QED
    BY <2>1, <2>2, <2>3 DEF TypeOK, storage, canales
<1> QED
  BY <1>1, <1>2, <1>4, <1>5, <1>6, <1>7

\* Storage takes a request, or ends what it does after its answer, or nothing
\* happens: only what its threads are at changes, and whether they got in each
\* other's way.
Aparte ==
    /\ UNCHANGED <<viva, cortes, archivo, disco, etapa, conexion, memoria, desalojo, enCola,
                   hilo, aWorker, aMaster, espera, asignada, fin, desalojos>>
    /\ servicio' \in [Worker -> {"libre", "atiende", "guarda"}]
    /\ integro' \in BOOLEAN /\ (integro' => integro)

\* Every step is one of a query thread or the answer it waits for, one of the
\* other processes, or leaves all that they see alone.
LEMMA PasoEs ==
    ASSUME TypeOK, [Next]_vars
    PROVE  \/ \E w \in Worker : ProcesaQuery(w) \/ Sirve(w)
           \/ \E w \in Worker : Escucha(w)
           \/ CaeStorage \/ VuelveStorage
           \/ \E w \in Worker : \E q \in Query : MasterAsigna(w, q)
           \/ \E w \in Worker : MasterPideDesalojo(w) \/ MasterRecibe(w) \/ MasterPierde(w)
           \/ Aparte
<1>1. ASSUME NEW w \in Worker, Atiende(w) PROVE Aparte
  BY <1>1 DEF Atiende, Aparte, TypeOK, canales, master
<1>2. ASSUME NEW w \in Worker, Acaba(w) PROVE Aparte
  BY <1>2 DEF Acaba, Aparte, TypeOK, canales, master
<1>3. ASSUME UNCHANGED vars PROVE Aparte
  BY <1>3 DEF Aparte, TypeOK, vars, storage, canales, master
<1> QED
  BY <1>1, <1>2, <1>3 DEF Next, HiloStorage

\* Requests that got in each other's way did so for good.
LEMMA IntegroAntes ==
    ASSUME WorkerAssumption, TypeOK, [Next]_vars,
           \A w \in Worker : HiloBien(w)
    PROVE  integro' => integro
<1>1. ASSUME NEW w \in Worker, ProcesaQuery(w) \/ Sirve(w) PROVE integro' => integro
  <2>1. HaceAlgo(w)
    BY <1>1, EfectoProcesa
  <2> QED
    BY <2>1 DEF HaceAlgo, HaceToma, HaceReconecta, HaceReconectaEnVano, HaceDesaloja,
                HaceTermina, HacePideInstruccion, HaceEjecuta, HaceSirve, HaceRecibe,
                HaceVuelca, HaceRecibeVolcado, HaceContestaDesalojo
<1>2. ASSUME \/ \E w \in Worker : Escucha(w)
             \/ CaeStorage \/ VuelveStorage
             \/ \E w \in Worker : \E q \in Query : MasterAsigna(w, q)
             \/ \E w \in Worker : MasterPideDesalojo(w) \/ MasterRecibe(w) \/ MasterPierde(w)
             \/ Aparte
      PROVE  integro' => integro
  BY <1>2 DEF Escucha, CaeStorage, VuelveStorage, MasterAsigna, MasterPideDesalojo,
              MasterRecibe, MasterPierde, Aparte, storage
<1> QED
  BY <1>1, <1>2, PasoEs

\* A thread that does not move, with the memory it had.
LEMMA HiloQuieto ==
    ASSUME NEW v \in Worker, HiloBien(v), hilo'[v] = hilo[v], memoria'[v] = memoria[v]
    PROVE  HiloBien(v)'
<1>1. QuedanLineas(v)' <=> QuedanLineas(v)
  BY DEF QuedanLineas
<1>2. \A t \in Tag : Modificada(v, t)' <=> Modificada(v, t)
  BY DEF Modificada
<1>3. Modificadas(v)' = Modificadas(v)
  BY <1>2 DEF Modificadas
<1>4. Linea(v)' = Linea(v)
  BY DEF Linea
<1>5. Pedido(Linea(v), v)' = Pedido(Linea(v), v)
  BY <1>4 DEF Pedido, Modificada
<1>6. \A t : Modificada(v, t)' <=> Modificada(v, t)
  BY DEF Modificada
<1> QED
  BY <1>1, <1>3, <1>4, <1>5, <1>6 DEF HiloBien, EnPedido

\* A thread that has let go of the lock.
LEMMA HiloSuelta ==
    ASSUME NEW v \in Worker, hilo'[v] = Libre
    PROVE  HiloBien(v)'
BY DEF HiloBien, EnPedido, Libre

\* A thread that begins its query.
LEMMA HiloEmpieza ==
    ASSUME WorkerAssumption, NEW w \in Worker, NEW q \in Query,
           hilo'[w].q = q, hilo'[w].pc = 0, hilo'[w].res = "-", hilo'[w].desaloja = FALSE,
           hilo'[w].faltan = {}, hilo'[w].paso \in {"linea", "conecta"}
    PROVE  HiloBien(w)'
<1>1. Len(Guion[q]) \in Nat
  BY DEF WorkerAssumption
<1> QED
  BY <1>1 DEF HiloBien, EnPedido

\* A page that does not change is modified or not as it was.
LEMMA ModificadaIgual ==
    ASSUME NEW w \in Worker, NEW t \in Tag, memoria'[w][t] = memoria[w][t]
    PROVE  Modificada(w, t)' <=> Modificada(w, t)
BY DEF Modificada

\* The instruction of a thread that stays in its line.
LEMMA LineaIgual ==
    ASSUME NEW w \in Worker, hilo'[w].q = hilo[w].q, hilo'[w].pc = hilo[w].pc
    PROVE  Linea(w)' = Linea(w) /\ (QuedanLineas(w)' <=> QuedanLineas(w))
BY DEF Linea, QuedanLineas

\* The request of a thread that stays in its line, over the same pages.
LEMMA PedidoIgual ==
    ASSUME NEW w \in Worker, hilo'[w].q = hilo[w].q, hilo'[w].pc = hilo[w].pc,
           memoria'[w] = memoria[w]
    PROVE  Pedido(Linea(w), w)' = Pedido(Linea(w), w)
BY LineaIgual DEF Pedido, Modificada

\* The step of a thread leaves what holds of it true.
LEMMA HilosProcesa ==
    ASSUME WorkerAssumption, TypeOK, NEW w \in Worker, HiloBien(w), HaceAlgo(w)
    PROVE  HiloBien(w)'
<1>0. hilo \in [Worker -> Hilo]
  BY DEF TypeOK
<1>1. ASSUME NEW q \in Query, HaceToma(w, q) PROVE HiloBien(w)'
  <2>1. \/ /\ hilo'[w].paso \in {"linea", "conecta"} /\ hilo'[w].q = q /\ hilo'[w].pc = 0
           /\ hilo'[w].res = "-" /\ hilo'[w].desaloja = FALSE /\ hilo'[w].faltan = {}
        \/ hilo'[w] = Libre
    BY <1>0, <1>1 DEF HaceToma
  <2> QED
    BY <2>1, HiloEmpieza, HiloSuelta
<1>2. ASSUME HaceReconecta(w) PROVE HiloBien(w)'
  <2>1. \/ /\ hilo'[w].paso = "linea" /\ hilo'[w].q = hilo[w].q /\ hilo'[w].pc = 0
           /\ hilo'[w].res = "-" /\ hilo'[w].desaloja = FALSE /\ hilo'[w].faltan = {}
        \/ hilo'[w] = Libre
    BY <1>0, <1>2 DEF HaceReconecta
  <2>2. hilo[w].q \in Query
    BY <1>2 DEF HaceReconecta
  <2> QED
    BY <2>1, <2>2, HiloEmpieza, HiloSuelta
<1>3. ASSUME HaceReconectaEnVano(w) PROVE HiloBien(w)'
  <2>1. hilo'[w] = Libre
    BY <1>0, <1>3 DEF HaceReconectaEnVano
  <2> QED
    BY <2>1, HiloSuelta
<1>4. ASSUME HaceDesaloja(w) PROVE HiloBien(w)'
  <2>1. /\ hilo'[w].paso = "vuelca" /\ hilo'[w].q = hilo[w].q /\ hilo'[w].pc = hilo[w].pc
        /\ hilo'[w].res = hilo[w].res /\ hilo'[w].desaloja = TRUE
        /\ hilo'[w].faltan = Modificadas(w) /\ hilo[w].paso = "linea"
        /\ memoria' = memoria
    BY <1>0, <1>4 DEF HaceDesaloja
  <2>2. Modificadas(w)' = Modificadas(w)
    BY <2>1 DEF Modificadas, Modificada
  <2> QED
    BY <2>1, <2>2 DEF HiloBien, EnPedido
<1>5. ASSUME HaceTermina(w) PROVE HiloBien(w)'
  <2>1. hilo'[w] = Libre
    BY <1>0, <1>5 DEF HaceTermina
  <2> QED
    BY <2>1, HiloSuelta
<1>6. ASSUME HacePideInstruccion(w) PROVE HiloBien(w)'
  <2>1. /\ hilo'[w].paso = "pide" /\ hilo'[w].q = hilo[w].q /\ hilo'[w].pc = hilo[w].pc
        /\ hilo'[w].op = Pedido(Linea(w), w) /\ hilo'[w].op \in Pedidos
        /\ hilo'[w].t = Linea(w).t /\ hilo'[w].t \in Tag
        /\ hilo'[w].res = hilo[w].res /\ hilo'[w].desaloja = hilo[w].desaloja
        /\ hilo'[w].faltan = hilo[w].faltan /\ memoria' = memoria
        /\ hilo[w].paso \in {"linea", "ejecuta"} /\ QuedanLineas(w) /\ Linea(w) \in Instruccion
    BY <1>0, <1>6 DEF HacePideInstruccion
  <2>2. Modificadas(w)' = Modificadas(w)
    BY <2>1 DEF Modificadas, Modificada
  <2>3. /\ Linea(w)' = Linea(w) /\ (QuedanLineas(w)' <=> QuedanLineas(w))
        /\ Pedido(Linea(w), w)' = Pedido(Linea(w), w)
    BY <2>1, LineaIgual, PedidoIgual
  <2>4. Pedido(Linea(w), w) # "-"
    BY <2>1 DEF Pedidos
  <2>5. Modificada(w, Linea(w).t) => Modificada(w, hilo[w].t)'
    BY <2>1 DEF Modificada
  <2>6. hilo'[w].op = "ESCRIBIR" => Modificada(w, Linea(w).t)
    BY <2>1, <2>4, PedidoTipo
  <2> QED
    BY <2>1, <2>2, <2>3, <2>5, <2>6 DEF HiloBien, EnPedido
<1>7. ASSUME HaceEjecuta(w) PROVE HiloBien(w)'
  <2>1. /\ hilo'[w].paso = "linea" /\ hilo'[w].q = hilo[w].q /\ hilo'[w].pc = hilo[w].pc + 1
        /\ hilo'[w].res = hilo[w].res /\ hilo'[w].desaloja = hilo[w].desaloja
        /\ hilo'[w].faltan = hilo[w].faltan
        /\ hilo[w].paso \in {"linea", "ejecuta"} /\ QuedanLineas(w)
    BY <1>0, <1>7 DEF HaceEjecuta
  <2>2. ASSUME NEW t \in Tag, Modificada(w, t) PROVE Modificada(w, t)'
    BY <1>7, <2>2 DEF HaceEjecuta, Modificada
  <2>3. Modificadas(w) \subseteq Modificadas(w)'
    BY <2>2 DEF Modificadas
  <2>4. hilo[w].pc + 1 <= Len(Guion[hilo[w].q])
    BY <2>1, LineaTipo DEF HiloBien
  <2> QED
    BY <2>1, <2>3, <2>4 DEF HiloBien, EnPedido
<1>8. ASSUME HaceSirve(w) PROVE HiloBien(w)'
  <2>1. /\ hilo[w].paso = "pide" /\ hilo'[w].paso = "recibe" /\ hilo'[w].q = hilo[w].q
        /\ hilo'[w].pc = hilo[w].pc /\ hilo'[w].op = hilo[w].op /\ hilo'[w].t = hilo[w].t
        /\ hilo'[w].desaloja = hilo[w].desaloja /\ hilo'[w].faltan = hilo[w].faltan
        /\ hilo'[w].op = "LEER" /\ hilo'[w].res = "OK" => hilo'[w].dato \in Valor
        /\ memoria' = memoria
    BY <1>0, <1>8 DEF HaceSirve
  <2>2. Modificadas(w)' = Modificadas(w)
    BY <2>1 DEF Modificadas, Modificada
  <2>3. /\ Linea(w)' = Linea(w) /\ (QuedanLineas(w)' <=> QuedanLineas(w))
        /\ Pedido(Linea(w), w)' = Pedido(Linea(w), w)
    BY <2>1, LineaIgual, PedidoIgual
  <2>4. Modificada(w, hilo[w].t) => Modificada(w, hilo[w].t)'
    BY <2>1 DEF Modificada
  <2> QED
    BY <2>1, <2>2, <2>3, <2>4 DEF HiloBien, EnPedido
<1>9. ASSUME HaceRecibe(w) PROVE HiloBien(w)'
  <2>1. CASE RecibeMal(w)
    <3>1. hilo'[w] = Libre
      BY <1>0, <2>1 DEF RecibeMal
    <3> QED
      BY <3>1, HiloSuelta
  <2>2. CASE RecibeBien(w)
    <3>1. /\ hilo'[w].paso = (IF hilo[w].op \in {"LEER", "ESCRIBIR"} THEN "ejecuta" ELSE "linea")
          /\ hilo'[w].pc = (IF hilo[w].op \in {"LEER", "ESCRIBIR"} THEN hilo[w].pc ELSE hilo[w].pc + 1)
          /\ hilo'[w].q = hilo[w].q /\ hilo'[w].res = "-" /\ hilo'[w].desaloja = FALSE
          /\ hilo'[w].faltan = hilo[w].faltan \ {hilo[w].t}
      BY <1>0, <2>2 DEF RecibeBien
    <3>2. /\ hilo[w].paso = "recibe" /\ hilo[w].desaloja = FALSE /\ hilo[w].q \in Query
          /\ hilo[w].t \in Tag
      BY <1>9 DEF HaceRecibe
    <3>3. QuedanLineas(w)
      BY <3>2 DEF HiloBien, EnPedido
    <3>4. hilo[w].pc + 1 <= Len(Guion[hilo[w].q])
      BY <3>2, <3>3, LineaTipo
    <3>5. ASSUME NEW t \in hilo[w].faltan \ {hilo[w].t} PROVE t \in Modificadas(w)'
      <4>1. t \in Tag /\ Modificada(w, t) /\ t # hilo[w].t
        BY <3>5 DEF HiloBien, Modificadas
      <4>2. memoria'[w][t] = memoria[w][t]
        BY <2>2, <4>1 DEF RecibeBien, Guardo
      <4> QED
        BY <4>1, <4>2, ModificadaIgual DEF Modificadas
    <3>6. hilo'[w].pc = hilo[w].pc => (QuedanLineas(w)' <=> QuedanLineas(w))
      BY <3>1, LineaIgual
    <3>7. hilo[w].pc <= Len(Guion[hilo[w].q])
      BY <3>2 DEF HiloBien
    <3> QED
      BY <3>1, <3>2, <3>3, <3>4, <3>5, <3>6, <3>7 DEF HiloBien, EnPedido
  <2> QED
    BY <1>9, <2>1, <2>2 DEF HaceRecibe
<1>10. ASSUME HaceVuelca(w) PROVE HiloBien(w)'
  <2>1. /\ hilo'[w].paso = "pide" /\ hilo'[w].q = hilo[w].q /\ hilo'[w].pc = hilo[w].pc
        /\ hilo'[w].op = "ESCRIBIR" /\ hilo'[w].t \in hilo[w].faltan
        /\ hilo'[w].res = "-" /\ hilo'[w].desaloja = TRUE
        /\ hilo'[w].faltan = hilo[w].faltan /\ memoria' = memoria
        /\ hilo[w].paso = "vuelca" /\ hilo[w].faltan \in SUBSET Tag
    BY <1>0, <1>10 DEF HaceVuelca, Hilo
  <2>2. Modificadas(w)' = Modificadas(w)
    BY <2>1 DEF Modificadas, Modificada
  <2>3. Modificada(w, hilo'[w].t)
    BY <2>1 DEF HiloBien, Modificadas
  <2>4. Modificada(w, hilo[w].t)'
    BY <2>1, <2>3 DEF Modificada
  <2> QED
    BY <2>1, <2>2, <2>4 DEF HiloBien, EnPedido, Pedidos
<1>11. ASSUME HaceRecibeVolcado(w) PROVE HiloBien(w)'
  <2>1. /\ hilo'[w].paso = "vuelca" /\ hilo'[w].q = hilo[w].q /\ hilo'[w].pc = hilo[w].pc
        /\ hilo'[w].res = "-" /\ hilo'[w].desaloja = TRUE
        /\ hilo'[w].faltan = hilo[w].faltan \ {hilo[w].t}
        /\ hilo[w].paso = "recibe"
    BY <1>0, <1>11 DEF HaceRecibeVolcado
  <2>2. ASSUME NEW t \in hilo[w].faltan \ {hilo[w].t} PROVE t \in Modificadas(w)'
    <3>1. t \in Tag /\ Modificada(w, t) /\ t # hilo[w].t
      BY <2>2 DEF HiloBien, Modificadas
    <3>2. memoria'[w][t] = memoria[w][t]
      <4>1. Guardo(w, hilo[w].op, hilo[w].t, hilo[w].dato) \/ memoria' = memoria
        BY <1>11 DEF HaceRecibeVolcado
      <4> QED
        BY <3>1, <4>1 DEF Guardo
    <3> QED
      BY <3>1, <3>2, ModificadaIgual DEF Modificadas
  <2> QED
    BY <2>1, <2>2 DEF HiloBien, EnPedido
<1>12. ASSUME HaceContestaDesalojo(w) PROVE HiloBien(w)'
  <2>1. hilo'[w] = Libre
    BY <1>0, <1>12 DEF HaceContestaDesalojo
  <2> QED
    BY <2>1, HiloSuelta
<1> QED
  BY <1>1, <1>2, <1>3, <1>4, <1>5, <1>6, <1>7, <1>8, <1>9, <1>10, <1>11, <1>12 DEF HaceAlgo

\* The rest of the steps leave every thread and memory alone.
LEMMA OtrosQuietos ==
    ASSUME \/ \E w \in Worker : Escucha(w)
           \/ CaeStorage \/ VuelveStorage
           \/ \E w \in Worker : \E q \in Query : MasterAsigna(w, q)
           \/ \E w \in Worker : MasterPideDesalojo(w) \/ MasterRecibe(w) \/ MasterPierde(w)
    PROVE  UNCHANGED <<hilo, memoria>>
BY DEF Escucha, CaeStorage, VuelveStorage, MasterAsigna, MasterPideDesalojo, MasterRecibe,
       MasterPierde

\* A thread's step moves no other thread.
LEMMA ProcesaLoSuyo ==
    ASSUME TypeOK, NEW w \in Worker, HaceAlgo(w), NEW v \in Worker \ {w}
    PROVE  hilo'[v] = hilo[v] /\ memoria'[v] = memoria[v]
<1>0. hilo \in [Worker -> Hilo]
  BY DEF TypeOK
<1>1. ASSUME NEW r, hilo' = [hilo EXCEPT ![w] = r] PROVE hilo'[v] = hilo[v]
  BY <1>0, <1>1
<1>2. ASSUME NEW q \in Query, HaceToma(w, q) PROVE hilo'[v] = hilo[v] /\ memoria' = memoria
  BY <1>1, <1>2 DEF HaceToma
<1>3. HaceReconecta(w) => hilo'[v] = hilo[v] /\ memoria' = memoria
  BY <1>1 DEF HaceReconecta
<1>4. HaceReconectaEnVano(w) => hilo'[v] = hilo[v] /\ memoria'[v] = memoria[v]
  BY <1>1 DEF HaceReconectaEnVano
<1>5. HaceDesaloja(w) => hilo'[v] = hilo[v] /\ memoria' = memoria
  BY <1>1 DEF HaceDesaloja
<1>6. HaceTermina(w) => hilo'[v] = hilo[v] /\ memoria' = memoria
  BY <1>1 DEF HaceTermina
<1>7. HacePideInstruccion(w) => hilo'[v] = hilo[v] /\ memoria' = memoria
  BY <1>1 DEF HacePideInstruccion
<1>8. HaceEjecuta(w) => hilo'[v] = hilo[v] /\ memoria'[v] = memoria[v]
  BY <1>1 DEF HaceEjecuta
<1>9. HaceSirve(w) => hilo'[v] = hilo[v] /\ memoria' = memoria
  BY <1>1 DEF HaceSirve
<1>10. HaceRecibe(w) => hilo'[v] = hilo[v] /\ memoria'[v] = memoria[v]
  BY <1>1 DEF HaceRecibe, RecibeBien, RecibeMal, Guardo
<1>11. HaceVuelca(w) => hilo'[v] = hilo[v] /\ memoria' = memoria
  BY <1>1 DEF HaceVuelca
<1>12. HaceRecibeVolcado(w) => hilo'[v] = hilo[v] /\ memoria'[v] = memoria[v]
  BY <1>1 DEF HaceRecibeVolcado, Guardo
<1>13. HaceContestaDesalojo(w) => hilo'[v] = hilo[v] /\ memoria' = memoria
  BY <1>1 DEF HaceContestaDesalojo
<1> QED
  BY <1>2, <1>3, <1>4, <1>5, <1>6, <1>7, <1>8, <1>9, <1>10, <1>11, <1>12, <1>13 DEF HaceAlgo

\* The types, and what holds of every thread.
Base == TypeOK /\ HilosBien

\* The types and the threads, at the start ...
LEMMA BaseInicial ==
    ASSUME WorkerAssumption, Init
    PROVE  Base
<1>1. hilo \in [Worker -> Hilo] /\ \A w \in Worker : hilo[w] = Libre
  BY LibreEnHilo DEF Init
<1>2. /\ aWorker \in [Worker -> Seq([op : {"INICIA", "DESALOJAR"}, q : Query])]
      /\ aMaster \in [Worker -> Seq([op : {"FIN", "DESALOJAR"}, q : Query, dato : Nat])]
  BY DEF Init
<1>3. /\ archivo \in [Tag -> {"NO", "WORK_IN_PROGRESS", "COMMITED"}]
      /\ disco \in [Tag -> Valor \cup {Nadie}]
  BY DEF Init, WorkerAssumption
<1>4. /\ viva \in BOOLEAN /\ cortes \in 0..MaxCortes /\ desalojos \in 0..MaxDesalojos
      /\ servicio \in [Worker -> {"libre", "atiende", "guarda"}] /\ integro \in BOOLEAN
  BY DEF Init, WorkerAssumption
<1>5. /\ etapa \in [Worker -> {"listo", "caido"}]
      /\ conexion \in [Worker -> {"abierta", "cortada", "cerrada"}]
      /\ memoria \in [Worker -> [Tag -> Pagina \cup {Nadie}]]
      /\ desalojo \in [Worker -> BOOLEAN]
      /\ enCola \in [Worker -> SUBSET Query]
  BY DEF Init
<1>6. /\ espera \subseteq Query
      /\ asignada \in [Worker -> Query \cup {NoQuery}]
      /\ fin \in [Query -> Final \cup {SinFin}]
  BY DEF Init
<1>7. \A w \in Worker : HiloBien(w)
  BY <1>1 DEF HiloBien, EnPedido, Libre
<1> QED
  BY <1>1, <1>2, <1>3, <1>4, <1>5, <1>6, <1>7 DEF Base, TypeOK, HilosBien

\* ... and after each step.
LEMMA BasePaso ==
    ASSUME WorkerAssumption, Base, [Next]_vars
    PROVE  Base'
<1>0. TypeOK /\ \A w \in Worker : HiloBien(w)
  BY DEF Base, HilosBien
<1>1. ASSUME NEW w \in Worker, ProcesaQuery(w) \/ Sirve(w) PROVE Base'
  <2>1. HaceAlgo(w)
    BY <1>0, <1>1, EfectoProcesa
  <2>2. TypeOK'
    BY <1>0, <2>1, TipoProcesa
  <2>3. HiloBien(w)'
    BY <1>0, <2>1, HilosProcesa
  <2>4. ASSUME NEW v \in Worker, v # w PROVE HiloBien(v)'
    BY <1>0, <2>1, <2>4, ProcesaLoSuyo, HiloQuieto
  <2> QED
    BY <2>2, <2>3, <2>4 DEF Base, HilosBien
<1>2. ASSUME UNCHANGED <<hilo, memoria>> PROVE \A v \in Worker : HiloBien(v)'
  BY <1>0, <1>2, HiloQuieto
<1>3. ASSUME NEW w \in Worker, Escucha(w) PROVE Base'
  BY <1>0, <1>2, <1>3, TipoEscucha, OtrosQuietos DEF Base, HilosBien
<1>4. ASSUME \/ CaeStorage \/ VuelveStorage
             \/ \E w \in Worker : \E q \in Query : MasterAsigna(w, q)
             \/ \E w \in Worker : MasterPideDesalojo(w) \/ MasterRecibe(w) \/ MasterPierde(w)
      PROVE  Base'
  BY <1>0, <1>2, <1>4, TipoOtros, OtrosQuietos DEF Base, HilosBien
<1>5. ASSUME Aparte PROVE Base'
  <2>1. TypeOK'
    BY <1>0, <1>5 DEF TypeOK, Aparte
  <2>2. UNCHANGED <<hilo, memoria>>
    BY <1>5 DEF Aparte
  <2> QED
    BY <1>2, <2>1, <2>2 DEF Base, HilosBien
<1> QED
  BY <1>0, <1>1, <1>3, <1>4, <1>5, PasoEs

\* At all times every variable of the Workers, of Storage as they see it and of
\* the Master's side has its type.
THEOREM WorkerTipos == Spec => []TypeOK
<1>1. Init => Base
  BY WorkerAssumption, BaseInicial
<1>2. Base /\ [Next]_vars => Base'
  BY WorkerAssumption, BasePaso
<1>3. Base => TypeOK
  BY DEF Base
<1> QED
  BY <1>1, <1>2, <1>3, PTL DEF Spec
=============================================================================
