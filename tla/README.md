# Verification of the Master, Workers and Storage

The repository is a distributed query system in C, in four programs. A *Query
Control* sends the Master the path of a script and a priority. The *Master*
queues queries and assigns them to *Workers*, evicting one when a more urgent
one arrives. A Worker runs the instructions of a script over an internal paged
memory and asks *Storage*, a small file system with hard links and block
deduplication, for what it does not have. This directory holds TLA+ models of
those programs, the TLC runs that check them and TLAPS proofs about them.
Definitions keep the names of the source, in Spanish as there.

## Inventory

| Component | State | Operations | Talks to |
|---|---|---|---|
| Master (`master/src/master.c`) | `cola_ready`, `cola_exec`, `cola_workers_libres`, lists of queries and workers, `sem_query_ready`, `sem_worker_disponible`, unlocked fields of `t_query` and `t_worker` | accept a connection, schedule (FIFO or PRIORIDADES), evict, age, handle READ, FIN and eviction answers, handle disconnections | Workers and Query Controls, TCP |
| Worker, connections (`worker/src/worker.c`) | eviction flag, current query and its line, `fd_storage`, one thread for the Master and one per query under `mutex_query_execution` | handshake, receive a query or an eviction, run, answer, reconnect to Storage, end on SIGINT | Master, Storage |
| Worker, memory (`worker/src/worker_memory.c`, `ejecutar_*` in `worker.c`) | page tables, `physical_pages`, `frame_table`, `used_pages`, hand of the clock | the nine instructions, load, LRU and CLOCK-M replacement, flush of an eviction | Storage, one request and its answer at a time |
| Storage (`storage/src/storage.c`) | `metadata.config` of each file:tag, logical blocks (hard links), physical blocks, bitmap, hash index | CREATE, TRUNCATE, TAG, COMMIT, WRITE, READ, DELETE, fresh start, restart | one thread per Worker |
| Protocol (`utils/src/utils/utils.c`) | none | packets over TCP | all |
| Query Control (`query_control/src/query_control.c`) | none | submit, print what arrives, go away | Master |

What makes it hard:

- *Master.* The scheduler waits on two semaphores and looks at the queues
  afterwards, with a different mutex each time; eviction reads three structures
  one after another and acts on what it read; `idQuery`, `estado` and
  `prioridad` are written by several threads without a lock; peers disappear at
  any moment. Correct: no token without a queue entry and no entry without a
  token, one place per query, one query per worker, one end per query, every
  query ends.
- *Worker, connections.* The eviction flag is the process's and not the query's;
  an evicted query is resumed from its first line, perhaps in another Worker,
  while pages of its earlier runs are left where it ran; `SO_ERROR` does not tell
  that Storage closed the connection. Correct: an eviction leaves nothing
  unwritten, what is COMMITED is what the script wrote last, the loss of Storage
  costs little and every query given to a Worker is answered.
- *Worker memory.* Four structures describe which pages are in memory and a
  hand walks one of them while pages leave it by replacement and by DELETE;
  flushes fail half way; COMMIT makes Storage refuse later writes. Correct: the
  structures agree, an unmodified page equals Storage, reading gives what was
  written last.
- *Storage.* Where a logical block is is written twice (BLOQUES and the link),
  and whether a physical block is used three times (links, BLOQUES, bitmap).
  COMMIT merges blocks by hash, WRITE separates them by counting links; every
  request works step by step from a copy of the metadata with no lock, and may be
  cut anywhere. Correct: the records agree, no file:tag changes because of
  another, what is COMMITED stays, a restart finds what there was.

The `hazards` of `PROJECT.json` list each of these at its line, with the
property that covers it or the reason why none does.

## Modules

| Module | What it is |
|---|---|
| `Master` | the Master, its threads step by step, with Workers and Query Controls as it sees them |
| `Planificador` | what the Master promises: a query waits, runs on one worker, or is over |
| `Master_proofs` | proofs about `Master`: types and semaphores |
| `Master_lugares` | proofs: where the Master has each query and each worker, their ends, no token is lost, and `Master` implements `Planificador` |
| `Worker` | the threads and connections of several Workers and Storage's thread for each, with Storage's files and the Master as they see them |
| `Worker_proofs` | proofs about `Worker`: types |
| `Worker_desalojo` | proofs: one query per worker, and an eviction leaves nothing unwritten |
| `Worker_confirmado` | proofs: what is COMMITED is what the script wrote last, and a stop of Storage costs each worker one query |
| `WorkerMemory` | the memory of one Worker and its instructions |
| `MemoriaPlana` | what that memory promises: reads return the last write |
| `WorkerMemory_proofs` | proofs about `WorkerMemory`: its four structures, the victim, what Storage holds of a page, and that it implements `MemoriaPlana` |
| `Storage` | the steps of each request over metadata, links, bitmap and hashes, and the restart |
| `Storage_proofs` | proofs about `Storage`: types, and a hash for every block that BLOQUES names |
| `Storage_exactos` | proofs about `Storage` with one Worker: links, bitmap and hash index are exact between requests, and it implements `Archivos` |
| `Archivos` | what Storage promises: a file:tag changes by its own WRITEs only |
| `MCMaster`, `MCWorker`, `MCWorkerMemory`, `MCStorage` | constants and symmetry for TLC |

### Master

A step of the model is one critical section, or a run of unlocked assignments
no other thread can tell apart. `planif` is the thread of
`planificador_corto_plazo` with its locals `q` and `w`; `hilo` holds every other
thread: the acceptor, one per connected Worker (`comunicacion_con_worker`, which
also runs `push_ready` and the eviction check on an eviction answer) and slots
for aging threads. `PlanEsperaQuery` .. `PlanEnvia` are the scheduler;
`EncolarReady`, `EvalLibres` .. `EvalEnvia` and `Despierta` are `push_ready` with
`evaluar_desalojo_si_corresponde` cut where it releases a mutex;
`RecibirFin`, `AvisarFin`, `SoltarWorker`, `AvisarLibre` are the end of a query;
`BajaWorker`, `BajaQC` the disconnections. The `Worker*` actions are what
`worker.c` does with those messages, including the eviction flag that is one for
the whole process. `ElegidaPrioridad`/`RestoPrioridad` translate the in-place
scan of `elegir_query_por_prioridad`, which rotates elements as it improves.

Fairness (`SpecJusta`) is weak fairness of each thread of the Master and of the
two threads of each Worker: they are pthreads that the kernel schedules and none
of them waits for a strong condition. Nobody is obliged to connect, to produce a
READ or to go away.

### WorkerMemory

`tablas`, `fisicas`, `pagina`, `frame_table`, `usadas`, `puntero` are
`page_tables`, `physical_pages`, the `t_page`s, `frame_table`, `used_pages` and
`clock_pointer`. READ and WRITE alternate `obtener_pagina` (a hit, a failure, a
load in a free frame, a replacement) with the access, page by page, as in
`ejecutar_read`/`ejecutar_write`. `Clock` is the four passes of CLOCK-M, a recursive
function over `Mira`, one look of the hand. `disco` is Storage as this Worker sees it
alone, with blocks to spare, and it is what `Archivos` promises. Time is an age
in seconds per page, because `last_access` is `time(NULL)`: several pages may
have the same. `mutex_query_execution` admits one query at a time, so the only
thing that comes between two steps is the clock or the death of the process.

### Worker

Several Workers at once, which `Master` sees from outside and `WorkerMemory` one
at a time from inside. `Escucha` is `manejar_comunicacion_master`. `hilo[w]` is
the thread that holds `mutex_query_execution` (the others wait in `enCola`) and
goes through `procesar_query`: `Toma` (lock, `verificar_conexion_storage`),
`Reconecta` or `ReconectaEnVano`, `Desaloja`, `Termina`, and for each line the
requests it needs (`PideInstruccion`, `Recibe`) until `Ejecuta` ends it.
`Vuelca`, `RecibeVolcado` and `ContestaDesalojo` are the flush of an eviction.
`conexion` is "cortada" when the other side has closed, which
`verificar_conexion_storage` does not see, and "cerrada" after `recibir_operacion`
found the end of file and closed the socket. A script is a sequence of
instructions (`Guion`). A WRITE or READ brings its page first, COMMIT writes it
first. The Master here hands a waiting query to any Worker without one, asks for
it back when it likes, and handles answers in order.

Storage has a thread for each Worker (`servicio[w]`, `HiloStorage`): `Atiende`
takes the request, `Sirve` does what it does and answers, and a WRITE, which is
answered before its metadata is saved (storage.c:1549, 1598, then 1613), has `Acaba`
after that. Requests of two Workers may overlap, and the code guards none of them:
each works from a copy of the metadata and saves it whole, so that a TRUNCATE which
overlaps the FLUSH of another Worker sends the next WRITE to the old block (the
steps are in `Storage`). What a request does is therefore stated only while none
that changes a file is under way with another, none is cut by a stop, and no WRITE
runs out of blocks. `integro` says so; two READs may overlap. While it holds,
`Bien` (`Servido`) and `Mal` (`Rechazado`) are what `Archivos` says of a request,
which is what `Storage` implements when requests come one at a time. `SinBloque` is
a WRITE refused for want of a block (storage.c:1482) and ends it, as does a second
request (`Atiende`) or a stop (`CaeStorage`) in the middle of another. From there
on `Cualquiera` gives any answer, good or bad and with any contents, and nothing is
said of the files: `archivo` and `disco` stay as they were and no property but
`TypeOK` reads them. So what is stated of the Worker's own threads (`TypeOK`, `TodaQueryContesta`)
holds whatever Storage makes of overlapping requests, as long as it answers; what is
stated of the files, and the cost of a stop, holds while `integro` does.

Fairness (`Equidad`): weak, of the two threads of each Worker, of Storage's thread
for it and of the Master's. All are pthreads that nothing holds back, with one
exception that scripts in this model cannot meet: a TRUNCATE to a smaller size that
finds a block to free locks a mutex twice (storage.c:1167, `AchicarMal`), and here a
TRUNCATE only adds blocks. A request on which Storage's thread uses a NULL ends the
process: that is a stop. Storage need not come back after a stop, and no query need
be assigned or evicted.

### Storage

`meta` is `metadata.config`, `enlaces` the hard links, `bitmap` and `hash` the
two indices, `dirs` the directories of the files. Every request but CREATE and
READ takes a step for each change another thread or a stop can tell apart, from
the copy of the metadata it read first (`hilo[w].copia`):

| Request | Steps |
|---|---|
| TRUNCATE | `Crecer`, `Alargar` for each new name (none for the same size), `GuardarMetadata`; or `Achicar`, `GuardarMetadata` |
| TAG | `Etiquetar` (metadata copied as it is), `Marcar` (ESTADO), `Ligar` for each block |
| COMMIT | `Confirmar` (copy of metadata and hash index), for each block `Buscar` (unlink) or `CompararNulo`, `Soltar`, `Religar`, then `GuardarMetadata`; of a COMMITED file:tag `Reconfirmar`, `GuardarMetadata` |
| DELETE | `Borrar`, `Desligar` for each name, `Liberar` for each block, `Quitar` |
| WRITE | `EscribirEnSitio`, or `EscribirAparte` and `Reservar`; `EscribirDatos`, `LeerIndice` (copy of the hash index), `GuardarHash` (saved whole), `Enlazar`, `GuardarMetadata` |

TRUNCATE keeps the code's arithmetic: blocks to add are (new - old) / BLOCK_SIZE,
names are counted from TAMANIO / BLOCK_SIZE, and the removal of names that do not
exist removes nothing. A step that dereferences NULL or locks a mutex twice sets
`parada`, after which Storage does nothing. A refused request changes nothing,
except that a COMMIT of what is COMMITED saves the metadata it read.

`config_save` empties a file and then writes it. A thread at a step that saves is
taken to be anywhere in it: another may read `blocks_hash_index.config` as it was or
empty (`IndiceEnDisco`), and uses a NULL if it reads an emptied `metadata.config`
(`LeerVacia`). No lock covers the index: `mutex_global_blocks_hash_index` is
initialised and never taken.

`Reiniciar` is a stop and a start with FRESH_START=FALSE, between requests or
between any two steps of one (at most `MaxCortes` times): the threads are gone,
the bitmap is read back and `initial_file:BASE` put right, its hash and its
metadata with it. A file that was being saved may be left empty: `bitmap.bin`,
which fopen with "wb" empties before it is written (`BitmapEnDisco`), the hash
index, or the metadata of the file:tags being saved (`MetaVacia`), each by itself.
After an emptied index only block 0 has a hash, and a COMMIT of another block
compares with NULL (`CompararNulo`); that is why `HashPresente` speaks of one
Worker until a stop in the middle of a request, and of nothing more.

`Archivos` promises that a restart keeps everything and that a request that is
cut may leave its own file:tag half done and no other. After such a cut
(`cortado`) it promises nothing more: what the code leaves then is the subject of
`storage_corte`.

## Runs

| Run | Shows | Bounds |
|---|---|---|
| `master_prioridades` | no token is lost, every query ends, `Master` implements `Planificador` | 3 queries of priorities 2, 1, 0 so that each can evict the one before, 2 Workers, no failures, no aging |
| `master_aging_fallas` | nine safety properties with aging and with a Worker and a Query Control that go away | 2 queries, 1 Worker (another would triple the time), 2 aging threads |
| `master_fifo_fallas` | tokens, one place per query, one end; each lost Worker costs at most one query that never ends | 2 queries, 2 Workers that connect late, one of which may die, a Query Control that leaves, a READ result, a script that a Worker may not find |
| `master_desalojo_ajeno` | **violation**: a late eviction request evicts the next query | 3 queries, 2 Workers |
| `worker_cortes` | every query given to a Worker is answered, whatever Storage answers; while `integro` holds, an eviction leaves nothing unwritten, what is COMMITED is the last thing written, and a stop of Storage costs each Worker one query | 2 Workers, 2 queries on one file:tag (one writes, flushes, writes and commits, the other truncates and reads), requests that overlap; 2 evictions, or 1 eviction and 1 stop |
| `worker_pc` | **violation**: an evicted query starts again from line 0 and its CREATE is refused | 1 Worker, 1 query, 1 eviction |
| `memoria_transparente` | unmodified pages equal Storage; `WorkerMemory` implements `MemoriaPlana` | CLOCK-M, 2 frames, 2 file:tags, 2 blocks each (3 in all), 2 contents |
| `memoria_reemplazo` | the four structures agree; the victim is the best | CLOCK-M with 3 frames and LRU with 2, 2 file:tags of 2 pages, ages 0..2 |
| `memoria_error` | **violation**: an error of Storage on the write of a victim is ignored | LRU, 1 frame, 2 pages |
| `storage_un_worker` | BLOQUES and links agree, bitmap and hashes are exact, every block of BLOQUES has a hash until a request is cut, `Storage` implements `Archivos` | 1 Worker, 2 file:tags and BASE, 3 blocks, sizes 1, 2, 4 with BLOCK_SIZE 2, restarts between requests and 1 in the middle of one |
| `storage_dos_workers` | **violation**: a COMMIT undone by another request that read the metadata before it | 2 Workers |
| `storage_corte` | **violation**: a stop while bitmap.bin is written frees the block of BASE | 1 Worker, file:tags of 1 block, 1 stop |

Why these bounds are enough for the cases meant: three queries make a chain of
two evictions; two frames make a replacement with a survivor, three frames let
the hand wrap over a page removed before, at and after it; three blocks, one of
them the zero block, are enough for a block shared by TAG, one left by WRITE and
reused, a COMMIT that merges and frees, and a full disk; size 1 with BLOCK_SIZE 2
makes the divisions of TRUNCATE inexact. The two evictions of `worker_cortes` are
enough for a query to leave pages in both Workers and for the second to write back
those of the first; one eviction and one stop in `worker_cortes` are enough for a
flush on a dead connection and for a query that is resumed where the connection is.
`worker_cortes` has the constraint `UnaODos`: states with two evictions are continued
while Storage has not stopped and `integro` holds, those with one in every case.
`storage_un_worker` has the constraint `HastaElCorte`: states after a cut are
checked, and continued only as far as shows what an emptied metadata or index does
to the next request, since `Archivos` promises nothing from there on.
The runs of `Master`, `Worker` and `Storage` do not check deadlock: the Master
and the Workers rest when all queries are over, and Storage may stop by itself. Symmetry is over the two file:tags only, and only in runs without
liveness.

Bounds in guards: `MaxPC`, `MaxLecturas`, `MaxMensajes`, `MaxBajasWorker`,
`MaxBajasQC` (Master); `MaxDesalojos`, `MaxCortes` (Worker); `MaxBloques`, `MaxTotal`, `MaxTramo`, `MaxEdad`
(WorkerMemory); `MaxLogicos`, `MaxCortes` (Storage). `TocaBase` says whether queries may
TRUNCATE or DELETE `initial_file:BASE`; none of the repository's does and it is
FALSE in every run.

Two properties say what they assume. `CadaPerdidaCuestaUna` counts as lost a
Worker that died, one that missed its WORKER_OK because a query overtook it, and
one whose query thread returned without an answer because it found no script.
`ConfirmadoLoEscrito` and `VolcadoAlDesalojar` are about runs without a stop of
Storage (with one, queries end half way), with requests that do not overlap and
blocks to spare (`integro`). The script of the former is the only one that writes
that file:tag. Neither restriction can be dropped. With a stop, a page that an
interrupted run could not write stays modified in a Worker, and the eviction of
another query writes it back between the FLUSH and the COMMIT of the run that is
going on elsewhere. With overlapping requests, a TRUNCATE that has read BLOQUES saves
it after a FLUSH moved the logical block to a new physical one; the flush of the
COMMIT then writes in the old one, and what is COMMITED is what the FLUSH wrote.
With no block to spare the flush of an eviction is refused.

Each violation is a disagreement between the code and what one of its own
comments or messages says; the `findings` of `PROJECT.json` quote them.

## Proofs

Every theorem is proved for any value of the constants that the `ASSUME` of its
module allows: any finite sets of queries, workers and file:tags, both
algorithms, any script, and any bound on disconnections, evictions and stops.
Some theorems have a further hypothesis, given and explained below. Each
inductive invariant was checked by TLC, as an invariant of a run, before it was
proved. A lemma for each action says what the action preserves; the last lemmas
of a module put them together.

### Master

`Master_proofs`, from `MasterAssumption` alone:

- `TipoCorrecto`: `Spec => []TypeOK`. The strengthening `Tipos` adds what each
  thread's locals hold at each of its program points (the query of a thread that
  is about to finish one is a query, and so on): without it an assignment such as
  `cola_exec \cup {q}` could take NoQuery.
- `TokensDeWorker`, `TokensDeQuery`: a semaphore, plus the tokens the scheduler
  holds, plus the posts still to be made, never exceeds its queue. The inductive
  invariant is `Tipos /\ Tokens`, where `Tokens` counts the threads between a
  push and its post; `CuentaIr`, `CuentaPasa` and `CuentaNoCrece` say how the
  count moves when one thread does.
- `NuncaEsperaEnVano`: it follows that the scheduler with both tokens never finds
  a queue empty. The "caso raro" of `master.c:49-54` is dead code.

`Master_lugares`, from the same: `QueryEnUnLugar`, `WorkerEnUnUso`,
`IdQueryCorrecto`, `FinUnaVez` and `FinDefinitivo`. `UnaSolaInstancia` by itself
is not inductive: that a query is not pushed twice depends on what the scheduler
holds in its locals, on the messages under way and on answers already taken from
a channel and not yet handled. `Lugares` says where each query and each worker is
(`EnReady`, `Manda`, `Respondida`, `Atiende`...) and four things of those places:

- `UsoBien`, `LugarBien`: the uses of a worker, and the places of a query,
  exclude each other, and each is at one position of its queue or channel.
- `DuenioBien`: `id_query` is right *while it matters*. It is stale between the
  end of a query and the release of its worker, and for a worker written off; the
  proof shows that nothing reads it then to any effect.
- `VidaBien`: what the death of a Worker process says about the Master's data.
- `FinBien`: a query whose client was told the end is nowhere, except as the
  assignment that the scheduler was making to a worker that has died.

Most steps only take things out of places, which two lemmas settle for all of
them; the rest move one query, and the proof of each says from where to where.

Then, from those places, what the Master promises to those who wait:

- `NingunTokenSePierde`: `TokensExactos`, that each semaphore counts its queue
  exactly, for `Ordenado`: under FIFO, or under PRIORIDADES if no Query Control
  leaves. The hypothesis is needed: a query marked EXIT in `cola_ready` makes the
  scan of PRIORIDADES find nothing, and the scheduler drops both its tokens. The
  proof is a count, `Sobran`, of what a queue has beyond its tokens: no step
  changes it but the two that `Ordenado` and the end of a connection decide.
- `CumplePromesa`: `Spec => RefinaPlanificador`, while `MaxBajasWorker = 0`. Each
  step of the Master is a step of `Planificador` or none. The hypothesis is
  needed: a Worker that dies while a query is being assigned to it takes along,
  in silence, a query that was written off as well as one that was not.

### Worker

`VolcadoAlDesalojar`, `ConfirmadoLoEscrito` and `CuestaUnaQuery` are promised while
`integro` holds, and so are the parts of the invariants that mention the files. The
rest of each invariant holds with it or without it. `IntegroAntes` says that `integro`
is never regained, so what a step needs of the files was there before it; `Aparte` is
a step of Storage's threads that nobody else sees (`Atiende`, `Acaba`), which keeps
every invariant.

- `Worker_proofs`, `WorkerTipos`: types. `HiloBien` adds what holds at each step
  of the query thread: a thread that waits for `mutex_query_execution` holds
  nothing, a request is one the instruction or the flush asks for, a page being
  written is there and modified.
- `Worker_desalojo`, `WorkerUnTurno`: a Worker has one query at most, in its
  messages, waiting for the mutex, running or answered, and none the Master has
  not given it. It is what makes the eviction flag, one for the whole process,
  safe: nothing else runs while an answer is on its way.
- `Worker_desalojo`, `WorkerVuelca`: `VolcadoAlDesalojar`, from `VidaBien` (the
  connection and the life of the process), `TurnoBien`, `DiscoBien` (a page in
  memory has its file:tag in Storage) and `VolcadoBien` (during the flush a page
  is still to be written or is safe).
- `Worker_confirmado`, `WorkerConfirma`: `ConfirmadoLoEscrito`, for `UnEscritor`:
  a file:tag that a script commits is written and committed by that script only,
  and not written after its COMMIT. With two writers the last write would depend
  on the schedule, so there would be nothing to state. `Nombres` says that no
  query is in two Workers; `PendienteBien` that until its file:tag is committed a
  page is modified only where its script runs, or where it has ended; `EnMemoria`
  that what the lines run so far wrote last is in the memory of that Worker, and
  in Storage if the page is not modified.
- `Worker_confirmado`, `WorkerCuesta`: `CuestaUnaQuery`, for `Realizables`: scripts
  create no file:tag, use those that exist, and COMMIT on their last line what no
  other script flushes or commits. Otherwise a query fails with no stop at all:
  an eviction between a COMMIT and a later line starts the script again, and its
  FLUSH is then refused. `CuestaBien` is a count: the queries of a Worker that
  have failed, plus one if its connection is cut and not yet closed, do not exceed
  the stops. `ConfirmaBien` says that the script that committed a file:tag is
  nowhere from where it could be run again.

The scripts of `worker_cortes` (`Repetibles` in `MCWorker`) satisfy both
hypotheses, so the run and the theorems speak of the same properties.

### WorkerMemory

`WorkerMemory_proofs`, from `MemoriaAssumption` alone: `TypeOKSiempre`,
`MarcosCoherentesSiempre`, `LimpiaIgualDiscoSiempre`, `VictimaOptimaSiempre` and
`MemoriaTransparente`. The inductive invariant of the first four is `Seguro`:

- `ListasBien`: each page table and `physical_pages` have no page twice, and the
  same pages in the same order (`Concuerda`, `Antes`). This is more than
  `MarcosCoherentes` says, in a form without indices: positions change when a page
  leaves, the order of the rest does not (`Saca` keeps `Antes`).
- `MarcosBien`: the frames of the pages in memory are all different, and are those
  of `frame_table`; the lists are as long as `used_pages` says.
- `DiscoBien`, `ControlBien`: what Storage can hold, and that a READ or WRITE under
  way is one the script can ask for.
- `LimpiaIgualDisco`.

`Clock` and `SinPaginas` are recursive functions, which are proved about by
well-founded induction over their argument (`Todos`): `TrasVuelta` says what a pass
of the hand has done when it has looked at n pages, whatever it started from, and
`Vuelta` of the four passes what is left of the classes that come before the
victim's. That the third and fourth pass find a page at all rests on the second,
which clears the use bit of every page that it goes past.

`MemoriaTransparente` is `Spec => RefinaMemoria`, for both algorithms and any
frames, file:tags and contents, with no further hypothesis. The invariant is
`Plano`: `Seguro`, and that a page in memory has its block in Storage
(`ConBloque`: blocks leave with DELETE only, which empties the memory first) and
the page of the access under way is in memory (`Asida`: it was obtained and
nothing replaces it before the access). With it each step is one of `MemoriaPlana`
or none (`Refleja`): loads, hits and the replacement of a clean page change nothing
that a query sees (`LimpiaIgualDisco` is what this rests on); FLUSH, the flush of an
eviction and a modified victim are `Persiste` of the pages that Storage accepts;
the victim that it refuses is `Descarta`; COMMIT, whose flush went well, is
`Confirma`; a WRITE is `Escribe`, one page at a time. CREATE, TRUNCATE, TAG and
DELETE are the steps of the same meaning, or none when Storage answers an error,
and the death of the Worker is `Cae`.

### Storage

`Storage_proofs`: `StorageTipos`, from `StorageAssumption` alone, for any number of
Workers and stops. Two requests over one file:tag overwrite each other's metadata,
and still BLOQUES never names a block past the end of the disk. The strengthening is
`TareaBien`, of each request under way: what its copy of the metadata names, and that
the logical blocks left to do are indices of that copy. It is kept by the steps of
the other threads because it says nothing of what they change, except that no step
takes a directory away (`TareaSigue`).

`StorageHashPresente`: `HashPresente`, for `UnSoloWorker`. Its part of the invariant
speaks through `ConHash`, the blocks that have a hash while there is one Worker and
no request was cut, and any block otherwise: what a request has in its copy of the
metadata is in `ConHash`, except the block that a WRITE has not hashed yet, and what a
WRITE is about to save is the index as it is plus one entry. With two Workers the last
part fails: TLC finds two WRITEs one of which saves the index it read before, or while,
the other saved it, and loses an entry. After a cut the index may be empty.

`Storage_exactos`, for `UnSolo`: one Worker, a bitmap with no bits past the last
block (FS_SIZE/BLOCK_SIZE a multiple of 8) and no script that changes
`initial_file:BASE`. `StorageEnlacesCoinciden`, `StorageBitmapExacto` and
`StorageHashExacto` say that, between requests, BLOQUES and the hard links agree,
the bitmap has exactly the blocks that are linked, and the index the hash of each.
`StorageRefinaArchivos` is `Spec => RefinaArchivos`. The hypothesis is needed: TLC
finds `EnlacesCoinciden`, `BitmapExacto` and `RefinaArchivos` violated without any
one of its three parts, and `HashExacto` with two Workers (a block past the end has
no contents, so there it says nothing). None of the three invariants is inductive:
a request breaks them at its first step and mends them at its last. The invariant
is `Exacto`, that until a request is cut:

- `MetaExacta`: every file:tag but the one of the request is exact. A logical block
  is linked to the block that BLOQUES names; one that is not linked is the block 0
  there, and a link past the end of BLOQUES, which the name arithmetic of TRUNCATE
  leaves, is to the block 0 too.
- `TareaExacta`: what the request has still to do, for each of its steps. A COMMIT
  that has unlinked a name has a block in use to link it to; a WRITE is in a block
  that only its name is linked to (`EnSitio`), or in one that nothing is linked to
  (`Elegido`, then `Aparte`); a DELETE has unlinked every name before the last one.
- `Sobrante`, `SinHash`: the blocks of the bitmap that nothing is linked to, and the
  block whose hash is stale, at that step.
- `BaseBien`: the block 0 has its name in `initial_file:BASE` and keeps its contents.
  A WRITE never goes to it: the name of BASE makes it shared (`NLinkDos`).

`NLinkUno`, `NLinkDos`, `LigaUso` and `DesligaUso` say what the link count tells and
how the set of linked blocks changes; `Continua` and `Acaba` what a step has to show.

`StorageRefinaArchivos` adds to `Exacto` what each request has in its copy of the
metadata, next to what is on the disk (`Intencion`): the same blocks and more blocks 0
in a TRUNCATE (`Alarga`), other blocks with the same contents in a COMMIT (`Confirma`,
which rests on the index telling the contents of the blocks in use), one other block
in a WRITE (`Escribe`), and the blocks of the original in a TAG that has not set ESTADO
yet. Most steps are then stutters of `Archivos` (`Callado`): those
that the Workers see are CREATE, the ESTADO of a TAG, the write of a block in its
place, the directory that a DELETE removes, and the metadata saved last, which is
`Crece`, `Confirma` or `Escribe`. That writing a block changes no other file:tag is
`SoloSuyo` and `NombradoEnUso`: it is of one logical block only, or of none. Past the
first stop in the middle of a request `Archivos` allows anything.

### Only model-checked

- Liveness: `TodasTerminan`, `TodaQueryContesta`, and `CadaPerdidaCuestaUna`, which
  says what holds for ever from some state on (`<>[]`). They need fairness and
  `ENABLED`, out of the prover's reach.
- The five runs that expect a violation.

## Not modelled

- Text of messages, logs, delays, configuration, malformed lines of a script.
- Offsets inside a page: a content is a model value.
- Socket numbers and their reuse, SIGPIPE, partial sends.
- The Worker: READ results in `Worker` (they are in `Master`), DELETE (it is in
  `WorkerMemory`) and SIGINT (it is in `Master` and `WorkerMemory`), the end of the connection to the Master,
  after which a Worker goes on without one.
- The Master has no restart and persists nothing: its death ends every query.
- Storage: failed system calls other than those described; a stop inside the
  recursive removal of a directory, or between a directory and its
  metadata.config, or inside CREATE or the copy of a directory by TAG (CREATE is one
  step); two saves that write the same file at the same instant and mix their text; a
  restart after a stop of its own (`parada`); queries that TRUNCATE or DELETE BASE (the
  actions are there, `TocaBase` is FALSE in the runs).
- Two details of the Master: the comparison of priorities in the eviction check, which
  is made without a lock (master.c:370), and the search of the worker after it (376)
  are one step (`EvalBuscar`); and a Worker whose WORKER_OK was overtaken by a query
  stays silent (`WorkerSaludo`), while in the code it reads the wrong fields and may
  exit, which the Master would see as the end of its connection.
- In `Worker`, what Storage's files hold after requests that overlap, are cut or run
  out of blocks: its steps are in `Storage`, where `storage_dos_workers`
  and `storage_corte` show what comes of it.
- Query Control and the protocol have no state: what they do is in the channels
  of `Master`.

## Plan

Done: the models of the Master, of the Worker's threads and of its memory, and of
Storage in steps with its restart; their abstract specifications and runs; every
safety property of `Master` and of `Worker` proved; `Master` shown to implement `Planificador`; every safety invariant of
`WorkerMemory`, shown to implement `MemoriaPlana`; every safety invariant of
`Storage`, shown to implement `Archivos` with one Worker. To come:

1. That `Planificador`, `MemoriaPlana` and `Archivos` keep promises of their own.
