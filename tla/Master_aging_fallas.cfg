SPECIFICATION Spec
CONSTANTS
  q1 = q1  q2 = q2  q3 = q3  w1 = w1  w2 = w2  a1 = a1  a2 = a2  a3 = a3
  Query = {q1, q2}
  Worker = {w1}
  HilosAging = {a1, a2}
  Aceptador = aceptador
  NoQuery = ninguna
  NoWorker = ninguno
  Prioridades = TRUE
  PrioridadInicial <- PrioDos
  YaConectados <- UnoListo
  SinArchivo = {}
  ConError = {}
  MaxPC = 0
  MaxLecturas = 0
  MaxMensajes = 1
  MaxBajasWorker = 1
  MaxBajasQC = 1
CHECK_DEADLOCK FALSE
INVARIANTS TypeOK TokensWorker TokensQuery SinEsperaEnVano UnaSolaInstancia
  UnWorkerUnaQuery AsignacionCoherente FinUnico
PROPERTY FinEsFinal
