SPECIFICATION SpecJusta
CONSTANTS
  q1 = q1  q2 = q2  q3 = q3  w1 = w1  w2 = w2  a1 = a1  a2 = a2  a3 = a3
  Query = {q1, q2}
  Worker = {w1, w2}
  HilosAging = {}
  Aceptador = aceptador
  NoQuery = ninguna
  NoWorker = ninguno
  Prioridades = FALSE
  PrioridadInicial <- PrioDos
  YaConectados <- UnoListo
  SinArchivo = {q2}
  ConError = {}
  MaxPC = 0
  MaxLecturas = 1
  MaxMensajes = 2
  MaxBajasWorker = 1
  MaxBajasQC = 1
CHECK_DEADLOCK FALSE
INVARIANTS SinEsperaEnVano UnaSolaInstancia FinUnico
PROPERTY CadaPerdidaCuestaUna
