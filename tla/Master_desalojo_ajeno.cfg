SPECIFICATION Spec
CONSTANTS
  q1 = q1  q2 = q2  q3 = q3  w1 = w1  w2 = w2  a1 = a1  a2 = a2  a3 = a3
  Query = {q1, q2, q3}
  Worker = {w1, w2}
  HilosAging = {}
  Aceptador = aceptador
  NoQuery = ninguna
  NoWorker = ninguno
  Prioridades = TRUE
  PrioridadInicial <- PrioTres
  YaConectados <- UnoListo
  SinArchivo = {}
  ConError = {}
  MaxPC = 0
  MaxLecturas = 0
  MaxMensajes = 2
  MaxBajasWorker = 0
  MaxBajasQC = 0
CHECK_DEADLOCK FALSE
INVARIANT DesalojoJustificado
