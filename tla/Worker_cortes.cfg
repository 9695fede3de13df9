SPECIFICATION SpecJusta
CONSTANTS
  q1 = q1  q2 = q2  t1 = t1  t2 = t2  v1 = v1  v2 = v2
  Worker = {w1, w2}
  Query = {q1, q2}
  NoQuery = ninguna
  Tag = {t1}
  Valor = {cero, v1, v2}
  Cero = cero
  Nadie = nadie
  Guion <- Repetibles
  SinArchivo = {q2}
  Existentes = {t1}
  MaxDesalojos = 2
  MaxCortes = 1
CHECK_DEADLOCK FALSE
INVARIANTS TypeOK CuestaUnaQuery VolcadoAlDesalojar ConfirmadoLoEscrito
PROPERTY TodaQueryContesta
CONSTRAINT UnaODos
