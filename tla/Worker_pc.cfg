SPECIFICATION Spec
CONSTANTS
  q1 = q1  q2 = q2  t1 = t1  t2 = t2  v1 = v1  v2 = v2
  Worker = {w1}
  Query = {q1}
  NoQuery = ninguna
  Tag = {t1}
  Valor = {cero, v1}
  Cero = cero
  Nadie = nadie
  Guion <- UnCreate
  SinArchivo = {}
  Existentes = {}
  MaxDesalojos = 1
  MaxCortes = 0
CHECK_DEADLOCK FALSE
INVARIANT DesalojoTransparente
