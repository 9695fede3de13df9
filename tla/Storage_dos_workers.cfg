SPECIFICATION Spec
CONSTANTS
  base = base  t1 = t1  t2 = t2  w1 = w1  w2 = w2
  Worker = {w1, w2}
  Tag = {base, t1, t2}
  Base = base
  FileDe <- DosTags
  Valor = {cero, a}
  Cero = cero
  Bloques = 3
  Bits = 3
  BLOCK_SIZE = 2
  Tamanios = {0, 2, 4}
  TocaBase = FALSE
  MaxLogicos = 2
  MaxCortes = 0
  Nadie = nadie
CHECK_DEADLOCK FALSE
PROPERTY ConfirmadoInmutable
