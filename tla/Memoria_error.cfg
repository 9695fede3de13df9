SPECIFICATION Spec
CONSTANTS
  Algoritmos = {"LRU"}
  Tag = {t1}
  Valor = {cero, a}
  Cero = cero
  Marcos <- UnoLRU
  MaxBloques = 2
  MaxTotal = 2
  MaxTramo = 1
  MaxEdad = 0
  Ninguna = ninguna
INVARIANT ErrorTermina
