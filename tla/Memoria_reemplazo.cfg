SPECIFICATION Spec
CONSTANTS
  Algoritmos = {"LRU", "CLOCK-M"}
  Tag = {t1, t2}
  Valor = {cero}
  Cero = cero
  Marcos <- TresYDos
  MaxBloques = 2
  MaxTotal = 4
  MaxTramo = 0
  MaxEdad = 2
  Ninguna = ninguna
SYMMETRY Simetria
INVARIANTS TypeOK MarcosCoherentes VictimaOptima
