SPECIFICATION Spec
CONSTANTS
  Algoritmos = {"CLOCK-M"}
  Tag = {t1, t2}
  Valor = {cero, a}
  Cero = cero
  Marcos <- DosClock
  MaxBloques = 2
  MaxTotal = 3
  MaxTramo = 1
  MaxEdad = 0
  Ninguna = ninguna
SYMMETRY Simetria
INVARIANT LimpiaIgualDisco
PROPERTY RefinaMemoria
