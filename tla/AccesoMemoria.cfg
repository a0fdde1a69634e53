SPECIFICATION Spec
CONSTANTS
  p1 = p1
  p2 = p2
  s1 = s1
  s2 = s2
  c1 = c1
  c2 = c2
  CPUs = {c1, c2}
  Procesos = {p1, p2}
  Sticks = {s1, s2}
  Presentes = {c1, s1}
  Ninguno = Ninguno
  Tamano <- UnoYDos
  SegMax = 2
  Segmentos = {0}
  Registros = {1, 2}
  Copias = {2, 7}
  Modulo = 8
  Valor <- DosEscriben
  Programa <- EscribeYLee
  Pide <- UnoYDosBytes
  Fragiles = {s1}
CHECK_DEADLOCK FALSE
INVARIANTS
  TypeOK
  AnunciosAlcanzan
  SegMaxConocido
PROPERTY ImplementaMemoriaPrivada
