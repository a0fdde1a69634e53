SPECIFICATION Spec
CONSTANTS
  Procesos = {p1, p2}
  Ninguno = Ninguno
  Ids = {1, 2}
  Tamanios = {1, 2, 4}
  TamStick <- DosSticks
  NumBloques = 2
  PorByte = 3
  TamBloque = 1
  Estrategia = "BEST"
CHECK_DEADLOCK FALSE
INVARIANT TypeOK
INVARIANT ParticionDeMemoria
INVARIANT ContenidoIntacto
INVARIANT BloquesDeUnSegmento
INVARIANT MemoriaCompleta
INVARIANT SinHuecosIntermedios
SYMMETRY Simetria
