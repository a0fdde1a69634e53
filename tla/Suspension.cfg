SPECIFICATION SpecEquidad
CONSTANTS
  p1 = p1
  p2 = p2
  Procesos = {p1, p2}
  Ninguno = Ninguno
  Prioridad <- PrioridadDistinta
  Usa <- SoloP1Sleep
  MaxBloqueos <- SoloP1DosVeces
  MaxAumentos = 1
CHECK_DEADLOCK FALSE
INVARIANTS
  TypeOK
  DiferidaSeAtiende
  CadaPCBEnUnaCola
  MemoriaPresente
  RespuestasAlcanzan
PROPERTY SuspensionTermina
