SPECIFICATION Spec
CONSTANTS
  p1 = p1
  p2 = p2
  Procesos = {p1, p2}
  Ninguno = Ninguno
  Prioridad <- PrioridadDistinta
  Usa <- TodosSleep
  MaxBloqueos <- UnBloqueo
  MaxAumentos = 0
CHECK_DEADLOCK FALSE
INVARIANT FinDeIOEncuentra
