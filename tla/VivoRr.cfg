SPECIFICATION SpecEquidad
CONSTANTS
  p1 = p1
  p2 = p2
  p3 = p3
  Procesos = {p1, p2, p3}
  CPUs = {c1, c2}
  Ninguno = Ninguno
  Algoritmo = "RR"
  Niveles = 1
  Prioridad <- PrioridadUnica
  ColasRR = {}
  Desalojo = FALSE
  Syscalls = {}
  MaxDesconexiones = 0
  MaxTemporizadores = 1
  MaxAvisos = 2
CHECK_DEADLOCK FALSE
INVARIANTS
  TurnoUnico
PROPERTY TodosEjecutan
