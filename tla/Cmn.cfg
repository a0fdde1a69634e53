SPECIFICATION Spec
CONSTANTS
  p1 = p1
  p2 = p2
  p3 = p3
  Procesos = {p1, p2}
  CPUs = {c1}
  Ninguno = Ninguno
  Algoritmo = "CMN"
  Niveles = 2
  Prioridad <- PrioridadDosNiveles
  ColasRR = {1}
  Desalojo = TRUE
  Syscalls = {"EXIT_PROC"}
  MaxDesconexiones = 0
  MaxTemporizadores = 1
  MaxAvisos = 2
CHECK_DEADLOCK FALSE
INVARIANTS
  TypeOK
  EjecutaEnExec
  AtencionEncuentra
  EleccionNoVacia
PROPERTY ImplementaCortoPlazo
