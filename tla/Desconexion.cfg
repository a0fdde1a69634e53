SPECIFICATION Spec
CONSTANTS
  p1 = p1
  p2 = p2
  p3 = p3
  Procesos = {p1, p2, p3}
  CPUs = {c1, c2}
  Ninguno = Ninguno
  Algoritmo = "FIFO"
  Niveles = 1
  Prioridad <- PrioridadUnica
  ColasRR = {}
  Desalojo = FALSE
  Syscalls = {"SLEEP", "MUTEX_LOCK", "EXIT_PROC", "SEG_FAULT", "SEGUIR"}
  MaxDesconexiones = 1
  MaxTemporizadores = 1
  MaxAvisos = 2
CHECK_DEADLOCK FALSE
SYMMETRY Simetria
INVARIANTS
  FichasDeReady
  FichasDeCPU
  PerdidosAcotados
  CadaPCBEnUnLugar
PROPERTY ImplementaCortoPlazo
