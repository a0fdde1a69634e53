SPECIFICATION SpecEquidad
CONSTANTS
  p1 = p1
  p2 = p2
  Procesos = {p1, p2}
  CPUs = {c1}
  Ninguno = Ninguno
  Syscalls = {"MEM_ALLOC", "SEGUIR", "EXIT_PROC"}
  HayMonitor = TRUE
  MaxPedidos <- UnPedido
CHECK_DEADLOCK FALSE
PROPERTY PlanificadorReinicia
