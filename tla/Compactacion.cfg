SPECIFICATION Spec
CONSTANTS
  p1 = p1
  p2 = p2
  Procesos = {p1, p2}
  CPUs = {c1, c2}
  Ninguno = Ninguno
  Syscalls = {"MEM_ALLOC", "SEGUIR", "EXIT_PROC"}
  HayMonitor = TRUE
  MaxPedidos <- UnPedido
CHECK_DEADLOCK FALSE
SYMMETRY Simetria
INVARIANTS
  TypeOK
  CadaPCBEnUnLugar
  FichasDeReady
  CPULibreAnunciada
  AlgunoDespierta
