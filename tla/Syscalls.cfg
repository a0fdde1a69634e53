SPECIFICATION Spec
CONSTANTS
  p1 = p1
  p2 = p2
  m1 = m1
  Ninguno = Ninguno
  Procesos = {p1, p2}
  Mutexes = {m1}
  Base <- PrimeroUrgente
  Tipos = {"STDIN", "STDOUT"}
  MaxLlamadas <- DosVeces
  MaxCaidas = 1
  MaxConexiones = 2
CHECK_DEADLOCK FALSE
INVARIANTS
  TypeOK
  ExclusionMutua
  BloqueadoConMotivo
  SinPendientesAlCorrer
  FichasDePedidos
  DatosEnMano
  DesconexionEncuentra
