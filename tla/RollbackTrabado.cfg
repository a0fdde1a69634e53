SPECIFICATION SpecEquidad
CONSTANTS
  Procesos = {p1, p2}
  Ninguno = Ninguno
  Ids = {1, 2}
  Tamanios = {1, 2}
  TamStick <- UnStick
  NumBloques = 2
  PorByte = 3
  TamBloque = 1
  Estrategia = "BEST"
CHECK_DEADLOCK FALSE
PROPERTY DesuspensionTermina
