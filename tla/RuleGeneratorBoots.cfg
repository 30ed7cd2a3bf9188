SPECIFICATION Spec
CONSTANTS
  n1 = n1
  n2 = n2
  n3 = n3
  c1 = c1
  c2 = c2
  NetDev = {n1}
  CdDev = {c1, c2}
  NoName = NoName
  Interface <- MCInterface
  Custom <- MCCustom
  Aliases <- MCAliases
  Retries = 1
  MaxBoots = 2
PROPERTIES
  NamesPersist
  ProcessEnds
CHECK_DEADLOCK FALSE
