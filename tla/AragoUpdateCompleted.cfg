SPECIFICATION Spec
CONSTANTS
  r1 = r1
  b1 = b1
  p1 = p1
  logo = logo
  telnetd = telnetd
  camera = camera
  udhcpcd = udhcpcd
  Root = {r1}
  Boot = {b1}
  Part = {p1}
  Logo = logo
  On <- MCOn
  Link = {camera, udhcpcd}
  RcOrder <- MCRcOrder
  RcKind <- MCRcKind
  Package <- MCPackage
  Timeout = 1
  PMICHEXVERSION = 7
  PmicVersion = {6}
  MissingIsFailed = FALSE
INVARIANTS
  CompletedMeansInstalled
CHECK_DEADLOCK FALSE
