\* The addresses of a VPN; the other endpoints are as small as can be.
SPECIFICATION EndpointsSpec
CONSTANTS
  None = None
  root = root  a = a  ab = ab
  t1 = t1  t2 = t2  t3 = t3  t4 = t4  r1 = r1  r2 = r2
  Names = {root}
  Up <- DriveUp
  Tokens = {t1}
  Requests = {r1}
  Tagged = FALSE
  u1 = u1  u2 = u2  s1 = s1  s2 = s2  NoSession = NoSession
  Addresses = {u1, u2}
  Sessions = {s1}
  v1 = v1  v2 = v2  NoConn = NoConn
  Byte = 4  Size = 16  Server = 5
  Conns = {v1, v2}
SYMMETRY Symmetric
CHECK_DEADLOCK FALSE
INVARIANT ServerKeepsItsAddress
