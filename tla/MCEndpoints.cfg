\* Two requests at a time on the drive, with untagged If headers; two sessions
\* for two addresses; two connections for sixteen addresses of two bytes.
SPECIFICATION EndpointsSpec
CONSTANTS
  None = None
  root = root  a = a  ab = ab
  t1 = t1  t2 = t2  t3 = t3  t4 = t4  r1 = r1  r2 = r2
  Names = {root, a, ab}
  Up <- DriveUp
  Tokens = {t1, t2, t3, t4}
  Requests = {r1, r2}
  Tagged = FALSE
  u1 = u1  u2 = u2  s1 = s1  s2 = s2  NoSession = NoSession
  Addresses = {u1, u2}
  Sessions = {s1, s2}
  v1 = v1  v2 = v2  NoConn = NoConn
  Byte = 4  Size = 16  Server = 5
  Conns = {v1, v2}
SYMMETRY Symmetric
CHECK_DEADLOCK FALSE
INVARIANTS
  TypeOK Consistent WillExpire LocksExclude WritersExclude
  OneOpenSession ClosesItself VpnTypeOK PushedOutByRivals
PROPERTIES GrantsPathLocks
