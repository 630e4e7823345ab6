\* Both stores; two transactions at once.
SPECIFICATION AccountsSpec
CONSTANTS
  None = None
  john = john  John = John  p1 = p1  p2 = p2  k1 = k1  k2 = k2  k3 = k3
  a1 = a1  a2 = a2  a3 = a3  b1 = b1  b2 = b2  i1 = i1  i2 = i2  r1 = r1  r2 = r2
  Stores = {"sqlite3", "postgres"}
  Emails = {john, John}
  Lower <- InLowerCase
  Passwords = {p1, p2}
  Keys = {k1, k2}
  RequestTokens = {a1, a2}
  ResetTokens = {b1, b2}
  InviteTokens = {i1, i2}
  TokenStrategy = "store"
  BatchLimit = 1
  Requests = {r1, r2}
  Errors = 1
INVARIANTS LastAnswerStands EarlierRequestsEnd
PROPERTIES SpendsLiveTokens RegistersOnce
SYMMETRY Symmetric
