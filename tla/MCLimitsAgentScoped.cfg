\* sqlite, a scoped class for drive shares is applied.
SPECIFICATION Spec
CONSTANTS
  None = None
  Global = Global
  AnyMode = AnyMode
  a1 = a1  e1 = e1  proxy = proxy  drive = drive
  s1 = s1  s2 = s2  f1 = f1  f2 = f2  h1 = h1  h2 = h2
  Accounts = {a1}
  Modes = {proxy, drive}
  Limitless = {}
  Config <- TotalConfig
  Applied <- DriveApplied
  Envs = {e1}
  EnvAccount <- OneEnv
  Shares = {s1, s2}
  ShareEnv <- InOneEnv
  Backend <- Backends
  Public = {s1}
  Frontends = {f1}
  FeShare <- OfShare2
  Handlers = {h1}
  Levels <- TotalLevels
  Serial = TRUE
  Faults = {}
  Tokenless = TRUE
  MaxJournal = 2
INVARIANTS CutWhileLimited
