\* What gc deletes of live shares.
SPECIFICATION CollectorSpec
CONSTANTS
  None = None
  Global = Global
  AnyMode = AnyMode
  a1 = a1  a2 = a2  e1 = e1  e2 = e2  e3 = e3  s1 = s1  s2 = s2  s3 = s3  f1 = f1  f2 = f2  f3 = f3
  r1 = r1  r2 = r2  proxy = proxy  drive = drive  name = name  ephemeral = ephemeral
  Accounts = {a1}
  Modes = {proxy, drive}
  Limitless = {}
  Config <- Loose
  Applied <- NoneApplied
  Envs = {e1}
  EnvAccount <- EnvOwner
  Shares = {s3}
  ShareEnv <- AllInE1
  Backend <- Modes2
  Public = {}
  Reserved = {}
  Unique = {}
  Token <- Named
  Frontends = {f1}
  FeEnv <- FromE1
  FeShare <- ToS3
  Misnamed = {f1}
  Requests = {r1}
  Serial = TRUE
  Locking = FALSE
  Faults = {}
CHECK_DEADLOCK FALSE
PROPERTIES SparesLiveShares
