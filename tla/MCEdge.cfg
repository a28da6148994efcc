SPECIFICATION EdgeSpec
CONSTANTS
  MaxTime = 2
  Callers = {k1, k2}
  Sessions = {s1, s2}
  Lifetimes = {1, 2}
  RateWindow = 1
  MaxCount = 3
  GPUs = {g1, g2}
  CacheTTL = 1
  RateLimit = 1
  RateTTL = 1
  Clients = {c1, c2}
  SendCap = 1
  BroadcastCap = 1
  UserCasts = {b1}
  SimpleRequests = {1, 2, 3}
  SimpleUsers = {"ann", "bob"}
  SimpleGPUs = {"x", "y"}
  InitialBalance = 2
  Escrows <- MCEscrows
  HttpRequests = {1, 2, 3, 4}
  MaxOthers = 1
  ProxyRequests = {p1, p2}
  CounterSize = 5
  MaxInstances = 3
  MaxStrays = 2
  Tables <- MCTables
  ModelNames <- MCModelNames
  VRAMs = {0, 2, 3}
  Powers = {2, 3}
  UnitsPer = 2
  VRAMRatePerGB = 2
  PowerMultiplier = 1
  PlatformFeePercent = 5
  MaximumSessionHours = 24
  MaxMinutes = 90
  MaxReadings = 1
  Viewers = {w1, w2}
  CookieRequests = {v1, v2}
  Identities = {"i1", "i2"}
  CookieID <- MCCookieID
  MaxProcesses = 3
  ConfigGPUs = {"a"}
  FetchLoops = {f1, f2, f3}
SYMMETRY MCSymmetry
INVARIANTS
  RedisSound
  SocketsSound
  RentalsSound
  AnswersTrue
  RoundRobinFair
  PricesSound
  DaemonSound
CHECK_DEADLOCK FALSE
