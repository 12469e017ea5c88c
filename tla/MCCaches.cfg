\* Each part ends at its bounds, and a probe is over: no deadlock check.
CONSTANTS
  Ttl = 2  Slack = 1  MaxTime = 4
  Requests = {r1, r2}  None = none
  Tokens = {t}  CacheLimit = 0
  Clients = {bmh}  Admin = admin  SharedRedfish = TRUE  Passwords = {p}  SharedPassword = p
  VMs = {v}  LookupTtl = 1  LookupTime = 3
  Emitters = {r1, r2}  Channels = {here, there}  Watched = here
  Cap = 3  PollLimit = 2  Slots = {r1, r2}  MaxEvents = 4
  Downloads = {r1, r2, r3}  Chunks = 2  MaxRestarts = 1
  Ids = {a, b}  Names = {n}  ConfigMaps = {c}  UUIDs = {u}  MaxChanges = 3
  Nil = Nil  Missing = Missing  Torn = Torn
SPECIFICATION Spec
SYMMETRY Symmetric
CHECK_DEADLOCK FALSE
INVARIANTS
  TypesOK
  AcceptedWasAllowed
  VerdictFollowsSecret
  FoundVMWasInFolder
  PollsMissNothing
  NeverRenderedTwice
  CachedWhole
  NoSessionLeft
  TestTellsTheTruth
  GreenIsEarned
  ReferentialIntegrity
  AlwaysLoadable
  AckedIsDurable
PROPERTY
  PasswordsAreKept
