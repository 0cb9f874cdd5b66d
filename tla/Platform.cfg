SPECIFICATION PlatformSpec
CONSTANTS
  Handlers = {h1, h2, h3, h4}
  Nested = {h1, h2}
  Dispatchers = {h4}
  AdminMax = 3
  MaxAttempts = 2
  Devices = {d1, d2}
  Runs = {job, hand}
  Job = job
  GuardFloor = 2
  MaxMoves = 2
  MaxSyncFaults = 1
  TicksPerMinute = 2
  DayMinutes = 4
  Opens = 1
  Closes = 3
  LastStart = 55
  MaxTarget = 5
  PublicHolidays = {1, 5, 8}
  StaffCalls = {z1, z2}
  GuestCalls = {v2}
  Imports = {z3}
  MaxIdFaults = 1
  eng = eng  mgr = mgr  ann = ann
  NoUser = NoUser  NoBoard = NoBoard  NoTemplate = NoTemplate
  board = board
  Users = {eng, mgr, ann}
  MaxWeight = 1
  MaxQuorum = 2
  Creators = {eng}
  Managers = {mgr}
  Voters = {eng, mgr, ann}
  Implementers = {mgr}
  BoardAdmins = {mgr}
  Boards = {board}
  DefaultBoard = board
  BoardConfigs <- PairConfig
  Templates = {}
  Submitters = {s1}
  Operators = {o1}
  Sweepers = {w1, w2}
  MaxCrashes = 1
INVARIANTS
  NotifiedAtMostOnce
  ChainNeverForks
PROPERTIES
  FleetIsSpared
  AuditReturns
  NeverOlderList
  SyncCatchesUp
  DueTimeIsFound
  StaffGetIn
  OverdueIsClaimed
CHECK_DEADLOCK FALSE
