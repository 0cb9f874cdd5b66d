\* The same instance, asked whether the notice itself is delivered.
SPECIFICATION SysSpec
CONSTANTS
  eng = eng  mgr = mgr  ann = ann
  NoUser = NoUser  NoBoard = NoBoard  NoTemplate = NoTemplate
  board = board  s1 = s1  o1 = o1  w1 = w1  w2 = w2
  Users = {eng, mgr, ann}
  MaxWeight = 1
  MaxQuorum = 2
  Creators = {eng}
  Managers = {mgr}
  Voters = {eng, mgr, ann}
  Implementers = {mgr}
  BoardAdmins = {mgr}
  Boards = {board}
  DefaultBoard = board
  BoardConfigs <- PairConfig
  Templates = {}
  Submitters = {s1}
  Operators = {o1}
  Sweepers = {w1, w2}
  MaxCrashes = 1
PROPERTIES OverdueIsNotified
