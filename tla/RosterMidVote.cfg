\* Two submissions that both read the change as a draft.
SPECIFICATION Spec
CONSTANTS
  eng = eng  mgr = mgr  ann = ann  bob = bob
  NoUser = NoUser  NoBoard = NoBoard  NoTemplate = NoTemplate
  board = board  t1 = t1  s1 = s1  s2 = s2  o1 = o1  o2 = o2
  Users = {eng, mgr, ann}
  MaxWeight = 2
  MaxQuorum = 3
  Creators = {eng}
  Managers = {mgr}
  Voters = {eng, mgr, ann}
  Implementers = {mgr}
  BoardAdmins = {mgr}
  Boards = {board}
  DefaultBoard = board
  BoardConfigs <- TwoConfigs
  Templates = {}
  Submitters = {s1, s2}
  Operators = {}
PROPERTIES RosterFixedInReview
