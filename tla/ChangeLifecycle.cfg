\* One submission at a time, two overlapping cancel/schedule/transition/PIR
\* requests, votes in any order, board and template edits throughout.
SPECIFICATION Spec
CONSTANTS
  eng = eng  mgr = mgr  ann = ann  bob = bob
  NoUser = NoUser  NoBoard = NoBoard  NoTemplate = NoTemplate
  board = board  t1 = t1  s1 = s1  s2 = s2  o1 = o1  o2 = o2
  Users = {eng, mgr, ann, bob}
  MaxWeight = 2
  MaxQuorum = 3
  Creators = {eng}
  Managers = {mgr}
  Voters = {eng, mgr, ann, bob}
  Implementers = {mgr}
  BoardAdmins = {mgr}
  Boards = {board}
  DefaultBoard = board
  BoardConfigs <- TwoConfigs
  Templates = {}
  Submitters = {s1}
  Operators = {o1, o2}
INVARIANTS TypeOK OpenVoteUndecided QuorumReachable ApprovalBackedByBallots ClosedHasPir
PROPERTIES VerdictSpec
