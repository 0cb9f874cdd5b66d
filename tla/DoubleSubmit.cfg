\* Two overlapping submit-cab requests for one change, of any type, with board
\* and template edits and another request between their reads and their writes.
SPECIFICATION Spec
CONSTANTS
  eng = eng  mgr = mgr  ann = ann  bob = bob
  NoUser = NoUser  NoBoard = NoBoard  NoTemplate = NoTemplate
  board = board  t1 = t1  s1 = s1  s2 = s2  o1 = o1  o2 = o2
  Users = {eng, mgr, ann}
  MaxWeight = 2
  MaxQuorum = 3
  Creators = {eng}
  Managers = {mgr}
  Voters = {eng, mgr, ann}
  Implementers = {mgr}
  BoardAdmins = {mgr}
  Boards = {board}
  DefaultBoard = board
  BoardConfigs <- TwoConfigs
  Templates = {t1}
  Submitters = {s1, s2}
  Operators = {o1}
INVARIANTS RaiserRecused NoWorkWithoutApproval
PROPERTIES CastBallotsSurvive
