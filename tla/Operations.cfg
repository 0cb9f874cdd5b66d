\* Each part small, with two overlapping actors of the kind that matters; and every
\* roster, quorum and threshold of a vote of three, in every order of casting.
SPECIFICATION OperationsSpec
CONSTANTS
  Filers = {f1}
  Syncs = {g1, g2}
  Ticks = {t1, t2}
  Messages = {m1}
  Replies = {m1}
  PrefixDigits = 0
  MaxInt = 2147483647
  MaxCalls = 2
  MaxRedelivered = 1
  MaxTickDeaths = 1
  Fields = {kind, given, family, since, address, note}
  Selector = kind
  Options = {hire, replacement}
  Trigger = replacement
  Conditional = {since, address}
  Required = {kind, given, since}
  Sensitive = {address}
  Names = {given, family}
  Describes = note
  Texts = {x, y}
  MaxPatch = 2
  Cases = {s1, s2}
  Keys = {k1}
  Editors = {e1}
  Purgers = {u1, u2}
  MaxAnswerEdits = 1
  MaxPurgeFaults = 1
  Tasks = {approve, order, ship}
  Approval = approve
  Agents = {a1, a2}
  Deciders = {b1}
  Links = {l1, l2}
  Raters = {r1}
  MaxResolved = 2
  Staff = {w1}
  Bystanders = {w2}
  Admins = {x1, x2}
  Roles = {super, tier}
  Super = super
  Responders = {o1, o2}
  Pages = {p1}
  Calls = {c1, c2}
  Managers = {n1}
  MaxRota = 2
  Alerts = {i1, i2}
  DedupKeys = {y1}
  NoKey = noKey
  AlertCalls = {j1, j2}
  Safe = {tag, remark}
  Gated = {reply, reopen}
  Firings = {v1}
  Judges = {q1, q2}
  Requester = cust
  Crew = {n1}
  Desk = desk
  Board = {n1, b1}
  Chair = b1
  Raiser = n1
  Users = {ua, ub, uc}
  MaxWeight = 2
  MaxQuorum = 4
  everyone = everyone
  admins = admins
  news = news
  robots = robots
  Plain = {everyone}
  Privileged = {admins}
  Lists = {news}
  Dynamics = {robots}
  GroupAnswers <- SomeAnswers
  Provisioners = {z1}
  MaxGroupRuns = 2
  MaxGroupChanges = 1
  MaxGroupFaults = 1
  Requests = {h1, h2}
  Sweepers = {}
  Closers = {}
  NoOne = NoOne
  Transitions <- ShortWorkflow
  Target <- SmallTarget
  RuleActions = {"reopen_ticket", "close_stale_ticket", "in_progress"}
  MaxTime = 0
INVARIANTS
  FilingIsExact
  HeardOnce
  AccessAsGranted
  ReadsAsSubmitted
  AckIsRecorded
  AlertsAreWhole
  ExecutedIsDone
  RejectedIffHopeless
  CompleteVoteDecides
PROPERTIES
  ReopeningClearsStamps
  PersonalDataIsAccounted
  ChecklistDecides
CHECK_DEADLOCK FALSE
