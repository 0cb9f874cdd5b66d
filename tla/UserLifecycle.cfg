SPECIFICATION LifeSpec
CONSTANTS
  ProvRequests = {e1, e2}
  ProvPollers = {p1, p2}
  ProvInputs <- SomeInputs
  MaxRuns = 2
  MaxDeaths = 1
  Armers = {a1}
  OffSweepers = {s1, s2}
  MaxArmed = 2
  MaxEdits = 1
  MaxCrashes = 1
  Accounts = {u1, u2}
  Retainers = {w1}
  SweepBatch = 1
  Terms <- ShortTerms
  LastDay = 2
  MaxHalts = 1
INVARIANTS
  OneRunInFlight
  AccountIsAsPlanned
  FiresOnce
  LeavesNothingBehind
  HoldIsTruthful
PROPERTIES
  EndedStaysEnded
  WhatBeginsEnds
CHECK_DEADLOCK FALSE
