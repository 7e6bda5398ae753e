SPECIFICATION Spec
CONSTANTS
  s1 = s1
  s2 = s2
  s3 = s3
  r1 = r1
  r2 = r2
  w1 = w1
  w2 = w2
  None = None
  Subs = {s1}
  Requests = {r1}
  Workers = {w1, w2}
  Cost = 2
  InitialCredits = 5
  DailyQuota = 5
  MaxAttempts = 2
  MaxStalls = 1
  MaxErrors = 1
  Faults = {"api crash"}
  MaxFaults = 1
INVARIANTS
  ChargedWorkIsQueued
