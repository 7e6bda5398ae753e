SPECIFICATION Spec
CONSTANTS
  s1 = s1
  s2 = s2
  s3 = s3
  r1 = r1
  r2 = r2
  w1 = w1
  w2 = w2
  None = None
  Subs = {s1, s2, s3}
  Requests = {r1, r2}
  Workers = {w1, w2}
  Cost = 2
  InitialCredits = 5
  DailyQuota = 7
  MaxAttempts = 2
  MaxStalls = 1
  MaxErrors = 2
  Faults = {"api crash", "commit unacknowledged", "worker crash", "lock lost"}
  MaxFaults = 1
SYMMETRY MCSymmetry
INVARIANTS
  QuotaMatchesCharges
  VerdictHasRun
  ChargedWorkIsUnderWay
PROPERTIES
  ImplementsLedger
