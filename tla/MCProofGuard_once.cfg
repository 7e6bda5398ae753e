SPECIFICATION Spec
CONSTANTS
  m1 = m1
  m2 = m2
  key = key
  r1 = r1
  r2 = r2
  None = None
  Signed = {m1, m2}
  Keys = {key}
  KeyOf <- MCKeyOf
  Requests = {r1, r2}
  MaxAge = 3
  Minute = 2
  QuotaPerMinute = 1
  Skew = 1
  MaxDelay = 1
  MaxTime = 7
SYMMETRY MCSymmetry
INVARIANTS
  AcceptedOnce
  RateLimited
PROPERTIES
  AcceptedWhileValid
\* Time ends in the instance.
CHECK_DEADLOCK FALSE
