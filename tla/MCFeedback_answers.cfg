SPECIFICATION FeedbackSpec
CONSTANTS
  s1 = s1
  r1 = r1
  w1 = w1
  None = None
  Subs = {s1}
  Requests = {r1}
  Workers = {w1}
  Cost = 2
  InitialCredits = 5
  DailyQuota = 5
  MaxAttempts = 2
  MaxStalls = 1
  MaxErrors = 1
  Faults = {"api crash", "commit unacknowledged", "worker crash"}
  MaxFaults = 1
  Bounty = 4
  MaxLosses = 1
INVARIANTS
  AnswersAreTruthful
  WhatIsShownIsCommitted
PROPERTIES
  AnswerLeadsToVerdict
  PageCatchesUp
\* The last state: the call failed, or is answered and nobody watches.
CHECK_DEADLOCK FALSE
