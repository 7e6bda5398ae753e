SPECIFICATION Spec
CONSTANTS
  ann = ann
  ben = ben
  s1 = s1
  s2 = s2
  s3 = s3
  c1 = c1
  c2 = c2
  None = None
  Agents = {ann, ben}
  Subs = {s1, s2, s3}
  Worker <- MCWorker
  Seeded = {ann}
  Quorum = 1
  MinSample = 2
  MinReliability = 60
  TargetMs = 1000
  Medians = {250, 4000}
  MaxHistory = 40
  Calls = {c1, c2}
  MaxRuns = 3
  MaxFaults = 1
INVARIANTS
  LatestCoversSettled
  VotersHaveEarned
  ScoreRewardsWork
\* The instance ends when everything is settled and no run is left.
CHECK_DEADLOCK FALSE
