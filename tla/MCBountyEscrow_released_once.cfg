SPECIFICATION Spec
CONSTANTS
  creator = creator
  worker = worker
  ann = ann
  ben = ben
  t1 = t1
  s1 = s1
  r1 = r1
  r2 = r2
  None = None
  NoDeveloper = NoDeveloper
  Tasks <- MCTasks
  Author <- MCAuthor
  Agents <- MCAgents
  Developer <- MCDeveloper
  Qualified = {creator, ann, ben}
  Subs = {s1}
  Worker <- MCOneWorker
  Requests = {r1, r2}
  Bounties = {2}
  Quorums = {1}
  ComputeCost = 1
  InitialCredits = 2
  MinStake = 1
  MaxFaults = 0
SYMMETRY MCSymmetry
INVARIANTS
  EscrowReleasedOnce
\* The instance ends when its task is closed and no client asks again.
CHECK_DEADLOCK FALSE
