SPECIFICATION FairSpec
CONSTANTS
  ann = ann
  ben = ben
  k1 = k1
  k2 = k2
  k3 = k3
  r1 = r1
  r2 = r2
  None = None
  Agents = {ann, ben}
  Challenges = {"c1", "c2"}
  Keys = {k1, k2, k3}
  Requests = {r1, r2}
  MaxActive = 2
  MaxFaults = 1
INVARIANTS
  AtMostMaxActive
  AccountsMatchKeys
PROPERTIES
  RequestsEnd
  ImplementsKeyService
\* The instance ends when every key is issued and no client asks again.
CHECK_DEADLOCK FALSE
