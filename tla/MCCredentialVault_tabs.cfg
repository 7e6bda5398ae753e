SPECIFICATION Spec
CONSTANTS
  t1 = t1
  t2 = t2
  h1 = h1
  h2 = h2
  None = None
  Tabs = {t1, t2}
  Handlers = {h1, h2}
  MaxKeys = 3
  MaxActive = 2
  MaxLosses = 1
SYMMETRY MCSymmetry
CONSTRAINT MCBound
INVARIANTS
  VaultStaysUsable
  ListIsTheServices
PROPERTIES
  ForgottenUnlessKept
  ImplementsKeyService
\* The instance ends when no key is left to be issued.
CHECK_DEADLOCK FALSE
