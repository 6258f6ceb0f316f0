SPECIFICATION LifecycleSpec
CONSTANTS
  c1 = c1
  c2 = c2
  c3 = c3
  u1 = u1
  u2 = u2
  b1 = b1
  b2 = b2
  NULL = NULL
  CPUs = {c1, c2, c3}
  Users = {u1, u2}
  Blocks = {b1, b2}
  FixedMajors = {"allowlist", "safe"}
SYMMETRY Symmetry
INVARIANTS
  LifecycleTypeOK
  NothingLeft
  
  RetryWorks
  NodesFollowOnline
  NodesBacked
