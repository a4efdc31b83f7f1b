SPECIFICATION InstalledSpec
CONSTANTS
  p1 = p1  r1 = r1
  None = None
  Key = {k1}
  Run = {x1, x2}
  Owner = {w1}
  Pull = {p1}
  Repo = {r1}
  PullOf <- MCPullOf
  RepoOf <- MCRepoOf
  MaxReruns = 0
  BatchSize = 1
  MaxFaults = 1
  MaxEpoch = 1
  InstStates = {"active"}
PROPERTIES LeaseKeptAfterLostBinding
