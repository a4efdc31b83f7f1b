SPECIFICATION InstalledFairSpec
CONSTANTS
  k1 = k1  p1 = p1  r1 = r1  d1 = d1  d2 = d2
  None = None
  Key = {k1}
  Run = {x1}
  Owner = {w1}
  Pull = {p1}
  Repo = {r1}
  PullOf <- MCPullOf
  RepoOf <- MCRepoOf
  Delivery = {d1, d2}
  EventOf <- MCEventOf
  Handler = {h1}
  MaxHookCrashes = 0
  MaxReruns = 0
  BatchSize = 1
  MaxFaults = 0
  Delayed = {}
  WatchdogBatch = 1
  MaxEpoch = 2
PROPERTIES ReviewConcludes
