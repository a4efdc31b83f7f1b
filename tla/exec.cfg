SPECIFICATION NotInstalledSpec
CONSTANTS
  p1 = p1  r1 = r1
  None = None
  Key = {k1, k2}
  Run = {x1, x2}
  Owner = {}
  Pull = {p1}
  Repo = {r1}
  PullOf <- MCPullOf
  RepoOf <- MCRepoOf
  WatchdogBatch = 1
  MaxReruns = 0
  Delayed = {"abort", "terminal"}
SYMMETRY Sym
INVARIANTS OneExecutor WorkIsProtected OlderPublisherIsStopped
