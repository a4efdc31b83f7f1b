SPECIFICATION Spec
CONSTANTS
  None = None
  Proc = {p1, p2, p3}
  MaxFence = 3
  MaxRev = 6
  MaxCrashes = 1
  Content = {c1, c2}
  MaxEdits = 3
  MaxDeaths = 2
  MaxApplies = 2
  Absent = Absent
  Caller = {h1, h2}
  Key = {key1, key2}
  MaxCalls = 4
  MaxCallerDeaths = 2
  MaxGen = 2
  MaxEnds = 2
  MaxStuck = 1
  MaxId = 2
  MaxFrames = 3
  MaxEntries = 5
  MaxWrites = 2
  Job = {j1, j2, j3}
  Lineage = {l1, l2}
  Client = {u1, u2}
  NoJob = NoJob
  Limit = 1
  MaxWork = 4
  MaxFiles = 4
  MaxFaults = 2
  NoManifest = NoManifest
  MaxDirty = 1
  MaxPaths = 2
  MaxIgnored = 1
  MaxHashed = 1
  MaxFailed = 1
  MaxChanges = 2
  MaxTurns = 2
INVARIANTS VerifiedIsPublished OneDecision GrokIsCovered RevokedIsGone DeliveredIsUncontested IdentityIsOfOneInstant NoHiddenWrite RuntimeIsExclusive ResumedParentIsKept
PROPERTIES ReadyIsExact TreeOutlivesOthers OneArtifact NoTurnAfterCancel NoFalseAlarm
CHECK_DEADLOCK FALSE
