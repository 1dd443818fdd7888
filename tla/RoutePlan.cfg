SPECIFICATION Spec
CONSTANTS
  MaxStops = 3
  SettledBeforeLoad = TRUE
  MaxRevision = 2
  MaxFaults = 1
  MaxCrashes = 1
INVARIANTS TypeOK SnapshotLoads RevisionIdentifiesPlan ShownIsDurable
PROPERTIES RegisterSpec EditKeepsTarget KeepNeverChangesStop
