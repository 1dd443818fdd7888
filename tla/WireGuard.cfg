SPECIFICATION Spec
CONSTANTS
  Profiles = {home, work}
  Contents = {a, b, bad}
  None = None
  Bad = {bad}
  Dead = {work}
  MaxChanges = 2
  MaxFaults = 1
  MaxRestarts = 1
INVARIANTS TypeOK Synced
PROPERTY Connected
