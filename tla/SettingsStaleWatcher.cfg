SPECIFICATION Spec
CONSTANTS
  Keys = {"speed", "alarm"}
  OverlayKeys = {"alarm"}
  Transient = {}
  OnFile = {}
  Broken = {}
  Edited = {}
  Validated = {}
  NoDefault = {}
  EarlyEdits = FALSE
  Patient = FALSE
  MaxEdits = 0
  MaxCommands = 2
  MaxFaults = 0
  MaxCrashes = 0
  Absent = Absent
  Blank = ""
  Values <- MCValues
  Forced <- MCForced
  Default <- MCDefault
  Valid <- MCValid
  Safe <- MCSafe
  InitToml <- MCInitToml
  EditValues <- MCEditValues
INVARIANT ForcedNotAfterClear
