SPECIFICATION Spec
CONSTANTS
  Keys = {"speed", "alarm", "dash"}
  OverlayKeys = {"alarm", "dash"}
  Transient = {}
  OnFile = {"alarm"}
  Broken = {}
  Edited = {"speed"}
  Validated = {}
  NoDefault = {"dash"}
  EarlyEdits = TRUE
  Patient = TRUE
  MaxEdits = 2
  MaxCommands = 4
  MaxFaults = 1
  MaxCrashes = 1
  Absent = Absent
  Blank = ""
  Values <- MCValues
  Forced <- MCForced
  Default <- MCDefault
  Valid <- MCValid
  Safe <- MCSafe
  InitToml <- MCInitToml
  EditValues <- MCEditValues
INVARIANT RoundTrip
PROPERTY ChoicesOnFile
