SPECIFICATION FairSpec
CONSTANTS
  Keys = {"alarm", "dash"}
  OverlayKeys = {"alarm", "dash"}
  Transient = {}
  OnFile = {"alarm"}
  Broken = {}
  Edited = {"alarm"}
  Validated = {}
  NoDefault = {"dash"}
  EarlyEdits = FALSE
  Patient = FALSE
  MaxEdits = 2
  MaxCommands = 2
  MaxFaults = 1
  MaxCrashes = 1
  Absent = Absent
  Blank = ""
  Values <- MCValues
  Forced <- MCForced
  Default <- MCDefault
  Valid <- MCValid
  Safe <- MCSafe
  InitToml <- MCInitToml
  EditValues <- MCEditValues
INVARIANTS TypeOK ModeIsWhole FileFollowsHash
PROPERTY Settles
