SPECIFICATION ChannelSpec
CONSTANTS
  Keys = {"dev", "alarm"}
  OverlayKeys = {"alarm"}
  Transient = {}
  ChannelKeys = {"dev"}
  LocalVersion = "v"
  DbcVersions = {"v", "testing-", "other"}
  True = "true"
  False = "false"
  OnFile = {}
  Edited = {"false"}
  EarlyEdits = FALSE
  Patient = TRUE
  MaxReports = 1
  MaxEdits = 1
  MaxCommands = 0
  MaxFaults = 0
  MaxCrashes = 0
  Absent = Absent
  Blank = ""
  Values <- MCValues
  Forced <- MCForced
  Default <- MCDefault
  Valid <- MCValid
  Safe <- MCSafe
  InitToml <- MCInitToml
  EditValues <- MCEditValues
  ChannelDefault <- MCChannelDefault
INVARIANT ChoicePersisted
