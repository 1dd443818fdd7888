SPECIFICATION ChannelSpec
CONSTANTS
  Keys = {"dev", "alarm"}
  OverlayKeys = {"alarm"}
  Transient = {}
  ChannelKeys = {"dev"}
  LocalVersion = "v"
  DbcVersions = {"v", "testing-", "other"}
  True = "true"
  False = "false"
  OnFile = {}
  Edited = {"false"}
  EarlyEdits = FALSE
  Patient = TRUE
  MaxReports = 3
  MaxEdits = 2
  MaxCommands = 1
  MaxFaults = 1
  MaxCrashes = 1
  Absent = Absent
  Blank = ""
  Values <- MCValues
  Forced <- MCForced
  Default <- MCDefault
  Valid <- MCValid
  Safe <- MCSafe
  InitToml <- MCInitToml
  EditValues <- MCEditValues
  ChannelDefault <- MCChannelDefault
INVARIANTS ChannelTypeOK NoFlagLeft ChannelDefaultInForce
PROPERTY OnlyChoicesOnFile
