SPECIFICATION FairSpec
CONSTANTS
  Keys = {"speed", "expunge", "usb"}
  OverlayKeys = {}
  Transient = {"usb"}
  OnFile = {"speed", "usb"}
  Broken = {"expunge"}
  Edited = {"speed", "expunge"}
  Validated = {"expunge"}
  NoDefault = {}
  EarlyEdits = FALSE
  Patient = FALSE
  MaxEdits = 3
  MaxCommands = 0
  MaxFaults = 1
  MaxCrashes = 1
  Absent = Absent
  Blank = ""
  Values <- MCValues
  Forced <- MCForced
  Default <- MCDefault
  Valid <- MCValid
  Safe <- MCSafe
  InitToml <- MCInitToml
  EditValues <- MCEditValues
INVARIANTS InvalidNeverSettles EditsPersisted
PROPERTIES ReplacedOnlyByEdits Settles
