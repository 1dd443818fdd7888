SPECIFICATION Spec
CONSTANTS
  Plain <- MCPlain
  InitOld = {Absent, "true", "false"}
  InitMode = {Absent, "regular"}
  Choice = "all"
  Stray = TRUE
  Absent = Absent
  MaxEdits = 2
  MaxFaults = 1
  MaxCrashes = 1
INVARIANTS TypeOK FileReadsBack ChoiceSettles
PROPERTIES ChoiceStays ImportStaysDone
