------------------------------ MODULE MCSettings ------------------------------
(* Instances of SettingsService for TLC.  Four settings of the shipped schema,  *)
(* by kind: "speed" is plain, "alarm" is forced by service mode, "usb" is       *)
(* forced and transient, "expunge" has a format.  A cfg names the settings,     *)
(* what is on file and what clients write; the values mean                      *)
(*   "dflt" the schema's default   "user" what a user chose, on file at first   *)
(*   "edit" what a client writes   "on"   what service mode forces              *)
(*   "bad"  outside the format     "never" the safe value of "expunge"          *)
EXTENDS SettingsService

CONSTANTS OnFile,      \* settings with the value "user" in the file at first
          Broken,      \* settings with the value "bad" in the file at first
          Edited,      \* settings clients write
          Validated,   \* settings with a format
          NoDefault    \* settings without a schema default

MCValues == {"", "dflt", "user", "edit", "on", "bad", "never"}
MCForced == [k \in OverlayKeys |-> "on"]
MCDefault == [k \in Keys |-> IF k \in NoDefault THEN Absent ELSE "dflt"]
MCValid == [k \in Keys |-> IF k \in Validated THEN MCValues \ {"", "bad"} ELSE MCValues]
MCSafe == [k \in Keys |-> IF k \notin Validated THEN Absent
                          ELSE IF k = "expunge" THEN "never" ELSE MCDefault[k]]
MCInitToml == [k \in Keys |-> IF k \in OnFile THEN "user"
                              ELSE IF k \in Broken THEN "bad" ELSE Absent]
MCEditValues == [k \in Keys |-> IF k \notin Edited THEN {}
                                ELSE IF k \in Validated THEN {"edit", "bad"} ELSE {"edit"}]
================================================================================
