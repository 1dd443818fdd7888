------------------------------ MODULE MCChannels ------------------------------
(* An instance of ChannelDefaults for TLC: "dev" depends on the channel, "alarm" *)
(* is forced by service mode.  A cfg says what clients write to "dev".           *)
EXTENDS ChannelDefaults

CONSTANTS OnFile,   \* settings in the file at first, with "false"
          Edited    \* what clients write to "dev"

MCValues == {"", "true", "false"}
MCForced == [k \in OverlayKeys |-> "true"]
MCDefault == [k \in Keys |-> "false"]
MCValid == [k \in Keys |-> MCValues]
MCSafe == [k \in Keys |-> Absent]
MCInitToml == [k \in Keys |-> IF k \in OnFile THEN "false" ELSE Absent]
MCEditValues == [k \in Keys |-> IF k = "dev" THEN Edited ELSE {}]
MCChannelDefault == [k \in ChannelKeys |->
    [c \in Channels |-> c \in {"testing", "nightly"}]]
================================================================================
