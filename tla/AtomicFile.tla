------------------------------- MODULE AtomicFile -------------------------------
(* What a writer of a file may expect of fileutil.AtomicWrite while it is the     *)
(* only one: a reader finds what some writer asked for, as a whole; nothing but   *)
(* the writer at work changes it; and once the write has returned, or the file    *)
(* was found as wanted, the writer goes on with it.  Of two writers at a time     *)
(* nothing is promised.                                                          *)
CONSTANTS Wanted,  \* what writers ask for
          None     \* no content

VARIABLES shown,   \* what a reader finds
          kept,    \* what a reader may find after a power loss
          stage,   \* of the writer: "out", "writing", "placed", "done"
          asked,   \* what it asks for
          shared   \* two writers have been at work at the same time

vars == <<shown, kept, stage, asked, shared>>

Init == /\ shown \in Wanted /\ kept = {shown}
        /\ stage = "out" /\ asked = None /\ shared = FALSE

\* The file is not as wanted: the writer starts.
Begin == /\ stage = "out" /\ stage' = "writing"
         /\ asked' \in Wanted \ {shown}
         /\ UNCHANGED <<shown, kept, shared>>

\* The new content takes the place of the old one, for now until the next power loss.
Place == /\ stage = "writing" /\ stage' = "placed"
         /\ shown' = asked /\ kept' = kept \union {asked}
         /\ UNCHANGED <<asked, shared>>

\* The write returns without an error.
Return == /\ stage = "placed" /\ stage' = "done"
          /\ kept' = {asked}
          /\ UNCHANGED <<shown, asked, shared>>

\* The file is as wanted already; nothing is said of power losses.
Find == /\ stage = "out" /\ stage' = "done"
        /\ asked' = shown
        /\ UNCHANGED <<shown, kept, shared>>

\* The writer is through, has failed, or has died.
Leave == /\ stage # "out" /\ stage' = "out" /\ asked' = None
         /\ UNCHANGED <<shown, kept, shared>>

\* Only what was kept is left.
PowerLoss == /\ shown' \in kept /\ kept' = {shown'}
             /\ stage' = "out" /\ asked' = None
             /\ UNCHANGED shared

\* A second writer comes, and from then on anything may happen.
Share == shared'

Next == Begin \/ Place \/ Return \/ Find \/ Leave \/ PowerLoss \/ Share

Spec == Init /\ [][Next]_vars
================================================================================
