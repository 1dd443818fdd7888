------------------------------- MODULE LogServer --------------------------------
(* internal/journalupload and fileutil.AtomicWrite: "scooter.logserver" becomes   *)
(* journal-upload.conf and the state of systemd-journal-upload.service.  Two      *)
(* goroutines call ApplyLogServer with nothing between them: the one started by   *)
(* LoadSettingsFromTOML, with the value it has loaded, and the watcher, with the  *)
(* value it reads.  Both write through the same "journal-upload.conf.tmp".        *)
(*                                                                               *)
(* A URL is the number of its characters: of two texts written to one file from   *)
(* its start, the longer one covers the other.  An empty file has the data 0.     *)
EXTENDS Integers, FiniteSets

CONSTANTS Urls,        \* log servers
          Unset,       \* the empty setting, no file, no process
          Spoilt,      \* the content of a file that is not what anyone wrote
          MaxEdits,    \* bound: changes of the setting
          MaxFaults,   \* bound: system calls and commands that fail
          MaxCrashes   \* bound: crashes and power losses

ASSUME UrlsAssumption == /\ Urls \subseteq Nat \ {0}
                         /\ Unset \notin Nat /\ Spoilt \notin Nat /\ Unset # Spoilt
ASSUME BoundsAssumption == MaxEdits \in Nat /\ MaxFaults \in Nat /\ MaxCrashes \in Nat

VARIABLES setting,   \* scooter.logserver in Redis, kept on file by the service
          pending,   \* notifications of it the watcher has not handled
          up,        \* the service has loaded the settings
          proc,      \* the two goroutines
          conf,      \* journal-upload.conf: data, synced
          tmp,       \* journal-upload.conf.tmp
          disk,      \* what a power loss may leave under the name of conf
          unit,      \* the systemd unit: enabled, running (the URL it has read)
          stale,     \* an application failed, was cut short or overlapped, and
                     \* no whole one has followed (history variable)
          overlapped, edits, faults, crashes

files == <<conf, tmp, disk>>
history == <<stale, overlapped>>
counters == <<edits, faults, crashes>>
vars == <<setting, pending, up, proc, files, unit, history, counters>>

Callers == {"startup", "watcher"}
NoFile == [data |-> Unset, synced |-> TRUE]
NewFile == [data |-> 0, synced |-> FALSE]
Idle == [pc |-> "idle", want |-> Unset, file |-> "none", alone |-> TRUE]

Busy == {c \in Callers : proc[c].pc # "idle"}
To(c, pc) == proc' = [proc EXCEPT ![c].pc = pc]
Return(c) == proc' = [proc EXCEPT ![c] = Idle]

\* What the disk may hold of a file after a power loss.
Remains(f) == IF f.synced THEN {f.data} ELSE {f.data, Spoilt}

--------------------------------------------------------------------------------
(* ApplyLogServer.                                                               *)

\* A caller enters; if the other one is inside, both count as overlapping.
Enter(c, want) ==
    /\ proc[c].pc = "idle"
    /\ LET alone == Busy = {}
           entered == [Idle EXCEPT !.pc = IF want = Unset THEN "stop" ELSE "compare",
                                   !.want = want, !.alone = alone]
       IN /\ proc' = [d \in Callers |->
                 IF d = c THEN entered ELSE [proc[d] EXCEPT !.alone = alone \/ d \notin Busy]]
          /\ stale' = (stale \/ ~alone)
          /\ overlapped' = (overlapped \/ ~alone)

\* The last step of an application that failed in nothing.
Complete(c) == /\ stale' = (stale /\ ~proc[c].alone)
               /\ Return(c)
               /\ UNCHANGED overlapped

Stop(c) == /\ proc[c].pc = "stop"
           /\ unit' = [unit EXCEPT !.running = Unset]
           /\ To(c, "disable")
           /\ UNCHANGED <<setting, pending, up, files, history, counters>>

Disable(c) == /\ proc[c].pc = "disable"
              /\ unit' = [unit EXCEPT !.enabled = FALSE]
              /\ Complete(c)
              /\ UNCHANGED <<setting, pending, up, files, counters>>

\* Mutant of Compare: a unit that runs is taken to run with the setting.
CompareActive(c) ==
    /\ proc[c].pc = "compare"
    /\ IF conf.data # proc[c].want /\ unit.running = Unset THEN To(c, "open")
       ELSE IF unit.running = Unset THEN To(c, "enable") ELSE Return(c)
    /\ UNCHANGED <<setting, pending, up, files, unit, history, counters>>

\* The file is as wanted: a unit that runs is left alone, whatever it has read.
Compare(c) ==
    /\ proc[c].pc = "compare"
    /\ IF conf.data # proc[c].want THEN To(c, "open")
       ELSE IF unit.running = Unset THEN To(c, "enable") ELSE Return(c)
    /\ UNCHANGED <<setting, pending, up, files, unit, history, counters>>

Enable(c) == /\ proc[c].pc = "enable"
             /\ unit' = [unit EXCEPT !.enabled = TRUE]
             /\ To(c, "restart")
             /\ UNCHANGED <<setting, pending, up, files, history, counters>>

Restart(c) == /\ proc[c].pc = "restart"
              /\ unit' = [unit EXCEPT !.running = conf.data]
              /\ Complete(c)
              /\ UNCHANGED <<setting, pending, up, files, counters>>

--------------------------------------------------------------------------------
(* AtomicWrite.  "file" is the name under which a caller's open file is found:    *)
(* "tmp", "conf" after a rename by either, "none" after a removal.                *)

\* O_TRUNC: the file of a caller that has it open already is emptied.
Open(c) ==
    /\ proc[c].pc = "open"
    /\ tmp' = NewFile
    /\ proc' = [proc EXCEPT ![c].pc = "write", ![c].file = "tmp"]
    /\ UNCHANGED <<setting, pending, up, conf, disk, unit, history, counters>>

\* Mutant of Written: the text is appended.
WrittenAppended(f, url) == [data |-> IF f.data = Spoilt THEN Spoilt ELSE f.data + url, synced |-> FALSE]

Written(f, url) == [data |-> IF f.data # Spoilt /\ url >= f.data THEN url ELSE Spoilt,
                    synced |-> FALSE]

Write(c) ==
    /\ proc[c].pc = "write"
    /\ tmp' = IF proc[c].file = "tmp" THEN Written(tmp, proc[c].want) ELSE tmp
    /\ conf' = IF proc[c].file = "conf" THEN Written(conf, proc[c].want) ELSE conf
    /\ disk' = disk \union IF proc[c].file = "conf" THEN Remains(conf') ELSE {}
    /\ To(c, "sync")
    /\ UNCHANGED <<setting, pending, up, unit, history, counters>>

\* Mutant of Sync: only the name is made durable.
SyncNothing(c) == /\ proc[c].pc = "sync"
                  /\ To(c, "rename")
                  /\ UNCHANGED <<setting, pending, up, files, unit, history, counters>>

Sync(c) ==
    /\ proc[c].pc = "sync"
    /\ tmp' = [tmp EXCEPT !.synced = @ \/ proc[c].file = "tmp"]
    /\ conf' = [conf EXCEPT !.synced = @ \/ proc[c].file = "conf"]
    /\ To(c, "rename")
    /\ UNCHANGED <<setting, pending, up, disk, unit, history, counters>>

Exists(f) == f # NoFile

\* Close and rename.
Rename(c) ==
    /\ proc[c].pc = "rename" /\ Exists(tmp)
    /\ conf' = tmp /\ tmp' = NoFile
    /\ disk' = disk \union Remains(tmp)
    /\ proc' = [d \in Callers |->
          [proc[d] EXCEPT !.pc = IF d = c THEN "syncdir" ELSE @,
                          !.file = IF @ = "tmp" THEN "conf" ELSE "none"]]
    /\ UNCHANGED <<setting, pending, up, unit, history, counters>>

\* Mutant of SyncDir: the directory is not synced.
SyncDirNothing(c) ==
    /\ proc[c].pc = "syncdir"
    /\ To(c, "enable")
    /\ UNCHANGED <<setting, pending, up, files, unit, history, counters>>

SyncDir(c) ==
    /\ proc[c].pc = "syncdir"
    /\ disk' = Remains(conf)
    /\ To(c, "enable")
    /\ UNCHANGED <<setting, pending, up, conf, tmp, unit, history, counters>>

\* A step returns an error: no later step is done, and a temporary file is removed.
GiveUp(c) ==
    /\ stale' = TRUE /\ UNCHANGED overlapped
    /\ IF proc[c].pc \in {"write", "sync", "rename"}
       THEN /\ tmp' = NoFile
            /\ proc' = [d \in Callers |-> IF d = c THEN Idle
                        ELSE [proc[d] EXCEPT !.file = IF @ = "tmp" THEN "none" ELSE @]]
       ELSE Return(c) /\ UNCHANGED tmp
    /\ UNCHANGED <<setting, pending, up, conf, disk, edits, crashes>>

\* The other caller has renamed the file away.
RenameMissing(c) == /\ proc[c].pc = "rename" /\ ~Exists(tmp)
                    /\ GiveUp(c)
                    /\ UNCHANGED <<unit, faults>>

Fail(c) ==
    /\ proc[c].pc \notin {"idle", "stop", "disable"}
    /\ faults < MaxFaults
    /\ faults' = faults + 1
    /\ GiveUp(c)
    /\ \/ UNCHANGED unit
       \/ proc[c].pc = "restart" /\ unit' = [unit EXCEPT !.running = Unset]

\* stopAndDisable ignores what the two commands return.
StopFails(c) ==
    /\ proc[c].pc \in {"stop", "disable"}
    /\ faults < MaxFaults
    /\ faults' = faults + 1
    /\ stale' = TRUE
    /\ IF proc[c].pc = "stop" THEN proc' = [proc EXCEPT ![c].pc = "disable", ![c].alone = FALSE]
       ELSE Return(c)
    /\ UNCHANGED <<setting, pending, up, files, unit, overlapped, edits, crashes>>

Apply(c) == \/ Stop(c) \/ Disable(c) \/ Compare(c) \/ Enable(c) \/ Restart(c)
            \/ Open(c) \/ Write(c) \/ Sync(c) \/ Rename(c) \/ SyncDir(c)
            \/ RenameMissing(c) \/ Fail(c) \/ StopFails(c)

--------------------------------------------------------------------------------
(* The service around it.                                                        *)

Load == /\ ~up
        /\ up' = TRUE
        /\ Enter("startup", setting)
        /\ UNCHANGED <<setting, pending, files, unit, counters>>

\* updateLogServerFromRedis: the value of now, not of the notification.
WatcherApplies ==
    /\ up /\ pending > 0
    /\ pending' = pending - 1
    /\ Enter("watcher", setting)
    /\ UNCHANGED <<setting, up, files, unit, counters>>

Edit == /\ up /\ edits < MaxEdits
        /\ edits' = edits + 1
        /\ \E url \in (Urls \union {Unset}) \ {setting} : setting' = url
        /\ pending' = pending + 1
        /\ UNCHANGED <<up, proc, files, unit, history, faults, crashes>>

Down == /\ crashes < MaxCrashes
        /\ crashes' = crashes + 1
        /\ up' = FALSE /\ pending' = 0
        /\ proc' = [c \in Callers |-> Idle]
        /\ UNCHANGED <<setting, overlapped, edits, faults>>

\* The process dies; what it has not finished stays as it is.
Crash == /\ Down
         /\ stale' = (stale \/ Busy # {} \/ pending > 0)
         /\ UNCHANGED <<files, unit>>

\* A power loss: systemd then starts an enabled unit with the file that is left.
PowerLoss ==
    /\ Down
    /\ \E data \in disk :
          /\ conf' = [data |-> data, synced |-> TRUE]
          /\ unit' = [unit EXCEPT !.running = IF unit.enabled THEN data ELSE Unset]
          /\ disk' = {data}
    /\ tmp' \in {NoFile, [data |-> Spoilt, synced |-> TRUE]}
    /\ stale' = (stale \/ Busy # {} \/ pending > 0)

\* The unit is as the last service left it; the setting may be newer.
Init == /\ setting \in Urls \union {Unset}
        /\ \E data \in Urls \union {Unset}, enabled \in BOOLEAN :
              /\ data = Unset => ~enabled
              /\ conf = [data |-> data, synced |-> TRUE]
              /\ disk = {data}
              /\ unit = [enabled |-> enabled, running |-> IF enabled THEN data ELSE Unset]
        /\ tmp = NoFile /\ pending = 0 /\ up = FALSE
        /\ proc = [c \in Callers |-> Idle]
        /\ stale = FALSE /\ overlapped = FALSE
        /\ edits = 0 /\ faults = 0 /\ crashes = 0

Quiescent == up /\ pending = 0 /\ Busy = {}

Wait == Quiescent /\ UNCHANGED vars

Next == Load \/ WatcherApplies \/ (\E c \in Callers : Apply(c))
        \/ Edit \/ Crash \/ PowerLoss \/ Wait

Spec == Init /\ [][Next]_vars

--------------------------------------------------------------------------------
(* Properties.                                                                   *)

Contents == Urls \union {Unset, 0, Spoilt}
File == [data : Contents, synced : BOOLEAN]

\* Every variable has its type.
TypeOK ==
    /\ setting \in Urls \union {Unset} /\ pending \in Nat /\ up \in BOOLEAN
    /\ proc \in [Callers ->
           [pc : {"idle", "stop", "disable", "compare", "open", "write", "sync", "rename",
                  "syncdir", "enable", "restart"},
            want : Urls \union {Unset}, file : {"none", "tmp", "conf"}, alone : BOOLEAN]]
    /\ {conf, tmp} \subseteq File /\ disk \subseteq Contents /\ disk # {}
    /\ unit \in [enabled : BOOLEAN, running : Contents]
    /\ {stale, overlapped} \subseteq BOOLEAN /\ {edits, faults, crashes} \subseteq Nat

\* AtomicWrite "syncs the contents and renamed directory entry before returning":
\* whatever fails and wherever the power goes, the file is one that was written
\* whole, and so is what a power loss would leave.  (Until two callers overlap.)
ConfigWhole == ~overlapped => {0, Spoilt} \intersect (disk \union {conf.data}) = {}

\* "Applies scooter.logserver to journal-upload configuration": at rest, when the
\* last application that changed anything was whole and alone, the unit runs with
\* the setting of now, or is stopped and disabled; nothing older is left over.
Applied == Quiescent /\ ~stale =>
    IF setting = Unset THEN unit.running = Unset /\ ~unit.enabled
    ELSE conf.data = setting /\ unit.running = setting /\ unit.enabled

\* The same of every state at rest: what the README says without conditions.
AlwaysApplied == Quiescent /\ faults = 0 /\ crashes = 0 =>
    IF setting = Unset THEN unit.running = Unset ELSE unit.running = setting

--------------------------------------------------------------------------------
(* What a caller expects of the file: AtomicFile, while it is the only one.      *)

Writing == {"open", "write", "sync", "rename"}
After == {"enable", "restart"}
Writers == {c \in Callers : proc[c].pc \in Writing \union {"syncdir"} \union After}
Writer == CHOOSE c \in Writers : TRUE

Stage == IF Writers = {} THEN "out"
         ELSE IF proc[Writer].pc \in Writing THEN "writing"
         ELSE IF proc[Writer].pc = "syncdir" THEN "placed" ELSE "done"
Asked == IF Writers = {} THEN Spoilt ELSE proc[Writer].want

Atomic == INSTANCE AtomicFile WITH Wanted <- Urls \union {Unset}, None <- Spoilt,
                                   shown <- conf.data, kept <- disk,
                                   stage <- Stage, asked <- Asked, shared <- overlapped

\* "syncs the contents and renamed directory entry before returning": until two
\* callers overlap, the file changes in one step, to what its writer asked for; a
\* caller goes on to the unit only with what it wanted on file, and kept for good
\* if it was this caller that wrote it, whatever failed before and wherever the
\* process or the power went.
AtomicSpec == Atomic!Spec
================================================================================
