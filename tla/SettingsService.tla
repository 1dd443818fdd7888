---------------------------- MODULE SettingsService ----------------------------
(* internal/service: the Redis hash "settings", the TOML file that outlives it, *)
(* and the service-mode overlay.  Three actors share them.  Clients write a     *)
(* field and then publish its name.  The watcher takes one published name at a  *)
(* time and decides whether it is a user's choice to keep.  The overlay         *)
(* consumer takes commands that force some fields and later restore them.       *)
(* Watcher and consumer are goroutines: they hold SettingsService.mu for some   *)
(* of their steps and read and write Redis outside of it, so every lock section *)
(* and every Redis command is an action of its own.                             *)
(*                                                                              *)
(* Left to modules of their own: channel defaults (ChannelDefaults), records of *)
(* saved locations (Destinations), the log server (LogServer), migrations.  A   *)
(* Redis command does not fail while the process lives.                         *)
EXTENDS Integers, FiniteSets, Sequences, SequencesExt

CONSTANTS Keys,          \* the settings
          Values,        \* their values
          Absent,        \* no such field, no such TOML entry
          Blank,         \* "", what a read of a missing field returns
          OverlayKeys,   \* serviceOverlayFields: the fields service mode forces
          Forced,        \*   and the value it forces each of them to
          Transient,     \* the schema's transient keys
          Default,       \* the schema's default of a key, or Absent
          Valid,         \* the values the schema's enum or format admits
          Safe,          \* what an invalid value is replaced with, or Absent
          InitToml,      \* the TOML file before the first start
          EditValues,    \* the values clients write to a key
          EarlyEdits,    \* clients write once the service is ready, subscribed or not
          Patient,       \* commands are sent to a service at rest only
          MaxEdits,      \* bound: client writes
          MaxCommands,   \* bound: overlay commands
          MaxFaults,     \* bound: failed file writes
          MaxCrashes     \* bound: crashes and reboots

Entry == Values \union {Absent}
Files == [Keys -> Entry]

ASSUME ValuesAssumption == Absent \notin Values /\ Blank \in Values
ASSUME KeysAssumption == IsFiniteSet(Keys) /\ Keys # {}
ASSUME OverlayAssumption == OverlayKeys \subseteq Keys /\ Forced \in [OverlayKeys -> Values]
ASSUME SchemaAssumption == /\ Transient \subseteq Keys
                           /\ Default \in Files
                           /\ Valid \in [Keys -> SUBSET Values]
                           /\ Safe \in [Keys -> Entry \ {Blank}]
ASSUME EnvironmentAssumption == /\ InitToml \in Files
                                /\ EditValues \in [Keys -> SUBSET Values]
                                /\ EarlyEdits \in BOOLEAN
                                /\ Patient \in BOOLEAN
ASSUME BoundsAssumption == /\ MaxEdits \in Nat /\ MaxCommands \in Nat
                           /\ MaxFaults \in Nat /\ MaxCrashes \in Nat

VARIABLES hash,           \* the Redis hash "settings"
          status,         \* its field dashboard.service-mode-active
          channel,        \* names published on "settings", not yet received
          commands,       \* the Redis list settings:overlay
          toml,           \* /data/settings.toml
          modeFile,       \* /data/service-mode.json
          userSet,        \* SettingsService.userSetKeys
          active,         \* SettingsService.overlayActive
          base,           \* SettingsService.overlayBase
          lastPersisted,  \* SettingsService.lastPersisted
          boot,           \* how far main has come
          watcher,        \* the goroutine of WatchSettings
          consumer,       \* the goroutine of RunOverlayConsumer, or main re-applying
          unpublished,    \* fields clients have written and not yet published
          edits, sent, faults, crashes

redis == <<hash, status, channel, commands>>
files == <<toml, modeFile>>
memory == <<userSet, active, base, lastPersisted>>
clients == <<unpublished, edits, sent>>
failures == <<faults, crashes>>
vars == <<redis, files, memory, boot, watcher, consumer, clients, failures>>

--------------------------------------------------------------------------------
NoFields == [k \in Keys |-> Absent]
NoBase == [k \in OverlayKeys |-> [value |-> Absent, wasUserSet |-> FALSE]]
NoHeld == [k \in OverlayKeys |-> Absent]

\* capturedVal: a field that did not exist has the value Absent.
Base == [OverlayKeys -> [value : Entry, wasUserSet : BOOLEAN]]

WatcherIdle == [pc |-> "idle", key |-> CHOOSE k \in Keys : TRUE, value |-> Blank]
WatcherOff == [WatcherIdle EXCEPT !.pc = "off"]
ConsumerIdle == [pc |-> "idle", todo |-> {}, held |-> NoHeld]

\* Mutant of Read: a missing field is not turned into an empty string.
ReadMissing(k) == hash[k]

\* GetSettingField with its "existed" thrown away.
Read(k) == IF hash[k] = Absent THEN Blank ELSE hash[k]

IsOverlaid(k) == active /\ k \in OverlayKeys
IsInvalid(k, v) == v # Absent /\ v \notin Valid[k]

\* The names reach the watcher only once it has subscribed.
Published(names) == IF watcher.pc = "off" THEN channel ELSE channel \o names

\* SetSettingField: one transaction.
SetField(k, v) == /\ hash' = [hash EXCEPT ![k] = v]
                  /\ channel' = Published(<<k>>)

--------------------------------------------------------------------------------
(* SaveSettingsToTOML.  It holds the lock from its first step to its last, and  *)
(* reads the hash in one command: one action.                                   *)

\* Mutant of Persisted: a forced field is left out, not replaced by its base.
PersistedNoBase ==
    [k \in Keys |-> IF k \notin userSet \/ IsOverlaid(k) THEN Absent ELSE hash[k]]

\* overlayBaseForPersist, then filterUserSet.
Persisted ==
    [k \in Keys |-> IF k \notin userSet THEN Absent
                    ELSE IF IsOverlaid(k) THEN base[k].value ELSE hash[k]]

Refused == \E k \in Keys : IsInvalid(k, Persisted[k])

Save == \/ /\ Refused \/ Persisted = lastPersisted
           /\ UNCHANGED <<toml, lastPersisted, faults>>
        \/ /\ ~Refused /\ Persisted # lastPersisted
           /\ toml' = Persisted /\ lastPersisted' = Persisted
           /\ UNCHANGED faults
        \* The write fails, before the rename or after it.
        \/ /\ ~Refused /\ Persisted # lastPersisted /\ faults < MaxFaults
           /\ toml' \in {toml, Persisted}
           /\ faults' = faults + 1
           /\ UNCHANGED lastPersisted

--------------------------------------------------------------------------------
(* main: load the file, re-apply the overlay, start watcher and consumer.       *)

Init == /\ hash = NoFields /\ status = FALSE
        /\ channel = <<>> /\ commands = <<>>
        /\ toml = InitToml /\ modeFile = FALSE
        /\ userSet = {} /\ active = FALSE /\ base = NoBase
        /\ lastPersisted = NoFields
        /\ boot = "down"
        /\ watcher = WatcherOff /\ consumer = ConsumerIdle
        /\ unpublished = {} /\ edits = 0 /\ sent = 0
        /\ faults = 0 /\ crashes = 0

\* Entries of the file that are not loaded as they are; what is loaded of each.
Dropped(k) == toml[k] # Absent /\ k \in Transient
Unsound(k) == k \notin Transient /\ IsInvalid(k, toml[k])
\* Mutant of Loaded: the file is not validated.
LoadedUnchecked(k) == IF toml[k] = Absent \/ Dropped(k) THEN Absent ELSE toml[k]

Loaded(k) == IF toml[k] = Absent \/ Dropped(k) THEN Absent
             ELSE IF Unsound(k) THEN Safe[k] ELSE toml[k]

NeedsRewrite == \E k \in Keys : Dropped(k) \/ Unsound(k)

\* Mutant of Snapshot: the file counts as saved although it is repaired.
SnapshotKept == [k \in Keys |-> Loaded(k)]

\* What the next save is compared with.
Snapshot == IF NeedsRewrite THEN NoFields ELSE [k \in Keys |-> Loaded(k)]

\* LoadSettingsFromTOML: transient entries are dropped, invalid ones replaced,
\* defaults fill the rest of the hash, other transient fields leave it.
LoadWith(default) ==
    /\ boot = "down"
    /\ hash' = [k \in Keys |-> IF Loaded(k) # Absent THEN Loaded(k)
                               ELSE IF default[k] # Absent THEN default[k]
                               ELSE IF k \in Transient THEN Absent ELSE hash[k]]
    /\ status' = FALSE
    /\ userSet' = {k \in Keys : Loaded(k) # Absent}
    /\ lastPersisted' = Snapshot
    /\ boot' = IF NeedsRewrite THEN "rewrite" ELSE "reapply"
    /\ UNCHANGED <<channel, commands, files, active, base, watcher, consumer, clients, failures>>

Load == LoadWith(Default)

\* The deferred save of a file that had to be repaired.
Rewrite == /\ boot = "rewrite"
           /\ Save
           /\ boot' = "reapply"
           /\ UNCHANGED <<redis, modeFile, userSet, active, base, watcher, consumer, clients, crashes>>

\* Mutant of Reapply: the mode file is not looked at.
ReapplyForgotten == /\ boot = "reapply"
                    /\ boot' = "up"
                    /\ UNCHANGED <<redis, files, memory, watcher, consumer, clients, failures>>

\* ReapplyOverlayOnBoot, in main, before either goroutine exists.
Reapply == /\ boot = "reapply"
           /\ \/ /\ modeFile
                 /\ boot' = "applying"
                 /\ consumer' = [ConsumerIdle EXCEPT !.pc = "capture", !.todo = OverlayKeys]
              \/ /\ ~modeFile
                 /\ boot' = "up"
                 /\ UNCHANGED consumer
           /\ UNCHANGED <<redis, files, memory, watcher, clients, failures>>

Reapplied == /\ boot = "applying" /\ consumer.pc = "idle"
             /\ boot' = "up"
             /\ UNCHANGED <<redis, files, memory, watcher, consumer, clients, failures>>

\* WatchSettings subscribes while the consumer may be running already.
Subscribe == /\ boot = "up" /\ watcher.pc = "off"
             /\ watcher' = WatcherIdle
             /\ UNCHANGED <<redis, files, memory, boot, consumer, clients, failures>>

--------------------------------------------------------------------------------
(* The overlay consumer.                                                        *)

Stepping(pc) == consumer.pc = pc
Then(pc, todo) == consumer' = [consumer EXCEPT !.pc = pc, !.todo = todo]
NextOf(todo, pc, last) == IF todo = {} THEN last ELSE pc

\* RunOverlayConsumer: the oldest command leaves the list before it is executed.
TakeCommand ==
    /\ boot = "up" /\ Stepping("idle") /\ commands # <<>>
    /\ commands' = Tail(commands)
    /\ IF Head(commands) = "apply" THEN Then("capture", OverlayKeys) ELSE Then("unset", {})
    /\ UNCHANGED <<hash, status, channel, files, memory, boot, watcher, clients, failures>>

\* ApplyServiceOverlay reads every field first, without the lock.
Capture(k) ==
    /\ Stepping("capture") /\ k \in consumer.todo
    /\ consumer' = [consumer EXCEPT !.todo = @ \ {k}, !.held[k] = hash[k]]
    /\ UNCHANGED <<redis, files, memory, boot, watcher, clients, failures>>

\* Mutant of Activate: a second apply captures the forced values.
ActivateAgain ==
    /\ Stepping("capture") /\ consumer.todo = {}
    /\ active' = TRUE
    /\ base' = [k \in OverlayKeys |-> [value |-> consumer.held[k],
                                       wasUserSet |-> k \in userSet]]
    /\ consumer' = [ConsumerIdle EXCEPT !.pc = "flagOn"]
    /\ UNCHANGED <<redis, files, userSet, lastPersisted, boot, watcher, clients, failures>>

\* Then it installs what it read as the base, unless service mode is on.
Activate ==
    /\ Stepping("capture") /\ consumer.todo = {}
    /\ \/ /\ active
          /\ consumer' = ConsumerIdle
          /\ UNCHANGED <<active, base>>
       \/ /\ ~active
          /\ active' = TRUE
          /\ base' = [k \in OverlayKeys |-> [value |-> consumer.held[k],
                                             wasUserSet |-> k \in userSet]]
          /\ consumer' = [ConsumerIdle EXCEPT !.pc = "flagOn"]
    /\ UNCHANGED <<redis, files, userSet, lastPersisted, boot, watcher, clients, failures>>

\* saveOverlayActive: a failed write is logged and ignored.
SaveMode(on) == \/ modeFile' = on /\ UNCHANGED faults
                \/ /\ faults < MaxFaults /\ faults' = faults + 1
                   /\ modeFile' \in {modeFile, on}

FlagOn ==
    /\ Stepping("flagOn")
    /\ SaveMode(TRUE)
    /\ Then("force", OverlayKeys)
    /\ UNCHANGED <<redis, toml, memory, boot, watcher, clients, crashes>>

ForceField(k) ==
    /\ Stepping("force") /\ k \in consumer.todo
    /\ SetField(k, Forced[k])
    /\ LET todo == consumer.todo \ {k} IN Then(NextOf(todo, "force", "statusOn"), todo)
    /\ UNCHANGED <<status, commands, files, memory, boot, watcher, clients, failures>>

\* The status field is transient and never overlaid: the watcher ignores its name.
Report(on) ==
    /\ status' = on
    /\ UNCHANGED <<hash, channel, commands, files, memory, boot, watcher, clients, failures>>

StatusOn == /\ Stepping("statusOn")
            /\ Report(TRUE)
            /\ consumer' = ConsumerIdle

\* ClearServiceOverlay takes the base out of the service in one lock section.
Unset ==
    /\ Stepping("unset")
    /\ \/ /\ ~active
          /\ consumer' = ConsumerIdle
          /\ UNCHANGED <<active, base, userSet>>
       \/ /\ active
          /\ active' = FALSE /\ base' = NoBase
          /\ userSet' = userSet \union {k \in OverlayKeys : base[k].wasUserSet}
          /\ consumer' = [ConsumerIdle EXCEPT !.pc = "flagOff",
                                              !.held = [k \in OverlayKeys |-> base[k].value]]
    /\ UNCHANGED <<redis, files, lastPersisted, boot, watcher, clients, failures>>

\* overlayRestorePlan: what a captured field returns to; Absent is to drop it.
Restored(k) == IF consumer.held[k] # Absent THEN consumer.held[k] ELSE Default[k]
ToRestore == {k \in OverlayKeys : Restored(k) # Absent}
ToDrop == OverlayKeys \ ToRestore

FlagOff ==
    /\ Stepping("flagOff")
    /\ SaveMode(FALSE)
    /\ Then(NextOf(ToRestore, "restore", "drop"), ToRestore)
    /\ UNCHANGED <<redis, toml, memory, boot, watcher, clients, crashes>>

\* In the order of the names in the code, in any order here.
Restore(k) ==
    /\ Stepping("restore") /\ k \in consumer.todo
    /\ SetField(k, Restored(k))
    /\ LET todo == consumer.todo \ {k} IN Then(NextOf(todo, "restore", "drop"), todo)
    /\ UNCHANGED <<status, commands, files, memory, boot, watcher, clients, failures>>

\* DeleteSettingsFields: one transaction.
Drop ==
    /\ Stepping("drop")
    /\ hash' = [k \in Keys |-> IF k \in ToDrop THEN Absent ELSE hash[k]]
    /\ \E names \in SetToSeqs(ToDrop) : channel' = Published(names)
    /\ Then("statusOff", {})
    /\ UNCHANGED <<status, commands, files, memory, boot, watcher, clients, failures>>

StatusOff == /\ Stepping("statusOff")
             /\ Report(FALSE)
             /\ Then("clearSave", {})

ClearSave == /\ Stepping("clearSave")
             /\ Save
             /\ consumer' = ConsumerIdle
             /\ UNCHANGED <<redis, modeFile, userSet, active, base, boot, watcher, clients, crashes>>

Consumer == \/ TakeCommand \/ Activate \/ FlagOn \/ StatusOn
            \/ Unset \/ FlagOff \/ Drop \/ StatusOff \/ ClearSave
            \/ \E k \in OverlayKeys : Capture(k) \/ ForceField(k) \/ Restore(k)

--------------------------------------------------------------------------------
(* The watcher: one pass of the loop of WatchSettings.                          *)

At(pc) == watcher.pc = pc
Goto(pc) == watcher' = [watcher EXCEPT !.pc = pc]
GotoWith(pc, v) == watcher' = [watcher EXCEPT !.pc = pc, !.value = v]
Rest == watcher' = WatcherIdle

\* The next name; reconcileValidatedSetting reads its value.
Receive ==
    /\ At("idle") /\ channel # <<>>
    /\ channel' = Tail(channel)
    /\ LET k == Head(channel)
       IN watcher' = [WatcherIdle EXCEPT !.key = k,
                                         !.pc = IF IsInvalid(k, hash[k]) THEN "fallback" ELSE "check"]
    /\ UNCHANGED <<hash, status, commands, files, memory, boot, consumer, clients, failures>>

\* Mutant of FallbackFor: what is on file is not considered.
FallbackToSafe(k) == Safe[k]

\* Mutant of FallbackFor: what is on file need not be valid.
FallbackToFile(k) == IF toml[k] \in {Absent, Blank} THEN Safe[k] ELSE toml[k]

\* An empty string counts as no persisted value.
FallbackFor(k) == IF lastPersisted[k] \in {Absent, Blank} THEN Safe[k] ELSE lastPersisted[k]

Fallback ==
    /\ At("fallback")
    /\ LET v == FallbackFor(watcher.key)
       IN IF v = Absent THEN Rest ELSE GotoWith("repair", v)
    /\ UNCHANGED <<redis, files, memory, boot, consumer, clients, failures>>

Repair ==
    /\ At("repair")
    /\ SetField(watcher.key, watcher.value)
    /\ Rest
    /\ UNCHANGED <<status, commands, files, memory, boot, consumer, clients, failures>>

\* isOverlaid and overlayShouldPersist.  What is decided here is acted on later.
Check ==
    /\ At("check")
    /\ IF IsOverlaid(watcher.key) THEN Goto("read")
       ELSE IF watcher.key \in Transient THEN Rest ELSE Goto("mark")
    /\ UNCHANGED <<redis, files, memory, boot, consumer, clients, failures>>

\* Mutant of ReadField: the service's own notification counts as an edit.
ReadFieldAnyEdit ==
    /\ At("read")
    /\ GotoWith("edit", Read(watcher.key))
    /\ UNCHANGED <<redis, files, memory, boot, consumer, clients, failures>>

\* handleOverlaidEdit takes a value other than the forced one for a user's edit.
ReadField ==
    /\ At("read")
    /\ LET v == Read(watcher.key)
       IN IF v = Forced[watcher.key] THEN Rest ELSE GotoWith("edit", v)
    /\ UNCHANGED <<redis, files, memory, boot, consumer, clients, failures>>

Edit ==
    /\ At("edit")
    /\ base' = IF active THEN [base EXCEPT ![watcher.key] = [value |-> watcher.value,
                                                             wasUserSet |-> TRUE]]
               ELSE base
    /\ Goto("markEdit")
    /\ UNCHANGED <<redis, files, userSet, active, lastPersisted, boot, consumer, clients, failures>>

\* markUserSet
MarkKey(from, to) ==
    /\ At(from)
    /\ userSet' = userSet \union {watcher.key}
    /\ Goto(to)
    /\ UNCHANGED <<redis, files, active, base, lastPersisted, boot, consumer, clients, failures>>

MarkEdit == MarkKey("markEdit", "saveEdit")

\* Mutant of Mark: a field that is the user's already is not saved again.
MarkOnce == IF watcher.key \notin userSet THEN MarkKey("mark", "save")
            ELSE /\ At("mark") /\ Rest
                 /\ UNCHANGED <<redis, files, memory, boot, consumer, clients, failures>>

Mark == MarkKey("mark", "save")

SaveNow == /\ Save
           /\ UNCHANGED <<redis, modeFile, userSet, active, base, boot, consumer, clients, crashes>>

SaveEdit == At("saveEdit") /\ SaveNow /\ Goto("reassert")
SaveMark == At("save") /\ SaveNow /\ Rest

Reassert ==
    /\ At("reassert")
    /\ SetField(watcher.key, Forced[watcher.key])
    /\ Rest
    /\ UNCHANGED <<status, commands, files, memory, boot, consumer, clients, failures>>

Watcher == \/ Receive \/ Fallback \/ Repair \/ Check
           \/ ReadField \/ Edit \/ MarkEdit \/ SaveEdit \/ Reassert
           \/ Mark \/ SaveMark

--------------------------------------------------------------------------------
(* Clients, crashes, reboots.                                                   *)

\* The service has done all it was asked to do ...
AtRest == /\ boot = "up" /\ At("idle") /\ Stepping("idle")
          /\ channel = <<>> /\ commands = <<>>
\* ... and clients have told it of all they wrote.
Quiescent == AtRest /\ unpublished = {}

Subscribed == watcher.pc # "off"

\* "A writer must update the hash and notify": two commands.
ClientSet(k) ==
    /\ edits < MaxEdits
    /\ IF EarlyEdits THEN boot = "up" ELSE Subscribed
    /\ \E v \in EditValues[k] : hash' = [hash EXCEPT ![k] = v]
    /\ unpublished' = unpublished \union {k}
    /\ edits' = edits + 1
    /\ UNCHANGED <<status, channel, commands, files, memory, boot, watcher, consumer, sent, failures>>

ClientPublish(k) ==
    /\ k \in unpublished
    /\ unpublished' = unpublished \ {k}
    /\ channel' = Published(<<k>>)
    /\ UNCHANGED <<hash, status, commands, files, memory, boot, watcher, consumer, edits, sent, failures>>

ClientCommand(c) ==
    /\ sent < MaxCommands
    /\ Patient => Quiescent
    /\ sent' = sent + 1
    /\ commands' = Append(commands, c)
    /\ UNCHANGED <<hash, status, channel, files, memory, boot, watcher, consumer, unpublished, edits, failures>>

Client == \/ \E k \in Keys : ClientSet(k) \/ ClientPublish(k)
          \/ \E c \in {"apply", "clear"} : ClientCommand(c)

Stop == /\ crashes < MaxCrashes
        /\ crashes' = crashes + 1
        /\ boot' = "down"
        /\ userSet' = {} /\ active' = FALSE /\ base' = NoBase /\ lastPersisted' = NoFields
        /\ channel' = <<>>
        /\ watcher' = WatcherOff /\ consumer' = ConsumerIdle

\* The process dies: Redis and the files stay, the subscription ends.
Crash == /\ boot # "down"
         /\ Stop
         /\ UNCHANGED <<hash, status, commands, files, clients, faults>>

\* The vehicle reboots: Redis is lost as well.
Reboot == /\ Stop
          /\ hash' = NoFields /\ status' = FALSE /\ commands' = <<>>
          /\ unpublished' = {}
          /\ UNCHANGED <<files, edits, sent, faults>>

\* Both goroutines block, one on the subscription and one on BRPOP.  Nothing
\* else may keep the service from going on.
Wait == AtRest /\ UNCHANGED vars

Boot == Load \/ Rewrite \/ Reapply \/ Reapplied \/ Subscribe

Next == Boot \/ Watcher \/ Consumer \/ Client \/ Wait \/ Crash \/ Reboot

Spec == Init /\ [][Next]_vars

\* The Go scheduler runs every goroutine that can go on; a service that died is
\* started again by the unit it is deployed in.  Nothing is asked of the clients.
FairSpec == Spec /\ WF_vars(Boot) /\ WF_vars(Watcher) /\ WF_vars(Consumer)

--------------------------------------------------------------------------------
(* Properties.                                                                  *)

WatcherSteps == {"off", "idle", "check", "fallback", "repair", "read", "edit",
                 "markEdit", "saveEdit", "reassert", "mark", "save"}
ConsumerSteps == {"idle", "capture", "flagOn", "force", "statusOn",
                  "unset", "flagOff", "restore", "drop", "statusOff", "clearSave"}

\* Every variable has its type.
TypeOK == /\ hash \in Files /\ status \in BOOLEAN
          /\ channel \in Seq(Keys) /\ commands \in Seq({"apply", "clear"})
          /\ toml \in Files /\ modeFile \in BOOLEAN
          /\ userSet \subseteq Keys /\ active \in BOOLEAN
          /\ base \in Base /\ lastPersisted \in Files
          /\ boot \in {"down", "rewrite", "reapply", "applying", "up"}
          /\ watcher \in [pc : WatcherSteps, key : Keys, value : Values]
          /\ consumer \in [pc : ConsumerSteps, todo : SUBSET OverlayKeys,
                           held : [OverlayKeys -> Entry]]
          /\ unpublished \subseteq Keys
          /\ edits \in 0..MaxEdits /\ sent \in 0..MaxCommands
          /\ faults \in 0..MaxFaults /\ crashes \in 0..MaxCrashes

\* Service mode is all or nothing once the service is at rest: the status field
\* tells the dashboard the truth, every forced setting is in force while it is on,
\* and the file that brings it back after a crash or a reboot agrees.
ModeIsWhole == Quiescent =>
    /\ status = active
    /\ active => \A k \in OverlayKeys : hash[k] = Forced[k]
    /\ faults = 0 => modeFile = active

\* The file catches up with the hash: once the service is at rest, every setting
\* in use is on file exactly if it is a user's choice, and then with the value in
\* use, whatever the two goroutines saved in between.  (Runs without invalid values:
\* one captured as the base of a forced setting has every save refused, and a
\* save that was refused is not repeated once the value is gone.)
FileFollowsHash == Quiescent /\ faults = 0 =>
    \A k \in Keys : ~IsOverlaid(k) => toml[k] = IF k \in userSet THEN hash[k] ELSE Absent

\* Service mode has ended, and k still has the forced value.
Unrestored(k) == \/ Stepping("flagOff")
                 \/ Stepping("restore") /\ k \in consumer.todo

\* A choice on file is replaced by what a client writes, and in one other way.  While
\* service mode ends, a save of another setting may come before the field is restored
\* and write the forced value over the choice, although "neither runtime-only
\* settings nor forced overlay values may reach TOML" (overlayShouldPersist); the
\* choice comes back with a later save, but never if the process dies first.  Nothing else costs a user a choice: not entering service mode, not any
\* other step of leaving it, no failed write, no crash and no boot from an empty
\* Redis.  (Patient clients that leave the forced settings alone, no invalid values.)
ChoicesOnFile ==
    [][\A k \in Keys \ Transient :
         /\ toml[k] # Absent /\ toml'[k] # toml[k]
         /\ k \in OverlayKeys => InitToml[k] # Absent /\ EditValues[k] = {}
         => \/ toml'[k] \in EditValues[k]
            \/ /\ k \in OverlayKeys
               /\ \/ Unrestored(k) /\ toml'[k] = Forced[k]
                  \/ toml[k] = Forced[k] /\ toml'[k] = InitToml[k]]_vars

\* What the hash holds after the first Load.
Initially(k) == IF InitToml[k] # Absent THEN InitToml[k] ELSE Default[k]

\* However often service mode is entered and left, each command given once or
\* twice, leaving it restores the forced settings and the user's choices among
\* them, whatever other setting is edited or failed write falls in between.
\* (Patient clients: the run of ForcedNotAfterClear shows what becomes of it
\* otherwise.  A crash between the end of the overlay and the restore leaves forced
\* values behind, which a save in between has put on file.)
RoundTrip == Quiescent /\ ~active /\ crashes = 0 =>
    \A k \in OverlayKeys :
        EditValues[k] = {} => /\ hash[k] = Initially(k)
                              /\ InitToml[k] # Absent /\ faults = 0 => toml[k] = InitToml[k]

\* An invalid value does not stay: once the service is at rest, every setting
\* for which a safe value is known is valid.
InvalidNeverSettles ==
    Quiescent => \A k \in Keys : Safe[k] # Absent => ~IsInvalid(k, hash[k])

\* Rejecting a value never costs the user the choice on file: a sound one is
\* only ever replaced by a value somebody wrote.
ReplacedOnlyByEdits ==
    [][\A k \in Keys \ Transient :
         faults = 0 /\ toml[k] # Absent /\ ~IsInvalid(k, toml[k]) /\ toml'[k] # toml[k]
           => toml'[k] \in EditValues[k]]_vars

\* The watcher reacts to its own notifications too, yet the service comes to
\* rest once clients stop: repairs and reassertions do not answer each other
\* for ever, and no crash leaves a command or a boot half done.
Settles == <>[]AtRest

\* "... so no forced setting survives service mode" (ClearServiceOverlay); in
\* runs in which no user chose the forced value.
ForcedNotAfterClear == Quiescent /\ ~active => \A k \in OverlayKeys : hash[k] # Forced[k]

\* The service "persists user changes received through Redis" (README): once it
\* is at rest, a value in use that is not the default is on file, whether it came
\* by an edit or by a repair.
EditsPersisted == Quiescent /\ faults = 0 => \A k \in Keys :
    k \notin Transient /\ ~IsOverlaid(k) /\ hash[k] \notin {Absent, Default[k]} => toml[k] = hash[k]
================================================================================
