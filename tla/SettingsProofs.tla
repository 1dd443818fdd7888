---------------------------- MODULE SettingsProofs ----------------------------
(* Proofs about SettingsService, for any settings, any overlay, any number of   *)
(* edits, commands, faults and crashes: types, then what the service promises   *)
(* once it is at rest: service mode is whole, no invalid value stays.           *)
EXTENDS SettingsService, FiniteSetTheorems, TLAPS

\* The watcher treats as forced only what service mode forces: a name it found
\* overlaid stays one of the forced settings, even when the overlay is gone.
WatchesOverlaid ==
    watcher.pc \in {"read", "edit", "markEdit", "saveEdit", "reassert"}
        => watcher.key \in OverlayKeys

TypeInv == TypeOK /\ WatchesOverlaid

\* A watcher that rests has the type of a watcher.
LEMMA WatcherConstants ==
    /\ WatcherIdle \in [pc : WatcherSteps, key : Keys, value : Values]
    /\ WatcherOff \in [pc : WatcherSteps, key : Keys, value : Values]
    /\ WatcherIdle.pc = "idle" /\ WatcherOff.pc = "off"
<1>1. (CHOOSE k \in Keys : TRUE) \in Keys
  BY KeysAssumption
<1> QED
  BY <1>1, ValuesAssumption DEF WatcherIdle, WatcherOff, WatcherSteps

\* So have the overlay consumer at rest and the empty tables.
LEMMA OtherConstants ==
    /\ ConsumerIdle \in [pc : ConsumerSteps, todo : SUBSET OverlayKeys,
                         held : [OverlayKeys -> Entry]]
    /\ NoFields \in Files /\ NoBase \in Base
BY DEF ConsumerIdle, ConsumerSteps, NoHeld, NoFields, NoBase, Base, Files, Entry

\* An enumeration of a finite set is a sequence of its elements.
LEMMA EnumerationType ==
    ASSUME NEW S \in SUBSET Keys, NEW s \in SetToSeqs(S)
    PROVE  s \in Seq(Keys)
<1>1. IsFiniteSet(S)
  BY KeysAssumption, FS_Subset
<1>2. Cardinality(S) \in Nat
  BY <1>1, FS_CardinalityType
<1>3. s \in [1..Cardinality(S) -> S]
  BY DEF SetToSeqs
<1>4. s \in [1..Cardinality(S) -> Keys]
  BY <1>3
<1> QED
  BY <1>2, <1>4

\* Publishing names leaves a channel of names.
LEMMA PublishedType ==
    ASSUME channel \in Seq(Keys), NEW names \in Seq(Keys)
    PROVE  Published(names) \in Seq(Keys)
BY DEF Published

LEMMA SetFieldType ==
    ASSUME TypeOK, NEW k \in Keys, NEW v \in Entry, SetField(k, v)
    PROVE  hash' \in Files /\ channel' \in Seq(Keys)
<1>1. <<k>> \in Seq(Keys)
  OBVIOUS
<1>2. Published(<<k>>) \in Seq(Keys)
  BY <1>1, PublishedType DEF TypeOK
<1> QED
  BY <1>2 DEF SetField, TypeOK, Files

\* What a save writes has the type of the file.
LEMMA SaveType ==
    ASSUME TypeOK, Save
    PROVE  toml' \in Files /\ lastPersisted' \in Files /\ faults' \in 0..MaxFaults
<1>1. Persisted \in Files
  <2> SUFFICES ASSUME NEW k \in Keys
               PROVE  (IF k \notin userSet THEN Absent
                       ELSE IF IsOverlaid(k) THEN base[k].value ELSE hash[k]) \in Entry
    BY DEF Persisted, Files
  <2>1. Absent \in Entry
    BY DEF Entry
  <2>2. IsOverlaid(k) => base[k].value \in Entry
    BY DEF IsOverlaid, TypeOK, Base
  <2>3. hash[k] \in Entry
    BY DEF TypeOK, Files
  <2> QED
    BY <2>1, <2>2, <2>3
<1>2. faults + 1 \in 0..MaxFaults \/ ~(faults < MaxFaults)
  BY BoundsAssumption DEF TypeOK
<1> QED
  BY <1>1, <1>2 DEF Save, TypeOK

LEMMA SaveModeType ==
    ASSUME TypeOK, NEW on \in BOOLEAN, SaveMode(on)
    PROVE  modeFile' \in BOOLEAN /\ faults' \in 0..MaxFaults
<1>1. faults + 1 \in 0..MaxFaults \/ ~(faults < MaxFaults)
  BY BoundsAssumption DEF TypeOK
<1> QED
  BY <1>1 DEF SaveMode, TypeOK

\* The initial state has the types.
LEMMA InitType == Init => TypeInv
<1> SUFFICES ASSUME Init PROVE TypeInv
  OBVIOUS
<1>1. hash \in Files /\ toml \in Files /\ lastPersisted \in Files /\ base \in Base
  BY OtherConstants, EnvironmentAssumption DEF Init
<1>2. /\ watcher \in [pc : WatcherSteps, key : Keys, value : Values]
      /\ consumer \in [pc : ConsumerSteps, todo : SUBSET OverlayKeys,
                       held : [OverlayKeys -> Entry]]
      /\ watcher.pc = "off"
  BY WatcherConstants, OtherConstants DEF Init
<1>3. channel \in Seq(Keys) /\ commands \in Seq({"apply", "clear"})
  BY DEF Init
<1>4. /\ edits \in 0..MaxEdits /\ sent \in 0..MaxCommands
      /\ faults \in 0..MaxFaults /\ crashes \in 0..MaxCrashes
  BY BoundsAssumption DEF Init
<1>5. /\ status \in BOOLEAN /\ modeFile \in BOOLEAN /\ active \in BOOLEAN
      /\ userSet \subseteq Keys /\ unpublished \subseteq Keys
      /\ boot \in {"down", "rewrite", "reapply", "applying", "up"}
  BY DEF Init
<1> QED
  BY <1>1, <1>2, <1>3, <1>4, <1>5 DEF TypeInv, TypeOK, WatchesOverlaid

\* Loading the file keeps the types, whatever the defaults are.
LEMMA LoadType ==
    ASSUME TypeInv, NEW default \in Files, LoadWith(default)
    PROVE  TypeInv'
<1> USE DEF TypeInv
<1>1. \A k \in Keys : Loaded(k) \in Entry /\ default[k] \in Entry /\ hash[k] \in Entry
  BY SchemaAssumption DEF Loaded, TypeOK, Files, Entry
<1>2. hash' \in Files
  BY <1>1 DEF LoadWith, Files, Entry
<1>3. Snapshot \in Files
  BY <1>1, OtherConstants DEF Snapshot, Files
<1>4. userSet' \subseteq Keys /\ boot' \in {"rewrite", "reapply"} /\ status' = FALSE
  BY DEF LoadWith
<1> QED
  BY <1>2, <1>3, <1>4 DEF LoadWith, TypeOK, WatchesOverlaid, files, clients, failures

\* Starting the service keeps the types.
LEMMA BootType == TypeInv /\ Boot => TypeInv'
<1> SUFFICES ASSUME TypeInv, Boot PROVE TypeInv'
  OBVIOUS
<1> USE DEF TypeInv
<1>1. CASE Load
  BY <1>1, SchemaAssumption, LoadType DEF Load
<1>2. CASE Rewrite
  <2>1. Save
    BY <1>2 DEF Rewrite
  <2>2. toml' \in Files /\ lastPersisted' \in Files /\ faults' \in 0..MaxFaults
    BY <2>1, SaveType
  <2> QED
    BY <1>2, <2>2 DEF Rewrite, TypeOK, WatchesOverlaid, redis, clients
<1>3. CASE Reapply
  <2>1. [ConsumerIdle EXCEPT !.pc = "capture", !.todo = OverlayKeys]
            \in [pc : ConsumerSteps, todo : SUBSET OverlayKeys, held : [OverlayKeys -> Entry]]
    BY OtherConstants DEF ConsumerSteps
  <2> QED
    BY <1>3, <2>1
       DEF Reapply, TypeOK, WatchesOverlaid, redis, files, memory, clients, failures
<1>4. CASE Reapplied
  BY <1>4 DEF Reapplied, TypeOK, WatchesOverlaid, redis, files, memory, clients, failures
<1>5. CASE Subscribe
  BY <1>5, WatcherConstants
     DEF Subscribe, TypeOK, WatchesOverlaid, redis, files, memory, clients, failures
<1> QED
  BY <1>1, <1>2, <1>3, <1>4, <1>5 DEF Boot

\* The steps of the overlay consumer keep the types.
LEMMA ConsumerType == TypeInv /\ Consumer => TypeInv'
<1> SUFFICES ASSUME TypeInv, Consumer PROVE TypeInv'
  OBVIOUS
<1> USE DEF TypeInv
<1>0. /\ ConsumerIdle \in [pc : ConsumerSteps, todo : SUBSET OverlayKeys,
                           held : [OverlayKeys -> Entry]]
      /\ OverlayKeys \subseteq Keys /\ \A k \in OverlayKeys : Forced[k] \in Entry
  BY OtherConstants, OverlayAssumption DEF Entry
<1>1. CASE TakeCommand
  <2>1. commands' \in Seq({"apply", "clear"})
    BY <1>1 DEF TakeCommand, TypeOK
  <2>2. consumer' \in [pc : ConsumerSteps, todo : SUBSET OverlayKeys,
                       held : [OverlayKeys -> Entry]]
    BY <1>1 DEF TakeCommand, Then, TypeOK, ConsumerSteps
  <2> QED
    BY <1>1, <2>1, <2>2
       DEF TakeCommand, TypeOK, WatchesOverlaid, files, memory, clients, failures
<1>2. CASE Activate
  <2>0. [k \in OverlayKeys |-> [value |-> consumer.held[k], wasUserSet |-> k \in userSet]]
            \in Base
    <3>1. \A k \in OverlayKeys : consumer.held[k] \in Entry
      BY DEF TypeOK
    <3>2. \A k \in OverlayKeys : (k \in userSet) \in BOOLEAN
      OBVIOUS
    <3> QED
      BY <3>1, <3>2 DEF Base
  <2>1. base' \in Base /\ active' \in BOOLEAN
    BY <1>2, <2>0 DEF Activate, TypeOK
  <2>2. consumer' \in [pc : ConsumerSteps, todo : SUBSET OverlayKeys,
                       held : [OverlayKeys -> Entry]]
    BY <1>2, <1>0 DEF Activate, ConsumerSteps
  <2> QED
    BY <1>2, <2>1, <2>2
       DEF Activate, TypeOK, WatchesOverlaid, redis, files, clients, failures
<1>3. CASE FlagOn
  <2>1. modeFile' \in BOOLEAN /\ faults' \in 0..MaxFaults
    BY <1>3, SaveModeType DEF FlagOn
  <2> QED
    BY <1>3, <2>1
       DEF FlagOn, Then, ConsumerSteps, TypeOK, WatchesOverlaid, redis, memory, clients
<1>4. CASE StatusOn
  BY <1>4, <1>0
     DEF StatusOn, Report, TypeOK, WatchesOverlaid, files, memory, clients, failures
<1>5. CASE Unset
  <2>1. [k \in OverlayKeys |-> base[k].value] \in [OverlayKeys -> Entry]
    BY DEF TypeOK, Base
  <2>2. consumer' \in [pc : ConsumerSteps, todo : SUBSET OverlayKeys,
                       held : [OverlayKeys -> Entry]]
    BY <1>5, <1>0, <2>1 DEF Unset, ConsumerSteps
  <2>3. userSet' \subseteq Keys /\ active' \in BOOLEAN /\ base' \in Base
    BY <1>5, <1>0, OtherConstants DEF Unset, TypeOK
  <2> QED
    BY <1>5, <2>2, <2>3
       DEF Unset, TypeOK, WatchesOverlaid, redis, files, clients, failures
<1>6. CASE FlagOff
  <2>1. modeFile' \in BOOLEAN /\ faults' \in 0..MaxFaults
    BY <1>6, SaveModeType DEF FlagOff
  <2> QED
    BY <1>6, <2>1 DEF FlagOff, Then, NextOf, ToRestore, ConsumerSteps, TypeOK,
                      WatchesOverlaid, redis, memory, clients
<1>7. CASE Drop
  <2>1. hash' \in Files
    BY <1>7 DEF Drop, TypeOK, Files, Entry
  <2>2. channel' \in Seq(Keys)
    <3>1. ToDrop \in SUBSET Keys
      BY <1>0 DEF ToDrop
    <3>2. PICK names \in SetToSeqs(ToDrop) : channel' = Published(names)
      BY <1>7 DEF Drop
    <3>3. names \in Seq(Keys)
      BY <3>1, EnumerationType
    <3> QED
      BY <3>2, <3>3, PublishedType DEF TypeOK
  <2> QED
    BY <1>7, <2>1, <2>2
       DEF Drop, Then, ConsumerSteps, TypeOK, WatchesOverlaid, files, memory, clients, failures
<1>8. CASE StatusOff
  BY <1>8 DEF StatusOff, Report, Then, ConsumerSteps, TypeOK, WatchesOverlaid,
              files, memory, clients, failures
<1>9. CASE ClearSave
  <2>1. toml' \in Files /\ lastPersisted' \in Files /\ faults' \in 0..MaxFaults
    BY <1>9, SaveType DEF ClearSave
  <2> QED
    BY <1>9, <1>0, <2>1 DEF ClearSave, TypeOK, WatchesOverlaid, redis, clients
<1>10. ASSUME NEW k \in OverlayKeys, Capture(k)
       PROVE  TypeInv'
  <2>1. hash[k] \in Entry
    BY <1>0 DEF TypeOK, Files
  <2>2. consumer' \in [pc : ConsumerSteps, todo : SUBSET OverlayKeys,
                       held : [OverlayKeys -> Entry]]
    BY <1>10, <2>1 DEF Capture, TypeOK
  <2> QED
    BY <1>10, <2>2
       DEF Capture, TypeOK, WatchesOverlaid, redis, files, memory, clients, failures
<1>11. ASSUME NEW k \in OverlayKeys, ForceField(k)
       PROVE  TypeInv'
  <2>1. SetField(k, Forced[k])
    BY <1>11 DEF ForceField
  <2>2. hash' \in Files /\ channel' \in Seq(Keys)
    BY <1>0, <2>1, SetFieldType
  <2> QED
    BY <1>11, <2>2 DEF ForceField, Then, NextOf, ConsumerSteps, TypeOK, WatchesOverlaid,
                       files, memory, clients, failures
<1>12. ASSUME NEW k \in OverlayKeys, Restore(k)
       PROVE  TypeInv'
  <2>1. SetField(k, Restored(k))
    BY <1>12 DEF Restore
  <2>2. Restored(k) \in Entry
    BY <1>0, SchemaAssumption DEF Restored, TypeOK, Files
  <2>3. hash' \in Files /\ channel' \in Seq(Keys)
    BY <1>0, <2>1, <2>2, SetFieldType
  <2> QED
    BY <1>12, <2>3 DEF Restore, Then, NextOf, ConsumerSteps, TypeOK, WatchesOverlaid,
                       files, memory, clients, failures
<1> QED
  BY <1>1, <1>2, <1>3, <1>4, <1>5, <1>6, <1>7, <1>8, <1>9, <1>10, <1>11, <1>12
     DEF Consumer

\* The steps of the watcher keep the types.
LEMMA WatcherType == TypeInv /\ Watcher => TypeInv'
<1> SUFFICES ASSUME TypeInv, Watcher PROVE TypeInv'
  OBVIOUS
<1> USE DEF TypeInv
<1>0. /\ WatcherIdle \in [pc : WatcherSteps, key : Keys, value : Values]
      /\ WatcherIdle.pc = "idle"
      /\ watcher \in [pc : WatcherSteps, key : Keys, value : Values]
  BY WatcherConstants DEF TypeOK
<1>1. CASE Receive
  <2>1. channel # <<>> /\ channel' = Tail(channel)
    BY <1>1 DEF Receive
  <2>2. Head(channel) \in Keys /\ channel' \in Seq(Keys)
    BY <2>1 DEF TypeOK
  <2>3. PICK pc \in {"fallback", "check"} :
          watcher' = [WatcherIdle EXCEPT !.key = Head(channel), !.pc = pc]
    BY <1>1 DEF Receive
  <2>4. /\ watcher' \in [pc : WatcherSteps, key : Keys, value : Values]
        /\ watcher'.pc \in {"fallback", "check"}
    BY <1>0, <2>2, <2>3 DEF WatcherSteps
  <2> QED
    BY <1>1, <2>2, <2>4
       DEF Receive, TypeOK, WatchesOverlaid, files, memory, clients, failures
<1>2. CASE Fallback
  <2>1. FallbackFor(watcher.key) \in Entry
    BY <1>0, SchemaAssumption DEF FallbackFor, TypeOK, Files
  <2>2. /\ watcher' \in [pc : WatcherSteps, key : Keys, value : Values]
        /\ watcher'.pc \in {"idle", "repair"}
    BY <1>0, <1>2, <2>1 DEF Fallback, Rest, GotoWith, WatcherSteps, Entry
  <2> QED
    BY <1>2, <2>2
       DEF Fallback, TypeOK, WatchesOverlaid, redis, files, memory, clients, failures
<1>3. CASE Repair
  <2>1. hash' \in Files /\ channel' \in Seq(Keys)
    BY <1>0, <1>3, SetFieldType DEF Repair, Entry
  <2> QED
    BY <1>0, <1>3, <2>1
       DEF Repair, Rest, TypeOK, WatchesOverlaid, files, memory, clients, failures
<1>4. CASE Check
  <2>1. watcher' \in [pc : WatcherSteps, key : Keys, value : Values]
    BY <1>0, <1>4 DEF Check, Goto, Rest, WatcherSteps
  <2>2. WatchesOverlaid'
    BY <1>0, <1>4 DEF Check, Goto, Rest, WatchesOverlaid, IsOverlaid
  <2> QED
    BY <1>4, <2>1, <2>2 DEF Check, TypeOK, redis, files, memory, clients, failures
<1>5. CASE ReadField
  <2>1. Read(watcher.key) \in Values
    BY <1>0, ValuesAssumption DEF Read, TypeOK, Files, Entry
  <2>2. watcher' \in [pc : WatcherSteps, key : Keys, value : Values]
    BY <1>0, <1>5, <2>1 DEF ReadField, GotoWith, Rest, WatcherSteps
  <2>3. WatchesOverlaid'
    BY <1>0, <1>5 DEF ReadField, At, GotoWith, Rest, WatchesOverlaid
  <2> QED
    BY <1>5, <2>2, <2>3 DEF ReadField, TypeOK, redis, files, memory, clients, failures
<1>6. CASE Edit
  <2>1. [value |-> watcher.value, wasUserSet |-> TRUE] \in [value : Entry, wasUserSet : BOOLEAN]
    BY <1>0 DEF Entry
  <2>2. base' \in Base
    BY <1>6, <2>1 DEF Edit, TypeOK, Base
  <2>3. /\ watcher' \in [pc : WatcherSteps, key : Keys, value : Values]
        /\ WatchesOverlaid'
    BY <1>0, <1>6 DEF Edit, At, Goto, WatcherSteps, WatchesOverlaid
  <2> QED
    BY <1>6, <2>2, <2>3 DEF Edit, TypeOK, redis, files, clients, failures
<1>7. CASE MarkEdit
  <2>1. /\ watcher' \in [pc : WatcherSteps, key : Keys, value : Values]
        /\ WatchesOverlaid' /\ userSet' \subseteq Keys
    BY <1>0, <1>7 DEF MarkEdit, MarkKey, At, Goto, WatcherSteps, WatchesOverlaid, TypeOK
  <2> QED
    BY <1>7, <2>1 DEF MarkEdit, MarkKey, TypeOK, redis, files, clients, failures
<1>8. CASE Mark
  <2>1. /\ watcher' \in [pc : WatcherSteps, key : Keys, value : Values]
        /\ WatchesOverlaid' /\ userSet' \subseteq Keys
    BY <1>0, <1>8 DEF Mark, MarkKey, At, Goto, WatcherSteps, WatchesOverlaid, TypeOK
  <2> QED
    BY <1>8, <2>1 DEF Mark, MarkKey, TypeOK, redis, files, clients, failures
<1>9. CASE SaveEdit
  <2>1. toml' \in Files /\ lastPersisted' \in Files /\ faults' \in 0..MaxFaults
    BY <1>9, SaveType DEF SaveEdit, SaveNow
  <2>2. /\ watcher' \in [pc : WatcherSteps, key : Keys, value : Values]
        /\ WatchesOverlaid'
    BY <1>0, <1>9 DEF SaveEdit, At, Goto, WatcherSteps, WatchesOverlaid
  <2> QED
    BY <1>9, <2>1, <2>2 DEF SaveEdit, SaveNow, TypeOK, redis, clients
<1>10. CASE SaveMark
  <2>1. toml' \in Files /\ lastPersisted' \in Files /\ faults' \in 0..MaxFaults
    BY <1>10, SaveType DEF SaveMark, SaveNow
  <2> QED
    BY <1>0, <1>10, <2>1 DEF SaveMark, SaveNow, Rest, TypeOK, WatchesOverlaid, redis, clients
<1>11. CASE Reassert
  <2>1. watcher.key \in OverlayKeys
    BY <1>11 DEF Reassert, At, WatchesOverlaid
  <2>2. Forced[watcher.key] \in Entry
    BY <2>1, OverlayAssumption DEF Entry
  <2>3. hash' \in Files /\ channel' \in Seq(Keys)
    BY <1>0, <1>11, <2>2, SetFieldType DEF Reassert
  <2> QED
    BY <1>0, <1>11, <2>3
       DEF Reassert, Rest, TypeOK, WatchesOverlaid, files, memory, clients, failures
<1> QED
  BY <1>1, <1>2, <1>3, <1>4, <1>5, <1>6, <1>7, <1>8, <1>9, <1>10, <1>11 DEF Watcher

\* What clients do, a crash and a reboot keep the types.
LEMMA EnvironmentType == TypeInv /\ (Client \/ Crash \/ Reboot) => TypeInv'
<1> SUFFICES ASSUME TypeInv, Client \/ Crash \/ Reboot PROVE TypeInv'
  OBVIOUS
<1> USE DEF TypeInv
<1>1. ASSUME NEW k \in Keys, ClientSet(k)
      PROVE  TypeInv'
  <2>1. PICK v \in EditValues[k] : hash' = [hash EXCEPT ![k] = v]
    BY <1>1 DEF ClientSet
  <2>2. v \in Entry
    BY EnvironmentAssumption DEF Entry
  <2>3. hash' \in Files
    BY <2>1, <2>2 DEF TypeOK, Files
  <2>4. edits' \in 0..MaxEdits
    BY <1>1, BoundsAssumption DEF ClientSet, TypeOK
  <2> QED
    BY <1>1, <2>3, <2>4 DEF ClientSet, TypeOK, WatchesOverlaid, files, memory, failures
<1>2. ASSUME NEW k \in Keys, ClientPublish(k)
      PROVE  TypeInv'
  <2>1. <<k>> \in Seq(Keys)
    OBVIOUS
  <2>2. channel' \in Seq(Keys)
    BY <1>2, <2>1, PublishedType DEF ClientPublish, TypeOK
  <2> QED
    BY <1>2, <2>2 DEF ClientPublish, TypeOK, WatchesOverlaid, files, memory, failures
<1>3. ASSUME NEW c \in {"apply", "clear"}, ClientCommand(c)
      PROVE  TypeInv'
  <2>1. commands' \in Seq({"apply", "clear"}) /\ sent' \in 0..MaxCommands
    BY <1>3, BoundsAssumption DEF ClientCommand, TypeOK
  <2> QED
    BY <1>3, <2>1 DEF ClientCommand, TypeOK, WatchesOverlaid, files, memory, failures
<1>4. ASSUME Stop
      PROVE  /\ boot' = "down" /\ userSet' \subseteq Keys /\ active' = FALSE
             /\ base' \in Base /\ lastPersisted' \in Files /\ channel' \in Seq(Keys)
             /\ watcher' \in [pc : WatcherSteps, key : Keys, value : Values]
             /\ consumer' \in [pc : ConsumerSteps, todo : SUBSET OverlayKeys,
                               held : [OverlayKeys -> Entry]]
             /\ watcher'.pc = "off" /\ crashes' \in 0..MaxCrashes
  <2>1. crashes' \in 0..MaxCrashes
    BY <1>4, BoundsAssumption DEF Stop, TypeOK
  <2> QED
    BY <1>4, <2>1, WatcherConstants, OtherConstants DEF Stop
<1>5. CASE Crash
  BY <1>4, <1>5 DEF Crash, TypeOK, WatchesOverlaid, files, clients
<1>6. CASE Reboot
  <2>1. Stop /\ hash' \in Files /\ commands' \in Seq({"apply", "clear"}) /\ unpublished' \subseteq Keys
    BY <1>6, OtherConstants DEF Reboot
  <2> QED
    BY <1>4, <1>6, <2>1 DEF Reboot, TypeOK, WatchesOverlaid, files
<1> QED
  BY <1>1, <1>2, <1>3, <1>5, <1>6 DEF Client

\* Every step keeps the types.
LEMMA NextType == TypeInv /\ [Next]_vars => TypeInv'
<1> SUFFICES ASSUME TypeInv, [Next]_vars PROVE TypeInv'
  OBVIOUS
<1>1. CASE Boot
  BY <1>1, BootType
<1>2. CASE Watcher
  BY <1>2, WatcherType
<1>3. CASE Consumer
  BY <1>3, ConsumerType
<1>4. CASE Client \/ Crash \/ Reboot
  BY <1>4, EnvironmentType
<1>5. CASE UNCHANGED vars
  BY <1>5 DEF TypeInv, TypeOK, WatchesOverlaid, vars, redis, files, memory, clients, failures
<1>6. CASE Wait
  BY <1>5, <1>6 DEF Wait
<1> QED
  BY <1>1, <1>2, <1>3, <1>4, <1>5, <1>6 DEF Next

\* Every variable of the settings service keeps its type.  The invariant needs the
\* watcher's stale decisions to stay within what service mode forces.
THEOREM SettingsTypeCorrect == Spec => []TypeOK
<1>1. Init => TypeInv
  BY InitType
<1>2. TypeInv /\ [Next]_vars => TypeInv'
  BY NextType
<1>3. TypeInv => TypeOK
  BY DEF TypeInv
<1> QED
  BY <1>1, <1>2, <1>3, PTL DEF Spec

--------------------------------------------------------------------------------
(* What is promised once the service is at rest.  Each promise is owed, while    *)
(* the service is at work, to somebody: a field that is not what it should be    *)
(* has a client about to publish its name, the name in the channel, the watcher  *)
(* on its way, or the consumer.                                                  *)

InChannel(k) == \E i \in 1..Len(channel) : channel[i] = k

\* The watcher will hear of k, or is at k and at one of these steps.
Noticed(k, steps) == /\ Subscribed
                     /\ \/ k \in unpublished
                        \/ InChannel(k)
                        \/ watcher.key = k /\ watcher.pc \in steps

Entering == {"flagOn", "force", "statusOn"}
Leaving == {"flagOff", "restore", "drop", "statusOff"}
Repairs == {"fallback", "repair"}

\* How far main, the consumer and the watcher are, seen from each other.
Phases ==
    /\ boot \in {"down", "rewrite", "reapply"} => ~active /\ consumer = ConsumerIdle
    /\ boot = "applying" => /\ consumer.pc \in {"idle", "capture"} \union Entering
                            /\ consumer.pc = "idle" => active
                            /\ consumer.pc = "capture" => ~active
    /\ Subscribed => boot = "up"
    /\ consumer.pc \in Entering => active
    /\ consumer.pc \in Leaving \union {"clearSave"} => ~active

--------------------------------------------------------------------------------
(* The channel.                                                                 *)

\* A subscribed watcher hears of every name that is published; and what is in the
\* channel stays there.
LEMMA PublishedNames ==
    ASSUME channel \in Seq(Keys), NEW names \in Seq(Keys), channel' = Published(names)
    PROVE  /\ \A k \in Keys : InChannel(k) => InChannel(k)'
           /\ Subscribed => \A i \in 1..Len(names) : InChannel(names[i])'
<1>1. CASE watcher.pc = "off"
  BY <1>1 DEF Published, InChannel, Subscribed
<1>2. CASE watcher.pc # "off"
  <2>1. channel' = channel \o names
    BY <1>2 DEF Published
  <2>2. Len(channel') = Len(channel) + Len(names)
    BY <2>1
  <2>3. \A i \in 1..Len(channel) : i \in 1..Len(channel') /\ channel'[i] = channel[i]
    BY <2>1, <2>2
  <2>4. \A i \in 1..Len(names) : /\ Len(channel) + i \in 1..Len(channel')
                                 /\ channel'[Len(channel) + i] = names[i]
    BY <2>1, <2>2
  <2> QED
    BY <2>3, <2>4 DEF InChannel
<1> QED
  BY <1>1, <1>2

\* The same of a field that is set.
LEMMA SetNames ==
    ASSUME TypeOK, NEW k \in Keys, NEW v, SetField(k, v)
    PROVE  /\ \A j \in Keys : InChannel(j) => InChannel(j)'
           /\ Subscribed => InChannel(k)'
           /\ hash' = [hash EXCEPT ![k] = v]
           /\ hash'[k] = v /\ \A j \in Keys \ {k} : hash'[j] = hash[j]
<1>1. <<k>> \in Seq(Keys) /\ Len(<<k>>) = 1 /\ <<k>>[1] = k
  OBVIOUS
<1>2. channel' = Published(<<k>>) /\ hash' = [hash EXCEPT ![k] = v]
  BY DEF SetField
<1>3. channel \in Seq(Keys) /\ hash \in [Keys -> Entry]
  BY DEF TypeOK, Files
<1>4. /\ \A j \in Keys : InChannel(j) => InChannel(j)'
      /\ Subscribed => \A i \in 1..Len(<<k>>) : InChannel(<<k>>[i])'
  BY <1>1, <1>2, <1>3, PublishedNames
<1>5. Subscribed => InChannel(k)'
  BY <1>1, <1>4
<1> QED
  BY <1>2, <1>3, <1>4, <1>5

\* A name that is received is the first one.
LEMMA ReceivedNames ==
    ASSUME channel \in Seq(Keys), channel # <<>>, channel' = Tail(channel)
    PROVE  /\ Head(channel) \in Keys
           /\ \A k \in Keys \ {Head(channel)} : InChannel(k) => InChannel(k)'
<1> SUFFICES ASSUME NEW k \in Keys, k # Head(channel), InChannel(k)
             PROVE  InChannel(k)'
  BY DEF InChannel
<1>1. PICK i \in 1..Len(channel) : channel[i] = k
  BY DEF InChannel
<1>2. i # 1
  BY <1>1
<1>3. i - 1 \in 1..Len(Tail(channel)) /\ Tail(channel)[i - 1] = k
  BY <1>1, <1>2
<1> QED
  BY <1>3 DEF InChannel

\* Nothing gets in that is not published, ...
LEMMA OnlyPublished ==
    ASSUME channel \in Seq(Keys), NEW names \in Seq(Keys), channel' = Published(names),
           NEW k \in Keys, InChannel(k)'
    PROVE  InChannel(k) \/ \E i \in 1..Len(names) : names[i] = k
<1>1. CASE channel' = channel
  BY <1>1 DEF InChannel
<1>2. CASE channel' = channel \o names
  <2>1. PICK i \in 1..Len(channel') : channel'[i] = k
    BY DEF InChannel
  <2>2. Len(channel') = Len(channel) + Len(names) /\ Len(channel) \in Nat /\ Len(names) \in Nat
    BY <1>2
  <2>3. CASE i <= Len(channel)
    <3>1. i \in 1..Len(channel) /\ channel[i] = k
      BY <1>2, <2>1, <2>2, <2>3
    <3> QED
      BY <3>1 DEF InChannel
  <2>4. CASE i > Len(channel)
    <3>1. i - Len(channel) \in 1..Len(names) /\ names[i - Len(channel)] = k
      BY <1>2, <2>1, <2>2, <2>4
    <3> QED
      BY <3>1
  <2> QED
    BY <2>1, <2>2, <2>3, <2>4
<1> QED
  BY <1>1, <1>2 DEF Published

\* ... nothing that is not set, ...
LEMMA OnlySet ==
    ASSUME TypeOK, NEW j \in Keys, NEW v, SetField(j, v), NEW k \in Keys, k # j
    PROVE  hash'[k] = hash[k] /\ (InChannel(k)' => InChannel(k))
<1>1. <<j>> \in Seq(Keys) /\ Len(<<j>>) = 1 /\ <<j>>[1] = j
  OBVIOUS
<1>2. channel' = Published(<<j>>) /\ hash' = [hash EXCEPT ![j] = v]
  BY DEF SetField
<1>3. channel \in Seq(Keys) /\ hash \in [Keys -> Entry]
  BY DEF TypeOK, Files
<1>4. InChannel(k)' => InChannel(k) \/ \E i \in 1..Len(<<j>>) : <<j>>[i] = k
  BY <1>1, <1>2, <1>3, OnlyPublished
<1>5. ~ \E i \in 1..Len(<<j>>) : <<j>>[i] = k
  BY <1>1
<1> QED
  BY <1>2, <1>3, <1>4, <1>5

\* ... and what is received was in it.
LEMMA OnlyReceived ==
    ASSUME channel \in Seq(Keys), channel # <<>>, channel' = Tail(channel)
    PROVE  /\ InChannel(Head(channel))
           /\ \A k \in Keys : InChannel(k)' => InChannel(k)
<1>1. Len(channel) \in Nat /\ Len(channel) > 0 /\ channel[1] = Head(channel)
  OBVIOUS
<1>2. InChannel(Head(channel))
  BY <1>1 DEF InChannel
<1>3. ASSUME NEW k \in Keys, InChannel(k)'
      PROVE  InChannel(k)
  <2>1. PICK i \in 1..Len(channel') : channel'[i] = k
    BY <1>3 DEF InChannel
  <2>2. i + 1 \in 1..Len(channel) /\ channel[i + 1] = k
    BY <1>1, <2>1
  <2> QED
    BY <2>2 DEF InChannel
<1> QED
  BY <1>2, <1>3

\* A drop publishes what it drops.
LEMMA DroppedNames ==
    ASSUME TypeInv, Drop
    PROVE  /\ \A k \in Keys : InChannel(k) => InChannel(k)'
           /\ Subscribed => \A k \in ToDrop : InChannel(k)'
           /\ \A k \in Keys : hash'[k] = IF k \in ToDrop THEN Absent ELSE hash[k]
<1>1. ToDrop \in SUBSET Keys
  BY OverlayAssumption DEF ToDrop
<1>2. PICK names \in SetToSeqs(ToDrop) : channel' = Published(names)
  BY DEF Drop
<1>3. IsFiniteSet(ToDrop)
  BY <1>1, KeysAssumption, FS_Subset
<1>4. names \in Seq(Keys)
  BY <1>1, EnumerationType
<1>5. \A k \in ToDrop : \E i \in 1..Len(names) : names[i] = k
  <2>1. names \in [1..Cardinality(ToDrop) -> ToDrop]
    BY DEF SetToSeqs
  <2>2. Cardinality(ToDrop) \in Nat
    BY <1>3, FS_CardinalityType
  <2>3. Len(names) = Cardinality(ToDrop)
    BY <2>1, <2>2, <1>4
  <2>4. names \in Injection(1..Cardinality(ToDrop), ToDrop)
    BY <2>1 DEF SetToSeqs, Injection, IsInjective
  <2>5. Cardinality(1..Cardinality(ToDrop)) = Cardinality(ToDrop)
    <3>1. 1 \in Int /\ Cardinality(ToDrop) \in Int
      BY <2>2
    <3>2. Cardinality(1..Cardinality(ToDrop))
              = IF 1 > Cardinality(ToDrop) THEN 0 ELSE Cardinality(ToDrop) - 1 + 1
      BY <3>1, FS_Interval
    <3> QED
      BY <2>2, <3>2
  <2>6. names \in Surjection(1..Cardinality(ToDrop), ToDrop)
    BY <1>3, <2>4, <2>5, FS_Injection
  <2> QED
    BY <2>3, <2>6 DEF Surjection
<1>6. channel \in Seq(Keys)
  BY DEF TypeInv, TypeOK
<1>7. /\ \A k \in Keys : InChannel(k) => InChannel(k)'
      /\ Subscribed => \A i \in 1..Len(names) : InChannel(names[i])'
  BY <1>2, <1>4, <1>6, PublishedNames
<1>8. \A k \in Keys : hash'[k] = IF k \in ToDrop THEN Absent ELSE hash[k]
  BY DEF Drop
<1> QED
  BY <1>5, <1>7, <1>8

--------------------------------------------------------------------------------
(* The phases.                                                                  *)

LEMMA IdleConsumer == ConsumerIdle.pc = "idle" /\ ConsumerIdle.todo = {} /\ ConsumerIdle.held = NoHeld
BY DEF ConsumerIdle

\* What the watcher leaves alone.
LEMMA WatcherFrame ==
    ASSUME TypeInv, Watcher
    PROVE  /\ boot' = boot /\ active' = active /\ consumer' = consumer
           /\ status' = status /\ modeFile' = modeFile /\ commands' = commands
           /\ unpublished' = unpublished /\ Subscribed /\ Subscribed'
           /\ edits' = edits /\ sent' = sent /\ crashes' = crashes
<1>0. watcher \in [pc : WatcherSteps, key : Keys, value : Values] /\ WatcherIdle.pc = "idle"
  BY WatcherConstants DEF TypeInv, TypeOK
<1>1. CASE Receive
  BY <1>0, <1>1, WatcherConstants
     DEF Receive, At, files, memory, clients, failures, Subscribed
<1>2. CASE Fallback
  BY <1>0, <1>2 DEF Fallback, At, Rest, GotoWith, redis, files, memory, clients, failures, Subscribed
<1>3. CASE Repair
  BY <1>0, <1>3 DEF Repair, SetField, At, Rest, files, memory, clients, failures, Subscribed
<1>4. CASE Check
  BY <1>0, <1>4 DEF Check, At, Rest, Goto, redis, files, memory, clients, failures, Subscribed
<1>5. CASE ReadField
  BY <1>0, <1>5 DEF ReadField, At, Rest, GotoWith, redis, files, memory, clients, failures, Subscribed
<1>6. CASE Edit
  BY <1>0, <1>6 DEF Edit, At, Goto, redis, files, clients, failures, Subscribed
<1>7. CASE MarkEdit \/ Mark
  BY <1>0, <1>7 DEF MarkEdit, Mark, MarkKey, At, Goto, redis, files, clients, failures, Subscribed
<1>8. CASE SaveEdit \/ SaveMark
  BY <1>0, <1>8 DEF SaveEdit, SaveMark, SaveNow, At, Goto, Rest, redis, clients, Subscribed
<1>9. CASE Reassert
  BY <1>0, <1>9 DEF Reassert, SetField, At, Rest, files, memory, clients, failures, Subscribed
<1> QED
  BY <1>1, <1>2, <1>3, <1>4, <1>5, <1>6, <1>7, <1>8, <1>9 DEF Watcher

\* What clients leave alone.
LEMMA ClientFrame ==
    ASSUME TypeInv, Client
    PROVE  /\ boot' = boot /\ active' = active /\ consumer' = consumer /\ watcher' = watcher
           /\ status' = status /\ modeFile' = modeFile /\ toml' = toml
           /\ userSet' = userSet /\ base' = base /\ lastPersisted' = lastPersisted
           /\ faults' = faults /\ crashes' = crashes
BY DEF Client, ClientSet, ClientPublish, ClientCommand, files, memory, failures

\* A service that stops has forgotten everything.
LEMMA StopFrame ==
    ASSUME TypeInv, Crash \/ Reboot
    PROVE  /\ boot' = "down" /\ active' = FALSE /\ consumer' = ConsumerIdle
           /\ watcher' = WatcherOff /\ base' = NoBase /\ userSet' = {}
           /\ lastPersisted' = NoFields /\ modeFile' = modeFile /\ toml' = toml
           /\ faults' = faults /\ channel' = <<>> /\ ~Subscribed'
BY WatcherConstants DEF Crash, Reboot, Stop, Subscribed, files

\* What main leaves alone.
LEMMA BootFrame ==
    ASSUME TypeInv, Phases, Boot
    PROVE  /\ active' = active /\ base' = base /\ channel' = channel /\ commands' = commands
           /\ unpublished' = unpublished /\ modeFile' = modeFile
           /\ edits' = edits /\ sent' = sent /\ crashes' = crashes
           /\ ~Subscribed
           /\ boot \in {"down", "rewrite", "reapply"} => ~active
<1>1. boot # "up" => ~Subscribed
  BY DEF Phases
<1>2. CASE Load
  BY <1>1, <1>2 DEF Load, LoadWith, files, clients, failures, Phases
<1>3. CASE Rewrite
  BY <1>1, <1>3 DEF Rewrite, redis, clients, Phases
<1>4. CASE Reapply
  BY <1>1, <1>4 DEF Reapply, redis, files, memory, clients, failures, Phases
<1>5. CASE Reapplied
  BY <1>1, <1>5 DEF Reapplied, redis, files, memory, clients, failures
<1>6. CASE Subscribe
  BY <1>6 DEF Subscribe, redis, files, memory, clients, failures, Subscribed
<1> QED
  BY <1>2, <1>3, <1>4, <1>5, <1>6 DEF Boot

\* What the consumer leaves alone.
LEMMA ConsumerFrame ==
    ASSUME TypeInv, Consumer
    PROVE  /\ boot' = boot /\ watcher' = watcher /\ unpublished' = unpublished
           /\ edits' = edits /\ sent' = sent /\ crashes' = crashes
<1>1. CASE TakeCommand \/ Activate \/ FlagOn \/ StatusOn \/ Unset \/ FlagOff
  BY <1>1 DEF TakeCommand, Activate, FlagOn, StatusOn, Report, Unset, FlagOff, clients, failures
<1>2. CASE Drop \/ StatusOff \/ ClearSave
  BY <1>2 DEF Drop, StatusOff, Report, ClearSave, clients, failures
<1>3. CASE \E k \in OverlayKeys : Capture(k) \/ ForceField(k) \/ Restore(k)
  BY <1>3 DEF Capture, ForceField, Restore, clients, failures
<1> QED
  BY <1>1, <1>2, <1>3 DEF Consumer

\* Where a step of the consumer takes it, and what it does to the overlay.
LEMMA ConsumerMoves ==
    ASSUME TypeInv, Phases, Consumer
    PROVE  /\ boot \in {"applying", "up"} /\ boot' = boot /\ watcher' = watcher
           /\ \/ /\ boot = "up" /\ consumer.pc = "idle" /\ consumer'.pc \in {"capture", "unset"}
                 /\ active' = active
              \/ consumer.pc = "capture" /\ consumer'.pc = "capture" /\ active' = active
              \/ consumer.pc = "capture" /\ active = TRUE /\ consumer'.pc = "idle" /\ active' = active
              \/ consumer.pc = "capture" /\ active = FALSE /\ consumer'.pc = "flagOn" /\ active' = TRUE
              \/ consumer.pc \in Entering /\ consumer'.pc \in Entering /\ active' = active
              \/ consumer.pc = "statusOn" /\ consumer'.pc = "idle" /\ active' = active
              \/ consumer.pc = "unset" /\ active = FALSE /\ consumer'.pc = "idle" /\ active' = active
              \/ consumer.pc = "unset" /\ active = TRUE /\ consumer'.pc = "flagOff" /\ active' = FALSE
              \/ /\ consumer.pc \in Leaving /\ consumer'.pc \in Leaving \union {"clearSave"}
                 /\ active' = active
              \/ consumer.pc = "clearSave" /\ consumer'.pc = "idle" /\ active' = active
<1>0. /\ boot' = boot /\ watcher' = watcher
      /\ consumer \in [pc : ConsumerSteps, todo : SUBSET OverlayKeys, held : [OverlayKeys -> Entry]]
      /\ ConsumerIdle \in [pc : ConsumerSteps, todo : SUBSET OverlayKeys, held : [OverlayKeys -> Entry]]
      /\ ConsumerIdle.pc = "idle" /\ active \in BOOLEAN
      /\ boot \in {"down", "rewrite", "reapply", "applying", "up"}
  BY ConsumerFrame, OtherConstants, IdleConsumer DEF TypeInv, TypeOK
<1>13. consumer.pc # "idle" => boot \in {"applying", "up"}
  BY <1>0 DEF Phases
<1> USE DEF Entering, Leaving
<1>1. CASE TakeCommand
  <2>1. consumer.pc = "idle" /\ consumer'.pc \in {"capture", "unset"} /\ boot = "up"
    BY <1>0, <1>1 DEF TakeCommand, Stepping, Then
  <2>2. active' = active
    BY <1>1 DEF TakeCommand, memory
  <2> QED
    BY <1>0, <2>1, <2>2
<1>2. CASE Activate
  <2>1. consumer.pc = "capture"
    BY <1>2 DEF Activate, Stepping
  <2>2. CASE active
    <3>1. active = TRUE /\ consumer'.pc = "idle" /\ active' = active
      BY <1>0, <1>2, <2>2 DEF Activate
    <3> QED
      BY <1>0, <1>13, <2>1, <3>1
  <2>3. CASE ~active
    <3>1. active = FALSE
      BY <1>0, <2>3
    <3>2. active' = TRUE /\ consumer' = [ConsumerIdle EXCEPT !.pc = "flagOn"]
      BY <1>2, <2>3 DEF Activate
    <3>3. consumer'.pc = "flagOn"
      BY <1>0, <3>2
    <3> QED
      BY <1>0, <1>13, <2>1, <3>1, <3>2, <3>3
  <2> QED
    BY <2>2, <2>3
<1>3. CASE FlagOn
  <2>1. consumer.pc = "flagOn" /\ consumer'.pc = "force"
    BY <1>0, <1>3 DEF FlagOn, Stepping, Then
  <2>2. active' = active
    BY <1>3 DEF FlagOn, memory
  <2> QED
    BY <1>0, <1>13, <2>1, <2>2
<1>4. CASE StatusOn
  <2>1. consumer.pc = "statusOn" /\ consumer'.pc = "idle"
    BY <1>0, <1>4 DEF StatusOn, Stepping
  <2>2. active' = active
    BY <1>4 DEF StatusOn, Report, memory
  <2> QED
    BY <1>0, <1>13, <2>1, <2>2
<1>5. CASE Unset
  <2>1. consumer.pc = "unset"
    BY <1>5 DEF Unset, Stepping
  <2>2. CASE ~active
    <3>1. active = FALSE
      BY <1>0, <2>2
    <3>2. consumer'.pc = "idle" /\ active' = active
      BY <1>0, <1>5, <2>2 DEF Unset
    <3> QED
      BY <1>0, <1>13, <2>1, <3>1, <3>2
  <2>3. CASE active
    <3>1. active = TRUE
      BY <1>0, <2>3
    <3>2. /\ active' = FALSE
          /\ consumer' = [ConsumerIdle EXCEPT !.pc = "flagOff",
                                              !.held = [k \in OverlayKeys |-> base[k].value]]
      BY <1>5, <2>3 DEF Unset
    <3>3. consumer'.pc = "flagOff"
      BY <1>0, <3>2
    <3> QED
      BY <1>0, <1>13, <2>1, <3>1, <3>2, <3>3
  <2> QED
    BY <2>2, <2>3
<1>6. CASE FlagOff
  <2>1. consumer.pc = "flagOff" /\ consumer'.pc \in {"restore", "drop"}
    BY <1>0, <1>6 DEF FlagOff, Stepping, Then, NextOf
  <2>2. active' = active
    BY <1>6 DEF FlagOff, memory
  <2> QED
    BY <1>0, <1>13, <2>1, <2>2
<1>7. CASE Drop
  <2>1. consumer.pc = "drop" /\ consumer'.pc = "statusOff"
    BY <1>0, <1>7 DEF Drop, Stepping, Then
  <2>2. active' = active
    BY <1>7 DEF Drop, memory
  <2> QED
    BY <1>0, <1>13, <2>1, <2>2
<1>8. CASE StatusOff
  <2>1. consumer.pc = "statusOff" /\ consumer'.pc = "clearSave"
    BY <1>0, <1>8 DEF StatusOff, Stepping, Then
  <2>2. active' = active
    BY <1>8 DEF StatusOff, Report, memory
  <2> QED
    BY <1>0, <1>13, <2>1, <2>2
<1>9. CASE ClearSave
  <2>1. consumer.pc = "clearSave" /\ consumer'.pc = "idle"
    BY <1>0, <1>9 DEF ClearSave, Stepping
  <2>2. active' = active
    BY <1>9 DEF ClearSave
  <2> QED
    BY <1>0, <1>13, <2>1, <2>2
<1>10. ASSUME NEW k \in OverlayKeys, Capture(k)
       PROVE  consumer.pc = "capture" /\ consumer'.pc = "capture" /\ active' = active
  BY <1>0, <1>10 DEF Capture, Stepping, memory
<1>11. ASSUME NEW k \in OverlayKeys, ForceField(k)
       PROVE  consumer.pc = "force" /\ consumer'.pc \in {"force", "statusOn"} /\ active' = active
  BY <1>0, <1>11 DEF ForceField, Stepping, Then, NextOf, memory
<1>12. ASSUME NEW k \in OverlayKeys, Restore(k)
       PROVE  consumer.pc = "restore" /\ consumer'.pc \in {"restore", "drop"} /\ active' = active
  BY <1>0, <1>12 DEF Restore, Stepping, Then, NextOf, memory
<1> QED
  <2>1. CASE \E k \in OverlayKeys : Capture(k) \/ ForceField(k) \/ Restore(k)
    BY <1>0, <1>13, <1>10, <1>11, <1>12, <2>1
  <2> QED
    BY <1>1, <1>2, <1>3, <1>4, <1>5, <1>6, <1>7, <1>8, <1>9, <2>1 DEF Consumer

\* The consumer's steps follow each other, and with them whether the overlay is on.
LEMMA ConsumerPhases == ASSUME TypeInv, Phases, Consumer PROVE Phases'
<1>1. /\ boot \in {"applying", "up"} /\ boot' = boot /\ watcher' = watcher
      /\ active \in BOOLEAN
  BY ConsumerMoves DEF TypeInv, TypeOK
<1>2. Subscribed' => boot' = "up"
  BY <1>1 DEF Phases, Subscribed
<1>3. boot' = "applying" => /\ consumer'.pc \in {"idle", "capture"} \union Entering
                            /\ consumer'.pc = "idle" => active'
                            /\ consumer'.pc = "capture" => ~active'
  BY <1>1, ConsumerMoves DEF Phases, Entering, Leaving
<1>4. consumer'.pc \in Entering => active'
  BY <1>1, ConsumerMoves DEF Phases, Entering, Leaving
<1>5. consumer'.pc \in Leaving \union {"clearSave"} => ~active'
  BY <1>1, ConsumerMoves DEF Phases, Entering, Leaving
<1> QED
  BY <1>1, <1>2, <1>3, <1>4, <1>5 DEF Phases

LEMMA BootPhases == ASSUME TypeInv, Phases, Boot PROVE Phases'
<1>0. /\ active' = active /\ ~Subscribed
      /\ consumer \in [pc : ConsumerSteps, todo : SUBSET OverlayKeys, held : [OverlayKeys -> Entry]]
  BY BootFrame DEF TypeInv, TypeOK
<1> USE DEF Entering, Leaving
<1>1. CASE Load
  BY <1>0, <1>1 DEF Load, LoadWith, Phases, Subscribed
<1>2. CASE Rewrite
  BY <1>0, <1>2 DEF Rewrite, Phases, Subscribed
<1>3. CASE Reapply
  <2>1. consumer = ConsumerIdle /\ ~active
    BY <1>3 DEF Reapply, Phases
  <2>2. CASE boot' = "applying" /\ consumer' = [ConsumerIdle EXCEPT !.pc = "capture", !.todo = OverlayKeys]
    <3>1. consumer'.pc = "capture"
      BY <2>2 DEF ConsumerIdle
    <3> QED
      BY <1>0, <1>3, <2>1, <2>2, <3>1 DEF Reapply, Phases, Subscribed
  <2>3. CASE boot' = "up" /\ consumer' = consumer
    BY <1>0, <1>3, <2>1, <2>3, IdleConsumer DEF Reapply, Phases, Subscribed
  <2> QED
    BY <1>3, <2>2, <2>3 DEF Reapply
<1>4. CASE Reapplied
  BY <1>0, <1>4 DEF Reapplied, Phases, Subscribed
<1>5. CASE Subscribe
  BY <1>0, <1>5 DEF Subscribe, Phases, Subscribed
<1> QED
  BY <1>1, <1>2, <1>3, <1>4, <1>5 DEF Boot

LEMMA NextPhases == ASSUME TypeInv, Phases, [Next]_vars PROVE Phases'
<1>1. CASE Boot
  BY <1>1, BootPhases
<1>2. CASE Watcher
  <2>1. /\ boot' = boot /\ active' = active /\ consumer' = consumer
        /\ Subscribed /\ Subscribed'
    BY <1>2, WatcherFrame
  <2> QED
    BY <2>1 DEF Phases
<1>3. CASE Consumer
  BY <1>3, ConsumerPhases
<1>4. CASE Client
  <2>1. boot' = boot /\ active' = active /\ consumer' = consumer /\ watcher' = watcher
    BY <1>4, ClientFrame
  <2> QED
    BY <2>1 DEF Phases, Subscribed
<1>5. CASE Crash \/ Reboot
  <2>1. boot' = "down" /\ active' = FALSE /\ consumer' = ConsumerIdle /\ ~Subscribed'
    BY <1>5, StopFrame
  <2> QED
    BY <2>1, IdleConsumer DEF Phases, Entering, Leaving
<1>6. CASE Wait \/ UNCHANGED vars
  <2>1. boot' = boot /\ active' = active /\ consumer' = consumer /\ watcher' = watcher
    BY <1>6 DEF Wait, vars, memory
  <2> QED
    BY <2>1 DEF Phases, Subscribed
<1> QED
  BY <1>1, <1>2, <1>3, <1>4, <1>5, <1>6 DEF Next

LEMMA InitPhases == Init => Phases
BY WatcherConstants, IdleConsumer DEF Init, Phases, Subscribed, Entering, Leaving

--------------------------------------------------------------------------------
(* The status field and the mode file.                                          *)

\* The status field tells the truth, except while the fields are being set.
StatusTold == boot # "down" /\ consumer.pc \notin Entering \union Leaving => status = active

\* So does the mode file, except where it is about to be written; one that is there
\* at boot is the reason the overlay is applied.
ModeOnFile ==
    /\ faults = 0 /\ boot \in {"applying", "up"}
    /\ consumer.pc \notin {"flagOn", "flagOff"} /\ ~(boot = "applying" /\ consumer.pc = "capture")
    => modeFile = active

\* A fault is remembered.
LEMMA SaveFaults == TypeInv /\ Save /\ faults' = 0 => faults = 0
BY DEF Save, TypeInv, TypeOK

LEMMA FaultsStay == ASSUME TypeInv, Phases, [Next]_vars, faults' = 0 PROVE faults = 0
<1>0. faults \in Nat
  BY BoundsAssumption DEF TypeInv, TypeOK
<1>1. CASE Boot
  BY <1>0, <1>1, SaveFaults
     DEF Boot, Load, LoadWith, Rewrite, Reapply, Reapplied, Subscribe, failures
<1>2. CASE Watcher
  <2>1. CASE SaveEdit \/ SaveMark
    BY <2>1, SaveFaults DEF SaveEdit, SaveMark, SaveNow
  <2>2. CASE ~(SaveEdit \/ SaveMark)
    BY <1>2, <2>2 DEF Watcher, Receive, Fallback, Repair, Check, ReadField, Edit, MarkEdit, Mark,
                      MarkKey, Reassert, failures
  <2> QED
    BY <2>1, <2>2
<1>3. CASE Consumer
  <2>1. CASE ClearSave
    BY <2>1, SaveFaults DEF ClearSave
  <2>2. CASE FlagOn \/ FlagOff
    <3>1. faults' = faults \/ faults' = faults + 1
      BY <2>2 DEF FlagOn, FlagOff, SaveMode
    <3> QED
      BY <1>0, <3>1
  <2>3. CASE TakeCommand \/ Activate \/ StatusOn \/ Unset \/ Drop \/ StatusOff
    BY <2>3 DEF TakeCommand, Activate, StatusOn, Report, Unset, Drop, StatusOff, failures
  <2>4. CASE \E k \in OverlayKeys : Capture(k) \/ ForceField(k) \/ Restore(k)
    BY <2>4 DEF Capture, ForceField, Restore, failures
  <2> QED
    BY <1>3, <2>1, <2>2, <2>3, <2>4 DEF Consumer
<1>4. CASE Client
  BY <1>4, ClientFrame
<1>5. CASE Crash \/ Reboot
  BY <1>5, StopFrame
<1>6. CASE Wait \/ UNCHANGED vars
  BY <1>6 DEF Wait, vars, failures
<1> QED
  BY <1>1, <1>2, <1>3, <1>4, <1>5, <1>6 DEF Next

\* What a step of the consumer reports and writes.
LEMMA ConsumerTells ==
    ASSUME TypeInv, Phases, Consumer
    PROVE  /\ consumer.pc = "statusOn" => status' = TRUE
           /\ consumer'.pc = "clearSave" => status' = FALSE
           /\ consumer.pc # "statusOn" /\ consumer'.pc # "clearSave" => status' = status
           /\ consumer.pc \notin {"flagOn", "flagOff"} => modeFile' = modeFile
           /\ consumer.pc = "flagOn" /\ faults' = 0 => modeFile' = TRUE
           /\ consumer.pc = "flagOff" /\ faults' = 0 => modeFile' = FALSE
<1>0. /\ consumer \in [pc : ConsumerSteps, todo : SUBSET OverlayKeys, held : [OverlayKeys -> Entry]]
      /\ ConsumerIdle \in [pc : ConsumerSteps, todo : SUBSET OverlayKeys, held : [OverlayKeys -> Entry]]
      /\ ConsumerIdle.pc = "idle" /\ faults \in Nat
  BY OtherConstants, IdleConsumer, BoundsAssumption DEF TypeInv, TypeOK
<1>1. CASE TakeCommand
  BY <1>0, <1>1 DEF TakeCommand, Stepping, Then, files
<1>2. CASE Activate
  <2>1. consumer.pc = "capture" /\ consumer'.pc \in {"idle", "flagOn"}
    BY <1>0, <1>2 DEF Activate, Stepping
  <2>2. status' = status /\ modeFile' = modeFile
    BY <1>2 DEF Activate, redis, files
  <2> QED
    BY <2>1, <2>2
<1>3. CASE FlagOn
  <2>1. consumer.pc = "flagOn" /\ consumer'.pc = "force"
    BY <1>0, <1>3 DEF FlagOn, Stepping, Then
  <2>2. status' = status /\ SaveMode(TRUE)
    BY <1>3 DEF FlagOn, redis
  <2>3. modeFile' = TRUE \/ faults' = faults + 1
    BY <2>2 DEF SaveMode
  <2>4. faults' = faults + 1 => faults' # 0
    BY <1>0
  <2> QED
    BY <2>1, <2>2, <2>3, <2>4
<1>4. CASE StatusOn
  BY <1>0, <1>4 DEF StatusOn, Report, Stepping, files
<1>5. CASE Unset
  <2>1. consumer.pc = "unset" /\ consumer'.pc \in {"idle", "flagOff"}
    BY <1>0, <1>5 DEF Unset, Stepping
  <2>2. status' = status /\ modeFile' = modeFile
    BY <1>5 DEF Unset, redis, files
  <2> QED
    BY <2>1, <2>2
<1>6. CASE FlagOff
  <2>1. consumer.pc = "flagOff" /\ consumer'.pc \in {"restore", "drop"}
    BY <1>0, <1>6 DEF FlagOff, Stepping, Then, NextOf
  <2>2. status' = status /\ SaveMode(FALSE)
    BY <1>6 DEF FlagOff, redis
  <2>3. modeFile' = FALSE \/ faults' = faults + 1
    BY <2>2 DEF SaveMode
  <2>4. faults' = faults + 1 => faults' # 0
    BY <1>0
  <2> QED
    BY <2>1, <2>2, <2>3, <2>4
<1>7. CASE Drop
  BY <1>0, <1>7 DEF Drop, Stepping, Then, files
<1>8. CASE StatusOff
  BY <1>0, <1>8 DEF StatusOff, Report, Stepping, Then, files
<1>9. CASE ClearSave
  BY <1>0, <1>9 DEF ClearSave, Stepping, redis
<1>10. CASE \E k \in OverlayKeys : Capture(k) \/ ForceField(k) \/ Restore(k)
  BY <1>0, <1>10 DEF Capture, ForceField, Restore, Stepping, Then, NextOf, redis, files
<1> QED
  BY <1>1, <1>2, <1>3, <1>4, <1>5, <1>6, <1>7, <1>8, <1>9, <1>10 DEF Consumer

LEMMA ConsumerMode ==
    ASSUME TypeInv, Phases, StatusTold, ModeOnFile, Consumer
    PROVE  StatusTold' /\ ModeOnFile'
<1>0. /\ active \in BOOLEAN /\ boot \in {"applying", "up"} /\ boot' = boot
      /\ faults' = 0 => faults = 0
  BY ConsumerMoves, FaultsStay DEF TypeInv, TypeOK, Next
<1> USE DEF Entering, Leaving
<1>1. StatusTold'
  <2> SUFFICES ASSUME consumer'.pc \notin Entering \union Leaving
               PROVE  status' = active'
    BY DEF StatusTold
  <2>1. CASE consumer.pc = "statusOn"
    <3>1. status' = TRUE /\ active = TRUE /\ active' = active
      BY <1>0, <2>1, ConsumerMoves, ConsumerTells DEF Phases
    <3> QED
      BY <3>1
  <2>2. CASE consumer'.pc = "clearSave"
    <3>1. status' = FALSE /\ active = FALSE /\ active' = active
      BY <1>0, <2>2, ConsumerMoves, ConsumerTells DEF Phases
    <3> QED
      BY <3>1
  <2>3. CASE consumer.pc # "statusOn" /\ consumer'.pc # "clearSave"
    <3>1. consumer.pc \notin Entering \union Leaving /\ active' = active /\ status' = status
      BY <2>3, ConsumerMoves, ConsumerTells
    <3>2. status = active
      BY <1>0, <3>1 DEF StatusTold
    <3> QED
      BY <3>1, <3>2
  <2> QED
    BY <2>1, <2>2, <2>3
<1>2. ModeOnFile'
  <2> SUFFICES ASSUME faults' = 0, consumer'.pc \notin {"flagOn", "flagOff"},
                      ~(boot = "applying" /\ consumer'.pc = "capture")
               PROVE  modeFile' = active'
    BY <1>0 DEF ModeOnFile
  <2>1. CASE consumer.pc = "flagOn"
    <3>1. modeFile' = TRUE /\ active = TRUE /\ active' = active
      BY <1>0, <2>1, ConsumerMoves, ConsumerTells DEF Phases
    <3> QED
      BY <3>1
  <2>2. CASE consumer.pc = "flagOff"
    <3>1. modeFile' = FALSE /\ active = FALSE /\ active' = active
      BY <1>0, <2>2, ConsumerMoves, ConsumerTells DEF Phases
    <3> QED
      BY <3>1
  <2>3. CASE consumer.pc \notin {"flagOn", "flagOff"}
    <3>1. modeFile' = modeFile /\ active' = active
      BY <2>3, ConsumerMoves, ConsumerTells
    <3>2. ~(boot = "applying" /\ consumer.pc = "capture")
      BY <1>0, ConsumerMoves DEF Phases
    <3>3. modeFile = active
      BY <1>0, <2>3, <3>2 DEF ModeOnFile
    <3> QED
      BY <3>1, <3>3
  <2> QED
    BY <2>1, <2>2, <2>3
<1> QED
  BY <1>1, <1>2

LEMMA BootMode ==
    ASSUME TypeInv, Phases, StatusTold, ModeOnFile, Boot
    PROVE  StatusTold' /\ ModeOnFile'
<1>0. /\ active' = active /\ modeFile' = modeFile /\ active \in BOOLEAN /\ modeFile \in BOOLEAN
      /\ faults' = 0 => faults = 0
      /\ boot \in {"down", "rewrite", "reapply"} => active = FALSE
  BY BootFrame, FaultsStay DEF TypeInv, TypeOK, Next
<1> USE DEF Entering, Leaving
<1>1. CASE Load
  <2>1. status' = FALSE /\ active = FALSE /\ boot' \in {"rewrite", "reapply"}
    BY <1>0, <1>1 DEF Load, LoadWith
  <2> QED
    BY <1>0, <2>1 DEF StatusTold, ModeOnFile
<1>2. CASE Rewrite
  <2>1. status' = status /\ consumer' = consumer /\ boot = "rewrite" /\ boot' = "reapply"
    BY <1>2 DEF Rewrite, redis
  <2> QED
    BY <1>0, <2>1 DEF StatusTold, ModeOnFile
<1>3. CASE Reapply
  <2>1. status' = status /\ boot = "reapply" /\ active = FALSE
    BY <1>0, <1>3 DEF Reapply, redis
  <2>2. consumer = ConsumerIdle /\ consumer.pc = "idle" /\ status = active
    BY <2>1, IdleConsumer DEF Phases, StatusTold
  <2>3. CASE boot' = "applying" /\ consumer' = [ConsumerIdle EXCEPT !.pc = "capture", !.todo = OverlayKeys]
    <3>1. consumer'.pc = "capture"
      BY <2>3 DEF ConsumerIdle
    <3> QED
      BY <1>0, <2>1, <2>2, <2>3, <3>1 DEF StatusTold, ModeOnFile
  <2>4. CASE ~modeFile /\ boot' = "up" /\ consumer' = consumer
    <3>1. modeFile = FALSE
      BY <1>0, <2>4
    <3> QED
      BY <1>0, <2>1, <2>2, <2>4, <3>1 DEF StatusTold, ModeOnFile
  <2> QED
    BY <1>3, <2>3, <2>4 DEF Reapply
<1>4. CASE Reapplied
  <2>1. status' = status /\ consumer' = consumer /\ boot = "applying" /\ consumer.pc = "idle" /\ boot' = "up"
    BY <1>4 DEF Reapplied, redis
  <2> QED
    BY <1>0, <2>1 DEF StatusTold, ModeOnFile
<1>5. CASE Subscribe
  <2>1. status' = status /\ consumer' = consumer /\ boot' = boot
    BY <1>5 DEF Subscribe, redis
  <2> QED
    BY <1>0, <2>1 DEF StatusTold, ModeOnFile
<1> QED
  BY <1>1, <1>2, <1>3, <1>4, <1>5 DEF Boot

LEMMA NextMode ==
    ASSUME TypeInv, Phases, StatusTold, ModeOnFile, [Next]_vars
    PROVE  StatusTold' /\ ModeOnFile'
<1>1. CASE Boot
  BY <1>1, BootMode
<1>2. CASE Consumer
  BY <1>2, ConsumerMode
<1>3. CASE Crash \/ Reboot
  BY <1>3, StopFrame DEF StatusTold, ModeOnFile
<1>4. CASE Watcher \/ Client \/ Wait \/ UNCHANGED vars
  <2>1. /\ boot' = boot /\ active' = active /\ consumer' = consumer
        /\ status' = status /\ modeFile' = modeFile
    <3>1. CASE Watcher
      BY <3>1, WatcherFrame
    <3>2. CASE Client
      BY <3>2, ClientFrame
    <3>3. CASE Wait \/ UNCHANGED vars
      BY <3>3 DEF Wait, vars, memory, redis, files
    <3> QED
      BY <1>4, <3>1, <3>2, <3>3
  <2>2. faults' = 0 => faults = 0
    BY FaultsStay
  <2> QED
    BY <2>1, <2>2 DEF StatusTold, ModeOnFile
<1> QED
  BY <1>1, <1>2, <1>3, <1>4 DEF Next

--------------------------------------------------------------------------------
(* The forced settings.                                                         *)

ToBeForced(k) == \/ consumer.pc = "flagOn"
                 \/ consumer.pc = "force" /\ k \in consumer.todo

\* The steps that end with the forced value, if the overlay is still on by then.
Answers == Repairs \union {"check", "read", "edit", "markEdit", "saveEdit", "reassert"}

\* A forced setting with another value is about to be forced, or the watcher has
\* still to answer to the write.
ForcedOrAnswered(k) ==
    \/ hash[k] = Forced[k] \/ ToBeForced(k)
    \/ hash[k] # Absent /\ Noticed(k, Answers)

ForcedHolds == active => \A k \in OverlayKeys : ForcedOrAnswered(k)

\* Only a setting with a format or an enum is ever repaired.
RepairsChecked == watcher.pc = "fallback" => Valid[watcher.key] # Values

\* A client writes to a service that listens; and a forced setting that may be
\* refused has a value to fall back to, as all of the shipped schema have.
Listened == ~EarlyEdits
ForcedRepairable == \A k \in OverlayKeys : Valid[k] = Values \/ Safe[k] # Absent

\* What is in the channel stays there when the channel stays.
LEMMA SameChannel ==
    ASSUME channel' = channel
    PROVE  \A k \in Keys : InChannel(k) <=> InChannel(k)'
BY DEF InChannel

LEMMA ConsumerForced ==
    ASSUME TypeInv, Phases, ForcedHolds, Consumer
    PROVE  ForcedHolds'
<1>0. /\ watcher' = watcher /\ unpublished' = unpublished /\ Subscribed' = Subscribed
      /\ consumer \in [pc : ConsumerSteps, todo : SUBSET OverlayKeys, held : [OverlayKeys -> Entry]]
      /\ OverlayKeys \subseteq Keys
  BY ConsumerFrame, OverlayAssumption DEF TypeInv, TypeOK, Subscribed
<1> SUFFICES ASSUME active', NEW k \in OverlayKeys
             PROVE  ForcedOrAnswered(k)'
  BY DEF ForcedHolds
<1>9. active => ForcedOrAnswered(k)
  BY DEF ForcedHolds
<1>1. CASE TakeCommand
  <2>1. consumer.pc = "idle" /\ hash' = hash /\ channel' = channel
    BY <1>1 DEF TakeCommand, Stepping
  <2>2. active
    BY <1>1 DEF TakeCommand, memory
  <2> QED
    BY <1>0, <1>9, <2>1, <2>2, SameChannel DEF ForcedOrAnswered, ToBeForced, Noticed
<1>2. CASE Activate
  <2>1. consumer.pc = "capture" /\ hash' = hash /\ channel' = channel
    BY <1>2 DEF Activate, Stepping, redis
  <2>2. CASE active
    BY <1>0, <1>9, <2>1, <2>2, SameChannel DEF ForcedOrAnswered, ToBeForced, Noticed
  <2>3. CASE consumer' = [ConsumerIdle EXCEPT !.pc = "flagOn"]
    <3>1. consumer'.pc = "flagOn"
      BY <2>3 DEF ConsumerIdle
    <3> QED
      BY <3>1 DEF ForcedOrAnswered, ToBeForced
  <2> QED
    BY <1>2, <2>2, <2>3 DEF Activate
<1>3. CASE FlagOn
  <2>1. consumer'.pc = "force" /\ consumer'.todo = OverlayKeys
    BY <1>0, <1>3 DEF FlagOn, Then
  <2> QED
    BY <2>1 DEF ForcedOrAnswered, ToBeForced
<1>4. CASE StatusOn
  <2>1. consumer.pc = "statusOn" /\ hash' = hash /\ channel' = channel
    BY <1>4 DEF StatusOn, Report, Stepping
  <2>2. active
    BY <1>4 DEF StatusOn, Report, memory
  <2> QED
    BY <1>0, <1>9, <2>1, <2>2, SameChannel DEF ForcedOrAnswered, ToBeForced, Noticed
<1>5. CASE \E j \in OverlayKeys : Capture(j)
  <2>1. consumer.pc = "capture" /\ hash' = hash /\ channel' = channel
    BY <1>5 DEF Capture, Stepping, redis
  <2>2. active
    BY <1>5 DEF Capture, memory
  <2> QED
    BY <1>0, <1>9, <2>1, <2>2, SameChannel DEF ForcedOrAnswered, ToBeForced, Noticed
<1>6. ASSUME NEW j \in OverlayKeys, ForceField(j)
      PROVE  ForcedOrAnswered(k)'
  <2>1. consumer.pc = "force" /\ j \in consumer.todo /\ SetField(j, Forced[j])
    BY <1>6 DEF ForceField, Stepping
  <2>2. active
    BY <1>6 DEF ForceField, memory
  <2>3. /\ \A i \in Keys : InChannel(i) => InChannel(i)'
        /\ hash'[j] = Forced[j] /\ \A i \in Keys \ {j} : hash'[i] = hash[i]
    BY <1>0, <2>1, SetNames DEF TypeInv
  <2>4. CASE k = j
    BY <2>3, <2>4 DEF ForcedOrAnswered
  <2>5. CASE k # j
    <3>1. k \in consumer.todo => consumer'.pc = "force" /\ k \in consumer'.todo
      BY <1>0, <1>6, <2>5 DEF ForceField, Then, NextOf
    <3>2. hash'[k] = hash[k] /\ (InChannel(k) => InChannel(k)')
      BY <1>0, <2>3, <2>5
    <3> QED
      BY <1>0, <1>9, <2>1, <2>2, <3>1, <3>2 DEF ForcedOrAnswered, ToBeForced, Noticed
  <2> QED
    BY <2>4, <2>5
<1>7. CASE consumer.pc \in {"unset", "clearSave"} \union Leaving
  <2>1. ~active'
    BY <1>7, ConsumerMoves DEF Phases, Entering, Leaving
  <2> QED
    BY <2>1
<1>8. CASE Unset \/ FlagOff \/ Drop \/ StatusOff \/ ClearSave \/ \E j \in OverlayKeys : Restore(j)
  <2>1. consumer.pc \in {"unset", "clearSave"} \union Leaving
    BY <1>8 DEF Unset, FlagOff, Drop, StatusOff, ClearSave, Restore, Stepping, Leaving
  <2> QED
    BY <1>7, <2>1
<1> QED
  BY <1>1, <1>2, <1>3, <1>4, <1>5, <1>6, <1>8 DEF Consumer

LEMMA WatcherForced ==
    ASSUME ForcedRepairable, TypeInv, Phases, RepairsChecked, ForcedHolds, Watcher
    PROVE  ForcedHolds'
<1>0. /\ active' = active /\ consumer' = consumer /\ unpublished' = unpublished
      /\ Subscribed /\ Subscribed' /\ OverlayKeys \subseteq Keys
      /\ watcher \in [pc : WatcherSteps, key : Keys, value : Values]
      /\ WatcherIdle \in [pc : WatcherSteps, key : Keys, value : Values] /\ WatcherIdle.pc = "idle"
      /\ hash \in [Keys -> Entry] /\ channel \in Seq(Keys)
  BY WatcherFrame, OverlayAssumption, WatcherConstants DEF TypeInv, TypeOK, Files
<1> SUFFICES ASSUME active, NEW k \in OverlayKeys
             PROVE  ForcedOrAnswered(k)'
  BY <1>0 DEF ForcedHolds
<1>12. ForcedOrAnswered(k) /\ k \in Keys
  BY <1>0 DEF ForcedHolds
<1>13. ASSUME hash' = hash, channel' = channel,
              watcher.key = k /\ watcher.pc \in Answers /\ hash[k] # Absent
                  => hash[k] = Forced[k] \/ (watcher'.key = k /\ watcher'.pc \in Answers)
       PROVE  ForcedOrAnswered(k)'
  BY <1>0, <1>12, <1>13, SameChannel DEF ForcedOrAnswered, ToBeForced, Noticed
<1>14. ASSUME NEW j \in Keys, NEW v \in Values, SetField(j, v), j = watcher.key
       PROVE  ForcedOrAnswered(k)'
  <2>1. /\ \A i \in Keys : InChannel(i) => InChannel(i)'
        /\ InChannel(j)' /\ hash'[j] = v
        /\ \A i \in Keys \ {j} : hash'[i] = hash[i]
    BY <1>0, <1>14, SetNames DEF TypeInv
  <2>2. CASE k = j
    <3>1. hash'[k] # Absent
      BY <2>1, <2>2, ValuesAssumption
    <3> QED
      BY <1>0, <2>1, <2>2, <3>1 DEF ForcedOrAnswered, Noticed
  <2>3. CASE k # j
    <3>1. hash'[k] = hash[k] /\ (InChannel(k) => InChannel(k)')
      BY <1>12, <2>1, <2>3
    <3> QED
      BY <1>0, <1>12, <1>14, <2>3, <3>1 DEF ForcedOrAnswered, ToBeForced, Noticed
  <2> QED
    BY <2>2, <2>3
<1>1. CASE Receive
  <2>1. channel # <<>> /\ channel' = Tail(channel) /\ watcher.pc = "idle" /\ hash' = hash
    BY <1>1 DEF Receive, At
  <2>2. watcher'.key = Head(channel) /\ watcher'.pc \in {"fallback", "check"}
    BY <1>0, <1>1 DEF Receive
  <2>3. \A j \in Keys \ {Head(channel)} : InChannel(j) => InChannel(j)'
    BY <1>0, <2>1, ReceivedNames
  <2>4. CASE k = Head(channel)
    BY <1>0, <1>12, <2>1, <2>2, <2>4 DEF ForcedOrAnswered, ToBeForced, Noticed, Answers, Repairs
  <2>5. CASE k # Head(channel)
    BY <1>0, <1>12, <2>1, <2>2, <2>3, <2>5
       DEF ForcedOrAnswered, ToBeForced, Noticed, Answers, Repairs
  <2> QED
    BY <2>4, <2>5
<1>2. CASE Fallback
  <2>1. hash' = hash /\ channel' = channel /\ watcher.pc = "fallback"
    BY <1>2 DEF Fallback, At, redis
  <2>2. ASSUME watcher.key = k
        PROVE  watcher'.key = k /\ watcher'.pc = "repair"
    <3>1. Safe[k] # Absent
      BY <2>1, <2>2 DEF RepairsChecked, ForcedRepairable
    <3>2. FallbackFor(watcher.key) # Absent
      BY <2>2, <3>1 DEF FallbackFor
    <3> QED
      BY <1>0, <1>2, <2>2, <3>2 DEF Fallback, GotoWith
  <2> QED
    BY <1>13, <2>1, <2>2 DEF Answers, Repairs
<1>3. CASE Repair
  BY <1>0, <1>3, <1>14 DEF Repair
<1>4. CASE Check
  <2>1. hash' = hash /\ channel' = channel
    BY <1>4 DEF Check, redis
  <2>2. watcher.key = k => watcher'.key = k /\ watcher'.pc = "read"
    BY <1>0, <1>4 DEF Check, IsOverlaid, Goto
  <2> QED
    BY <1>13, <2>1, <2>2 DEF Answers
<1>5. CASE ReadField
  <2>1. hash' = hash /\ channel' = channel
    BY <1>5 DEF ReadField, redis
  <2>2. ASSUME watcher.key = k, hash[k] # Absent
        PROVE  hash[k] = Forced[k] \/ (watcher'.key = k /\ watcher'.pc = "edit")
    <3>1. Read(k) = hash[k]
      BY <2>2 DEF Read
    <3>2. \/ hash[k] = Forced[k]
          \/ watcher' = [watcher EXCEPT !.pc = "edit", !.value = hash[k]]
      BY <1>5, <2>2, <3>1 DEF ReadField, GotoWith
    <3> QED
      BY <1>0, <2>2, <3>2
  <2> QED
    BY <1>13, <2>1, <2>2 DEF Answers
<1>6. CASE Edit
  <2>1. hash' = hash /\ channel' = channel
    BY <1>6 DEF Edit, redis
  <2>2. watcher'.key = watcher.key /\ watcher'.pc = "markEdit"
    BY <1>0, <1>6 DEF Edit, Goto
  <2> QED
    BY <1>13, <2>1, <2>2 DEF Answers
<1>7. CASE MarkEdit
  <2>1. hash' = hash /\ channel' = channel
    BY <1>7 DEF MarkEdit, MarkKey, redis
  <2>2. watcher'.key = watcher.key /\ watcher'.pc = "saveEdit"
    BY <1>0, <1>7 DEF MarkEdit, MarkKey, Goto
  <2> QED
    BY <1>13, <2>1, <2>2 DEF Answers
<1>8. CASE SaveEdit
  <2>1. hash' = hash /\ channel' = channel
    BY <1>8 DEF SaveEdit, SaveNow, redis
  <2>2. watcher'.key = watcher.key /\ watcher'.pc = "reassert"
    BY <1>0, <1>8 DEF SaveEdit, Goto
  <2> QED
    BY <1>13, <2>1, <2>2 DEF Answers
<1>9. CASE Mark
  <2>1. hash' = hash /\ channel' = channel /\ watcher.pc = "mark"
    BY <1>9 DEF Mark, MarkKey, At, redis
  <2> QED
    BY <1>13, <2>1 DEF Answers, Repairs
<1>10. CASE SaveMark
  <2>1. hash' = hash /\ channel' = channel /\ watcher.pc = "save"
    BY <1>10 DEF SaveMark, SaveNow, At, redis
  <2> QED
    BY <1>13, <2>1 DEF Answers, Repairs
<1>11. CASE Reassert
  <2>1. SetField(watcher.key, Forced[watcher.key]) /\ watcher.pc = "reassert"
    BY <1>11 DEF Reassert, At
  <2>2. Forced[watcher.key] \in Values
    BY <2>1, OverlayAssumption DEF TypeInv, WatchesOverlaid
  <2>3. watcher.key \in Keys
    BY <1>0
  <2> QED
    BY <1>14, <2>1, <2>2, <2>3
<1> QED
  BY <1>1, <1>2, <1>3, <1>4, <1>5, <1>6, <1>7, <1>8, <1>9, <1>10, <1>11 DEF Watcher

LEMMA ClientForced ==
    ASSUME Listened, TypeInv, ForcedHolds, Client
    PROVE  ForcedHolds'
<1>0. /\ active' = active /\ consumer' = consumer /\ watcher' = watcher
      /\ Subscribed' = Subscribed /\ OverlayKeys \subseteq Keys
      /\ hash \in [Keys -> Entry] /\ channel \in Seq(Keys)
  BY ClientFrame, OverlayAssumption DEF TypeInv, TypeOK, Files, Subscribed
<1> SUFFICES ASSUME active, NEW k \in OverlayKeys
             PROVE  ForcedOrAnswered(k)'
  BY <1>0 DEF ForcedHolds
<1>9. ForcedOrAnswered(k) /\ k \in Keys
  BY <1>0 DEF ForcedHolds
<1>1. ASSUME NEW j \in Keys, ClientSet(j)
      PROVE  ForcedOrAnswered(k)'
  <2>1. PICK v \in EditValues[j] : hash' = [hash EXCEPT ![j] = v]
    BY <1>1 DEF ClientSet
  <2>2. v # Absent /\ Subscribed /\ channel' = channel /\ unpublished' = unpublished \union {j}
    BY <1>1, EnvironmentAssumption, ValuesAssumption DEF ClientSet, Listened
  <2>3. CASE k = j
    BY <1>0, <2>1, <2>2, <2>3 DEF ForcedOrAnswered, Noticed
  <2>4. CASE k # j
    BY <1>0, <1>9, <2>1, <2>2, <2>4, SameChannel DEF ForcedOrAnswered, ToBeForced, Noticed
  <2> QED
    BY <2>3, <2>4
<1>2. ASSUME NEW j \in Keys, ClientPublish(j)
      PROVE  ForcedOrAnswered(k)'
  <2>1. <<j>> \in Seq(Keys) /\ Len(<<j>>) = 1 /\ <<j>>[1] = j
    OBVIOUS
  <2>2. channel' = Published(<<j>>) /\ unpublished' = unpublished \ {j} /\ hash' = hash
    BY <1>2 DEF ClientPublish
  <2>3. /\ InChannel(k) => InChannel(k)'
        /\ Subscribed => \A i \in 1..Len(<<j>>) : InChannel(<<j>>[i])'
    BY <1>0, <1>9, <2>1, <2>2, PublishedNames
  <2>4. Subscribed => InChannel(j)'
    BY <2>1, <2>3
  <2> QED
    BY <1>0, <1>9, <2>2, <2>3, <2>4 DEF ForcedOrAnswered, ToBeForced, Noticed
<1>3. ASSUME NEW c \in {"apply", "clear"}, ClientCommand(c)
      PROVE  ForcedOrAnswered(k)'
  BY <1>0, <1>3, <1>9, SameChannel DEF ClientCommand, ForcedOrAnswered, ToBeForced, Noticed
<1> QED
  BY <1>1, <1>2, <1>3 DEF Client

LEMMA NextRepairs ==
    ASSUME TypeInv, RepairsChecked, [Next]_vars
    PROVE  RepairsChecked'
<1>0. /\ watcher \in [pc : WatcherSteps, key : Keys, value : Values]
      /\ WatcherIdle \in [pc : WatcherSteps, key : Keys, value : Values]
      /\ WatcherIdle.pc = "idle" /\ WatcherOff.pc = "off"
      /\ hash \in [Keys -> Entry] /\ channel \in Seq(Keys)
  BY WatcherConstants DEF TypeInv, TypeOK, Files
<1>1. CASE Receive
  <2>1. channel # <<>> /\ Head(channel) \in Keys
    BY <1>0, <1>1 DEF Receive
  <2>2. watcher'.key = Head(channel)
    BY <1>0, <1>1 DEF Receive
  <2>3. watcher'.pc = "fallback" => IsInvalid(Head(channel), hash[Head(channel)])
    BY <1>0, <1>1 DEF Receive
  <2> QED
    BY <1>0, <2>1, <2>2, <2>3 DEF RepairsChecked, IsInvalid, Entry
<1>2. CASE Watcher /\ ~Receive
  <2>1. watcher'.pc # "fallback"
    BY <1>0, <1>2 DEF Watcher, Fallback, Repair, Check, ReadField, Edit, MarkEdit, SaveEdit, Reassert,
                      Mark, SaveMark, MarkKey, Goto, GotoWith, Rest
  <2> QED
    BY <2>1 DEF RepairsChecked
<1>3. CASE Crash \/ Reboot
  BY <1>0, <1>3, StopFrame DEF RepairsChecked
<1>4. CASE Boot
  <2>1. watcher' = watcher \/ watcher' = WatcherIdle
    BY <1>4 DEF Boot, Load, LoadWith, Rewrite, Reapply, Reapplied, Subscribe
  <2> QED
    BY <1>0, <2>1 DEF RepairsChecked
<1>5. CASE Consumer \/ Client \/ Wait \/ UNCHANGED vars
  <2>1. watcher' = watcher
    BY <1>5, ConsumerFrame, ClientFrame DEF Wait, vars
  <2> QED
    BY <2>1 DEF RepairsChecked
<1> QED
  BY <1>1, <1>2, <1>3, <1>4, <1>5 DEF Next

LEMMA NextForced ==
    ASSUME Listened, ForcedRepairable, TypeInv, Phases, RepairsChecked, ForcedHolds, [Next]_vars
    PROVE  ForcedHolds'
<1>1. CASE Boot
  <2>0. active' = active /\ ~Subscribed /\ (boot \in {"down", "rewrite", "reapply"} => ~active)
    BY <1>1, BootFrame
  <2>1. CASE Load \/ Rewrite \/ Reapply
    BY <2>0, <2>1 DEF Load, LoadWith, Rewrite, Reapply, ForcedHolds
  <2>2. CASE Reapplied \/ Subscribe
    <3>1. hash' = hash /\ consumer' = consumer
      BY <2>2 DEF Reapplied, Subscribe, redis
    <3> QED
      BY <2>0, <3>1 DEF ForcedHolds, ForcedOrAnswered, ToBeForced, Noticed
  <2> QED
    BY <1>1, <2>1, <2>2 DEF Boot
<1>2. CASE Watcher
  BY <1>2, WatcherForced
<1>3. CASE Consumer
  BY <1>3, ConsumerForced
<1>4. CASE Client
  BY <1>4, ClientForced
<1>5. CASE Crash \/ Reboot
  <2>1. ~active'
    BY <1>5, StopFrame
  <2> QED
    BY <2>1 DEF ForcedHolds
<1>6. CASE Wait \/ UNCHANGED vars
  BY <1>6, SameChannel, OverlayAssumption
     DEF Wait, vars, memory, redis, clients, ForcedHolds, ForcedOrAnswered, ToBeForced, Noticed, Subscribed
<1> QED
  BY <1>1, <1>2, <1>3, <1>4, <1>5, <1>6 DEF Next

\* The invariant of service mode.
ModeInv == Phases /\ StatusTold /\ ModeOnFile /\ RepairsChecked /\ ForcedHolds

\* It holds whatever the commands, the edits, the faults and the crashes are.
THEOREM ModeInvariance ==
    ASSUME Listened, ForcedRepairable
    PROVE  Spec => [](TypeInv /\ ModeInv)
<1>1. Init => TypeInv /\ ModeInv
  <2> SUFFICES ASSUME Init PROVE TypeInv /\ ModeInv
    OBVIOUS
  <2>1. TypeInv /\ Phases
    BY InitType, InitPhases
  <2>2. StatusTold /\ ModeOnFile /\ ForcedHolds
    BY DEF Init, StatusTold, ModeOnFile, ForcedHolds
  <2>3. RepairsChecked
    BY WatcherConstants DEF Init, RepairsChecked
  <2> QED
    BY <2>1, <2>2, <2>3 DEF ModeInv
<1>2. TypeInv /\ ModeInv /\ [Next]_vars => TypeInv' /\ ModeInv'
  BY NextType, NextPhases, NextMode, NextRepairs, NextForced DEF ModeInv
<1> QED
  BY <1>1, <1>2, PTL DEF Spec

\* Service mode is all or nothing once the service is at rest: what the status field
\* says, what is forced and what the file says of the next start agree, whatever
\* commands, edits, faults, crashes and reboots came before.
THEOREM ServiceModeIsWhole ==
    ASSUME Listened, ForcedRepairable
    PROVE  Spec => []ModeIsWhole
<1>1. TypeInv /\ ModeInv => ModeIsWhole
  <2> SUFFICES ASSUME TypeInv, ModeInv, Quiescent
               PROVE  /\ status = active
                      /\ active => \A k \in OverlayKeys : hash[k] = Forced[k]
                      /\ faults = 0 => modeFile = active
    BY DEF ModeIsWhole
  <2>1. /\ boot = "up" /\ watcher.pc = "idle" /\ consumer.pc = "idle"
        /\ channel = <<>> /\ unpublished = {}
    BY DEF Quiescent, AtRest, At, Stepping
  <2>2. status = active
    BY <2>1 DEF ModeInv, StatusTold, Entering, Leaving
  <2>3. faults = 0 => modeFile = active
    BY <2>1 DEF ModeInv, ModeOnFile
  <2>4. \A k \in Keys : ~InChannel(k)
    BY <2>1 DEF InChannel
  <2>5. active => \A k \in OverlayKeys : hash[k] = Forced[k]
    BY <2>1, <2>4, OverlayAssumption
       DEF ModeInv, ForcedHolds, ForcedOrAnswered, ToBeForced, Noticed, Answers, Repairs
  <2> QED
    BY <2>2, <2>3, <2>5
<1> QED
  BY <1>1, ModeInvariance, PTL

--------------------------------------------------------------------------------
(* Every write of a field is noticed.                                           *)

\* What the watcher will hear of stays so, and a field the consumer sets is
\* published to a watcher that listens.
LEMMA ConsumerNotices ==
    ASSUME TypeInv, Consumer
    PROVE  \A k \in Keys : /\ \A S : Noticed(k, S) => Noticed(k, S)'
                           /\ Subscribed /\ hash'[k] # hash[k] => InChannel(k)'
<1>0. /\ watcher' = watcher /\ unpublished' = unpublished /\ Subscribed' = Subscribed
      /\ OverlayKeys \subseteq Keys
  BY ConsumerFrame, OverlayAssumption DEF Subscribed
<1>1. SUFFICES \A k \in Keys : /\ InChannel(k) => InChannel(k)'
                               /\ Subscribed /\ hash'[k] # hash[k] => InChannel(k)'
  BY <1>0 DEF Noticed
<1>2. CASE hash' = hash /\ channel' = channel
  BY <1>2, SameChannel
<1>3. CASE \/ TakeCommand \/ Activate \/ FlagOn \/ StatusOn \/ Unset \/ FlagOff
           \/ StatusOff \/ ClearSave \/ \E k \in OverlayKeys : Capture(k)
  <2>1. hash' = hash /\ channel' = channel
    BY <1>3 DEF TakeCommand, Activate, FlagOn, StatusOn, Report, Unset, FlagOff, StatusOff,
                ClearSave, Capture, redis
  <2> QED
    BY <1>2, <2>1
<1>4. CASE Drop
  BY <1>4, DroppedNames
<1>5. ASSUME NEW j \in OverlayKeys, ForceField(j) \/ Restore(j)
      PROVE  \A k \in Keys : /\ InChannel(k) => InChannel(k)'
                             /\ Subscribed /\ hash'[k] # hash[k] => InChannel(k)'
  <2>1. PICK v : SetField(j, v)
    BY <1>5 DEF ForceField, Restore
  <2> QED
    BY <1>0, <2>1, SetNames DEF TypeInv
<1> QED
  BY <1>3, <1>4, <1>5 DEF Consumer

LEMMA ClientNotices ==
    ASSUME TypeInv, Client
    PROVE  \A k \in Keys : /\ \A S : Noticed(k, S) => Noticed(k, S)'
                           /\ hash'[k] # hash[k] => k \in unpublished' /\ hash'[k] \in EditValues[k]
                           /\ Listened /\ hash'[k] # hash[k] => Subscribed'
<1>0. /\ watcher' = watcher /\ Subscribed' = Subscribed
      /\ hash \in [Keys -> Entry] /\ channel \in Seq(Keys)
  BY ClientFrame DEF TypeInv, TypeOK, Files, Subscribed
<1> SUFFICES ASSUME NEW k \in Keys
             PROVE  /\ \A S : Noticed(k, S) => Noticed(k, S)'
                    /\ hash'[k] # hash[k] => k \in unpublished' /\ hash'[k] \in EditValues[k]
                    /\ Listened /\ hash'[k] # hash[k] => Subscribed'
  OBVIOUS
<1>1. ASSUME NEW j \in Keys, ClientSet(j)
      PROVE  /\ \A S : Noticed(k, S) => Noticed(k, S)'
             /\ hash'[k] # hash[k] => k \in unpublished' /\ hash'[k] \in EditValues[k]
             /\ Listened /\ hash'[k] # hash[k] => Subscribed'
  <2>1. PICK v \in EditValues[j] : hash' = [hash EXCEPT ![j] = v]
    BY <1>1 DEF ClientSet
  <2>2. /\ channel' = channel /\ unpublished' = unpublished \union {j}
        /\ Listened => Subscribed
    BY <1>1 DEF ClientSet, Listened
  <2> QED
    BY <1>0, <2>1, <2>2, SameChannel DEF Noticed
<1>2. ASSUME NEW j \in Keys, ClientPublish(j)
      PROVE  /\ \A S : Noticed(k, S) => Noticed(k, S)'
             /\ hash'[k] # hash[k] => k \in unpublished' /\ hash'[k] \in EditValues[k]
             /\ Listened /\ hash'[k] # hash[k] => Subscribed'
  <2>1. <<j>> \in Seq(Keys) /\ Len(<<j>>) = 1 /\ <<j>>[1] = j
    OBVIOUS
  <2>2. channel' = Published(<<j>>) /\ unpublished' = unpublished \ {j} /\ hash' = hash
    BY <1>2 DEF ClientPublish
  <2>3. /\ InChannel(k) => InChannel(k)'
        /\ Subscribed => \A i \in 1..Len(<<j>>) : InChannel(<<j>>[i])'
    BY <1>0, <2>1, <2>2, PublishedNames
  <2>4. Subscribed => InChannel(j)'
    BY <2>1, <2>3
  <2> QED
    BY <1>0, <2>2, <2>3, <2>4 DEF Noticed
<1>3. ASSUME NEW c \in {"apply", "clear"}, ClientCommand(c)
      PROVE  /\ \A S : Noticed(k, S) => Noticed(k, S)'
             /\ hash'[k] # hash[k] => k \in unpublished' /\ hash'[k] \in EditValues[k]
             /\ Listened /\ hash'[k] # hash[k] => Subscribed'
  BY <1>0, <1>3, SameChannel DEF ClientCommand, Noticed
<1> QED
  BY <1>1, <1>2, <1>3 DEF Client

\* The watcher receives a name at a time, and hears of what it writes itself.
LEMMA WatcherNotices ==
    ASSUME TypeInv, Watcher
    PROVE  \A k \in Keys :
              /\ k \in unpublished \/ InChannel(k)
                     => \/ k \in unpublished' \/ InChannel(k)'
                        \/ /\ watcher'.key = k
                           /\ watcher'.pc = IF IsInvalid(k, hash'[k]) THEN "fallback" ELSE "check"
              /\ hash'[k] # hash[k] => InChannel(k)'
<1>0. /\ unpublished' = unpublished /\ Subscribed
      /\ watcher \in [pc : WatcherSteps, key : Keys, value : Values]
      /\ WatcherIdle \in [pc : WatcherSteps, key : Keys, value : Values]
      /\ hash \in [Keys -> Entry] /\ channel \in Seq(Keys)
  BY WatcherFrame, WatcherConstants DEF TypeInv, TypeOK, Files
<1>1. CASE Receive
  <2>1. channel # <<>> /\ channel' = Tail(channel) /\ hash' = hash
    BY <1>1 DEF Receive
  <2>2. /\ watcher'.key = Head(channel)
        /\ watcher'.pc = IF IsInvalid(Head(channel), hash[Head(channel)]) THEN "fallback" ELSE "check"
    BY <1>0, <1>1 DEF Receive
  <2>3. \A j \in Keys \ {Head(channel)} : InChannel(j) => InChannel(j)'
    BY <1>0, <2>1, ReceivedNames
  <2> QED
    BY <1>0, <2>1, <2>2, <2>3
<1>2. CASE Repair \/ Reassert
  <2>1. PICK v : SetField(watcher.key, v)
    BY <1>2 DEF Repair, Reassert
  <2>2. ASSUME NEW j \in Keys, j = watcher.key
        PROVE  /\ \A i \in Keys : InChannel(i) => InChannel(i)'
               /\ InChannel(j)' /\ \A i \in Keys \ {j} : hash'[i] = hash[i]
    BY <1>0, <2>1, <2>2, SetNames DEF TypeInv
  <2>3. watcher.key \in Keys
    BY <1>0
  <2> QED
    BY <1>0, <2>2, <2>3
<1>3. CASE Watcher /\ ~(Receive \/ Repair \/ Reassert)
  <2>1. hash' = hash /\ channel' = channel
    BY <1>3 DEF Watcher, Fallback, Check, ReadField, Edit, MarkEdit, Mark, MarkKey, SaveEdit, SaveMark,
                SaveNow, redis
  <2> QED
    BY <1>0, <2>1, SameChannel
<1> QED
  BY <1>1, <1>2, <1>3

--------------------------------------------------------------------------------
(* Invalid values.                                                              *)

\* A setting that may be refused and has a safe value, which like its default and
\* its forced value is a valid one.
Checked == {k \in Keys : Safe[k] # Absent}
SchemaIsSound == \A k \in Checked : /\ Safe[k] \in Valid[k] /\ Default[k] \in Valid[k]
                                    /\ k \in OverlayKeys => Forced[k] \in Valid[k]

\* No client writes an invalid value that the watcher might not hear of.
InvalidHeard == Listened \/ \A k \in Checked : EditValues[k] \subseteq Valid[k]

\* Without the overlay nothing is captured.
BaseTaken == ~active => base = NoBase

\* Before the watcher listens there is no invalid value for it to miss, neither in
\* the hash nor on the way back into it.
NothingInvalid ==
    boot # "down" /\ ~Subscribed =>
        \A k \in Checked : /\ ~IsInvalid(k, hash[k])
                           /\ k \in OverlayKeys => /\ ~IsInvalid(k, consumer.held[k])
                                                   /\ ~IsInvalid(k, base[k].value)

\* Once it listens, it will repair what is invalid.
InvalidNoticed == Subscribed => \A k \in Checked : IsInvalid(k, hash[k]) => Noticed(k, Repairs)

ValidInv == Phases /\ BaseTaken /\ NothingInvalid /\ InvalidNoticed

LEMMA NextBase == ASSUME TypeInv, Phases, BaseTaken, [Next]_vars PROVE BaseTaken'
<1>1. CASE Boot
  BY <1>1, BootFrame DEF BaseTaken
<1>2. CASE Consumer
  <2>1. CASE Activate
    BY <2>1 DEF Activate, BaseTaken
  <2>2. CASE Unset
    BY <2>2 DEF Unset, BaseTaken
  <2>3. CASE Consumer /\ ~(Activate \/ Unset)
    <3>1. active' = active /\ base' = base
      BY <2>3 DEF Consumer, TakeCommand, FlagOn, StatusOn, Report, FlagOff, Drop, StatusOff, ClearSave,
                  Capture, ForceField, Restore, memory
    <3> QED
      BY <3>1 DEF BaseTaken
  <2> QED
    BY <1>2, <2>1, <2>2, <2>3
<1>3. CASE Watcher
  <2>1. CASE Edit
    BY <2>1 DEF Edit, BaseTaken
  <2>2. CASE Watcher /\ ~Edit
    <3>1. active' = active /\ base' = base
      BY <2>2 DEF Watcher, Receive, Fallback, Repair, Check, ReadField, MarkEdit, Mark, MarkKey,
                  SaveEdit, SaveMark, SaveNow, Reassert, memory
    <3> QED
      BY <3>1 DEF BaseTaken
  <2> QED
    BY <1>3, <2>1, <2>2
<1>4. CASE Client
  BY <1>4, ClientFrame DEF BaseTaken
<1>5. CASE Crash \/ Reboot
  BY <1>5, StopFrame DEF BaseTaken
<1>6. CASE Wait \/ UNCHANGED vars
  BY <1>6 DEF Wait, vars, memory, BaseTaken
<1> QED
  BY <1>1, <1>2, <1>3, <1>4, <1>5, <1>6 DEF Next

\* What is not there is not invalid; the empty tables have nothing in them.
LEMMA NothingHeld ==
    \A k \in OverlayKeys : ~IsInvalid(k, NoHeld[k]) /\ ~IsInvalid(k, NoBase[k].value)
BY DEF IsInvalid, NoHeld, NoBase

LEMMA BootValid ==
    ASSUME SchemaIsSound, TypeInv, ValidInv, Boot
    PROVE  NothingInvalid' /\ InvalidNoticed'
<1>0. /\ active' = active /\ base' = base /\ ~Subscribed
      /\ boot \in {"down", "rewrite", "reapply"} => ~active /\ consumer = ConsumerIdle
  BY BootFrame DEF ValidInv, Phases
<1>1. CASE Load
  <2>1. /\ base' = NoBase /\ consumer' = ConsumerIdle /\ ~Subscribed'
        /\ \A k \in Keys : hash'[k] = IF Loaded(k) # Absent THEN Loaded(k)
                                      ELSE IF Default[k] # Absent THEN Default[k]
                                      ELSE IF k \in Transient THEN Absent ELSE hash[k]
    BY <1>0, <1>1 DEF Load, LoadWith, ValidInv, BaseTaken, Subscribed
  <2>2. ASSUME NEW k \in Checked
        PROVE  ~IsInvalid(k, hash'[k])
    <3>1. /\ k \in Keys /\ Safe[k] \in Valid[k] /\ Default[k] \in Valid[k]
          /\ Default[k] # Absent
      BY <2>2, ValuesAssumption, SchemaAssumption DEF SchemaIsSound, Checked
    <3>2. Loaded(k) # Absent => Loaded(k) \in Valid[k]
      BY <3>1 DEF Loaded, Dropped, Unsound, IsInvalid
    <3> QED
      BY <2>1, <3>1, <3>2 DEF IsInvalid
  <2> QED
    BY <2>1, <2>2, NothingHeld, IdleConsumer DEF NothingInvalid, InvalidNoticed
<1>2. CASE Rewrite
  <2>1. hash' = hash /\ watcher' = watcher /\ consumer' = consumer /\ boot # "down"
    BY <1>2 DEF Rewrite, redis
  <2> QED
    BY <1>0, <2>1 DEF ValidInv, NothingInvalid, InvalidNoticed, Subscribed
<1>3. CASE Reapply
  <2>1. hash' = hash /\ watcher' = watcher /\ boot = "reapply"
    BY <1>3 DEF Reapply, redis
  <2>2. consumer'.held = NoHeld
    <3>1. \/ consumer' = ConsumerIdle
          \/ consumer' = [ConsumerIdle EXCEPT !.pc = "capture", !.todo = OverlayKeys]
      BY <1>0, <1>3, <2>1 DEF Reapply
    <3> QED
      BY <3>1, IdleConsumer, OtherConstants
  <2> QED
    BY <1>0, <2>1, <2>2, NothingHeld DEF ValidInv, NothingInvalid, InvalidNoticed, Subscribed
<1>4. CASE Reapplied
  <2>1. hash' = hash /\ watcher' = watcher /\ consumer' = consumer /\ boot # "down"
    BY <1>4 DEF Reapplied, redis
  <2> QED
    BY <1>0, <2>1 DEF ValidInv, NothingInvalid, InvalidNoticed, Subscribed
<1>5. CASE Subscribe
  <2>1. hash' = hash /\ consumer' = consumer /\ boot = "up" /\ boot' = boot
    BY <1>5 DEF Subscribe, redis
  <2> QED
    BY <1>0, <2>1 DEF ValidInv, NothingInvalid, InvalidNoticed
<1> QED
  BY <1>1, <1>2, <1>3, <1>4, <1>5 DEF Boot

LEMMA ConsumerValid ==
    ASSUME SchemaIsSound, TypeInv, ValidInv, Consumer
    PROVE  NothingInvalid' /\ InvalidNoticed'
<1>0. /\ boot' = boot /\ boot # "down" /\ watcher' = watcher /\ Subscribed' = Subscribed
      /\ consumer \in [pc : ConsumerSteps, todo : SUBSET OverlayKeys, held : [OverlayKeys -> Entry]]
      /\ base \in Base /\ hash \in [Keys -> Entry] /\ OverlayKeys \subseteq Keys
  BY ConsumerMoves, OverlayAssumption DEF ValidInv, TypeInv, TypeOK, Files, Subscribed
<1>1. InvalidNoticed'
  <2> SUFFICES ASSUME Subscribed, NEW k \in Checked, IsInvalid(k, hash'[k])
               PROVE  Noticed(k, Repairs)'
    BY <1>0 DEF InvalidNoticed
  <2>1. k \in Keys
    BY DEF Checked
  <2>2. Noticed(k, Repairs) => Noticed(k, Repairs)'
    BY <2>1, ConsumerNotices
  <2>3. hash'[k] # hash[k] => InChannel(k)'
    BY <2>1, ConsumerNotices
  <2>4. hash'[k] = hash[k] => Noticed(k, Repairs)
    BY DEF ValidInv, InvalidNoticed
  <2> QED
    BY <1>0, <2>2, <2>3, <2>4 DEF Noticed
<1>2. NothingInvalid'
  <2> SUFFICES ASSUME ~Subscribed, NEW k \in Checked
               PROVE  /\ ~IsInvalid(k, hash'[k])
                      /\ k \in OverlayKeys => /\ ~IsInvalid(k, consumer'.held[k])
                                              /\ ~IsInvalid(k, base'[k].value)
    BY <1>0 DEF NothingInvalid
  <2>0. /\ k \in Keys /\ ~IsInvalid(k, hash[k])
        /\ k \in OverlayKeys => /\ ~IsInvalid(k, consumer.held[k])
                                /\ ~IsInvalid(k, base[k].value)
        /\ Default[k] \in Valid[k] /\ (k \in OverlayKeys => Forced[k] \in Valid[k])
    BY <1>0 DEF ValidInv, NothingInvalid, Checked, SchemaIsSound
  <2>1. CASE TakeCommand \/ FlagOn \/ FlagOff \/ StatusOff
    BY <1>0, <2>0, <2>1
       DEF TakeCommand, FlagOn, FlagOff, StatusOff, Report, Then, redis, memory
  <2>2. CASE StatusOn \/ ClearSave
    <3>1. hash' = hash /\ base' = base /\ consumer' = ConsumerIdle
      BY <2>2 DEF StatusOn, Report, ClearSave, redis, memory
    <3> QED
      BY <2>0, <3>1, NothingHeld, IdleConsumer
  <2>3. CASE Activate
    <3>1. hash' = hash /\ consumer'.held = NoHeld
      BY <2>3 DEF Activate, ConsumerIdle, redis
    <3>2. k \in OverlayKeys => base'[k].value \in {base[k].value, consumer.held[k]}
      BY <1>0, <2>3 DEF Activate
    <3> QED
      BY <2>0, <3>1, <3>2, NothingHeld
  <2>4. CASE Unset
    <3>1. hash' = hash /\ base' \in {base, NoBase}
      BY <2>4 DEF Unset, redis
    <3>2. \/ consumer' = ConsumerIdle
          \/ consumer' = [ConsumerIdle EXCEPT !.pc = "flagOff",
                                              !.held = [i \in OverlayKeys |-> base[i].value]]
      BY <2>4 DEF Unset
    <3>3. consumer'.held = NoHeld \/ consumer'.held = [i \in OverlayKeys |-> base[i].value]
      BY <3>2, IdleConsumer, OtherConstants
    <3>4. k \in OverlayKeys => consumer'.held[k] \in {NoHeld[k], base[k].value}
      BY <3>3
    <3> QED
      BY <2>0, <3>1, <3>4, NothingHeld
  <2>5. CASE Drop
    <3>1. hash'[k] \in {Absent, hash[k]}
      BY <2>0, <2>5 DEF Drop
    <3>2. base' = base /\ consumer'.held = consumer.held
      BY <1>0, <2>5 DEF Drop, Then, memory
    <3> QED
      BY <2>0, <3>1, <3>2 DEF IsInvalid
  <2>6. ASSUME NEW j \in OverlayKeys, Capture(j)
        PROVE  /\ ~IsInvalid(k, hash'[k])
               /\ k \in OverlayKeys => /\ ~IsInvalid(k, consumer'.held[k])
                                       /\ ~IsInvalid(k, base'[k].value)
    <3>1. hash' = hash /\ base' = base
      BY <2>6 DEF Capture, redis, memory
    <3>2. k \in OverlayKeys => consumer'.held[k] \in {consumer.held[k], hash[k]}
      BY <1>0, <2>6 DEF Capture
    <3> QED
      BY <2>0, <3>1, <3>2
  <2>7. ASSUME NEW j \in OverlayKeys, ForceField(j) \/ Restore(j)
        PROVE  /\ ~IsInvalid(k, hash'[k])
               /\ k \in OverlayKeys => /\ ~IsInvalid(k, consumer'.held[k])
                                       /\ ~IsInvalid(k, base'[k].value)
    <3>1. base' = base /\ consumer'.held = consumer.held
      BY <1>0, <2>7 DEF ForceField, Restore, Then, memory
    <3>2. PICK v \in {Forced[j], Restored(j)} : SetField(j, v)
      BY <2>7 DEF ForceField, Restore
    <3>3. hash'[k] = hash[k] \/ (k = j /\ hash'[k] = v)
      BY <1>0, <2>0, <3>2 DEF SetField
    <3>4. k = j => ~IsInvalid(k, v)
      BY <2>0, <3>2 DEF Restored, IsInvalid
    <3> QED
      BY <2>0, <3>1, <3>3, <3>4
  <2> QED
    BY <2>1, <2>2, <2>3, <2>4, <2>5, <2>6, <2>7 DEF Consumer
<1> QED
  BY <1>1, <1>2

LEMMA WatcherValid ==
    ASSUME TypeInv, ValidInv, Watcher
    PROVE  NothingInvalid' /\ InvalidNoticed'
<1>0. /\ Subscribed /\ Subscribed'
      /\ watcher \in [pc : WatcherSteps, key : Keys, value : Values]
      /\ WatcherIdle \in [pc : WatcherSteps, key : Keys, value : Values]
  BY WatcherFrame, WatcherConstants DEF TypeInv, TypeOK
<1> SUFFICES ASSUME NEW k \in Checked, IsInvalid(k, hash'[k])
             PROVE  Noticed(k, Repairs)'
  BY <1>0 DEF NothingInvalid, InvalidNoticed
<1>1. k \in Keys /\ Safe[k] # Absent
  BY DEF Checked
<1>2. CASE hash'[k] # hash[k]
  <2>1. InChannel(k)'
    BY <1>1, <1>2, WatcherNotices
  <2> QED
    BY <1>0, <2>1 DEF Noticed
<1>3. CASE hash'[k] = hash[k]
  <2>1. Noticed(k, Repairs)
    BY <1>0, <1>3 DEF ValidInv, InvalidNoticed
  <2>2. CASE k \in unpublished \/ InChannel(k)
    <3>1. \/ k \in unpublished' \/ InChannel(k)'
          \/ watcher'.key = k /\ watcher'.pc = "fallback"
      BY <1>1, <2>2, WatcherNotices
    <3> QED
      BY <1>0, <3>1 DEF Noticed, Repairs
  <2>3. CASE watcher.key = k /\ watcher.pc = "fallback"
    <3>1. Fallback
      BY <2>3 DEF Watcher, Receive, Fallback, Repair, Check, ReadField, Edit, MarkEdit, Mark, MarkKey,
                  SaveEdit, SaveMark, Reassert, At
    <3>2. FallbackFor(watcher.key) # Absent
      BY <1>1, <2>3 DEF FallbackFor
    <3>3. watcher'.key = k /\ watcher'.pc = "repair"
      BY <1>0, <2>3, <3>1, <3>2 DEF Fallback, GotoWith
    <3> QED
      BY <1>0, <3>3 DEF Noticed, Repairs
  <2>4. CASE watcher.key = k /\ watcher.pc = "repair"
    <3>1. Repair
      BY <2>4 DEF Watcher, Receive, Fallback, Repair, Check, ReadField, Edit, MarkEdit, Mark, MarkKey,
                  SaveEdit, SaveMark, Reassert, At
    <3>2. SetField(k, watcher.value)
      BY <2>4, <3>1 DEF Repair
    <3>3. InChannel(k)'
      BY <1>0, <1>1, <3>2, SetNames DEF TypeInv
    <3> QED
      BY <1>0, <3>3 DEF Noticed
  <2> QED
    BY <2>1, <2>2, <2>3, <2>4 DEF Noticed, Repairs
<1> QED
  BY <1>2, <1>3

LEMMA ClientValid ==
    ASSUME InvalidHeard, TypeInv, ValidInv, Client
    PROVE  NothingInvalid' /\ InvalidNoticed'
<1>0. /\ boot' = boot /\ base' = base /\ consumer' = consumer /\ Subscribed' = Subscribed
  BY ClientFrame DEF Subscribed
<1>1. \A k \in Checked : k \in Keys
  BY DEF Checked
<1>2. InvalidNoticed'
  <2> SUFFICES ASSUME Subscribed, NEW k \in Checked, IsInvalid(k, hash'[k])
               PROVE  Noticed(k, Repairs)'
    BY <1>0 DEF InvalidNoticed
  <2>1. Noticed(k, Repairs) => Noticed(k, Repairs)'
    BY <1>1, ClientNotices
  <2>2. hash'[k] # hash[k] => k \in unpublished'
    BY <1>1, ClientNotices
  <2>3. hash'[k] = hash[k] => Noticed(k, Repairs)
    BY DEF ValidInv, InvalidNoticed
  <2> QED
    BY <1>0, <2>1, <2>2, <2>3 DEF Noticed
<1>3. NothingInvalid'
  <2>1. ~Subscribed => \A k \in Checked : hash'[k] = hash[k] \/ ~IsInvalid(k, hash'[k])
    BY <1>0, <1>1, ClientNotices DEF InvalidHeard, IsInvalid
  <2> QED
    BY <1>0, <1>1, <2>1 DEF ValidInv, NothingInvalid
<1> QED
  BY <1>2, <1>3

LEMMA NextValid ==
    ASSUME InvalidHeard, SchemaIsSound, TypeInv, ValidInv, [Next]_vars
    PROVE  ValidInv'
<1>1. Phases' /\ BaseTaken'
  BY NextPhases, NextBase DEF ValidInv
<1>2. CASE Boot
  BY <1>1, <1>2, BootValid DEF ValidInv
<1>3. CASE Consumer
  BY <1>1, <1>3, ConsumerValid DEF ValidInv
<1>4. CASE Watcher
  BY <1>1, <1>4, WatcherValid DEF ValidInv
<1>5. CASE Client
  BY <1>1, <1>5, ClientValid DEF ValidInv
<1>6. CASE Crash \/ Reboot
  <2>1. boot' = "down" /\ ~Subscribed'
    BY <1>6, StopFrame
  <2> QED
    BY <1>1, <2>1 DEF ValidInv, NothingInvalid, InvalidNoticed
<1>7. CASE Wait \/ UNCHANGED vars
  <2>1. /\ boot' = boot /\ hash' = hash /\ base' = base /\ consumer' = consumer
        /\ watcher' = watcher /\ channel' = channel /\ unpublished' = unpublished
    BY <1>7 DEF Wait, vars, redis, memory, clients
  <2> QED
    BY <1>1, <2>1, SameChannel DEF ValidInv, NothingInvalid, InvalidNoticed, Noticed, Subscribed, Checked
<1> QED
  BY <1>2, <1>3, <1>4, <1>5, <1>6, <1>7 DEF Next

\* No invalid value settles, wherever it came from, a client, the file or the base
\* of a forced setting: what the watcher did not see before it subscribed was valid.
THEOREM InvalidValuesGo ==
    ASSUME InvalidHeard, SchemaIsSound
    PROVE  Spec => []InvalidNeverSettles
<1>1. Init => TypeInv /\ ValidInv
  <2> SUFFICES ASSUME Init PROVE TypeInv /\ ValidInv
    OBVIOUS
  <2>1. TypeInv /\ Phases
    BY InitType, InitPhases
  <2>2. BaseTaken /\ NothingInvalid /\ InvalidNoticed
    BY WatcherConstants DEF Init, BaseTaken, NothingInvalid, InvalidNoticed, Subscribed
  <2> QED
    BY <2>1, <2>2 DEF ValidInv
<1>2. TypeInv /\ ValidInv /\ [Next]_vars => TypeInv' /\ ValidInv'
  BY NextType, NextValid
<1>3. TypeInv /\ ValidInv => InvalidNeverSettles
  <2> SUFFICES ASSUME ValidInv, Quiescent, NEW k \in Keys, Safe[k] # Absent, IsInvalid(k, hash[k])
               PROVE  FALSE
    BY DEF InvalidNeverSettles
  <2>1. /\ watcher.pc = "idle" /\ channel = <<>> /\ unpublished = {}
    BY DEF Quiescent, AtRest, At
  <2>2. Noticed(k, Repairs)
    BY <2>1 DEF ValidInv, InvalidNoticed, Checked, Subscribed
  <2> QED
    BY <2>1, <2>2 DEF Noticed, InChannel, Repairs
<1> QED
  BY <1>1, <1>2, <1>3, PTL DEF Spec
================================================================================
