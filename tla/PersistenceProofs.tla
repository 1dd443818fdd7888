---------------------------- MODULE PersistenceProofs ----------------------------
(* What SettingsService keeps on file, for any settings, any overlay, any       *)
(* number of edits, commands, faults and crashes: the file follows the hash,    *)
(* a setting stays on it, a choice is replaced there by edits and, for the time *)
(* the end of service mode takes, by the forced value, and comes back.          *)
EXTENDS SettingsProofs

\* The settings that the service persists and service mode leaves alone.
Plain == Keys \ (Transient \union OverlayKeys)

\* A persistent setting that may be refused has a safe value.
PersistentRepairable == \A k \in Keys \ Transient : Valid[k] = Values \/ Safe[k] # Absent

--------------------------------------------------------------------------------
(* Saves.                                                                       *)

\* A save that is not refused leaves on file what is to be persisted, unless a
\* write fails; without a failure the service knows what is on file.
LEMMA SaveWrites ==
    ASSUME TypeInv, Save, faults' = 0,
           \A k \in Keys \ Transient : lastPersisted[k] = toml[k]
    PROVE  /\ \A k \in Keys \ Transient : lastPersisted'[k] = toml'[k]
           /\ ~Refused => \A k \in Keys \ Transient : toml'[k] = Persisted[k]
<1>1. faults \in Nat
  BY BoundsAssumption DEF TypeInv, TypeOK
<1>2. CASE toml' = toml /\ lastPersisted' = lastPersisted /\ (Refused \/ Persisted = lastPersisted)
  BY <1>2
<1>3. CASE toml' = Persisted /\ lastPersisted' = Persisted
  BY <1>3
<1>4. CASE faults' = faults + 1
  BY <1>1, <1>4
<1> QED
  BY <1>2, <1>3, <1>4 DEF Save

\* Whatever happens, an entry stays or is the one to be persisted.
LEMMA SaveChoice ==
    ASSUME Save, NEW k \in Keys
    PROVE  toml'[k] \in {toml[k], Persisted[k]}
BY DEF Save

\* What a step persists of a setting, when nothing changes that decides on it.
LEMMA SamePersisted ==
    ASSUME NEW k \in Keys, hash'[k] = hash[k], k \in userSet' <=> k \in userSet,
           IsOverlaid(k)' <=> IsOverlaid(k), IsOverlaid(k) => base'[k] = base[k]
    PROVE  Persisted'[k] = Persisted[k]
BY DEF Persisted

\* At boot: the service has what it loaded, and has not saved what it repaired.
Loading ==
    boot = "rewrite" => /\ lastPersisted = NoFields
                        /\ userSet = {k \in Keys : Loaded(k) # Absent}
                        /\ \A k \in userSet : hash[k] = Loaded(k)

\* While nothing failed, the service knows what is on file.
FileKnown ==
    faults = 0 /\ boot \notin {"down", "rewrite"} =>
        \A k \in Keys \ Transient : lastPersisted[k] = toml[k]

\* What is loaded of the file, of a schema that is sound.
LEMMA LoadedSound ==
    ASSUME SchemaIsSound, PersistentRepairable, TypeInv
    PROVE  \A k \in Keys : /\ ~IsInvalid(k, Loaded(k))
                           /\ k \notin Transient /\ toml[k] # Absent => Loaded(k) # Absent
                           /\ k \notin Transient /\ ~IsInvalid(k, toml[k]) => Loaded(k) = toml[k]
<1> SUFFICES ASSUME NEW k \in Keys
             PROVE  /\ ~IsInvalid(k, Loaded(k))
                    /\ k \notin Transient /\ toml[k] # Absent => Loaded(k) # Absent
                    /\ k \notin Transient /\ ~IsInvalid(k, toml[k]) => Loaded(k) = toml[k]
  OBVIOUS
<1>1. Safe[k] # Absent => Safe[k] \in Valid[k]
  BY DEF SchemaIsSound, Checked
<1>2. k \notin Transient /\ Unsound(k) => Safe[k] # Absent
  BY DEF PersistentRepairable, Unsound, IsInvalid, TypeInv, TypeOK, Files, Entry
<1> QED
  BY <1>1, <1>2 DEF Loaded, Dropped, Unsound, IsInvalid

\* The save that rewrites a repaired file is never refused, and the service then
\* knows what is on file, even when there was nothing to write.
LEMMA RewriteWrites ==
    ASSUME SchemaIsSound, PersistentRepairable, TypeInv, Phases, Loading, Rewrite, faults' = 0
    PROVE  \A k \in Keys \ Transient : lastPersisted'[k] = toml'[k] /\ toml'[k] = Persisted[k]
<1>0. /\ boot = "rewrite" /\ Save /\ ~active /\ faults \in Nat
  BY BoundsAssumption DEF Rewrite, Phases, TypeInv, TypeOK
<1>1. \A k \in Keys : Persisted[k] = Loaded(k)
  BY <1>0 DEF Persisted, Loading, IsOverlaid
<1>2. ~Refused
  BY <1>1, LoadedSound DEF Refused
<1>3. CASE Persisted = lastPersisted /\ toml' = toml /\ lastPersisted' = lastPersisted
  <2> SUFFICES ASSUME NEW k \in Keys \ Transient
               PROVE  lastPersisted'[k] = toml'[k] /\ toml'[k] = Persisted[k]
    OBVIOUS
  <2>1. Loaded(k) = Absent
    BY <1>0, <1>1, <1>3 DEF Loading, NoFields
  <2>2. toml[k] = Absent
    BY <2>1, LoadedSound
  <2> QED
    BY <1>1, <1>3, <2>1, <2>2
<1>4. CASE toml' = Persisted /\ lastPersisted' = Persisted
  BY <1>4
<1>5. CASE faults' = faults + 1
  BY <1>0, <1>5
<1> QED
  BY <1>0, <1>2, <1>3, <1>4, <1>5 DEF Save

LEMMA NextLoading ==
    ASSUME TypeInv, Phases, Loading, [Next]_vars
    PROVE  Loading'
<1> SUFFICES ASSUME boot' = "rewrite"
             PROVE  /\ lastPersisted' = NoFields
                    /\ userSet' = {k \in Keys : Loaded(k)' # Absent}
                    /\ \A k \in userSet' : hash'[k] = Loaded(k)'
  BY DEF Loading
<1>1. CASE Load
  <2>1. /\ \A k \in Keys : Loaded(k)' = Loaded(k)
        /\ NeedsRewrite
    BY <1>1 DEF Load, LoadWith, Loaded, Dropped, Unsound, files
  <2>2. /\ lastPersisted' = NoFields /\ userSet' = {k \in Keys : Loaded(k) # Absent}
        /\ \A k \in userSet' : hash'[k] = Loaded(k)
    BY <1>1, <2>1 DEF Load, LoadWith, Snapshot
  <2> QED
    BY <2>1, <2>2
<1>2. CASE Boot /\ ~Load
  BY <1>2 DEF Boot, Rewrite, Reapply, Reapplied, Subscribe
<1>3. CASE Watcher
  BY <1>3, WatcherFrame DEF Phases
<1>4. CASE Consumer
  BY <1>4, ConsumerMoves
<1>5. CASE Client
  <2>1. boot = "rewrite" /\ toml' = toml /\ userSet' = userSet /\ lastPersisted' = lastPersisted
    BY <1>5, ClientFrame
  <2>2. hash' = hash
    BY <1>5, <2>1 DEF Client, ClientSet, ClientPublish, ClientCommand, Phases
  <2> QED
    BY <2>1, <2>2 DEF Loading, Loaded, Dropped, Unsound
<1>6. CASE Crash \/ Reboot
  BY <1>6, StopFrame
<1>7. CASE Wait \/ UNCHANGED vars
  <2>1. /\ boot = "rewrite" /\ toml' = toml /\ userSet' = userSet /\ lastPersisted' = lastPersisted
        /\ hash' = hash
    BY <1>7 DEF Wait, vars, redis, files, memory
  <2> QED
    BY <2>1 DEF Loading, Loaded, Dropped, Unsound
<1> QED
  BY <1>1, <1>2, <1>3, <1>4, <1>5, <1>6, <1>7 DEF Next

LEMMA NextKnown ==
    ASSUME SchemaIsSound, PersistentRepairable, TypeInv, Phases, Loading, FileKnown, [Next]_vars
    PROVE  FileKnown'
<1> SUFFICES ASSUME faults' = 0, boot' \notin {"down", "rewrite"}
             PROVE  \A k \in Keys \ Transient : lastPersisted'[k] = toml'[k]
  BY DEF FileKnown
<1>0. faults = 0
  BY FaultsStay
<1>1. CASE Load
  <2>1. ~NeedsRewrite /\ lastPersisted' = [k \in Keys |-> Loaded(k)] /\ toml' = toml
    BY <1>1 DEF Load, LoadWith, Snapshot, files
  <2>2. \A k \in Keys \ Transient : Loaded(k) = toml[k]
    BY <2>1 DEF NeedsRewrite, Loaded
  <2> QED
    BY <2>1, <2>2
<1>2. CASE Rewrite
  BY <1>2, RewriteWrites
<1>3. CASE SaveEdit \/ SaveMark \/ ClearSave
  <2>1. Save
    BY <1>3 DEF SaveEdit, SaveMark, SaveNow, ClearSave
  <2>2. boot \notin {"down", "rewrite"}
    BY <1>3 DEF SaveEdit, SaveMark, SaveNow, ClearSave
  <2> QED
    BY <1>0, <2>1, <2>2, SaveWrites DEF FileKnown
<1>4. CASE boot' = boot /\ toml' = toml /\ lastPersisted' = lastPersisted
  BY <1>0, <1>4 DEF FileKnown
<1>5. CASE Reapply \/ Reapplied \/ Subscribe
  <2>1. toml' = toml /\ lastPersisted' = lastPersisted /\ boot \notin {"down", "rewrite"}
    BY <1>5 DEF Reapply, Reapplied, Subscribe, files, memory
  <2> QED
    BY <1>0, <2>1 DEF FileKnown
<1>6. CASE Watcher /\ ~(SaveEdit \/ SaveMark)
  <2>1. boot' = boot /\ toml' = toml /\ lastPersisted' = lastPersisted
    BY <1>6 DEF Watcher, Receive, Fallback, Repair, Check, ReadField, Edit, MarkEdit, Mark, MarkKey,
                Reassert, files, memory
  <2> QED
    BY <1>4, <2>1
<1>7. CASE Consumer /\ ~ClearSave
  <2>1. boot' = boot /\ toml' = toml /\ lastPersisted' = lastPersisted
    BY <1>7 DEF Consumer, TakeCommand, Activate, FlagOn, StatusOn, Report, Unset, FlagOff, Drop,
                StatusOff, Capture, ForceField, Restore, files, memory
  <2> QED
    BY <1>4, <2>1
<1>8. CASE Client
  BY <1>4, <1>8, ClientFrame
<1>9. CASE Crash \/ Reboot
  BY <1>9, StopFrame
<1>10. CASE Wait \/ UNCHANGED vars
  <2>1. boot' = boot /\ toml' = toml /\ lastPersisted' = lastPersisted
    BY <1>10 DEF Wait, vars, files, memory
  <2> QED
    BY <1>4, <2>1
<1> QED
  BY <1>1, <1>2, <1>3, <1>5, <1>6, <1>7, <1>8, <1>9, <1>10 DEF Next, Boot

--------------------------------------------------------------------------------
(* The settings service mode forces are never invalid.                          *)

\* A setting that service mode forces is never written an invalid value; its
\* default and its forced value are valid.
ForcedSound == \A k \in OverlayKeys :
    Valid[k] = Values \/ (EditValues[k] \union {Forced[k], Default[k]}) \subseteq Valid[k]

\* Nor are there any invalid ones of it on their way.
OverlayClean == \A k \in OverlayKeys : /\ ~IsInvalid(k, hash[k])
                                       /\ ~IsInvalid(k, consumer.held[k])
                                       /\ ~IsInvalid(k, base[k].value)

\* So that a read of it does not make an empty string of it.
OverlayPresent == boot # "down" => \A k \in OverlayKeys : Valid[k] = Values \/ hash[k] # Absent
EditClean == watcher.pc = "edit" => watcher.value \in Valid[watcher.key]

\* The repair of a value is for settings with a format.  Transient settings are
\* not marked as a user's choice, unless service mode forces them.
Marks ==
    /\ userSet \intersect Transient \subseteq OverlayKeys
    /\ watcher.pc \in {"mark", "save"} => watcher.key \notin Transient
    /\ watcher.pc \in Repairs => Valid[watcher.key] # Values /\ watcher.key \notin OverlayKeys

CleanInv == OverlayClean /\ OverlayPresent /\ EditClean /\ Marks

\* Where the values come from that the consumer puts into the hash and the base.
LEMMA ConsumerValues ==
    ASSUME TypeInv, Consumer, NEW k \in OverlayKeys
    PROVE  /\ hash'[k] \in {hash[k], Forced[k], Restored(k)}
           /\ consumer'.held[k] \in {consumer.held[k], hash[k], base[k].value, Absent}
           /\ base'[k].value \in {base[k].value, consumer.held[k], Absent}
<1>0. /\ consumer \in [pc : ConsumerSteps, todo : SUBSET OverlayKeys, held : [OverlayKeys -> Entry]]
      /\ base \in Base /\ hash \in [Keys -> Entry] /\ OverlayKeys \subseteq Keys /\ k \in Keys
      /\ NoHeld[k] = Absent /\ NoBase[k].value = Absent
  BY OverlayAssumption DEF TypeInv, TypeOK, Files, NoHeld, NoBase
<1>1. CASE TakeCommand \/ FlagOn \/ FlagOff \/ StatusOff
  BY <1>0, <1>1 DEF TakeCommand, FlagOn, FlagOff, StatusOff, Report, Then, redis, memory
<1>2. CASE StatusOn \/ ClearSave
  <2>1. hash' = hash /\ base' = base /\ consumer' = ConsumerIdle
    BY <1>2 DEF StatusOn, Report, ClearSave, redis, memory
  <2> QED
    BY <1>0, <2>1, IdleConsumer
<1>3. CASE Activate
  <2>1. hash' = hash /\ consumer'.held = NoHeld
    BY <1>3 DEF Activate, ConsumerIdle, redis
  <2>2. base'[k].value \in {base[k].value, consumer.held[k]}
    BY <1>0, <1>3 DEF Activate
  <2> QED
    BY <1>0, <2>1, <2>2
<1>4. CASE Unset
  <2>1. hash' = hash /\ base' \in {base, NoBase}
    BY <1>4 DEF Unset, redis
  <2>2. \/ consumer' = ConsumerIdle
        \/ consumer' = [ConsumerIdle EXCEPT !.pc = "flagOff",
                                            !.held = [i \in OverlayKeys |-> base[i].value]]
    BY <1>4 DEF Unset
  <2>3. consumer'.held = NoHeld \/ consumer'.held = [i \in OverlayKeys |-> base[i].value]
    BY <2>2, IdleConsumer, OtherConstants
  <2>4. consumer'.held[k] \in {NoHeld[k], base[k].value}
    BY <2>3
  <2> QED
    BY <1>0, <2>1, <2>4
<1>5. CASE Drop
  <2>1. hash'[k] \in {hash[k], Restored(k)}
    BY <1>0, <1>5 DEF Drop, ToDrop, ToRestore
  <2>2. base' = base /\ consumer'.held = consumer.held
    BY <1>0, <1>5 DEF Drop, Then, memory
  <2> QED
    BY <2>1, <2>2
<1>6. CASE \E j \in OverlayKeys : Capture(j)
  <2>1. hash' = hash /\ base' = base
    BY <1>6 DEF Capture, redis, memory
  <2>2. consumer'.held[k] \in {consumer.held[k], hash[k]}
    BY <1>0, <1>6 DEF Capture
  <2> QED
    BY <2>1, <2>2
<1>7. ASSUME NEW j \in OverlayKeys, ForceField(j) \/ Restore(j)
      PROVE  /\ hash'[k] \in {hash[k], Forced[k], Restored(k)}
             /\ consumer'.held[k] \in {consumer.held[k], hash[k], base[k].value, Absent}
             /\ base'[k].value \in {base[k].value, consumer.held[k], Absent}
  <2>1. base' = base /\ consumer'.held = consumer.held
    BY <1>0, <1>7 DEF ForceField, Restore, Then, memory
  <2>2. PICK v \in {Forced[j], Restored(j)} : SetField(j, v)
    BY <1>7 DEF ForceField, Restore
  <2>3. hash'[k] = hash[k] \/ (k = j /\ hash'[k] = v)
    BY <1>0, <2>2 DEF SetField
  <2> QED
    BY <2>1, <2>2, <2>3
<1> QED
  BY <1>1, <1>2, <1>3, <1>4, <1>5, <1>6, <1>7 DEF Consumer

LEMMA ConsumerClean ==
    ASSUME ForcedSound, TypeInv, Phases, CleanInv, Consumer
    PROVE  CleanInv'
<1>0. boot' = boot /\ watcher' = watcher /\ boot # "down"
  BY ConsumerMoves
<1>1. Marks'
  <2>1. CASE Unset
    BY <1>0, <2>1 DEF Unset, CleanInv, Marks
  <2>2. CASE Consumer /\ ~Unset
    <3>1. userSet' = userSet
      BY <2>2 DEF Consumer, TakeCommand, Activate, FlagOn, StatusOn, Report, FlagOff, Drop, StatusOff,
                  ClearSave, Capture, ForceField, Restore, memory
    <3> QED
      BY <1>0, <3>1 DEF CleanInv, Marks
  <2> QED
    BY <2>1, <2>2
<1>2. EditClean'
  BY <1>0 DEF CleanInv, EditClean
<1>3. ASSUME NEW k \in OverlayKeys
      PROVE  /\ ~IsInvalid(k, hash'[k]) /\ ~IsInvalid(k, consumer'.held[k])
             /\ ~IsInvalid(k, base'[k].value)
             /\ Valid[k] = Values \/ hash'[k] # Absent
  <2>1. /\ ~IsInvalid(k, hash[k]) /\ ~IsInvalid(k, consumer.held[k]) /\ ~IsInvalid(k, base[k].value)
        /\ Valid[k] = Values \/ hash[k] # Absent
    BY <1>0 DEF CleanInv, OverlayClean, OverlayPresent
  <2>2. /\ k \in Keys /\ Forced[k] \in Values /\ Default[k] \in Values \union {Absent}
        /\ Valid[k] \subseteq Values /\ Absent \notin Values
    BY OverlayAssumption, SchemaAssumption, ValuesAssumption DEF Files, Entry
  <2>3. /\ ~IsInvalid(k, Forced[k]) /\ ~IsInvalid(k, Restored(k))
        /\ Valid[k] = Values \/ (Forced[k] # Absent /\ Restored(k) # Absent)
    BY <2>1, <2>2 DEF ForcedSound, Restored, IsInvalid
  <2> QED
    BY <2>1, <2>3, ConsumerValues DEF IsInvalid
<1> QED
  BY <1>0, <1>1, <1>2, <1>3 DEF CleanInv, OverlayClean, OverlayPresent

LEMMA BootClean ==
    ASSUME SchemaIsSound, PersistentRepairable, ForcedSound, TypeInv, Phases, CleanInv, Boot
    PROVE  CleanInv'
<1>0. /\ base' = base /\ ~Subscribed
      /\ boot \in {"down", "rewrite", "reapply"} => consumer = ConsumerIdle
  BY BootFrame DEF Phases
<1>1. watcher' = watcher \/ watcher' = WatcherIdle
  BY DEF Boot, Load, LoadWith, Rewrite, Reapply, Reapplied, Subscribe
<1>2. EditClean'
  BY <1>1, WatcherConstants DEF CleanInv, EditClean
<1>3. CASE Load
  <2>1. /\ watcher' = watcher /\ consumer' = consumer /\ userSet' = {k \in Keys : Loaded(k) # Absent}
        /\ \A k \in Keys : hash'[k] = IF Loaded(k) # Absent THEN Loaded(k)
                                      ELSE IF Default[k] # Absent THEN Default[k]
                                      ELSE IF k \in Transient THEN Absent ELSE hash[k]
    BY <1>3 DEF Load, LoadWith
  <2>2. Marks'
    <3>1. \A k \in Transient : Loaded(k) = Absent
      BY DEF Loaded, Dropped
    <3> QED
      BY <2>1, <3>1 DEF CleanInv, Marks
  <2>3. ASSUME NEW k \in OverlayKeys
        PROVE  ~IsInvalid(k, hash'[k]) /\ (Valid[k] = Values \/ hash'[k] # Absent)
    <3>1. /\ k \in Keys /\ Default[k] \in Values \union {Absent}
          /\ Valid[k] \subseteq Values /\ Absent \notin Values
      BY OverlayAssumption, SchemaAssumption, ValuesAssumption DEF Files, Entry
    <3>2. ~IsInvalid(k, Loaded(k)) /\ ~IsInvalid(k, hash[k])
      BY <3>1, LoadedSound DEF CleanInv, OverlayClean
    <3>3. Valid[k] = Values \/ Default[k] \in Valid[k]
      BY DEF ForcedSound
    <3> QED
      BY <2>1, <3>1, <3>2, <3>3 DEF IsInvalid
  <2>4. OverlayClean' /\ OverlayPresent'
    BY <1>0, <2>1, <2>3 DEF CleanInv, OverlayClean, OverlayPresent
  <2> QED
    BY <1>2, <2>2, <2>4 DEF CleanInv
<1>4. CASE Boot /\ ~Load
  <2>1. hash' = hash /\ userSet' = userSet /\ boot # "down"
    BY <1>4 DEF Boot, Rewrite, Reapply, Reapplied, Subscribe, redis, memory
  <2>2. consumer'.held = consumer.held
    <3>1. \/ consumer' = consumer \/ (consumer = ConsumerIdle /\ consumer' = ConsumerIdle)
          \/ /\ consumer = ConsumerIdle
             /\ consumer' = [ConsumerIdle EXCEPT !.pc = "capture", !.todo = OverlayKeys]
      BY <1>0, <1>4 DEF Boot, Rewrite, Reapply, Reapplied, Subscribe
    <3> QED
      BY <3>1, OtherConstants
  <2>3. Marks'
    BY <1>1, <2>1, WatcherConstants DEF CleanInv, Marks, Repairs
  <2> QED
    BY <1>0, <1>2, <2>1, <2>2, <2>3 DEF CleanInv, OverlayClean, OverlayPresent
<1> QED
  BY <1>3, <1>4

LEMMA WatcherMarks ==
    ASSUME TypeInv, Phases, CleanInv, Watcher
    PROVE  Marks'
<1>0. /\ watcher \in [pc : WatcherSteps, key : Keys, value : Values]
      /\ WatcherIdle \in [pc : WatcherSteps, key : Keys, value : Values]
      /\ WatcherIdle.pc = "idle" /\ Marks
  BY WatcherConstants DEF TypeInv, TypeOK, CleanInv
<1>1. CASE Receive
  <2> DEFINE k == Head(channel)
  <2>1. channel \in Seq(Keys) /\ channel # <<>> /\ channel' = Tail(channel)
    BY <1>1 DEF Receive, TypeInv, TypeOK
  <2>2. k \in Keys /\ userSet' = userSet
    BY <1>1, <2>1, ReceivedNames DEF Receive, memory
  <2>3. watcher'.key = k /\ watcher'.pc = IF IsInvalid(k, hash[k]) THEN "fallback" ELSE "check"
    BY <1>0, <1>1, <2>2 DEF Receive
  <2>4. IsInvalid(k, hash[k]) => k \notin OverlayKeys /\ Valid[k] # Values
    BY <2>2 DEF CleanInv, OverlayClean, IsInvalid, TypeInv, TypeOK, Files, Entry
  <2> QED
    BY <1>0, <2>2, <2>3, <2>4 DEF Marks, Repairs
<1>2. CASE Fallback
  BY <1>0, <1>2 DEF Fallback, At, Rest, GotoWith, Marks, Repairs, memory
<1>3. CASE Check
  BY <1>0, <1>3 DEF Check, At, Rest, Goto, Marks, Repairs, memory
<1>4. CASE ReadField
  BY <1>0, <1>4 DEF ReadField, At, Rest, GotoWith, Marks, Repairs, memory
<1>5. CASE Edit
  BY <1>0, <1>5 DEF Edit, At, Goto, Marks, Repairs
<1>6. CASE MarkEdit
  <2>1. watcher.key \in OverlayKeys
    BY <1>6 DEF MarkEdit, MarkKey, At, TypeInv, WatchesOverlaid
  <2> QED
    BY <1>0, <1>6, <2>1 DEF MarkEdit, MarkKey, Goto, Marks, Repairs
<1>7. CASE Mark
  BY <1>0, <1>7 DEF Mark, MarkKey, At, Goto, Marks, Repairs
<1>8. CASE SaveEdit
  BY <1>0, <1>8 DEF SaveEdit, SaveNow, Goto, Marks, Repairs
<1>9. CASE SaveMark \/ Repair \/ Reassert
  <2>1. userSet' = userSet /\ watcher' = WatcherIdle
    BY <1>9 DEF SaveMark, SaveNow, Repair, Reassert, Rest, memory
  <2> QED
    BY <1>0, <2>1 DEF Marks, Repairs
<1> QED
  BY <1>1, <1>2, <1>3, <1>4, <1>5, <1>6, <1>7, <1>8, <1>9 DEF Watcher

LEMMA WatcherClean ==
    ASSUME ForcedSound, TypeInv, Phases, CleanInv, Watcher
    PROVE  CleanInv'
<1>0. /\ watcher \in [pc : WatcherSteps, key : Keys, value : Values]
      /\ WatcherIdle \in [pc : WatcherSteps, key : Keys, value : Values]
      /\ WatcherIdle.pc = "idle"
      /\ boot' = boot /\ consumer' = consumer /\ boot = "up"
      /\ hash \in [Keys -> Entry] /\ base \in Base
  BY WatcherConstants, WatcherFrame DEF TypeInv, TypeOK, Files, Phases
<1>1. Marks'
  BY WatcherMarks
<1>2. ASSUME NEW k \in OverlayKeys
      PROVE  ~IsInvalid(k, hash'[k]) /\ (Valid[k] = Values \/ hash'[k] # Absent)
  <2>1. k \in Keys /\ ~IsInvalid(k, hash[k]) /\ (Valid[k] = Values \/ hash[k] # Absent)
    BY <1>0, OverlayAssumption DEF CleanInv, OverlayClean, OverlayPresent
  <2>2. CASE Repair
    <3>1. watcher.key # k
      BY <2>2 DEF Repair, At, CleanInv, Marks, Repairs
    <3>2. hash'[k] = hash[k]
      BY <1>0, <2>1, <2>2, <3>1 DEF Repair, SetField
    <3> QED
      BY <2>1, <3>2
  <2>3. CASE Reassert
    <3>1. hash'[k] \in {hash[k], Forced[k]}
      BY <1>0, <2>1, <2>3 DEF Reassert, SetField
    <3>2. ~IsInvalid(k, Forced[k]) /\ Forced[k] # Absent
      BY OverlayAssumption, ValuesAssumption DEF ForcedSound, IsInvalid
    <3> QED
      BY <2>1, <3>1, <3>2
  <2>4. CASE Watcher /\ ~(Repair \/ Reassert)
    <3>1. hash' = hash
      BY <2>4 DEF Watcher, Receive, Fallback, Check, ReadField, Edit, MarkEdit, Mark, MarkKey, SaveEdit,
                  SaveMark, SaveNow, redis
    <3> QED
      BY <2>1, <3>1
  <2> QED
    BY <2>2, <2>3, <2>4
<1>3. ASSUME NEW k \in OverlayKeys
      PROVE  ~IsInvalid(k, base'[k].value)
  <2>1. ~IsInvalid(k, base[k].value)
    BY DEF CleanInv, OverlayClean
  <2>2. CASE Edit
    <3>1. base'[k].value = base[k].value \/ (watcher.key = k /\ base'[k].value = watcher.value)
      BY <1>0, <2>2 DEF Edit, Base
    <3>2. watcher.value \in Valid[watcher.key]
      BY <2>2 DEF Edit, At, CleanInv, EditClean
    <3> QED
      BY <2>1, <3>1, <3>2 DEF IsInvalid
  <2>3. CASE Watcher /\ ~Edit
    <3>1. base' = base
      BY <2>3 DEF Watcher, Receive, Fallback, Repair, Check, ReadField, MarkEdit, Mark, MarkKey, SaveEdit,
                  SaveMark, SaveNow, Reassert, memory
    <3> QED
      BY <2>1, <3>1
  <2> QED
    BY <2>2, <2>3
<1>4. EditClean'
  <2>1. CASE ReadField
    <3> DEFINE k == watcher.key
    <3>1. k \in OverlayKeys /\ k \in Keys
      BY <1>0, <2>1 DEF ReadField, At, TypeInv, WatchesOverlaid
    <3>2. ~IsInvalid(k, hash[k]) /\ (Valid[k] = Values \/ hash[k] # Absent)
      BY <1>0, <3>1 DEF CleanInv, OverlayClean, OverlayPresent
    <3>3. Read(k) \in Valid[k]
      BY <1>0, <3>1, <3>2, ValuesAssumption DEF Read, IsInvalid, Entry
    <3>4. watcher'.pc = "edit" => watcher'.key = k /\ watcher'.value = Read(k)
      BY <1>0, <2>1 DEF ReadField, Rest, GotoWith
    <3> QED
      BY <3>3, <3>4 DEF EditClean
  <2>2. CASE Watcher /\ ~ReadField
    <3>1. watcher'.pc # "edit"
      BY <1>0, <2>2 DEF Watcher, Receive, Fallback, Repair, Check, Edit, MarkEdit, SaveEdit, Reassert,
                        Mark, SaveMark, MarkKey, Goto, GotoWith, Rest
    <3> QED
      BY <3>1 DEF EditClean
  <2> QED
    BY <2>1, <2>2
<1> QED
  BY <1>0, <1>1, <1>2, <1>3, <1>4 DEF CleanInv, OverlayClean, OverlayPresent

LEMMA NextClean ==
    ASSUME SchemaIsSound, PersistentRepairable, ForcedSound, TypeInv, Phases, CleanInv, [Next]_vars
    PROVE  CleanInv'
<1>1. CASE Boot
  BY <1>1, BootClean
<1>2. CASE Watcher
  BY <1>2, WatcherClean
<1>3. CASE Consumer
  BY <1>3, ConsumerClean
<1>4. CASE Client
  <2>1. /\ boot' = boot /\ watcher' = watcher /\ consumer' = consumer /\ base' = base
        /\ userSet' = userSet /\ hash \in [Keys -> Entry] /\ OverlayKeys \subseteq Keys
    BY <1>4, ClientFrame, OverlayAssumption DEF TypeInv, TypeOK, Files
  <2>2. ASSUME NEW k \in OverlayKeys
        PROVE  hash'[k] \in {hash[k]} \union EditValues[k]
    BY <1>4, <2>1 DEF Client, ClientSet, ClientPublish, ClientCommand
  <2>3. ASSUME NEW k \in OverlayKeys
        PROVE  EditValues[k] \subseteq Valid[k] /\ Absent \notin EditValues[k]
    BY <2>1, EnvironmentAssumption, ValuesAssumption DEF ForcedSound
  <2>4. ASSUME NEW k \in OverlayKeys
        PROVE  /\ ~IsInvalid(k, hash[k]) => ~IsInvalid(k, hash'[k])
               /\ hash[k] # Absent => hash'[k] # Absent
    BY <2>2, <2>3 DEF IsInvalid
  <2> QED
    BY <2>1, <2>4 DEF CleanInv, OverlayClean, OverlayPresent, EditClean, Marks
<1>5. CASE Crash \/ Reboot
  <2>1. /\ boot' = "down" /\ consumer' = ConsumerIdle /\ watcher' = WatcherOff /\ base' = NoBase
        /\ userSet' = {}
    BY <1>5, StopFrame
  <2>2. hash' = hash \/ hash' = NoFields
    BY <1>5 DEF Crash, Reboot
  <2>3. \A k \in OverlayKeys : ~IsInvalid(k, hash[k]) => ~IsInvalid(k, hash'[k])
    BY <2>2, OverlayAssumption DEF NoFields, IsInvalid
  <2> QED
    BY <2>1, <2>3, WatcherConstants, IdleConsumer, NothingHeld
       DEF CleanInv, OverlayClean, OverlayPresent, EditClean, Marks, Repairs
<1>6. CASE Wait \/ UNCHANGED vars
  <2>1. /\ boot' = boot /\ watcher' = watcher /\ consumer' = consumer /\ base' = base
        /\ userSet' = userSet /\ hash' = hash
    BY <1>6 DEF Wait, vars, redis, memory
  <2> QED
    BY <2>1 DEF CleanInv, OverlayClean, OverlayPresent, EditClean, Marks
<1> QED
  BY <1>1, <1>2, <1>3, <1>4, <1>5, <1>6 DEF Next

--------------------------------------------------------------------------------
(* The file follows the hash.                                                   *)

\* The steps of the watcher that end in a save of the setting it is at, and those
\* that do so for a setting that service mode leaves alone.
Handled == {"check", "edit", "markEdit", "saveEdit", "mark", "save"}
PlainHandled == Repairs \union {"check", "mark", "save"}

\* Somebody is on the way to a save: the consumer, or the watcher once it has
\* heard of a plain setting.
SaveComes == \/ consumer.pc \in Leaving \union {"clearSave"}
             \/ \E j \in Plain : Noticed(j, PlainHandled)

\* An edit of k may be published before the watcher listens.
Missable(k) == EarlyEdits /\ EditValues[k] # {}

\* What is on file is what is to be, or a save is to come.
OnFileOrSaved(k) == Missable(k) \/ toml[k] = Persisted[k] \/ SaveComes \/ Noticed(k, Handled)

FileInv == faults = 0 /\ boot \notin {"down", "rewrite"} =>
               \A k \in Keys \ Transient : IsOverlaid(k) \/ OnFileOrSaved(k)

\* A save is refused for the sake of a value that the watcher will repair.
LEMMA RefusedComes ==
    ASSUME PersistentRepairable, TypeInv, ValidInv, CleanInv, boot # "down", Refused
    PROVE  Subscribed /\ \E j \in Plain : Noticed(j, Repairs)
<1>1. PICK j \in Keys : IsInvalid(j, Persisted[j])
  BY DEF Refused
<1>2. j \in userSet /\ Persisted[j] # Absent
  BY <1>1 DEF Persisted, IsInvalid
<1>3. j \notin OverlayKeys
  BY <1>1, <1>2 DEF Persisted, CleanInv, OverlayClean
<1>4. j \in Plain
  BY <1>2, <1>3 DEF CleanInv, Marks, Plain
<1>5. IsInvalid(j, hash[j])
  BY <1>1, <1>2, <1>3 DEF Persisted, IsOverlaid
<1>6. j \in Checked
  BY <1>4, <1>5 DEF IsInvalid, PersistentRepairable, Plain, Checked, TypeInv, TypeOK, Files, Entry
<1> QED
  BY <1>4, <1>5, <1>6 DEF ValidInv, NothingInvalid, InvalidNoticed

\* After a save all is on file, or the next save is on its way.
LEMMA SavesAll ==
    ASSUME PersistentRepairable, TypeInv, ValidInv, CleanInv, FileKnown, faults = 0, faults' = 0,
           SaveEdit \/ SaveMark \/ ClearSave
    PROVE  \A k \in Keys \ Transient : OnFileOrSaved(k)'
<1>0. /\ Save /\ boot \notin {"down", "rewrite"}
      /\ hash' = hash /\ userSet' = userSet /\ active' = active /\ base' = base
      /\ channel' = channel /\ unpublished' = unpublished
  <2>1. boot \notin {"down", "rewrite"}
    BY ConsumerMoves, WatcherFrame DEF ValidInv, Phases, Watcher, Consumer
  <2>2. CASE SaveEdit \/ SaveMark
    BY <2>1, <2>2 DEF SaveEdit, SaveMark, SaveNow, redis, clients
  <2>3. CASE ClearSave
    BY <2>1, <2>3 DEF ClearSave, redis, clients
  <2> QED
    BY <2>2, <2>3
<1>1. \A k \in Keys \ Transient : lastPersisted[k] = toml[k]
  BY <1>0 DEF FileKnown
<1>2. CASE ~Refused
  <2>1. \A k \in Keys \ Transient : toml'[k] = Persisted[k]
    BY <1>0, <1>1, <1>2, SaveWrites
  <2>2. \A k \in Keys : Persisted'[k] = Persisted[k]
    BY <1>0 DEF Persisted, IsOverlaid
  <2> QED
    BY <2>1, <2>2 DEF OnFileOrSaved
<1>3. CASE Refused
  <2>1. Subscribed /\ \E j \in Plain : Noticed(j, Repairs)
    BY <1>0, <1>3, RefusedComes
  <2>2. PICK j \in Plain : Noticed(j, Repairs)
    BY <2>1
  <2>3. j \in Keys /\ (InChannel(j) => InChannel(j)')
    BY <1>0, SameChannel DEF Plain
  <2>4. CASE SaveEdit \/ SaveMark
    <3>1. watcher.pc \notin Repairs
      BY <2>4 DEF SaveEdit, SaveMark, At, Repairs
    <3>2. Subscribed'
      BY <2>4, WatcherFrame DEF Watcher
    <3> QED
      BY <1>0, <2>2, <2>3, <3>1, <3>2 DEF Noticed, OnFileOrSaved, SaveComes
  <2>5. CASE ClearSave
    <3>1. watcher' = watcher
      BY <2>5 DEF ClearSave
    <3> QED
      BY <1>0, <2>2, <2>3, <3>1 DEF Noticed, Subscribed, OnFileOrSaved, SaveComes, PlainHandled
  <2> QED
    BY <2>4, <2>5
<1> QED
  BY <1>2, <1>3

\* What changes the hash behind the watcher's back, and the user's choices.
LEMMA ConsumerWrites ==
    ASSUME TypeInv, Phases, Consumer, NEW k \in Keys
    PROVE  /\ hash'[k] # hash[k] => \/ active /\ k \in OverlayKeys
                                    \/ consumer'.pc \in Leaving
           /\ userSet' = userSet \/ consumer'.pc = "flagOff"
           /\ ~ClearSave => toml' = toml
<1>0. /\ consumer \in [pc : ConsumerSteps, todo : SUBSET OverlayKeys, held : [OverlayKeys -> Entry]]
      /\ hash \in [Keys -> Entry]
      /\ consumer.pc \in Entering => active
  BY DEF Phases, TypeInv, TypeOK, Files
<1>1. CASE \/ TakeCommand \/ Activate \/ FlagOn \/ StatusOn \/ FlagOff
           \/ StatusOff \/ ClearSave \/ \E j \in OverlayKeys : Capture(j)
  BY <1>1 DEF TakeCommand, Activate, FlagOn, StatusOn, Report, FlagOff, StatusOff, ClearSave, Capture,
              redis, memory, files
<1>2. CASE Unset
  <2>1. hash' = hash /\ toml' = toml
    BY <1>2 DEF Unset, redis, files
  <2>2. userSet' = userSet \/ consumer' = [ConsumerIdle EXCEPT !.pc = "flagOff",
                                              !.held = [i \in OverlayKeys |-> base[i].value]]
    BY <1>2 DEF Unset
  <2> QED
    BY <2>1, <2>2, OtherConstants
<1>3. CASE Drop
  <2>1. userSet' = userSet /\ toml' = toml /\ consumer'.pc \in Leaving
    BY <1>0, <1>3 DEF Drop, Then, memory, files, Leaving
  <2> QED
    BY <2>1
<1>4. ASSUME NEW j \in OverlayKeys, ForceField(j)
      PROVE  /\ hash'[k] # hash[k] => active /\ k \in OverlayKeys
             /\ userSet' = userSet /\ toml' = toml
  BY <1>0, <1>4 DEF ForceField, Stepping, SetField, Entering, memory, files
<1>5. ASSUME NEW j \in OverlayKeys, Restore(j)
      PROVE  userSet' = userSet /\ toml' = toml /\ consumer'.pc \in Leaving
  BY <1>0, <1>5 DEF Restore, Then, NextOf, Leaving, memory, files
<1> QED
  BY <1>1, <1>2, <1>3, <1>4, <1>5 DEF Consumer

LEMMA ConsumerFile ==
    ASSUME PersistentRepairable, TypeInv, ValidInv, CleanInv, FileKnown, FileInv, Consumer, faults' = 0
    PROVE  FileInv'
<1>0. boot' = boot /\ faults = 0 /\ boot \notin {"down", "rewrite"} /\ Phases
  BY ConsumerMoves, FaultsStay DEF ValidInv, Next
<1>1. CASE ClearSave
  BY <1>0, <1>1, SavesAll DEF FileInv
<1>2. CASE ~ClearSave
  <2> SUFFICES ASSUME NEW k \in Keys \ Transient, ~IsOverlaid(k)'
               PROVE  OnFileOrSaved(k)'
    BY DEF FileInv
  <2>1. SaveComes => SaveComes'
    <3>1. CASE consumer.pc \in Leaving \union {"clearSave"}
      <4>1. consumer.pc # "clearSave"
        BY <1>0, <1>2 DEF Consumer, TakeCommand, Activate, FlagOn, StatusOn, Unset, FlagOff, Drop,
                          StatusOff, Capture, ForceField, Restore, Stepping
      <4>2. consumer'.pc \in Leaving \union {"clearSave"}
        BY <1>0, <3>1, <4>1, ConsumerMoves DEF Entering, Leaving
      <4> QED
        BY <4>2 DEF SaveComes
    <3>2. ASSUME NEW j \in Plain, Noticed(j, PlainHandled)
          PROVE  SaveComes'
      <4>1. Noticed(j, PlainHandled)'
        BY <3>2, ConsumerNotices DEF Plain
      <4> QED
        BY <4>1 DEF SaveComes
    <3> QED
      BY <3>1, <3>2 DEF SaveComes
  <2>2. Noticed(k, Handled) => Noticed(k, Handled)'
    BY ConsumerNotices
  <2>3. CASE IsOverlaid(k)
    <3>1. active = TRUE /\ active' = FALSE
      BY <2>3, WatcherConstants DEF IsOverlaid, TypeInv, TypeOK
    <3>2. consumer'.pc = "flagOff"
      BY <1>0, <3>1, ConsumerMoves
    <3> QED
      BY <3>2 DEF OnFileOrSaved, SaveComes, Leaving
  <2>4. CASE ~IsOverlaid(k) /\ toml[k] = Persisted[k]
    <3>1. CASE consumer'.pc \in Leaving
      BY <3>1 DEF OnFileOrSaved, SaveComes
    <3>2. CASE hash'[k] = hash[k] /\ consumer'.pc \notin Leaving
      <4>1. userSet' = userSet /\ toml' = toml
        BY <1>0, <1>2, <3>2, ConsumerWrites DEF Leaving
      <4>2. Persisted'[k] = Persisted[k]
        BY <2>4, <3>2, <4>1 DEF Persisted, IsOverlaid
      <4> QED
        BY <2>4, <4>1, <4>2 DEF OnFileOrSaved
    <3>3. CASE hash'[k] # hash[k] /\ consumer'.pc \notin Leaving
      BY <1>0, <2>4, <3>3, ConsumerWrites DEF IsOverlaid
    <3> QED
      BY <3>1, <3>2, <3>3
  <2>5. IsOverlaid(k) \/ OnFileOrSaved(k)
    BY <1>0 DEF FileInv
  <2> QED
    BY <2>1, <2>2, <2>3, <2>4, <2>5 DEF OnFileOrSaved
<1> QED
  BY <1>1, <1>2

\* A setting that the watcher has heard of comes to be saved.
LEMMA WatcherSaves ==
    ASSUME PersistentRepairable, TypeInv, ValidInv, CleanInv, Watcher, ~SaveEdit, ~SaveMark
    PROVE  /\ SaveComes => SaveComes'
           /\ \A k \in Keys \ Transient :
                 ~IsOverlaid(k) /\ Noticed(k, Handled) => SaveComes' \/ Noticed(k, Handled)'
<1>0. /\ watcher \in [pc : WatcherSteps, key : Keys, value : Values]
      /\ Subscribed /\ Subscribed' /\ consumer' = consumer /\ active' = active
      /\ unpublished' = unpublished /\ Marks'
  BY WatcherFrame, WatcherMarks DEF TypeInv, TypeOK, ValidInv
<1>1. ASSUME NEW j \in Plain, Noticed(j, PlainHandled)
      PROVE  Noticed(j, PlainHandled)'
  <2>0. j \in Keys /\ j \notin OverlayKeys /\ j \notin Transient
    BY DEF Plain
  <2>1. CASE j \in unpublished \/ InChannel(j)
    <3>1. \/ j \in unpublished' \/ InChannel(j)'
          \/ watcher'.key = j /\ watcher'.pc \in {"fallback", "check"}
      BY <2>0, <2>1, WatcherNotices
    <3> QED
      BY <1>0, <3>1 DEF Noticed, PlainHandled, Repairs
  <2>2. CASE watcher.key = j /\ watcher.pc = "fallback"
    <3>1. Fallback
      BY <2>2 DEF Watcher, Receive, Fallback, Repair, Check, ReadField, Edit, MarkEdit, Mark, MarkKey,
                  SaveEdit, SaveMark, Reassert, At
    <3>2. Safe[j] # Absent
      BY <2>0, <2>2 DEF CleanInv, Marks, Repairs, PersistentRepairable
    <3>3. FallbackFor(watcher.key) # Absent
      BY <2>2, <3>2 DEF FallbackFor
    <3>4. watcher'.key = j /\ watcher'.pc = "repair"
      BY <1>0, <2>2, <3>1, <3>3 DEF Fallback, GotoWith
    <3> QED
      BY <1>0, <3>4 DEF Noticed, PlainHandled, Repairs
  <2>3. CASE watcher.key = j /\ watcher.pc = "repair"
    <3>1. Repair
      BY <2>3 DEF Watcher, Receive, Fallback, Repair, Check, ReadField, Edit, MarkEdit, Mark, MarkKey,
                  SaveEdit, SaveMark, Reassert, At
    <3>2. SetField(j, watcher.value)
      BY <2>3, <3>1 DEF Repair
    <3>3. InChannel(j)'
      BY <1>0, <2>0, <3>2, SetNames DEF TypeInv
    <3> QED
      BY <1>0, <3>3 DEF Noticed
  <2>4. CASE watcher.key = j /\ watcher.pc = "check"
    <3>1. Check
      BY <2>4 DEF Watcher, Receive, Fallback, Repair, Check, ReadField, Edit, MarkEdit, Mark, MarkKey,
                  SaveEdit, SaveMark, Reassert, At
    <3>2. watcher'.key = j /\ watcher'.pc = "mark"
      BY <1>0, <2>0, <2>4, <3>1 DEF Check, Goto, IsOverlaid
    <3> QED
      BY <1>0, <3>2 DEF Noticed, PlainHandled
  <2>5. CASE watcher.key = j /\ watcher.pc = "mark"
    <3>1. Mark
      BY <2>5 DEF Watcher, Receive, Fallback, Repair, Check, ReadField, Edit, MarkEdit, Mark, MarkKey,
                  SaveEdit, SaveMark, Reassert, At
    <3>2. watcher'.key = j /\ watcher'.pc = "save"
      BY <1>0, <2>5, <3>1 DEF Mark, MarkKey, Goto
    <3> QED
      BY <1>0, <3>2 DEF Noticed, PlainHandled
  <2>6. watcher.pc # "save"
    BY DEF Watcher, Receive, Fallback, Repair, Check, ReadField, Edit, MarkEdit, Mark, MarkKey,
           Reassert, At
  <2> QED
    BY <1>1, <2>1, <2>2, <2>3, <2>4, <2>5, <2>6 DEF Noticed, PlainHandled, Repairs
<1>2. SaveComes => SaveComes'
  BY <1>0, <1>1 DEF SaveComes
<1>3. ASSUME NEW k \in Keys \ Transient, ~IsOverlaid(k), Noticed(k, Handled)
      PROVE  SaveComes' \/ Noticed(k, Handled)'
  <2>1. CASE k \in unpublished \/ InChannel(k)
    <3>1. \/ k \in unpublished' \/ InChannel(k)'
          \/ watcher'.key = k /\ watcher'.pc \in {"fallback", "check"}
      BY <2>1, WatcherNotices
    <3>2. CASE watcher'.key = k /\ watcher'.pc = "fallback"
      <4>1. k \in Plain
        BY <1>0, <3>2 DEF Marks, Repairs, Plain
      <4> QED
        BY <1>0, <3>2, <4>1 DEF SaveComes, Noticed, PlainHandled, Repairs
    <3> QED
      BY <1>0, <3>1, <3>2 DEF Noticed, Handled
  <2>2. CASE watcher.key = k /\ watcher.pc = "check"
    <3>1. Check
      BY <2>2 DEF Watcher, Receive, Fallback, Repair, Check, ReadField, Edit, MarkEdit, Mark, MarkKey,
                  SaveEdit, SaveMark, Reassert, At
    <3>2. watcher'.key = k /\ watcher'.pc = "mark"
      BY <1>0, <1>3, <2>2, <3>1 DEF Check, Goto
    <3> QED
      BY <1>0, <3>2 DEF Noticed, Handled
  <2>3. CASE watcher.key = k /\ watcher.pc \in {"edit", "markEdit", "mark"}
    <3>1. Edit \/ MarkEdit \/ Mark
      BY <2>3 DEF Watcher, Receive, Fallback, Repair, Check, ReadField, Edit, MarkEdit, Mark, MarkKey,
                  SaveEdit, SaveMark, Reassert, At
    <3>2. watcher'.key = k /\ watcher'.pc \in Handled
      BY <1>0, <2>3, <3>1 DEF Edit, MarkEdit, Mark, MarkKey, Goto, Handled
    <3> QED
      BY <1>0, <3>2 DEF Noticed
  <2>4. watcher.pc \notin {"save", "saveEdit"}
    BY DEF Watcher, Receive, Fallback, Repair, Check, ReadField, Edit, MarkEdit, Mark, MarkKey,
           Reassert, At
  <2> QED
    BY <1>3, <2>1, <2>2, <2>3, <2>4 DEF Noticed, Handled
<1> QED
  BY <1>2, <1>3

LEMMA WatcherFile ==
    ASSUME PersistentRepairable, TypeInv, ValidInv, CleanInv, FileKnown, FileInv, Watcher, faults' = 0
    PROVE  FileInv'
<1>0. /\ boot' = boot /\ faults = 0 /\ boot \notin {"down", "rewrite"}
      /\ active' = active /\ Subscribed'
      /\ watcher \in [pc : WatcherSteps, key : Keys, value : Values]
  BY WatcherFrame, FaultsStay DEF ValidInv, Phases, Next, TypeInv, TypeOK
<1>1. CASE SaveEdit \/ SaveMark
  BY <1>0, <1>1, SavesAll DEF FileInv
<1>2. CASE ~SaveEdit /\ ~SaveMark
  <2> SUFFICES ASSUME NEW k \in Keys \ Transient, ~IsOverlaid(k)'
               PROVE  OnFileOrSaved(k)'
    BY DEF FileInv
  <2>1. ~IsOverlaid(k) /\ OnFileOrSaved(k)
    BY <1>0 DEF FileInv, IsOverlaid
  <2>2. SaveComes \/ Noticed(k, Handled) => OnFileOrSaved(k)'
    BY <1>2, <2>1, WatcherSaves DEF OnFileOrSaved
  <2>3. CASE hash'[k] # hash[k]
    <3>1. InChannel(k)'
      BY <2>3, WatcherNotices
    <3> QED
      BY <1>0, <3>1 DEF OnFileOrSaved, Noticed
  <2>4. CASE ~(k \in userSet' <=> k \in userSet)
    <3>1. MarkEdit \/ Mark
      BY <1>2, <2>4 DEF Watcher, Receive, Fallback, Repair, Check, ReadField, Edit, Reassert, memory
    <3>2. watcher'.key = k /\ watcher'.pc \in {"saveEdit", "save"}
      BY <1>0, <2>4, <3>1 DEF MarkEdit, Mark, MarkKey, Goto
    <3> QED
      BY <1>0, <3>2 DEF OnFileOrSaved, Noticed, Handled
  <2>5. CASE toml[k] = Persisted[k] /\ hash'[k] = hash[k] /\ (k \in userSet' <=> k \in userSet)
    <3>1. toml' = toml
      BY <1>2 DEF Watcher, Receive, Fallback, Repair, Check, ReadField, Edit, MarkEdit, Mark, MarkKey,
                  Reassert, files
    <3>2. Persisted'[k] = Persisted[k]
      BY <1>0, <2>1, <2>5 DEF Persisted, IsOverlaid
    <3> QED
      BY <2>5, <3>1, <3>2 DEF OnFileOrSaved
  <2> QED
    BY <2>1, <2>2, <2>3, <2>4, <2>5 DEF OnFileOrSaved
<1> QED
  BY <1>1, <1>2

LEMMA BootFile ==
    ASSUME SchemaIsSound, PersistentRepairable, TypeInv, ValidInv, Loading, FileInv, Boot, faults' = 0
    PROVE  FileInv'
<1>0. /\ active' = active /\ base' = base /\ ~Subscribed /\ faults = 0
      /\ boot \in {"down", "rewrite", "reapply"} => ~active /\ consumer = ConsumerIdle
  BY BootFrame, FaultsStay DEF ValidInv, Phases, Next
<1>1. CASE Load
  <2> SUFFICES ASSUME boot' # "rewrite", NEW k \in Keys \ Transient
               PROVE  toml'[k] = Persisted'[k]
    BY DEF FileInv, OnFileOrSaved
  <2>1. /\ ~NeedsRewrite /\ toml' = toml /\ userSet' = {j \in Keys : Loaded(j) # Absent}
        /\ Loaded(k) # Absent => hash'[k] = Loaded(k)
    BY <1>1 DEF Load, LoadWith, files
  <2>2. Loaded(k) = toml[k]
    BY <2>1 DEF NeedsRewrite, Loaded
  <2>3. ~IsOverlaid(k)'
    BY <1>0, <1>1 DEF Load, LoadWith, IsOverlaid
  <2> QED
    BY <2>1, <2>2, <2>3 DEF Persisted
<1>2. CASE Rewrite
  <2>1. \A k \in Keys \ Transient : toml'[k] = Persisted[k]
    BY <1>2, RewriteWrites DEF ValidInv
  <2>2. Persisted' = Persisted
    BY <1>0, <1>2 DEF Rewrite, redis, Persisted, IsOverlaid
  <2> QED
    BY <2>1, <2>2 DEF FileInv, OnFileOrSaved
<1>3. CASE Reapply \/ Reapplied \/ Subscribe
  <2>1. toml' = toml /\ hash' = hash /\ userSet' = userSet /\ boot \notin {"down", "rewrite"}
    BY <1>3 DEF Reapply, Reapplied, Subscribe, files, redis, memory
  <2>2. Persisted' = Persisted
    BY <1>0, <2>1 DEF Persisted, IsOverlaid
  <2>3. consumer.pc \in Leaving \union {"clearSave"} => consumer' = consumer
    BY <1>0, <1>3, IdleConsumer DEF Reapply, Reapplied, Subscribe, Leaving
  <2>4. SaveComes => SaveComes'
    BY <1>0, <2>3 DEF SaveComes, Noticed
  <2> QED
    BY <1>0, <2>1, <2>2, <2>4 DEF FileInv, OnFileOrSaved, IsOverlaid, Noticed
<1> QED
  BY <1>1, <1>2, <1>3 DEF Boot

LEMMA ClientFile ==
    ASSUME TypeInv, FileInv, Client
    PROVE  FileInv'
<1>0. /\ boot' = boot /\ active' = active /\ base' = base /\ consumer' = consumer
      /\ toml' = toml /\ userSet' = userSet /\ faults' = faults
  BY ClientFrame
<1> SUFFICES ASSUME faults = 0, boot \notin {"down", "rewrite"}, NEW k \in Keys \ Transient,
                    ~IsOverlaid(k)
             PROVE  OnFileOrSaved(k)'
  BY <1>0 DEF FileInv, IsOverlaid
<1>1. OnFileOrSaved(k)
  BY DEF FileInv
<1>2. SaveComes => SaveComes'
  <2>1. ASSUME NEW j \in Plain, Noticed(j, PlainHandled)
        PROVE  Noticed(j, PlainHandled)'
    BY <2>1, ClientNotices DEF Plain
  <2> QED
    BY <1>0, <2>1 DEF SaveComes
<1>3. Noticed(k, Handled) => Noticed(k, Handled)'
  BY ClientNotices
<1>4. hash'[k] # hash[k] => Missable(k) \/ Noticed(k, Handled)'
  BY ClientNotices DEF Noticed, Missable, Listened
<1>5. hash'[k] = hash[k] => Persisted'[k] = Persisted[k]
  BY <1>0 DEF Persisted, IsOverlaid
<1> QED
  BY <1>0, <1>1, <1>2, <1>3, <1>4, <1>5 DEF OnFileOrSaved

\* The invariant of the file: values are valid where they have to be, the service
\* knows what is on file, and what is not on file yet will be.
KeptInv == ValidInv /\ CleanInv /\ Loading /\ FileKnown /\ FileInv

LEMMA NextFile ==
    ASSUME SchemaIsSound, PersistentRepairable, TypeInv, KeptInv, [Next]_vars
    PROVE  FileInv'
<1> SUFFICES ASSUME faults' = 0, boot' \notin {"down", "rewrite"}
             PROVE  FileInv'
  BY DEF FileInv
<1>1. CASE Boot
  BY <1>1, BootFile DEF KeptInv
<1>2. CASE Watcher
  BY <1>2, WatcherFile DEF KeptInv
<1>3. CASE Consumer
  BY <1>3, ConsumerFile DEF KeptInv
<1>4. CASE Client
  BY <1>4, ClientFile DEF KeptInv
<1>5. CASE Crash \/ Reboot
  BY <1>5, StopFrame
<1>6. CASE Wait \/ UNCHANGED vars
  <2>1. /\ boot' = boot /\ active' = active /\ base' = base /\ consumer' = consumer
        /\ toml' = toml /\ userSet' = userSet /\ faults' = faults /\ hash' = hash
        /\ watcher' = watcher /\ unpublished' = unpublished /\ channel' = channel
    BY <1>6 DEF Wait, vars, redis, files, memory, clients, failures
  <2>2. Persisted' = Persisted
    BY <2>1 DEF Persisted, IsOverlaid
  <2> QED
    BY <2>1, <2>2, SameChannel
       DEF KeptInv, FileInv, OnFileOrSaved, SaveComes, Noticed, Subscribed, IsOverlaid, Plain
<1> QED
  BY <1>1, <1>2, <1>3, <1>4, <1>5, <1>6 DEF Next

LEMMA InitClean == Init => CleanInv
<1> SUFFICES ASSUME Init PROVE CleanInv
  OBVIOUS
<1>1. hash = NoFields /\ consumer = ConsumerIdle /\ base = NoBase /\ boot = "down"
      /\ watcher = WatcherOff /\ userSet = {}
  BY DEF Init
<1>2. OverlayClean
  BY <1>1, NothingHeld, IdleConsumer, OverlayAssumption DEF OverlayClean, IsInvalid, NoFields
<1> QED
  BY <1>1, <1>2, WatcherConstants DEF CleanInv, OverlayPresent, EditClean, Marks, Repairs

\* The invariant holds whatever the clients, the faults and the crashes do, if no
\* invalid value gets into what service mode forces.
THEOREM FileInvariance ==
    ASSUME InvalidHeard, SchemaIsSound, PersistentRepairable, ForcedSound
    PROVE  Spec => [](TypeInv /\ KeptInv)
<1>1. Init => TypeInv /\ KeptInv
  <2> SUFFICES ASSUME Init PROVE TypeInv /\ KeptInv
    OBVIOUS
  <2>1. TypeInv /\ Phases /\ CleanInv
    BY InitType, InitPhases, InitClean
  <2>2. BaseTaken /\ NothingInvalid /\ InvalidNoticed
    BY WatcherConstants DEF Init, BaseTaken, NothingInvalid, InvalidNoticed, Subscribed
  <2>3. Loading /\ FileKnown /\ FileInv
    BY DEF Init, Loading, FileKnown, FileInv
  <2> QED
    BY <2>1, <2>2, <2>3 DEF KeptInv, ValidInv
<1>2. TypeInv /\ KeptInv /\ [Next]_vars => TypeInv' /\ KeptInv'
  BY NextType, NextValid, NextClean, NextLoading, NextKnown, NextFile DEF KeptInv, ValidInv
<1> QED
  BY <1>1, <1>2, PTL DEF Spec

\* Once the service is at rest nothing is left to be saved.
LEMMA AllSaved ==
    ASSUME TypeInv, KeptInv, Quiescent, faults = 0,
           NEW k \in Keys \ Transient, ~IsOverlaid(k), ~Missable(k)
    PROVE  toml[k] = Persisted[k]
<1>1. /\ boot = "up" /\ watcher.pc = "idle" /\ consumer.pc = "idle"
      /\ channel = <<>> /\ unpublished = {}
  BY DEF Quiescent, AtRest, At, Stepping
<1>2. \A j \in Keys : ~Noticed(j, PlainHandled) /\ ~Noticed(j, Handled)
  BY <1>1 DEF Noticed, InChannel, PlainHandled, Handled, Repairs
<1>3. ~SaveComes
  BY <1>1, <1>2 DEF SaveComes, Leaving, Plain
<1> QED
  BY <1>1, <1>2, <1>3 DEF KeptInv, FileInv, OnFileOrSaved

\* The file catches up with the hash: whatever the two goroutines read, marked and
\* saved in between, every persistent setting in use is on file exactly if it is a
\* user's choice, and then with the value in use, unless an edit of it may have been
\* published before the watcher listened.
THEOREM PersistentFollowHash ==
    ASSUME InvalidHeard, SchemaIsSound, PersistentRepairable, ForcedSound
    PROVE  Spec => [](Quiescent /\ faults = 0 => \A k \in Keys \ Transient :
                          ~IsOverlaid(k) /\ ~Missable(k) =>
                              toml[k] = IF k \in userSet THEN hash[k] ELSE Absent)
<1>1. TypeInv /\ KeptInv => (Quiescent /\ faults = 0 => \A k \in Keys \ Transient :
                          ~IsOverlaid(k) /\ ~Missable(k) =>
                              toml[k] = IF k \in userSet THEN hash[k] ELSE Absent)
  BY AllSaved DEF Persisted
<1> QED
  BY <1>1, FileInvariance, PTL

\* The same of all settings, where none is transient.  (A transient setting that
\* service mode forces is marked as a user's choice and not saved when it is edited
\* outside of service mode.)
THEOREM FileAndHashAgree ==
    ASSUME Listened, SchemaIsSound, PersistentRepairable, ForcedSound, Transient = {}
    PROVE  Spec => []FileFollowsHash
<1>1. TypeInv /\ KeptInv => FileFollowsHash
  BY AllSaved DEF Persisted, FileFollowsHash, Missable, Listened
<1>2. InvalidHeard
  BY DEF InvalidHeard
<1> QED
  BY <1>1, <1>2, FileInvariance, PTL

--------------------------------------------------------------------------------
(* What is not the default is a user's choice.                                  *)

\* The persistent settings with a default.  (One without keeps what the hash holds
\* of it when the service dies, and nobody tells the next service of it.)
Defaulted == {k \in Keys \ Transient : Default[k] # Absent}

\* The consumer will set k again: the watcher will hear of it.
BeingRestored(k) == /\ k \in OverlayKeys
                    /\ \/ consumer.pc = "flagOff"
                       \/ consumer.pc = "restore" /\ k \in consumer.todo

MarkComes(k) == Noticed(k, Repairs \union {"check", "mark"})
DefaultOrChosen(k) == hash[k] = Default[k] \/ k \in userSet \/ MarkComes(k)

ChosenInv == boot # "down" =>
    \A k \in Defaulted : IsOverlaid(k) \/ BeingRestored(k) \/ DefaultOrChosen(k)

\* Before the watcher listens, service mode captures nothing but what was loaded.
CapturedInv == boot # "down" /\ ~Subscribed =>
    \A k \in Defaulted \intersect OverlayKeys :
        \/ k \in userSet
        \/ ~active /\ consumer.held[k] \in {Default[k], Absent}
        \/ active /\ base[k].value \in {Default[k], Absent}

LEMMA ConsumerChosen ==
    ASSUME TypeInv, Phases, ChosenInv, CapturedInv, Consumer
    PROVE  ChosenInv'
<1>0. /\ boot' = boot /\ boot # "down" /\ watcher' = watcher /\ Subscribed' = Subscribed
      /\ consumer \in [pc : ConsumerSteps, todo : SUBSET OverlayKeys, held : [OverlayKeys -> Entry]]
      /\ hash \in [Keys -> Entry]
  BY ConsumerMoves DEF TypeInv, TypeOK, Files, Subscribed
<1> SUFFICES ASSUME NEW k \in Defaulted
             PROVE  IsOverlaid(k)' \/ BeingRestored(k)' \/ DefaultOrChosen(k)'
  BY DEF ChosenInv
<1>1. k \in Keys /\ Default[k] # Absent
  BY DEF Defaulted
<1>2. /\ MarkComes(k) => MarkComes(k)'
      /\ Subscribed /\ hash'[k] # hash[k] => InChannel(k)'
  BY <1>1, ConsumerNotices DEF MarkComes
<1>3. Subscribed /\ hash'[k] # hash[k] => DefaultOrChosen(k)'
  BY <1>0, <1>2 DEF DefaultOrChosen, MarkComes, Noticed
<1>4. k \in userSet => k \in userSet'
  BY DEF Consumer, TakeCommand, Activate, FlagOn, StatusOn, Report, Unset, FlagOff, Drop, StatusOff,
         ClearSave, Capture, ForceField, Restore, memory
<1>5. CASE IsOverlaid(k)
  <2>1. k \in OverlayKeys /\ active = TRUE
    BY <1>5 DEF IsOverlaid, TypeInv, TypeOK
  <2>2. active' = FALSE => consumer'.pc = "flagOff"
    BY <2>1, ConsumerMoves
  <2>3. active' \in BOOLEAN
    BY NextType DEF Next, TypeInv, TypeOK
  <2> QED
    BY <2>1, <2>2, <2>3 DEF IsOverlaid, BeingRestored
<1>6. CASE BeingRestored(k)
  <2>1. CASE FlagOff
    <3>1. k \in ToRestore
      BY <1>1, <1>6 DEF BeingRestored, ToRestore, Restored
    <3>2. consumer'.pc = "restore" /\ k \in consumer'.todo
      BY <1>0, <2>1, <3>1 DEF FlagOff, Then, NextOf
    <3> QED
      BY <1>6, <3>2 DEF BeingRestored
  <2>2. ASSUME NEW j \in OverlayKeys, Restore(j)
        PROVE  BeingRestored(k)' \/ DefaultOrChosen(k)'
    <3>1. consumer.pc = "restore" /\ SetField(j, Restored(j))
      BY <2>2 DEF Restore, Stepping
    <3>2. k \in consumer.todo
      BY <1>6, <3>1 DEF BeingRestored
    <3>3. CASE j # k
      <4>1. k \in consumer'.todo /\ consumer'.pc = "restore"
        BY <1>0, <2>2, <3>2, <3>3 DEF Restore, Then, NextOf
      <4> QED
        BY <1>6, <4>1 DEF BeingRestored
    <3>4. CASE j = k /\ Subscribed
      <4>1. InChannel(k)'
        BY <1>1, <3>1, <3>4, SetNames DEF TypeInv
      <4> QED
        BY <1>0, <3>4, <4>1 DEF DefaultOrChosen, MarkComes, Noticed
    <3>5. CASE j = k /\ ~Subscribed
      <4>1. ~active
        BY <3>1 DEF Phases, Leaving
      <4>2. k \in userSet \/ consumer.held[k] \in {Default[k], Absent}
        BY <1>0, <1>6, <3>5, <4>1 DEF CapturedInv, BeingRestored
      <4>3. hash'[k] = Restored(k)
        BY <1>0, <1>1, <3>1, <3>5 DEF SetField
      <4> QED
        BY <1>4, <4>2, <4>3 DEF Restored, DefaultOrChosen
    <3> QED
      BY <3>3, <3>4, <3>5
  <2> QED
    BY <1>6, <2>1, <2>2 DEF BeingRestored, Consumer, TakeCommand, Activate, StatusOn, FlagOn, Unset, Drop,
                            StatusOff, ClearSave, Capture, ForceField, Stepping
<1>7. CASE ~IsOverlaid(k) /\ ~BeingRestored(k)
  <2>1. DefaultOrChosen(k)
    BY <1>0, <1>7 DEF ChosenInv
  <2>2. hash'[k] = hash[k]
    <3>1. CASE Drop
      <4>1. k \notin ToDrop
        BY <1>1 DEF ToDrop, ToRestore, Restored
      <4> QED
        BY <1>1, <3>1, <4>1 DEF Drop
    <3>2. ASSUME NEW j \in OverlayKeys, ForceField(j)
          PROVE  hash'[k] = hash[k]
      <4>1. active /\ SetField(j, Forced[j])
        BY <3>2 DEF ForceField, Stepping, Phases, Entering
      <4>2. j # k
        BY <1>7, <4>1 DEF IsOverlaid
      <4> QED
        BY <1>0, <1>1, <4>1, <4>2 DEF SetField
    <3>3. ASSUME NEW j \in OverlayKeys, Restore(j)
          PROVE  hash'[k] = hash[k]
      <4>1. SetField(j, Restored(j)) /\ j # k
        BY <1>7, <3>3 DEF Restore, Stepping, BeingRestored
      <4> QED
        BY <1>0, <1>1, <4>1 DEF SetField
    <3>4. CASE \/ TakeCommand \/ Activate \/ FlagOn \/ StatusOn \/ Unset \/ FlagOff
               \/ StatusOff \/ ClearSave \/ \E j \in OverlayKeys : Capture(j)
      BY <3>4 DEF TakeCommand, Activate, FlagOn, StatusOn, Report, Unset, FlagOff, StatusOff, ClearSave,
                  Capture, redis
    <3> QED
      BY <3>1, <3>2, <3>3, <3>4 DEF Consumer
  <2> QED
    BY <1>2, <1>4, <2>1, <2>2 DEF DefaultOrChosen
<1> QED
  BY <1>5, <1>6, <1>7

LEMMA ConsumerCaptures ==
    ASSUME TypeInv, Phases, ChosenInv, CapturedInv, Consumer
    PROVE  CapturedInv'
<1>0. /\ boot' = boot /\ boot # "down" /\ watcher' = watcher /\ Subscribed' = Subscribed
      /\ consumer \in [pc : ConsumerSteps, todo : SUBSET OverlayKeys, held : [OverlayKeys -> Entry]]
      /\ base \in Base
  BY ConsumerMoves DEF TypeInv, TypeOK, Files, Subscribed
<1> SUFFICES ASSUME NEW k \in Defaulted \intersect OverlayKeys, ~Subscribed, k \notin userSet'
             PROVE  \/ ~active' /\ consumer'.held[k] \in {Default[k], Absent}
                    \/ active' /\ base'[k].value \in {Default[k], Absent}
  BY <1>0 DEF CapturedInv
<1>1. k \notin userSet
  BY DEF Consumer, TakeCommand, Activate, FlagOn, StatusOn, Report, Unset, FlagOff, Drop, StatusOff,
         ClearSave, Capture, ForceField, Restore, memory
<1>2. \/ ~active /\ consumer.held[k] \in {Default[k], Absent}
      \/ active /\ base[k].value \in {Default[k], Absent}
  BY <1>0, <1>1 DEF CapturedInv
<1>3. NoHeld[k] = Absent
  BY DEF NoHeld
<1>4. CASE \E j \in OverlayKeys : Capture(j)
  <2>1. PICK j \in OverlayKeys : Capture(j)
    BY <1>4
  <2>2. active' = active /\ base' = base /\ consumer'.held[k] \in {consumer.held[k], hash[k]}
    BY <1>0, <2>1 DEF Capture, memory
  <2>3. ~active => hash[k] = Default[k]
    BY <1>0, <1>1, <2>1 DEF Capture, Stepping, ChosenInv, IsOverlaid, BeingRestored, DefaultOrChosen,
                            MarkComes, Noticed
  <2> QED
    BY <1>2, <2>2, <2>3
<1>5. CASE Activate
  <2>1. CASE active
    BY <1>2, <1>5, <2>1 DEF Activate
  <2>2. CASE ~active
    BY <1>2, <1>5, <2>2 DEF Activate
  <2> QED
    BY <2>1, <2>2
<1>6. CASE Unset
  <2>1. CASE ~active
    <3>1. consumer' = ConsumerIdle /\ active' = active
      BY <1>6, <2>1 DEF Unset
    <3> QED
      BY <1>3, <2>1, <3>1, IdleConsumer
  <2>2. CASE active
    <3>1. consumer' = [ConsumerIdle EXCEPT !.pc = "flagOff",
                                           !.held = [i \in OverlayKeys |-> base[i].value]]
      BY <1>6, <2>2 DEF Unset
    <3>2. consumer'.held = [i \in OverlayKeys |-> base[i].value]
      BY <3>1, OtherConstants
    <3>3. active' = FALSE
      BY <1>6, <2>2 DEF Unset
    <3> QED
      BY <1>2, <2>2, <3>2, <3>3
  <2> QED
    BY <2>1, <2>2
<1>7. CASE StatusOn \/ ClearSave
  <2>1. active' = active /\ base' = base /\ consumer' = ConsumerIdle
    BY <1>7 DEF StatusOn, Report, ClearSave, memory
  <2> QED
    BY <1>2, <1>3, <2>1, IdleConsumer
<1>8. CASE \/ TakeCommand \/ FlagOn \/ FlagOff \/ Drop \/ StatusOff
           \/ \E j \in OverlayKeys : ForceField(j) \/ Restore(j)
  <2>1. active' = active /\ base' = base /\ consumer'.held = consumer.held
    BY <1>0, <1>8 DEF TakeCommand, FlagOn, FlagOff, Drop, StatusOff, Report, ForceField, Restore, Then,
                      memory
  <2> QED
    BY <1>2, <2>1
<1> QED
  BY <1>4, <1>5, <1>6, <1>7, <1>8 DEF Consumer

LEMMA WatcherChosen ==
    ASSUME PersistentRepairable, TypeInv, Phases, RepairsChecked, ChosenInv, Watcher
    PROVE  ChosenInv' /\ CapturedInv'
<1>0. /\ watcher \in [pc : WatcherSteps, key : Keys, value : Values]
      /\ Subscribed /\ Subscribed' /\ consumer' = consumer /\ active' = active
      /\ unpublished' = unpublished /\ boot # "down"
  BY WatcherFrame DEF TypeInv, TypeOK, Phases
<1> SUFFICES ASSUME NEW k \in Defaulted, ~IsOverlaid(k), ~BeingRestored(k)
             PROVE  DefaultOrChosen(k)'
  BY <1>0 DEF ChosenInv, CapturedInv, IsOverlaid, BeingRestored
<1>1. k \in Keys /\ k \notin Transient
  BY DEF Defaulted
<1>2. DefaultOrChosen(k)
  BY <1>0 DEF ChosenInv
<1>3. k \in userSet => k \in userSet'
  BY DEF Watcher, Receive, Fallback, Repair, Check, ReadField, Edit, MarkEdit, Mark, MarkKey,
         SaveEdit, SaveMark, SaveNow, Reassert, memory
<1>4. CASE hash'[k] # hash[k]
  <2>1. InChannel(k)'
    BY <1>1, <1>4, WatcherNotices
  <2> QED
    BY <1>0, <2>1 DEF DefaultOrChosen, MarkComes, Noticed
<1>5. CASE hash'[k] = hash[k] /\ MarkComes(k)
  <2>1. CASE k \in unpublished \/ InChannel(k)
    <3>1. \/ k \in unpublished' \/ InChannel(k)'
          \/ watcher'.key = k /\ watcher'.pc \in {"fallback", "check"}
      BY <1>1, <2>1, WatcherNotices
    <3> QED
      BY <1>0, <3>1 DEF DefaultOrChosen, MarkComes, Noticed, Repairs
  <2>2. CASE watcher.key = k /\ watcher.pc = "fallback"
    <3>1. Fallback
      BY <2>2 DEF Watcher, Receive, Fallback, Repair, Check, ReadField, Edit, MarkEdit, Mark, MarkKey,
                  SaveEdit, SaveMark, Reassert, At
    <3>2. Safe[k] # Absent
      BY <1>1, <2>2 DEF RepairsChecked, PersistentRepairable
    <3>3. FallbackFor(watcher.key) # Absent
      BY <2>2, <3>2 DEF FallbackFor
    <3>4. watcher'.key = k /\ watcher'.pc = "repair"
      BY <1>0, <2>2, <3>1, <3>3 DEF Fallback, GotoWith
    <3> QED
      BY <1>0, <3>4 DEF DefaultOrChosen, MarkComes, Noticed, Repairs
  <2>3. CASE watcher.key = k /\ watcher.pc = "repair"
    <3>1. Repair
      BY <2>3 DEF Watcher, Receive, Fallback, Repair, Check, ReadField, Edit, MarkEdit, Mark, MarkKey,
                  SaveEdit, SaveMark, Reassert, At
    <3>2. SetField(k, watcher.value)
      BY <2>3, <3>1 DEF Repair
    <3>3. InChannel(k)'
      BY <1>0, <1>1, <3>2, SetNames DEF TypeInv
    <3> QED
      BY <1>0, <3>3 DEF DefaultOrChosen, MarkComes, Noticed
  <2>4. CASE watcher.key = k /\ watcher.pc = "check"
    <3>1. Check
      BY <2>4 DEF Watcher, Receive, Fallback, Repair, Check, ReadField, Edit, MarkEdit, Mark, MarkKey,
                  SaveEdit, SaveMark, Reassert, At
    <3>2. watcher'.key = k /\ watcher'.pc = "mark"
      BY <1>0, <1>1, <2>4, <3>1 DEF Check, Goto
    <3> QED
      BY <1>0, <3>2 DEF DefaultOrChosen, MarkComes, Noticed
  <2>5. CASE watcher.key = k /\ watcher.pc = "mark"
    <3>1. Mark
      BY <2>5 DEF Watcher, Receive, Fallback, Repair, Check, ReadField, Edit, MarkEdit, Mark, MarkKey,
                  SaveEdit, SaveMark, Reassert, At
    <3>2. k \in userSet'
      BY <2>5, <3>1 DEF Mark, MarkKey
    <3> QED
      BY <3>2 DEF DefaultOrChosen
  <2> QED
    BY <1>5, <2>1, <2>2, <2>3, <2>4, <2>5 DEF MarkComes, Noticed, Repairs
<1> QED
  BY <1>2, <1>3, <1>4, <1>5 DEF DefaultOrChosen

LEMMA BootChosen ==
    ASSUME TypeInv, Phases, ChosenInv, CapturedInv, Boot
    PROVE  ChosenInv' /\ CapturedInv'
<1>0. /\ active' = active /\ base' = base /\ ~Subscribed
      /\ boot \in {"down", "rewrite", "reapply"} => ~active /\ consumer = ConsumerIdle
  BY BootFrame DEF Phases
<1>1. CASE Load
  <2>1. ~active /\ consumer' = ConsumerIdle /\ userSet' = {j \in Keys : Loaded(j) # Absent}
    BY <1>0, <1>1 DEF Load, LoadWith
  <2>2. ASSUME NEW k \in Defaulted
        PROVE  hash'[k] = Default[k] \/ k \in userSet'
    BY <1>1, <2>1 DEF Load, LoadWith, Defaulted
  <2>3. \A k \in OverlayKeys : consumer'.held[k] = Absent
    BY <2>1, IdleConsumer DEF NoHeld
  <2> QED
    BY <1>0, <2>1, <2>2, <2>3 DEF ChosenInv, CapturedInv, DefaultOrChosen
<1>2. CASE Boot /\ ~Load
  <2>1. hash' = hash /\ userSet' = userSet /\ boot # "down"
    BY <1>2 DEF Boot, Rewrite, Reapply, Reapplied, Subscribe, redis, memory
  <2>2. consumer' = consumer \/ (consumer = ConsumerIdle /\ consumer'.held = NoHeld)
    <3>1. \/ consumer' = consumer \/ (consumer = ConsumerIdle /\ consumer' = ConsumerIdle)
          \/ /\ consumer = ConsumerIdle
             /\ consumer' = [ConsumerIdle EXCEPT !.pc = "capture", !.todo = OverlayKeys]
      BY <1>0, <1>2 DEF Boot, Rewrite, Reapply, Reapplied, Subscribe
    <3> QED
      BY <3>1, OtherConstants, IdleConsumer
  <2>3. consumer'.held = consumer.held
    BY <2>2, IdleConsumer
  <2>4. ASSUME NEW k \in Defaulted
        PROVE  IsOverlaid(k)' \/ BeingRestored(k)' \/ DefaultOrChosen(k)'
    <3>1. IsOverlaid(k) \/ BeingRestored(k) \/ hash[k] = Default[k] \/ k \in userSet
      BY <1>0, <2>1 DEF ChosenInv, DefaultOrChosen, MarkComes, Noticed
    <3>2. BeingRestored(k) => consumer' = consumer
      BY <2>2, IdleConsumer DEF BeingRestored
    <3> QED
      BY <1>0, <2>1, <3>1, <3>2 DEF IsOverlaid, BeingRestored, DefaultOrChosen
  <2>5. CapturedInv'
    BY <1>0, <2>1, <2>3 DEF CapturedInv
  <2> QED
    BY <2>4, <2>5 DEF ChosenInv
<1> QED
  BY <1>1, <1>2

LEMMA NextChosen ==
    ASSUME Listened, PersistentRepairable, TypeInv, Phases, RepairsChecked, ChosenInv, CapturedInv,
           [Next]_vars
    PROVE  ChosenInv' /\ CapturedInv'
<1>1. CASE Boot
  BY <1>1, BootChosen
<1>2. CASE Watcher
  BY <1>2, WatcherChosen
<1>3. CASE Consumer
  BY <1>3, ConsumerChosen, ConsumerCaptures
<1>4. CASE Client
  <2>1. /\ boot' = boot /\ active' = active /\ base' = base /\ consumer' = consumer
        /\ watcher' = watcher /\ userSet' = userSet
    BY <1>4, ClientFrame
  <2>2. CapturedInv'
    BY <2>1 DEF CapturedInv, Subscribed
  <2>3. ASSUME NEW k \in Defaulted
        PROVE  DefaultOrChosen(k) => DefaultOrChosen(k)'
    <3>1. k \in Keys
      BY DEF Defaulted
    <3>2. MarkComes(k) => MarkComes(k)'
      BY <1>4, <3>1, ClientNotices DEF MarkComes
    <3>3. hash'[k] # hash[k] => MarkComes(k)'
      BY <1>4, <3>1, ClientNotices DEF MarkComes, Noticed
    <3> QED
      BY <2>1, <3>2, <3>3 DEF DefaultOrChosen
  <2> QED
    BY <2>1, <2>2, <2>3 DEF ChosenInv, IsOverlaid, BeingRestored
<1>5. CASE Crash \/ Reboot
  <2>1. boot' = "down"
    BY <1>5, StopFrame
  <2> QED
    BY <2>1 DEF ChosenInv, CapturedInv
<1>6. CASE Wait \/ UNCHANGED vars
  <2>1. /\ boot' = boot /\ active' = active /\ base' = base /\ consumer' = consumer
        /\ userSet' = userSet /\ hash' = hash /\ watcher' = watcher /\ unpublished' = unpublished
        /\ channel' = channel
    BY <1>6 DEF Wait, vars, redis, memory, clients
  <2>2. \A k \in Keys : InChannel(k) <=> InChannel(k)'
    BY <2>1, SameChannel
  <2> QED
    BY <2>1, <2>2 DEF ChosenInv, CapturedInv, IsOverlaid, BeingRestored, DefaultOrChosen, MarkComes,
                      Noticed, Subscribed, Defaulted
<1> QED
  BY <1>1, <1>2, <1>3, <1>4, <1>5, <1>6 DEF Next

\* The invariant holds in every behaviour: a persistent setting with a default has
\* it, is a user's choice, or the watcher will make it one.
THEOREM ChoiceInvariance ==
    ASSUME Listened, PersistentRepairable
    PROVE  Spec => [](TypeInv /\ Phases /\ RepairsChecked /\ ChosenInv /\ CapturedInv)
<1>1. Init => TypeInv /\ Phases /\ RepairsChecked /\ ChosenInv /\ CapturedInv
  <2>1. Init => RepairsChecked /\ ChosenInv /\ CapturedInv
    BY WatcherConstants DEF Init, RepairsChecked, ChosenInv, CapturedInv
  <2> QED
    BY <2>1, InitType, InitPhases
<1>2. TypeInv /\ Phases /\ RepairsChecked /\ ChosenInv /\ CapturedInv /\ [Next]_vars
         => TypeInv' /\ Phases' /\ RepairsChecked' /\ ChosenInv' /\ CapturedInv'
  BY NextType, NextPhases, NextRepairs, NextChosen
<1> QED
  BY <1>1, <1>2, PTL DEF Spec

LEMMA EditSaved ==
    ASSUME Listened, TypeInv, KeptInv, ChosenInv, Quiescent, faults = 0,
           NEW k \in Defaulted, ~IsOverlaid(k), hash[k] # Default[k]
    PROVE  toml[k] = hash[k]
<1>1. /\ boot = "up" /\ watcher.pc = "idle" /\ consumer.pc = "idle"
      /\ channel = <<>> /\ unpublished = {}
  BY DEF Quiescent, AtRest, At, Stepping
<1>2. ~MarkComes(k) /\ ~BeingRestored(k)
  BY <1>1 DEF MarkComes, Noticed, InChannel, Repairs, BeingRestored
<1>3. k \in userSet /\ k \in Keys \ Transient
  BY <1>1, <1>2 DEF ChosenInv, DefaultOrChosen, Defaulted
<1>4. toml[k] = Persisted[k]
  BY <1>3, AllSaved DEF Missable, Listened
<1> QED
  BY <1>3, <1>4 DEF Persisted

\* What a client wrote, the watcher repaired or service mode put back is on file
\* once the service is at rest, if it is not the default of its setting: no crash
\* and no order of edits, marks and saves of the two goroutines leaves it out.
THEOREM EditsReachTheFile ==
    ASSUME Listened, SchemaIsSound, PersistentRepairable, ForcedSound
    PROVE  Spec => [](Quiescent /\ faults = 0 => \A k \in Defaulted :
                          ~IsOverlaid(k) /\ hash[k] # Default[k] => toml[k] = hash[k])
<1>1. TypeInv /\ KeptInv /\ ChosenInv => (Quiescent /\ faults = 0 => \A k \in Defaulted :
                          ~IsOverlaid(k) /\ hash[k] # Default[k] => toml[k] = hash[k])
  BY EditSaved
<1>2. InvalidHeard
  BY DEF InvalidHeard
<1> QED
  BY <1>1, <1>2, FileInvariance, ChoiceInvariance, PTL

\* The same, where every persistent setting has a default.
THEOREM EditsArePersisted ==
    ASSUME Listened, SchemaIsSound, PersistentRepairable, ForcedSound,
           \A k \in Keys \ Transient : Default[k] # Absent
    PROVE  Spec => []EditsPersisted
<1>1. TypeInv /\ KeptInv /\ ChosenInv => EditsPersisted
  BY EditSaved DEF EditsPersisted, Defaulted
<1>2. InvalidHeard
  BY DEF InvalidHeard
<1> QED
  BY <1>1, <1>2, FileInvariance, ChoiceInvariance, PTL

--------------------------------------------------------------------------------
(* Choices on file.                                                             *)

\* The file is written by saves alone, of a service that is up.
LEMMA OnlySavesWrite ==
    ASSUME TypeInv, Phases, [Next]_vars
    PROVE  \/ toml' = toml
           \/ /\ Rewrite \/ SaveEdit \/ SaveMark \/ ClearSave
              /\ Save /\ boot # "down"
              /\ hash' = hash /\ userSet' = userSet /\ active' = active /\ base' = base
<1>1. CASE Rewrite
  BY <1>1 DEF Rewrite, redis
<1>2. CASE Boot /\ ~Rewrite
  BY <1>2 DEF Boot, Load, LoadWith, Reapply, Reapplied, Subscribe, files
<1>3. CASE SaveEdit \/ SaveMark
  <2>1. boot = "up"
    BY <1>3, WatcherFrame DEF Phases, Watcher
  <2> QED
    BY <1>3, <2>1 DEF SaveEdit, SaveMark, SaveNow, redis
<1>4. CASE Watcher /\ ~(SaveEdit \/ SaveMark)
  BY <1>4 DEF Watcher, Receive, Fallback, Repair, Check, ReadField, Edit, MarkEdit, Mark, MarkKey,
              Reassert, files
<1>5. CASE ClearSave
  <2>1. boot # "down"
    BY <1>5, ConsumerMoves DEF Consumer
  <2> QED
    BY <1>5, <2>1 DEF ClearSave, redis
<1>6. CASE Consumer /\ ~ClearSave
  BY <1>6 DEF Consumer, TakeCommand, Activate, FlagOn, StatusOn, Report, Unset, FlagOff, Drop,
              StatusOff, Capture, ForceField, Restore, files
<1>7. CASE Client
  BY <1>7, ClientFrame
<1>8. CASE Crash \/ Reboot
  BY <1>8, StopFrame
<1>9. CASE Wait \/ UNCHANGED vars
  BY <1>9 DEF Wait, vars, files
<1> QED
  BY <1>1, <1>2, <1>3, <1>4, <1>5, <1>6, <1>7, <1>8, <1>9 DEF Next

\* The settings that a user may have chosen a value of.
Choosable == {k \in Keys \ Transient : InitToml[k] # Absent \/ EditValues[k] # {}}

\* One that service mode forces has a value from the start.  (Otherwise a clear
\* that drops it may overtake the save of the first choice.)
ForcedHaveValues == \A k \in Choosable \intersect OverlayKeys :
                        InitToml[k] # Absent \/ Default[k] # Absent

\* What is on file the service counts as a choice.
ChoicesLoaded == boot # "down" => \A k \in Choosable :
                                     toml[k] # Absent => k \in userSet /\ hash[k] # Absent

\* A forced setting never loses its value, not even on its way through the base.
ForcedPresent == \A k \in Choosable \intersect OverlayKeys :
    /\ Default[k] # Absent \/ toml[k] # Absent
    /\ boot # "down" =>
          /\ hash[k] # Absent
          /\ active => base[k].value # Absent
          /\ consumer.pc = "capture" /\ k \notin consumer.todo => consumer.held[k] # Absent
          /\ consumer.pc \in {"flagOff", "restore", "drop"} => Restored(k) # Absent

\* So that no save takes a choice off the file.
LEMMA ChoicesStay ==
    ASSUME TypeInv, Phases, ChoicesLoaded, ForcedPresent, [Next]_vars,
           NEW k \in Choosable, toml[k] # Absent
    PROVE  toml'[k] # Absent
<1>1. CASE toml' = toml
  BY <1>1
<1>2. CASE Save /\ boot # "down"
  <2>1. k \in Keys /\ k \in userSet /\ hash[k] # Absent
    BY <1>2 DEF ChoicesLoaded, Choosable
  <2>2. IsOverlaid(k) => base[k].value # Absent
    BY <1>2 DEF ForcedPresent, IsOverlaid
  <2>3. Persisted[k] # Absent
    BY <2>1, <2>2 DEF Persisted
  <2>4. toml'[k] \in {toml[k], Persisted[k]}
    BY <1>2, <2>1, SaveChoice
  <2> QED
    BY <2>3, <2>4
<1> QED
  BY <1>1, <1>2, OnlySavesWrite

\* And what it puts there is in use and counts as a choice.
LEMMA ChoicesWritten ==
    ASSUME TypeInv, Phases, ChoicesLoaded, ForcedPresent, [Next]_vars, toml' # toml,
           NEW k \in Choosable, toml'[k] # Absent
    PROVE  k \in userSet' /\ hash'[k] # Absent
<1>1. /\ k \in Keys /\ Save /\ boot # "down" /\ hash' = hash /\ userSet' = userSet
      /\ toml'[k] \in {toml[k], Persisted[k]}
  BY OnlySavesWrite, SaveChoice DEF Choosable
<1>2. CASE toml[k] # Absent
  BY <1>1, <1>2 DEF ChoicesLoaded
<1>3. CASE Persisted[k] # Absent
  <2>1. k \in userSet /\ (IsOverlaid(k) \/ hash[k] # Absent)
    BY <1>1, <1>3 DEF Persisted
  <2>2. IsOverlaid(k) => hash[k] # Absent
    BY <1>1 DEF ForcedPresent, IsOverlaid
  <2> QED
    BY <1>1, <2>1, <2>2
<1> QED
  BY <1>1, <1>2, <1>3

LEMMA ConsumerChoices ==
    ASSUME TypeInv, Phases, ChoicesLoaded, ForcedPresent, Consumer
    PROVE  ChoicesLoaded' /\ ForcedPresent'
<1>0. /\ boot' = boot /\ boot # "down" /\ watcher' = watcher
      /\ consumer \in [pc : ConsumerSteps, todo : SUBSET OverlayKeys, held : [OverlayKeys -> Entry]]
      /\ hash \in [Keys -> Entry] /\ base \in Base /\ active \in BOOLEAN
      /\ userSet \subseteq userSet'
  <2>1. userSet \subseteq userSet'
    BY DEF Consumer, TakeCommand, Activate, FlagOn, StatusOn, Report, Unset, FlagOff, Drop, StatusOff,
           ClearSave, Capture, ForceField, Restore, memory
  <2> QED
    BY <2>1, ConsumerMoves DEF TypeInv, TypeOK, Files
<1>1. ASSUME NEW k \in Choosable \intersect OverlayKeys
      PROVE  /\ hash'[k] # Absent
             /\ active' => base'[k].value # Absent
             /\ consumer'.pc = "capture" /\ k \notin consumer'.todo => consumer'.held[k] # Absent
             /\ consumer'.pc \in {"flagOff", "restore", "drop"} => Restored(k)' # Absent
  <2>0. /\ k \in Keys /\ hash[k] # Absent /\ Forced[k] # Absent
        /\ active => base[k].value # Absent
        /\ consumer.pc = "capture" /\ k \notin consumer.todo => consumer.held[k] # Absent
        /\ consumer.pc \in {"flagOff", "restore", "drop"} => Restored(k) # Absent
    BY <1>0, OverlayAssumption, ValuesAssumption DEF ForcedPresent, Choosable
  <2>1. CASE TakeCommand
    <3>1. hash' = hash /\ base' = base /\ active' = active
      BY <2>1 DEF TakeCommand, memory
    <3>2. \/ consumer'.pc = "capture" /\ consumer'.todo = OverlayKeys
          \/ consumer'.pc = "unset"
      BY <1>0, <2>1 DEF TakeCommand, Then
    <3> QED
      BY <2>0, <3>1, <3>2
  <2>2. CASE \E j \in OverlayKeys : Capture(j)
    <3>1. PICK j \in OverlayKeys : Capture(j)
      BY <2>2
    <3>2. hash' = hash /\ base' = base /\ active' = active /\ consumer.pc = "capture"
      BY <3>1 DEF Capture, Stepping, redis, memory
    <3>3. /\ consumer'.pc = "capture"
          /\ k \notin consumer'.todo => k = j \/ k \notin consumer.todo
          /\ consumer'.held[k] = IF k = j THEN hash[k] ELSE consumer.held[k]
      BY <1>0, <3>1, <3>2 DEF Capture
    <3> QED
      BY <2>0, <3>2, <3>3
  <2>3. CASE Activate
    <3>1. hash' = hash /\ consumer'.pc \in {"idle", "flagOn"}
      <4>1. hash' = hash /\ (consumer' = ConsumerIdle \/ consumer' = [ConsumerIdle EXCEPT !.pc = "flagOn"])
        BY <2>3 DEF Activate, redis
      <4> QED
        BY <4>1, IdleConsumer, OtherConstants
    <3>2. consumer.held[k] # Absent
      BY <2>0, <2>3 DEF Activate, Stepping
    <3>3. active' => base'[k].value # Absent
      <4>1. CASE active
        <5>1. base' = base
          BY <2>3, <4>1 DEF Activate
        <5> QED
          BY <2>0, <4>1, <5>1
      <4>2. CASE ~active
        <5>1. base'[k].value = consumer.held[k]
          BY <2>3, <4>2 DEF Activate
        <5> QED
          BY <3>2, <5>1
      <4> QED
        BY <4>1, <4>2
    <3> QED
      BY <2>0, <3>1, <3>3
  <2>4. CASE Unset
    <3>1. hash' = hash /\ active' = FALSE
      BY <1>0, <2>4 DEF Unset, redis
    <3>2. CASE ~active
      <4>1. consumer' = ConsumerIdle
        BY <2>4, <3>2 DEF Unset
      <4> QED
        BY <2>0, <3>1, <4>1, IdleConsumer
    <3>3. CASE active
      <4>1. consumer' = [ConsumerIdle EXCEPT !.pc = "flagOff",
                                             !.held = [i \in OverlayKeys |-> base[i].value]]
        BY <2>4, <3>3 DEF Unset
      <4>2. consumer'.held = [i \in OverlayKeys |-> base[i].value] /\ consumer'.pc = "flagOff"
        BY <4>1, OtherConstants
      <4>3. consumer'.held[k] # Absent
        BY <2>0, <3>3, <4>2
      <4> QED
        BY <2>0, <3>1, <4>2, <4>3 DEF Restored
    <3> QED
      BY <3>2, <3>3
  <2>5. CASE StatusOn \/ ClearSave
    <3>1. hash' = hash /\ base' = base /\ active' = active /\ consumer' = ConsumerIdle
      BY <2>5 DEF StatusOn, Report, ClearSave, redis, memory
    <3> QED
      BY <2>0, <3>1, IdleConsumer
  <2>6. CASE FlagOn \/ StatusOff
    <3>1. hash' = hash /\ base' = base /\ active' = active /\ consumer'.pc \in {"force", "clearSave"}
      BY <1>0, <2>6 DEF FlagOn, StatusOff, Report, Then, redis, memory
    <3> QED
      BY <2>0, <3>1
  <2>7. CASE FlagOff
    <3>1. /\ hash' = hash /\ base' = base /\ active' = active /\ consumer'.pc \in {"restore", "drop"}
          /\ consumer'.held = consumer.held /\ consumer.pc = "flagOff"
      BY <1>0, <2>7 DEF FlagOff, Stepping, Then, NextOf, redis, memory
    <3> QED
      BY <2>0, <3>1 DEF Restored
  <2>8. CASE Drop
    <3>1. k \notin ToDrop
      BY <2>0, <2>8 DEF Drop, Stepping, ToDrop, ToRestore
    <3>2. hash'[k] = hash[k] /\ base' = base /\ active' = active /\ consumer'.pc = "statusOff"
      BY <1>0, <2>0, <2>8, <3>1 DEF Drop, Then, memory
    <3> QED
      BY <2>0, <3>2
  <2>9. ASSUME NEW j \in OverlayKeys, ForceField(j)
        PROVE  /\ hash'[k] # Absent
               /\ active' => base'[k].value # Absent
               /\ consumer'.pc = "capture" /\ k \notin consumer'.todo => consumer'.held[k] # Absent
               /\ consumer'.pc \in {"flagOff", "restore", "drop"} => Restored(k)' # Absent
    <3>1. base' = base /\ active' = active /\ consumer'.pc \in {"force", "statusOn"}
      BY <1>0, <2>9 DEF ForceField, Then, NextOf, memory
    <3>2. hash'[k] \in {hash[k], Forced[k]}
      BY <1>0, <2>0, <2>9 DEF ForceField, SetField
    <3> QED
      BY <2>0, <3>1, <3>2
  <2>10. ASSUME NEW j \in OverlayKeys, Restore(j)
         PROVE  /\ hash'[k] # Absent
                /\ active' => base'[k].value # Absent
                /\ consumer'.pc = "capture" /\ k \notin consumer'.todo => consumer'.held[k] # Absent
                /\ consumer'.pc \in {"flagOff", "restore", "drop"} => Restored(k)' # Absent
    <3>1. /\ base' = base /\ active' = active /\ consumer'.pc \in {"restore", "drop"}
          /\ consumer'.held = consumer.held /\ consumer.pc = "restore"
      BY <1>0, <2>10 DEF Restore, Stepping, Then, NextOf, memory
    <3>2. hash'[k] \in {hash[k], Restored(k)}
      BY <1>0, <2>0, <2>10 DEF Restore, SetField
    <3> QED
      BY <2>0, <3>1, <3>2 DEF Restored
  <2> QED
    BY <2>1, <2>2, <2>3, <2>4, <2>5, <2>6, <2>7, <2>8, <2>9, <2>10 DEF Consumer
<1>2. ForcedPresent'
  <2>1. \A k \in Choosable : toml[k] # Absent => toml'[k] # Absent
    BY ChoicesStay DEF Next
  <2> QED
    BY <1>0, <1>1, <2>1 DEF ForcedPresent
<1>3. ASSUME NEW k \in Choosable, toml'[k] # Absent
      PROVE  k \in userSet' /\ hash'[k] # Absent
  <2>0. k \in Keys
    BY DEF Choosable
  <2>1. hash[k] # Absent => hash'[k] # Absent
    <3>1. CASE k \in OverlayKeys
      BY <1>1, <3>1
    <3>2. CASE k \notin OverlayKeys
      <4>1. hash'[k] = hash[k]
        BY <1>0, <2>0, <3>2 DEF Consumer, TakeCommand, Activate, FlagOn, StatusOn, Report, Unset, FlagOff,
           Drop, StatusOff, ClearSave, Capture, ForceField, Restore, SetField, ToDrop, redis
      <4> QED
        BY <4>1
    <3> QED
      BY <3>1, <3>2
  <2>2. CASE toml' = toml
    BY <1>0, <1>3, <2>1, <2>2 DEF ChoicesLoaded
  <2>3. CASE toml' # toml
    BY <1>3, <2>3, ChoicesWritten DEF Next
  <2> QED
    BY <2>2, <2>3
<1> QED
  BY <1>0, <1>2, <1>3 DEF ChoicesLoaded

LEMMA WatcherChoices ==
    ASSUME TypeInv, Phases, ChoicesLoaded, ForcedPresent, Watcher
    PROVE  ChoicesLoaded' /\ ForcedPresent'
<1>0. /\ boot' = boot /\ boot # "down" /\ consumer' = consumer /\ active' = active
      /\ watcher \in [pc : WatcherSteps, key : Keys, value : Values]
      /\ hash \in [Keys -> Entry] /\ base \in Base /\ Absent \notin Values
      /\ userSet \subseteq userSet'
  <2>1. userSet \subseteq userSet'
    BY DEF Watcher, Receive, Fallback, Repair, Check, ReadField, Edit, MarkEdit, Mark, MarkKey,
           SaveEdit, SaveMark, SaveNow, Reassert, memory
  <2> QED
    BY <2>1, WatcherFrame, ValuesAssumption DEF Phases, TypeInv, TypeOK, Files
<1>1. ASSUME NEW k \in Keys, hash[k] # Absent
      PROVE  hash'[k] # Absent
  <2>1. CASE Repair
    BY <1>0, <1>1, <2>1 DEF Repair, SetField
  <2>2. CASE Reassert
    <3>1. watcher.key \in OverlayKeys
      BY <2>2 DEF Reassert, At, TypeInv, WatchesOverlaid
    <3>2. Forced[watcher.key] # Absent
      BY <1>0, <3>1, OverlayAssumption
    <3> QED
      BY <1>0, <1>1, <2>2, <3>2 DEF Reassert, SetField
  <2>3. CASE Watcher /\ ~(Repair \/ Reassert)
    BY <1>1, <2>3 DEF Watcher, Receive, Fallback, Check, ReadField, Edit, MarkEdit, Mark, MarkKey, SaveEdit,
                SaveMark, SaveNow, redis
  <2> QED
    BY <2>1, <2>2, <2>3
<1>2. ASSUME NEW k \in OverlayKeys, base[k].value # Absent
      PROVE  base'[k].value # Absent
  <2>1. CASE Edit
    BY <1>0, <1>2, <2>1 DEF Edit, Base
  <2>2. CASE Watcher /\ ~Edit
    BY <1>2, <2>2 DEF Watcher, Receive, Fallback, Repair, Check, ReadField, MarkEdit, Mark, MarkKey,
                SaveEdit, SaveMark, SaveNow, Reassert, memory
  <2> QED
    BY <2>1, <2>2
<1>3. \A k \in Choosable : toml[k] # Absent => toml'[k] # Absent
  BY ChoicesStay DEF Next
<1>4. ForcedPresent'
  BY <1>0, <1>1, <1>2, <1>3 DEF ForcedPresent, Restored, Choosable
<1>5. ChoicesLoaded'
  <2>1. CASE toml' = toml
    BY <1>0, <1>1, <2>1 DEF ChoicesLoaded, Choosable
  <2>2. CASE toml' # toml
    BY <2>2, ChoicesWritten DEF Next, ChoicesLoaded
  <2> QED
    BY <2>1, <2>2
<1> QED
  BY <1>4, <1>5

LEMMA BootChoices ==
    ASSUME PersistentRepairable, TypeInv, Phases, ChoicesLoaded, ForcedPresent, Boot
    PROVE  ChoicesLoaded' /\ ForcedPresent'
<1>0. /\ active' = active /\ base' = base
      /\ boot \in {"down", "rewrite", "reapply"} => ~active /\ consumer = ConsumerIdle
  BY BootFrame DEF Phases
<1>1. \A k \in Choosable : toml[k] # Absent => toml'[k] # Absent
  BY ChoicesStay DEF Next
<1>2. CASE Load
  <2>1. ~active /\ consumer' = ConsumerIdle /\ toml' = toml
    BY <1>0, <1>2 DEF Load, LoadWith, files
  <2>2. ASSUME NEW k \in Choosable, toml[k] # Absent
        PROVE  k \in userSet' /\ hash'[k] # Absent
    <3>1. Unsound(k) => Safe[k] # Absent
      BY DEF PersistentRepairable, Unsound, IsInvalid, TypeInv, TypeOK, Files, Entry, Choosable
    <3>2. Loaded(k) # Absent
      BY <2>2, <3>1 DEF Loaded, Dropped, Choosable
    <3> QED
      BY <1>2, <3>2 DEF Load, LoadWith, Choosable
  <2>3. ASSUME NEW k \in Choosable \intersect OverlayKeys
        PROVE  hash'[k] # Absent
    <3>1. toml[k] = Absent => Default[k] # Absent
      BY DEF ForcedPresent
    <3> QED
      BY <1>2, <2>2, <3>1 DEF Load, LoadWith, Choosable
  <2> QED
    BY <1>0, <2>1, <2>2, <2>3, IdleConsumer DEF ChoicesLoaded, ForcedPresent
<1>3. CASE Boot /\ ~Load
  <2>1. hash' = hash /\ userSet' = userSet /\ boot # "down"
    BY <1>3 DEF Boot, Rewrite, Reapply, Reapplied, Subscribe, redis, memory
  <2>2. \/ consumer' = consumer
        \/ consumer'.pc = "capture" /\ consumer'.todo = OverlayKeys
    <3>1. \/ consumer' = consumer \/ (consumer = ConsumerIdle /\ consumer' = ConsumerIdle)
          \/ consumer' = [ConsumerIdle EXCEPT !.pc = "capture", !.todo = OverlayKeys]
      BY <1>0, <1>3 DEF Boot, Rewrite, Reapply, Reapplied, Subscribe
    <3> QED
      BY <3>1, OtherConstants
  <2>3. ForcedPresent'
    BY <1>0, <1>1, <2>1, <2>2 DEF ForcedPresent, Restored
  <2>4. ChoicesLoaded'
    <3>1. CASE toml' = toml
      BY <2>1, <3>1 DEF ChoicesLoaded
    <3>2. CASE toml' # toml
      BY <3>2, ChoicesWritten DEF Next, ChoicesLoaded
    <3> QED
      BY <3>1, <3>2
  <2> QED
    BY <2>3, <2>4
<1> QED
  BY <1>2, <1>3

LEMMA NextChoices ==
    ASSUME PersistentRepairable, TypeInv, Phases, ChoicesLoaded, ForcedPresent, [Next]_vars
    PROVE  ChoicesLoaded' /\ ForcedPresent'
<1>1. CASE Boot
  BY <1>1, BootChoices
<1>2. CASE Watcher
  BY <1>2, WatcherChoices
<1>3. CASE Consumer
  BY <1>3, ConsumerChoices
<1>4. CASE Client
  <2>1. /\ boot' = boot /\ active' = active /\ base' = base /\ consumer' = consumer
        /\ toml' = toml /\ userSet' = userSet
    BY <1>4, ClientFrame
  <2>2. ASSUME NEW k \in Keys, hash[k] # Absent
        PROVE  hash'[k] # Absent
    <3>1. hash'[k] \in {hash[k]} \union EditValues[k]
      BY <1>4, <2>2 DEF Client, ClientSet, ClientPublish, ClientCommand, TypeInv, TypeOK, Files
    <3>2. Absent \notin EditValues[k]
      BY EnvironmentAssumption, ValuesAssumption
    <3> QED
      BY <2>2, <3>1, <3>2
  <2> QED
    BY <2>1, <2>2 DEF ChoicesLoaded, ForcedPresent, Restored, Choosable
<1>5. CASE Crash \/ Reboot
  BY <1>5, StopFrame DEF ChoicesLoaded, ForcedPresent
<1>6. CASE Wait \/ UNCHANGED vars
  <2>1. /\ boot' = boot /\ active' = active /\ base' = base /\ consumer' = consumer
        /\ toml' = toml /\ userSet' = userSet /\ hash' = hash
    BY <1>6 DEF Wait, vars, redis, memory, files
  <2> QED
    BY <2>1 DEF ChoicesLoaded, ForcedPresent, Restored
<1> QED
  BY <1>1, <1>2, <1>3, <1>4, <1>5, <1>6 DEF Next

\* No order of edits, commands, failed writes, crashes and reboots takes a setting off
\* the file whose value clients write or the file had at first, whatever clients do.
\* (Which value it has there is another question: ChoicesAreKept.)
THEOREM EntriesStay ==
    ASSUME PersistentRepairable, ForcedHaveValues
    PROVE  Spec => [][\A k \in Choosable : toml[k] # Absent => toml'[k] # Absent]_vars
<1>1. Init => TypeInv /\ Phases /\ ChoicesLoaded /\ ForcedPresent
  <2> SUFFICES ASSUME Init PROVE TypeInv /\ Phases /\ ChoicesLoaded /\ ForcedPresent
    OBVIOUS
  <2>1. boot = "down" /\ toml = InitToml
    BY DEF Init
  <2> QED
    BY <2>1, InitType, InitPhases DEF ChoicesLoaded, ForcedPresent, ForcedHaveValues
<1>2. TypeInv /\ Phases /\ ChoicesLoaded /\ ForcedPresent /\ [Next]_vars
         => TypeInv' /\ Phases' /\ ChoicesLoaded' /\ ForcedPresent'
  BY NextType, NextPhases, NextChoices
<1>3. TypeInv /\ Phases /\ ChoicesLoaded /\ ForcedPresent /\ [Next]_vars
         => [\A k \in Choosable : toml[k] # Absent => toml'[k] # Absent]_vars
  BY ChoicesStay
<1> QED
  BY <1>1, <1>2, <1>3, PTL DEF Spec

--------------------------------------------------------------------------------
(* Repairs.                                                                     *)

\* As long as service mode is never asked for, the consumer has nothing to do and
\* the watcher has no forced setting to deal with.  (A clear saves between the two
\* steps of a repair, which then puts the value from before that save back.)
NoMode == /\ commands = <<>> /\ consumer.pc = "idle" /\ ~active /\ ~modeFile
          /\ boot # "applying"
          /\ watcher.pc \notin {"read", "edit", "markEdit", "saveEdit", "reassert"}

LEMMA NextNoMode ==
    ASSUME MaxCommands = 0, TypeInv, Phases, NoMode, [Next]_vars
    PROVE  NoMode'
<1>1. CASE Boot
  <2>1. active' = active /\ modeFile' = modeFile /\ commands' = commands
    BY <1>1, BootFrame
  <2>2. CASE Load
    <3>1. boot' # "applying" /\ watcher' = watcher /\ consumer' = consumer
      BY <2>2 DEF Load, LoadWith
    <3> QED
      BY <2>1, <3>1 DEF NoMode
  <2>3. CASE Rewrite \/ Reapply
    <3>1. boot' # "applying" /\ watcher' = watcher /\ consumer' = consumer
      BY <2>3 DEF Rewrite, Reapply, NoMode
    <3> QED
      BY <2>1, <3>1 DEF NoMode
  <2>4. CASE Reapplied \/ Subscribe
    <3>1. boot' # "applying" /\ consumer' = consumer /\ (watcher' = watcher \/ watcher' = WatcherIdle)
      BY <2>4 DEF Reapplied, Subscribe, NoMode
    <3> QED
      BY <2>1, <3>1, WatcherConstants DEF NoMode
  <2> QED
    BY <1>1, <2>2, <2>3, <2>4 DEF Boot
<1>2. CASE Watcher
  <2>1. /\ active' = active /\ modeFile' = modeFile /\ commands' = commands /\ boot' = boot
        /\ consumer' = consumer
        /\ watcher \in [pc : WatcherSteps, key : Keys, value : Values]
        /\ WatcherIdle \in [pc : WatcherSteps, key : Keys, value : Values]
        /\ WatcherIdle.pc = "idle"
    BY <1>2, WatcherFrame, WatcherConstants DEF TypeInv, TypeOK
  <2>2. CASE Check
    <3>1. ~IsOverlaid(watcher.key)
      BY DEF NoMode, IsOverlaid
    <3>2. watcher'.pc \in {"idle", "mark"}
      BY <2>1, <2>2, <3>1 DEF Check, Rest, Goto
    <3> QED
      BY <2>1, <3>2 DEF NoMode
  <2>3. CASE Watcher /\ ~Check
    <3>1. watcher'.pc \in {"idle", "fallback", "check", "repair", "save"}
      BY <2>1, <2>3 DEF NoMode, Watcher, Receive, Fallback, Repair, ReadField, Edit, MarkEdit, SaveEdit,
                        Reassert, Mark, SaveMark, MarkKey, At, Goto, GotoWith, Rest
    <3> QED
      BY <2>1, <3>1 DEF NoMode
  <2> QED
    BY <1>2, <2>2, <2>3
<1>3. CASE Consumer
  <2>1. consumer.pc # "idle" \/ commands # <<>>
    BY <1>3 DEF Consumer, TakeCommand, Activate, FlagOn, StatusOn, Unset, FlagOff, Drop, StatusOff,
                ClearSave, Capture, ForceField, Restore, Stepping
  <2> QED
    BY <2>1 DEF NoMode
<1>4. CASE Client
  <2>1. /\ boot' = boot /\ active' = active /\ consumer' = consumer /\ watcher' = watcher
        /\ modeFile' = modeFile
    BY <1>4, ClientFrame
  <2>2. ASSUME NEW c \in {"apply", "clear"}, ClientCommand(c)
        PROVE  FALSE
    BY <2>2 DEF ClientCommand, TypeInv, TypeOK
  <2>3. commands' = commands
    BY <1>4, <2>2 DEF Client, ClientSet, ClientPublish
  <2> QED
    BY <2>1, <2>3 DEF NoMode
<1>5. CASE Crash \/ Reboot
  <2>1. /\ boot' = "down" /\ active' = FALSE /\ consumer' = ConsumerIdle /\ watcher' = WatcherOff
        /\ modeFile' = modeFile
    BY <1>5, StopFrame
  <2>2. commands' \in {commands, <<>>}
    BY <1>5 DEF Crash, Reboot
  <2> QED
    BY <2>1, <2>2, IdleConsumer, WatcherConstants DEF NoMode
<1>6. CASE Wait \/ UNCHANGED vars
  BY <1>6 DEF Wait, vars, redis, files, memory, NoMode
<1> QED
  BY <1>1, <1>2, <1>3, <1>4, <1>5, <1>6 DEF Next

\* A setting with a format does not admit the empty string.  (The code takes one on
\* file for no value at all.)
BlankRefused == \A k \in Keys \ Transient : Valid[k] = Values \/ Blank \notin Valid[k]

\* While a sound choice is on file, the value in use and the one of a repair that
\* is under way are that choice or what clients wrote since.
ChoiceOrEdit(k) == {toml[k]} \union EditValues[k]
OwnValues ==
    boot # "down" /\ faults = 0 =>
        \A k \in Keys \ Transient :
            toml[k] # Absent /\ ~IsInvalid(k, toml[k]) =>
                /\ k \in userSet /\ hash[k] \in ChoiceOrEdit(k)
                /\ watcher.key = k /\ watcher.pc = "repair" => watcher.value \in ChoiceOrEdit(k)

LEMMA ReplacedByEdits ==
    ASSUME TypeInv, Phases, NoMode, OwnValues, [Next]_vars, faults = 0,
           NEW k \in Keys \ Transient, toml[k] # Absent, ~IsInvalid(k, toml[k]), toml'[k] # toml[k]
    PROVE  toml'[k] \in EditValues[k]
<1>1. Save /\ boot # "down"
  BY OnlySavesWrite
<1>2. toml'[k] = Persisted[k]
  BY <1>1, SaveChoice
<1>3. k \in userSet /\ hash[k] \in ChoiceOrEdit(k)
  BY <1>1 DEF OwnValues
<1>4. toml'[k] = hash[k]
  BY <1>2, <1>3 DEF Persisted, IsOverlaid, NoMode
<1> QED
  BY <1>3, <1>4 DEF ChoiceOrEdit

\* What is saved is in use and a choice; the watcher is not in the midst of a repair.
LEMMA OwnSaved ==
    ASSUME TypeInv, Phases, NoMode, [Next]_vars, Rewrite \/ SaveMark,
           NEW k \in Keys \ Transient, toml'[k] # toml[k], toml'[k] # Absent
    PROVE  /\ k \in userSet' /\ hash'[k] = toml'[k]
           /\ watcher'.pc # "repair"
<1>1. Save /\ hash' = hash /\ userSet' = userSet
  BY DEF Rewrite, SaveMark, SaveNow, redis
<1>2. toml'[k] = Persisted[k]
  BY <1>1, SaveChoice
<1>3. k \in userSet' /\ hash'[k] = toml'[k]
  BY <1>1, <1>2 DEF Persisted, IsOverlaid, NoMode
<1>4. watcher'.pc # "repair"
  <2>1. CASE Rewrite
    BY <2>1, WatcherConstants DEF Rewrite, Phases, Subscribed
  <2>2. CASE SaveMark
    BY <2>2, WatcherConstants DEF SaveMark, Rest
  <2> QED
    BY <2>1, <2>2
<1> QED
  BY <1>3, <1>4

LEMMA NextOwn ==
    ASSUME SchemaIsSound, PersistentRepairable, BlankRefused, MaxCommands = 0,
           TypeInv, Phases, RepairsChecked, NoMode, FileKnown, OwnValues, [Next]_vars
    PROVE  OwnValues'
<1> SUFFICES ASSUME boot' # "down", faults' = 0, NEW k \in Keys \ Transient,
                    toml'[k] # Absent, ~IsInvalid(k, toml'[k])
             PROVE  /\ k \in userSet' /\ hash'[k] \in ChoiceOrEdit(k)'
                    /\ watcher'.key = k /\ watcher'.pc = "repair" => watcher'.value \in ChoiceOrEdit(k)'
  BY DEF OwnValues
<1>0. faults = 0
  BY FaultsStay
<1>1. CASE Load
  <2>1. toml' = toml /\ watcher' = watcher /\ boot = "down"
    BY <1>1 DEF Load, LoadWith, files
  <2>2. Loaded(k) = toml[k]
    BY <2>1, LoadedSound
  <2>3. k \in userSet' /\ hash'[k] = toml[k]
    BY <1>1, <2>1, <2>2 DEF Load, LoadWith
  <2>4. watcher.pc # "repair"
    BY <2>1 DEF Phases, Subscribed
  <2> QED
    BY <2>1, <2>3, <2>4 DEF ChoiceOrEdit
<1>2. CASE (Rewrite \/ SaveMark) /\ toml'[k] # toml[k]
  BY <1>2, OwnSaved DEF ChoiceOrEdit
<1>3. CASE boot # "down" /\ toml'[k] = toml[k]
  <2>1. k \in userSet /\ hash[k] \in ChoiceOrEdit(k)
    BY <1>0, <1>3 DEF OwnValues
  <2>2. watcher.key = k /\ watcher.pc = "repair" => watcher.value \in ChoiceOrEdit(k)
    BY <1>0, <1>3 DEF OwnValues
  <2>3. ChoiceOrEdit(k)' = ChoiceOrEdit(k)
    BY <1>3 DEF ChoiceOrEdit
  <2>4. CASE Watcher
    <3>0. /\ watcher \in [pc : WatcherSteps, key : Keys, value : Values]
          /\ WatcherIdle \in [pc : WatcherSteps, key : Keys, value : Values]
          /\ WatcherIdle.pc = "idle" /\ hash \in [Keys -> Entry] /\ boot = "up"
      BY <2>4, WatcherFrame, WatcherConstants DEF TypeInv, TypeOK, Files, Phases
    <3>1. k \in userSet'
      BY <2>1, <2>4 DEF Watcher, Receive, Fallback, Repair, Check, ReadField, Edit, MarkEdit, Mark,
                        MarkKey, SaveEdit, SaveMark, SaveNow, Reassert, memory
    <3>2. CASE Repair
      <4>1. watcher'.pc = "idle" /\ hash'[k] = IF watcher.key = k THEN watcher.value ELSE hash[k]
        BY <3>0, <3>2 DEF Repair, Rest, SetField
      <4>2. watcher.pc = "repair"
        BY <3>2 DEF Repair, At
      <4> QED
        BY <2>1, <2>2, <2>3, <3>1, <4>1, <4>2
    <3>3. CASE Fallback
      <4>1. hash' = hash
        BY <3>3 DEF Fallback, redis
      <4>2. watcher'.pc = "repair" => watcher'.key = watcher.key /\ watcher'.value = FallbackFor(watcher.key)
        BY <3>0, <3>3 DEF Fallback, Rest, GotoWith
      <4>3. ASSUME watcher.key = k
            PROVE  FallbackFor(k) = toml[k]
        <5>1. lastPersisted[k] = toml[k]
          BY <1>0, <3>0 DEF FileKnown
        <5>2. toml[k] \in Values /\ toml[k] \in Valid[k]
          BY <1>3 DEF IsInvalid, TypeInv, TypeOK, Files, Entry
        <5>3. Valid[k] # Values
          BY <3>3, <4>3 DEF Fallback, At, RepairsChecked
        <5>4. toml[k] # Blank
          BY <5>2, <5>3 DEF BlankRefused
        <5> QED
          BY <1>3, <5>1, <5>4 DEF FallbackFor
      <4> QED
        BY <2>1, <2>3, <3>1, <4>1, <4>2, <4>3 DEF ChoiceOrEdit
    <3>4. CASE Watcher /\ ~Repair /\ ~Fallback
      <4>1. hash' = hash
        BY <3>4 DEF Watcher, Receive, Check, ReadField, Edit, MarkEdit, Mark, MarkKey, SaveEdit,
                    SaveMark, SaveNow, Reassert, At, NoMode, redis
      <4>2. watcher'.pc # "repair"
        BY <3>0, <3>4 DEF Watcher, Receive, Check, ReadField, Edit, MarkEdit, Mark, MarkKey, SaveEdit,
                    SaveMark, Reassert, Goto, GotoWith, Rest
      <4> QED
        BY <2>1, <2>3, <3>1, <4>1, <4>2
    <3> QED
      BY <2>4, <3>2, <3>3, <3>4
  <2>5. CASE Client
    <3>1. watcher' = watcher /\ userSet' = userSet
      BY <2>5, ClientFrame
    <3>2. hash'[k] \in {hash[k]} \union EditValues[k]
      BY <2>5 DEF Client, ClientSet, ClientPublish, ClientCommand, TypeInv, TypeOK, Files
    <3> QED
      BY <2>1, <2>2, <2>3, <3>1, <3>2 DEF ChoiceOrEdit
  <2>6. CASE Boot /\ ~Load
    <3>1. hash' = hash /\ userSet' = userSet /\ (watcher' = watcher \/ watcher' = WatcherIdle)
      BY <2>6 DEF Boot, Rewrite, Reapply, Reapplied, Subscribe, redis, memory
    <3> QED
      BY <2>1, <2>2, <2>3, <3>1, WatcherConstants
  <2>7. CASE Wait \/ UNCHANGED vars
    BY <2>1, <2>2, <2>3, <2>7 DEF Wait, vars, redis, memory
  <2>8. CASE Consumer
    <3>1. consumer.pc # "idle" \/ commands # <<>>
      BY <2>8 DEF Consumer, TakeCommand, Activate, FlagOn, StatusOn, Unset, FlagOff, Drop, StatusOff,
                  ClearSave, Capture, ForceField, Restore, Stepping
    <3> QED
      BY <3>1 DEF NoMode
  <2>9. CASE Crash \/ Reboot
    BY <2>9, StopFrame
  <2> QED
    BY <1>1, <2>4, <2>5, <2>6, <2>7, <2>8, <2>9 DEF Next
<1>4. Load \/ boot # "down"
  <2>1. Watcher => boot # "down"
    BY WatcherFrame DEF Phases
  <2>2. Consumer => boot # "down"
    BY ConsumerMoves
  <2>3. Client \/ Wait \/ UNCHANGED vars => boot' = boot
    BY ClientFrame DEF Wait, vars
  <2>4. Crash \/ Reboot => boot' = "down"
    BY StopFrame
  <2>5. Boot /\ ~Load => boot # "down"
    BY DEF Boot, Rewrite, Reapply, Reapplied, Subscribe
  <2> QED
    BY <2>1, <2>2, <2>3, <2>4, <2>5 DEF Next
<1>5. toml' = toml \/ Rewrite \/ SaveMark
  BY OnlySavesWrite DEF NoMode, SaveEdit, ClearSave, At, Stepping
<1> QED
  BY <1>1, <1>2, <1>3, <1>4, <1>5

\* Rejecting a value never costs the user the choice on file: where service mode is
\* not in use, a sound value on file is replaced only by one that a client wrote,
\* whatever the watcher repaired, however writes failed and the service died.
THEOREM ChoicesReplacedByEdits ==
    ASSUME SchemaIsSound, PersistentRepairable, BlankRefused, MaxCommands = 0
    PROVE  Spec => ReplacedOnlyByEdits
<1> DEFINE I == /\ TypeInv /\ Phases /\ RepairsChecked /\ NoMode
                /\ Loading /\ FileKnown /\ OwnValues
<1>1. Init => I
  <2> SUFFICES ASSUME Init PROVE I
    OBVIOUS
  <2>1. boot = "down" /\ active = FALSE /\ modeFile = FALSE /\ commands = <<>>
        /\ consumer = ConsumerIdle /\ watcher = WatcherOff
    BY DEF Init
  <2>2. RepairsChecked /\ Loading /\ FileKnown /\ OwnValues
    BY <2>1, WatcherConstants DEF RepairsChecked, Loading, FileKnown, OwnValues
  <2>3. NoMode
    BY <2>1, WatcherConstants, IdleConsumer DEF NoMode
  <2> QED
    BY <2>2, <2>3, InitType, InitPhases
<1>2. I /\ [Next]_vars => I'
  BY NextType, NextPhases, NextRepairs, NextNoMode, NextLoading, NextKnown, NextOwn
<1>3. I /\ [Next]_vars =>
        [\A k \in Keys \ Transient :
           faults = 0 /\ toml[k] # Absent /\ ~IsInvalid(k, toml[k]) /\ toml'[k] # toml[k]
             => toml'[k] \in EditValues[k]]_vars
  BY ReplacedByEdits
<1> QED
  BY <1>1, <1>2, <1>3, PTL DEF Spec, ReplacedOnlyByEdits

--------------------------------------------------------------------------------
(* Service mode entered and left by patient clients, with crashes and reboots at *)
(* any step: a forced setting that no client edits goes through the base and     *)
(* comes back.  What comes back is what the last start of the service loaded:    *)
(* before the first crash the user's choice, after one that choice or the forced *)
(* value, if a save put that on file before the choice was restored.             *)

\* The forced settings that no client edits.  What is on file of one, what service
\* mode forces it to and its default are valid values, and a transient one is not on
\* file at first.
Steady == {k \in OverlayKeys : EditValues[k] = {}}
SteadySound == \A k \in Steady : /\ \A v \in {InitToml[k], Forced[k], Default[k]} : ~IsInvalid(k, v)
                                 /\ k \in Transient => InitToml[k] = Absent

\* The watcher is at k, or its name is on the way there.
AtKey(k) == watcher.key = k /\ watcher.pc \notin {"off", "idle"}
Pending(k) == InChannel(k) \/ AtKey(k)

\* A command is the only one.  It waits in Redis for a service that is down or starts,
\* and is taken by one that is at rest.
WillTake == commands # <<>> /\ boot = "up"
OneCommand == /\ commands # <<>> => Len(commands) = 1
              /\ WillTake => consumer.pc = "idle"
              /\ ~Subscribed => channel = <<>>

\* The hash holds the forced value of k: from the step that sets it to the step
\* that restores or drops it.
InForce(k) == \/ active /\ ~ToBeForced(k)
              \/ consumer.pc = "flagOff"
              \/ consumer.pc = "restore" /\ (k \in consumer.todo \/ k \in ToDrop)
              \/ consumer.pc = "drop" /\ k \in ToDrop

\* Otherwise it holds x, what was loaded of k.
ValueOf(k, x) == boot # "down" => hash[k] = IF InForce(k) THEN Forced[k] ELSE x

\* And x is what was captured of it.
CapturedOf(k, x) ==
    /\ active => base[k].value = x
    /\ ~active /\ consumer.pc = "capture" /\ k \notin consumer.todo => consumer.held[k] = x
    /\ consumer.pc \in {"flagOff", "restore", "drop"} => consumer.held[k] = x
    /\ consumer.pc = "restore" /\ k \in consumer.todo => k \in ToRestore

\* While the consumer is about to set k, the watcher has nothing to do with it: it
\* reads k only while k has the forced value.
Quiet(k) == \/ WillTake
            \/ consumer.pc \in {"capture", "unset", "flagOn", "flagOff"}
            \/ consumer.pc \in {"force", "restore"} /\ k \in consumer.todo
WatcherOf(k) == /\ k \notin unpublished
                /\ Quiet(k) => ~Pending(k)
                /\ AtKey(k) => /\ watcher.pc \in {"check", "read", "mark", "save"}
                               /\ watcher.pc = "read" => active

SteadyAt(k, x) == ValueOf(k, x) /\ CapturedOf(k, x) /\ WatcherOf(k)

\* What can have been loaded of k: what is on file, or the default where nothing is.
Loadable(k) == {v \in {InitToml[k], Forced[k], Default[k]} : v = Absent => Default[k] = Absent}

\* Before the first crash that is what is on file at first.  A choice on file at first
\* is still there, or the forced value is; and what was loaded is the choice, as long
\* as the choice is there.
Back(k, x) ==
    /\ crashes = 0 => x = Initially(k)
    /\ crashes = 0 /\ boot = "down" => toml[k] = InitToml[k] /\ hash[k] = Absent
    /\ InitToml[k] # Absent => /\ toml[k] \in {InitToml[k], Forced[k]}
                               /\ x \in {InitToml[k], Forced[k]}
                               /\ toml[k] = InitToml[k] => x = InitToml[k]
                               /\ boot # "down" => k \in userSet

\* (After a crash, a setting that is not on file is what Redis still has of it.)
Tracked(k) == InitToml[k] # Absent \/ crashes = 0
RoundAt(k) == \E x \in Loadable(k) : SteadyAt(k, x) /\ Back(k, x)
RoundInv == OneCommand /\ \A k \in Steady : Tracked(k) => RoundAt(k)

--------------------------------------------------------------------------------
(* One step of each actor.                                                      *)

LEMMA SteadyKeys == \A k \in Steady : k \in OverlayKeys /\ k \in Keys /\ EditValues[k] = {}
BY OverlayAssumption DEF Steady

\* What is loaded of a setting.
LEMMA SteadyLoad ==
    ASSUME SteadySound, TypeInv, Phases, Load, NEW k \in Steady, Tracked(k), RoundAt(k)
    PROVE  \E y \in Loadable(k) : hash'[k] = y /\ Back(k, y)'
<1>1. /\ k \in Keys /\ k \in OverlayKeys /\ Forced[k] # Absent
      /\ boot = "down" /\ boot' # "down" /\ toml' = toml /\ crashes' = crashes
  BY SteadyKeys, OverlayAssumption, ValuesAssumption DEF Load, LoadWith, files, failures
<1>2. PICK x \in Loadable(k) : Back(k, x)
  BY DEF RoundAt
<1>3. CASE InitToml[k] # Absent
  <2>1. toml[k] \in {InitToml[k], Forced[k]} /\ toml[k] # Absent /\ k \notin Transient
    BY <1>1, <1>2, <1>3 DEF Back, SteadySound
  <2>2. Loaded(k) = toml[k]
    BY <2>1 DEF Loaded, Dropped, Unsound, SteadySound
  <2>3. hash'[k] = toml[k] /\ k \in userSet'
    BY <1>1, <2>1, <2>2 DEF Load, LoadWith
  <2>4. toml[k] \in Loadable(k)
    BY <2>1 DEF Loadable
  <2>5. ASSUME NEW y, y = toml[k]
        PROVE  Back(k, y)'
    BY <1>1, <1>2, <1>3, <2>1, <2>3, <2>5 DEF Back, Initially
  <2>6. \A y : y = toml[k] => Back(k, y)'
    BY <2>5
  <2> QED
    BY <2>3, <2>4, <2>6
<1>4. CASE InitToml[k] = Absent
  <2>1. crashes = 0 /\ toml[k] = Absent /\ hash[k] = Absent
    BY <1>1, <1>2, <1>4 DEF Back, Tracked
  <2>2. hash'[k] = Default[k]
    BY <1>1, <2>1 DEF Load, LoadWith, Loaded
  <2>3. Default[k] \in Loadable(k)
    BY DEF Loadable
  <2>4. Back(k, Default[k])'
    BY <1>1, <1>4 DEF Back, Initially, Load, LoadWith
  <2> QED
    BY <2>2, <2>3, <2>4
<1> QED
  BY <1>3, <1>4

\* Before the watcher listens, nothing is on the way to it.
LEMMA BootCommand ==
    ASSUME TypeInv, Phases, OneCommand, Boot
    PROVE  /\ OneCommand'
           /\ \A k \in Steady : ~Pending(k)' /\ ~AtKey(k)'
<1>0. /\ channel' = channel /\ commands' = commands /\ ~Subscribed /\ channel = <<>>
      /\ watcher.pc = "off"
  BY BootFrame DEF OneCommand, Subscribed
<1>1. watcher' = watcher \/ watcher'.pc = "idle"
  BY WatcherConstants DEF Boot, Load, LoadWith, Rewrite, Reapply, Reapplied, Subscribe
<1>2. boot' = "up" => consumer'.pc = "idle" \/ (boot = "up" /\ consumer' = consumer)
  <2>1. CASE Load \/ Rewrite
    BY <2>1 DEF Load, LoadWith, Rewrite
  <2>2. CASE Reapply
    BY <2>2, IdleConsumer DEF Reapply, Phases
  <2>3. CASE Reapplied \/ Subscribe
    BY <2>3 DEF Reapplied, Subscribe
  <2> QED
    BY <2>1, <2>2, <2>3 DEF Boot
<1>3. OneCommand'
  BY <1>0, <1>2 DEF OneCommand, WillTake
<1> QED
  BY <1>0, <1>1, <1>3 DEF Pending, AtKey, InChannel

LEMMA LoadSteady ==
    ASSUME SteadySound, TypeInv, Phases, OneCommand, Load,
           NEW k \in Steady, Tracked(k), RoundAt(k)
    PROVE  RoundAt(k)'
<1>1. PICK y \in Loadable(k) : hash'[k] = y /\ Back(k, y)'
  BY SteadyLoad
<1>2. /\ ~active' /\ consumer'.pc = "idle" /\ unpublished' = unpublished
      /\ ~Pending(k)' /\ ~AtKey(k)'
  BY BootCommand, IdleConsumer DEF Load, LoadWith, Boot, Phases, clients
<1>3. k \notin unpublished
  BY DEF RoundAt, SteadyAt, WatcherOf
<1>4. SteadyAt(k, y)'
  BY <1>1, <1>2, <1>3 DEF SteadyAt, ValueOf, InForce, CapturedOf, WatcherOf
<1> QED
  BY <1>1, <1>4 DEF RoundAt

LEMMA BootSteady ==
    ASSUME TypeInv, Phases, OneCommand, Boot, ~Load, NEW k \in Steady, NEW x, SteadyAt(k, x)
    PROVE  SteadyAt(k, x)'
<1>0. /\ active' = active /\ base' = base /\ unpublished' = unpublished
      /\ ~Pending(k)' /\ ~AtKey(k)'
      /\ boot # "down" /\ hash' = hash
  BY BootFrame, BootCommand DEF Boot, Rewrite, Reapply, Reapplied, Subscribe, redis
<1>1. WatcherOf(k)'
  BY <1>0 DEF SteadyAt, WatcherOf
<1>2. CASE consumer' = consumer
  <2>1. /\ ToRestore' = ToRestore /\ ToDrop' = ToDrop
        /\ InForce(k)' <=> InForce(k)
    BY <1>0, <1>2 DEF ToRestore, ToDrop, Restored, InForce, ToBeForced
  <2>2. ValueOf(k, x)'
    BY <1>0, <2>1 DEF SteadyAt, ValueOf
  <2>3. CapturedOf(k, x)'
    BY <1>0, <1>2, <2>1 DEF SteadyAt, CapturedOf
  <2> QED
    BY <1>1, <2>2, <2>3 DEF SteadyAt
<1>3. CASE consumer' # consumer
  <2>1. /\ consumer' = [ConsumerIdle EXCEPT !.pc = "capture", !.todo = OverlayKeys]
        /\ ~active /\ consumer = ConsumerIdle
    BY <1>3 DEF Boot, Rewrite, Reapply, Reapplied, Subscribe, Phases
  <2>2. consumer'.pc = "capture" /\ consumer'.todo = OverlayKeys /\ consumer.pc = "idle"
    BY <2>1, OtherConstants, IdleConsumer
  <2>3. ~InForce(k) /\ ~InForce(k)'
    BY <1>0, <2>1, <2>2 DEF InForce
  <2>4. ValueOf(k, x)'
    BY <1>0, <2>3 DEF SteadyAt, ValueOf
  <2>5. CapturedOf(k, x)'
    BY <1>0, <2>1, <2>2, SteadyKeys DEF CapturedOf
  <2> QED
    BY <1>1, <2>4, <2>5 DEF SteadyAt
<1> QED
  BY <1>2, <1>3

LEMMA ClientSteady ==
    ASSUME Patient, TypeInv, Phases, OneCommand, Client
    PROVE  /\ OneCommand'
           /\ \A k \in Steady : \A x : SteadyAt(k, x) => SteadyAt(k, x)'
<1>0. /\ boot' = boot /\ active' = active /\ base' = base /\ consumer' = consumer
      /\ watcher' = watcher /\ modeFile' = modeFile /\ toml' = toml /\ userSet' = userSet
      /\ channel \in Seq(Keys) /\ hash \in [Keys -> Entry]
      /\ commands \in Seq({"apply", "clear"})
  BY ClientFrame DEF TypeInv, TypeOK, Files
<1>1. ASSUME NEW k \in Steady
      PROVE  /\ ToRestore' = ToRestore /\ ToDrop' = ToDrop
             /\ InForce(k)' <=> InForce(k)
             /\ AtKey(k)' <=> AtKey(k)
  BY <1>0 DEF ToRestore, ToDrop, Restored, InForce, ToBeForced, AtKey
<1>2. ASSUME NEW j \in Keys, ClientSet(j)
      PROVE  /\ OneCommand'
             /\ \A k \in Steady : \A x : SteadyAt(k, x) => SteadyAt(k, x)'
  <2>1. PICK v \in EditValues[j] : hash' = [hash EXCEPT ![j] = v]
    BY <1>2 DEF ClientSet
  <2>2. /\ boot # "down" /\ channel' = channel /\ commands' = commands
        /\ unpublished' = unpublished \union {j}
    <3>1. boot # "down"
      BY <1>2 DEF ClientSet, Phases
    <3> QED
      BY <1>2, <3>1 DEF ClientSet
  <2>3. OneCommand'
    BY <1>0, <2>2 DEF OneCommand, WillTake, Subscribed
  <2>4. ASSUME NEW k \in Steady, NEW x, SteadyAt(k, x)
        PROVE  SteadyAt(k, x)'
    <3>1. k # j /\ k \in Keys
      BY <2>1, SteadyKeys
    <3>2. hash'[k] = hash[k] /\ (InChannel(k)' <=> InChannel(k))
      BY <1>0, <2>1, <2>2, <3>1, SameChannel
    <3> QED
      BY <1>0, <1>1, <2>2, <2>4, <3>1, <3>2
         DEF SteadyAt, ValueOf, CapturedOf, WatcherOf, Quiet, WillTake, Pending
  <2> QED
    BY <2>3, <2>4
<1>3. ASSUME NEW j \in Keys, ClientPublish(j)
      PROVE  /\ OneCommand'
             /\ \A k \in Steady : \A x : SteadyAt(k, x) => SteadyAt(k, x)'
  <2>1. /\ channel' = Published(<<j>>) /\ hash' = hash /\ commands' = commands
        /\ j \in unpublished /\ unpublished' = unpublished \ {j}
    BY <1>3 DEF ClientPublish
  <2>2. OneCommand'
    BY <1>0, <2>1 DEF OneCommand, WillTake, Subscribed, Published
  <2>3. ASSUME NEW k \in Steady, NEW x, SteadyAt(k, x)
        PROVE  SteadyAt(k, x)'
    <3>1. k # j /\ k \in Keys
      BY <2>1, <2>3, SteadyKeys DEF SteadyAt, WatcherOf
    <3>2. <<j>> \in Seq(Keys) /\ ~ \E i \in 1..Len(<<j>>) : <<j>>[i] = k
      BY <3>1
    <3>3. InChannel(k)' => InChannel(k)
      BY <1>0, <2>1, <3>1, <3>2, OnlyPublished
    <3> QED
      BY <1>0, <1>1, <2>1, <2>3, <3>1, <3>3
         DEF SteadyAt, ValueOf, CapturedOf, WatcherOf, Quiet, WillTake, Pending
  <2> QED
    BY <2>2, <2>3
<1>4. ASSUME NEW c \in {"apply", "clear"}, ClientCommand(c)
      PROVE  /\ OneCommand'
             /\ \A k \in Steady : \A x : SteadyAt(k, x) => SteadyAt(k, x)'
  <2>1. /\ boot = "up" /\ watcher.pc = "idle" /\ consumer.pc = "idle"
        /\ channel = <<>> /\ commands = <<>>
    BY <1>4 DEF ClientCommand, Quiescent, AtRest, At, Stepping
  <2>2. /\ commands' = Append(commands, c) /\ hash' = hash /\ channel' = channel
        /\ unpublished' = unpublished
    BY <1>4 DEF ClientCommand
  <2>3. Len(commands') = 1
    BY <2>1, <2>2
  <2>4. OneCommand'
    BY <1>0, <2>1, <2>2, <2>3 DEF OneCommand, WillTake
  <2>5. ASSUME NEW k \in Steady, NEW x, SteadyAt(k, x)
        PROVE  SteadyAt(k, x)'
    <3>1. ~Pending(k)' /\ ~AtKey(k)'
      BY <1>0, <2>1, <2>2 DEF Pending, AtKey, InChannel
    <3> QED
      BY <1>0, <1>1, <2>1, <2>2, <2>5, <3>1 DEF SteadyAt, ValueOf, CapturedOf, WatcherOf
  <2> QED
    BY <2>4, <2>5
<1> QED
  BY <1>2, <1>3, <1>4 DEF Client


\* The watcher takes nothing up but what is in the channel.
LEMMA WatcherPending ==
    ASSUME TypeInv, Watcher, NEW k \in Steady, NEW x, SteadyAt(k, x)
    PROVE  /\ Pending(k)' => Pending(k)
           /\ hash'[k] = hash[k] /\ base'[k] = base[k]
           /\ userSet \subseteq userSet'
<1>0. /\ watcher \in [pc : WatcherSteps, key : Keys, value : Values]
      /\ WatcherIdle \in [pc : WatcherSteps, key : Keys, value : Values]
      /\ WatcherIdle.pc = "idle" /\ channel \in Seq(Keys) /\ hash \in [Keys -> Entry]
      /\ k \in Keys /\ k \in OverlayKeys
      /\ AtKey(k) => watcher.pc \in {"check", "read", "mark", "save"}
  BY WatcherConstants, SteadyKeys DEF TypeInv, TypeOK, Files, SteadyAt, WatcherOf
<1>1. CASE Receive
  <2>1. /\ channel # <<>> /\ channel' = Tail(channel) /\ hash' = hash
        /\ base' = base /\ userSet' = userSet /\ watcher'.key = Head(channel)
    BY <1>0, <1>1 DEF Receive, memory
  <2>2. /\ InChannel(Head(channel))
        /\ InChannel(k)' => InChannel(k)
    BY <1>0, <2>1, OnlyReceived
  <2> QED
    BY <2>1, <2>2 DEF Pending, AtKey
<1>2. CASE Repair \/ Reassert
  <2>1. watcher.key # k
    BY <1>0, <1>2 DEF Repair, Reassert, At, AtKey
  <2>2. PICK v : SetField(watcher.key, v)
    BY <1>2 DEF Repair, Reassert
  <2>3. watcher.key \in Keys
    BY <1>0
  <2>4. ASSUME NEW j \in Keys, j = watcher.key
        PROVE  hash'[k] = hash[k] /\ (InChannel(k)' => InChannel(k))
    BY <1>0, <2>1, <2>2, <2>4, OnlySet DEF TypeInv
  <2>5. base' = base /\ userSet' = userSet /\ watcher' = WatcherIdle
    BY <1>2 DEF Repair, Reassert, Rest, memory
  <2> QED
    BY <1>0, <2>3, <2>4, <2>5 DEF Pending, AtKey
<1>3. CASE Edit
  <2>1. watcher.key # k
    BY <1>0, <1>3 DEF Edit, At, AtKey
  <2>2. hash' = hash /\ channel' = channel /\ userSet' = userSet /\ base'[k] = base[k]
    BY <1>3, <2>1 DEF Edit, redis
  <2>3. watcher'.key # k
    BY <1>0, <1>3, <2>1 DEF Edit, Goto
  <2> QED
    BY <1>0, <2>2, <2>3, SameChannel DEF Pending, AtKey
<1>4. CASE Fallback \/ Check \/ ReadField
  <2>1. hash' = hash /\ channel' = channel /\ userSet' = userSet /\ base' = base
    BY <1>4 DEF Fallback, Check, ReadField, redis, memory
  <2>2. watcher'.pc = "idle" \/ (watcher'.key = watcher.key /\ watcher.pc \notin {"off", "idle"})
    BY <1>0, <1>4 DEF Fallback, Check, ReadField, Rest, Goto, GotoWith, At
  <2> QED
    BY <1>0, <2>1, <2>2, SameChannel DEF Pending, AtKey
<1>5. CASE MarkEdit \/ Mark
  <2>1. /\ hash' = hash /\ channel' = channel /\ base' = base
        /\ userSet' = userSet \union {watcher.key}
    BY <1>5 DEF MarkEdit, Mark, MarkKey, redis
  <2>2. watcher'.key = watcher.key /\ watcher.pc \notin {"off", "idle"}
    BY <1>0, <1>5 DEF MarkEdit, Mark, MarkKey, Goto, At
  <2> QED
    BY <1>0, <2>1, <2>2, SameChannel DEF Pending, AtKey
<1>6. CASE SaveEdit \/ SaveMark
  <2>1. hash' = hash /\ channel' = channel /\ userSet' = userSet /\ base' = base
    BY <1>6 DEF SaveEdit, SaveMark, SaveNow, redis
  <2>2. watcher'.pc = "idle" \/ (watcher'.key = watcher.key /\ watcher.pc \notin {"off", "idle"})
    BY <1>0, <1>6 DEF SaveEdit, SaveMark, Rest, Goto, At
  <2> QED
    BY <1>0, <2>1, <2>2, SameChannel DEF Pending, AtKey
<1> QED
  BY <1>1, <1>2, <1>3, <1>4, <1>5, <1>6 DEF Watcher

\* It comes to a steady setting while the setting has a valid value, and reads it
\* while it has the forced one.
LEMMA WatcherCourse ==
    ASSUME SteadySound, TypeInv, Phases, Watcher,
           NEW k \in Steady, NEW x \in Loadable(k), SteadyAt(k, x), AtKey(k)'
    PROVE  /\ watcher'.pc \in {"check", "read", "mark", "save"}
           /\ watcher'.pc = "read" => active
<1>0. /\ watcher \in [pc : WatcherSteps, key : Keys, value : Values]
      /\ WatcherIdle \in [pc : WatcherSteps, key : Keys, value : Values]
      /\ WatcherIdle.pc = "idle" /\ channel \in Seq(Keys)
      /\ k \in Keys /\ k \in OverlayKeys
      /\ AtKey(k) => watcher.pc \in {"check", "read", "mark", "save"}
      /\ Quiet(k) => ~Pending(k)
      /\ boot = "up"
  BY WatcherFrame, WatcherConstants, SteadyKeys DEF TypeInv, TypeOK, SteadyAt, WatcherOf, Phases
<1>1. hash[k] = IF InForce(k) THEN Forced[k] ELSE x
  BY <1>0 DEF SteadyAt, ValueOf
<1>2. ~IsInvalid(k, hash[k])
  BY <1>1 DEF SteadySound, Loadable
<1>3. CASE Receive
  <2>1. watcher'.key = k
    BY DEF AtKey
  <2>2. /\ watcher'.key = Head(channel)
        /\ watcher'.pc = IF IsInvalid(Head(channel), hash[Head(channel)]) THEN "fallback" ELSE "check"
    BY <1>0, <1>3 DEF Receive
  <2> QED
    BY <1>2, <2>1, <2>2
<1>4. CASE ~Receive
  <2>1. AtKey(k)
    BY <1>0, <1>4 DEF Watcher, AtKey, Fallback, Repair, Check, ReadField, Edit, MarkEdit, SaveEdit,
                      Reassert, Mark, SaveMark, MarkKey, Goto, GotoWith, Rest, At
  <2>2. watcher.key = k /\ watcher.pc \in {"check", "read", "mark", "save"} /\ watcher'.pc # "idle"
    BY <1>0, <2>1 DEF AtKey
  <2>3. CASE Check
    BY <1>0, <2>2, <2>3 DEF Check, Goto, Rest, IsOverlaid
  <2>4. CASE ReadField
    <3>1. active
      BY <2>1, <2>4 DEF ReadField, At, SteadyAt, WatcherOf
    <3>2. InForce(k)
      BY <1>0, <2>1, <3>1 DEF InForce, ToBeForced, Quiet, Pending
    <3>3. Read(k) = Forced[k]
      <4>1. Forced[k] # Absent
        BY <1>0, OverlayAssumption, ValuesAssumption
      <4> QED
        BY <1>1, <3>2, <4>1 DEF Read
    <3>4. watcher' = WatcherIdle
      BY <2>2, <2>4, <3>3 DEF ReadField, Rest
    <3> QED
      BY <1>0, <2>2, <3>4
  <2>5. CASE Mark \/ SaveMark
    BY <1>0, <2>2, <2>5 DEF Mark, MarkKey, SaveMark, Goto, Rest
  <2>6. ~(Fallback \/ Repair \/ Edit \/ MarkEdit \/ SaveEdit \/ Reassert)
    BY <2>2 DEF Fallback, Repair, Edit, MarkEdit, MarkKey, SaveEdit, Reassert, At
  <2> QED
    BY <1>4, <2>3, <2>4, <2>5, <2>6 DEF Watcher
<1> QED
  BY <1>3, <1>4

LEMMA WatcherSteady ==
    ASSUME SteadySound, TypeInv, Phases, OneCommand, Watcher
    PROVE  /\ OneCommand'
           /\ \A k \in Steady : \A x \in Loadable(k) : SteadyAt(k, x) => SteadyAt(k, x)'
<1>0. /\ boot' = boot /\ active' = active /\ consumer' = consumer
      /\ modeFile' = modeFile /\ commands' = commands /\ unpublished' = unpublished
      /\ boot = "up" /\ Subscribed'
  BY WatcherFrame DEF Phases
<1>1. OneCommand'
  BY <1>0 DEF OneCommand, WillTake
<1>2. ASSUME NEW k \in Steady, NEW x \in Loadable(k), SteadyAt(k, x)
      PROVE  SteadyAt(k, x)'
  <2>1. /\ ToRestore' = ToRestore /\ ToDrop' = ToDrop
        /\ InForce(k)' <=> InForce(k)
        /\ Quiet(k)' <=> Quiet(k)
    BY <1>0 DEF ToRestore, ToDrop, Restored, InForce, ToBeForced, Quiet, WillTake
  <2>2. /\ Pending(k)' => Pending(k)
        /\ hash'[k] = hash[k] /\ base'[k] = base[k]
        /\ userSet \subseteq userSet'
    BY <1>2, WatcherPending
  <2>3. AtKey(k)' => /\ watcher'.pc \in {"check", "read", "mark", "save"}
                     /\ watcher'.pc = "read" => active
    BY <1>2, WatcherCourse
  <2>4. ValueOf(k, x)'
    BY <1>0, <1>2, <2>1, <2>2 DEF SteadyAt, ValueOf
  <2>5. CapturedOf(k, x)'
    BY <1>0, <1>2, <2>1, <2>2 DEF SteadyAt, CapturedOf
  <2>6. WatcherOf(k)'
    BY <1>0, <1>2, <2>1, <2>2, <2>3 DEF SteadyAt, WatcherOf
  <2> QED
    BY <2>4, <2>5, <2>6 DEF SteadyAt
<1> QED
  BY <1>1, <1>2


\* The consumer takes the only command, and no other comes until it is done.
LEMMA ConsumerCommand ==
    ASSUME TypeInv, Phases, OneCommand, Consumer
    PROVE  /\ OneCommand' /\ ~WillTake'
           /\ boot # "down" /\ boot' = boot
<1>0. /\ boot \in {"applying", "up"} /\ boot' = boot /\ watcher' = watcher
      /\ commands \in Seq({"apply", "clear"})
  BY ConsumerMoves DEF TypeInv, TypeOK
<1>1. ~Subscribed' => channel' = <<>>
  <2>1. ASSUME watcher.pc = "off"
        PROVE  channel' = channel
    BY <2>1 DEF Consumer, TakeCommand, Activate, FlagOn, StatusOn, Report, Unset, FlagOff, Drop,
                StatusOff, ClearSave, Capture, ForceField, Restore, SetField, Published, redis
  <2> QED
    BY <1>0, <2>1 DEF OneCommand, Subscribed
<1>2. CASE TakeCommand
  <2>1. commands # <<>> /\ commands' = Tail(commands)
    BY <1>2 DEF TakeCommand
  <2>2. Len(commands) = 1
    BY <2>1 DEF OneCommand
  <2>3. commands' = <<>>
    BY <1>0, <2>1, <2>2
  <2> QED
    BY <1>0, <1>1, <2>3 DEF OneCommand, WillTake
<1>3. CASE ~TakeCommand
  <2>1. consumer.pc # "idle"
    BY <1>3 DEF Consumer, Activate, FlagOn, StatusOn, Unset, FlagOff, Drop, StatusOff, ClearSave,
                Capture, ForceField, Restore, Stepping
  <2>2. commands' = commands
    BY <1>3 DEF Consumer, Activate, FlagOn, StatusOn, Report, Unset, FlagOff, Drop, StatusOff,
                ClearSave, Capture, ForceField, Restore, redis
  <2> QED
    BY <1>0, <1>1, <2>1, <2>2 DEF OneCommand, WillTake
<1> QED
  BY <1>2, <1>3

\* What a step of the consumer has to do to keep k steady.
LEMMA ConsumerKeeps ==
    ASSUME TypeInv, Phases, OneCommand, Consumer, NEW k \in Steady, NEW x, SteadyAt(k, x),
           hash'[k] = IF InForce(k)' THEN Forced[k] ELSE x,
           userSet \subseteq userSet',
           CapturedOf(k, x)',
           Quiet(k)' => Quiet(k) /\ (InChannel(k)' => InChannel(k)),
           active /\ ~active' => Quiet(k)
    PROVE  SteadyAt(k, x)'
<1>0. /\ boot # "down" /\ boot' = boot
      /\ watcher' = watcher /\ unpublished' = unpublished
      /\ active \in BOOLEAN /\ active' \in BOOLEAN
  BY ConsumerCommand, ConsumerFrame, NextType DEF TypeInv, TypeOK, Next
<1>1. ValueOf(k, x)'
  BY <1>0 DEF SteadyAt, ValueOf
<1>2. AtKey(k)' <=> AtKey(k)
  BY <1>0 DEF AtKey
<1>3. WatcherOf(k)'
  <2>1. k \notin unpublished'
    BY <1>0 DEF SteadyAt, WatcherOf
  <2>2. Quiet(k)' => ~Pending(k)'
    BY <1>2 DEF SteadyAt, WatcherOf, Pending
  <2>3. AtKey(k)' => watcher'.pc \in {"check", "read", "mark", "save"}
    BY <1>0, <1>2 DEF SteadyAt, WatcherOf
  <2>4. AtKey(k)' /\ watcher'.pc = "read" => active'
    <3>1. AtKey(k) /\ watcher.pc = "read" => active
      BY DEF SteadyAt, WatcherOf
    <3>2. AtKey(k) => ~Quiet(k)
      BY DEF SteadyAt, WatcherOf, Pending
    <3> QED
      BY <1>0, <1>2, <3>1, <3>2
  <2> QED
    BY <2>1, <2>2, <2>3, <2>4 DEF WatcherOf
<1> QED
  BY <1>1, <1>3 DEF SteadyAt

\* Entering service mode.
LEMMA EnteringSteady ==
    ASSUME TypeInv, Phases, OneCommand, NEW k \in Steady, NEW x, SteadyAt(k, x),
           \/ TakeCommand \/ Activate \/ FlagOn \/ StatusOn
           \/ \E j \in OverlayKeys : Capture(j) \/ ForceField(j)
    PROVE  SteadyAt(k, x)'
<1>0. /\ Consumer
      /\ k \in Keys /\ k \in OverlayKeys
      /\ consumer \in [pc : ConsumerSteps, todo : SUBSET OverlayKeys, held : [OverlayKeys -> Entry]]
      /\ channel \in Seq(Keys) /\ hash \in [Keys -> Entry]
      /\ hash[k] = IF InForce(k) THEN Forced[k] ELSE x
  <2>1. Consumer
    BY DEF Consumer
  <2>2. boot # "down"
    BY <2>1, ConsumerCommand
  <2> QED
    BY <2>1, <2>2, SteadyKeys DEF TypeInv, TypeOK, Files, SteadyAt, ValueOf
<1>a. active \in BOOLEAN
  BY DEF TypeInv, TypeOK
<1>b. ~WillTake'
  BY <1>0, ConsumerCommand
<1>c. consumer.pc \in Entering => active
  BY DEF Phases
<1>d. CapturedOf(k, x)
  BY DEF SteadyAt
<1>1. CASE TakeCommand
  <2>1. /\ hash' = hash /\ channel' = channel /\ userSet' = userSet /\ base' = base
        /\ active' = active /\ WillTake /\ consumer.pc = "idle"
    BY <1>1 DEF TakeCommand, memory, Stepping, WillTake
  <2>2. /\ consumer'.pc \in {"capture", "unset"}
        /\ consumer'.pc = "capture" => consumer'.todo = OverlayKeys
    BY <1>0, <1>1 DEF TakeCommand, Then
  <2>3. InForce(k)' <=> InForce(k)
    BY <2>1, <2>2 DEF InForce, ToBeForced
  <2>4. CapturedOf(k, x)'
    BY <1>0, <1>d, <2>1, <2>2 DEF CapturedOf
  <2>5. Quiet(k) /\ (InChannel(k)' => InChannel(k))
    BY <1>0, <2>1, SameChannel DEF Quiet
  <2> QED
    BY <1>0, <2>1, <2>3, <2>4, <2>5, ConsumerKeeps
<1>2. ASSUME NEW j \in OverlayKeys, Capture(j)
      PROVE  SteadyAt(k, x)'
  <2>1. /\ hash' = hash /\ channel' = channel /\ userSet' = userSet /\ base' = base
        /\ active' = active /\ consumer.pc = "capture"
    BY <1>2 DEF Capture, redis, memory, Stepping
  <2>2. /\ consumer'.pc = "capture" /\ consumer'.todo = consumer.todo \ {j}
        /\ consumer'.held = [consumer.held EXCEPT ![j] = hash[j]]
    BY <1>0, <1>2 DEF Capture, Stepping
  <2>3. InForce(k)' <=> InForce(k)
    BY <2>1, <2>2 DEF InForce, ToBeForced
  <2>4. CapturedOf(k, x)'
    <3>1. ~active => hash[k] = x
      BY <1>0, <2>1 DEF InForce
    <3>2. ~active /\ k \notin consumer'.todo => consumer'.held[k] = x
      BY <1>0, <1>d, <2>1, <2>2, <3>1 DEF CapturedOf
    <3> QED
      BY <1>d, <2>1, <2>2, <3>2 DEF CapturedOf
  <2>5. Quiet(k) /\ (InChannel(k)' => InChannel(k))
    BY <1>0, <2>1, SameChannel DEF Quiet
  <2> QED
    BY <1>0, <2>1, <2>3, <2>4, <2>5, ConsumerKeeps
<1>3. CASE Activate
  <2>1. /\ hash' = hash /\ channel' = channel /\ userSet' = userSet
        /\ consumer.pc = "capture" /\ consumer.todo = {} /\ commands' = commands
    BY <1>3 DEF Activate, redis, Stepping
  <2>2. Quiet(k) /\ (InChannel(k)' => InChannel(k))
    BY <1>0, <2>1, SameChannel DEF Quiet
  <2>3. CASE active
    <3>1. consumer'.pc = "idle" /\ active' = active /\ base' = base
      BY <1>3, <2>3, IdleConsumer DEF Activate
    <3>2. InForce(k)' <=> InForce(k)
      BY <2>1, <3>1 DEF InForce, ToBeForced
    <3>3. CapturedOf(k, x)'
      BY <1>d, <3>1 DEF CapturedOf
    <3> QED
      BY <1>0, <2>1, <2>2, <3>1, <3>2, <3>3, ConsumerKeeps
  <2>4. CASE ~active
    <3>1. /\ active' = TRUE
          /\ consumer' = [ConsumerIdle EXCEPT !.pc = "flagOn"]
          /\ base' = [i \in OverlayKeys |-> [value |-> consumer.held[i],
                                             wasUserSet |-> i \in userSet]]
      BY <1>3, <2>4 DEF Activate
    <3>2. consumer'.pc = "flagOn" /\ base'[k].value = consumer.held[k]
      BY <1>0, <3>1, OtherConstants
    <3>3. ~InForce(k) /\ ~InForce(k)'
      BY <2>1, <2>4, <3>2 DEF InForce, ToBeForced
    <3>4. CapturedOf(k, x)'
      BY <1>d, <2>1, <2>4, <3>1, <3>2 DEF CapturedOf
    <3> QED
      BY <1>0, <2>1, <2>2, <2>4, <3>3, <3>4, ConsumerKeeps
  <2> QED
    BY <2>3, <2>4
<1>4. CASE FlagOn
  <2>1. /\ hash' = hash /\ channel' = channel /\ userSet' = userSet /\ base' = base
        /\ active' = active /\ consumer.pc = "flagOn"
    BY <1>4 DEF FlagOn, redis, memory, Stepping
  <2>2. consumer'.pc = "force" /\ consumer'.todo = OverlayKeys
    BY <1>0, <1>4 DEF FlagOn, Then
  <2>3. ~InForce(k)' /\ ~InForce(k)
    BY <1>0, <2>1, <2>2 DEF InForce, ToBeForced
  <2>4. CapturedOf(k, x)'
    BY <1>c, <1>d, <2>1, <2>2 DEF CapturedOf, Entering
  <2>5. Quiet(k) /\ (InChannel(k)' => InChannel(k))
    BY <1>0, <2>1, SameChannel DEF Quiet
  <2> QED
    BY <1>0, <2>1, <2>3, <2>4, <2>5, ConsumerKeeps
<1>5. ASSUME NEW j \in OverlayKeys, ForceField(j)
      PROVE  SteadyAt(k, x)'
  <2>1. /\ userSet' = userSet /\ base' = base /\ active' = active /\ commands' = commands
        /\ consumer.pc = "force" /\ j \in consumer.todo /\ SetField(j, Forced[j])
    BY <1>5 DEF ForceField, memory, Stepping
  <2>2. /\ consumer'.pc = IF consumer.todo \ {j} = {} THEN "statusOn" ELSE "force"
        /\ consumer'.todo = consumer.todo \ {j}
    BY <1>0, <1>5 DEF ForceField, Then, NextOf
  <2>3. active /\ j \in Keys
    BY <1>c, <2>1, OverlayAssumption DEF Entering
  <2>4. InForce(k)' <=> InForce(k) \/ k = j
    BY <1>0, <2>1, <2>2, <2>3 DEF InForce, ToBeForced
  <2>5. hash'[k] = IF InForce(k)' THEN Forced[k] ELSE x
    <3>1. CASE k = j
      BY <2>1, <2>3, <2>4, <3>1, SetNames DEF TypeInv
    <3>2. CASE k # j
      BY <1>0, <2>1, <2>3, <2>4, <3>2, OnlySet DEF TypeInv
    <3> QED
      BY <3>1, <3>2
  <2>6. CapturedOf(k, x)'
    BY <1>d, <2>1, <2>2, <2>3 DEF CapturedOf
  <2>7. Quiet(k)' => Quiet(k) /\ (InChannel(k)' => InChannel(k))
    <3>1. Quiet(k)' => k # j /\ k \in consumer.todo
      BY <1>b, <2>1, <2>2 DEF Quiet
    <3>2. k # j => (InChannel(k)' => InChannel(k))
      BY <1>0, <2>1, <2>3, OnlySet DEF TypeInv
    <3> QED
      BY <2>1, <3>1, <3>2 DEF Quiet
  <2> QED
    BY <1>0, <2>1, <2>5, <2>6, <2>7, ConsumerKeeps
<1>6. CASE StatusOn
  <2>1. /\ hash' = hash /\ channel' = channel /\ userSet' = userSet /\ base' = base
        /\ active' = active /\ commands' = commands /\ consumer.pc = "statusOn"
        /\ consumer' = ConsumerIdle
    BY <1>6 DEF StatusOn, Report, memory, Stepping
  <2>2. consumer'.pc = "idle"
    BY <2>1, IdleConsumer
  <2>3. InForce(k)' <=> InForce(k)
    BY <2>1, <2>2 DEF InForce, ToBeForced
  <2>4. CapturedOf(k, x)'
    BY <1>d, <2>1, <2>2 DEF CapturedOf
  <2>5. ~Quiet(k)'
    BY <1>b, <2>1, <2>2 DEF Quiet
  <2> QED
    BY <1>0, <2>1, <2>3, <2>4, <2>5, ConsumerKeeps
<1> QED
  BY <1>1, <1>2, <1>3, <1>4, <1>5, <1>6


\* What was captured is what is restored, or dropped where there was nothing.
LEMMA SteadyRestored ==
    ASSUME NEW k \in Steady, NEW x \in Loadable(k), consumer.held[k] = x
    PROVE  /\ k \in ToRestore => Restored(k) = x
           /\ k \in ToDrop => x = Absent
           /\ k \in ToRestore <=> k \notin ToDrop
BY SteadyKeys DEF ToRestore, ToDrop, Restored, Loadable

\* Leaving it.
LEMMA LeavingSteady ==
    ASSUME TypeInv, Phases, OneCommand, NEW k \in Steady, NEW x \in Loadable(k), SteadyAt(k, x),
           \/ Unset \/ FlagOff \/ Drop \/ StatusOff \/ ClearSave
           \/ \E j \in OverlayKeys : Restore(j)
    PROVE  SteadyAt(k, x)'
<1>0. /\ Consumer
      /\ k \in Keys /\ k \in OverlayKeys
      /\ consumer \in [pc : ConsumerSteps, todo : SUBSET OverlayKeys, held : [OverlayKeys -> Entry]]
      /\ channel \in Seq(Keys) /\ hash \in [Keys -> Entry]
      /\ hash[k] = IF InForce(k) THEN Forced[k] ELSE x
  <2>1. Consumer
    BY DEF Consumer
  <2>2. boot # "down"
    BY <2>1, ConsumerCommand
  <2> QED
    BY <2>1, <2>2, SteadyKeys DEF TypeInv, TypeOK, Files, SteadyAt, ValueOf
<1>a. active \in BOOLEAN
  BY DEF TypeInv, TypeOK
<1>b. ~WillTake'
  BY <1>0, ConsumerCommand
<1>c. consumer.pc \in Leaving \union {"clearSave"} => ~active
  BY DEF Phases
<1>d. CapturedOf(k, x)
  BY DEF SteadyAt
<1>1. CASE Unset
  <2>1. hash' = hash /\ channel' = channel /\ consumer.pc = "unset"
    BY <1>1 DEF Unset, redis, Stepping
  <2>2. Quiet(k) /\ (InChannel(k)' => InChannel(k))
    BY <1>0, <2>1, SameChannel DEF Quiet
  <2>3. CASE ~active
    <3>1. consumer'.pc = "idle" /\ active' = active /\ base' = base /\ userSet' = userSet
      BY <1>1, <2>3, IdleConsumer DEF Unset
    <3>2. ~InForce(k)' /\ ~InForce(k)
      BY <2>1, <2>3, <3>1 DEF InForce
    <3>3. CapturedOf(k, x)'
      BY <1>d, <2>3, <3>1 DEF CapturedOf
    <3> QED
      BY <1>0, <2>1, <2>2, <2>3, <3>1, <3>2, <3>3, ConsumerKeeps
  <2>4. CASE active
    <3>1. /\ active' = FALSE
          /\ consumer' = [ConsumerIdle EXCEPT !.pc = "flagOff",
                                              !.held = [i \in OverlayKeys |-> base[i].value]]
      BY <1>1, <2>4 DEF Unset
    <3>2. consumer'.pc = "flagOff" /\ consumer'.held[k] = base[k].value
      BY <1>0, <3>1, OtherConstants
    <3>3. userSet \subseteq userSet'
      BY <1>1, <2>4 DEF Unset
    <3>4. InForce(k)' /\ InForce(k)
      BY <2>1, <2>4, <3>2 DEF InForce, ToBeForced
    <3>5. CapturedOf(k, x)'
      BY <1>d, <2>4, <3>1, <3>2 DEF CapturedOf
    <3> QED
      BY <1>0, <2>1, <2>2, <3>3, <3>4, <3>5, ConsumerKeeps
  <2> QED
    BY <2>3, <2>4
<1>2. CASE FlagOff
  <2>1. /\ hash' = hash /\ channel' = channel /\ userSet' = userSet /\ base' = base
        /\ active' = active /\ consumer.pc = "flagOff"
    BY <1>2 DEF FlagOff, redis, memory, Stepping
  <2>2. /\ consumer'.pc = IF ToRestore = {} THEN "drop" ELSE "restore"
        /\ consumer'.todo = ToRestore /\ consumer'.held = consumer.held
    BY <1>0, <1>2 DEF FlagOff, Then, NextOf
  <2>3. ~active /\ ToRestore' = ToRestore /\ ToDrop' = ToDrop
    BY <1>c, <2>1, <2>2 DEF Leaving, ToRestore, ToDrop, Restored
  <2>4. consumer.held[k] = x /\ (k \in ToRestore <=> k \notin ToDrop)
    BY <1>d, <2>1, SteadyRestored DEF CapturedOf
  <2>5. InForce(k)' /\ InForce(k)
    BY <2>1, <2>2, <2>3, <2>4 DEF InForce
  <2>6. CapturedOf(k, x)'
    BY <2>1, <2>2, <2>3, <2>4 DEF CapturedOf
  <2>7. Quiet(k) /\ (InChannel(k)' => InChannel(k))
    BY <1>0, <2>1, SameChannel DEF Quiet
  <2> QED
    BY <1>0, <2>1, <2>3, <2>5, <2>6, <2>7, ConsumerKeeps
<1>3. ASSUME NEW j \in OverlayKeys, Restore(j)
      PROVE  SteadyAt(k, x)'
  <2>1. /\ userSet' = userSet /\ base' = base /\ active' = active
        /\ consumer.pc = "restore" /\ j \in consumer.todo /\ SetField(j, Restored(j))
    BY <1>3 DEF Restore, memory, Stepping
  <2>2. /\ consumer'.pc = IF consumer.todo \ {j} = {} THEN "drop" ELSE "restore"
        /\ consumer'.todo = consumer.todo \ {j} /\ consumer'.held = consumer.held
    BY <1>0, <1>3 DEF Restore, Then, NextOf
  <2>3. ~active /\ j \in Keys /\ ToRestore' = ToRestore /\ ToDrop' = ToDrop
    BY <1>c, <2>1, <2>2, OverlayAssumption DEF Leaving, ToRestore, ToDrop, Restored
  <2>4. /\ consumer.held[k] = x
        /\ k \in consumer.todo => k \in ToRestore
        /\ k \in ToRestore => Restored(k) = x
        /\ k \in ToRestore <=> k \notin ToDrop
    BY <1>d, <2>1, SteadyRestored DEF CapturedOf
  <2>5. InForce(k)' <=> InForce(k) /\ k # j
    BY <2>1, <2>2, <2>3, <2>4 DEF InForce
  <2>6. hash'[k] = IF InForce(k)' THEN Forced[k] ELSE x
    <3>1. CASE k = j
      <4>1. hash'[j] = Restored(j)
        BY <2>1, <2>3, SetNames DEF TypeInv
      <4> QED
        BY <2>1, <2>4, <2>5, <3>1, <4>1
    <3>2. CASE k # j
      BY <1>0, <2>1, <2>3, <2>5, <3>2, OnlySet DEF TypeInv
    <3> QED
      BY <3>1, <3>2
  <2>7. CapturedOf(k, x)'
    BY <2>1, <2>2, <2>3, <2>4 DEF CapturedOf
  <2>8. Quiet(k)' => Quiet(k) /\ (InChannel(k)' => InChannel(k))
    <3>1. Quiet(k)' => k # j /\ k \in consumer.todo
      BY <1>b, <2>1, <2>2 DEF Quiet
    <3>2. k # j => (InChannel(k)' => InChannel(k))
      BY <1>0, <2>1, <2>3, OnlySet DEF TypeInv
    <3> QED
      BY <2>1, <3>1, <3>2 DEF Quiet
  <2> QED
    BY <1>0, <2>1, <2>3, <2>6, <2>7, <2>8, ConsumerKeeps
<1>4. CASE Drop
  <2>1. /\ userSet' = userSet /\ base' = base /\ active' = active /\ consumer.pc = "drop"
    BY <1>4 DEF Drop, memory, Stepping
  <2>2. consumer'.pc = "statusOff"
    BY <1>0, <1>4 DEF Drop, Then
  <2>3. ~active
    BY <1>c, <2>1 DEF Leaving
  <2>4. k \in ToDrop => x = Absent
    BY <1>d, <2>1, SteadyRestored DEF CapturedOf
  <2>5. hash'[k] = IF k \in ToDrop THEN Absent ELSE hash[k]
    BY <1>0, <1>4, DroppedNames
  <2>6. ~InForce(k)' /\ (InForce(k) <=> k \in ToDrop)
    BY <2>1, <2>2, <2>3 DEF InForce
  <2>7. CapturedOf(k, x)'
    BY <2>1, <2>2, <2>3 DEF CapturedOf
  <2>8. ~Quiet(k)'
    BY <1>b, <2>1, <2>2 DEF Quiet
  <2> QED
    BY <1>0, <2>1, <2>3, <2>4, <2>5, <2>6, <2>7, <2>8, ConsumerKeeps
<1>5. CASE StatusOff \/ ClearSave
  <2>1. /\ hash' = hash /\ userSet' = userSet /\ base' = base /\ active' = active
        /\ consumer.pc \in {"statusOff", "clearSave"}
    BY <1>5 DEF StatusOff, Report, ClearSave, redis, memory, Stepping
  <2>2. consumer'.pc \in {"clearSave", "idle"}
    BY <1>0, <1>5, IdleConsumer DEF StatusOff, ClearSave, Then
  <2>3. ~active
    BY <1>c, <2>1 DEF Leaving
  <2>4. ~InForce(k)' /\ ~InForce(k)
    BY <2>1, <2>2, <2>3 DEF InForce
  <2>5. CapturedOf(k, x)'
    BY <2>1, <2>2, <2>3 DEF CapturedOf
  <2>6. ~Quiet(k)'
    BY <1>b, <2>1, <2>2 DEF Quiet
  <2> QED
    BY <1>0, <2>1, <2>3, <2>4, <2>5, <2>6, ConsumerKeeps
<1> QED
  BY <1>1, <1>2, <1>3, <1>4, <1>5

LEMMA ConsumerSteady ==
    ASSUME TypeInv, Phases, OneCommand, Consumer
    PROVE  /\ OneCommand'
           /\ \A k \in Steady : \A x \in Loadable(k) : SteadyAt(k, x) => SteadyAt(k, x)'
<1>1. CASE \/ TakeCommand \/ Activate \/ FlagOn \/ StatusOn
           \/ \E j \in OverlayKeys : Capture(j) \/ ForceField(j)
  BY <1>1, ConsumerCommand, EnteringSteady
<1>2. CASE \/ Unset \/ FlagOff \/ Drop \/ StatusOff \/ ClearSave
           \/ \E j \in OverlayKeys : Restore(j)
  BY <1>2, ConsumerCommand, LeavingSteady
<1> QED
  BY <1>1, <1>2 DEF Consumer

\* A save writes what was loaded, or the forced value while it is in force.
LEMMA SteadySaved ==
    ASSUME TypeInv, Phases, [Next]_vars, toml' # toml, NEW k \in Steady, NEW x,
           SteadyAt(k, x), k \in userSet
    PROVE  toml'[k] \in {toml[k], x} \/ (toml'[k] = Forced[k] /\ ~active /\ InForce(k))
<1>1. k \in Keys /\ k \in OverlayKeys
  BY SteadyKeys
<1>2. toml'[k] \in {toml[k], Persisted[k]} /\ boot # "down"
  BY <1>1, OnlySavesWrite, SaveChoice
<1>3. Persisted[k] = IF active THEN base[k].value ELSE hash[k]
  BY <1>1 DEF Persisted, IsOverlaid
<1> QED
  BY <1>2, <1>3 DEF SteadyAt, ValueOf, CapturedOf

\* While the service lives, a setting that counts as the user's stays one.
LEMMA MarksStay ==
    ASSUME TypeInv, [Next]_vars, ~(Load \/ Crash \/ Reboot)
    PROVE  userSet \subseteq userSet'
<1>1. CASE Boot
  BY <1>1 DEF Boot, Rewrite, Reapply, Reapplied, Subscribe, memory
<1>2. CASE Watcher
  BY <1>2 DEF Watcher, Receive, Fallback, Repair, Check, ReadField, Edit, MarkEdit, Mark, MarkKey,
              SaveEdit, SaveMark, SaveNow, Reassert, memory
<1>3. CASE Consumer
  BY <1>3 DEF Consumer, TakeCommand, Activate, FlagOn, StatusOn, Report, Unset, FlagOff, Drop,
              StatusOff, ClearSave, Capture, ForceField, Restore, memory
<1>4. CASE Client \/ Wait \/ UNCHANGED vars
  BY <1>4, ClientFrame DEF Wait, vars, memory
<1> QED
  BY <1>1, <1>2, <1>3, <1>4 DEF Next

LEMMA BackStays ==
    ASSUME TypeInv, Phases, [Next]_vars, crashes' = crashes, boot # "down", boot' # "down",
           NEW k \in Steady, NEW x, SteadyAt(k, x), Back(k, x)
    PROVE  Back(k, x)'
<1>1. userSet \subseteq userSet'
  BY MarksStay, StopFrame DEF Load, LoadWith
<1>2. CASE toml' = toml
  BY <1>1, <1>2 DEF Back
<1>3. CASE toml' # toml
  <2>1. InitToml[k] # Absent => k \in userSet
    BY DEF Back
  <2>2. InitToml[k] # Absent =>
            toml'[k] \in {toml[k], x} \/ (toml'[k] = Forced[k] /\ ~active /\ InForce(k))
    BY <1>3, <2>1, SteadySaved
  <2> QED
    BY <1>1, <2>1, <2>2 DEF Back
<1> QED
  BY <1>2, <1>3

\* A service that dies has nothing but the file.
LEMMA StopSteady ==
    ASSUME TypeInv, Phases, OneCommand, Crash \/ Reboot
    PROVE  /\ OneCommand'
           /\ \A k \in Steady : Tracked(k)' => Tracked(k)
           /\ \A k \in Steady : Tracked(k)' /\ RoundAt(k) => RoundAt(k)'
<1>1. /\ boot' = "down" /\ ~active' /\ consumer'.pc = "idle" /\ watcher'.pc = "off"
      /\ toml' = toml /\ channel' = <<>>
  BY StopFrame, WatcherConstants, IdleConsumer
<1>2. /\ commands' \in {commands, <<>>} /\ unpublished' \in {unpublished, {}}
      /\ crashes' = crashes + 1
  BY DEF Crash, Reboot, Stop, clients
<1>a. crashes' # 0
  <2>1. crashes \in Nat
    BY BoundsAssumption DEF TypeInv, TypeOK
  <2> QED
    BY <1>2, <2>1
<1>3. OneCommand'
  BY <1>1, <1>2 DEF OneCommand, WillTake
<1>4. ASSUME NEW k \in Steady, Tracked(k)', RoundAt(k)
      PROVE  RoundAt(k)'
  <2>1. PICK x \in Loadable(k) : SteadyAt(k, x) /\ Back(k, x)
    BY <1>4 DEF RoundAt
  <2>2. Back(k, x)'
    BY <1>1, <1>a, <2>1 DEF Back
  <2>3. k \notin unpublished'
    BY <1>2, <2>1 DEF SteadyAt, WatcherOf
  <2>4. ~Pending(k)' /\ ~AtKey(k)'
    BY <1>1 DEF Pending, AtKey, InChannel
  <2>5. SteadyAt(k, x)'
    BY <1>1, <2>3, <2>4 DEF SteadyAt, ValueOf, CapturedOf, WatcherOf
  <2> QED
    BY <2>2, <2>5 DEF RoundAt
<1>5. \A k \in Steady : Tracked(k)' => Tracked(k)
  BY <1>a DEF Tracked
<1> QED
  BY <1>3, <1>4, <1>5

LEMMA NextSteady ==
    ASSUME Patient, SteadySound, TypeInv, Phases, RoundInv, [Next]_vars
    PROVE  RoundInv'
<1>0. OneCommand /\ \A k \in Steady : Tracked(k) => RoundAt(k)
  BY DEF RoundInv
<1>1. CASE Crash \/ Reboot
  BY <1>0, <1>1, StopSteady DEF RoundInv
<1>2. CASE ~(Crash \/ Reboot)
  <2>1. crashes' = crashes
    BY <1>2, BootFrame, WatcherFrame, ConsumerFrame, ClientFrame
       DEF Next, Wait, vars, failures
  <2>2. \A k \in Steady : Tracked(k)' => Tracked(k)
    BY <2>1 DEF Tracked
  <2>3. CASE Load
    <3>1. OneCommand'
      BY <1>0, <2>3, BootCommand DEF Boot
    <3>2. ASSUME NEW k \in Steady, Tracked(k)'
          PROVE  RoundAt(k)'
      BY <1>0, <2>2, <2>3, <3>2, LoadSteady
    <3> QED
      BY <3>1, <3>2 DEF RoundInv
  <2>4. CASE Wait \/ UNCHANGED vars
    <3>1. UNCHANGED vars
      BY <2>4 DEF Wait
    <3>2. /\ OneCommand' <=> OneCommand
          /\ \A k \in Steady : \A x : SteadyAt(k, x)' <=> SteadyAt(k, x)
          /\ \A k \in Steady : \A x : Back(k, x)' <=> Back(k, x)
      BY <3>1 DEF vars, redis, files, memory, clients, failures, OneCommand, WillTake, Subscribed,
                  SteadyAt, ValueOf, CapturedOf, WatcherOf, Quiet, Pending, AtKey, InChannel, InForce,
                  ToBeForced, ToRestore, ToDrop, Restored, Back
    <3>3. \A k \in Steady : RoundAt(k) => RoundAt(k)'
      BY <3>2 DEF RoundAt
    <3> QED
      BY <1>0, <2>2, <3>2, <3>3 DEF RoundInv
  <2>5. CASE (Boot /\ ~Load) \/ Watcher \/ Consumer \/ Client
    <3>1. OneCommand'
      BY <1>0, <2>5, BootCommand, WatcherSteady, ConsumerSteady, ClientSteady
    <3>2. ASSUME NEW k \in Steady, Tracked(k)'
          PROVE  RoundAt(k)'
      <4>1. PICK x \in Loadable(k) : SteadyAt(k, x) /\ Back(k, x)
        BY <1>0, <2>2, <3>2 DEF RoundAt
      <4>2. SteadyAt(k, x)'
        BY <1>0, <2>5, <4>1, BootSteady, WatcherSteady, ConsumerSteady, ClientSteady
      <4>3. Back(k, x)'
        <5>1. CASE boot # "down" /\ boot' # "down"
          BY <2>1, <4>1, <5>1, BackStays
        <5>2. CASE boot = "down" /\ boot' = "down"
          <6>1. Client
            BY <2>5, <5>2, WatcherFrame, ConsumerCommand, <1>0
               DEF Boot, Rewrite, Reapply, Reapplied, Subscribe, Phases
          <6>2. hash'[k] = hash[k]
            BY <5>2, <6>1 DEF Client, ClientSet, ClientPublish, ClientCommand, Phases
          <6> QED
            BY <2>1, <4>1, <5>2, <6>1, <6>2, ClientFrame DEF Back
        <5>3. (boot = "down") <=> (boot' = "down")
          BY <1>0, <2>5, WatcherFrame, ConsumerCommand, ClientFrame
             DEF Boot, Rewrite, Reapply, Reapplied, Subscribe
        <5> QED
          BY <5>1, <5>2, <5>3
      <4> QED
        BY <4>2, <4>3 DEF RoundAt
    <3> QED
      BY <3>1, <3>2 DEF RoundInv
  <2> QED
    BY <1>2, <2>3, <2>4, <2>5 DEF Next
<1> QED
  BY <1>1, <1>2

LEMMA InitSteady == Init => RoundInv
<1> SUFFICES ASSUME Init PROVE OneCommand /\ \A k \in Steady : RoundAt(k)
  BY DEF RoundInv
<1>1. /\ boot = "down" /\ toml = InitToml /\ hash = NoFields /\ commands = <<>>
      /\ channel = <<>> /\ unpublished = {} /\ ~active /\ crashes = 0
      /\ watcher.pc = "off" /\ consumer.pc = "idle"
  BY WatcherConstants, IdleConsumer DEF Init
<1>2. OneCommand
  BY <1>1 DEF OneCommand, WillTake
<1>3. ASSUME NEW k \in Steady
      PROVE  RoundAt(k)
  <2>1. SteadyAt(k, Initially(k))
    BY <1>1 DEF SteadyAt, ValueOf, CapturedOf, WatcherOf, Quiet, WillTake, Pending, AtKey, InChannel
  <2>2. Back(k, Initially(k))
    BY <1>1, SteadyKeys DEF Back, Initially, NoFields
  <2>3. Initially(k) \in Loadable(k)
    BY DEF Initially, Loadable
  <2> QED
    BY <2>1, <2>2, <2>3 DEF RoundAt
<1> QED
  BY <1>2, <1>3

\* The forced settings that no client edits are what was loaded of them or what
\* service mode forces, and what is captured of them is what was loaded, through
\* every crash and reboot.
THEOREM RoundInvariance ==
    ASSUME Patient, SteadySound
    PROVE  Spec => [](TypeInv /\ Phases /\ RoundInv)
<1>1. Init => TypeInv /\ Phases /\ RoundInv
  BY InitType, InitPhases, InitSteady
<1>2. TypeInv /\ Phases /\ RoundInv /\ [Next]_vars => TypeInv' /\ Phases' /\ RoundInv'
  BY NextType, NextPhases, NextSteady
<1> QED
  BY <1>1, <1>2, PTL DEF Spec

\* However often service mode is entered and left, leaving it restores the forced
\* settings nobody edited, in the hash and on file: whatever else is edited, before
\* the watcher listens or later, and whatever it makes of the names the consumer
\* publishes.
THEOREM LeavingRestores ==
    ASSUME Patient, SteadySound,
           InvalidHeard, SchemaIsSound, PersistentRepairable, ForcedSound
    PROVE  Spec => []RoundTrip
<1>1. TypeInv /\ KeptInv /\ Phases /\ RoundInv => RoundTrip
  <2> SUFFICES ASSUME TypeInv, KeptInv, RoundInv, Quiescent, ~active, crashes = 0,
                      NEW k \in OverlayKeys, EditValues[k] = {}
               PROVE  /\ hash[k] = Initially(k)
                      /\ InitToml[k] # Absent /\ faults = 0 => toml[k] = InitToml[k]
    BY DEF RoundTrip
  <2>1. k \in Steady /\ k \in Keys
    BY OverlayAssumption DEF Steady
  <2>2. boot = "up" /\ consumer.pc = "idle"
    BY DEF Quiescent, AtRest, Stepping
  <2>3. ValueOf(k, Initially(k)) /\ (InitToml[k] # Absent => k \in userSet)
    BY <2>1, <2>2 DEF RoundInv, Tracked, RoundAt, SteadyAt, Back
  <2>4. ~InForce(k)
    BY <2>2 DEF InForce
  <2>5. hash[k] = Initially(k) /\ (InitToml[k] # Absent => k \in userSet)
    BY <2>2, <2>3, <2>4 DEF ValueOf
  <2>6. ASSUME InitToml[k] # Absent, faults = 0
        PROVE  toml[k] = InitToml[k]
    <3>1. k \notin Transient
      BY <2>1, <2>6 DEF SteadySound
    <3>2. ~IsOverlaid(k) /\ ~Missable(k)
      BY DEF IsOverlaid, Missable
    <3>3. toml[k] = Persisted[k]
      BY <2>1, <2>6, <3>1, <3>2, AllSaved
    <3> QED
      BY <2>1, <2>5, <2>6, <3>2, <3>3 DEF Persisted, Initially
  <2> QED
    BY <2>5, <2>6
<1> QED
  BY <1>1, FileInvariance, RoundInvariance, PTL

--------------------------------------------------------------------------------
(* What is on file of a user's choice.                                          *)

\* No setting that service mode leaves alone has an invalid value on file at first, as
\* its default, or from a client.
NothingRefused ==
    \A k \in Plain : \A v \in {InitToml[k], Default[k]} \union EditValues[k] : ~IsInvalid(k, v)

\* Then it never has one, and what is in use is the choice on file, or what a client
\* has written since.
PlainAt(k) ==
    /\ ~IsInvalid(k, toml[k]) /\ ~IsInvalid(k, hash[k])
    /\ watcher.pc \in Repairs => watcher.key # k
    /\ boot # "down" /\ toml[k] # Absent => k \in userSet /\ hash[k] \in {toml[k]} \union EditValues[k]
PlainInv == \A k \in Plain : PlainAt(k)

LEMMA PlainKeys == \A k \in Plain : k \in Keys /\ k \notin OverlayKeys /\ k \notin Transient
BY DEF Plain

\* Only clients, and the start of the service, write it.
LEMMA PlainWritten ==
    ASSUME TypeInv, Phases, [Next]_vars, ~(Load \/ Crash \/ Reboot), NEW k \in Plain, PlainAt(k)
    PROVE  hash'[k] \in {hash[k]} \union EditValues[k]
<1>0. k \in Keys /\ k \notin OverlayKeys /\ TypeOK
  BY PlainKeys DEF TypeInv
<1>1. ASSUME NEW j \in Keys, NEW v, SetField(j, v), j # k
      PROVE  hash'[k] = hash[k]
  BY <1>0, <1>1, OnlySet
<1>2. CASE Boot
  BY <1>2 DEF Boot, Rewrite, Reapply, Reapplied, Subscribe, redis
<1>3. CASE Watcher
  <2>1. watcher.key \in Keys
    BY DEF TypeInv, TypeOK
  <2>2. CASE Repair
    BY <1>1, <2>1, <2>2 DEF Repair, At, PlainAt, Repairs
  <2>3. CASE Reassert
    BY <1>0, <1>1, <2>1, <2>3 DEF Reassert, At, TypeInv, WatchesOverlaid
  <2>4. CASE ~Repair /\ ~Reassert
    BY <1>3, <2>4 DEF Watcher, Receive, Fallback, Check, ReadField, Edit, MarkEdit, Mark, MarkKey,
                      SaveEdit, SaveMark, SaveNow, redis
  <2> QED
    BY <2>2, <2>3, <2>4
<1>4. CASE Consumer
  <2>1. ASSUME NEW j \in OverlayKeys, ForceField(j) \/ Restore(j)
        PROVE  hash'[k] = hash[k]
    <3>1. j \in Keys /\ j # k
      BY <1>0, OverlayAssumption
    <3> QED
      BY <1>1, <2>1, <3>1 DEF ForceField, Restore
  <2>2. CASE Drop
    BY <1>0, <2>2, DroppedNames DEF ToDrop
  <2>3. CASE \/ TakeCommand \/ Activate \/ FlagOn \/ StatusOn \/ Unset \/ FlagOff \/ StatusOff
             \/ ClearSave \/ \E j \in OverlayKeys : Capture(j)
    BY <2>3 DEF TakeCommand, Activate, FlagOn, StatusOn, Report, Unset, FlagOff, StatusOff, ClearSave,
                Capture, redis
  <2> QED
    BY <1>4, <2>1, <2>2, <2>3 DEF Consumer
<1>5. CASE Client
  BY <1>0, <1>5 DEF Client, ClientSet, ClientPublish, ClientCommand, TypeOK, Files
<1>6. CASE Wait \/ UNCHANGED vars
  BY <1>6 DEF Wait, vars, redis
<1> QED
  BY <1>2, <1>3, <1>4, <1>5, <1>6 DEF Next

\* The watcher has nothing to repair there.
LEMMA PlainUnrepaired ==
    ASSUME TypeInv, [Next]_vars, NEW k \in Plain, PlainAt(k)
    PROVE  watcher'.pc \in Repairs => watcher'.key # k
<1>0. /\ watcher \in [pc : WatcherSteps, key : Keys, value : Values]
      /\ WatcherIdle \in [pc : WatcherSteps, key : Keys, value : Values]
      /\ WatcherIdle.pc = "idle" /\ WatcherOff.pc = "off"
  BY WatcherConstants DEF TypeInv, TypeOK
<1>1. CASE Receive
  <2>1. /\ watcher'.key = Head(channel)
        /\ watcher'.pc = IF IsInvalid(Head(channel), hash[Head(channel)]) THEN "fallback" ELSE "check"
    BY <1>0, <1>1 DEF Receive
  <2> QED
    BY <2>1 DEF PlainAt, Repairs
<1>2. CASE Watcher /\ ~Receive
  <2>1. watcher'.pc \in Repairs => watcher.pc \in Repairs /\ watcher'.key = watcher.key
    BY <1>0, <1>2 DEF Watcher, Fallback, Repair, Check, ReadField, Edit, MarkEdit, Mark, MarkKey,
                      SaveEdit, SaveMark, Reassert, At, Goto, GotoWith, Rest, Repairs
  <2> QED
    BY <2>1 DEF PlainAt
<1>3. CASE ~Watcher
  <2>1. watcher' \in {watcher, WatcherIdle, WatcherOff}
    <3>1. CASE Boot
      BY <3>1 DEF Boot, Load, LoadWith, Rewrite, Reapply, Reapplied, Subscribe
    <3>2. CASE Consumer \/ Client
      BY <3>2, ConsumerFrame, ClientFrame
    <3>3. CASE Crash \/ Reboot
      BY <3>3, StopFrame
    <3>4. CASE Wait \/ UNCHANGED vars
      BY <3>4 DEF Wait, vars
    <3> QED
      BY <1>3, <3>1, <3>2, <3>3, <3>4 DEF Next
  <2> QED
    BY <1>0, <2>1 DEF PlainAt, Repairs
<1> QED
  BY <1>1, <1>2, <1>3

LEMMA PlainSaved ==
    ASSUME TypeInv, Phases, [Next]_vars, toml' # toml, NEW k \in Plain
    PROVE  toml'[k] \in {toml[k]} \union IF k \in userSet THEN {hash[k]} ELSE {Absent}
<1>1. k \in Keys /\ ~IsOverlaid(k)
  BY PlainKeys DEF IsOverlaid
<1>2. toml'[k] \in {toml[k], Persisted[k]}
  BY <1>1, OnlySavesWrite, SaveChoice
<1> QED
  BY <1>1, <1>2 DEF Persisted

LEMMA NextPlain ==
    ASSUME NothingRefused, TypeInv, Phases, [Next]_vars, NEW k \in Plain, PlainAt(k)
    PROVE  PlainAt(k)'
<1>0. k \in Keys /\ k \notin OverlayKeys /\ k \notin Transient
  BY PlainKeys
<1>1. watcher'.pc \in Repairs => watcher'.key # k
  BY PlainUnrepaired
<1>2. CASE Load
  <2>1. toml' = toml /\ Loaded(k) = toml[k]
    BY <1>0, <1>2 DEF Load, LoadWith, files, Loaded, Dropped, Unsound, PlainAt
  <2>2. /\ hash'[k] = IF toml[k] # Absent THEN toml[k]
                      ELSE IF Default[k] # Absent THEN Default[k] ELSE hash[k]
        /\ toml[k] # Absent => k \in userSet'
    BY <1>0, <1>2, <2>1 DEF Load, LoadWith
  <2>3. ~IsInvalid(k, hash'[k])
    BY <2>2 DEF PlainAt, NothingRefused
  <2> QED
    BY <1>1, <2>1, <2>2, <2>3 DEF PlainAt, IsInvalid
<1>3. CASE Crash \/ Reboot
  <2>1. toml' = toml /\ boot' = "down"
    BY <1>3, StopFrame
  <2>2. hash'[k] \in {hash[k], Absent}
    BY <1>0, <1>3 DEF Crash, Reboot, NoFields
  <2> QED
    BY <1>1, <2>1, <2>2 DEF PlainAt, IsInvalid
<1>4. CASE ~(Load \/ Crash \/ Reboot)
  <2>1. hash'[k] \in {hash[k]} \union EditValues[k] /\ userSet \subseteq userSet'
    BY <1>4, PlainWritten, MarksStay
  <2>2. ~IsInvalid(k, hash'[k])
    BY <2>1 DEF PlainAt, NothingRefused
  <2>3. CASE toml' = toml
    <3>1. boot' # "down" => boot # "down"
      BY <1>4, WatcherFrame, ConsumerFrame, ClientFrame, ConsumerMoves
         DEF Next, Boot, Rewrite, Reapply, Reapplied, Subscribe, Wait, vars
    <3> QED
      BY <1>1, <2>1, <2>2, <2>3, <3>1 DEF PlainAt, IsInvalid
  <2>4. CASE toml' # toml
    <3>1. hash' = hash /\ userSet' = userSet /\ boot # "down"
      BY <2>4, OnlySavesWrite
    <3>2. toml'[k] \in {toml[k]} \union IF k \in userSet THEN {hash[k]} ELSE {Absent}
      BY <2>4, PlainSaved
    <3> QED
      BY <1>1, <2>2, <3>1, <3>2 DEF PlainAt, IsInvalid
  <2> QED
    BY <2>3, <2>4
<1> QED
  BY <1>2, <1>3, <1>4

\* What becomes of a choice on file in a step: a client's value replaces it, or, before
\* the end of service mode has restored it, the forced value does.
LEMMA PlainChoice ==
    ASSUME TypeInv, Phases, [Next]_vars, NEW k \in Plain, PlainAt(k),
           toml[k] # Absent, toml'[k] # toml[k]
    PROVE  toml'[k] \in EditValues[k]
<1>1. boot # "down"
  BY OnlySavesWrite
<1> QED
  BY <1>1, PlainSaved DEF PlainAt

LEMMA SteadyChoice ==
    ASSUME TypeInv, Phases, RoundInv, [Next]_vars, NEW k \in Steady, InitToml[k] # Absent,
           toml'[k] # toml[k]
    PROVE  \/ Unrestored(k) /\ toml'[k] = Forced[k]
           \/ toml[k] = Forced[k] /\ toml'[k] = InitToml[k]
<1>1. PICK x \in Loadable(k) : SteadyAt(k, x) /\ Back(k, x)
  BY DEF RoundInv, Tracked, RoundAt
<1>2. boot # "down"
  BY OnlySavesWrite
<1>3. /\ toml[k] \in {InitToml[k], Forced[k]} /\ x \in {InitToml[k], Forced[k]}
      /\ toml[k] = InitToml[k] => x = InitToml[k]
      /\ k \in userSet
  BY <1>1, <1>2 DEF Back
<1>4. toml'[k] \in {toml[k], x} \/ (toml'[k] = Forced[k] /\ ~active /\ InForce(k))
  BY <1>1, <1>3, SteadySaved
<1>5. CASE toml[k] = InitToml[k]
  <2>1. toml'[k] = Forced[k] /\ ~active /\ InForce(k)
    BY <1>3, <1>4, <1>5
  <2>2. ASSUME consumer.pc \in {"restore", "drop"}
        PROVE  k \notin ToDrop
    <3>1. consumer.held[k] = x
      BY <1>1, <2>2 DEF SteadyAt, CapturedOf
    <3>2. k \in ToDrop => x = Absent
      BY <3>1, SteadyRestored
    <3> QED
      BY <1>3, <1>5, <3>2
  <2> QED
    BY <2>1, <2>2 DEF InForce, Unrestored, Stepping
<1>6. CASE toml[k] # InitToml[k]
  BY <1>3, <1>4, <1>6
<1> QED
  BY <1>5, <1>6

\* A choice on file is replaced only by what a client writes, or while service mode
\* ends and the field is not restored yet, by the forced value, after which nothing
\* but the choice comes back: whatever commands patient clients give, whichever
\* writes fail, and wherever the service dies and starts again.
THEOREM ChoicesAreKept ==
    ASSUME Patient, SteadySound, NothingRefused
    PROVE  Spec => ChoicesOnFile
<1> DEFINE I == TypeInv /\ Phases /\ RoundInv /\ PlainInv
<1>1. Init => I
  <2> SUFFICES ASSUME Init PROVE I
    OBVIOUS
  <2>1. toml = InitToml /\ hash = NoFields /\ boot = "down" /\ watcher.pc = "off"
    BY WatcherConstants DEF Init
  <2>2. PlainInv
    BY <2>1, PlainKeys DEF PlainInv, PlainAt, NothingRefused, NoFields, IsInvalid, Repairs
  <2> QED
    BY <2>2, InitType, InitPhases, InitSteady
<1>2. I /\ [Next]_vars => I'
  <2>1. ASSUME I, [Next]_vars PROVE PlainInv'
    BY <2>1, NextPlain DEF PlainInv
  <2> QED
    BY <2>1, NextType, NextPhases, NextSteady
<1>3. I /\ [Next]_vars =>
        [\A k \in Keys \ Transient :
           /\ toml[k] # Absent /\ toml'[k] # toml[k]
           /\ k \in OverlayKeys => InitToml[k] # Absent /\ EditValues[k] = {}
           => \/ toml'[k] \in EditValues[k]
              \/ /\ k \in OverlayKeys
                 /\ \/ Unrestored(k) /\ toml'[k] = Forced[k]
                    \/ toml[k] = Forced[k] /\ toml'[k] = InitToml[k]]_vars
  <2> SUFFICES ASSUME I, [Next]_vars, NEW k \in Keys \ Transient,
                      toml[k] # Absent, toml'[k] # toml[k],
                      k \in OverlayKeys => InitToml[k] # Absent /\ EditValues[k] = {}
               PROVE  \/ toml'[k] \in EditValues[k]
                      \/ /\ k \in OverlayKeys
                         /\ \/ Unrestored(k) /\ toml'[k] = Forced[k]
                            \/ toml[k] = Forced[k] /\ toml'[k] = InitToml[k]
    OBVIOUS
  <2>1. CASE k \in OverlayKeys
    <3>1. k \in Steady /\ InitToml[k] # Absent
      BY <2>1 DEF Steady
    <3> QED
      BY <2>1, <3>1, SteadyChoice
  <2>2. CASE k \notin OverlayKeys
    <3>1. k \in Plain
      BY <2>2 DEF Plain
    <3> QED
      BY <3>1, PlainChoice DEF PlainInv
  <2> QED
    BY <2>1, <2>2
<1> QED
  BY <1>1, <1>2, <1>3, PTL DEF Spec, ChoicesOnFile
================================================================================
