------------------------------ MODULE SettingsFile ------------------------------
(* internal/config and the milestone migration: the flat names of the hash as a   *)
(* tree of TOML tables, and back.  A name is the sequence of its segments.        *)
(* ParseRedisSettings inserts the names in the order of a map, which is any, and  *)
(* LoadSettingsFromTOML rewrites the former "dashboard.milestone-celebrations"    *)
(* before it hydrates; the watcher and the dashboard finish that migration.       *)
(*                                                                               *)
(* A leaf stands for its text in Redis.  Validation, transient settings, arrays   *)
(* and the steps of AtomicWrite are left to other modules.                        *)
EXTENDS Integers, FiniteSets, Sequences, SequencesExt

CONSTANTS Plain,        \* other names a user sets
          InitOld,      \* what the former setting may be on file at first
          InitMode,     \* what the mode may be on file at first
          Choice,       \* the mode a user chooses
          Stray,        \* a client also writes the name of the table itself
          Absent,       \* no entry
          MaxEdits,     \* bound: writes of clients
          MaxFaults,    \* bound: failing Redis commands and file writes
          MaxCrashes    \* bound: crashes and reboots

Old == <<"dashboard", "milestone-celebrations">>
Mode == <<"dashboard", "milestones", "mode">>
Eggs == <<"dashboard", "milestones", "legacy-eggs-pending">>
Milestones == <<"dashboard", "milestones">>
Names == Plain \union {Old, Mode, Eggs, Milestones}

ASSUME PlainAssumption == Plain \subseteq Seq(STRING) \ {<<>>} /\ IsFiniteSet(Plain)
ASSUME InitAssumption == {InitOld, InitMode} \subseteq SUBSET (STRING \union {Absent})
ASSUME ChoiceAssumption == Absent \notin {Choice, "true", "false"}
ASSUME StrayAssumption == Stray \in BOOLEAN
ASSUME BoundsAssumption == MaxEdits \in Nat /\ MaxFaults \in Nat /\ MaxCrashes \in Nat

VARIABLES file,       \* the tree in /data/settings.toml
          hash,       \* the hash "settings"
          cfg,        \* the tree LoadSettingsFromTOML holds
          boot,       \* "down", "save", "hydrate", "forget", "subscribe", "up", "failed"
          marks,      \* userSetKeys
          snapshot,   \* lastPersisted
          watcher,    \* the name it is at, and its step
          channel,    \* notifications not yet received
          unsaid,     \* names a client has written and not published yet
          chosen,     \* a user has chosen the mode (history variable)
          collided,   \* a client wrote the name of the table (history variable)
          edits, faults, crashes

stores == <<file, hash>>
memory == <<marks, snapshot>>
history == <<chosen, collided>>
counters == <<edits, faults, crashes>>
vars == <<stores, cfg, boot, memory, watcher, channel, unsaid, history, counters>>

--------------------------------------------------------------------------------
(* The tree.  Every table is there for a leaf below it: a table is made on the    *)
(* way to a leaf, and a deleted entry leaves others beside it.  So a tree is the  *)
(* texts of its leaves by name, and no name goes on where another ends.           *)

Empty == <<>>
Collide(n, m) == IsStrictPrefix(n, m) \/ IsStrictPrefix(m, n)

\* Mutant of SetNested: a table that exists is replaced.
SetNestedFresh(m, name, v) ==
    [n \in {l \in DOMAIN m : l[1] # name[1]} \union {name} |-> IF n = name THEN v ELSE m[n]]

\* Section and setNested: a leaf on the way gives way to a table, and a table that
\* is in the way of the leaf goes with all that is in it.
SetNested(m, name, v) ==
    [n \in {l \in DOMAIN m : ~Collide(l, name)} \union {name} |-> IF n = name THEN v ELSE m[n]]

\* ToRedisFields: entries of the file outside any table are no settings.
Fields(m) == Restrict(m, {n \in DOMAIN m : Len(n) >= 2})

\* Mutant of Storable: a name without a dot is stored as well.
StorableAny(n) == n[1] # ""

\* A name without a dot, or that begins with one, has no place in the file.
Storable(n) == Len(n) >= 2 /\ n[1] # ""

\* The loop of ParseRedisSettings: the tree after each of the names, in one order.
Parses(settings, order) ==
    LET tree[i \in 0..Len(order)] ==
            IF i = 0 THEN Empty
            ELSE IF Storable(order[i]) THEN SetNested(tree[i - 1], order[i], settings[order[i]])
            ELSE tree[i - 1]
    IN tree
Parse(settings, order) == Parses(settings, order)[Len(order)]

Get(settings, n) == IF n \in DOMAIN settings THEN settings[n] ELSE Absent
Put(settings, n, v) == [m \in DOMAIN settings \union {n} |-> IF m = n THEN v ELSE settings[m]]
Without(settings, n) == Restrict(settings, DOMAIN settings \ {n})
Overlay(settings, fields) ==
    [n \in DOMAIN settings \union DOMAIN fields |->
        IF n \in DOMAIN fields THEN fields[n] ELSE settings[n]]

--------------------------------------------------------------------------------
(* migrateMilestoneSettings.                                                     *)

\* An entry of that name is a leaf, or a table.
Has(m, name) == \E n \in DOMAIN m : IsPrefix(name, n)
Blocked(m) == Milestones \in DOMAIN m
WithoutOld(m) == Restrict(m, {n \in DOMAIN m : ~IsPrefix(Old, n)})

\* Mutant of Migrated: the former value wins over a mode.
MigratedAlways(m) ==
    LET on == Get(m, Old) = "true"
        marked == IF on THEN SetNested(m, Eggs, "true") ELSE m
    IN WithoutOld(SetNested(marked, Mode, IF on THEN "regular" ELSE "off"))

\* Mutant of Migrated: the former value sets the marker beside a mode that is there.
MigratedMarked(m) ==
    LET on == Get(m, Old) = "true"
        marked == IF on THEN SetNested(m, Eggs, "true") ELSE m
    IN WithoutOld(IF Has(m, Mode) THEN marked
                  ELSE SetNested(marked, Mode, IF on THEN "regular" ELSE "off"))

\* A mode that is there stays, and is no reason to import the easter eggs.
Migrated(m) ==
    LET on == Get(m, Old) = "true"
        marked == IF on THEN SetNested(m, Eggs, "true") ELSE m
    IN WithoutOld(IF Has(m, Mode) THEN m
                  ELSE SetNested(marked, Mode, IF on THEN "regular" ELSE "off"))

--------------------------------------------------------------------------------
(* LoadSettingsFromTOML.  Any error ends the process; systemd starts it again.    *)

\* A write that fails may have renamed its file already.
Fault == faults < MaxFaults /\ faults' = faults + 1 /\ UNCHANGED <<edits, crashes>>

Open ==
    /\ boot = "down"
    /\ IF ~Has(file, Old) THEN cfg' = file /\ boot' = "hydrate"
       ELSE IF Blocked(file) THEN cfg' = file /\ boot' = "failed"
       ELSE cfg' = Migrated(file) /\ boot' = "save"
    /\ UNCHANGED <<stores, memory, watcher, channel, unsaid, history, counters>>

SaveMigrated ==
    /\ boot = "save"
    /\ \/ file' = cfg /\ boot' = "hydrate" /\ UNCHANGED counters
       \/ file' \in {file, cfg} /\ boot' = "down" /\ Fault
    /\ UNCHANGED <<hash, cfg, memory, watcher, channel, unsaid, history>>

\* The two settings of the migration have defaults.
Defaults == [n \in {Mode, Eggs} |-> IF n = Mode THEN "off" ELSE "false"]

Hydrate ==
    /\ boot = "hydrate"
    /\ hash' = Overlay(hash, Overlay(Defaults, Fields(cfg)))
    /\ marks' = DOMAIN Fields(cfg)
    /\ snapshot' = Fields(cfg)
    /\ boot' = "forget"
    /\ UNCHANGED <<file, cfg, watcher, channel, unsaid, history, counters>>

Forget ==
    /\ boot = "forget"
    /\ \/ hash' = Without(hash, Old) /\ boot' = "subscribe" /\ UNCHANGED counters
       \/ boot' = "down" /\ Fault /\ UNCHANGED hash
    /\ UNCHANGED <<file, cfg, memory, watcher, channel, unsaid, history>>

Subscribe ==
    /\ boot = "subscribe"
    /\ boot' = "up" /\ cfg' = Empty
    /\ UNCHANGED <<stores, memory, watcher, channel, unsaid, history, counters>>

--------------------------------------------------------------------------------
(* WatchSettings.                                                                *)

Idle == [pc |-> "idle", name |-> Mode]
Step(pc) == watcher' = [watcher EXCEPT !.pc = pc]

Receive ==
    /\ boot = "up" /\ watcher.pc = "idle" /\ channel # <<>>
    /\ channel' = Tail(channel)
    /\ watcher' = [pc |-> IF Head(channel) = Mode THEN "look" ELSE "mark", name |-> Head(channel)]
    /\ UNCHANGED <<stores, cfg, boot, memory, unsaid, history, counters>>

\* Mutant of Look: the marker is for the dashboard alone.
LookAway ==
    /\ watcher.pc = "look"
    /\ Step("mark") /\ UNCHANGED counters
    /\ UNCHANGED <<stores, cfg, boot, memory, channel, unsaid, history>>

\* A mode was chosen: is the import of the easter eggs still pending?
Look ==
    /\ watcher.pc = "look"
    /\ \/ Step(IF Get(hash, Eggs) = "true" THEN "clear" ELSE "mark") /\ UNCHANGED counters
       \/ Step("mark") /\ Fault
    /\ UNCHANGED <<stores, cfg, boot, memory, channel, unsaid, history>>

Clear ==
    /\ watcher.pc = "clear"
    /\ \/ /\ hash' = Put(hash, Eggs, "false")
          /\ channel' = Append(channel, Eggs)
          /\ marks' = marks \union {Eggs}
          /\ UNCHANGED counters
       \/ Fault /\ UNCHANGED <<hash, channel, marks>>
    /\ Step("mark")
    /\ UNCHANGED <<file, cfg, boot, snapshot, unsaid, history>>

Mark ==
    /\ watcher.pc = "mark"
    /\ marks' = marks \union {watcher.name}
    /\ Step("save")
    /\ UNCHANGED <<stores, cfg, boot, snapshot, channel, unsaid, history, counters>>

\* filterUserSet
Persisted == [n \in marks \intersect DOMAIN hash |-> hash[n]]

Save ==
    /\ watcher.pc = "save"
    /\ \/ Persisted = snapshot /\ UNCHANGED <<file, snapshot, counters>>
       \/ /\ Persisted # snapshot
          /\ \E order \in SetToSeqs(DOMAIN Persisted) : file' = Parse(Persisted, order)
          /\ \/ snapshot' = Persisted /\ UNCHANGED counters
             \/ Fault /\ UNCHANGED snapshot
       \/ Persisted # snapshot /\ Fault /\ UNCHANGED <<file, snapshot>>
    /\ watcher' = Idle
    /\ UNCHANGED <<hash, cfg, boot, marks, channel, unsaid, history>>

Service == \/ Open \/ SaveMigrated \/ Hydrate \/ Forget \/ Subscribe
           \/ Receive \/ Look \/ Clear \/ Mark \/ Save

--------------------------------------------------------------------------------
(* Clients, the dashboard, crashes and reboots.                                  *)

Writes(n, v) == /\ hash' = Put(hash, n, v)
                /\ unsaid' = unsaid \union {n}
                /\ UNCHANGED <<file, cfg, boot, memory, watcher, channel>>

\* An older client still writes the former name.
Edit ==
    /\ boot = "up" /\ edits < MaxEdits
    /\ edits' = edits + 1
    /\ \E n \in Names \ {Eggs} :
          /\ n = Milestones => Stray
          /\ Writes(n, IF n = Mode THEN Choice ELSE "true")
          /\ chosen' = (chosen \/ n = Mode)
          /\ collided' = (collided \/ \E m \in {Mode, Eggs} : Collide(n, m))
    /\ UNCHANGED <<faults, crashes>>

\* The dashboard has imported its easter eggs.
Import ==
    /\ boot = "up" /\ Get(hash, Eggs) = "true"
    /\ Writes(Eggs, "false")
    /\ UNCHANGED <<history, counters>>

Say ==
    /\ \E n \in unsaid :
          /\ unsaid' = unsaid \ {n}
          /\ channel' = IF boot = "up" THEN Append(channel, n) ELSE channel
    /\ UNCHANGED <<stores, cfg, boot, memory, watcher, history, counters>>

Down ==
    /\ crashes < MaxCrashes
    /\ crashes' = crashes + 1
    /\ boot' = "down" /\ cfg' = Empty /\ marks' = {} /\ snapshot' = Empty
    /\ watcher' = Idle /\ channel' = <<>>
    /\ UNCHANGED <<file, history, edits, faults>>

Crash == Down /\ UNCHANGED <<hash, unsaid>>
Reboot == Down /\ hash' = Empty /\ unsaid' = {}

PutEntry(m, name, v) == IF v = Absent THEN m ELSE SetNested(m, name, v)

Init == /\ \E old \in InitOld, mode \in InitMode :
              file = PutEntry(PutEntry(Empty, Old, old), Mode, mode)
        /\ hash = Empty /\ cfg = Empty /\ boot = "down"
        /\ marks = {} /\ snapshot = Empty /\ watcher = Idle /\ channel = <<>> /\ unsaid = {}
        /\ chosen = FALSE /\ collided = FALSE
        /\ edits = 0 /\ faults = 0 /\ crashes = 0

Quiescent == boot = "up" /\ watcher.pc = "idle" /\ channel = <<>> /\ unsaid = {}

Wait == (Quiescent \/ boot = "failed") /\ UNCHANGED vars

Next == Service \/ Edit \/ Import \/ Say \/ Crash \/ Reboot \/ Wait

Spec == Init /\ [][Next]_vars

--------------------------------------------------------------------------------
(* Properties.                                                                   *)

\* Every variable has its type: "Config mirrors TOML tables", so all that the
\* service writes at the top of the file is a table.
TypeOK ==
    /\ \A m \in {file, cfg} : \A n, o \in DOMAIN m : Len(n) >= 2 /\ n[1] # "" /\ ~Collide(n, o)
    /\ \A fields \in {file, cfg, hash, snapshot} : DOMAIN fields \subseteq Names
    /\ marks \subseteq Names
    /\ boot \in {"down", "save", "hydrate", "forget", "subscribe", "up", "failed"}
    /\ watcher \in [pc : {"idle", "look", "clear", "mark", "save"}, name : Names]
    /\ channel \in Seq(Names) /\ unsaid \subseteq Names
    /\ {chosen, collided} \subseteq BOOLEAN /\ {edits, faults, crashes} \subseteq Nat

\* What is written is what will be read: at rest the file, read back, has every
\* marked setting with its value and nothing else, in whatever order the names
\* were inserted; only a name that is also the table of another may be lost.
FileReadsBack == Quiescent /\ faults = 0 =>
    /\ \A n \in DOMAIN Persisted :
          Storable(n) /\ (\A m \in DOMAIN Persisted : Storable(m) => ~Collide(n, m)) =>
              Get(Fields(file), n) = Persisted[n]
    /\ \A n \in DOMAIN Fields(file) : Get(Persisted, n) = Fields(file)[n]

\* "Preserve explicit choice" (the test of the migration): a mode that a user chose
\* is not migrated away, whenever the former setting turns up again and wherever
\* the service dies.
ChoiceStays == [][/\ ~collided
                  /\ Get(Fields(file), Mode) = Choice
                  => Get(Fields(file'), Mode) = Choice]_vars

\* Once the end of the import is on file it stays: whatever older clients write, and
\* wherever the service dies or is started, the marker rises neither on file nor in
\* Redis, where the dashboard would import its easter eggs again.  Until the watcher
\* has saved it, the end of the import is in Redis alone, and a crash brings the
\* marker back.
ImportStaysDone == [][/\ ~collided
                      /\ Get(Fields(file), Eggs) = "false"
                      => Get(Fields(file'), Eggs) = "false" /\ Get(hash', Eggs) # "true"]_vars

\* Whoever chooses a mode has settled the migration: at rest the dashboard finds
\* no marker that would let it decide over the choice, in Redis or on file.
ChoiceSettles == Quiescent /\ chosen /\ faults = 0 /\ crashes = 0 =>
    "true" \notin {Get(hash, Eggs), Get(Fields(file), Eggs)}
================================================================================
