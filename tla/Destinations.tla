------------------------------ MODULE Destinations ------------------------------
(* internal/destination: saved locations, one record of several hash fields per  *)
(* slot, behind the calls destination.save, .delete and .touch, together with    *)
(* the part of internal/service that keeps records on file: hydration with       *)
(* HealUUIDs, the watcher, filterUserSet.  Every Redis command is an action, so  *)
(* the watcher may save, and the process may die, between two fields.            *)
(*                                                                               *)
(* A field holds the number of the call that wrote it (1: what was on file, uuid: *)
(* the number of the UUID), 0 if there is none; a save keeps the created-at it    *)
(* finds, so the field is left out.  The shortcut list is the set of the UUIDs of *)
(* its destination tokens.  Its validation and file errors are in SettingsService.*)
EXTENDS Integers, FiniteSets, Sequences, FiniteSetsExt

CONSTANTS MaxLocations,   \* the slots, 30 in the code
          Legacy,         \* slots on file at first, without a UUID
          EarlyRequests,  \* calls arrive before the service has subscribed
          EditsAnytime,   \* clients edit the shortcut list also during a delete
          MaxRequests,    \* bound: calls
          MaxEdits,       \* bound: edits of the shortcut list
          MaxMishaps      \* bound: Redis commands that fail, crashes and reboots

Slots == 0..(MaxLocations - 1)
Fields == {"latitude", "uuid", "rest", "used"}

ASSUME SlotsAssumption == MaxLocations \in Nat \ {0}
ASSUME LegacyAssumption == Legacy \subseteq Slots
ASSUME FlagsAssumption == EarlyRequests \in BOOLEAN /\ EditsAnytime \in BOOLEAN
ASSUME BoundsAssumption == /\ MaxRequests \in Nat /\ MaxEdits \in Nat
                           /\ MaxMishaps \in Nat

VARIABLES hash,         \* the hash "settings": records and shortcut list
          toml,         \* the same of /data/settings.toml
          channel,      \* names published on "settings", not yet received
          boot,         \* "new", "rewrite", "loaded", "up"
          marks,        \* SettingsService.userSetKeys
          watcher,      \* the name WatchSettings is at, and its step
          server,       \* the handlers of the CallServer
          unpublished,  \* a client has written the list and not said so yet
          book,         \* what clients were answered, per slot
          requests, issued, edits, faults, crashes

persistent == <<hash, toml>>
service == <<channel, boot, marks, watcher>>
counters == <<requests, issued, edits, faults, crashes>>
vars == <<persistent, service, server, unpublished, book, counters>>

--------------------------------------------------------------------------------
(* Names: a record prefix, a field of a record, the shortcut list.               *)
ItemsName == <<>>
Prefix(s) == <<s>>
FieldName(s, f) == <<s, f>>
Names == {ItemsName} \union {Prefix(s) : s \in Slots}
                     \union {FieldName(s, f) : s \in Slots, f \in Fields}

Absent == {-1}      \* no shortcut list
NoRecord == [f \in Fields |-> 0]
Unknown == [f \in Fields |-> -1]
Empty == [records |-> [s \in Slots |-> NoRecord], items |-> Absent]
InitToml == [Empty EXCEPT !.records = [s \in Slots |->
                IF s \in Legacy THEN [NoRecord EXCEPT !["latitude"] = 1, !["rest"] = 1]
                ELSE NoRecord]]

Idle == [pc |-> "idle", op |-> "touch", slot |-> 0, record |-> NoRecord, todo |-> {}, items |-> {}]
WatcherIdle == [pc |-> "idle", name |-> ItemsName]

Subscribed == boot = "up"
Publish(name) == channel' = IF Subscribed THEN Append(channel, name) ELSE channel

SetFieldOf(s, f, v) == hash' = [hash EXCEPT !.records[s][f] = v]

--------------------------------------------------------------------------------
(* Hydration and the file.                                                       *)

\* filterUserSet: a marked prefix stands for all fields of the record.
Persisted ==
    [records |-> [s \in Slots |-> [f \in Fields |->
                     IF Prefix(s) \in marks \/ FieldName(s, f) \in marks
                     THEN hash.records[s][f] ELSE 0]],
     items |-> IF ItemsName \in marks THEN hash.items ELSE Absent]

\* HealUUIDs: a record on file, which has a latitude, gets a UUID.
Healed == {s \in Slots : toml.records[s]["latitude"] # 0 /\ toml.records[s]["uuid"] = 0}
HealedRecord(s) == IF s \in Healed THEN [toml.records[s] EXCEPT !["uuid"] = issued + s + 1]
                   ELSE toml.records[s]

\* LoadSettingsFromTOML; the list has a default, the empty list.
Load ==
    /\ boot = "new"
    /\ hash' = [records |-> [s \in Slots |-> [f \in Fields |->
                                IF HealedRecord(s)[f] # 0 THEN HealedRecord(s)[f]
                                ELSE hash.records[s][f]]],
                items |-> IF toml.items = Absent THEN {} ELSE toml.items]
    /\ marks' = {n \in Names : \E s \in Slots, f \in Fields :
                                  n = FieldName(s, f) /\ toml.records[s][f] # 0}
                \union {Prefix(s) : s \in Healed}
                \union (IF toml.items = Absent THEN {} ELSE {ItemsName})
    /\ issued' = IF Healed = {} THEN issued ELSE issued + Cardinality(Slots)
    /\ boot' = IF Healed = {} THEN "loaded" ELSE "rewrite"
    /\ UNCHANGED <<toml, channel, watcher, server, unpublished, book, requests, edits, faults, crashes>>

\* The deferred save of healed records.
Rewrite ==
    /\ boot = "rewrite"
    /\ toml' = Persisted
    /\ boot' = "loaded"
    /\ UNCHANGED <<hash, channel, marks, watcher, server, unpublished, book, counters>>

Subscribe ==
    /\ boot = "loaded"
    /\ boot' = "up"
    /\ UNCHANGED <<persistent, channel, marks, watcher, server, unpublished, book, counters>>

Receive ==
    /\ Subscribed /\ watcher.pc = "idle" /\ channel # <<>>
    /\ channel' = Tail(channel)
    /\ watcher' = [pc |-> "mark", name |-> Head(channel)]
    /\ UNCHANGED <<persistent, boot, marks, server, unpublished, book, counters>>

Mark ==
    /\ watcher.pc = "mark"
    /\ marks' = marks \union {watcher.name}
    /\ watcher' = [watcher EXCEPT !.pc = "save"]
    /\ UNCHANGED <<persistent, channel, boot, server, unpublished, book, counters>>

\* SaveSettingsToTOML takes all marked names, not only the one it is told of.
Save ==
    /\ watcher.pc = "save"
    /\ toml' = Persisted
    /\ watcher' = WatcherIdle
    /\ UNCHANGED <<hash, channel, boot, marks, server, unpublished, book, counters>>

Service == Load \/ Rewrite \/ Subscribe \/ Receive \/ Mark \/ Save

--------------------------------------------------------------------------------
(* The calls.  A handler answers when it is idle again.                          *)

\* Mutant of Handlers: two calls are served at a time.
HandlersTwo == {1, 2}

\* WithCallServerConcurrency(1)
Handlers == {1}

NoSlot == -1

\* firstFreeSlot
FreeSlot == LET free == {s \in Slots : hash.records[s]["latitude"] = 0}
            IN IF free = {} THEN NoSlot ELSE Min(free)

\* Mutant of UuidFor: saving a location again gives it another UUID.
UuidForNew(s) == issued + 1

UuidFor(s) == IF hash.records[s]["uuid"] # 0 THEN hash.records[s]["uuid"] ELSE issued + 1

Answer(h) == server' = [server EXCEPT ![h] = Idle]
To(h, pc) == server' = [server EXCEPT ![h].pc = pc]

\* A command of the handler fails: the caller gets an error, the rest is not done.
Fail(h) ==
    /\ server[h].pc # "idle" /\ faults + crashes < MaxMishaps
    /\ faults' = faults + 1
    /\ Answer(h)
    /\ book' = [book EXCEPT ![server[h].slot] = Unknown]
    /\ UNCHANGED <<persistent, service, unpublished, requests, issued, edits, crashes>>

Accept(h) == /\ server[h].pc = "idle"
             /\ EarlyRequests \/ Subscribed
             /\ requests < MaxRequests
             /\ requests' = requests + 1
             /\ UNCHANGED <<persistent, service, unpublished, edits, faults, crashes>>

\* destination.save reads all settings and chooses; without an id the slot is free.
SaveCall(h, id) ==
    /\ Accept(h)
    /\ LET slot == IF id = NoSlot THEN FreeSlot ELSE id
           tag == requests + 2
       IN \/ slot = NoSlot /\ UNCHANGED <<server, issued, book>>
          \/ /\ slot # NoSlot
             /\ server' = [server EXCEPT ![h] = [Idle EXCEPT
                    !.pc = "write", !.op = "save", !.slot = slot, !.todo = Fields,
                    !.record = [f \in Fields |-> IF f = "uuid" THEN UuidFor(slot) ELSE tag]]]
             /\ issued' = IF UuidFor(slot) = issued + 1 THEN issued + 1 ELSE issued
             /\ book' = [book EXCEPT ![slot] = Unknown]

TouchCall(h, s) ==
    /\ Accept(h)
    /\ \/ hash.records[s]["latitude"] = 0 /\ UNCHANGED server
       \/ /\ hash.records[s]["latitude"] # 0
          /\ server' = [server EXCEPT ![h] = [Idle EXCEPT
                 !.pc = "write", !.slot = s, !.todo = {"used"},
                 !.record = [NoRecord EXCEPT !["used"] = requests + 2]]]
    /\ UNCHANGED <<issued, book>>

\* The fields of a save are written in the order of a map, which is any.
WriteField(h, f) ==
    /\ server[h].pc = "write" /\ f \in server[h].todo
    /\ SetFieldOf(server[h].slot, f, server[h].record[f])
    /\ server' = [server EXCEPT ![h].todo = @ \ {f},
                                ![h].pc = IF server[h].todo = {f} THEN "publish" ELSE "write"]
    /\ UNCHANGED <<toml, service, unpublished, book, counters>>

DeleteCall(h, s) ==
    /\ Accept(h)
    /\ server' = [server EXCEPT ![h] = [Idle EXCEPT
           !.pc = IF hash.records[s]["uuid"] = 0 THEN "clear" ELSE "prune",
           !.op = "delete", !.slot = s, !.record = hash.records[s]]]
    /\ book' = [book EXCEPT ![s] = Unknown]
    /\ UNCHANGED issued

\* Mutant of Prune: a list without items left is encoded as null.
PruneToNull(h) ==
    /\ server[h].pc = "prune"
    /\ IF hash.items # Absent /\ server[h].record["uuid"] \in hash.items
       THEN LET kept == hash.items \ {server[h].record["uuid"]}
            IN server' = [server EXCEPT ![h].pc = "pruned",
                                        ![h].items = IF kept = {} THEN Absent ELSE kept]
       ELSE To(h, "clear")
    /\ UNCHANGED <<persistent, service, unpublished, book, counters>>

\* pruneShortcutItem: read, filter, write back, publish.
Prune(h) ==
    /\ server[h].pc = "prune"
    /\ IF hash.items # Absent /\ server[h].record["uuid"] \in hash.items
       THEN server' = [server EXCEPT ![h].pc = "pruned",
                                     ![h].items = hash.items \ {server[h].record["uuid"]}]
       ELSE To(h, "clear")
    /\ UNCHANGED <<persistent, service, unpublished, book, counters>>

PruneWrite(h) ==
    /\ server[h].pc = "pruned"
    /\ hash' = [hash EXCEPT !.items = server[h].items]
    /\ To(h, "pruneSay")
    /\ UNCHANGED <<toml, service, unpublished, book, counters>>

PruneSay(h) ==
    /\ server[h].pc = "pruneSay"
    /\ Publish(ItemsName)
    /\ To(h, "clear")
    /\ UNCHANGED <<persistent, boot, marks, watcher, unpublished, book, counters>>

\* HDEL of the fields the call has seen.
Clear(h) ==
    /\ server[h].pc = "clear"
    /\ hash' = [hash EXCEPT !.records[server[h].slot] =
                    [f \in Fields |-> IF server[h].record[f] # 0 THEN 0 ELSE @[f]]]
    /\ To(h, "publish")
    /\ UNCHANGED <<toml, service, unpublished, book, counters>>

\* The last command: the caller is answered, and the record is on the books.
PublishRecord(h) ==
    /\ server[h].pc = "publish"
    /\ LET s == server[h].slot
       IN /\ Publish(IF server[h].op = "touch" THEN FieldName(s, "used") ELSE Prefix(s))
          /\ book' = [book EXCEPT ![s] =
                 CASE server[h].op = "save"    -> server[h].record
                   [] server[h].op = "delete"  -> NoRecord
                   [] server[h].op = "touch"   -> IF @ = Unknown THEN Unknown
                                                  ELSE [@ EXCEPT !["used"] = server[h].record["used"]]]
    /\ Answer(h)
    /\ UNCHANGED <<persistent, boot, marks, watcher, unpublished, counters>>

Server == \E h \in Handlers :
    \/ \E s \in Slots : DeleteCall(h, s) \/ TouchCall(h, s)
    \/ \E id \in Slots \union {NoSlot} : SaveCall(h, id)
    \/ \E f \in Fields : WriteField(h, f)
    \/ Prune(h) \/ PruneWrite(h) \/ PruneSay(h) \/ Clear(h) \/ PublishRecord(h) \/ Fail(h)

--------------------------------------------------------------------------------
(* Clients of the shortcut list, crashes and reboots.                            *)

Deleting == \E h \in Handlers : server[h].op = "delete"
Shown == {hash.records[s]["uuid"] : s \in {t \in Slots : hash.records[t]["latitude"] # 0}} \ {0}

\* A client adds or removes the token of a location it shows, then says so.
EditItems ==
    /\ Subscribed /\ edits < MaxEdits /\ ~unpublished
    /\ EditsAnytime \/ ~Deleting
    /\ \E u \in Shown : hash' = [hash EXCEPT !.items = IF u \in @ THEN @ \ {u} ELSE @ \union {u}]
    /\ unpublished' = TRUE
    /\ edits' = edits + 1
    /\ UNCHANGED <<toml, service, server, book, requests, issued, faults, crashes>>

SayItems ==
    /\ unpublished
    /\ unpublished' = FALSE
    /\ Publish(ItemsName)
    /\ UNCHANGED <<persistent, boot, marks, watcher, server, book, counters>>

\* What was answered but is not on file yet is not promised to outlive the process.
Stop ==
    /\ faults + crashes < MaxMishaps
    /\ crashes' = crashes + 1
    /\ boot' = "new" /\ channel' = <<>> /\ marks' = {}
    /\ watcher' = WatcherIdle /\ server' = [h \in Handlers |-> Idle]
    /\ book' = [s \in Slots |-> IF book[s] = hash.records[s] /\ book[s] = toml.records[s]
                                THEN book[s] ELSE Unknown]
    /\ UNCHANGED <<toml, requests, issued, edits, faults>>

Crash == Stop /\ UNCHANGED <<hash, unpublished>>
Reboot == Stop /\ hash' = Empty /\ unpublished' = FALSE

Init == /\ hash = Empty /\ toml = InitToml
        /\ channel = <<>> /\ boot = "new" /\ marks = {} /\ watcher = WatcherIdle
        /\ server = [h \in Handlers |-> Idle] /\ unpublished = FALSE
        /\ book = [s \in Slots |-> IF s \in Legacy THEN Unknown ELSE NoRecord]
        /\ requests = 0 /\ issued = 0 /\ edits = 0 /\ faults = 0 /\ crashes = 0

Quiescent == /\ Subscribed /\ channel = <<>> /\ watcher.pc = "idle" /\ ~unpublished
             /\ \A h \in Handlers : server[h].pc = "idle"

Wait == Quiescent /\ UNCHANGED vars

Next == Service \/ Server \/ EditItems \/ SayItems \/ Crash \/ Reboot \/ Wait

Spec == Init /\ [][Next]_vars

--------------------------------------------------------------------------------
(* Properties.                                                                   *)

Record == [Fields -> Nat]

\* Every variable has its type.
TypeOK ==
    /\ \A store \in {hash, toml} :
          /\ store.records \in [Slots -> Record]
          /\ store.items = Absent \/ store.items \subseteq Nat
    /\ channel \in Seq(Names) /\ boot \in {"new", "rewrite", "loaded", "up"}
    /\ marks \subseteq Names
    /\ watcher \in [pc : {"idle", "mark", "save"}, name : Names]
    /\ \A h \in Handlers :
          /\ server[h].pc \in {"idle", "write", "prune", "pruned", "pruneSay", "clear", "publish"}
          /\ server[h].op \in {"save", "delete", "touch"} /\ server[h].slot \in Slots
          /\ server[h].record \in Record /\ server[h].todo \subseteq Fields
          /\ server[h].items # Absent /\ server[h].items \subseteq Nat
    /\ unpublished \in BOOLEAN
    /\ book \in [Slots -> Record \union {Unknown}]
    /\ {requests, issued, edits, faults, crashes} \subseteq Nat

\* What a caller was told holds: at rest, a slot holds the whole record of the last
\* save (touches included) or nothing after a delete, in Redis and on file, unless
\* the process died before the file was written.  So no two saves share a slot, no
\* field is left out of the file or kept in it, and no restart mixes two records.
BookKept == Quiescent =>
    \A s \in Slots : book[s] # Unknown => hash.records[s] = book[s] /\ toml.records[s] = book[s]

\* "... so a deleted record cannot stay selectable": at rest every destination in
\* the shortcut list is a record.  (Runs in which clients leave the list alone
\* while a delete is served, and without a crash.)
NoDanglingShortcut == Quiescent /\ crashes = 0 /\ hash.items # Absent =>
    \A u \in hash.items : u \in Shown
================================================================================
