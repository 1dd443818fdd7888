-------------------------- MODULE DestinationsProofs ---------------------------
(* Proofs about Destinations, for any number of slots, of calls, of edits and of  *)
(* failures, with the calls served one at a time.                                *)
EXTENDS Destinations, FiniteSetTheorems, WellFoundedInduction, TLAPS

--------------------------------------------------------------------------------
(* Types.                                                                        *)

Store == [records : [Slots -> Record], items : (SUBSET Nat) \union {Absent}]
Handler == [pc : {"idle", "write", "prune", "pruned", "pruneSay", "clear", "publish"},
            op : {"save", "delete", "touch"}, slot : Slots, record : Record,
            todo : SUBSET Fields, items : SUBSET Nat]

StoreTypes == hash \in Store /\ toml \in Store
WatcherTypes == /\ channel \in Seq(Names) /\ marks \subseteq Names
                /\ boot \in {"new", "rewrite", "loaded", "up"}
                /\ watcher \in [pc : {"idle", "mark", "save"}, name : Names]
ServerTypes == server \in [Handlers -> Handler]
BookTypes == book \in [Slots -> Record \union {Unknown}]
CountTypes == /\ requests \in Nat /\ issued \in Nat /\ edits \in Nat /\ faults \in Nat
              /\ crashes \in Nat
FlagType == unpublished \in BOOLEAN

\* Hydration makes a list of the shortcuts.
Listed == boot # "new" => hash.items # Absent

Types == /\ StoreTypes /\ WatcherTypes /\ ServerTypes /\ BookTypes /\ CountTypes /\ FlagType
         /\ Listed

--------------------------------------------------------------------------------
(* The call that is served, when calls do not arrive before the service has       *)
(* subscribed.                                                                   *)

at == server[1].pc
op == server[1].op
slot == server[1].slot
record == server[1].record
Now(f) == hash.records[slot][f]

\* Nothing moves before that, except hydration.
Quiet == boot # "up" => channel = <<>> /\ watcher.pc = "idle" /\ at = "idle"

\* Which steps are whose.
Course == /\ at \in {"prune", "pruned", "pruneSay", "clear"} => op = "delete"
          /\ at = "write" => op \in {"save", "touch"}
          /\ at = "idle" => op = "touch"
          /\ at = "publish" \/ op = "delete" => server[1].todo = {}

\* A save writes a whole record, and keeps the UUID it finds.
Saving == op = "save" =>
    /\ book[slot] = Unknown
    /\ \A f \in Fields \ server[1].todo : Now(f) = record[f]
    /\ record["latitude"] # 0 /\ record["uuid"] # 0
    /\ Now("uuid") \in {0, record["uuid"]}

\* What a delete has seen is all there is, and afterwards there is nothing.
Clearing == op = "delete" =>
    /\ book[slot] = Unknown
    /\ \A f \in Fields : Now(f) = IF at = "publish" THEN 0 ELSE record[f]

\* A touch writes one field.
Touching == op = "touch" /\ at # "idle" =>
    /\ at = "write" => server[1].todo = {"used"}
    /\ at = "publish" => Now("used") = record["used"]

Working == Course /\ Saving /\ Clearing /\ Touching

--------------------------------------------------------------------------------
(* The books.                                                                    *)

\* The field has been written, and is about to be published and put on the books.
Touched(s, f) == f = "used" /\ at = "publish" /\ op = "touch" /\ slot = s

\* The names that are marked, or will be.
Said == {channel[i] : i \in DOMAIN channel}
Coming == marks \union Said \union (IF watcher.pc = "mark" THEN {watcher.name} ELSE {})

\* A record on the books has a UUID, so healing passes it by.
BookWhole == \A s \in Slots : book[s] # Unknown =>
    (book[s]["latitude"] # 0 => book[s]["uuid"] # 0)

\* It waits on file for the service to start, ...
BookWaits == boot = "new" => \A s \in Slots : book[s] # Unknown =>
    \A f \in Fields : /\ toml.records[s][f] = book[s][f]
                      /\ hash.records[s][f] \in {0, book[s][f]}

\* ... is in the hash from then on, ...
BookInHash == boot # "new" => \A s \in Slots : book[s] # Unknown =>
    \A f \in Fields : hash.records[s][f] = book[s][f] \/ Touched(s, f)

\* ... its fields are marked or will be, ...
BookMarked == boot # "new" => \A s \in Slots : book[s] # Unknown =>
    \A f \in Fields : \/ hash.records[s][f] = 0 \/ Touched(s, f)
                      \/ Prefix(s) \in Coming \/ FieldName(s, f) \in Coming

\* ... and the file has it, or is going to be written.
BookOnFile == boot # "new" => \A s \in Slots : book[s] # Unknown =>
    \A f \in Fields : \/ toml.records[s][f] = hash.records[s][f] \/ Touched(s, f)
                      \/ channel # <<>> \/ watcher.pc # "idle"

Booked == BookWhole /\ BookWaits /\ BookInHash /\ BookMarked /\ BookOnFile

BookInv == Types /\ Quiet /\ Working /\ Booked

--------------------------------------------------------------------------------
(* The shortcut list, until the first crash.                                     *)

\* A list comes from this run of the service, not from one before.
FirstRun == boot = "new" => hash.items = Absent /\ toml.items = Absent

\* Every shortcut is to a record, ...
ItemsShown == hash.items # Absent => hash.items \subseteq Shown

\* ... and not to the one that is about to go.
Pruning == op = "delete" =>
    /\ at = "pruned" => server[1].items \subseteq hash.items \ {record["uuid"]}
    /\ at \in {"pruneSay", "clear"} => hash.items = Absent \/ record["uuid"] \notin hash.items

ItemsInv == crashes = 0 => FirstRun /\ ItemsShown /\ Pruning

--------------------------------------------------------------------------------
(* Facts about the operators of the model.                                       *)

LEMMA Values ==
    /\ NoRecord \in Record /\ (\A f \in Fields : NoRecord[f] = 0)
    /\ Unknown \notin Record
    /\ Absent \notin SUBSET Nat
    /\ {"latitude", "uuid", "rest", "used"} = Fields
    /\ 0 \in Slots
BY SlotsAssumption DEF NoRecord, Unknown, Record, Fields, Absent, Slots

LEMMA NameTypes ==
    /\ ItemsName \in Names
    /\ \A s \in Slots : Prefix(s) \in Names
    /\ \A s \in Slots, f \in Fields : FieldName(s, f) \in Names
BY DEF Names

LEMMA EmptyIs == /\ Empty \in Store /\ Empty.items = Absent
                 /\ \A s \in Slots, f \in Fields : Empty.records[s][f] = 0
BY Values DEF Empty, Store

LEMMA IdleIs == /\ Idle \in Handler
                /\ Idle.pc = "idle" /\ Idle.op = "touch" /\ Idle.todo = {}
<1>1. Idle = [pc |-> "idle", op |-> "touch", slot |-> 0, record |-> NoRecord, todo |-> {},
              items |-> {}]
  BY DEF Idle
<1> QED
  BY <1>1, Values DEF Handler

\* What is read of a store is a number.
LEMMA StoreValues ==
    ASSUME NEW store \in Store
    PROVE  /\ store.records \in [Slots -> Record]
           /\ \A s \in Slots : store.records[s] \in Record
           /\ \A s \in Slots, f \in Fields : store.records[s][f] \in Nat
           /\ store.items \in (SUBSET Nat) \union {Absent}
<1>1. store.records \in [Slots -> Record] /\ store.items \in (SUBSET Nat) \union {Absent}
  BY DEF Store
<1>2. \A s \in Slots : store.records[s] \in Record
  BY <1>1
<1>3. \A s \in Slots, f \in Fields : store.records[s][f] \in Nat
  BY <1>2 DEF Record
<1> QED
  BY <1>1, <1>2, <1>3

\* One field is written.
LEMMA FieldWritten ==
    ASSUME NEW store \in Store, NEW s \in Slots, NEW f \in Fields, NEW v \in Nat, NEW new,
           new = [store EXCEPT !.records[s][f] = v]
    PROVE  /\ new \in Store /\ new.items = store.items
           /\ \A t \in Slots, g \in Fields :
                 new.records[t][g] = IF t = s /\ g = f THEN v ELSE store.records[t][g]
<1> DEFINE r == [store.records EXCEPT ![s] = [store.records[s] EXCEPT ![f] = v]]
<1>1. store.records \in [Slots -> Record] /\ store.records[s] \in Record
  BY StoreValues
<1>2. [store.records[s] EXCEPT ![f] = v] \in Record
  BY <1>1 DEF Record
<1>3. r \in [Slots -> Record]
  BY <1>1, <1>2
<1>4. new = [store EXCEPT !.records = r]
  BY <1>1
<1>5. \A t \in Slots, g \in Fields :
         r[t][g] = IF t = s /\ g = f THEN v ELSE store.records[t][g]
  BY <1>1 DEF Record
<1> HIDE DEF r
<1>6. new \in Store /\ new.items = store.items /\ new.records = r
  BY <1>3, <1>4 DEF Store
<1> QED
  BY <1>5, <1>6

\* The list is replaced.
LEMMA ItemsReplaced ==
    ASSUME NEW store \in Store, NEW list \in (SUBSET Nat) \union {Absent}, NEW new,
           new = [store EXCEPT !.items = list]
    PROVE  new \in Store /\ new.records = store.records /\ new.items = list
BY DEF Store

\* A set of numbers has a least one.
LEMMA LeastNumber ==
    ASSUME NEW T, T \subseteq Nat, T # {}
    PROVE  \E x \in T : \A y \in T : x <= y
<1> DEFINE R == OpToRel(<, Nat)
<1>1. ASSUME NEW x \in Nat, NEW y \in Nat, y < x
      PROVE  <<y, x>> \in R
  <2> DEFINE p == <<y, x>>
  <2>1. p \in Nat \X Nat /\ p[1] < p[2]
    BY <1>1
  <2> QED
    BY <2>1 DEF OpToRel
<1>2. IsWellFoundedOn(R, Nat)
  BY NatLessThanWellFounded
<1> HIDE DEF R
<1>3. \E x \in T : \A y \in T : ~(<<y, x>> \in R)
  BY <1>2, WFMin
<1>4. PICK x \in T : \A y \in T : ~(<<y, x>> \in R)
  BY <1>3
<1>5. \A y \in T : ~(y < x)
  BY <1>1, <1>4
<1> QED
  BY <1>5

\* A free slot is a slot.
LEMMA FreeSlotIsSlot ==
    /\ FreeSlot \in Slots \union {NoSlot}
    /\ NoSlot \notin Slots
    /\ FreeSlot # NoSlot => hash.records[FreeSlot]["latitude"] = 0
<1> DEFINE free == {s \in Slots : hash.records[s]["latitude"] = 0}
<1>1. NoSlot \notin Slots /\ Slots \subseteq Nat
  BY SlotsAssumption DEF NoSlot, Slots
<1>2. CASE free = {}
  BY <1>1, <1>2 DEF FreeSlot
<1>3. CASE free # {}
  <2>1. free \subseteq Nat
    BY <1>1
  <2>2. Min(free) \in free
    BY <1>3, <2>1, LeastNumber DEF Min
  <2>3. FreeSlot = Min(free)
    BY <1>3 DEF FreeSlot
  <2> QED
    BY <1>1, <2>2, <2>3
<1> QED
  BY <1>2, <1>3

--------------------------------------------------------------------------------
(* What the steps of a call do to its handler.                                   *)

\* The parts a step leaves alone.
SameCall == /\ server'[1].op = op /\ server'[1].slot = slot /\ server'[1].record = record

LEMMA HandlerIs == ServerTypes => /\ server[1] \in Handler /\ op \in {"save", "delete", "touch"}
                                  /\ slot \in Slots /\ record \in Record
                                  /\ \A f \in Fields : record[f] \in Nat
BY DEF ServerTypes, Handlers, Handler, op, slot, record, Record

LEMMA AnswerIs ==
    ASSUME ServerTypes, NEW h \in Handlers, Answer(h)
    PROVE  ServerTypes' /\ server'[1].pc = "idle" /\ server'[1].op = "touch"
                        /\ server'[1].todo = {}
BY IdleIs DEF ServerTypes, Handlers, Answer

LEMMA ToIs ==
    ASSUME ServerTypes, NEW h \in Handlers, To(h, "clear") \/ To(h, "pruneSay") \/ To(h, "publish")
    PROVE  /\ ServerTypes' /\ SameCall /\ server'[1].todo = server[1].todo
           /\ To(h, "clear") => server'[1].pc = "clear"
           /\ To(h, "pruneSay") => server'[1].pc = "pruneSay"
           /\ To(h, "publish") => server'[1].pc = "publish"
BY DEF ServerTypes, Handlers, Handler, To, SameCall, op, slot, record

\* A call begins.
LEMMA BeginIs ==
    ASSUME ServerTypes, NEW h \in Handlers, NEW v \in Handler, server' = [server EXCEPT ![h] = v]
    PROVE  ServerTypes' /\ server'[1] = v
BY DEF ServerTypes, Handlers

LEMMA SaveCallIs ==
    ASSUME StoreTypes, ServerTypes, BookTypes, CountTypes, NEW h \in Handlers,
           NEW id \in Slots \union {NoSlot}, SaveCall(h, id)
    PROVE  /\ ServerTypes' /\ BookTypes' /\ CountTypes'
           /\ server[1].pc = "idle"
           /\ \/ UNCHANGED <<server, book>>
              \/ /\ server'[1].pc = "write" /\ server'[1].op = "save"
                 /\ server'[1].slot \in Slots
                 /\ server'[1].todo = Fields
                 /\ server'[1].record["latitude"] # 0 /\ server'[1].record["uuid"] # 0
                 /\ hash.records[server'[1].slot]["uuid"] \in {0, server'[1].record["uuid"]}
                 /\ book' = [book EXCEPT ![server'[1].slot] = Unknown]
<1> DEFINE s == IF id = NoSlot THEN FreeSlot ELSE id
           r == [f \in Fields |-> IF f = "uuid" THEN UuidFor(s) ELSE requests + 2]
           v == [Idle EXCEPT !.pc = "write", !.op = "save", !.slot = s, !.todo = Fields,
                             !.record = r]
<1>1. server[1].pc = "idle" /\ requests' = requests + 1 /\ UNCHANGED <<edits, faults, crashes>>
  BY DEF SaveCall, Accept, Handlers
<1>2. CASE UNCHANGED <<server, issued, book>>
  BY <1>1, <1>2 DEF ServerTypes, BookTypes, CountTypes
<1>3. CASE /\ s # NoSlot /\ server' = [server EXCEPT ![h] = v]
           /\ issued' = IF UuidFor(s) = issued + 1 THEN issued + 1 ELSE issued
           /\ book' = [book EXCEPT ![s] = Unknown]
  <2>1. s \in Slots
    BY <1>3, FreeSlotIsSlot
  <2>2. hash.records[s]["uuid"] \in Nat
    BY <2>1, Values, StoreValues DEF StoreTypes
  <2>3. /\ UuidFor(s) \in Nat /\ UuidFor(s) # 0
        /\ hash.records[s]["uuid"] \in {0, UuidFor(s)}
    BY <2>2 DEF UuidFor, CountTypes
  <2>4. r \in Record /\ r["latitude"] # 0 /\ r["uuid"] = UuidFor(s)
    BY <2>3 DEF Record, Fields, CountTypes
  <2> HIDE DEF r
  <2>5. v \in Handler /\ v.pc = "write" /\ v.op = "save" /\ v.slot = s /\ v.todo = Fields
        /\ v.record = r
    BY <2>1, <2>4, IdleIs DEF Handler
  <2> HIDE DEF v, s
  <2>6. ServerTypes' /\ server'[1] = v
    BY <1>3, <2>5, BeginIs
  <2>7. BookTypes' /\ CountTypes'
    BY <1>1, <1>3, <2>1 DEF BookTypes, CountTypes
  <2> QED
    BY <1>1, <1>3, <2>1, <2>3, <2>4, <2>5, <2>6, <2>7
<1> QED
  BY <1>2, <1>3 DEF SaveCall

LEMMA DeleteCallIs ==
    ASSUME StoreTypes, ServerTypes, BookTypes, CountTypes, NEW h \in Handlers, NEW s \in Slots,
           DeleteCall(h, s)
    PROVE  /\ ServerTypes' /\ BookTypes' /\ CountTypes'
           /\ server[1].pc = "idle"
           /\ server'[1].pc = (IF hash.records[s]["uuid"] = 0 THEN "clear" ELSE "prune")
           /\ server'[1].op = "delete" /\ server'[1].slot = s /\ server'[1].todo = {}
           /\ server'[1].record = hash.records[s]
           /\ book' = [book EXCEPT ![s] = Unknown]
<1> DEFINE v == [Idle EXCEPT !.pc = IF hash.records[s]["uuid"] = 0 THEN "clear" ELSE "prune",
                             !.op = "delete", !.slot = s, !.record = hash.records[s]]
<1>1. server[1].pc = "idle" /\ requests' = requests + 1
      /\ UNCHANGED <<issued, edits, faults, crashes>>
  BY DEF DeleteCall, Accept, Handlers
<1>2. hash.records[s] \in Record
  BY StoreValues DEF StoreTypes
<1>3. /\ v \in Handler /\ v.op = "delete" /\ v.slot = s /\ v.todo = {}
      /\ v.record = hash.records[s]
      /\ v.pc = IF hash.records[s]["uuid"] = 0 THEN "clear" ELSE "prune"
  BY <1>2, IdleIs DEF Handler
<1>4. server' = [server EXCEPT ![h] = v]
  BY DEF DeleteCall
<1> HIDE DEF v
<1>5. ServerTypes' /\ server'[1] = v
  BY <1>3, <1>4, BeginIs
<1>6. book' = [book EXCEPT ![s] = Unknown]
  BY DEF DeleteCall
<1> QED
  BY <1>1, <1>3, <1>5, <1>6 DEF BookTypes, CountTypes

LEMMA TouchCallIs ==
    ASSUME StoreTypes, ServerTypes, CountTypes, NEW h \in Handlers, NEW s \in Slots,
           TouchCall(h, s)
    PROVE  /\ ServerTypes' /\ CountTypes'
           /\ server[1].pc = "idle"
           /\ \/ UNCHANGED server
              \/ /\ server'[1].pc = "write" /\ server'[1].op = "touch" /\ server'[1].slot = s
                 /\ server'[1].todo = {"used"}
<1> DEFINE r == [NoRecord EXCEPT !["used"] = requests + 2]
           v == [Idle EXCEPT !.pc = "write", !.slot = s, !.todo = {"used"}, !.record = r]
<1>1. server[1].pc = "idle" /\ requests' = requests + 1
      /\ UNCHANGED <<issued, edits, faults, crashes>>
  BY DEF TouchCall, Accept, Handlers
<1>2. r \in Record
  BY Values DEF Record, CountTypes
<1>3. /\ v \in Handler /\ v.pc = "write" /\ v.op = "touch" /\ v.slot = s /\ v.todo = {"used"}
  BY <1>2, IdleIs, Values DEF Handler
<1>4. UNCHANGED server \/ server' = [server EXCEPT ![h] = v]
  BY DEF TouchCall
<1> HIDE DEF v
<1> QED
  BY <1>1, <1>3, <1>4, BeginIs DEF CountTypes, ServerTypes

LEMMA WriteFieldIs ==
    ASSUME StoreTypes, ServerTypes, NEW h \in Handlers, NEW f \in Fields, WriteField(h, f)
    PROVE  /\ ServerTypes' /\ hash' \in Store /\ SameCall /\ hash'.items = hash.items
           /\ server[1].pc = "write" /\ f \in server[1].todo
           /\ server'[1].todo = server[1].todo \ {f}
           /\ server'[1].pc = (IF server[1].todo = {f} THEN "publish" ELSE "write")
           /\ \A t \in Slots, g \in Fields : hash'.records[t][g] =
                 IF t = slot /\ g = f THEN record[f] ELSE hash.records[t][g]
<1>1. h = 1
  BY DEF Handlers
<1>2. /\ hash' \in Store /\ hash'.items = hash.items
      /\ \A t \in Slots, g \in Fields : hash'.records[t][g] =
            IF t = slot /\ g = f THEN record[f] ELSE hash.records[t][g]
  <2>1. hash' = [hash EXCEPT !.records[slot][f] = record[f]]
    BY <1>1 DEF WriteField, SetFieldOf, slot, record
  <2>2. slot \in Slots /\ record[f] \in Nat /\ hash \in Store
    BY HandlerIs DEF StoreTypes
  <2> QED
    BY <2>1, <2>2, FieldWritten
<1>3. /\ server[1].pc = "write" /\ f \in server[1].todo
      /\ server' = [server EXCEPT ![1].todo = @ \ {f},
                                  ![1].pc = IF server[1].todo = {f} THEN "publish" ELSE "write"]
  BY <1>1 DEF WriteField
<1>4. /\ ServerTypes' /\ SameCall /\ server'[1].todo = server[1].todo \ {f}
      /\ server'[1].pc = IF server[1].todo = {f} THEN "publish" ELSE "write"
  BY <1>3 DEF ServerTypes, Handlers, Handler, SameCall, op, slot, record
<1> QED
  BY <1>2, <1>3, <1>4

LEMMA PruneIs ==
    ASSUME StoreTypes, ServerTypes, NEW h \in Handlers, Prune(h)
    PROVE  /\ ServerTypes' /\ SameCall /\ server[1].pc = "prune"
           /\ server'[1].todo = server[1].todo
           /\ \/ /\ server'[1].pc = "pruned"
                 /\ server'[1].items = hash.items \ {record["uuid"]}
              \/ /\ server'[1].pc = "clear"
                 /\ hash.items = Absent \/ record["uuid"] \notin hash.items
<1>1. h = 1
  BY DEF Handlers
<1>2. CASE hash.items # Absent /\ record["uuid"] \in hash.items
  <2>1. hash.items \ {record["uuid"]} \in SUBSET Nat
    BY <1>2, StoreValues DEF StoreTypes
  <2>2. server' = [server EXCEPT ![1].pc = "pruned", ![1].items = hash.items \ {record["uuid"]}]
    BY <1>1, <1>2 DEF Prune, record
  <2>3. ServerTypes' /\ SameCall /\ server'[1].pc = "pruned" /\ server'[1].todo = server[1].todo
        /\ server'[1].items = hash.items \ {record["uuid"]}
    BY <2>1, <2>2 DEF ServerTypes, Handlers, Handler, SameCall, op, slot, record
  <2> QED
    BY <1>1, <2>3 DEF Prune
<1>3. CASE hash.items = Absent \/ record["uuid"] \notin hash.items
  <2>1. To(1, "clear")
    BY <1>1, <1>3 DEF Prune, record
  <2> QED
    BY <1>1, <1>3, <2>1, ToIs DEF Prune
<1> QED
  BY <1>2, <1>3

LEMMA PruneWriteIs ==
    ASSUME StoreTypes, ServerTypes, NEW h \in Handlers, PruneWrite(h)
    PROVE  /\ ServerTypes' /\ SameCall /\ server[1].pc = "pruned" /\ server'[1].pc = "pruneSay"
           /\ server'[1].todo = server[1].todo
           /\ hash' \in Store /\ hash'.records = hash.records /\ hash'.items = server[1].items
           /\ hash'.items # Absent
<1>1. h = 1 /\ server[1].items \in SUBSET Nat
  BY DEF Handlers, ServerTypes, Handler
<1>2. hash' = [hash EXCEPT !.items = server[1].items] /\ server[1].pc = "pruned"
  BY <1>1 DEF PruneWrite
<1> QED
  BY <1>1, <1>2, ItemsReplaced, ToIs, Values DEF PruneWrite, StoreTypes

LEMMA ClearIs ==
    ASSUME StoreTypes, ServerTypes, NEW h \in Handlers, Clear(h)
    PROVE  /\ ServerTypes' /\ SameCall /\ server[1].pc = "clear" /\ server'[1].pc = "publish"
           /\ server'[1].todo = server[1].todo
           /\ hash' \in Store /\ hash'.items = hash.items
           /\ \A t \in Slots, f \in Fields : hash'.records[t][f] =
                 IF t = slot /\ record[f] # 0 THEN 0 ELSE hash.records[t][f]
<1>1. h = 1 /\ slot \in Slots
  BY HandlerIs DEF Handlers
<1>2. [f \in Fields |-> IF record[f] # 0 THEN 0 ELSE hash.records[slot][f]] \in Record
  BY <1>1, StoreValues DEF StoreTypes, Record
<1>3. PICK left \in Record :
         left = [f \in Fields |-> IF record[f] # 0 THEN 0 ELSE hash.records[slot][f]]
  BY <1>2
<1>4. hash' = [hash EXCEPT !.records[slot] = left]
  BY <1>1, <1>3, StoreValues DEF Clear, slot, record, StoreTypes, Store
<1>5. /\ hash' \in Store /\ hash'.items = hash.items
      /\ \A g \in Fields : hash'.records[slot][g] = left[g]
      /\ \A t \in Slots, g \in Fields : t # slot => hash'.records[t][g] = hash.records[t][g]
  <2>1. hash \in Store /\ hash.records \in [Slots -> Record]
    BY StoreValues DEF StoreTypes
  <2>2. hash'.items = hash.items /\ hash'.records = [hash.records EXCEPT ![slot] = left]
    BY <1>4, <2>1 DEF Store
  <2>3. hash'.records \in [Slots -> Record]
    BY <1>1, <2>1, <2>2
  <2>4. hash' \in Store
    BY <1>4, <2>1, <2>2, <2>3 DEF Store
  <2> QED
    BY <1>1, <2>1, <2>2, <2>4
<1>6. To(h, "publish") /\ server[1].pc = "clear"
  BY <1>1 DEF Clear
<1> QED
  BY <1>3, <1>5, <1>6, ToIs

LEMMA FailIs ==
    ASSUME ServerTypes, BookTypes, CountTypes, NEW h \in Handlers, Fail(h)
    PROVE  /\ ServerTypes' /\ BookTypes' /\ CountTypes'
           /\ server'[1].pc = "idle" /\ server'[1].op = "touch" /\ server'[1].todo = {}
           /\ book' = [book EXCEPT ![slot] = Unknown] /\ server[1].pc # "idle"
<1>1. h = 1
  BY DEF Handlers
<1>2. ServerTypes' /\ server'[1].pc = "idle" /\ server'[1].op = "touch" /\ server'[1].todo = {}
  BY AnswerIs DEF Fail
<1>3. book' = [book EXCEPT ![slot] = Unknown] /\ server[1].pc # "idle"
  BY <1>1 DEF Fail, slot
<1>4. BookTypes'
  BY <1>3 DEF BookTypes
<1>5. CountTypes'
  BY DEF Fail, CountTypes
<1> QED
  BY <1>2, <1>3, <1>4, <1>5

\* What comes on the books.
LEMMA PublishRecordIs ==
    ASSUME ServerTypes, BookTypes, NEW h \in Handlers, PublishRecord(h)
    PROVE  /\ ServerTypes' /\ BookTypes' /\ server[1].pc = "publish"
           /\ server'[1].pc = "idle" /\ server'[1].op = "touch" /\ server'[1].todo = {}
           /\ Publish(IF op = "touch" THEN FieldName(slot, "used") ELSE Prefix(slot))
           /\ \A s \in Slots : s # slot => book'[s] = book[s]
           /\ op = "save" => book'[slot] = record
           /\ op = "delete" => book'[slot] = NoRecord
           /\ op = "touch" => book'[slot] = IF book[slot] = Unknown THEN Unknown
                                            ELSE [book[slot] EXCEPT !["used"] = record["used"]]
<1>1. h = 1 /\ server[1].pc = "publish"
  BY DEF Handlers, PublishRecord
<1> DEFINE b == CASE op = "save"    -> record
                  [] op = "delete"  -> NoRecord
                  [] op = "touch"   -> IF book[slot] = Unknown THEN Unknown
                                       ELSE [book[slot] EXCEPT !["used"] = record["used"]]
<1>2. slot \in Slots /\ op \in {"save", "delete", "touch"} /\ record \in Record
      /\ record["used"] \in Nat
  BY HandlerIs DEF Fields
<1>3. book' = [book EXCEPT ![slot] = b]
  BY <1>1, <1>2 DEF PublishRecord, op, slot, record, BookTypes
<1>4. /\ op = "save" => b = record
      /\ op = "delete" => b = NoRecord
      /\ op = "touch" => b = IF book[slot] = Unknown THEN Unknown
                             ELSE [book[slot] EXCEPT !["used"] = record["used"]]
  OBVIOUS
<1>5. b \in Record \union {Unknown}
  <2>1. CASE op = "save"
    BY <1>2, <1>4, <2>1
  <2>2. CASE op = "delete"
    BY <1>4, <2>2, Values
  <2>3. CASE op = "touch"
    BY <1>2, <1>4, <2>3 DEF BookTypes, Record
  <2> QED
    BY <1>2, <2>1, <2>2, <2>3
<1> HIDE DEF b
<1>6. BookTypes' /\ book'[slot] = b /\ \A s \in Slots : s # slot => book'[s] = book[s]
  BY <1>2, <1>3, <1>5 DEF BookTypes
<1>7. Publish(IF op = "touch" THEN FieldName(slot, "used") ELSE Prefix(slot))
  BY <1>1 DEF PublishRecord, op, slot
<1>8. ServerTypes' /\ server'[1].pc = "idle" /\ server'[1].op = "touch" /\ server'[1].todo = {}
  BY AnswerIs DEF PublishRecord
<1> QED
  BY <1>1, <1>4, <1>6, <1>7, <1>8

--------------------------------------------------------------------------------
(* Names on their way.                                                           *)

\* A published name is received, if the service listens.
LEMMA PublishIs ==
    ASSUME WatcherTypes, NEW name \in Names, Publish(name)
    PROVE  /\ channel' \in Seq(Names)
           /\ boot # "up" => channel' = channel
           /\ boot = "up" => channel' # <<>> /\ Said' = Said \union {name}
<1>1. channel \in Seq(Names)
  BY DEF WatcherTypes
<1>2. CASE boot # "up"
  BY <1>1, <1>2 DEF Publish, Subscribed
<1>3. CASE boot = "up"
  <2>1. channel' = Append(channel, name)
    BY <1>3 DEF Publish, Subscribed
  <2>2. channel' \in Seq(Names) /\ channel' # <<>>
    BY <1>1, <2>1
  <2>3. /\ DOMAIN channel' = DOMAIN channel \union {Len(channel) + 1}
        /\ \A i \in DOMAIN channel : channel'[i] = channel[i]
        /\ channel'[Len(channel) + 1] = name
    BY <1>1, <2>1
  <2>4. Said' = Said \union {name}
    BY <2>3 DEF Said
  <2> QED
    BY <1>3, <2>2, <2>4
<1> QED
  BY <1>2, <1>3

\* The first of them is taken.
LEMMA ReceiveIs ==
    ASSUME WatcherTypes, Receive
    PROVE  /\ channel' \in Seq(Names) /\ Head(channel) \in Names
           /\ Said \subseteq Said' \union {Head(channel)}
           /\ watcher' = [pc |-> "mark", name |-> Head(channel)]
<1>1. channel \in Seq(Names) /\ channel # <<>> /\ channel' = Tail(channel)
      /\ watcher' = [pc |-> "mark", name |-> Head(channel)]
  BY DEF WatcherTypes, Receive
<1>2. channel' \in Seq(Names) /\ Head(channel) \in Names
  BY <1>1
<1>3. ASSUME NEW i \in DOMAIN channel
      PROVE  channel[i] = Head(channel) \/ \E j \in DOMAIN channel' : channel[i] = channel'[j]
  <2>1. CASE i = 1
    BY <1>1, <2>1
  <2>2. CASE i # 1
    <3>1. i - 1 \in DOMAIN channel' /\ channel'[i - 1] = channel[i]
      BY <1>1, <2>2
    <3> QED
      BY <3>1
  <2> QED
    BY <2>1, <2>2
<1> QED
  BY <1>1, <1>2, <1>3 DEF Said

--------------------------------------------------------------------------------
(* Types.                                                                        *)

LEMMA PersistedIs ==
    ASSUME StoreTypes
    PROVE  /\ Persisted \in Store
           /\ Persisted.items = IF ItemsName \in marks THEN hash.items ELSE Absent
           /\ \A s \in Slots, f \in Fields : Persisted.records[s][f] =
                 IF Prefix(s) \in marks \/ FieldName(s, f) \in marks
                 THEN hash.records[s][f] ELSE 0
<1> DEFINE r == [s \in Slots |-> [f \in Fields |->
                    IF Prefix(s) \in marks \/ FieldName(s, f) \in marks
                    THEN hash.records[s][f] ELSE 0]]
           l == IF ItemsName \in marks THEN hash.items ELSE Absent
<1>1. hash \in Store
  BY DEF StoreTypes
<1>2. r \in [Slots -> Record]
  BY <1>1, StoreValues DEF Record
<1>3. l \in (SUBSET Nat) \union {Absent}
  BY <1>1, StoreValues
<1>4. Persisted = [records |-> r, items |-> l]
  BY DEF Persisted
<1>5. \A s \in Slots, f \in Fields : r[s][f] =
         IF Prefix(s) \in marks \/ FieldName(s, f) \in marks THEN hash.records[s][f] ELSE 0
  OBVIOUS
<1> HIDE DEF r, l
<1>6. Persisted \in Store /\ Persisted.records = r /\ Persisted.items = l
  BY <1>2, <1>3, <1>4 DEF Store
<1> QED
  BY <1>5, <1>6 DEF l

\* What hydration makes of a store that is healed first.
LEMMA LoadIs ==
    ASSUME StoreTypes, CountTypes, Load
    PROVE  /\ hash' \in Store /\ issued' \in Nat /\ boot = "new" /\ boot' \in {"loaded", "rewrite"}
           /\ hash'.items = IF toml.items = Absent THEN {} ELSE toml.items
           /\ hash'.items # Absent
           /\ \A s \in Slots \ Healed, f \in Fields : hash'.records[s][f] =
                 IF toml.records[s][f] # 0 THEN toml.records[s][f] ELSE hash.records[s][f]
           /\ marks' \subseteq Names
           /\ \A s \in Slots, f \in Fields : toml.records[s][f] # 0 => FieldName(s, f) \in marks'
<1> DEFINE r == [s \in Slots |-> [f \in Fields |->
                    IF HealedRecord(s)[f] # 0 THEN HealedRecord(s)[f] ELSE hash.records[s][f]]]
           l == IF toml.items = Absent THEN {} ELSE toml.items
<1>1. hash \in Store /\ toml \in Store
  BY DEF StoreTypes
<1>2. Slots \subseteq Nat /\ IsFiniteSet(Slots)
  BY FS_Interval, SlotsAssumption DEF Slots
<1>3. \A s \in Slots : HealedRecord(s) \in Record
  <2> SUFFICES ASSUME NEW s \in Slots PROVE HealedRecord(s) \in Record
    OBVIOUS
  <2>1. toml.records[s] \in Record /\ issued + s + 1 \in Nat
    BY <1>1, <1>2, StoreValues DEF CountTypes
  <2>2. [toml.records[s] EXCEPT !["uuid"] = issued + s + 1] \in Record
    BY <2>1 DEF Record
  <2> QED
    BY <2>1, <2>2 DEF HealedRecord
<1>4. r \in [Slots -> Record]
  BY <1>1, <1>3, StoreValues DEF Record
<1>5. l \in (SUBSET Nat) \union {Absent} /\ l # Absent
  BY <1>1, StoreValues, Values
<1>6. hash' = [records |-> r, items |-> l]
  BY DEF Load
<1>7. \A s \in Slots \ Healed, f \in Fields : r[s][f] =
         IF toml.records[s][f] # 0 THEN toml.records[s][f] ELSE hash.records[s][f]
  BY DEF HealedRecord
<1> HIDE DEF r, l
<1>8. hash' \in Store /\ hash'.records = r /\ hash'.items = l
  BY <1>4, <1>5, <1>6 DEF Store
<1>9. Cardinality(Slots) \in Nat
  BY <1>2, FS_CardinalityType
<1>10. issued' \in Nat
  BY <1>9 DEF Load, CountTypes
<1>11. marks' \subseteq Names
  BY NameTypes DEF Load, Healed
<1>12. \A s \in Slots, f \in Fields : toml.records[s][f] # 0 => FieldName(s, f) \in marks'
  BY NameTypes DEF Load
<1>13. boot = "new" /\ boot' \in {"loaded", "rewrite"}
  BY DEF Load
<1> QED
  BY <1>5, <1>7, <1>8, <1>10, <1>11, <1>12, <1>13 DEF l

\* The handler's steps.
LEMMA ServerType ==
    ASSUME Types, Server
    PROVE  Types'
<1>1. PICK h \in Handlers :
          \/ \E s \in Slots : DeleteCall(h, s) \/ TouchCall(h, s)
          \/ \E id \in Slots \union {NoSlot} : SaveCall(h, id)
          \/ \E f \in Fields : WriteField(h, f)
          \/ Prune(h) \/ PruneWrite(h) \/ PruneSay(h) \/ Clear(h) \/ PublishRecord(h) \/ Fail(h)
  BY DEF Server
<1> USE DEF Types, persistent, service, counters
<1>2. CASE \E s \in Slots : DeleteCall(h, s)
  <2>1. ServerTypes' /\ BookTypes' /\ CountTypes'
    BY <1>2, DeleteCallIs
  <2>2. UNCHANGED <<hash, toml, channel, boot, marks, watcher, unpublished>>
    BY <1>2 DEF DeleteCall, Accept
  <2> QED
    BY <2>1, <2>2 DEF StoreTypes, WatcherTypes, FlagType, Listed
<1>3. CASE \E s \in Slots : TouchCall(h, s)
  <2>1. ServerTypes' /\ CountTypes'
    BY <1>3, TouchCallIs
  <2>2. UNCHANGED <<hash, toml, channel, boot, marks, watcher, unpublished, book>>
    BY <1>3 DEF TouchCall, Accept
  <2> QED
    BY <2>1, <2>2 DEF StoreTypes, WatcherTypes, FlagType, Listed, BookTypes
<1>4. CASE \E id \in Slots \union {NoSlot} : SaveCall(h, id)
  <2>1. ServerTypes' /\ BookTypes' /\ CountTypes'
    BY <1>4, SaveCallIs
  <2>2. UNCHANGED <<hash, toml, channel, boot, marks, watcher, unpublished>>
    BY <1>4 DEF SaveCall, Accept
  <2> QED
    BY <2>1, <2>2 DEF StoreTypes, WatcherTypes, FlagType, Listed
<1>5. CASE \E f \in Fields : WriteField(h, f)
  <2>1. ServerTypes' /\ hash' \in Store /\ hash'.items = hash.items
    BY <1>5, WriteFieldIs
  <2>2. UNCHANGED <<toml, channel, boot, marks, watcher, unpublished, book, counters>>
    BY <1>5 DEF WriteField
  <2> QED
    BY <2>1, <2>2 DEF StoreTypes, WatcherTypes, FlagType, Listed, BookTypes, CountTypes
<1>6. CASE Prune(h)
  <2>1. ServerTypes'
    BY <1>6, PruneIs
  <2>2. UNCHANGED <<hash, toml, channel, boot, marks, watcher, unpublished, book, counters>>
    BY <1>6 DEF Prune
  <2> QED
    BY <2>1, <2>2 DEF StoreTypes, WatcherTypes, FlagType, Listed, BookTypes, CountTypes
<1>7. CASE PruneWrite(h)
  <2>1. ServerTypes' /\ hash' \in Store /\ hash'.items # Absent
    BY <1>7, PruneWriteIs
  <2>2. UNCHANGED <<toml, channel, boot, marks, watcher, unpublished, book, counters>>
    BY <1>7 DEF PruneWrite
  <2> QED
    BY <2>1, <2>2 DEF StoreTypes, WatcherTypes, FlagType, Listed, BookTypes, CountTypes
<1>8. CASE PruneSay(h)
  <2>1. ServerTypes'
    BY <1>8, ToIs DEF PruneSay
  <2>2. channel' \in Seq(Names)
    BY <1>8, PublishIs, NameTypes DEF PruneSay
  <2>3. UNCHANGED <<hash, toml, boot, marks, watcher, unpublished, book, counters>>
    BY <1>8 DEF PruneSay
  <2> QED
    BY <2>1, <2>2, <2>3 DEF StoreTypes, WatcherTypes, FlagType, Listed, BookTypes, CountTypes
<1>9. CASE Clear(h)
  <2>1. ServerTypes' /\ hash' \in Store /\ hash'.items = hash.items
    BY <1>9, ClearIs
  <2>2. UNCHANGED <<toml, channel, boot, marks, watcher, unpublished, book, counters>>
    BY <1>9 DEF Clear
  <2> QED
    BY <2>1, <2>2 DEF StoreTypes, WatcherTypes, FlagType, Listed, BookTypes, CountTypes
<1>10. CASE PublishRecord(h)
  <2>1. ServerTypes' /\ BookTypes'
        /\ Publish(IF op = "touch" THEN FieldName(slot, "used") ELSE Prefix(slot))
    BY <1>10, PublishRecordIs
  <2>2. (IF op = "touch" THEN FieldName(slot, "used") ELSE Prefix(slot)) \in Names
    BY HandlerIs, NameTypes DEF Fields
  <2>3. channel' \in Seq(Names)
    BY <2>1, <2>2, PublishIs
  <2>4. UNCHANGED <<hash, toml, boot, marks, watcher, unpublished, counters>>
    BY <1>10 DEF PublishRecord
  <2> QED
    BY <2>1, <2>3, <2>4 DEF StoreTypes, WatcherTypes, FlagType, Listed, CountTypes
<1>11. CASE Fail(h)
  <2>1. ServerTypes' /\ BookTypes' /\ CountTypes'
    BY <1>11, FailIs
  <2>2. UNCHANGED <<hash, toml, channel, boot, marks, watcher, unpublished>>
    BY <1>11 DEF Fail
  <2> QED
    BY <2>1, <2>2 DEF StoreTypes, WatcherTypes, FlagType, Listed
<1> QED
  BY <1>1, <1>2, <1>3, <1>4, <1>5, <1>6, <1>7, <1>8, <1>9, <1>10, <1>11

\* The service's own.
LEMMA ServiceType ==
    ASSUME Types, Service
    PROVE  Types'
<1> USE DEF Types, persistent, service, counters
<1>1. CASE Load
  <2>1. UNCHANGED <<toml, channel, watcher, server, unpublished, book, requests, edits, faults, crashes>>
    BY <1>1 DEF Load
  <2> QED
    BY <1>1, <2>1, LoadIs DEF StoreTypes, WatcherTypes, ServerTypes, BookTypes, CountTypes, FlagType,
       Listed
<1>2. CASE Rewrite
  <2>1. /\ toml' = Persisted /\ boot = "rewrite" /\ boot' = "loaded"
        /\ UNCHANGED <<hash, channel, marks, watcher, server, unpublished, book, counters>>
    BY <1>2 DEF Rewrite
  <2> QED
    BY <2>1, PersistedIs DEF StoreTypes, WatcherTypes, ServerTypes, BookTypes, CountTypes, FlagType,
       Listed
<1>3. CASE Subscribe
  BY <1>3 DEF Subscribe, StoreTypes, WatcherTypes, ServerTypes, BookTypes, CountTypes, FlagType,
     Listed
<1>4. CASE Receive
  <2>1. UNCHANGED <<hash, toml, boot, marks, server, unpublished, book, counters>>
    BY <1>4 DEF Receive
  <2>2. channel' \in Seq(Names) /\ watcher' \in [pc : {"idle", "mark", "save"}, name : Names]
    BY <1>4, ReceiveIs
  <2> QED
    BY <2>1, <2>2 DEF StoreTypes, WatcherTypes, ServerTypes, BookTypes, CountTypes, FlagType, Listed
<1>5. CASE Mark
  BY <1>5 DEF Mark, StoreTypes, WatcherTypes, ServerTypes, BookTypes, CountTypes, FlagType, Listed
<1>6. CASE Save
  <2>1. /\ toml' = Persisted /\ watcher' = WatcherIdle
        /\ UNCHANGED <<hash, channel, boot, marks, server, unpublished, book, counters>>
    BY <1>6 DEF Save
  <2>2. WatcherIdle \in [pc : {"idle", "mark", "save"}, name : Names]
    BY NameTypes DEF WatcherIdle
  <2> QED
    BY <2>1, <2>2, PersistedIs DEF StoreTypes, WatcherTypes, ServerTypes, BookTypes, CountTypes,
       FlagType, Listed
<1> QED
  BY <1>1, <1>2, <1>3, <1>4, <1>5, <1>6 DEF Service

\* What is written into the list is a list.
LEMMA EditItemsIs ==
    ASSUME Types, EditItems
    PROVE  /\ boot = "up" /\ hash' \in Store /\ hash'.records = hash.records
           /\ hash'.items # Absent
           /\ \E u \in Shown : hash'.items \subseteq hash.items \union {u}
           /\ EditsAnytime \/ op # "delete"
<1>1. boot = "up" /\ hash \in Store /\ hash.items \in SUBSET Nat
  BY StoreValues DEF EditItems, Subscribed, Types, StoreTypes, Listed
<1>2. PICK u \in Shown : hash' = [hash EXCEPT !.items = IF u \in @ THEN @ \ {u} ELSE @ \union {u}]
  BY DEF EditItems
<1>3. PICK list \in SUBSET Nat : /\ hash' = [hash EXCEPT !.items = list]
                                 /\ list \subseteq hash.items \union {u}
  <2>1. u \in Nat
    BY <1>1, StoreValues DEF Shown, Fields
  <2>2. CASE u \in hash.items
    <3>1. hash' = [hash EXCEPT !.items = hash.items \ {u}] /\ hash.items \ {u} \in SUBSET Nat
      BY <1>1, <1>2, <2>2
    <3> QED
      BY <3>1
  <2>3. CASE u \notin hash.items
    <3>1. hash' = [hash EXCEPT !.items = hash.items \union {u}]
          /\ hash.items \union {u} \in SUBSET Nat
      BY <1>1, <1>2, <2>1, <2>3
    <3> QED
      BY <3>1
  <2> QED
    BY <2>2, <2>3
<1>4. hash' \in Store /\ hash'.records = hash.records /\ hash'.items = list
  BY <1>1, <1>3, ItemsReplaced
<1>5. list # Absent
  BY Values
<1>6. EditsAnytime \/ op # "delete"
  BY DEF EditItems, Deleting, Handlers, op
<1> QED
  BY <1>1, <1>3, <1>4, <1>5, <1>6

\* After a stop nothing is left of the process.
LEMMA StopIs ==
    ASSUME Types, Stop
    PROVE  /\ ServerTypes' /\ BookTypes' /\ CountTypes' /\ WatcherTypes'
           /\ boot' = "new" /\ channel' = <<>> /\ watcher'.pc = "idle" /\ crashes' # 0
           /\ server'[1].pc = "idle" /\ server'[1].op = "touch" /\ server'[1].todo = {}
           /\ \A s \in Slots : book'[s] # Unknown =>
                 book'[s] = book[s] /\ hash.records[s] = book[s] /\ toml.records[s] = book[s]
<1>1. ServerTypes' /\ server'[1] = Idle
  BY IdleIs DEF Stop, ServerTypes, Handlers
<1>2. BookTypes'
  BY DEF Stop, Types, BookTypes
<1>3. CountTypes' /\ crashes' # 0
  BY DEF Stop, Types, CountTypes
<1>4. WatcherTypes' /\ boot' = "new" /\ channel' = <<>> /\ watcher'.pc = "idle"
  BY NameTypes DEF Stop, WatcherTypes, WatcherIdle
<1>5. \A s \in Slots : book'[s] # Unknown =>
         book'[s] = book[s] /\ hash.records[s] = book[s] /\ toml.records[s] = book[s]
  BY DEF Stop
<1> QED
  BY <1>1, <1>2, <1>3, <1>4, <1>5, IdleIs

LEMMA NextType == Types /\ [Next]_vars => Types'
<1> SUFFICES ASSUME Types, [Next]_vars PROVE Types'
  OBVIOUS
<1>1. CASE Service \/ Server
  BY <1>1, ServiceType, ServerType
<1>2. CASE EditItems
  <2>1. unpublished' = TRUE
    BY <1>2 DEF EditItems
  <2>2. FlagType'
    BY <2>1 DEF FlagType
  <2>3. UNCHANGED <<toml, service, server, book, requests, issued, faults, crashes>>
        /\ edits' = edits + 1
    BY <1>2 DEF EditItems
  <2> QED
    BY <1>2, <2>2, <2>3, EditItemsIs DEF Types, StoreTypes, WatcherTypes, ServerTypes, BookTypes,
       CountTypes, Listed, service
<1>3. CASE SayItems
  <2>1. unpublished' = FALSE
    BY <1>3 DEF SayItems
  <2>2. FlagType'
    BY <2>1 DEF FlagType
  <2>3. UNCHANGED <<persistent, boot, marks, watcher, server, book, counters>>
    BY <1>3 DEF SayItems
  <2>4. channel' \in Seq(Names)
    BY <1>3, PublishIs, NameTypes DEF SayItems, Types
  <2> QED
    BY <2>2, <2>3, <2>4 DEF Types, StoreTypes, WatcherTypes, ServerTypes, BookTypes, CountTypes,
       Listed, persistent, counters
<1>4. CASE Crash
  <2>1. UNCHANGED <<hash, toml, unpublished>> /\ boot' = "new"
    BY <1>4 DEF Crash, Stop
  <2> QED
    BY <1>4, <2>1, StopIs DEF Crash, Types, StoreTypes, FlagType, Listed
<1>5. CASE Reboot
  <2>1. unpublished' = FALSE
    BY <1>5 DEF Reboot
  <2>2. FlagType'
    BY <2>1 DEF FlagType
  <2>3. hash' = Empty /\ UNCHANGED toml /\ boot' = "new"
    BY <1>5 DEF Reboot, Stop
  <2> QED
    BY <1>5, <2>2, <2>3, StopIs, EmptyIs DEF Reboot, Types, StoreTypes, Listed
<1>6. CASE UNCHANGED vars
  BY <1>6 DEF vars, persistent, service, counters, Types, StoreTypes, WatcherTypes, ServerTypes,
     BookTypes, CountTypes, FlagType, Listed
<1> QED
  BY <1>1, <1>2, <1>3, <1>4, <1>5, <1>6 DEF Next, Wait

LEMMA InitTypes == Init => Types
<1> SUFFICES ASSUME Init PROVE Types
  OBVIOUS
<1>1. InitToml \in Store
  <2>1. \A s \in Slots : (IF s \in Legacy
                          THEN [NoRecord EXCEPT !["latitude"] = 1, !["rest"] = 1]
                          ELSE NoRecord) \in Record
    BY Values DEF Record
  <2>2. [s \in Slots |-> IF s \in Legacy THEN [NoRecord EXCEPT !["latitude"] = 1, !["rest"] = 1]
                         ELSE NoRecord] \in [Slots -> Record]
    BY <2>1
  <2> QED
    BY <2>2, EmptyIs DEF InitToml, Store
<1>2. StoreTypes
  BY <1>1, EmptyIs DEF Init, StoreTypes
<1>3. WatcherTypes
  BY NameTypes DEF Init, WatcherTypes, WatcherIdle
<1>4. ServerTypes /\ BookTypes
  BY IdleIs, Values DEF Init, ServerTypes, BookTypes
<1>5. CountTypes /\ Listed
  BY DEF Init, CountTypes, Listed
<1>6. unpublished = FALSE
  BY DEF Init
<1> QED
  BY <1>2, <1>3, <1>4, <1>5, <1>6 DEF Types, FlagType

\* The types are an invariant.
LEMMA TypeInvariance == Spec => []Types
BY InitTypes, NextType, PTL DEF Spec

\* Every variable has its type.
THEOREM DestinationsTypeCorrect == Spec => []TypeOK
<1>1. Types => TypeOK
  <2> SUFFICES ASSUME Types PROVE TypeOK
    OBVIOUS
  <2>1. \A store \in {hash, toml} :
           /\ store.records \in [Slots -> Record]
           /\ store.items = Absent \/ store.items \subseteq Nat
    BY StoreValues DEF Types, StoreTypes
  <2>2. \A h \in Handlers :
           /\ server[h].pc \in {"idle", "write", "prune", "pruned", "pruneSay", "clear", "publish"}
           /\ server[h].op \in {"save", "delete", "touch"} /\ server[h].slot \in Slots
           /\ server[h].record \in Record /\ server[h].todo \subseteq Fields
           /\ server[h].items # Absent /\ server[h].items \subseteq Nat
    BY Values DEF Types, ServerTypes, Handler
  <2>3. {requests, issued, edits, faults, crashes} \subseteq Nat
    BY DEF Types, CountTypes
  <2>4. unpublished \in BOOLEAN
    BY DEF Types, FlagType
  <2>5. /\ channel \in Seq(Names) /\ boot \in {"new", "rewrite", "loaded", "up"}
        /\ marks \subseteq Names
        /\ watcher \in [pc : {"idle", "mark", "save"}, name : Names]
        /\ book \in [Slots -> Record \union {Unknown}]
    BY DEF Types, WatcherTypes, BookTypes
  <2> QED
    BY <2>1, <2>2, <2>3, <2>4, <2>5 DEF TypeOK
<1> QED
  BY <1>1, TypeInvariance, PTL

--------------------------------------------------------------------------------
(* The books.                                                                    *)

\* A step that leaves alone what is on the books, and forgets no name.
BookFrame ==
    /\ boot' = "new" <=> boot = "new"
    /\ Coming \subseteq Coming'
    /\ channel # <<>> \/ watcher.pc # "idle" => channel' # <<>> \/ watcher'.pc # "idle"
    /\ \A s \in Slots : book'[s] # Unknown => book'[s] = book[s]
    /\ \A s \in Slots : book'[s] # Unknown =>
          \A f \in Fields : /\ hash'.records[s][f] = hash.records[s][f]
                            /\ toml'.records[s][f] = toml.records[s][f]
                            /\ Touched(s, f) => Touched(s, f)'

LEMMA FrameKeepsBook ==
    ASSUME Booked, BookFrame
    PROVE  Booked'
<1> USE DEF Booked, BookFrame
<1>1. BookWhole'
  BY DEF BookWhole
<1>2. BookWaits'
  BY DEF BookWaits
<1>3. BookInHash'
  BY DEF BookInHash
<1>4. BookMarked'
  BY DEF BookMarked
<1>5. BookOnFile'
  BY DEF BookOnFile
<1> QED
  BY <1>1, <1>2, <1>3, <1>4, <1>5

\* A handler that is idle is no trouble.
LEMMA IdleWorks ==
    ASSUME server'[1].pc = "idle", server'[1].op = "touch"
    PROVE  Working'
BY DEF Working, Course, Saving, Clearing, Touching, at, op

\* Nor is one that is not touched, nor the records.
LEMMA UntouchedWorks ==
    ASSUME Types, Working, UNCHANGED <<server, book>>,
           \A s \in Slots, f \in Fields : hash'.records[s][f] = hash.records[s][f]
    PROVE  Working'
<1>1. slot \in Slots /\ "used" \in Fields /\ "uuid" \in Fields
  BY HandlerIs DEF Types, Fields
<1>2. \A f \in Fields : Now(f)' = Now(f)
  BY <1>1 DEF Now, slot
<1>3. Course'
  BY DEF Working, Course, at, op
<1>4. Saving'
  BY <1>1, <1>2 DEF Working, Saving, op, slot, record
<1>5. Clearing'
  BY <1>2 DEF Working, Clearing, at, op, slot, record
<1>6. Touching'
  BY <1>1, <1>2 DEF Working, Touching, at, op, record
<1> QED
  BY <1>3, <1>4, <1>5, <1>6 DEF Working

\* Hydration takes a record on the books as it is.
LEMMA LoadBook == ASSUME BookInv, Load PROVE Quiet' /\ Working' /\ Booked'
<1>1. /\ hash' \in Store /\ boot = "new" /\ boot' \in {"loaded", "rewrite"}
      /\ \A s \in Slots \ Healed, f \in Fields : hash'.records[s][f] =
            IF toml.records[s][f] # 0 THEN toml.records[s][f] ELSE hash.records[s][f]
      /\ \A s \in Slots, f \in Fields : toml.records[s][f] # 0 => FieldName(s, f) \in marks'
  BY LoadIs DEF BookInv, Types
<1>2. UNCHANGED <<toml, channel, watcher, server, book>>
  BY DEF Load
<1>3. at = "idle" /\ op = "touch" /\ channel = <<>> /\ watcher.pc = "idle"
  BY <1>1 DEF BookInv, Quiet, Working, Course
<1>4. ASSUME NEW s \in Slots, book[s] # Unknown, NEW f \in Fields
      PROVE  hash'.records[s][f] = book[s][f] /\ toml'.records[s][f] = book[s][f]
  <2>1. \A g \in Fields : /\ toml.records[s][g] = book[s][g]
                          /\ hash.records[s][g] \in {0, book[s][g]}
    BY <1>1, <1>4 DEF BookInv, Booked, BookWaits
  <2>2. s \notin Healed
    BY <1>4, <2>1 DEF BookInv, Booked, BookWhole, Healed, Fields
  <2> QED
    BY <1>1, <1>2, <2>1, <2>2
<1>5. Quiet' /\ Working'
  BY <1>2, <1>3, IdleWorks DEF Quiet, at, op
<1>6. BookWhole' /\ BookWaits'
  BY <1>1, <1>2 DEF BookInv, Booked, BookWhole, BookWaits
<1>7. BookInHash' /\ BookOnFile'
  BY <1>2, <1>4 DEF BookInHash, BookOnFile
<1>8. BookMarked'
  BY <1>1, <1>2, <1>4 DEF BookMarked, Coming
<1> QED
  BY <1>5, <1>6, <1>7, <1>8 DEF Booked

\* What is marked is saved.
LEMMA SavedField ==
    ASSUME BookInv, boot # "new", NEW s \in Slots, book[s] # Unknown, NEW f \in Fields,
           ~Touched(s, f), channel = <<>>, watcher.pc # "mark"
    PROVE  Persisted.records[s][f] = hash.records[s][f]
<1>1. Coming = marks
  BY DEF Coming, Said
<1>2. hash.records[s][f] = 0 \/ Prefix(s) \in marks \/ FieldName(s, f) \in marks
  BY <1>1 DEF BookInv, Booked, BookMarked
<1> QED
  BY <1>2, PersistedIs DEF BookInv, Types

\* The file is written with all that is marked: by hydration, and by the watcher.
LEMMA SaveBook == ASSUME BookInv, Rewrite \/ Save PROVE Quiet' /\ Working' /\ Booked'
<1>1. /\ toml' = Persisted /\ UNCHANGED <<hash, channel, marks, server, book>>
      /\ boot # "new" /\ boot' # "new"
  BY DEF Rewrite, Save, BookInv, Quiet
<1>2. watcher.pc # "mark" /\ watcher'.pc = "idle"
  BY DEF Rewrite, Save, BookInv, Quiet, WatcherIdle
<1>3. Quiet'
  BY <1>1, <1>2 DEF Rewrite, Save, BookInv, Quiet, at
<1>4. Working'
  BY <1>1, UntouchedWorks DEF BookInv
<1>5. BookWhole' /\ BookWaits' /\ BookInHash'
  BY <1>1 DEF BookInv, Booked, BookWhole, BookWaits, BookInHash, Touched, at, op, slot
<1>6. BookMarked'
  BY <1>1, <1>2 DEF BookInv, Booked, BookMarked, Touched, at, op, slot, Coming, Said
<1>7. BookOnFile'
  BY <1>1, <1>2, SavedField DEF BookOnFile, Touched, at, op, slot
<1> QED
  BY <1>3, <1>4, <1>5, <1>6, <1>7 DEF Booked

\* Names are received and marked.
LEMMA WatcherBook ==
    ASSUME BookInv, Subscribe \/ Receive \/ Mark
    PROVE  Quiet' /\ Working' /\ Booked'
<1>1. UNCHANGED <<hash, toml, server, book>> /\ boot # "new" /\ boot' = "up"
  BY DEF Subscribe, Receive, Mark, Subscribed, persistent, BookInv, Quiet, Types, WatcherTypes
<1>2. Quiet'
  BY <1>1 DEF Quiet
<1>3. Working'
  BY <1>1, UntouchedWorks DEF BookInv
<1>4. Coming \subseteq Coming'
  <2>1. CASE Receive
    <3>1. marks' = marks /\ watcher.pc = "idle"
      BY <2>1 DEF Receive
    <3> QED
      BY <2>1, <3>1, ReceiveIs DEF BookInv, Types, Coming
  <2>2. CASE Mark
    <3>1. marks' = marks \union {watcher.name} /\ channel' = channel
      BY <2>2 DEF Mark
    <3> QED
      BY <3>1 DEF Coming, Said
  <2>3. CASE Subscribe
    BY <2>3 DEF Subscribe, Coming, Said
  <2> QED
    BY <2>1, <2>2, <2>3
<1>5. channel # <<>> \/ watcher.pc # "idle" => channel' # <<>> \/ watcher'.pc # "idle"
  BY DEF Subscribe, Receive, Mark, BookInv, Types, WatcherTypes
<1>6. BookFrame
  BY <1>1, <1>4, <1>5 DEF BookFrame, Touched, at, op, slot
<1> QED
  BY <1>2, <1>3, <1>6, FrameKeepsBook DEF BookInv

\* A client edits the list or says so.
LEMMA ClientBook ==
    ASSUME BookInv, EditItems \/ SayItems
    PROVE  Quiet' /\ Working' /\ Booked'
<1>1. /\ UNCHANGED <<toml, boot, marks, watcher, server, book>>
      /\ \A s \in Slots, f \in Fields : hash'.records[s][f] = hash.records[s][f]
  BY EditItemsIs DEF BookInv, EditItems, SayItems, service, persistent
<1>2. boot # "up" => channel' = channel
  BY PublishIs, NameTypes DEF EditItems, SayItems, service, BookInv, Types
<1>3. Said \subseteq Said' /\ (channel # <<>> => channel' # <<>>)
  BY PublishIs, NameTypes DEF EditItems, SayItems, service, BookInv, Types, Said
<1>4. Quiet'
  BY <1>1, <1>2 DEF BookInv, Quiet, at
<1>5. Working'
  BY <1>1, UntouchedWorks DEF BookInv
<1>6. BookFrame
  BY <1>1, <1>3 DEF BookFrame, Touched, at, op, slot, Coming
<1> QED
  BY <1>4, <1>5, <1>6, FrameKeepsBook DEF BookInv

\* After a stop only that is on the books which the file has.
LEMMA StopBook == ASSUME BookInv, Crash \/ Reboot PROVE Quiet' /\ Working' /\ Booked'
<1>1. /\ boot' = "new" /\ channel' = <<>> /\ watcher'.pc = "idle"
      /\ server'[1].pc = "idle" /\ server'[1].op = "touch"
      /\ \A s \in Slots : book'[s] # Unknown =>
            book'[s] = book[s] /\ hash.records[s] = book[s] /\ toml.records[s] = book[s]
  BY StopIs DEF Crash, Reboot, BookInv
<1>2. toml' = toml /\ (hash' = hash \/ hash' = Empty)
  BY DEF Crash, Reboot, Stop
<1>3. Quiet' /\ Working'
  BY <1>1, IdleWorks DEF Quiet, at
<1>4. BookWhole'
  BY <1>1 DEF BookInv, Booked, BookWhole
<1>5. BookWaits'
  BY <1>1, <1>2, EmptyIs DEF BookWaits
<1>6. BookInHash' /\ BookMarked' /\ BookOnFile'
  BY <1>1 DEF BookInHash, BookMarked, BookOnFile
<1> QED
  BY <1>3, <1>4, <1>5, <1>6 DEF Booked

\* A call begins, when the service has subscribed.
LEMMA CallBook ==
    ASSUME BookInv, ~EarlyRequests, NEW h \in Handlers,
           \/ \E s \in Slots : DeleteCall(h, s) \/ TouchCall(h, s)
           \/ \E id \in Slots \union {NoSlot} : SaveCall(h, id)
    PROVE  Quiet' /\ Working' /\ Booked'
<1>1. /\ boot = "up"
      /\ UNCHANGED <<hash, toml, channel, boot, marks, watcher>>
  BY DEF DeleteCall, TouchCall, SaveCall, Accept, Subscribed, persistent, service
<1>2. Quiet'
  BY <1>1 DEF Quiet
<1>4. CASE UNCHANGED <<server, book>>
  <2>1. Working'
    BY <1>1, <1>4, UntouchedWorks DEF BookInv
  <2>2. BookFrame
    BY <1>1, <1>4 DEF BookFrame, Touched, at, op, slot, Coming, Said
  <2> QED
    BY <1>2, <2>1, <2>2, FrameKeepsBook DEF BookInv
<1>5. ASSUME at = "idle", server'[1].pc # "publish",
             \A s \in Slots : book'[s] # Unknown => book'[s] = book[s]
      PROVE  Booked'
  <2>1. BookFrame
    BY <1>1, <1>5 DEF BookFrame, Touched, Coming, Said
  <2> QED
    BY <2>1, FrameKeepsBook DEF BookInv
<1>6. CASE \E s \in Slots : DeleteCall(h, s)
  <2>1. PICK s \in Slots : DeleteCall(h, s)
    BY <1>6
  <2>2. /\ server[1].pc = "idle"
        /\ server'[1].pc = (IF hash.records[s]["uuid"] = 0 THEN "clear" ELSE "prune")
        /\ server'[1].op = "delete" /\ server'[1].slot = s /\ server'[1].todo = {}
        /\ server'[1].record = hash.records[s]
        /\ book' = [book EXCEPT ![s] = Unknown]
    BY <2>1, DeleteCallIs DEF BookInv, Types
  <2>3. book'[s] = Unknown /\ \A t \in Slots : book'[t] # Unknown => book'[t] = book[t]
    BY <2>2 DEF BookInv, Types, BookTypes
  <2>4. Booked'
    BY <1>5, <2>2, <2>3 DEF at
  <2>5. Course' /\ Saving' /\ Touching'
    BY <2>2 DEF Course, Saving, Touching, at, op
  <2>6. Clearing'
    BY <1>1, <2>2, <2>3 DEF Clearing, Now, at, op, slot, record
  <2> QED
    BY <1>2, <2>4, <2>5, <2>6 DEF Working
<1>7. CASE \E s \in Slots : TouchCall(h, s)
  <2>1. book' = book
    BY <1>7 DEF TouchCall
  <2>2. PICK s \in Slots : TouchCall(h, s)
    BY <1>7
  <2>3. /\ server[1].pc = "idle"
        /\ \/ UNCHANGED server
           \/ /\ server'[1].pc = "write" /\ server'[1].op = "touch" /\ server'[1].slot = s
              /\ server'[1].todo = {"used"}
    BY <2>2, TouchCallIs DEF BookInv, Types
  <2>4. CASE ~UNCHANGED server
    <3>1. Booked'
      BY <1>5, <2>1, <2>3, <2>4 DEF at
    <3>2. Working'
      BY <2>3, <2>4 DEF Working, Course, Saving, Clearing, Touching, at, op
    <3> QED
      BY <1>2, <3>1, <3>2
  <2> QED
    BY <1>4, <2>1, <2>4
<1>8. CASE \E id \in Slots \union {NoSlot} : SaveCall(h, id)
  <2>1. /\ server[1].pc = "idle"
        /\ \/ UNCHANGED <<server, book>>
           \/ /\ server'[1].pc = "write" /\ server'[1].op = "save"
              /\ server'[1].slot \in Slots
              /\ server'[1].todo = Fields
              /\ server'[1].record["latitude"] # 0 /\ server'[1].record["uuid"] # 0
              /\ hash.records[server'[1].slot]["uuid"] \in {0, server'[1].record["uuid"]}
              /\ book' = [book EXCEPT ![server'[1].slot] = Unknown]
    BY <1>8, SaveCallIs DEF BookInv, Types
  <2>2. CASE ~UNCHANGED <<server, book>>
    <3>1. server'[1].slot \in Slots /\ book' = [book EXCEPT ![server'[1].slot] = Unknown]
      BY <2>1, <2>2
    <3>2. book'[server'[1].slot] = Unknown
          /\ \A t \in Slots : book'[t] # Unknown => book'[t] = book[t]
      BY <3>1 DEF BookInv, Types, BookTypes
    <3>3. Booked'
      BY <1>5, <2>1, <2>2, <3>2 DEF at
    <3>4. Course' /\ Clearing' /\ Touching'
      BY <2>1, <2>2 DEF Course, Clearing, Touching, at, op
    <3>5. Saving'
      BY <1>1, <2>1, <2>2, <3>2 DEF Saving, Now, op, slot, record
    <3> QED
      BY <1>2, <3>3, <3>4, <3>5 DEF Working
  <2> QED
    BY <1>4, <2>1, <2>2
<1> QED
  BY <1>6, <1>7, <1>8

\* A field is written, of what is not on the books, or by a touch.
LEMMA WriteFieldBook ==
    ASSUME BookInv, NEW h \in Handlers, NEW f \in Fields, WriteField(h, f)
    PROVE  Quiet' /\ Working' /\ Booked'
<1>1. /\ SameCall /\ server[1].pc = "write" /\ f \in server[1].todo
      /\ server'[1].todo = server[1].todo \ {f}
      /\ server'[1].pc = (IF server[1].todo = {f} THEN "publish" ELSE "write")
      /\ \A t \in Slots, g \in Fields : hash'.records[t][g] =
            IF t = slot /\ g = f THEN record[f] ELSE hash.records[t][g]
  BY WriteFieldIs DEF BookInv, Types
<1>2. UNCHANGED <<toml, channel, boot, marks, watcher, book>>
  BY DEF WriteField, service
<1>3. boot = "up" /\ op \in {"save", "touch"}
  BY <1>1 DEF BookInv, Quiet, Working, Course, at
<1>4. slot \in Slots /\ "uuid" \in Fields
  BY HandlerIs DEF BookInv, Types, Fields
<1>5. Quiet'
  BY <1>2, <1>3 DEF Quiet
<1>6. op' = op /\ slot' = slot /\ record' = record
  BY <1>1 DEF SameCall, op, slot, record
<1>7. server[1].todo \subseteq Fields
  BY DEF BookInv, Types, ServerTypes, Handlers, Handler
<1>8. Course' /\ Clearing'
  BY <1>1, <1>3, <1>6 DEF Course, Clearing, at
<1>9. \A g \in Fields : Now(g)' = IF g = f THEN record[f] ELSE Now(g)
  BY <1>1, <1>4, <1>6 DEF Now
<1>10. CASE op = "save"
  <2>1. book[slot] = Unknown
    BY <1>10 DEF BookInv, Working, Saving
  <2>2. BookFrame
    BY <1>1, <1>2, <1>6, <1>10, <2>1 DEF BookFrame, Touched, Coming, Said
  <2>3. Saving'
    BY <1>1, <1>2, <1>4, <1>6, <1>9, <1>10 DEF BookInv, Working, Saving
  <2>4. Touching'
    BY <1>6, <1>10 DEF Touching
  <2> QED
    BY <1>5, <1>8, <2>2, <2>3, <2>4, FrameKeepsBook DEF BookInv, Working
<1>11. CASE op = "touch"
  <2>1. server[1].todo = {"used"} /\ f = "used"
    BY <1>1, <1>11 DEF BookInv, Working, Touching, at
  <2>2. server'[1].pc = "publish" /\ server'[1].todo = {}
    BY <1>1, <2>1
  <2>3. Touched(slot, f)'
    BY <1>6, <1>11, <2>1, <2>2 DEF Touched, at
  <2>4. \A s \in Slots, g \in Fields : ~Touched(s, g)
    BY <1>1 DEF Touched, at
  <2>5. \A s \in Slots, g \in Fields : Touched(s, g)' \/ hash'.records[s][g] = hash.records[s][g]
    BY <1>1, <1>6, <2>1, <2>3
  <2>6. BookWhole' /\ BookWaits'
    BY <1>2, <1>3 DEF BookInv, Booked, BookWhole, BookWaits
  <2>7. BookInHash'
    BY <1>2, <2>4, <2>5 DEF BookInv, Booked, BookInHash
  <2>8. BookMarked'
    BY <1>2, <2>4, <2>5 DEF BookInv, Booked, BookMarked, Coming, Said
  <2>9. BookOnFile'
    BY <1>2, <2>4, <2>5 DEF BookInv, Booked, BookOnFile
  <2>10. Saving'
    BY <1>6, <1>11 DEF Saving
  <2>11. Touching'
    BY <1>6, <1>9, <1>11, <2>1, <2>2 DEF Touching, at
  <2> QED
    BY <1>5, <1>8, <2>6, <2>7, <2>8, <2>9, <2>10, <2>11 DEF Working, Booked
<1> QED
  BY <1>3, <1>10, <1>11

\* A delete goes on: what it deletes is not on the books.
LEMMA DeleteBook ==
    ASSUME BookInv, NEW h \in Handlers, Prune(h) \/ PruneWrite(h) \/ PruneSay(h) \/ Clear(h)
    PROVE  Quiet' /\ Working' /\ Booked'
<1>1. /\ SameCall /\ server'[1].todo = server[1].todo
      /\ server[1].pc \in {"prune", "pruned", "pruneSay", "clear"}
      /\ server'[1].pc \in {"pruned", "pruneSay", "clear", "publish"}
      /\ server'[1].pc = "publish" <=> Clear(h)
  <2>1. CASE Prune(h)
    BY <2>1, PruneIs DEF BookInv, Types, Clear, Handlers
  <2>2. CASE PruneWrite(h)
    BY <2>2, PruneWriteIs DEF BookInv, Types, Clear, Handlers
  <2>3. CASE PruneSay(h)
    <3>1. To(h, "clear") /\ server[h].pc = "pruneSay"
      BY <2>3 DEF PruneSay
    <3> QED
      BY <3>1, ToIs DEF BookInv, Types, Clear, Handlers
  <2>4. CASE Clear(h)
    BY <2>4, ClearIs DEF BookInv, Types
  <2> QED
    BY <2>1, <2>2, <2>3, <2>4
<1>2. UNCHANGED <<toml, boot, marks, watcher, book>>
  BY DEF Prune, PruneWrite, PruneSay, Clear, persistent, service
<1>3. boot = "up" /\ op = "delete" /\ book[slot] = Unknown
      /\ \A f \in Fields : Now(f) = record[f]
  BY <1>1 DEF BookInv, Quiet, Working, Course, Clearing, at
<1>4. slot \in Slots /\ \A f \in Fields : record[f] \in Nat
  BY HandlerIs DEF BookInv, Types
<1>5. Said \subseteq Said' /\ (channel # <<>> => channel' # <<>>)
  <2>1. CASE PruneSay(h)
    BY <2>1, <1>3, PublishIs, NameTypes DEF PruneSay, BookInv, Types
  <2>2. CASE ~PruneSay(h)
    BY <2>2 DEF Prune, PruneWrite, Clear, service, Said
  <2> QED
    BY <2>1, <2>2
<1>6. op' = op /\ slot' = slot /\ record' = record
  BY <1>1 DEF SameCall, op, slot, record
<1>7. \A t \in Slots, f \in Fields : hash'.records[t][f] =
         IF Clear(h) /\ t = slot /\ record[f] # 0 THEN 0 ELSE hash.records[t][f]
  <2>1. CASE Clear(h)
    BY <2>1, ClearIs DEF BookInv, Types
  <2>2. CASE ~Clear(h)
    <3>1. hash'.records = hash.records
      BY <2>2, PruneWriteIs DEF Prune, PruneSay, persistent, BookInv, Types
    <3> QED
      BY <2>2, <3>1
  <2> QED
    BY <2>1, <2>2
<1>8. Quiet'
  BY <1>2, <1>3 DEF Quiet
<1>9. Course' /\ Saving' /\ Touching'
  <2>1. server[1].todo = {}
    BY <1>3 DEF BookInv, Working, Course
  <2> QED
    BY <1>1, <1>3, <1>6, <2>1 DEF Course, Saving, Touching, at
<1>10. Clearing'
  BY <1>1, <1>2, <1>3, <1>4, <1>6, <1>7 DEF Clearing, Now, at
<1>11. BookFrame
  BY <1>2, <1>3, <1>5, <1>6, <1>7 DEF BookFrame, Touched, Coming
<1> QED
  BY <1>8, <1>9, <1>10, <1>11, FrameKeepsBook DEF BookInv, Working

\* A call fails: what has become of the record is not known.
LEMMA FailBook ==
    ASSUME BookInv, NEW h \in Handlers, Fail(h)
    PROVE  Quiet' /\ Working' /\ Booked'
<1>1. /\ server'[1].pc = "idle" /\ server'[1].op = "touch"
      /\ book' = [book EXCEPT ![slot] = Unknown] /\ server[1].pc # "idle"
  BY FailIs DEF BookInv, Types
<1>2. UNCHANGED <<hash, toml, channel, boot, marks, watcher>>
  BY DEF Fail, persistent, service
<1>3. slot \in Slots
  BY HandlerIs DEF BookInv, Types
<1>4. book'[slot] = Unknown /\ \A s \in Slots : book'[s] # Unknown => book'[s] = book[s]
  BY <1>1, <1>3 DEF BookInv, Types, BookTypes
<1>5. Quiet' /\ Working'
  BY <1>1, <1>2, IdleWorks DEF BookInv, Quiet, at
<1>6. BookFrame
  BY <1>2, <1>4 DEF BookFrame, Touched, Coming, Said
<1> QED
  BY <1>5, <1>6, FrameKeepsBook DEF BookInv

\* A call is answered: the record is whole, its name is published, it is on the
\* books.
LEMMA PublishRecordBook ==
    ASSUME BookInv, NEW h \in Handlers, PublishRecord(h)
    PROVE  Quiet' /\ Working' /\ Booked'
<1> DEFINE name == IF op = "touch" THEN FieldName(slot, "used") ELSE Prefix(slot)
<1>1. /\ server[1].pc = "publish"
      /\ server'[1].pc = "idle" /\ server'[1].op = "touch"
      /\ Publish(name)
      /\ \A s \in Slots : s # slot => book'[s] = book[s]
      /\ op = "save" => book'[slot] = record
      /\ op = "delete" => book'[slot] = NoRecord
      /\ op = "touch" => book'[slot] = IF book[slot] = Unknown THEN Unknown
                                       ELSE [book[slot] EXCEPT !["used"] = record["used"]]
  BY PublishRecordIs DEF BookInv, Types
<1>2. UNCHANGED <<hash, toml, boot, marks, watcher>>
  BY DEF PublishRecord, persistent
<1>3. boot = "up"
  BY <1>1 DEF BookInv, Quiet, at
<1>4. slot \in Slots /\ op \in {"save", "delete", "touch"} /\ record \in Record
      /\ "used" \in Fields /\ "uuid" \in Fields /\ "latitude" \in Fields
  BY HandlerIs DEF BookInv, Types, Fields
<1>5. name \in Names
  BY <1>4, NameTypes
<1>6. channel' # <<>> /\ Said' = Said \union {name}
  BY <1>1, <1>3, <1>5, PublishIs DEF BookInv, Types
<1>7. Quiet' /\ Working'
  BY <1>1, <1>2, <1>3, IdleWorks DEF Quiet
<1>8. Coming' = Coming \union {name}
  BY <1>2, <1>6 DEF Coming
<1> HIDE DEF name
<1>9. \A s \in Slots, f \in Fields : Touched(s, f) => s = slot /\ f = "used" /\ op = "touch"
  BY DEF Touched
<1>10. book'[slot] # Unknown /\ op = "touch" =>
         /\ book[slot] # Unknown /\ book[slot] \in Record
         /\ book'[slot] = [book[slot] EXCEPT !["used"] = record["used"]]
  BY <1>1, <1>4 DEF BookInv, Types, BookTypes
<1>11. book'[slot] # Unknown =>
         /\ \A f \in Fields : hash.records[slot][f] = book'[slot][f]
         /\ book'[slot]["latitude"] # 0 => book'[slot]["uuid"] # 0
         /\ \A f \in Fields : hash.records[slot][f] = 0 \/ Prefix(slot) \in Coming'
                              \/ FieldName(slot, f) \in Coming'
  <2> SUFFICES ASSUME book'[slot] # Unknown
               PROVE  /\ \A f \in Fields : hash.records[slot][f] = book'[slot][f]
                      /\ book'[slot]["latitude"] # 0 => book'[slot]["uuid"] # 0
                      /\ \A f \in Fields : hash.records[slot][f] = 0 \/ Prefix(slot) \in Coming'
                                           \/ FieldName(slot, f) \in Coming'
    OBVIOUS
  <2>1. CASE op = "save"
    <3>1. server[1].todo = {}
      BY <1>1 DEF BookInv, Working, Course, at
    <3>2. /\ \A f \in Fields : hash.records[slot][f] = record[f]
          /\ record["uuid"] # 0
      BY <2>1, <3>1 DEF BookInv, Working, Saving, Now
    <3> QED
      BY <1>1, <1>8, <2>1, <3>2 DEF name
  <2>2. CASE op = "delete"
    <3>1. \A f \in Fields : hash.records[slot][f] = 0
      BY <1>1, <2>2 DEF BookInv, Working, Clearing, Now, at
    <3>2. \A f \in Fields : book'[slot][f] = 0
      BY <1>1, <2>2, Values
    <3> QED
      BY <1>4, <3>1, <3>2
  <2>3. CASE op = "touch"
    <3>1. /\ book[slot] # Unknown
          /\ book'[slot]["used"] = record["used"]
          /\ \A f \in Fields : f # "used" => book'[slot][f] = book[slot][f]
      BY <1>4, <1>10, <2>3 DEF Record
    <3>2. hash.records[slot]["used"] = record["used"]
      BY <1>1, <2>3 DEF BookInv, Working, Touching, Now, at
    <3>3. \A f \in Fields : f # "used" => hash.records[slot][f] = book[slot][f]
      BY <1>3, <1>4, <1>9, <3>1 DEF BookInv, Booked, BookInHash
    <3>4. book'[slot]["latitude"] # 0 => book'[slot]["uuid"] # 0
      BY <1>4, <3>1 DEF BookInv, Booked, BookWhole
    <3>5. \A f \in Fields : f # "used" => hash.records[slot][f] = 0 \/ Prefix(slot) \in Coming
                                          \/ FieldName(slot, f) \in Coming
      BY <1>3, <1>4, <1>9, <3>1 DEF BookInv, Booked, BookMarked
    <3>6. FieldName(slot, "used") \in Coming'
      BY <1>8, <2>3 DEF name
    <3> QED
      BY <1>8, <3>1, <3>2, <3>3, <3>4, <3>5, <3>6
  <2> QED
    BY <1>4, <2>1, <2>2, <2>3
<1>12. \A s \in Slots : s # slot /\ book'[s] # Unknown =>
         /\ book[s] # Unknown /\ book'[s] = book[s]
         /\ \A f \in Fields : ~Touched(s, f)
  BY <1>1, <1>9
<1>13. BookWhole' /\ BookWaits'
  BY <1>2, <1>3, <1>11, <1>12 DEF BookInv, Booked, BookWhole, BookWaits
<1>14. BookInHash'
  BY <1>2, <1>3, <1>11, <1>12 DEF BookInv, Booked, BookInHash
<1>15. BookMarked'
  BY <1>2, <1>3, <1>8, <1>11, <1>12 DEF BookInv, Booked, BookMarked
<1>16. BookOnFile'
  BY <1>6 DEF BookOnFile
<1> QED
  BY <1>7, <1>13, <1>14, <1>15, <1>16 DEF Booked

LEMMA NextBook == ~EarlyRequests /\ BookInv /\ [Next]_vars => BookInv'
<1> SUFFICES ASSUME ~EarlyRequests, BookInv, [Next]_vars PROVE BookInv'
  OBVIOUS
<1>1. Types'
  BY NextType DEF BookInv
<1>2. Quiet' /\ Working' /\ Booked'
  <2>1. CASE Service
    BY <2>1, LoadBook, SaveBook, WatcherBook DEF Service
  <2>2. CASE Server
    <3>1. PICK h \in Handlers :
              \/ \E s \in Slots : DeleteCall(h, s) \/ TouchCall(h, s)
              \/ \E id \in Slots \union {NoSlot} : SaveCall(h, id)
              \/ \E f \in Fields : WriteField(h, f)
              \/ Prune(h) \/ PruneWrite(h) \/ PruneSay(h) \/ Clear(h) \/ PublishRecord(h)
              \/ Fail(h)
      BY <2>2 DEF Server
    <3>2. CASE \/ \E s \in Slots : DeleteCall(h, s) \/ TouchCall(h, s)
               \/ \E id \in Slots \union {NoSlot} : SaveCall(h, id)
      BY <3>2, CallBook
    <3>3. CASE \E f \in Fields : WriteField(h, f)
      BY <3>3, WriteFieldBook
    <3>4. CASE Prune(h) \/ PruneWrite(h) \/ PruneSay(h) \/ Clear(h)
      BY <3>4, DeleteBook
    <3>5. CASE PublishRecord(h) \/ Fail(h)
      BY <3>5, PublishRecordBook, FailBook
    <3> QED
      BY <3>1, <3>2, <3>3, <3>4, <3>5
  <2>3. CASE EditItems \/ SayItems
    BY <2>3, ClientBook
  <2>4. CASE Crash \/ Reboot
    BY <2>4, StopBook
  <2>5. CASE UNCHANGED vars
    <3>1. UNCHANGED <<hash, toml, channel, boot, marks, watcher, server, book>>
      BY <2>5 DEF vars, persistent, service
    <3>2. Quiet' /\ Working'
      BY <3>1, UntouchedWorks DEF BookInv, Quiet, at
    <3>3. BookFrame
      BY <3>1 DEF BookFrame, Touched, at, op, slot, Coming, Said
    <3> QED
      BY <3>2, <3>3, FrameKeepsBook DEF BookInv
  <2> QED
    BY <2>1, <2>2, <2>3, <2>4, <2>5 DEF Next, Wait
<1> QED
  BY <1>1, <1>2 DEF BookInv

LEMMA InitBook == Init => BookInv
<1> SUFFICES ASSUME Init PROVE BookInv
  OBVIOUS
<1>1. /\ boot = "new" /\ channel = <<>> /\ watcher.pc = "idle" /\ server[1] = Idle
      /\ hash = Empty /\ toml = InitToml
      /\ \A s \in Slots : book[s] = IF s \in Legacy THEN Unknown ELSE NoRecord
  BY DEF Init, WatcherIdle, Handlers
<1>2. at = "idle" /\ op = "touch"
  BY <1>1, IdleIs DEF at, op
<1>3. Quiet /\ Working
  BY <1>1, <1>2 DEF Quiet, Working, Course, Saving, Clearing, Touching
<1>4. \A s \in Slots \ Legacy, f \in Fields : toml.records[s][f] = 0
  BY <1>1, EmptyIs, Values DEF InitToml, Store
<1>5. BookWhole
  BY <1>1, Values DEF BookWhole, Fields
<1>6. BookWaits
  BY <1>1, <1>4, EmptyIs, Values DEF BookWaits
<1>7. BookInHash /\ BookMarked /\ BookOnFile
  BY <1>1 DEF BookInHash, BookMarked, BookOnFile
<1> QED
  BY <1>3, <1>5, <1>6, <1>7, InitTypes DEF BookInv, Booked

\* While calls do not arrive early, the books agree with what waits on file, is in
\* the hash, is marked and is being saved.
THEOREM BooksInvariance ==
    ASSUME ~EarlyRequests
    PROVE  Spec => []BookInv
<1>1. BookInv /\ [Next]_vars => BookInv'
  BY NextBook
<1> QED
  BY <1>1, InitBook, PTL DEF Spec

\* What callers were told is in Redis and on file when the service is at rest,
\* whatever the watcher, failing commands, crashes and reboots have come between.
THEOREM CallersAreToldTheTruth ==
    ASSUME ~EarlyRequests
    PROVE  Spec => []BookKept
<1>1. BookInv => BookKept
  <2> SUFFICES ASSUME BookInv, Quiescent, NEW s \in Slots, book[s] # Unknown
               PROVE  hash.records[s] = book[s] /\ toml.records[s] = book[s]
    BY DEF BookKept
  <2>1. boot = "up" /\ channel = <<>> /\ watcher.pc = "idle" /\ at = "idle"
    BY DEF Quiescent, Subscribed, Handlers, at
  <2>2. \A f \in Fields : ~Touched(s, f)
    BY <2>1 DEF Touched
  <2>3. \A f \in Fields : hash.records[s][f] = book[s][f]
    BY <2>1, <2>2 DEF BookInv, Booked, BookInHash
  <2>4. \A f \in Fields : toml.records[s][f] = hash.records[s][f]
    BY <2>1, <2>2 DEF BookInv, Booked, BookOnFile
  <2>5. book[s] \in Record /\ hash.records[s] \in Record /\ toml.records[s] \in Record
    BY StoreValues DEF BookInv, Types, StoreTypes, BookTypes
  <2> QED
    BY <2>3, <2>4, <2>5 DEF Record
<1>2. Spec => []BookInv
  BY BooksInvariance
<1> QED
  BY <1>1, <1>2, PTL

--------------------------------------------------------------------------------
(* The shortcut list.                                                            *)

LEMMA ShownIs ==
    \A u : u \in Shown <=> u # 0 /\ \E s \in Slots : /\ hash.records[s]["latitude"] # 0
                                                     /\ hash.records[s]["uuid"] = u
BY DEF Shown

\* What is shown after a step that keeps the records that matter.
LEMMA StillShown ==
    ASSUME NEW u \in Shown,
           \A s \in Slots : hash.records[s]["latitude"] # 0 /\ hash.records[s]["uuid"] = u =>
              hash'.records[s]["latitude"] # 0 /\ hash'.records[s]["uuid"] = u
    PROVE  u \in Shown'
BY DEF Shown

\* A list that is no longer than it was, of records that are as they were.
LEMMA ListKept ==
    ASSUME ItemsShown, hash'.items = Absent \/ (hash.items # Absent /\ hash'.items \subseteq hash.items),
           \A u \in Shown : u \in Shown'
    PROVE  ItemsShown'
BY DEF ItemsShown

\* A call begins to delete: it has not looked at the list yet, or need not.
LEMMA CallItems ==
    ASSUME BookInv, ~EarlyRequests, NEW h \in Handlers, ItemsShown,
           \/ \E s \in Slots : DeleteCall(h, s) \/ TouchCall(h, s)
           \/ \E id \in Slots \union {NoSlot} : SaveCall(h, id)
    PROVE  FirstRun' /\ ItemsShown' /\ Pruning'
<1>1. /\ boot = "up" /\ UNCHANGED <<hash, toml, boot>> /\ at = "idle"
  BY DEF DeleteCall, TouchCall, SaveCall, Accept, Subscribed, persistent, service, Handlers, at
<1>2. FirstRun' /\ ItemsShown'
  BY <1>1 DEF FirstRun, ItemsShown, Shown
<1>3. op = "touch"
  BY <1>1 DEF BookInv, Working, Course
<1>4. Pruning'
  <2>1. CASE \E s \in Slots : DeleteCall(h, s)
    <3>1. PICK s \in Slots : DeleteCall(h, s)
      BY <2>1
    <3>2. /\ server'[1].pc = (IF hash.records[s]["uuid"] = 0 THEN "clear" ELSE "prune")
          /\ server'[1].record = hash.records[s]
      BY <3>1, DeleteCallIs DEF BookInv, Types
    <3>3. hash.items = Absent \/ 0 \notin hash.items
      BY ShownIs DEF ItemsShown
    <3> QED
      BY <1>1, <3>2, <3>3 DEF Pruning, at, record
  <2>2. CASE \E s \in Slots : TouchCall(h, s)
    <3>1. PICK s \in Slots : TouchCall(h, s)
      BY <2>2
    <3>2. server' = server \/ server'[1].op = "touch"
      BY <3>1, TouchCallIs DEF BookInv, Types
    <3> QED
      BY <1>3, <3>2 DEF Pruning, op
  <2>3. CASE \E id \in Slots \union {NoSlot} : SaveCall(h, id)
    <3>1. server' = server \/ server'[1].op = "save"
      BY <2>3, SaveCallIs DEF BookInv, Types
    <3> QED
      BY <1>3, <3>1 DEF Pruning, op
  <2> QED
    BY <2>1, <2>2, <2>3
<1> QED
  BY <1>2, <1>4

\* A save keeps the UUID of a record that is shown, and shows it on.
LEMMA WriteFieldItems ==
    ASSUME BookInv, NEW h \in Handlers, NEW f \in Fields, WriteField(h, f), ItemsShown
    PROVE  FirstRun' /\ ItemsShown' /\ Pruning'
<1>1. /\ SameCall /\ hash'.items = hash.items
      /\ server[1].pc = "write" /\ f \in server[1].todo
      /\ \A t \in Slots, g \in Fields : hash'.records[t][g] =
            IF t = slot /\ g = f THEN record[f] ELSE hash.records[t][g]
  BY WriteFieldIs DEF BookInv, Types
<1>2. UNCHANGED boot
  BY DEF WriteField, service
<1>3. boot = "up" /\ op \in {"save", "touch"}
  BY <1>1 DEF BookInv, Quiet, Working, Course, at
<1>4. "uuid" \in Fields /\ "latitude" \in Fields
  BY DEF Fields
<1>5. ASSUME NEW u \in Shown
      PROVE  u \in Shown'
  <2> SUFFICES ASSUME NEW s \in Slots,
                      hash.records[s]["latitude"] # 0, hash.records[s]["uuid"] = u
               PROVE  hash'.records[s]["latitude"] # 0 /\ hash'.records[s]["uuid"] = u
    BY StillShown
  <2>1. CASE s # slot \/ f \notin {"uuid", "latitude"}
    BY <1>1, <1>4, <2>1
  <2>2. CASE s = slot /\ f \in {"uuid", "latitude"}
    <3>1. op = "save"
      BY <1>1, <1>3, <2>2 DEF BookInv, Working, Touching, at
    <3>2. u # 0
      BY ShownIs
    <3>3. record["latitude"] # 0 /\ record["uuid"] = u
      BY <2>2, <3>1, <3>2 DEF BookInv, Working, Saving, Now
    <3> QED
      BY <1>1, <1>4, <2>2, <3>3
  <2> QED
    BY <2>1, <2>2
<1>6. FirstRun'
  BY <1>2, <1>3 DEF FirstRun
<1>7. ItemsShown'
  BY <1>1, <1>5 DEF ItemsShown
<1>8. Pruning'
  BY <1>1, <1>3 DEF Pruning, SameCall, op
<1> QED
  BY <1>6, <1>7, <1>8

\* A delete takes its record out of the list first.
LEMMA DeleteItems ==
    ASSUME BookInv, NEW h \in Handlers, Prune(h) \/ PruneWrite(h) \/ PruneSay(h) \/ Clear(h),
           ItemsShown, Pruning
    PROVE  FirstRun' /\ ItemsShown' /\ Pruning'
<1>1. boot = "up" /\ UNCHANGED boot /\ op = "delete"
  BY DEF Prune, PruneWrite, PruneSay, Clear, service, BookInv, Quiet, Working, Course, at, Handlers
<1>2. FirstRun'
  BY <1>1 DEF FirstRun
<1>3. CASE Prune(h)
  <2>1. /\ SameCall
        /\ \/ /\ server'[1].pc = "pruned"
              /\ server'[1].items = hash.items \ {record["uuid"]}
           \/ /\ server'[1].pc = "clear"
              /\ hash.items = Absent \/ record["uuid"] \notin hash.items
    BY <1>3, PruneIs DEF BookInv, Types
  <2>2. hash' = hash
    BY <1>3 DEF Prune, persistent
  <2>3. ItemsShown'
    BY <2>2 DEF ItemsShown, Shown
  <2>4. Pruning'
    BY <2>1, <2>2 DEF Pruning, SameCall, at, record
  <2> QED
    BY <1>2, <2>3, <2>4
<1>4. CASE PruneWrite(h)
  <2>1. /\ SameCall /\ server[1].pc = "pruned" /\ server'[1].pc = "pruneSay"
        /\ hash'.records = hash.records /\ hash'.items = server[1].items
    BY <1>4, PruneWriteIs DEF BookInv, Types
  <2>2. server[1].items \subseteq hash.items \ {record["uuid"]}
    BY <1>1, <2>1 DEF Pruning, at
  <2>3. hash.items # Absent
    BY <1>1 DEF BookInv, Types, Listed
  <2>4. Shown' = Shown
    BY <2>1 DEF Shown
  <2>5. ItemsShown'
    BY <2>1, <2>2, <2>3, <2>4 DEF ItemsShown
  <2>6. Pruning'
    BY <2>1, <2>2 DEF Pruning, SameCall, at, record
  <2> QED
    BY <1>2, <2>5, <2>6
<1>5. CASE PruneSay(h)
  <2>1. hash' = hash /\ server[1].pc = "pruneSay" /\ To(h, "clear")
    BY <1>5 DEF PruneSay, persistent, Handlers
  <2>2. SameCall /\ server'[1].pc = "clear"
    BY <2>1, ToIs DEF BookInv, Types
  <2>3. ItemsShown'
    BY <2>1 DEF ItemsShown, Shown
  <2>4. Pruning'
    BY <1>1, <2>1, <2>2 DEF Pruning, SameCall, at, record, op
  <2> QED
    BY <1>2, <2>3, <2>4
<1>6. CASE Clear(h)
  <2>1. /\ SameCall /\ server[1].pc = "clear" /\ server'[1].pc = "publish"
        /\ hash'.items = hash.items
        /\ \A t \in Slots, f \in Fields : hash'.records[t][f] =
              IF t = slot /\ record[f] # 0 THEN 0 ELSE hash.records[t][f]
    BY <1>6, ClearIs DEF BookInv, Types
  <2>2. hash.items = Absent \/ record["uuid"] \notin hash.items
    BY <1>1, <2>1 DEF Pruning, at
  <2>3. record["uuid"] = hash.records[slot]["uuid"] /\ "uuid" \in Fields /\ "latitude" \in Fields
    BY <1>1, <2>1 DEF BookInv, Working, Clearing, Now, at, Fields
  <2>4. ASSUME hash.items # Absent, NEW u \in hash.items
        PROVE  u \in Shown'
    <3>1. u \in Shown
      BY <2>4 DEF ItemsShown
    <3>2. \A s \in Slots : hash.records[s]["uuid"] = u => s # slot
      BY <2>2, <2>3, <2>4
    <3> QED
      BY <2>1, <2>3, <3>1, <3>2, StillShown
  <2>5. ItemsShown'
    BY <2>1, <2>4 DEF ItemsShown
  <2>6. Pruning'
    BY <2>1 DEF Pruning, at
  <2> QED
    BY <1>2, <2>5, <2>6
<1> QED
  BY <1>3, <1>4, <1>5, <1>6

LEMMA NextItems ==
    ASSUME ~EarlyRequests, ~EditsAnytime, BookInv, ItemsInv, [Next]_vars
    PROVE  ItemsInv'
<1> SUFFICES ASSUME crashes' = 0 PROVE FirstRun' /\ ItemsShown' /\ Pruning'
  BY DEF ItemsInv
<1>1. CASE crashes = 0
  <2> USE <1>1
  <2>1. FirstRun /\ ItemsShown /\ Pruning
    BY DEF ItemsInv
  <2>2. CASE Load
    <3>1. hash'.items = {} /\ boot' # "new"
      BY <2>1, <2>2, LoadIs DEF BookInv, Types, FirstRun
    <3>2. op' = "touch"
      BY <2>2 DEF Load, BookInv, Quiet, Working, Course, op
    <3> QED
      BY <3>1, <3>2 DEF FirstRun, ItemsShown, Pruning
  <2>3. CASE Rewrite \/ Subscribe \/ Receive \/ Mark \/ Save
    <3>1. hash' = hash /\ server' = server /\ boot' # "new"
      BY <2>3 DEF Rewrite, Subscribe, Receive, Mark, Save, persistent, Subscribed, BookInv, Quiet
    <3> QED
      BY <2>1, <3>1 DEF FirstRun, ItemsShown, Shown, Pruning, at, op, record
  <2>4. CASE Server
    <3>1. PICK h \in Handlers :
              \/ \E s \in Slots : DeleteCall(h, s) \/ TouchCall(h, s)
              \/ \E id \in Slots \union {NoSlot} : SaveCall(h, id)
              \/ \E f \in Fields : WriteField(h, f)
              \/ Prune(h) \/ PruneWrite(h) \/ PruneSay(h) \/ Clear(h) \/ PublishRecord(h)
              \/ Fail(h)
      BY <2>4 DEF Server
    <3>2. CASE \/ \E s \in Slots : DeleteCall(h, s) \/ TouchCall(h, s)
               \/ \E id \in Slots \union {NoSlot} : SaveCall(h, id)
      BY <2>1, <3>2, CallItems
    <3>3. CASE \E f \in Fields : WriteField(h, f)
      BY <2>1, <3>3, WriteFieldItems
    <3>4. CASE Prune(h) \/ PruneWrite(h) \/ PruneSay(h) \/ Clear(h)
      BY <2>1, <3>4, DeleteItems
    <3>5. CASE PublishRecord(h) \/ Fail(h)
      <4>1. hash' = hash /\ toml' = toml /\ boot' = boot
        BY <3>5 DEF PublishRecord, Fail, persistent, service
      <4>2. server'[1].op = "touch"
        BY <3>5, PublishRecordIs, FailIs DEF BookInv, Types
      <4> QED
        BY <2>1, <4>1, <4>2 DEF FirstRun, ItemsShown, Shown, Pruning, op
    <3> QED
      BY <3>1, <3>2, <3>3, <3>4, <3>5
  <2>5. CASE EditItems
    <3>1. /\ boot = "up" /\ hash'.records = hash.records
          /\ \E u \in Shown : hash'.items \subseteq hash.items \union {u}
          /\ op # "delete"
      BY <2>5, EditItemsIs DEF BookInv
    <3>2. server' = server /\ boot' = boot
      BY <2>5 DEF EditItems, service
    <3>3. hash.items # Absent /\ Shown' = Shown
      BY <3>1 DEF BookInv, Types, Listed, Shown
    <3> QED
      BY <2>1, <3>1, <3>2, <3>3 DEF FirstRun, ItemsShown, Pruning, op
  <2>6. CASE SayItems \/ UNCHANGED vars
    <3>1. UNCHANGED <<hash, toml, boot, server>>
      BY <2>6 DEF SayItems, vars, persistent, service
    <3> QED
      BY <2>1, <3>1 DEF FirstRun, ItemsShown, Shown, Pruning, at, op, record
  <2>7. CASE Crash \/ Reboot
    BY <2>7, StopIs DEF Crash, Reboot, BookInv
  <2> QED
    BY <2>2, <2>3, <2>4, <2>5, <2>6, <2>7 DEF Next, Service, Wait
<1>2. CASE crashes # 0
  <2>1. crashes' # 0
    <3>1. CASE Crash \/ Reboot
      BY <3>1, StopIs DEF Crash, Reboot, BookInv
    <3>2. CASE Service \/ Server \/ EditItems \/ SayItems \/ Wait \/ UNCHANGED vars
      <4>1. crashes' = crashes
        BY <3>2 DEF Service, Load, Rewrite, Subscribe, Receive, Mark, Save, Server, DeleteCall,
           TouchCall, SaveCall, Accept, WriteField, Prune, PruneWrite, PruneSay, Clear,
           PublishRecord, Fail, EditItems, SayItems, Wait, vars, counters
      <4> QED
        BY <1>2, <4>1
    <3> QED
      BY <3>1, <3>2 DEF Next
  <2> QED
    BY <2>1
<1> QED
  BY <1>1, <1>2

\* Until the first crash, and while clients leave the list alone during a delete, a
\* shortcut is to a record at every moment, not only when the service is at rest.
THEOREM ItemsInvariance ==
    ASSUME ~EarlyRequests, ~EditsAnytime
    PROVE  Spec => []ItemsInv
<1>1. Init => ItemsInv
  <2> SUFFICES ASSUME Init PROVE ItemsInv
    OBVIOUS
  <2>1. hash.items = Absent /\ toml.items = Absent /\ server[1] = Idle
    BY EmptyIs DEF Init, InitToml, Store, Handlers
  <2>2. op = "touch"
    BY <2>1, IdleIs DEF op
  <2> QED
    BY <2>1, <2>2 DEF ItemsInv, FirstRun, ItemsShown, Pruning
<1>2. BookInv /\ ItemsInv /\ [Next]_vars => ItemsInv'
  BY NextItems
<1>3. Spec => []BookInv
  BY BooksInvariance
<1> QED
  BY <1>1, <1>2, <1>3, PTL DEF Spec

\* So no shortcut refers to a record that a call has deleted.
THEOREM DeletedIsNotSelectable ==
    ASSUME ~EarlyRequests, ~EditsAnytime
    PROVE  Spec => []NoDanglingShortcut
<1>1. ItemsInv => NoDanglingShortcut
  BY DEF ItemsInv, ItemsShown, NoDanglingShortcut
<1>2. Spec => []ItemsInv
  BY ItemsInvariance
<1> QED
  BY <1>1, <1>2, PTL

================================================================================
