----------------------------- MODULE ChannelProofs -----------------------------
(* Proofs about ChannelDefaults, for any settings, versions and defaults, any   *)
(* number of edits, commands, reports, faults and crashes: no notification is   *)
(* left to be mistaken, only choices get on file, and the default in use is the *)
(* one of the boards' channels.                                                 *)
EXTENDS ChannelDefaults, PersistenceProofs

allVars == <<vars, channelVars>>

--------------------------------------------------------------------------------
(* The invariants.                                                              *)

ChannelTypes ==
    /\ dbc \in Versions /\ ready \in BOOLEAN /\ readies \in Seq(Nat) /\ reports \in 0..MaxReports
    /\ generated \in [ChannelKeys -> Entry] /\ pending \in [ChannelKeys -> Entry]
    /\ refresh \in [pc : {"idle", "select", "decide", "write"},
                    selected : [ChannelKeys -> Entry], previous : [ChannelKeys -> Entry],
                    todo : SUBSET ChannelKeys]
    /\ origin \in [ChannelKeys -> {"own", "client", "overwritten"}]

\* No name waits for a watcher that does not listen; it repairs no such setting; and
\* it is its own goroutine that refreshes the defaults.
Listening == /\ ~Subscribed => channel = <<>>
             /\ watcher.pc \in Repairs => watcher.key \notin ChannelKeys
             /\ refresh.pc # "idle" => watcher.pc = "idle"

\* Readiness is received after the names that were published before it.
InOrder == /\ \A i \in DOMAIN readies : readies[i] <= Len(channel)
           /\ \A i, j \in DOMAIN readies : i <= j => readies[i] <= readies[j]

StepsInv == TypeInv /\ ChannelTypes /\ Phases /\ Listening /\ InOrder

ToWrite(k) == refresh.pc = "write" /\ k \in refresh.todo

\* A notification that is expected is in the channel, or the write that it will come
\* of is due.
FlagAnswered(k) == pending[k] # Absent => InChannel(k) \/ ToWrite(k)

\* What is about to be written is a default that no user has replaced, and the
\* service knows it as its own already.
WritesDefault(k) == ToWrite(k) => /\ k \notin userSet /\ refresh.selected[k] # Absent
                                  /\ generated[k] = refresh.selected[k]
                                  /\ pending[k] = refresh.selected[k]

\* What is on file is a user's choice, and is in use unless it was edited.
FileChosen(k) == boot # "down" /\ toml[k] # Absent =>
                     k \in userSet /\ hash[k] \in {toml[k]} \union EditValues[k]

\* A patient dashboard reports once the service is done with its last report.
OneReport == /\ readies # <<>> => refresh.pc = "idle" /\ pending = None /\ Len(readies) = 1
             /\ refresh.pc \in {"select", "decide"} => pending = None
             /\ refresh.pc \in {"decide", "write"} => refresh.selected = Selected

\* Until a client writes it, the name of a setting is in the channel only for a
\* default the service wrote, which it will recognise, so that the watcher never
\* comes to such a setting.
Once(k) == \A i, j \in 1..Len(channel) : channel[i] = k /\ channel[j] = k => i = j
OwnName(k) == /\ ~AtKey(k) /\ k \notin unpublished
              /\ InChannel(k) => /\ Once(k) /\ ~ToWrite(k)
                                 /\ pending[k] # Absent /\ hash[k] = pending[k]
              /\ boot # "down" /\ k \in userSet => hash[k] = toml[k]

\* A field whose last writer is a client holds what clients write.
AsWritten(k) == boot # "down" /\ origin[k] = "client" => hash[k] \in EditValues[k]

\* The watcher will make a user's choice of k.
EditComes(k) == Noticed(k, {"check", "mark"})

\* The service knows the value of a setting no user has chosen as its own, ...
Known(k) == boot # "down" /\ k \notin userSet =>
    /\ generated[k] # Absent
    /\ pending[k] # Absent => pending[k] = generated[k]
    /\ ToWrite(k) => refresh.previous[k] # Absent
    /\ \/ EditComes(k)
       \/ hash[k] = IF ToWrite(k) THEN refresh.previous[k] ELSE generated[k]

\* ... and as the default of the boards' channels, once it has heard of them.
Current(k) == boot # "down" /\ k \notin userSet /\ ready /\ Selected[k] # Absent /\ faults = 0 =>
    \/ generated[k] = Selected[k]
    \/ readies # <<>> \/ refresh.pc \in {"select", "decide"}
    \/ EditComes(k) /\ pending[k] = Absent

\* The schema gives a setting with channel defaults a default of its own.
ChannelsHaveDefaults == \A k \in ChannelKeys : Default[k] # Absent

\* What holds of one of the settings.
Kept(k) == /\ FlagAnswered(k) /\ WritesDefault(k) /\ FileChosen(k) /\ AsWritten(k)
           /\ Patient /\ origin[k] = "own" => OwnName(k)
           /\ Patient /\ Listened /\ ChannelsHaveDefaults => Known(k) /\ Current(k)

ChannelInv == /\ StepsInv
              /\ Patient => OneReport
              /\ \A k \in ChannelKeys : Kept(k)


--------------------------------------------------------------------------------
(* Settings with channel defaults, and the channel.                             *)

\* Such a setting is neither forced nor transient, and no value of it is refused.
LEMMA ChannelKey ==
    ASSUME NEW k \in ChannelKeys
    PROVE  /\ k \in Keys /\ k \notin OverlayKeys /\ k \notin Transient /\ Valid[k] = Values
           /\ Selected[k] \in {Absent, True, False} /\ Selected[k] \in Entry
           /\ BootDefault[k] = IF Selected[k] # Absent THEN Selected[k] ELSE Default[k]
<1>1. k \in Keys /\ k \notin OverlayKeys /\ k \notin Transient /\ Valid[k] = Values
  BY ChannelAssumption
<1>2. Selected[k] \in {Absent, True, False}
  BY DEF Selected, ChosenFor
<1>3. Selected[k] \in Entry
  BY <1>2, ChannelAssumption DEF Entry
<1>4. BootDefault[k] = IF Selected[k] # Absent THEN Selected[k] ELSE Default[k]
  BY <1>1 DEF BootDefault
<1> QED
  BY <1>1, <1>2, <1>3, <1>4

LEMMA ChannelConstants ==
    /\ BootDefault \in Files
    /\ None \in [ChannelKeys -> Entry] /\ Selected \in [ChannelKeys -> Entry]
    /\ \A k \in ChannelKeys : None[k] = Absent
    /\ NoRefresh \in [pc : {"idle", "select", "decide", "write"},
                      selected : [ChannelKeys -> Entry], previous : [ChannelKeys -> Entry],
                      todo : SUBSET ChannelKeys]
    /\ NoRefresh.pc = "idle"
<1>1. None \in [ChannelKeys -> Entry] /\ \A k \in ChannelKeys : None[k] = Absent
  BY DEF None, Entry
<1>2. Selected \in [ChannelKeys -> Entry]
  <2>1. \A k \in ChannelKeys : Selected[k] \in Entry
    BY ChannelKey
  <2> QED
    BY <2>1 DEF Selected
<1>3. BootDefault \in Files
  <2>1. \A k \in Keys : Default[k] \in Entry
    BY SchemaAssumption DEF Files
  <2> QED
    BY <1>2, <2>1 DEF BootDefault, Files
<1> QED
  BY <1>1, <1>2, <1>3 DEF NoRefresh

\* What is chosen depends on the boards' versions alone.
LEMMA SameSelected == dbc' = dbc => Selected' = Selected
BY DEF Selected

\* Publishing names makes the channel no shorter, and nobody hears of them who does
\* not listen.
LEMMA PublishedLength ==
    ASSUME channel \in Seq(Keys), NEW names \in Seq(Keys), channel' = Published(names)
    PROVE  /\ channel' \in Seq(Keys) /\ Len(channel') >= Len(channel)
           /\ ~Subscribed => channel' = channel
BY DEF Published, Subscribed

\* Names of other settings leave what the channel says of k.
LEMMA OthersPublished ==
    ASSUME channel \in Seq(Keys), NEW names \in Seq(Keys), channel' = Published(names),
           NEW k \in Keys, \A i \in 1..Len(names) : names[i] # k
    PROVE  /\ InChannel(k) <=> InChannel(k)'
           /\ Once(k) => Once(k)'
<1>1. InChannel(k) => InChannel(k)'
  BY PublishedNames
<1>2. InChannel(k)' => InChannel(k)
  BY OnlyPublished
<1>3. CASE channel' = channel
  BY <1>1, <1>2, <1>3 DEF Once
<1>4. CASE channel' = channel \o names
  <2>1. Len(channel') = Len(channel) + Len(names) /\ Len(channel) \in Nat /\ Len(names) \in Nat
    BY <1>4
  <2>2. ASSUME NEW i \in 1..Len(channel'), channel'[i] = k
        PROVE  i \in 1..Len(channel) /\ channel[i] = k
    <3>1. CASE i <= Len(channel)
      BY <1>4, <2>1, <2>2, <3>1
    <3>2. CASE i > Len(channel)
      <4>1. i - Len(channel) \in 1..Len(names) /\ names[i - Len(channel)] = k
        BY <1>4, <2>1, <2>2, <3>2
      <4> QED
        BY <4>1
    <3> QED
      BY <2>1, <3>1, <3>2
  <2> QED
    BY <1>1, <1>2, <2>2 DEF Once
<1> QED
  BY <1>3, <1>4 DEF Published

\* The same of a field that is set.
LEMMA OtherSet ==
    ASSUME TypeOK, NEW j \in Keys, NEW v, SetField(j, v), NEW k \in Keys, k # j
    PROVE  /\ hash'[k] = hash[k]
           /\ InChannel(k) <=> InChannel(k)'
           /\ Once(k) => Once(k)'
<1>1. <<j>> \in Seq(Keys) /\ \A i \in 1..Len(<<j>>) : <<j>>[i] # k
  OBVIOUS
<1>2. channel \in Seq(Keys) /\ channel' = Published(<<j>>)
  BY DEF TypeOK, SetField
<1> QED
  BY <1>1, <1>2, OthersPublished, OnlySet

\* What is received was in the channel, once if it was there once.
LEMMA ReceivedOnce ==
    ASSUME channel \in Seq(Keys), channel # <<>>, channel' = Tail(channel), NEW k \in Keys
    PROVE  /\ InChannel(Head(channel))
           /\ k # Head(channel) => (InChannel(k) <=> InChannel(k)')
           /\ Once(k) => Once(k)'
           /\ Once(k) /\ k = Head(channel) => ~InChannel(k)'
<1>1. /\ Len(channel) \in Nat /\ Len(channel) > 0 /\ channel[1] = Head(channel)
      /\ Len(channel') = Len(channel) - 1
      /\ \A i \in 1..Len(channel') : i + 1 \in 1..Len(channel) /\ channel'[i] = channel[i + 1]
  OBVIOUS
<1>2. InChannel(Head(channel)) /\ (k # Head(channel) => (InChannel(k) <=> InChannel(k)'))
  BY OnlyReceived, ReceivedNames
<1>3. Once(k) => Once(k)'
  <2> SUFFICES ASSUME Once(k), NEW i \in 1..Len(channel'), NEW j \in 1..Len(channel'),
                      channel'[i] = k, channel'[j] = k
               PROVE  i = j
    BY DEF Once
  <2>1. i + 1 = j + 1
    BY <1>1 DEF Once
  <2> QED
    BY <2>1
<1>4. Once(k) /\ k = Head(channel) => ~InChannel(k)'
  <2> SUFFICES ASSUME Once(k), k = Head(channel), NEW i \in 1..Len(channel'), channel'[i] = k
               PROVE  FALSE
    BY DEF InChannel
  <2>1. 1 = i + 1
    BY <1>1 DEF Once
  <2> QED
    BY <2>1
<1> QED
  BY <1>2, <1>3, <1>4


--------------------------------------------------------------------------------
(* Steps of the settings service that leave the settings with channel defaults  *)
(* alone.                                                                        *)

\* A step that neither sets nor hears of k.
Untouched(k) == /\ hash'[k] = hash[k]
                /\ k \in userSet' <=> k \in userSet
                /\ InChannel(k) <=> InChannel(k)'
                /\ Once(k) => Once(k)'
                /\ EditComes(k) => EditComes(k)'
                /\ AtKey(k)' => AtKey(k)

\* A step of main, of the overlay consumer or of the watcher that repairs or saves.
Passive == /\ boot # "down" /\ boot' # "down"
           /\ unpublished' = unpublished
           /\ Listening'
           /\ Len(channel') >= Len(channel)
           /\ \A k \in ChannelKeys : Untouched(k)

LEMMA SameQuiet ==
    ASSUME channel' = channel, NEW k \in ChannelKeys
    PROVE  (InChannel(k) <=> InChannel(k)') /\ (Once(k) => Once(k)')
BY ChannelKey, SameChannel DEF Once

LEMMA BootPassive == ASSUME StepsInv, BootRest PROVE Passive
<1>0. Boot
  BY DEF BootRest, Boot
<1>1. /\ channel' = channel /\ unpublished' = unpublished /\ ~Subscribed
      /\ channel \in Seq(Keys)
  BY <1>0, BootFrame DEF StepsInv, TypeInv, TypeOK
<1>2. /\ hash' = hash /\ userSet' = userSet /\ boot # "down" /\ boot' # "down"
      /\ watcher' = watcher \/ watcher' = WatcherIdle
      /\ refresh' = refresh
  BY DEF BootRest, Rewrite, Reapply, Reapplied, Subscribe, redis, memory, channelVars, channelMemory
<1>3. Listening'
  BY <1>1, <1>2, WatcherConstants DEF StepsInv, Listening, Subscribed, Repairs
<1>4. ASSUME NEW k \in ChannelKeys
      PROVE  Untouched(k)
  <2>1. AtKey(k)' => AtKey(k)
    BY <1>2, WatcherConstants DEF AtKey
  <2>2. ~EditComes(k)
    BY <1>1 DEF EditComes, Noticed
  <2>3. (InChannel(k) <=> InChannel(k)') /\ (Once(k) => Once(k)')
    BY <1>1, SameQuiet
  <2> QED
    BY <1>2, <2>1, <2>2, <2>3 DEF Untouched
<1> QED
  BY <1>1, <1>2, <1>3, <1>4 DEF Passive

LEMMA ConsumerPassive == ASSUME StepsInv, ConsumerOfChannels PROVE Passive
<1>0. Consumer /\ TypeInv /\ Phases /\ TypeOK /\ channel \in Seq(Keys)
  BY DEF ConsumerOfChannels, StepsInv, TypeInv, TypeOK
<1>1. /\ boot' = boot /\ watcher' = watcher /\ unpublished' = unpublished
      /\ boot # "down" /\ refresh' = refresh
  BY <1>0, ConsumerFrame, ConsumerMoves DEF ConsumerOfChannels, channelVars, channelMemory
<1>2. OverlayKeys \subseteq Keys
  BY OverlayAssumption
<1>3. /\ Len(channel') >= Len(channel) /\ (~Subscribed => channel' = channel)
      /\ \A k \in ChannelKeys : /\ hash'[k] = hash[k]
                                /\ InChannel(k) <=> InChannel(k)'
                                /\ Once(k) => Once(k)'
  <2>1. CASE hash' = hash /\ channel' = channel
    BY <1>0, <2>1, SameQuiet
  <2>2. ASSUME NEW j \in OverlayKeys, ForceField(j) \/ Restore(j)
        PROVE  <1>3!:
    <3>1. PICK v : SetField(j, v)
      BY <2>2 DEF ForceField, Restore
    <3>2. <<j>> \in Seq(Keys) /\ channel' = Published(<<j>>) /\ j \in Keys
      BY <1>2, <3>1 DEF SetField
    <3>3. \A k \in ChannelKeys : k \in Keys /\ k # j
      BY ChannelKey
    <3> QED
      BY <1>0, <3>1, <3>2, <3>3, PublishedLength, OtherSet
  <2>3. CASE Drop
    <3>1. PICK names \in SetToSeqs(ToDrop) : channel' = Published(names)
      BY <2>3 DEF Drop
    <3>2. ToDrop \in SUBSET Keys /\ ToDrop \subseteq OverlayKeys
      BY <1>2 DEF ToDrop
    <3>3. names \in Seq(Keys)
      BY <3>2, EnumerationType
    <3>4. \A i \in 1..Len(names) : names[i] \in ToDrop
      <4>1. names \in [1..Cardinality(ToDrop) -> ToDrop]
        BY DEF SetToSeqs
      <4>2. Cardinality(ToDrop) \in Nat
        BY <3>2, KeysAssumption, FS_Subset, FS_CardinalityType
      <4> QED
        BY <3>3, <4>1, <4>2
    <3>5. ASSUME NEW k \in ChannelKeys
          PROVE  /\ hash'[k] = hash[k]
                 /\ InChannel(k) <=> InChannel(k)'
                 /\ Once(k) => Once(k)'
      <4>1. k \in Keys /\ k \notin ToDrop
        BY <3>2, ChannelKey
      <4>2. \A i \in 1..Len(names) : names[i] # k
        BY <3>4, <4>1
      <4>3. hash'[k] = hash[k]
        BY <2>3, <4>1 DEF Drop
      <4> QED
        BY <1>0, <3>1, <3>3, <4>1, <4>2, <4>3, OthersPublished
    <3> QED
      BY <1>0, <3>1, <3>3, <3>5, PublishedLength
  <2>4. CASE Consumer /\ ~(Drop \/ \E j \in OverlayKeys : ForceField(j) \/ Restore(j))
    <3>1. hash' = hash /\ channel' = channel
      BY <2>4 DEF Consumer, TakeCommand, Activate, FlagOn, StatusOn, Report, Unset, FlagOff,
                  StatusOff, ClearSave, Capture, redis
    <3> QED
      BY <2>1, <3>1
  <2> QED
    BY <1>0, <2>2, <2>3, <2>4
<1>4. ASSUME NEW k \in ChannelKeys
      PROVE  k \in userSet' <=> k \in userSet
  <2>1. userSet' = userSet \/ userSet' = userSet \union {i \in OverlayKeys : base[i].wasUserSet}
    BY <1>0 DEF Consumer, TakeCommand, Activate, FlagOn, StatusOn, Report, Unset, FlagOff, Drop,
                StatusOff, ClearSave, Capture, ForceField, Restore, memory
  <2> QED
    BY <2>1, ChannelKey
<1>5. Subscribed' = Subscribed /\ Listening'
  BY <1>1, <1>3 DEF StepsInv, Listening, Subscribed
<1>6. ASSUME NEW k \in ChannelKeys
      PROVE  Untouched(k)
  <2>1. EditComes(k) => EditComes(k)'
    BY <1>1, <1>3, <1>5 DEF EditComes, Noticed
  <2>2. AtKey(k)' => AtKey(k)
    BY <1>1 DEF AtKey
  <2> QED
    BY <1>3, <1>4, <2>1, <2>2 DEF Untouched
<1> QED
  BY <1>1, <1>3, <1>5, <1>6 DEF Passive

LEMMA WatcherPassive == ASSUME StepsInv, WatcherRest PROVE Passive
<1>0. /\ Watcher /\ TypeInv /\ Phases /\ TypeOK /\ channel \in Seq(Keys)
      /\ watcher \in [pc : WatcherSteps, key : Keys, value : Values]
      /\ WatcherIdle.pc = "idle"
  BY WatcherConstants DEF WatcherRest, Watcher, StepsInv, TypeInv, TypeOK
<1>1. /\ boot' = boot /\ unpublished' = unpublished
      /\ Subscribed /\ Subscribed' /\ boot # "down" /\ refresh' = refresh
  BY <1>0, WatcherFrame DEF WatcherRest, channelVars, channelMemory, Phases
<1>2. /\ Len(channel') >= Len(channel)
      /\ \A k \in ChannelKeys : /\ hash'[k] = hash[k]
                                /\ InChannel(k) <=> InChannel(k)'
                                /\ Once(k) => Once(k)'
  <2>1. CASE hash' = hash /\ channel' = channel
    BY <1>0, <2>1, SameQuiet
  <2>2. CASE Repair \/ Reassert
    <3>1. PICK v : SetField(watcher.key, v)
      BY <2>2 DEF Repair, Reassert
    <3>2. watcher.key \notin ChannelKeys
      <4>1. CASE Repair
        BY <4>1 DEF Repair, At, StepsInv, Listening, Repairs
      <4>2. CASE Reassert
        <5>1. watcher.key \in OverlayKeys
          BY <1>0, <4>2 DEF Reassert, At, TypeInv, WatchesOverlaid
        <5> QED
          BY <5>1, ChannelKey
      <4> QED
        BY <2>2, <4>1, <4>2
    <3>3. ASSUME NEW j \in Keys, j = watcher.key
          PROVE  <1>2!:
      <4>1. <<j>> \in Seq(Keys) /\ channel' = Published(<<j>>) /\ SetField(j, v)
        BY <3>1, <3>3 DEF SetField
      <4>2. \A k \in ChannelKeys : k \in Keys /\ k # j
        BY <3>2, <3>3, ChannelKey
      <4> QED
        BY <1>0, <4>1, <4>2, PublishedLength, OtherSet
    <3> QED
      BY <1>0, <3>3
  <2>3. CASE WatcherRest /\ ~(Repair \/ Reassert)
    <3>1. hash' = hash /\ channel' = channel
      BY <2>3 DEF WatcherRest, Fallback, Check, ReadField, Edit, SaveEdit, SaveMark, SaveNow, redis
    <3> QED
      BY <2>1, <3>1
  <2> QED
    BY <2>2, <2>3
<1>3. userSet' = userSet
  BY DEF WatcherRest, Fallback, Repair, Check, ReadField, Edit, SaveEdit, Reassert, SaveMark,
         SaveNow, memory
<1>4. /\ watcher.pc \notin {"off", "idle", "mark"}
      /\ watcher' = WatcherIdle \/ watcher'.key = watcher.key
      /\ watcher'.pc \in Repairs => watcher.pc \in Repairs
  BY <1>0 DEF WatcherRest, Fallback, Repair, Check, ReadField, Edit, SaveEdit, Reassert, SaveMark,
              At, Goto, GotoWith, Rest, Repairs
<1>5. Listening'
  BY <1>0, <1>1, <1>4 DEF StepsInv, Listening, Repairs
<1>6. ASSUME NEW k \in ChannelKeys, watcher.key = k, watcher.pc = "check"
      PROVE  watcher'.key = k /\ watcher'.pc = "mark"
  <2>1. Check
    BY <1>6 DEF WatcherRest, Fallback, Repair, ReadField, Edit, SaveEdit, Reassert, SaveMark, At
  <2>2. ~IsOverlaid(k) /\ k \notin Transient
    BY ChannelKey DEF IsOverlaid
  <2> QED
    BY <1>0, <1>6, <2>1, <2>2 DEF Check, Goto
<1>7. ASSUME NEW k \in ChannelKeys
      PROVE  Untouched(k)
  <2>1. EditComes(k) => EditComes(k)'
    BY <1>1, <1>2, <1>4, <1>6 DEF EditComes, Noticed
  <2>2. AtKey(k)' => AtKey(k)
    BY <1>0, <1>4 DEF AtKey
  <2> QED
    BY <1>2, <1>3, <2>1, <2>2 DEF Untouched
<1> QED
  BY <1>1, <1>2, <1>5, <1>7 DEF Passive


--------------------------------------------------------------------------------
(* Types and phases.                                                            *)

\* What steps of SettingsService are part of a step, and the steps that are not one.
LEMMA StepOf ==
    ASSUME [NextChannels]_allVars
    PROVE  \/ [Next]_vars
           \/ LoadChannels
           \/ ReceiveName /\ Recognised
           \/ \E k \in ChannelKeys : WriteDefault(k) \/ WriteFails(k)
<1>1. CASE BootRest
  BY <1>1 DEF BootRest, Next, Boot
<1>2. CASE WatcherRest \/ MarkChoice
  BY <1>2 DEF WatcherRest, MarkChoice, Next, Watcher
<1>3. CASE ReceiveName /\ ~Recognised
  BY <1>3 DEF ReceiveName, Next, Watcher
<1>4. CASE ReceiveReady \/ Select \/ Decide \/ DashboardReports
  BY <1>4 DEF ReceiveReady, Select, Decide, DashboardReports
<1>5. CASE ConsumerOfChannels \/ ClientOfChannels \/ WaitChannels \/ CrashChannels \/ RebootChannels
  BY <1>5 DEF ConsumerOfChannels, ClientOfChannels, WaitChannels, Client, CrashChannels, RebootChannels, Next
<1>6. CASE UNCHANGED allVars
  BY <1>6 DEF allVars
<1> QED
  BY <1>1, <1>2, <1>3, <1>4, <1>5, <1>6 DEF NextChannels, WatcherOfChannels, Refresh, allVars

LEMMA LoadSteps == ASSUME StepsInv, LoadChannels PROVE TypeInv' /\ Phases'
<1>1. LoadWith(BootDefault) /\ TypeInv /\ Phases
  BY DEF LoadChannels, StepsInv
<1>2. TypeInv'
  BY <1>1, LoadType, ChannelConstants
<1>3. ~Subscribed /\ ~active /\ consumer = ConsumerIdle
  BY <1>1 DEF LoadWith, Phases
<1>4. Phases'
  BY <1>1, <1>3, IdleConsumer DEF LoadWith, Phases, Subscribed, Entering, Leaving
<1> QED
  BY <1>2, <1>4

\* The watcher is at its own while it refreshes.
LEMMA Refreshing ==
    ASSUME StepsInv, refresh.pc # "idle"
    PROVE  watcher.pc = "idle" /\ Subscribed /\ boot = "up"
BY DEF StepsInv, Listening, Subscribed, Phases

LEMMA WriteSteps ==
    ASSUME StepsInv, NEW k \in ChannelKeys, WriteDefault(k) \/ WriteFails(k)
    PROVE  TypeInv' /\ Phases'
<1>0. TypeInv /\ Phases /\ TypeOK /\ k \in Keys /\ refresh.selected[k] \in Entry
  BY ChannelKey DEF StepsInv, TypeInv, ChannelTypes
<1>1. CASE WriteDefault(k)
  <2>1. SetField(k, refresh.selected[k])
    BY <1>1 DEF WriteDefault
  <2>2. hash' \in Files /\ channel' \in Seq(Keys)
    BY <1>0, <2>1, SetFieldType
  <2>3. TypeInv'
    BY <1>0, <1>1, <2>2 DEF WriteDefault, TypeInv, TypeOK, WatchesOverlaid,
                           files, memory, clients, failures
  <2>4. Phases'
    BY <1>0, <1>1 DEF WriteDefault, Phases, Subscribed, memory
  <2> QED
    BY <2>3, <2>4
<1>2. CASE WriteFails(k)
  <2>1. faults' \in 0..MaxFaults
    BY <1>0, <1>2, BoundsAssumption DEF WriteFails, TypeOK
  <2>2. TypeInv'
    BY <1>0, <1>2, <2>1 DEF WriteFails, TypeInv, TypeOK, WatchesOverlaid, redis, files, memory, clients
  <2>3. Phases'
    BY <1>0, <1>2 DEF WriteFails, Phases, Subscribed, memory
  <2> QED
    BY <2>2, <2>3
<1> QED
  BY <1>1, <1>2

LEMMA RecognisedSteps == ASSUME StepsInv, ReceiveName, Recognised PROVE TypeInv' /\ Phases'
<1>1. /\ TypeInv /\ Phases /\ channel # <<>> /\ channel' = Tail(channel)
      /\ UNCHANGED <<hash, status, commands, files, memory, boot, watcher, consumer, clients, failures>>
  BY DEF ReceiveName, StepsInv
<1>2. channel' \in Seq(Keys)
  BY <1>1 DEF TypeInv, TypeOK
<1> QED
  BY <1>1, <1>2 DEF TypeInv, TypeOK, WatchesOverlaid, Phases, Subscribed, files, memory, clients, failures

LEMMA NextTypes == ASSUME StepsInv, [NextChannels]_allVars PROVE TypeInv' /\ Phases'
<1>1. CASE [Next]_vars
  BY <1>1, NextType, NextPhases DEF StepsInv
<1> QED
  BY <1>1, StepOf, LoadSteps, RecognisedSteps, WriteSteps

\* A fault is remembered.
LEMMA FaultsKept == ASSUME StepsInv, [NextChannels]_allVars, faults' = 0 PROVE faults = 0
<1>1. CASE [Next]_vars
  BY <1>1, FaultsStay DEF StepsInv
<1>2. CASE LoadChannels \/ (ReceiveName /\ Recognised) \/ \E k \in ChannelKeys : WriteDefault(k)
  BY <1>2 DEF LoadChannels, LoadWith, ReceiveName, Receive, WriteDefault, failures
<1>3. ASSUME NEW k \in ChannelKeys, WriteFails(k)
      PROVE  faults = 0
  <2>1. faults \in Nat /\ faults' = faults + 1
    BY <1>3, BoundsAssumption DEF WriteFails, StepsInv, TypeInv, TypeOK
  <2> QED
    BY <2>1
<1> QED
  BY <1>1, <1>2, <1>3, StepOf


--------------------------------------------------------------------------------
(* Steps that leave the channel defaults' own variables.                        *)

\* What a step has to keep, its types and phases apart.
RestInv == /\ ChannelTypes /\ Listening /\ InOrder
           /\ Patient => OneReport
           /\ \A k \in ChannelKeys : Kept(k)

\* What gets on file of such a setting is its value, if a user has chosen it.
LEMMA ChannelFile ==
    ASSUME StepsInv, [Next]_vars, NEW k \in ChannelKeys, toml'[k] # toml[k]
    PROVE  /\ boot # "down"
           /\ toml'[k] = IF k \in userSet THEN hash[k] ELSE Absent
<1>1. TypeInv /\ Phases /\ k \in Keys /\ ~IsOverlaid(k)
  BY ChannelKey DEF StepsInv, IsOverlaid
<1>2. Save /\ boot # "down"
  BY <1>1, OnlySavesWrite
<1>3. toml'[k] = Persisted[k]
  BY <1>1, <1>2, SaveChoice
<1> QED
  BY <1>1, <1>2, <1>3 DEF Persisted

LEMMA SameMemory ==
    ASSUME dashboard' = dashboard, channelMemory' = channelMemory
    PROVE  /\ dbc' = dbc /\ ready' = ready /\ readies' = readies /\ reports' = reports
           /\ generated' = generated /\ pending' = pending /\ refresh' = refresh
           /\ Selected' = Selected
           /\ \A k : ToWrite(k) <=> ToWrite(k)'
BY SameSelected DEF dashboard, channelMemory, ToWrite

LEMMA UntouchedKept ==
    ASSUME ChannelInv, [Next]_vars, dashboard' = dashboard, channelMemory' = channelMemory,
           boot' # "down" => boot # "down", NEW k \in ChannelKeys, Untouched(k),
           origin'[k] = origin[k], k \in unpublished' => k \in unpublished
    PROVE  Kept(k)'
<1>1. /\ StepsInv /\ Kept(k) /\ k \in Keys
      /\ faults' = 0 => faults = 0
  BY FaultsStay, ChannelKey DEF ChannelInv, StepsInv
<1>2. toml'[k] = toml[k] \/ toml'[k] = IF k \in userSet THEN hash[k] ELSE Absent
  BY <1>1, ChannelFile
<1>3. FlagAnswered(k)' /\ WritesDefault(k)'
  BY <1>1, SameMemory DEF Untouched, Kept, FlagAnswered, WritesDefault
<1>4. FileChosen(k)' /\ AsWritten(k)'
  BY <1>1, <1>2 DEF Untouched, Kept, FileChosen, AsWritten
<1>5. Patient /\ origin'[k] = "own" => OwnName(k)'
  BY <1>1, <1>2, SameMemory DEF Untouched, Kept, OwnName
<1>6. ASSUME Patient, Listened, ChannelsHaveDefaults
      PROVE  Known(k)' /\ Current(k)'
  BY <1>1, <1>6, SameMemory DEF Untouched, Kept, Known, Current
<1> QED
  BY <1>3, <1>4, <1>5, <1>6 DEF Kept

LEMMA SameRest ==
    ASSUME ChannelInv, [Next]_vars, dashboard' = dashboard, channelMemory' = channelMemory,
           origin' \in [ChannelKeys -> {"own", "client", "overwritten"}],
           Listening', Len(channel') >= Len(channel)
    PROVE  ChannelTypes' /\ InOrder' /\ (Patient => OneReport')
<1>1. ChannelTypes'
  BY SameMemory DEF ChannelInv, StepsInv, ChannelTypes
<1>2. InOrder'
  <2>1. channel' \in Seq(Keys) /\ channel \in Seq(Keys)
    BY NextType DEF ChannelInv, StepsInv, TypeInv, TypeOK
  <2>2. Len(channel) \in Nat /\ Len(channel') \in Nat /\ readies \in Seq(Nat)
    BY <2>1 DEF ChannelInv, StepsInv, ChannelTypes
  <2>3. \A i \in DOMAIN readies : readies[i] \in Nat
    BY <2>2
  <2> QED
    BY <2>2, <2>3, SameMemory DEF ChannelInv, StepsInv, InOrder
<1>3. Patient => OneReport'
  BY SameMemory DEF ChannelInv, OneReport
<1> QED
  BY <1>1, <1>2, <1>3

LEMMA PassiveRest ==
    ASSUME ChannelInv, [Next]_vars, channelVars' = channelVars, Passive
    PROVE  RestInv'
<1>1. dashboard' = dashboard /\ channelMemory' = channelMemory /\ origin' = origin
  BY DEF channelVars
<1>2. \A k \in ChannelKeys : Kept(k)'
  BY <1>1, UntouchedKept DEF Passive
<1>3. origin' \in [ChannelKeys -> {"own", "client", "overwritten"}]
  BY <1>1 DEF ChannelInv, StepsInv, ChannelTypes
<1> QED
  BY <1>1, <1>2, <1>3, SameRest DEF Passive, RestInv

LEMMA WaitRest == ASSUME ChannelInv, UNCHANGED allVars PROVE RestInv'
<1>1. /\ dashboard' = dashboard /\ channelMemory' = channelMemory /\ origin' = origin
      /\ channel' = channel /\ vars' = vars
      /\ boot' = boot /\ unpublished' = unpublished /\ watcher' = watcher
      /\ hash' = hash /\ userSet' = userSet /\ refresh' = refresh
  BY DEF allVars, vars, redis, memory, clients, channelVars, channelMemory
<1>2. Listening'
  BY <1>1 DEF ChannelInv, StepsInv, Listening, Subscribed
<1>3. ASSUME NEW k \in ChannelKeys
      PROVE  Untouched(k)
  BY <1>1, SameQuiet DEF Untouched, EditComes, AtKey, Noticed, Subscribed
<1>4. \A k \in ChannelKeys : Kept(k)'
  BY <1>1, <1>3, UntouchedKept
<1>5. /\ Len(channel') >= Len(channel)
      /\ origin' \in [ChannelKeys -> {"own", "client", "overwritten"}]
  BY <1>1 DEF ChannelInv, StepsInv, ChannelTypes, TypeInv, TypeOK
<1> QED
  BY <1>1, <1>2, <1>4, <1>5, SameRest DEF RestInv

\* Clients write values they may write, and their edits are heard of.
LEMMA ClientRest == ASSUME ChannelInv, ClientOfChannels PROVE RestInv'
<1>0. /\ Client /\ [Next]_vars /\ dashboard' = dashboard /\ channelMemory' = channelMemory
      /\ origin \in [ChannelKeys -> {"own", "client", "overwritten"}]
      /\ StepsInv /\ TypeInv /\ Phases /\ TypeOK /\ channel \in Seq(Keys)
      /\ hash \in [Keys -> Entry]
  BY BoundsAssumption
     DEF ClientOfChannels, Client, Next, ChannelInv, StepsInv, ChannelTypes, TypeInv, TypeOK, Files
<1>1. /\ boot' = boot /\ watcher' = watcher /\ toml' = toml /\ userSet' = userSet
      /\ faults' = faults /\ Subscribed' = Subscribed
      /\ refresh' = refresh
  BY <1>0, ClientFrame, SameMemory DEF Subscribed
<1>2. ASSUME NEW j \in Keys, ClientSet(j),
             origin' = [k \in ChannelKeys |-> IF k = j THEN "client" ELSE origin[k]]
      PROVE  RestInv'
  <2>1. PICK v \in EditValues[j] : hash' = [hash EXCEPT ![j] = v]
    BY <1>2 DEF ClientSet
  <2>2. /\ channel' = channel /\ unpublished' = unpublished \union {j}
        /\ Listened => Subscribed
        /\ \A k \in ChannelKeys : origin'[k] = IF k = j THEN "client" ELSE origin[k]
        /\ origin' \in [ChannelKeys -> {"own", "client", "overwritten"}]
    BY <1>0, <1>2 DEF ClientSet, Listened
  <2>3. Listening' /\ Len(channel') >= Len(channel)
    BY <1>0, <1>1, <2>2 DEF StepsInv, Listening
  <2>4. ASSUME NEW k \in ChannelKeys, k # j
        PROVE  Kept(k)'
    <3>1. Untouched(k)
      BY <1>0, <1>1, <2>1, <2>2, <2>4, ChannelKey, SameQuiet DEF Untouched, EditComes, AtKey, Noticed
    <3> QED
      BY <1>0, <1>1, <2>2, <2>4, <3>1, UntouchedKept
  <2>5. ASSUME NEW k \in ChannelKeys, k = j
        PROVE  Kept(k)'
    <3>1. /\ Kept(k) /\ k \in Keys /\ hash'[k] \in EditValues[k]
          /\ InChannel(k) <=> InChannel(k)'
      BY <1>0, <2>1, <2>2, <2>5, SameQuiet DEF ChannelInv
    <3>2. FlagAnswered(k)' /\ WritesDefault(k)'
      BY <1>0, <1>1, <3>1, SameMemory DEF Kept, FlagAnswered, WritesDefault
    <3>3. FileChosen(k)' /\ AsWritten(k)' /\ origin'[k] # "own"
      BY <1>1, <2>2, <2>5, <3>1 DEF Kept, FileChosen, AsWritten
    <3>4. Listened => EditComes(k)'
      BY <1>1, <2>2, <2>5 DEF EditComes, Noticed
    <3>5. ASSUME Patient, Listened, ChannelsHaveDefaults
          PROVE  Known(k)' /\ Current(k)'
      <4>1. Known(k)'
        BY <1>0, <1>1, <3>1, <3>4, <3>5, SameMemory DEF Kept, Known
      <4>2. Current(k)'
        BY <1>0, <1>1, <3>1, <3>4, <3>5, SameMemory DEF Kept, Current
      <4> QED
        BY <4>1, <4>2
    <3> QED
      BY <3>2, <3>3, <3>5 DEF Kept
  <2> QED
    BY <1>0, <2>2, <2>3, <2>4, <2>5, SameRest DEF RestInv
<1>3. ASSUME NEW j \in Keys, ClientPublish(j), origin' = origin
      PROVE  RestInv'
  <2>1. /\ channel' = Published(<<j>>) /\ hash' = hash /\ unpublished' = unpublished \ {j}
        /\ j \in unpublished
        /\ <<j>> \in Seq(Keys) /\ Len(<<j>>) = 1 /\ <<j>>[1] = j
    BY <1>3 DEF ClientPublish
  <2>2. Len(channel') >= Len(channel) /\ (~Subscribed => channel' = channel)
    BY <1>0, <2>1, PublishedLength
  <2>3. Listening'
    BY <1>0, <1>1, <2>1, <2>2 DEF StepsInv, Listening
  <2>4. ASSUME NEW k \in ChannelKeys
        PROVE  EditComes(k) => EditComes(k)'
    <3>1. k \in Keys
      BY ChannelKey
    <3> QED
      BY <1>0, <3>1, ClientNotices DEF EditComes
  <2>5. ASSUME NEW k \in ChannelKeys, k # j
        PROVE  Kept(k)'
    <3>1. k \in Keys /\ \A i \in 1..Len(<<j>>) : <<j>>[i] # k
      BY <2>5, ChannelKey
    <3>2. (InChannel(k) <=> InChannel(k)') /\ (Once(k) => Once(k)')
      BY <1>0, <2>1, <3>1, OthersPublished
    <3>3. Untouched(k)
      BY <1>1, <2>1, <2>4, <3>2 DEF Untouched, AtKey
    <3> QED
      BY <1>0, <1>1, <1>3, <2>1, <3>3, UntouchedKept
  <2>6. ASSUME NEW k \in ChannelKeys, k = j
        PROVE  Kept(k)'
    <3>1. Kept(k) /\ (InChannel(k) => InChannel(k)')
      BY <1>0, <2>1, <2>6, PublishedNames DEF ChannelInv
    <3>2. FlagAnswered(k)' /\ WritesDefault(k)'
      BY <1>0, <1>1, <3>1, SameMemory DEF Kept, FlagAnswered, WritesDefault
    <3>3. FileChosen(k)' /\ AsWritten(k)' /\ (Patient => origin'[k] # "own")
      BY <1>1, <1>3, <2>1, <2>6, <3>1 DEF Kept, FileChosen, AsWritten, OwnName
    <3>4. ASSUME Patient, Listened, ChannelsHaveDefaults
          PROVE  Known(k)' /\ Current(k)'
      BY <1>0, <1>1, <2>1, <2>4, <3>1, <3>4, SameMemory DEF Kept, Known, Current
    <3> QED
      BY <3>2, <3>3, <3>4 DEF Kept
  <2> QED
    BY <1>0, <1>3, <2>2, <2>3, <2>5, <2>6, SameRest DEF RestInv
<1>4. ASSUME NEW c \in {"apply", "clear"}, ClientCommand(c), origin' = origin
      PROVE  RestInv'
  <2>1. channel' = channel /\ hash' = hash /\ unpublished' = unpublished
    BY <1>4 DEF ClientCommand
  <2>2. Listening' /\ Len(channel') >= Len(channel)
    BY <1>0, <1>1, <2>1 DEF StepsInv, Listening
  <2>3. ASSUME NEW k \in ChannelKeys
        PROVE  Kept(k)'
    <3>1. Untouched(k)
      BY <1>1, <2>1, SameQuiet DEF Untouched, EditComes, AtKey, Noticed
    <3> QED
      BY <1>0, <1>1, <1>4, <2>1, <3>1, UntouchedKept
  <2> QED
    BY <1>0, <1>4, <2>2, <2>3, SameRest DEF RestInv
<1> QED
  BY <1>2, <1>3, <1>4 DEF ClientOfChannels


--------------------------------------------------------------------------------
(* Notifications.                                                               *)

\* A name is received: it is recognised and dropped, or the watcher takes it up.
NameReceived ==
    /\ refresh.pc = "idle" /\ watcher.pc = "idle" /\ Subscribed /\ Subscribed'
    /\ channel # <<>> /\ channel' = Tail(channel) /\ Head(channel) \in Keys
    /\ hash' = hash /\ toml' = toml /\ userSet' = userSet /\ boot' = boot
    /\ unpublished' = unpublished /\ origin' = origin
    /\ dbc' = dbc /\ ready' = ready /\ reports' = reports /\ generated' = generated
    /\ refresh' = refresh
    /\ pending' = [k \in ChannelKeys |-> IF k = Head(channel) THEN Absent ELSE pending[k]]
    /\ \/ Recognised /\ watcher' = watcher
       \/ /\ ~Recognised /\ watcher'.key = Head(channel)
          /\ watcher'.pc = IF IsInvalid(Head(channel), hash[Head(channel)])
                           THEN "fallback" ELSE "check"

LEMMA ReceivedName == ASSUME ChannelInv, ReceiveName PROVE NameReceived
<1> USE DEF NameReceived
<1>1. /\ refresh.pc = "idle" /\ watcher.pc = "idle" /\ channel # <<>> /\ Subscribed
      /\ channel \in Seq(Keys)
      /\ WatcherIdle \in [pc : WatcherSteps, key : Keys, value : Values]
  BY WatcherConstants DEF ReceiveName, At, Subscribed, ChannelInv, StepsInv, TypeInv, TypeOK
<1>2. Head(channel) \in Keys
  BY <1>1
<1>3. CASE Recognised
  BY <1>1, <1>2, <1>3 DEF ReceiveName, TakeFlag, Subscribed, files, memory, clients
<1>4. CASE ~Recognised
  <2>1. Receive
    BY <1>4 DEF ReceiveName
  <2>2. /\ watcher'.key = Head(channel)
        /\ watcher'.pc = IF IsInvalid(Head(channel), hash[Head(channel)]) THEN "fallback" ELSE "check"
    BY <1>1, <2>1 DEF Receive
  <2>3. Subscribed'
    BY <2>2 DEF Subscribed
  <2> QED
    BY <1>1, <1>2, <1>4, <2>1, <2>2, <2>3 DEF ReceiveName, Receive, TakeFlag, files, memory, clients
<1> QED
  BY <1>3, <1>4

LEMMA ReceiveNameRest == ASSUME ChannelInv, ReceiveName PROVE RestInv'
<1>0. /\ StepsInv /\ channel \in Seq(Keys) /\ pending \in [ChannelKeys -> Entry]
      /\ hash \in [Keys -> Entry]
  BY DEF ChannelInv, StepsInv, ChannelTypes, TypeInv, TypeOK, Files
<1> DEFINE h == Head(channel)
<1> USE DEF NameReceived
<1>1. NameReceived
  BY ReceivedName
<1>2. \A k \in ChannelKeys : pending'[k] = IF k = h THEN Absent ELSE pending[k]
  BY <1>1
<1>3. /\ readies \in Seq(Nat) /\ Len(readies) \in Nat /\ DOMAIN readies = 1..Len(readies)
      /\ readies' = [i \in DOMAIN readies |-> readies[i] - 1]
      /\ \A i \in DOMAIN readies : readies[i] \in Nat /\ readies[i] > 0
  <2>1. readies \in Seq(Nat) /\ ~ReadyIsNext /\ OneNameLess
    BY DEF ReceiveName, ChannelInv, StepsInv, ChannelTypes
  <2>2. \A i \in DOMAIN readies : 1 \in DOMAIN readies /\ 1 <= i /\ readies[i] \in Nat /\ readies[1] \in Nat
    BY <2>1
  <2>3. readies # <<>> => readies[1] # 0
    BY <2>1 DEF ReadyIsNext
  <2>4. \A i \in DOMAIN readies : readies[1] <= readies[i]
    BY <1>0, <2>2 DEF StepsInv, InOrder
  <2> QED
    BY <2>1, <2>2, <2>3, <2>4 DEF OneNameLess
<1>4. /\ readies' \in Seq(Nat) /\ DOMAIN readies' = DOMAIN readies
      /\ Len(readies') = Len(readies) /\ (readies = <<>> <=> readies' = <<>>)
  BY <1>3
<1>5. ChannelTypes'
  <2>1. pending' \in [ChannelKeys -> Entry]
    BY <1>0, <1>1 DEF Entry
  <2> QED
    BY <1>0, <1>1, <1>4, <2>1 DEF StepsInv, ChannelTypes
<1>6. InOrder'
  <2>1. Len(channel') = Len(channel) - 1 /\ Len(channel) \in Nat
    BY <1>0, <1>1
  <2> QED
    BY <1>0, <1>3, <1>4, <2>1 DEF StepsInv, InOrder
<1>7. Listening'
  <2>1. h \in ChannelKeys => ~IsInvalid(h, hash[h])
    BY <1>0, <1>1, ChannelKey DEF IsInvalid, Entry
  <2> QED
    BY <1>1, <2>1 DEF Listening, Repairs
<1>8. Patient => OneReport'
  <2>1. pending = None => pending' = None
    BY <1>1 DEF None
  <2> QED
    BY <1>1, <1>4, <2>1, SameSelected DEF ChannelInv, OneReport
<1>9. ASSUME NEW k \in ChannelKeys
      PROVE  Kept(k)'
  <2>1. /\ k \in Keys /\ Kept(k) /\ ~ToWrite(k) /\ ~ToWrite(k)'
        /\ pending'[k] = IF k = h THEN Absent ELSE pending[k]
    BY <1>1, <1>2, ChannelKey DEF ChannelInv, ToWrite
  <2>2. /\ InChannel(h) /\ (k # h => (InChannel(k) <=> InChannel(k)'))
        /\ Once(k) => Once(k)'
        /\ Once(k) /\ k = h => ~InChannel(k)'
    BY <1>0, <1>1, <2>1, ReceivedOnce
  <2>3. FlagAnswered(k)' /\ WritesDefault(k)' /\ FileChosen(k)' /\ AsWritten(k)'
    BY <1>1, <2>1, <2>2 DEF Kept, FlagAnswered, WritesDefault, FileChosen, AsWritten
  <2>4. ASSUME Patient, origin'[k] = "own"
        PROVE  OwnName(k)'
    <3>1. OwnName(k)
      BY <1>1, <2>1, <2>4 DEF Kept
    <3>2. k = h => Recognised
      BY <2>1, <2>2, <3>1 DEF OwnName, Recognised
    <3>3. ~AtKey(k)'
      BY <1>1, <3>2 DEF AtKey
    <3> QED
      BY <1>1, <2>1, <2>2, <3>1, <3>3 DEF OwnName
  <2>5. \/ EditComes(k)'
        \/ k = h /\ Recognised
        \/ k # h /\ (EditComes(k) => EditComes(k)')
    <3>1. CASE k # h
      BY <1>1, <2>2, <3>1 DEF EditComes, Noticed
    <3>2. CASE k = h /\ ~Recognised
      <4>1. watcher'.key = k /\ watcher'.pc = "check"
        BY <1>0, <1>1, <2>1, <3>2, ChannelKey DEF IsInvalid, Entry
      <4> QED
        BY <1>1, <4>1 DEF EditComes, Noticed
    <3> QED
      BY <3>1, <3>2
  <2>6. k = h /\ Recognised => pending[k] # Absent /\ hash[k] = pending[k]
    BY DEF Recognised
  <2>7. ASSUME Patient, Listened, ChannelsHaveDefaults
        PROVE  Known(k)' /\ Current(k)'
    <3>0. Known(k) /\ Current(k) /\ Selected' = Selected /\ (faults' = 0 => faults = 0)
      <4>1. [NextChannels]_allVars
        BY DEF NextChannels, WatcherOfChannels
      <4> QED
        BY <1>0, <1>1, <2>1, <2>7, <4>1, FaultsKept, SameSelected DEF Kept
    <3>1. Known(k)'
      BY <1>1, <2>1, <2>5, <2>6, <3>0 DEF Known
    <3>2. Current(k)'
      BY <1>1, <1>4, <2>1, <2>5, <2>6, <3>0 DEF Current
    <3> QED
      BY <3>1, <3>2
  <2> QED
    BY <2>3, <2>4, <2>7 DEF Kept
<1> QED
  BY <1>1, <1>5, <1>6, <1>7, <1>8, <1>9 DEF RestInv, ChannelInv


--------------------------------------------------------------------------------
(* The watcher's other steps.                                                   *)

LEMMA MarkChoiceRest == ASSUME ChannelInv, MarkChoice PROVE RestInv'
<1>0. /\ StepsInv /\ TypeInv
      /\ watcher \in [pc : WatcherSteps, key : Keys, value : Values]
      /\ generated \in [ChannelKeys -> Entry]
  BY DEF ChannelInv, StepsInv, ChannelTypes, TypeInv, TypeOK
<1>1. PICK from \in {"markEdit", "mark"}, to \in {"saveEdit", "save"} :
          /\ MarkKey(from, to) /\ (from = "markEdit" => watcher.key \in OverlayKeys)
  <2>1. CASE Mark
    BY <2>1 DEF Mark
  <2>2. CASE MarkEdit
    BY <1>0, <2>2 DEF MarkEdit, MarkKey, At, TypeInv, WatchesOverlaid
  <2> QED
    BY <2>1, <2>2 DEF MarkChoice
<1>2. /\ watcher.pc = from /\ watcher'.pc = to /\ watcher'.key = watcher.key
      /\ Subscribed /\ Subscribed' /\ refresh.pc = "idle"
  <2>1. watcher.pc = from /\ watcher'.pc = to /\ watcher'.key = watcher.key
    BY <1>0, <1>1 DEF MarkKey, At, Goto
  <2> QED
    BY <1>0, <2>1 DEF Subscribed, StepsInv, Listening
<1>3. /\ userSet' = userSet \union {watcher.key}
      /\ channel' = channel /\ hash' = hash /\ toml' = toml /\ boot' = boot
      /\ unpublished' = unpublished /\ faults' = faults
  BY <1>1 DEF MarkKey, redis, files, clients, failures
<1>4. /\ dbc' = dbc /\ ready' = ready /\ readies' = readies /\ reports' = reports
      /\ pending' = pending /\ refresh' = refresh /\ Selected' = Selected /\ origin' = origin
      /\ generated' = [k \in ChannelKeys |-> IF k = watcher.key THEN Absent ELSE generated[k]]
  BY SameSelected DEF MarkChoice, Forget, dashboard
<1>5. Listening'
  BY <1>2, <1>3, <1>4 DEF Listening, Repairs
<1>6. ChannelTypes' /\ InOrder' /\ (Patient => OneReport')
  BY <1>0, <1>3, <1>4 DEF ChannelInv, StepsInv, ChannelTypes, Entry, InOrder, OneReport
<1>7. ASSUME NEW k \in ChannelKeys
      PROVE  Kept(k)'
  <2>1. /\ Kept(k) /\ ~ToWrite(k) /\ ~ToWrite(k)'
        /\ (InChannel(k) <=> InChannel(k)') /\ (Once(k) => Once(k)')
        /\ generated'[k] = IF k = watcher.key THEN Absent ELSE generated[k]
    BY <1>2, <1>3, <1>4, SameQuiet DEF ChannelInv, ToWrite
  <2>2. FlagAnswered(k)' /\ WritesDefault(k)' /\ FileChosen(k)' /\ AsWritten(k)'
    BY <1>3, <1>4, <2>1 DEF Kept, FlagAnswered, WritesDefault, FileChosen, AsWritten
  <2>3. watcher.key = k => AtKey(k) /\ from = "mark"
    BY <1>1, <1>2, ChannelKey DEF AtKey
  <2>4. ASSUME Patient, origin'[k] = "own"
        PROVE  OwnName(k)'
    <3>1. OwnName(k) /\ watcher.key # k
      BY <1>3, <1>4, <2>1, <2>3, <2>4 DEF Kept, OwnName
    <3>2. ~AtKey(k)' /\ (k \in userSet' <=> k \in userSet)
      BY <1>2, <1>3, <3>1 DEF AtKey
    <3> QED
      BY <1>3, <1>4, <2>1, <3>1, <3>2 DEF OwnName
  <2>5. ASSUME Patient, Listened, ChannelsHaveDefaults
        PROVE  Known(k)' /\ Current(k)'
    <3>1. CASE watcher.key = k
      BY <1>3, <3>1 DEF Known, Current
    <3>2. CASE watcher.key # k
      <4>1. EditComes(k) => EditComes(k)'
        BY <1>2, <1>3, <2>1, <3>2 DEF EditComes, Noticed
      <4> QED
        BY <1>3, <1>4, <2>1, <2>5, <3>2, <4>1 DEF Kept, Known, Current
    <3> QED
      BY <3>1, <3>2
  <2> QED
    BY <2>2, <2>4, <2>5 DEF Kept
<1> QED
  BY <1>3, <1>5, <1>6, <1>7 DEF RestInv, ChannelInv

\* What a step that leaves the settings service alone keeps.
LEMMA SameVars ==
    ASSUME UNCHANGED vars
    PROVE  /\ hash' = hash /\ channel' = channel /\ toml' = toml /\ userSet' = userSet
           /\ boot' = boot /\ watcher' = watcher /\ unpublished' = unpublished
           /\ faults' = faults /\ Subscribed' = Subscribed
           /\ \A k \in ChannelKeys : /\ InChannel(k) <=> InChannel(k)'
                                     /\ Once(k) => Once(k)'
                                     /\ AtKey(k)' <=> AtKey(k)
                                     /\ EditComes(k) <=> EditComes(k)'
<1>1. /\ hash' = hash /\ channel' = channel /\ toml' = toml /\ userSet' = userSet
      /\ boot' = boot /\ watcher' = watcher /\ unpublished' = unpublished
      /\ faults' = faults /\ Subscribed' = Subscribed
  BY DEF vars, redis, files, memory, clients, failures, Subscribed
<1> QED
  BY <1>1, SameQuiet DEF AtKey, EditComes, Noticed

\* Readiness is received.
LEMMA ReceiveReadyRest == ASSUME ChannelInv, ReceiveReady PROVE RestInv'
<1>0. StepsInv /\ UNCHANGED vars
  BY DEF ChannelInv, ReceiveReady
<1>1. /\ refresh.pc = "idle" /\ watcher.pc = "idle" /\ readies # <<>> /\ readies' = Tail(readies)
      /\ dbc' = dbc /\ ready' = ready /\ reports' = reports
      /\ generated' = generated /\ pending' = pending /\ Selected' = Selected /\ origin' = origin
  BY SameSelected DEF ReceiveReady, At, ReadyIsNext
<1>2. /\ refresh'.pc = IF ready THEN "select" ELSE "idle"
      /\ refresh' \in [pc : {"idle", "select", "decide", "write"},
                       selected : [ChannelKeys -> Entry], previous : [ChannelKeys -> Entry],
                       todo : SUBSET ChannelKeys]
  BY <1>0 DEF ReceiveReady, StepsInv, ChannelTypes
<1>3. /\ readies \in Seq(Nat) /\ readies' \in Seq(Nat) /\ Len(readies') = Len(readies) - 1
      /\ Len(readies) \in Nat /\ Len(readies) > 0
      /\ \A i \in DOMAIN readies' : i + 1 \in DOMAIN readies /\ readies'[i] = readies[i + 1]
  BY <1>0, <1>1 DEF StepsInv, ChannelTypes
<1>4. ChannelTypes'
  BY <1>0, <1>1, <1>2, <1>3 DEF StepsInv, ChannelTypes
<1>5. InOrder'
  <2>1. /\ \A i \in DOMAIN readies' : readies'[i] <= Len(channel)
        /\ \A i, j \in DOMAIN readies' : i <= j => readies'[i] <= readies'[j]
    <3>1. /\ \A i \in DOMAIN readies : readies[i] <= Len(channel)
          /\ \A i, j \in DOMAIN readies : i <= j => readies[i] <= readies[j]
      BY <1>0 DEF StepsInv, InOrder
    <3>2. \A i, j \in DOMAIN readies' : i <= j => i + 1 <= j + 1
      BY <1>3
    <3> QED
      BY <1>3, <3>1, <3>2
  <2> QED
    BY <1>0, <2>1, SameVars DEF InOrder
<1>6. Listening'
  BY <1>0, <1>1, SameVars DEF StepsInv, Listening
<1>7. Patient => OneReport'
  <2>1. Patient => Len(readies) = 1 /\ pending = None
    BY <1>1 DEF ChannelInv, OneReport
  <2>2. Patient => readies' = <<>>
    BY <1>3, <2>1
  <2>3. refresh'.pc \notin {"decide", "write"}
    BY <1>2
  <2> QED
    BY <1>1, <2>1, <2>2, <2>3 DEF OneReport
<1>8. ASSUME NEW k \in ChannelKeys
      PROVE  Kept(k)'
  <2>1. Kept(k) /\ ~ToWrite(k) /\ ~ToWrite(k)'
    BY <1>1, <1>2 DEF ChannelInv, ToWrite
  <2>2. FlagAnswered(k)' /\ WritesDefault(k)' /\ FileChosen(k)' /\ AsWritten(k)'
    BY <1>0, <1>1, <2>1, SameVars DEF Kept, FlagAnswered, WritesDefault, FileChosen, AsWritten
  <2>3. Patient /\ origin'[k] = "own" => OwnName(k)'
    BY <1>0, <1>1, <2>1, SameVars DEF Kept, OwnName
  <2>4. ASSUME Patient, Listened, ChannelsHaveDefaults
        PROVE  Known(k)' /\ Current(k)'
    <3>1. Known(k)'
      BY <1>0, <1>1, <2>1, <2>4, SameVars DEF Kept, Known
    <3>2. Current(k)'
      BY <1>0, <1>1, <1>2, SameVars DEF Current
    <3> QED
      BY <3>1, <3>2
  <2> QED
    BY <2>2, <2>3, <2>4 DEF Kept
<1> QED
  BY <1>0, <1>4, <1>5, <1>6, <1>7, <1>8, SameVars DEF RestInv, ChannelInv


\* The defaults are chosen again: if that changes none, all are current.
LEMMA SelectRest == ASSUME ChannelInv, Select PROVE RestInv'
<1>0. StepsInv /\ UNCHANGED vars /\ refresh.pc = "select"
  BY DEF ChannelInv, Select
<1>1. /\ dbc' = dbc /\ ready' = ready /\ readies' = readies /\ reports' = reports
      /\ generated' = generated /\ pending' = pending /\ Selected' = Selected /\ origin' = origin
  BY SameSelected DEF Select, dashboard
<1>2. /\ refresh'.pc \in {"idle", "decide"}
      /\ refresh'.pc = "decide" => refresh'.selected = Selected
      /\ refresh'.pc = "idle" => \A k \in ChannelKeys : ~Changed(k)
      /\ refresh' \in [pc : {"idle", "select", "decide", "write"},
                       selected : [ChannelKeys -> Entry], previous : [ChannelKeys -> Entry],
                       todo : SUBSET ChannelKeys]
  <2>1. CASE \E k \in ChannelKeys : Changed(k)
    <3>1. refresh' = [refresh EXCEPT !.pc = "decide", !.selected = Selected]
      BY <2>1 DEF Select
    <3> QED
      BY <1>0, <3>1, ChannelConstants DEF StepsInv, ChannelTypes
  <2>2. CASE ~\E k \in ChannelKeys : Changed(k)
    <3>1. refresh' = NoRefresh
      BY <2>2 DEF Select
    <3> QED
      BY <2>2, <3>1, ChannelConstants
  <2> QED
    BY <2>1, <2>2
<1>3. ChannelTypes' /\ InOrder' /\ Listening'
  BY <1>0, <1>1, <1>2, SameVars DEF StepsInv, ChannelTypes, InOrder, Listening
<1>4. Patient => OneReport'
  BY <1>0, <1>1, <1>2 DEF ChannelInv, OneReport
<1>5. ASSUME NEW k \in ChannelKeys
      PROVE  Kept(k)'
  <2>1. Kept(k) /\ ~ToWrite(k) /\ ~ToWrite(k)'
    BY <1>0, <1>2 DEF ChannelInv, ToWrite
  <2>2. FlagAnswered(k)' /\ WritesDefault(k)' /\ FileChosen(k)' /\ AsWritten(k)'
    BY <1>0, <1>1, <2>1, SameVars DEF Kept, FlagAnswered, WritesDefault, FileChosen, AsWritten
  <2>3. Patient /\ origin'[k] = "own" => OwnName(k)'
    BY <1>0, <1>1, <2>1, SameVars DEF Kept, OwnName
  <2>4. ASSUME Patient, Listened, ChannelsHaveDefaults
        PROVE  Known(k)' /\ Current(k)'
    <3>1. Known(k)'
      BY <1>0, <1>1, <2>1, <2>4, SameVars DEF Kept, Known
    <3>2. Current(k)'
      <4>1. CASE refresh'.pc = "decide"
        BY <4>1 DEF Current
      <4>2. CASE refresh'.pc = "idle"
        <5>1. Selected[k] # Absent /\ k \notin userSet => generated[k] \in {Absent, Selected[k]}
          BY <1>2, <4>2 DEF Changed
        <5>2. boot # "down" /\ k \notin userSet => generated[k] # Absent
          BY <2>1, <2>4 DEF Kept, Known
        <5> QED
          BY <1>0, <1>1, <5>1, <5>2, SameVars DEF Current
      <4> QED
        BY <1>2, <4>1, <4>2
    <3> QED
      BY <3>1, <3>2
  <2> QED
    BY <2>2, <2>3, <2>4 DEF Kept
<1> QED
  BY <1>0, <1>3, <1>4, <1>5, SameVars DEF RestInv, ChannelInv

\* What still holds its default is to be written, and expected to be notified of.
LEMMA DecideRest == ASSUME ChannelInv, Decide PROVE RestInv'
<1>0. /\ StepsInv /\ UNCHANGED vars /\ refresh.pc = "decide"
      /\ generated \in [ChannelKeys -> Entry] /\ pending \in [ChannelKeys -> Entry]
      /\ refresh.selected \in [ChannelKeys -> Entry]
  BY DEF ChannelInv, Decide, StepsInv, ChannelTypes
<1>1. /\ dbc' = dbc /\ ready' = ready /\ readies' = readies /\ reports' = reports
      /\ Selected' = Selected /\ origin' = origin
  BY SameSelected DEF Decide, dashboard
<1>2. \A k \in ChannelKeys :
         /\ generated'[k] = IF k \in ToUpdate THEN refresh.selected[k] ELSE generated[k]
         /\ pending'[k] = IF k \in ToUpdate THEN refresh.selected[k] ELSE pending[k]
  BY DEF Decide
<1>3. /\ refresh' \in [pc : {"idle", "select", "decide", "write"},
                       selected : [ChannelKeys -> Entry], previous : [ChannelKeys -> Entry],
                       todo : SUBSET ChannelKeys]
      /\ refresh'.pc \in {"idle", "write"}
      /\ refresh'.pc = "write" => /\ refresh'.todo = ToUpdate /\ refresh'.previous = generated
                                  /\ refresh'.selected = refresh.selected
      /\ refresh'.pc = "idle" => ToUpdate = {}
  <2>1. CASE ToUpdate = {}
    <3>1. refresh' = NoRefresh
      BY <2>1 DEF Decide
    <3> QED
      BY <2>1, <3>1, ChannelConstants
  <2>2. CASE ToUpdate # {}
    <3>1. refresh' = [refresh EXCEPT !.pc = "write", !.previous = generated, !.todo = ToUpdate]
      BY <2>2 DEF Decide
    <3>2. ToUpdate \subseteq ChannelKeys
      BY DEF ToUpdate
    <3> QED
      BY <1>0, <3>1, <3>2 DEF StepsInv, ChannelTypes
  <2> QED
    BY <2>1, <2>2
<1>4. \A k \in ChannelKeys : ToWrite(k)' <=> k \in ToUpdate
  BY <1>3 DEF ToWrite
<1>5. ChannelTypes'
  <2>1. generated' \in [ChannelKeys -> Entry] /\ pending' \in [ChannelKeys -> Entry]
    BY <1>0 DEF Decide
  <2> QED
    BY <1>0, <1>1, <1>3, <2>1 DEF StepsInv, ChannelTypes
<1>6. InOrder' /\ Listening'
  BY <1>0, <1>1, <1>3, SameVars DEF StepsInv, InOrder, Listening
<1>7. Patient => OneReport'
  BY <1>0, <1>1, <1>3 DEF ChannelInv, OneReport
<1>8. ASSUME NEW k \in ChannelKeys
      PROVE  Kept(k)'
  <2>1. /\ Kept(k) /\ ~ToWrite(k) /\ None[k] = Absent /\ k \in Keys
        /\ Patient => pending[k] = Absent /\ refresh.selected[k] = Selected[k]
    BY <1>0, ChannelConstants, ChannelKey DEF ChannelInv, ToWrite, OneReport
  <2>2. k \in ToUpdate => /\ refresh.selected[k] # Absent /\ k \notin userSet
                          /\ generated[k] # Absent /\ hash[k] = generated[k]
    BY DEF ToUpdate
  <2>3. FlagAnswered(k)' /\ WritesDefault(k)' /\ FileChosen(k)' /\ AsWritten(k)'
    <3>1. FlagAnswered(k)'
      BY <1>0, <1>2, <1>4, <2>1, SameVars DEF Kept, FlagAnswered
    <3>2. WritesDefault(k)'
      BY <1>0, <1>2, <1>3, <1>4, <2>2, SameVars DEF WritesDefault, ToWrite
    <3>3. FileChosen(k)' /\ AsWritten(k)'
      BY <1>0, <1>1, <2>1, SameVars DEF Kept, FileChosen, AsWritten
    <3> QED
      BY <3>1, <3>2, <3>3
  <2>4. ASSUME Patient, origin'[k] = "own"
        PROVE  OwnName(k)'
    <3>1. OwnName(k) /\ ~InChannel(k)
      BY <1>1, <2>1, <2>4 DEF Kept, OwnName
    <3> QED
      BY <1>0, <3>1, SameVars DEF OwnName
  <2>5. ASSUME Patient, Listened, ChannelsHaveDefaults
        PROVE  Known(k)' /\ Current(k)'
    <3>1. CASE k \in ToUpdate
      <4>1. /\ generated'[k] = Selected[k] /\ pending'[k] = Selected[k] /\ Selected[k] # Absent
            /\ refresh'.previous[k] = generated[k] /\ ToWrite(k)'
        BY <1>2, <1>3, <1>4, <2>1, <2>2, <2>5, <3>1 DEF ToWrite
      <4> QED
        BY <1>0, <1>1, <2>2, <3>1, <4>1, SameVars DEF Known, Current
    <3>2. CASE k \notin ToUpdate
      <4>1. generated'[k] = generated[k] /\ pending'[k] = pending[k] /\ ~ToWrite(k)'
        BY <1>2, <1>4, <3>2
      <4>2. Known(k)'
        BY <1>0, <2>1, <2>5, <4>1, SameVars DEF Kept, Known
      <4>3. Current(k)'
        <5>1. ASSUME boot # "down", k \notin userSet, Selected[k] # Absent
              PROVE  generated[k] = Selected[k] \/ EditComes(k)
          <6>1. generated[k] # Absent /\ (EditComes(k) \/ hash[k] = generated[k])
            BY <2>1, <2>5, <5>1 DEF Kept, Known
          <6>2. hash[k] # generated[k] \/ hash[k] = Selected[k]
            BY <2>1, <2>5, <3>2, <5>1, <6>1 DEF ToUpdate
          <6> QED
            BY <6>1, <6>2
        <5> QED
          BY <1>0, <1>1, <2>1, <2>5, <4>1, <5>1, SameVars DEF Current
      <4> QED
        BY <4>2, <4>3
    <3> QED
      BY <3>1, <3>2
  <2> QED
    BY <2>3, <2>4, <2>5 DEF Kept
<1> QED
  BY <1>0, <1>5, <1>6, <1>7, <1>8, SameVars DEF RestInv, ChannelInv


\* One field less is to be written.
OneLess(j) ==
    /\ refresh' \in [pc : {"idle", "select", "decide", "write"},
                     selected : [ChannelKeys -> Entry], previous : [ChannelKeys -> Entry],
                     todo : SUBSET ChannelKeys]
    /\ refresh'.pc \in {"idle", "write"}
    /\ refresh'.pc = "write" => /\ refresh'.selected = refresh.selected
                                /\ refresh'.previous = refresh.previous
    /\ \A k \in ChannelKeys : ToWrite(k)' <=> (ToWrite(k) /\ k # j)

LEMMA WrittenLess ==
    ASSUME StepsInv, refresh.pc = "write", NEW j \in ChannelKeys, j \in refresh.todo, Written(j)
    PROVE  OneLess(j)
<1>0. refresh \in [pc : {"idle", "select", "decide", "write"},
                   selected : [ChannelKeys -> Entry], previous : [ChannelKeys -> Entry],
                   todo : SUBSET ChannelKeys]
  BY DEF StepsInv, ChannelTypes
<1>1. CASE refresh.todo = {j}
  <2>1. refresh' = NoRefresh
    BY <1>1 DEF Written
  <2> QED
    BY <1>1, <2>1, ChannelConstants DEF ToWrite, OneLess
<1>2. CASE refresh.todo # {j}
  <2>1. refresh' = [refresh EXCEPT !.todo = @ \ {j}]
    BY <1>2 DEF Written
  <2> QED
    BY <1>0, <2>1 DEF ToWrite, OneLess
<1> QED
  BY <1>1, <1>2

\* A default is written, which puts its name in the channel, the only one there.
LEMMA WriteDefaultRest ==
    ASSUME ChannelInv, NEW j \in ChannelKeys, WriteDefault(j)
    PROVE  RestInv'
<1>0. /\ StepsInv /\ TypeOK /\ j \in Keys /\ channel \in Seq(Keys) /\ hash \in [Keys -> Entry]
      /\ readies \in Seq(Nat) /\ Kept(j)
  BY ChannelKey DEF ChannelInv, StepsInv, ChannelTypes, TypeInv, TypeOK, Files
<1>1. /\ refresh.pc = "write" /\ j \in refresh.todo /\ ToWrite(j) /\ Written(j)
      /\ SetField(j, refresh.selected[j]) /\ channel' = Published(<<j>>)
      /\ hash' = [hash EXCEPT ![j] = refresh.selected[j]]
      /\ <<j>> \in Seq(Keys)
  BY <1>0 DEF WriteDefault, ToWrite, SetField
<1>2. /\ toml' = toml /\ userSet' = userSet /\ boot' = boot /\ watcher' = watcher
      /\ unpublished' = unpublished /\ faults' = faults
      /\ Subscribed' = Subscribed /\ Subscribed /\ boot # "down"
  <2>1. watcher' = watcher
    BY DEF WriteDefault
  <2> QED
    BY <1>0, <1>1, <2>1, Refreshing DEF WriteDefault, files, memory, clients, failures, Subscribed
<1>3. /\ dbc' = dbc /\ ready' = ready /\ readies' = readies /\ reports' = reports
      /\ generated' = generated /\ pending' = pending /\ Selected' = Selected
  BY SameSelected DEF WriteDefault, dashboard
<1>4. /\ OneLess(j)
      /\ origin \in [ChannelKeys -> {"own", "client", "overwritten"}]
      /\ origin' = [origin EXCEPT ![j] = IF @ = "own" THEN "own" ELSE "overwritten"]
  BY <1>0, <1>1, WrittenLess DEF WriteDefault, StepsInv, ChannelTypes
<1>5. /\ channel' \in Seq(Keys) /\ Len(channel') >= Len(channel)
      /\ Len(channel) \in Nat /\ Len(channel') \in Nat
      /\ channel' = Append(channel, j)
  <2>1. channel' = channel \o <<j>>
    BY <1>1, <1>2 DEF Published, Subscribed
  <2> QED
    BY <1>0, <2>1
<1>6. ChannelTypes' /\ Listening'
  BY <1>0, <1>1, <1>2, <1>3, <1>4 DEF StepsInv, ChannelTypes, Listening, OneLess
<1>7. InOrder'
  <2>1. \A i \in DOMAIN readies : readies[i] \in Nat
    BY <1>0
  <2> QED
    BY <1>0, <1>3, <1>5, <2>1 DEF StepsInv, InOrder
<1>8. Patient => OneReport'
  BY <1>1, <1>3, <1>4 DEF ChannelInv, OneReport, OneLess
<1>9. /\ j \notin userSet /\ refresh.selected[j] # Absent
      /\ generated[j] = refresh.selected[j] /\ pending[j] = refresh.selected[j]
      /\ hash'[j] = refresh.selected[j] /\ ~ToWrite(j)' /\ InChannel(j)'
  <2>1. InChannel(j)'
    BY <1>0, <1>1, <1>2, SetNames
  <2> QED
    BY <1>0, <1>1, <1>4, <2>1 DEF Kept, WritesDefault, OneLess
<1>10. Kept(j)'
  <2>1. FlagAnswered(j)' /\ WritesDefault(j)'
    BY <1>9 DEF FlagAnswered, WritesDefault
  <2>2. FileChosen(j)' /\ AsWritten(j)' /\ (origin'[j] = "own" => origin[j] = "own")
    BY <1>0, <1>2, <1>4, <1>9 DEF Kept, FileChosen, AsWritten
  <2>3. ASSUME Patient, origin'[j] = "own"
        PROVE  OwnName(j)'
    <3>1. OwnName(j) /\ ~InChannel(j)
      BY <1>0, <1>1, <2>2, <2>3 DEF Kept, OwnName
    <3>2. \A i \in 1..Len(channel') : channel'[i] = j => i = Len(channel')
      BY <1>0, <1>5, <3>1 DEF InChannel
    <3>3. Once(j)'
      BY <3>2 DEF Once
    <3>4. ~AtKey(j)'
      BY <1>2, <3>1 DEF AtKey, OwnName
    <3> QED
      BY <1>2, <1>3, <1>9, <3>1, <3>3, <3>4 DEF OwnName
  <2>4. ASSUME Patient, Listened, ChannelsHaveDefaults
        PROVE  Known(j)' /\ Current(j)'
    <3>1. Known(j)'
      BY <1>3, <1>9 DEF Known
    <3>2. Known(j) /\ Current(j) /\ (Patient => refresh.selected = Selected)
      BY <1>0, <1>1, <2>4 DEF Kept, ChannelInv, OneReport
    <3>3. Current(j)'
      BY <1>3, <1>9, <2>4, <3>2 DEF Current
    <3> QED
      BY <3>1, <3>3
  <2> QED
    BY <2>1, <2>2, <2>3, <2>4 DEF Kept
<1>11. ASSUME NEW k \in ChannelKeys, k # j
       PROVE  Kept(k)'
  <2>1. /\ k \in Keys /\ Kept(k) /\ (ToWrite(k)' <=> ToWrite(k))
        /\ hash'[k] = hash[k] /\ (InChannel(k) <=> InChannel(k)') /\ (Once(k) => Once(k)')
        /\ origin'[k] = origin[k]
    BY <1>0, <1>1, <1>4, <1>11, OtherSet, ChannelKey DEF ChannelInv, OneLess
  <2>2. ToWrite(k) => /\ refresh'.selected[k] = refresh.selected[k]
                      /\ refresh'.previous[k] = refresh.previous[k]
    BY <1>4, <2>1 DEF OneLess, ToWrite
  <2>3. EditComes(k) => EditComes(k)'
    BY <1>2, <2>1 DEF EditComes, Noticed
  <2>4. FlagAnswered(k)' /\ WritesDefault(k)' /\ FileChosen(k)' /\ AsWritten(k)'
    BY <1>2, <1>3, <2>1, <2>2 DEF Kept, FlagAnswered, WritesDefault, FileChosen, AsWritten
  <2>5. ASSUME Patient, origin'[k] = "own"
        PROVE  OwnName(k)'
    <3>1. OwnName(k) /\ ~AtKey(k)'
      BY <1>2, <2>1, <2>5 DEF Kept, OwnName, AtKey
    <3> QED
      BY <1>2, <1>3, <2>1, <3>1 DEF OwnName
  <2>6. ASSUME Patient, Listened, ChannelsHaveDefaults
        PROVE  Known(k)' /\ Current(k)'
    <3>1. Known(k)'
      BY <1>2, <1>3, <2>1, <2>2, <2>3, <2>6 DEF Kept, Known
    <3>2. Current(k)'
      BY <1>1, <1>2, <1>3, <2>1, <2>3, <2>6 DEF Kept, Current
    <3> QED
      BY <3>1, <3>2
  <2> QED
    BY <2>4, <2>5, <2>6 DEF Kept
<1> QED
  BY <1>2, <1>6, <1>7, <1>8, <1>10, <1>11 DEF RestInv, ChannelInv

\* A write fails: the default is the previous one again, which is still in use.
LEMMA WriteFailsRest ==
    ASSUME ChannelInv, NEW j \in ChannelKeys, WriteFails(j)
    PROVE  RestInv'
<1>0. /\ StepsInv /\ j \in Keys /\ faults \in Nat /\ refresh.previous \in [ChannelKeys -> Entry]
      /\ generated \in [ChannelKeys -> Entry] /\ pending \in [ChannelKeys -> Entry]
  BY BoundsAssumption, ChannelKey DEF ChannelInv, StepsInv, ChannelTypes, TypeInv, TypeOK
<1>1. /\ refresh.pc = "write" /\ j \in refresh.todo /\ ToWrite(j) /\ Written(j)
      /\ pending' = [pending EXCEPT ![j] = Absent]
      /\ generated' = [generated EXCEPT ![j] = refresh.previous[j]]
      /\ faults' # 0
  BY <1>0 DEF WriteFails, ToWrite
<1>2. /\ toml' = toml /\ userSet' = userSet /\ boot' = boot /\ watcher' = watcher
      /\ unpublished' = unpublished /\ origin' = origin
      /\ hash' = hash /\ channel' = channel /\ Subscribed' = Subscribed
  BY DEF WriteFails, redis, files, memory, clients, Subscribed
<1>3. /\ dbc' = dbc /\ ready' = ready /\ readies' = readies /\ reports' = reports
      /\ Selected' = Selected
  BY SameSelected DEF WriteFails, dashboard
<1>4. OneLess(j)
  BY <1>0, <1>1, WrittenLess
<1>5. ChannelTypes' /\ Listening' /\ InOrder'
  <2>1. pending' \in [ChannelKeys -> Entry] /\ generated' \in [ChannelKeys -> Entry]
    BY <1>0, <1>1 DEF Entry
  <2> QED
    BY <1>0, <1>1, <1>2, <1>3, <1>4, <2>1 DEF StepsInv, ChannelTypes, Listening, InOrder, OneLess
<1>6. Patient => OneReport'
  BY <1>1, <1>3, <1>4 DEF ChannelInv, OneReport, OneLess
<1>7. ASSUME NEW k \in ChannelKeys
      PROVE  Kept(k)'
  <2>1. /\ k \in Keys /\ Kept(k) /\ (ToWrite(k)' <=> (ToWrite(k) /\ k # j))
        /\ (InChannel(k) <=> InChannel(k)') /\ (Once(k) => Once(k)')
    BY <1>2, <1>4, ChannelKey, SameQuiet DEF ChannelInv, OneLess
  <2>2. ToWrite(k)' => /\ refresh'.selected[k] = refresh.selected[k]
                       /\ refresh'.previous[k] = refresh.previous[k]
    BY <1>4 DEF OneLess, ToWrite
  <2>3. EditComes(k) => EditComes(k)'
    BY <1>2, <2>1 DEF EditComes, Noticed
  <2>4. /\ pending'[k] = IF k = j THEN Absent ELSE pending[k]
        /\ generated'[k] = IF k = j THEN refresh.previous[k] ELSE generated[k]
    BY <1>0, <1>1
  <2>5. FlagAnswered(k)' /\ WritesDefault(k)' /\ FileChosen(k)' /\ AsWritten(k)'
    BY <1>2, <2>1, <2>2, <2>4 DEF Kept, FlagAnswered, WritesDefault, FileChosen, AsWritten
  <2>6. ASSUME Patient, origin'[k] = "own"
        PROVE  OwnName(k)'
    <3>1. OwnName(k) /\ ~AtKey(k)' /\ (k = j => ~InChannel(k))
      BY <1>1, <1>2, <2>1, <2>6 DEF Kept, OwnName, AtKey
    <3> QED
      BY <1>2, <2>1, <2>4, <3>1 DEF OwnName
  <2>7. ASSUME Patient, Listened, ChannelsHaveDefaults
        PROVE  Known(k)' /\ Current(k)'
    <3>1. Known(k)'
      BY <1>1, <1>2, <2>1, <2>2, <2>3, <2>4, <2>7 DEF Kept, Known
    <3> QED
      BY <1>1, <3>1 DEF Current
  <2> QED
    BY <2>5, <2>6, <2>7 DEF Kept
<1> QED
  BY <1>2, <1>5, <1>6, <1>7 DEF RestInv, ChannelInv


--------------------------------------------------------------------------------
(* The dashboard, boot and the end of the service.                              *)

LEMMA ReportsRest == ASSUME ChannelInv, DashboardReports PROVE RestInv'
<1>0. /\ StepsInv /\ UNCHANGED vars /\ readies \in Seq(Nat) /\ Len(channel) \in Nat
      /\ reports \in 0..MaxReports /\ reports < MaxReports /\ reports' = reports + 1
  BY DEF DashboardReports, ChannelInv, StepsInv, ChannelTypes, TypeInv, TypeOK
<1>1. generated' = generated /\ pending' = pending /\ refresh' = refresh /\ origin' = origin
  BY DEF DashboardReports, channelMemory
<1>2. Patient => refresh.pc = "idle" /\ readies = <<>> /\ pending = None
  BY DEF DashboardReports, QuietChannels
<1>3. dbc' \in Versions /\ ready' \in BOOLEAN
  <2>1. CASE \E v \in DbcVersions : dbc' = v /\ ready' = TRUE
    BY <2>1, ChannelAssumption
  <2>2. CASE ready' = FALSE /\ dbc' = dbc
    BY <1>0, <2>2 DEF StepsInv, ChannelTypes
  <2> QED
    BY <2>1, <2>2 DEF DashboardReports
<1>4. readies' = IF Subscribed THEN Append(readies, Len(channel)) ELSE readies
  BY DEF DashboardReports
<1>5. readies' \in Seq(Nat)
  BY <1>0, <1>4
<1>6. ChannelTypes'
  <2>1. reports' \in 0..MaxReports
    BY <1>0, ChannelAssumption
  <2> QED
    BY <1>0, <1>1, <1>3, <1>5, <2>1 DEF StepsInv, ChannelTypes
<1>7. InOrder'
  <2>1. /\ \A i \in DOMAIN readies : readies[i] <= Len(channel) /\ readies[i] \in Nat
        /\ \A i, j \in DOMAIN readies : i <= j => readies[i] <= readies[j]
    BY <1>0 DEF StepsInv, InOrder
  <2>2. CASE readies' = Append(readies, Len(channel))
    <3>1. /\ Len(readies') = Len(readies) + 1 /\ Len(readies) \in Nat
          /\ DOMAIN readies' = 1..Len(readies') /\ DOMAIN readies = 1..Len(readies)
          /\ readies'[Len(readies')] = Len(channel)
          /\ \A i \in DOMAIN readies : readies'[i] = readies[i]
      BY <1>0, <2>2
    <3>2. \A i \in DOMAIN readies' : i \in DOMAIN readies \/ i = Len(readies')
      BY <3>1
    <3>3. \A i \in DOMAIN readies' : readies'[i] <= Len(channel)
      BY <1>0, <2>1, <3>1, <3>2
    <3>4. ASSUME NEW i \in DOMAIN readies', NEW j \in DOMAIN readies', i <= j
          PROVE  readies'[i] <= readies'[j]
      <4>1. CASE j = Len(readies')
        BY <3>1, <3>3, <4>1
      <4>2. CASE j # Len(readies')
        <5>1. i \in DOMAIN readies /\ j \in DOMAIN readies
          BY <3>1, <3>2, <3>4, <4>2
        <5> QED
          BY <2>1, <3>1, <3>4, <5>1
      <4> QED
        BY <4>1, <4>2
    <3> QED
      BY <1>0, <3>3, <3>4, SameVars DEF InOrder
  <2>3. CASE readies' = readies
    BY <1>0, <2>1, <2>3, SameVars DEF InOrder
  <2> QED
    BY <1>4, <2>2, <2>3
<1>8. Listening'
  BY <1>0, <1>1, SameVars DEF StepsInv, Listening
<1>9. Patient => OneReport'
  <2>1. Patient /\ readies' # <<>> => Len(readies') = 1
    BY <1>2, <1>4
  <2> QED
    BY <1>1, <1>2, <2>1 DEF OneReport
<1>10. ASSUME NEW k \in ChannelKeys
       PROVE  Kept(k)'
  <2>1. Kept(k) /\ (ToWrite(k)' <=> ToWrite(k))
    BY <1>1 DEF ChannelInv, ToWrite
  <2>2. FlagAnswered(k)' /\ WritesDefault(k)' /\ FileChosen(k)' /\ AsWritten(k)'
    BY <1>0, <1>1, <2>1, SameVars DEF Kept, FlagAnswered, WritesDefault, FileChosen, AsWritten
  <2>3. Patient /\ origin'[k] = "own" => OwnName(k)'
    BY <1>0, <1>1, <2>1, SameVars DEF Kept, OwnName
  <2>4. ASSUME Patient, Listened, ChannelsHaveDefaults
        PROVE  Known(k)' /\ Current(k)'
    <3>1. Known(k)'
      BY <1>0, <1>1, <2>1, <2>4, SameVars DEF Kept, Known
    <3>2. Subscribed \/ boot = "down"
      BY <2>4 DEF DashboardReports, Listened
    <3>3. Subscribed => readies' # <<>>
      BY <1>0, <1>4
    <3>4. Current(k)'
      BY <1>0, <3>2, <3>3, SameVars DEF Current
    <3> QED
      BY <3>1, <3>4
  <2> QED
    BY <2>2, <2>3, <2>4 DEF Kept
<1> QED
  BY <1>0, <1>6, <1>7, <1>8, <1>9, <1>10, SameVars DEF RestInv, ChannelInv

\* What is loaded of such a setting is on file; otherwise it has a default, and that
\* of the boards' channels if there is one.
LEMMA LoadRest == ASSUME ChannelInv, LoadChannels PROVE RestInv'
<1>0. /\ StepsInv /\ LoadWith(BootDefault) /\ boot = "down" /\ toml \in [Keys -> Entry]
  BY DEF LoadChannels, LoadWith, ChannelInv, StepsInv, TypeInv, TypeOK, Files
<1>1. /\ ~Subscribed /\ ~Subscribed' /\ channel = <<>> /\ channel' = channel /\ watcher' = watcher
      /\ toml' = toml /\ unpublished' = unpublished
      /\ refresh.pc = "idle" /\ refresh' = refresh /\ watcher.pc = "off"
      /\ userSet' = {k \in Keys : Loaded(k) # Absent}
  <2>1. ~Subscribed /\ watcher' = watcher /\ refresh' = refresh
    BY <1>0 DEF LoadChannels, LoadWith, StepsInv, Phases
  <2>2. refresh.pc = "idle"
    BY <1>0, <2>1, Refreshing
  <2> QED
    BY <1>0, <2>1, <2>2 DEF LoadWith, StepsInv, Listening, Subscribed, files, clients
<1>2. /\ dbc' = dbc /\ ready' = ready /\ readies' = readies /\ reports' = reports
      /\ pending' = None /\ Selected' = Selected
      /\ origin' = [k \in ChannelKeys |-> IF k \in unpublished THEN "overwritten" ELSE "own"]
  BY SameSelected DEF LoadChannels, dashboard
<1>3. ASSUME NEW k \in ChannelKeys
      PROVE  /\ Loaded(k) = toml[k] /\ k \in Keys
             /\ k \in userSet' <=> toml[k] # Absent
             /\ toml[k] # Absent => hash'[k] = toml[k]
             /\ toml[k] = Absent => generated'[k] = BootDefault[k]
             /\ toml[k] = Absent /\ BootDefault[k] # Absent => hash'[k] = BootDefault[k]
             /\ generated'[k] \in Entry
  <2>1. k \in Keys /\ k \notin Transient /\ Valid[k] = Values /\ BootDefault[k] \in Entry
    BY ChannelKey, ChannelConstants DEF Files
  <2>2. Loaded(k) = toml[k]
    BY <1>0, <2>1 DEF Loaded, Dropped, Unsound, IsInvalid, Entry
  <2>3. generated'[k] = IF Loaded(k) = Absent THEN BootDefault[k] ELSE Absent
    BY DEF LoadChannels
  <2>4. hash'[k] = IF Loaded(k) # Absent THEN Loaded(k)
                   ELSE IF BootDefault[k] # Absent THEN BootDefault[k]
                   ELSE IF k \in Transient THEN Absent ELSE hash[k]
    BY <1>0, <2>1 DEF LoadWith
  <2>5. k \in userSet' <=> Loaded(k) # Absent
    BY <1>1, <2>1
  <2> QED
    BY <2>1, <2>2, <2>3, <2>4, <2>5 DEF Entry
<1>4. ChannelTypes'
  <2>1. generated' \in [ChannelKeys -> Entry]
    BY <1>3 DEF LoadChannels
  <2> QED
    BY <1>0, <1>1, <1>2, <2>1, ChannelConstants DEF StepsInv, ChannelTypes
<1>5. Listening' /\ InOrder'
  BY <1>0, <1>1, <1>2 DEF StepsInv, Listening, InOrder, Repairs
<1>6. Patient => OneReport'
  BY <1>1, <1>2 DEF ChannelInv, OneReport
<1>7. ASSUME NEW k \in ChannelKeys
      PROVE  Kept(k)'
  <2>1. ~ToWrite(k)' /\ pending'[k] = Absent /\ ~InChannel(k)'
    BY <1>1, <1>2, ChannelConstants DEF ToWrite, InChannel
  <2>2. FlagAnswered(k)' /\ WritesDefault(k)' /\ FileChosen(k)' /\ AsWritten(k)'
    BY <1>1, <1>2, <1>3, <2>1 DEF FlagAnswered, WritesDefault, FileChosen, AsWritten
  <2>3. origin'[k] = "own" => OwnName(k)'
    BY <1>1, <1>2, <1>3, <2>1 DEF OwnName, AtKey
  <2>4. ASSUME ChannelsHaveDefaults
        PROVE  Known(k)' /\ Current(k)'
    <3>1. BootDefault[k] # Absent /\ (Selected[k] # Absent => BootDefault[k] = Selected[k])
      BY <2>4, ChannelKey DEF ChannelsHaveDefaults
    <3>2. Known(k)'
      BY <1>3, <2>1, <3>1 DEF Known
    <3>3. Current(k)'
      BY <1>2, <1>3, <3>1 DEF Current
    <3> QED
      BY <3>2, <3>3
  <2> QED
    BY <2>2, <2>3, <2>4 DEF Kept
<1> QED
  BY <1>1, <1>4, <1>5, <1>6, <1>7 DEF RestInv, ChannelInv

LEMMA StopRest == ASSUME ChannelInv, CrashChannels \/ RebootChannels PROVE RestInv'
<1>0. StepsInv /\ TypeInv /\ (Crash \/ Reboot) /\ StopChannels
  BY DEF ChannelInv, StepsInv, CrashChannels, RebootChannels
<1>1. /\ boot' = "down" /\ watcher' = WatcherOff /\ channel' = <<>> /\ ~Subscribed'
      /\ watcher'.pc = "off"
  BY <1>0, StopFrame, WatcherConstants
<1>2. unpublished' \subseteq unpublished /\ origin' = origin
  BY <1>0 DEF Crash, Reboot, clients, StopChannels
<1>3. /\ readies' = <<>> /\ generated' = None /\ pending' = None /\ refresh' = NoRefresh
      /\ reports' = reports /\ dbc' \in Versions /\ ready' \in BOOLEAN
  <2>1. dbc' \in Versions /\ ready' \in BOOLEAN
    BY <1>0 DEF StepsInv, ChannelTypes, CrashChannels, RebootChannels, Versions
  <2> QED
    BY <1>0, <2>1 DEF StopChannels
<1>4. ChannelTypes'
  BY <1>0, <1>2, <1>3, ChannelConstants DEF StepsInv, ChannelTypes
<1>5. Listening' /\ InOrder' /\ OneReport'
  BY <1>1, <1>3, ChannelConstants DEF Listening, InOrder, OneReport, Repairs
<1>6. ASSUME NEW k \in ChannelKeys
      PROVE  Kept(k)'
  <2>1. Kept(k) /\ ~ToWrite(k)' /\ ~InChannel(k)' /\ ~AtKey(k)' /\ pending'[k] = Absent
    BY <1>1, <1>3, ChannelConstants DEF ChannelInv, ToWrite, InChannel, AtKey
  <2>2. Patient /\ origin'[k] = "own" => OwnName(k)'
    BY <1>1, <1>2, <2>1 DEF Kept, OwnName
  <2> QED
    BY <1>1, <2>1, <2>2
       DEF Kept, FlagAnswered, WritesDefault, FileChosen, AsWritten, Known, Current
<1> QED
  BY <1>4, <1>5, <1>6 DEF RestInv

--------------------------------------------------------------------------------
(* The theorems.                                                                *)

LEMMA InitChannel == InitChannels => ChannelInv
<1> SUFFICES ASSUME InitChannels PROVE ChannelInv
  OBVIOUS
<1>1. TypeInv /\ Phases
  BY InitType, InitPhases DEF InitChannels
<1>2. /\ boot = "down" /\ watcher.pc = "off" /\ channel = <<>> /\ unpublished = {}
  BY WatcherConstants DEF InitChannels, Init
<1>3. /\ dbc = Absent /\ ready = FALSE /\ readies = <<>> /\ reports = 0
      /\ generated = None /\ pending = None /\ refresh = NoRefresh
      /\ origin = [k \in ChannelKeys |-> "own"]
  BY DEF InitChannels
<1>4. ChannelTypes
  <2>1. reports \in 0..MaxReports /\ dbc \in Versions
    BY <1>3, ChannelAssumption DEF Versions
  <2>2. readies = <<>> /\ readies \in Seq(Nat)
    BY <1>3
  <2>3. ready \in BOOLEAN
    BY <1>3
  <2>4. generated \in [ChannelKeys -> Entry] /\ pending \in [ChannelKeys -> Entry]
    BY <1>3, ChannelConstants
  <2> QED
    BY <1>3, <2>1, <2>2, <2>3, <2>4, ChannelConstants DEF ChannelTypes
<1>5. Listening /\ InOrder /\ OneReport
  BY <1>2, <1>3, ChannelConstants DEF Listening, InOrder, OneReport, Repairs
<1>6. ASSUME NEW k \in ChannelKeys
      PROVE  Kept(k)
  BY <1>2, <1>3, ChannelConstants
     DEF Kept, FlagAnswered, WritesDefault, FileChosen, AsWritten, OwnName, AtKey, Known, Current,
         ToWrite, InChannel
<1> QED
  BY <1>1, <1>2, <1>4, <1>5, <1>6 DEF ChannelInv, StepsInv

LEMMA NextChannel == ASSUME ChannelInv, [NextChannels]_allVars PROVE ChannelInv'
<1>0. StepsInv
  BY DEF ChannelInv
<1>1. CASE BootRest
  <2>1. [Next]_vars /\ channelVars' = channelVars
    BY <1>1 DEF BootRest, Next, Boot
  <2> QED
    BY <1>0, <1>1, <2>1, BootPassive, PassiveRest, NextTypes DEF RestInv, ChannelInv, StepsInv
<1>2. CASE ConsumerOfChannels
  <2>1. [Next]_vars /\ channelVars' = channelVars
    BY <1>2 DEF ConsumerOfChannels, Next
  <2> QED
    BY <1>0, <1>2, <2>1, ConsumerPassive, PassiveRest, NextTypes DEF RestInv, ChannelInv, StepsInv
<1>3. CASE WatcherRest
  <2>1. [Next]_vars /\ channelVars' = channelVars
    BY <1>3 DEF WatcherRest, Next, Watcher
  <2> QED
    BY <1>0, <1>3, <2>1, WatcherPassive, PassiveRest, NextTypes DEF RestInv, ChannelInv, StepsInv
<1>4. CASE WaitChannels \/ UNCHANGED allVars
  <2>1. UNCHANGED allVars
    BY <1>4 DEF WaitChannels, Wait, allVars
  <2> QED
    BY <1>0, <2>1, WaitRest, NextTypes DEF RestInv, ChannelInv, StepsInv
<1>5. CASE LoadChannels \/ ReceiveName \/ MarkChoice \/ ReceiveReady \/ Select \/ Decide
  BY <1>0, <1>5, LoadRest, ReceiveNameRest, MarkChoiceRest, ReceiveReadyRest, SelectRest, DecideRest,
     NextTypes DEF RestInv, ChannelInv, StepsInv
<1>6. CASE \E k \in ChannelKeys : WriteDefault(k) \/ WriteFails(k)
  BY <1>0, <1>6, WriteDefaultRest, WriteFailsRest, NextTypes DEF RestInv, ChannelInv, StepsInv
<1>7. CASE ClientOfChannels \/ DashboardReports \/ CrashChannels \/ RebootChannels
  BY <1>0, <1>7, ClientRest, ReportsRest, StopRest, NextTypes DEF RestInv, ChannelInv, StepsInv
<1> QED
  BY <1>1, <1>2, <1>3, <1>4, <1>5, <1>6, <1>7 DEF NextChannels, WatcherOfChannels, Refresh

\* The invariant of the channel defaults; its parts say what they need of the clients.
THEOREM ChannelInvariance == ChannelSpec => []ChannelInv
<1>1. ChannelInv /\ [NextChannels]_allVars => ChannelInv'
  BY NextChannel
<1>2. ChannelInv /\ [NextChannels]_<<vars, channelVars>> => ChannelInv'
  BY <1>1 DEF allVars
<1> QED
  BY InitChannel, <1>2, PTL DEF ChannelSpec

\* Every variable keeps its type.
THEOREM ChannelTypeCorrect == ChannelSpec => []ChannelTypeOK
<1>1. ChannelInv => ChannelTypeOK
  BY DEF ChannelInv, StepsInv, TypeInv, ChannelTypes, ChannelTypeOK
<1> QED
  BY <1>1, ChannelInvariance, PTL

\* At rest the service expects no notification of its own, so that it will not take
\* a user's next edit for one: of every flag the notification is in the channel, or
\* the write that it will come of is due.
THEOREM NoFlagIsLeft == ChannelSpec => []NoFlagLeft
<1>1. ChannelInv => NoFlagLeft
  <2> SUFFICES ASSUME ChannelInv, Settled PROVE pending = None
    BY DEF NoFlagLeft
  <2>1. channel = <<>> /\ refresh.pc = "idle" /\ pending \in [ChannelKeys -> Entry]
    BY DEF Settled, QuietChannels, Quiescent, AtRest, ChannelInv, StepsInv, ChannelTypes
  <2>2. \A k \in ChannelKeys : pending[k] = Absent
    BY <2>1 DEF ChannelInv, Kept, FlagAnswered, ToWrite, InChannel
  <2> QED
    BY <2>1, <2>2 DEF None
<1> QED
  BY <1>1, ChannelInvariance, PTL

\* At rest a setting that no user has chosen has the default of the boards' channels,
\* and the service knows it as its own, whatever reports, edits, faults and crashes
\* came before.
THEOREM DefaultIsInForce ==
    ASSUME Patient, Listened, ChannelsHaveDefaults
    PROVE  ChannelSpec => []ChannelDefaultInForce
<1>1. ChannelInv => ChannelDefaultInForce
  <2> SUFFICES ASSUME ChannelInv, Settled, NEW k \in ChannelKeys \ userSet
               PROVE  /\ ready /\ Selected[k] # Absent /\ faults = 0 => hash[k] = Selected[k]
                      /\ generated[k] = hash[k]
    BY DEF ChannelDefaultInForce
  <2>1. /\ boot = "up" /\ watcher.pc = "idle" /\ channel = <<>> /\ unpublished = {}
        /\ refresh.pc = "idle" /\ readies = <<>>
    BY DEF Settled, QuietChannels, Quiescent, AtRest, At
  <2>2. ~EditComes(k) /\ ~ToWrite(k)
    BY <2>1 DEF EditComes, Noticed, InChannel, ToWrite
  <2>3. Known(k) /\ Current(k)
    BY DEF ChannelInv, Kept
  <2>4. generated[k] = hash[k]
    BY <2>1, <2>2, <2>3 DEF Known
  <2> QED
    BY <2>1, <2>2, <2>3, <2>4 DEF Current
<1> QED
  BY <1>1, ChannelInvariance, PTL

\* What gets on file for a setting with channel defaults is a client's: nothing until
\* a client has written it, and then what the client wrote, unless a default was
\* written over an edit that the watcher had not come to.
THEOREM OnlyChoicesGetOnFile ==
    ASSUME Patient
    PROVE  ChannelSpec => OnlyChoicesOnFile
<1> DEFINE ChosenByUser == \A k \in ChannelKeys : toml'[k] # toml[k] =>
             /\ origin[k] # "own"
             /\ toml[k] # Absent \/ origin[k] = "client" => toml'[k] \in EditValues[k]
<1>1. ASSUME ChannelInv, [NextChannels]_allVars
      PROVE  ChosenByUser
  <2> SUFFICES ASSUME NEW k \in ChannelKeys, toml'[k] # toml[k]
               PROVE  /\ origin[k] # "own"
                      /\ toml[k] # Absent \/ origin[k] = "client" => toml'[k] \in EditValues[k]
    OBVIOUS
  <2>0. StepsInv /\ Kept(k)
    BY <1>1 DEF ChannelInv
  <2>1. [Next]_vars
    <3>1. CASE LoadChannels
      BY <3>1 DEF LoadChannels, LoadWith, files
    <3>2. CASE ReceiveName /\ Recognised
      BY <3>2 DEF ReceiveName, files
    <3>3. CASE \E j \in ChannelKeys : WriteDefault(j) \/ WriteFails(j)
      BY <3>3 DEF WriteDefault, WriteFails, files
    <3> QED
      BY <1>1, <3>1, <3>2, <3>3, StepOf
  <2>2. boot # "down" /\ toml'[k] = IF k \in userSet THEN hash[k] ELSE Absent
    BY <2>0, <2>1, ChannelFile
  <2>3. toml[k] # Absent => k \in userSet /\ hash[k] \in {toml[k]} \union EditValues[k]
    BY <2>0, <2>2 DEF Kept, FileChosen
  <2>4. toml[k] # Absent => toml'[k] \in EditValues[k]
    BY <2>2, <2>3
  <2>5. origin[k] = "client" => hash[k] \in EditValues[k]
    BY <2>0, <2>2 DEF Kept, AsWritten
  <2>6. origin[k] # "own"
    BY <2>0, <2>2, <2>3 DEF Kept, OwnName
  <2> QED
    BY <2>2, <2>3, <2>4, <2>5, <2>6
<1>2. ChannelInv /\ [NextChannels]_<<vars, channelVars>> => [ChosenByUser]_<<vars, channelVars>>
  BY <1>1 DEF allVars
<1> QED
  BY <1>2, ChannelInvariance, PTL DEF OnlyChoicesOnFile, ChannelSpec

================================================================================
