---------------------------- MODULE ChannelDefaults ----------------------------
(* internal/service/channel_defaults.go: settings whose default depends on the  *)
(* release channels of the two boards, on top of SettingsService.  The default  *)
(* is chosen at boot and once more whenever the dashboard says it is ready; the  *)
(* watcher goroutine writes it and must recognise its own notification, or it    *)
(* would keep the default as a user's choice.                                    *)
(*                                                                               *)
(* One subscription delivers the messages of "settings" and of "dashboard" in    *)
(* the order they were published.  A version is the prefix its channel is        *)
(* inferred from.                                                                *)
EXTENDS SettingsService

CONSTANTS ChannelKeys,      \* the settings with channel-defaults in the schema
          ChannelDefault,   \* for each of them, the value of some channels
          LocalVersion,     \* VERSION_ID in /etc/os-release
          DbcVersions,      \* the versions a dashboard reports
          True, False,      \* the Redis form of the two Booleans
          MaxReports        \* bound: reports of the dashboard

Channels == {"stable", "testing", "nightly"}
Versions == {"v", "0-9", "testing-", "nightly-", "custom-nightly-", "other", Absent}

\* A Boolean setting has no format and no enum, and service mode forces none.
ASSUME ChannelAssumption ==
    /\ ChannelKeys \subseteq Keys \ (OverlayKeys \union Transient)
    /\ \A k \in ChannelKeys : /\ Valid[k] = Values
                              /\ DOMAIN ChannelDefault[k] \subseteq Channels
                              /\ \A c \in DOMAIN ChannelDefault[k] : ChannelDefault[k][c] \in BOOLEAN
    /\ {True, False} \subseteq Values /\ True # False
    /\ LocalVersion \in Versions /\ DbcVersions \subseteq Versions
    /\ MaxReports \in Nat

VARIABLES dbc,         \* version:dbc[version_id]
          ready,       \* dashboard[ready]
          readies,     \* "ready" on channel "dashboard": how many names are before each
          generated,   \* SettingsService.generatedChannelDefaults
          pending,     \* SettingsService.pendingGeneratedNotifications
          refresh,     \* the watcher within refreshChannelDefaults
          reports,
          origin       \* history: who wrote what each field holds

dashboard == <<dbc, ready, readies, reports>>
channelMemory == <<generated, pending, refresh>>
channelVars == <<dashboard, channelMemory, origin>>

None == [k \in ChannelKeys |-> Absent]
NoRefresh == [pc |-> "idle", selected |-> None, previous |-> None, todo |-> {}]

ReleaseChannel(version) ==
    CASE version \in {"nightly-", "custom-nightly-"} -> {"nightly"}
      [] version = "testing-"                        -> {"testing"}
      [] version \in {"v", "0-9"}                    -> {"stable"}
      [] OTHER                                       -> {}

\* Schema.ChannelDefaults: TRUE on either board wins.
ChosenFor(k, channels) ==
    LET known == channels \intersect DOMAIN ChannelDefault[k]
    IN IF known = {} THEN Absent
       ELSE IF \E c \in known : ChannelDefault[k][c] THEN True ELSE False

\* selectedChannelDefaults
Selected == [k \in ChannelKeys |->
                ChosenFor(k, ReleaseChannel(LocalVersion) \union ReleaseChannel(dbc))]

--------------------------------------------------------------------------------
(* At boot.                                                                      *)

\* applyInitialChannelDefaults: what is chosen replaces the schema's default.
BootDefault == [k \in Keys |->
    IF k \in ChannelKeys /\ Selected[k] # Absent THEN Selected[k] ELSE Default[k]]

LoadChannels ==
    /\ LoadWith(BootDefault)
    /\ generated' = [k \in ChannelKeys |-> IF Loaded(k) = Absent THEN BootDefault[k] ELSE Absent]
    /\ pending' = None
    /\ origin' = [k \in ChannelKeys |-> IF k \in unpublished THEN "overwritten" ELSE "own"]
    /\ UNCHANGED <<dashboard, refresh>>

--------------------------------------------------------------------------------
(* The watcher.                                                                  *)

ReadyIsNext == readies # <<>> /\ Head(readies) = 0
OneNameLess == readies' = [i \in DOMAIN readies |-> readies[i] - 1]

\* Mutant of Recognised: the service's own notification is not recognised.
RecognisedNever == FALSE

\* Does the field hold what a refresh wrote and expects to be notified of?
Recognised == /\ Head(channel) \in ChannelKeys
              /\ pending[Head(channel)] # Absent
              /\ hash[Head(channel)] = pending[Head(channel)]

\* Mutant of TakeFlag: another writer's notification leaves the flag up.
TakeFlagIfOwn == pending' = [k \in ChannelKeys |->
                     IF k = Head(channel) /\ Recognised THEN Absent ELSE pending[k]]

TakeFlag == pending' = [k \in ChannelKeys |-> IF k = Head(channel) THEN Absent ELSE pending[k]]

\* Mutant of ReceiveName: names and readiness are received in any order.
ReceiveOvertaking ==
    /\ refresh.pc = "idle"
    /\ Receive
    /\ OneNameLess
    /\ TakeFlag
    /\ UNCHANGED <<dbc, ready, reports, generated, refresh, origin>>

\* consumeGeneratedNotification: the first notification after a refresh takes the
\* flag down, and is dropped as the service's own if it is recognised.
ReceiveName ==
    /\ refresh.pc = "idle" /\ ~ReadyIsNext
    /\ At("idle") /\ channel # <<>>
    /\ \/ /\ Recognised
          /\ channel' = Tail(channel)
          /\ UNCHANGED <<hash, status, commands, files, memory, boot, watcher, consumer,
                         clients, failures>>
       \/ ~Recognised /\ Receive
    /\ OneNameLess
    /\ TakeFlag
    /\ UNCHANGED <<dbc, ready, reports, generated, refresh, origin>>

\* refreshChannelDefaultsWhenDashboardReady
ReceiveReady ==
    /\ refresh.pc = "idle" /\ At("idle") /\ ReadyIsNext
    /\ readies' = Tail(readies)
    /\ refresh' = [refresh EXCEPT !.pc = IF ready THEN "select" ELSE "idle"]
    /\ UNCHANGED <<vars, dbc, ready, reports, generated, pending, origin>>

\* Is a default that is in use another one now?
Changed(k) == /\ Selected[k] # Absent /\ k \notin userSet
              /\ generated[k] \notin {Absent, Selected[k]}

Select ==
    /\ refresh.pc = "select"
    /\ refresh' = IF \E k \in ChannelKeys : Changed(k)
                  THEN [refresh EXCEPT !.pc = "decide", !.selected = Selected] ELSE NoRefresh
    /\ UNCHANGED <<vars, dashboard, generated, pending, origin>>

\* The fields that still hold the default they were given.
ToUpdate == {k \in ChannelKeys : /\ refresh.selected[k] # Absent /\ k \notin userSet
                                 /\ generated[k] # Absent
                                 /\ hash[k] = generated[k] /\ hash[k] # refresh.selected[k]}

\* Mutant of Decide: the default that is about to be written is not recorded.
DecideUnrecorded ==
    /\ refresh.pc = "decide"
    /\ pending' = [k \in ChannelKeys |-> IF k \in ToUpdate THEN refresh.selected[k] ELSE pending[k]]
    /\ refresh' = IF ToUpdate = {} THEN NoRefresh
                  ELSE [refresh EXCEPT !.pc = "write", !.previous = generated, !.todo = ToUpdate]
    /\ UNCHANGED <<vars, dashboard, generated, origin>>

\* GetAllSettings and the lock section after it, whose variables are the watcher's.
Decide ==
    /\ refresh.pc = "decide"
    /\ generated' = [k \in ChannelKeys |-> IF k \in ToUpdate THEN refresh.selected[k] ELSE generated[k]]
    /\ pending' = [k \in ChannelKeys |-> IF k \in ToUpdate THEN refresh.selected[k] ELSE pending[k]]
    /\ refresh' = IF ToUpdate = {} THEN NoRefresh
                  ELSE [refresh EXCEPT !.pc = "write", !.previous = generated, !.todo = ToUpdate]
    /\ UNCHANGED <<vars, dashboard, origin>>

Written(k) == refresh' = IF refresh.todo = {k} THEN NoRefresh ELSE [refresh EXCEPT !.todo = @ \ {k}]

\* What was decided is written later, field by field, over whatever is there then.
WriteDefault(k) ==
    /\ refresh.pc = "write" /\ k \in refresh.todo
    /\ SetField(k, refresh.selected[k])
    /\ Written(k)
    /\ origin' = [origin EXCEPT ![k] = IF @ = "own" THEN "own" ELSE "overwritten"]
    /\ UNCHANGED <<status, commands, files, memory, boot, watcher, consumer, clients, failures,
                   dashboard, generated, pending>>

\* The write fails: nothing is expected, and the default is the previous one again.
WriteFails(k) ==
    /\ refresh.pc = "write" /\ k \in refresh.todo
    /\ faults < MaxFaults
    /\ faults' = faults + 1
    /\ pending' = [pending EXCEPT ![k] = Absent]
    /\ generated' = [generated EXCEPT ![k] = refresh.previous[k]]
    /\ Written(k)
    /\ UNCHANGED <<redis, files, memory, boot, watcher, consumer, clients, crashes, dashboard,
                   origin>>

Refresh == ReceiveReady \/ Select \/ Decide \/ \E k \in ChannelKeys : WriteDefault(k) \/ WriteFails(k)

\* markUserSet ends a default.
Forget == generated' = [k \in ChannelKeys |-> IF k = watcher.key THEN Absent ELSE generated[k]]

WatcherRest == /\ \/ Fallback \/ Repair \/ Check \/ ReadField \/ Edit \/ SaveEdit \/ Reassert \/ SaveMark
               /\ UNCHANGED channelVars

MarkChoice == /\ MarkEdit \/ Mark
              /\ Forget
              /\ UNCHANGED <<dashboard, pending, refresh, origin>>

WatcherOfChannels == ReceiveName \/ WatcherRest \/ MarkChoice \/ Refresh

--------------------------------------------------------------------------------
(* The dashboard, crashes and reboots.                                           *)

QuietChannels == refresh.pc = "idle" /\ readies = <<>>

\* The dashboard comes up with a version or goes away, and says so.  What it says
\* between Load and Subscribe is lost, so it waits there unless EarlyEdits; a
\* Patient one takes longer to restart than the service to deal with its report.
DashboardReports ==
    /\ reports < MaxReports
    /\ EarlyEdits \/ Subscribed \/ boot = "down"
    /\ Patient => QuietChannels /\ pending = None
    /\ reports' = reports + 1
    /\ \/ \E v \in DbcVersions : dbc' = v /\ ready' = TRUE
       \/ ready /\ ready' = FALSE /\ UNCHANGED dbc
    /\ readies' = IF Subscribed THEN Append(readies, Len(channel)) ELSE readies
    /\ UNCHANGED <<vars, channelMemory, origin>>

StopChannels == /\ readies' = <<>> /\ generated' = None /\ pending' = None /\ refresh' = NoRefresh
                /\ UNCHANGED <<reports, origin>>

CrashChannels == Crash /\ StopChannels /\ UNCHANGED <<dbc, ready>>
RebootChannels == Reboot /\ StopChannels /\ dbc' = Absent /\ ready' = FALSE

ClientOfChannels ==
    /\ \/ \E k \in Keys : /\ ClientSet(k)
                          /\ origin' = [j \in ChannelKeys |-> IF j = k THEN "client" ELSE origin[j]]
       \/ /\ \/ \E k \in Keys : ClientPublish(k)
             \/ \E c \in {"apply", "clear"} : ClientCommand(c)
          /\ UNCHANGED origin
    /\ UNCHANGED <<dashboard, channelMemory>>
BootRest == (Rewrite \/ Reapply \/ Reapplied \/ Subscribe) /\ UNCHANGED channelVars
ConsumerOfChannels == Consumer /\ UNCHANGED channelVars

InitChannels == /\ Init
                /\ dbc = Absent /\ ready = FALSE /\ readies = <<>> /\ reports = 0
                /\ generated = None /\ pending = None /\ refresh = NoRefresh
                /\ origin = [k \in ChannelKeys |-> "own"]

WaitChannels == Wait /\ QuietChannels /\ UNCHANGED channelVars

NextChannels == \/ LoadChannels \/ BootRest \/ WatcherOfChannels \/ ConsumerOfChannels
                \/ ClientOfChannels \/ DashboardReports \/ WaitChannels
                \/ CrashChannels \/ RebootChannels

ChannelSpec == InitChannels /\ [][NextChannels]_<<vars, channelVars>>

--------------------------------------------------------------------------------
(* Properties.                                                                   *)

Settled == Quiescent /\ QuietChannels

\* Every variable of this module has its type, those of SettingsService theirs.
ChannelTypeOK ==
    /\ TypeOK
    /\ dbc \in Versions /\ ready \in BOOLEAN /\ readies \in Seq(Nat) /\ reports \in 0..MaxReports
    /\ generated \in [ChannelKeys -> Entry] /\ pending \in [ChannelKeys -> Entry]
    /\ refresh \in [pc : {"idle", "select", "decide", "write"},
                    selected : [ChannelKeys -> Entry], previous : [ChannelKeys -> Entry],
                    todo : SUBSET ChannelKeys]
    /\ origin \in [ChannelKeys -> {"own", "client", "overwritten"}]

\* No expected notification is left over once the service is at rest: the flag
\* would make it take the user's next edit for its own.
NoFlagLeft == Settled => pending = None

\* While the dashboard is up, a setting no user has chosen has the default of the
\* boards' channels, whatever edits, crashes and reports came before; and always, also
\* after a write that failed, the service knows its value as its own, so that the
\* next report can change it.
ChannelDefaultInForce == Settled =>
    \A k \in ChannelKeys \ userSet :
        /\ ready /\ Selected[k] # Absent /\ faults = 0 => hash[k] = Selected[k]
        /\ generated[k] = hash[k]

\* "... unless TOML contains a user-set value" (README): what gets on file for such
\* a setting is a client's.  As long as no client has written the field since the
\* service was started, its entry does not change, although the service is notified
\* of its own defaults; what a client wrote last is on file as it was written; and
\* an entry is only ever replaced by a client's value.  A default gets there in one
\* way: it was written over an edit that the watcher had not come to, whose
\* notification it then takes for a choice (the run of ChoicePersisted shows that).
OnlyChoicesOnFile ==
    [][\A k \in ChannelKeys : toml'[k] # toml[k] =>
          /\ origin[k] # "own"
          /\ toml[k] # Absent \/ origin[k] = "client" => toml'[k] \in EditValues[k]]_<<vars, channelVars>>

\* The service "persists user changes received through Redis" (README): in runs
\* with one client write, its value is on file once the service is at rest.
ChoicePersisted == Settled /\ edits > 0 /\ faults = 0 =>
    \A k \in ChannelKeys : EditValues[k] # {} => toml[k] \in EditValues[k]
================================================================================
