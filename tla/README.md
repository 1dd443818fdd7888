# A specification of settings-service

TLA+ modules, TLC configurations and TLAPS proofs for the Librescoot settings
service (`src/`, Go). The source is the reference: every definition names the
lines it stands for in `PROJECT.json` ("map").

## Inventory

The service is one Go process on the vehicle, between Redis (volatile, shared
with all other services) and `/data` (persistent). Its parts:

| Component | Source | State | Operations | Module |
|---|---|---|---|---|
| Settings hydration, watcher, persistence | `internal/service/service.go` | Redis hash `settings`; `/data/settings.toml`; `userSetKeys`, `lastPersisted` | load at boot, save, one pass of the watcher per notification (validate, repair, mark, save) | `SettingsService` |
| Service-mode overlay | `internal/service/overlay.go`, `overlaystate.go` | `overlayActive`, `overlayBase`; `/data/service-mode.json`; status field; list `settings:overlay` | apply, clear, edit of a forced field, re-application at boot | `SettingsService` |
| Route-plan owner | `internal/routeplan/server.go` | the plan in memory, `settings-route-plan.json`, hash `navigation` | eleven RPC methods, load, migration | `RoutePlan`, `PlanRegister` |
| Atomic file writes | `internal/fileutil/atomic.go` | a file, its temporary sibling, its directory | write, sync, rename, sync the directory | `AtomicFile`, refined step by step in `LogServer`; by outcome in `RoutePlan` and `SettingsService` |
| Saved locations | `internal/destination/server.go` | records `dashboard.saved-locations.N.*` of the hash, the shortcut list | allocate, update, touch, delete, heal at boot | `Destinations` |
| Channel-dependent defaults | `internal/service/channel_defaults.go` | `/etc/os-release`, `version:dbc`, `dashboard[ready]`; generated defaults, pending flags | choose at boot, refresh when the dashboard is ready, tell its own notification from a user's | `ChannelDefaults` |
| Journal upload | `internal/journalupload` | a configuration file, a systemd unit | apply a log server, from two goroutines | `LogServer` |
| WireGuard profiles | `internal/wireguard`, `internal/nmready` | `.conf` files, SHA-256 sidecars, NetworkManager connections | wait, synchronise, activate with retries | `WireGuard` |
| Schema | `internal/schema` | none | enum and format checks, defaults, safe values, release channels | `ReleaseChannel` and `ChosenFor` of `ChannelDefaults`; constants elsewhere |
| TOML conversion | `internal/config/config.go` | none | flatten and nest | `SettingsFile` |
| Milestone migration | `internal/service/milestone_migration.go`, `service.go` | a legacy entry, a marker | rewrite at boot, clear the marker | `SettingsFile` |
| Redis client | `internal/redis/client.go` | none | hash, list, publish, subscribe | the actions of its callers |
| Startup and shutdown | `cmd/settings-service/main.go` | none | order of boot, readiness | `boot` of the modules above |

How they interact. Clients write a field of the hash and publish its name on
channel `settings`. The watcher (goroutine of `WatchSettings`) receives names in
order, repairs invalid values, decides which fields are a user's choice and saves
the TOML file. The overlay consumer (goroutine of `RunOverlayConsumer`) takes
`apply:service` and `clear:service` from a list and writes and publishes fields of
the same hash, so the watcher also hears the service's own writes, and the
watcher hears its own repairs and reassertions. Both use `SettingsService.mu`,
but hold it for some of their steps only, and never across a whole operation. The
route-plan owner and the destination server answer RPCs, one at a time each, on
goroutines of their own; the route plan shares no state with the settings, the
saved locations are fields of the settings hash.

What is hard here: interleavings of watcher, consumer and clients through a hash
with no transactions; notifications that arrive in another mode than the one they
were sent in; crashes and reboots between memory, Redis and two files; writes that
fail before or after their rename; and repairs that provoke notifications that
provoke repairs. `PROJECT.json` "hazards" lists each at its line.

What makes each part correct:

* *Route plan*: the snapshot always loads again; revisions identify plans; what
  was shown is durable; edits keep the rider's target; arrival suppression stays
  with its stop; the whole is a register of plans.
* *Settings*: the file holds exactly the user's choices in use; invalid values do
  not stay and do not cost a choice on file; the service comes to rest.
* *Overlay*: service mode is wholly on or wholly off, also after a crash; leaving
  it restores what was there; a choice on file gives way to a client's value only (a
  forced value gets there all the same while service mode ends, see the end).
* *Saved locations*: what a caller was told is in Redis and on file; no shortcut
  refers to a location that is gone.
* *Channel defaults*: the default of the boards is in force where no user chose; what
  gets on file is what a client wrote.
* *Atomic file*: a reader, and a reboot, see the old content or the new.
* *Journal upload*: the unit runs with the last setting.
* *WireGuard*: connections, files and sidecars agree after a synchronisation;
  profiles that can come up do.
* *TOML, migration*: what is saved reads back; a choice is never migrated away; an
  import whose end is on file is not repeated.

## The modules

### PlanRegister and RoutePlan

`PlanRegister` is what the owner promises: one current plan; a mutation installs a
legal plan under the next revision in one step; whatever anyone is shown is the
plan of that moment.

`RoutePlan` is the code. A handler runs as `Commit` (guards and the next plan, one
action per RPC method), then `PersistOk` or `PersistFails` (`persist` and
`AtomicWrite`), then `Publish` or `PublishFails`. `pc` says where it is: RPCs are
serialised by the library, so there is one handler. `disk` is the snapshot as the
file system shows it and `durable` what a power loss leaves; they differ between a
rename and the sync of its directory. `Kill` and `PowerLoss` may come between any
two steps and inside the write. `LoadSnapshot` and `LoadMigrate` are the two
branches of `Load`; migration parses a dozen legacy fields, modelled as every plan
it can yield. A stop is its UUID and `reached` flag: coordinates and labels follow
the UUID. UUIDs are numbers drawn in order, since `uuid.New` never repeats. A
request that a guard refuses changes nothing and is a stuttering step. While the
process is down `plan` is a history variable (what it held last); no action but a
load, which overwrites it, is enabled then, apart from those of the environment.

The refinement maps `current` to `plan` and `shown` to itself.

### SettingsService

One action per lock section and per Redis command; `SaveSettingsToTOML` holds the
lock throughout and reads the hash once, so `Save` is one step, part of the action
of whoever calls it.

| Code | Actions |
|---|---|
| `LoadSettingsFromTOML`, its deferred save | `Load`, `Rewrite` |
| `ReapplyOverlayOnBoot` | `Reapply`, the consumer's apply steps, `Reapplied` |
| `WatchSettings`: subscribe; receive and `reconcileValidatedSetting` | `Subscribe`; `Receive`, `Fallback`, `Repair` |
| `isOverlaid`, `overlayShouldPersist`, the transient test | `Check` |
| `handleOverlaidEdit` | `ReadField`, `Edit`, `MarkEdit`, `SaveEdit`, `Reassert` |
| `markUserSet` and the save of a plain edit | `Mark`, `SaveMark` |
| `RunOverlayConsumer` | `TakeCommand` |
| `ApplyServiceOverlay` | `Capture` per field, `Activate`, `FlagOn`, `ForceField` per field, `StatusOn` |
| `ClearServiceOverlay` | `Unset`, `FlagOff`, `Restore` per field, `Drop`, `StatusOff`, `ClearSave` |

`Crash` loses memory and the subscription and keeps Redis and the files; `Reboot`
loses Redis too. Clients write (`ClientSet`) and publish (`ClientPublish`) in two
commands. `EarlyEdits` lets them do so as soon as the service reports itself ready,
when its subscription may still be missing; without it they wait for the
subscription. `Patient` sends overlay commands only to a service at rest.

The schema is the constants `Default`, `Valid`, `Safe` and `Transient`. `MCSettings`
gives them values for four kinds of settings of the shipped schema: plain
("speed"), forced by service mode ("alarm", "dash", "pmstate"), forced and
transient ("usb"), and with a format ("expunge").

### ChannelDefaults

Extends `SettingsService` by conjunction: every action of the latter is taken with a
step, or a stutter, of the variables of channel defaults, so a refresh interleaves
with edits, saves, the overlay and crashes as in the code, where it runs inside the
watcher's loop. `LoadChannels` is the boot (`applyInitialChannelDefaults` changes the
defaults `Load` hydrates); `ReceiveName` puts `consumeGeneratedNotification` in front
of the watcher's pass; `ReceiveReady`, `Select`, `Decide`, `WriteDefault` and
`WriteFails` are `refreshChannelDefaults` with its two lock sections, its read in
between and its writes after; `MarkChoice` is `markUserSet`. One subscription carries
both channels in order: `readies` keeps, for each "ready", how many names come before
it. A version is the prefix its channel is inferred from. `origin` is a history
variable: whether a field holds what the service put there since its start, what a
client wrote, or a default written over a client's value. `Patient` here is a dashboard
that takes longer to report again than the service to deal with its last report.

### Destinations

A call is `SaveCall`, `TouchCall` or `DeleteCall` (everything up to its first write),
then one action per Redis command: `WriteField` in any order, as the code ranges over a
map, `Prune`, `PruneWrite`, `PruneSay`, `Clear`, `PublishRecord`; `Fail` is any of them
returning an error. The watcher (`Receive`, `Mark`, `Save`) and the boot with
`HealUUIDs` (`Load`, `Rewrite`) are those of `service.go` restricted to these names.
`book` is what the callers were answered: the property compares it with Redis and the
file. `Handlers` is the concurrency of the call server, one.

### AtomicFile and LogServer

`AtomicFile` is what a writer may expect of `fileutil.AtomicWrite` while it is the only
one: the file changes in one step, to what was asked for; once the write has returned it
is kept through any power loss; nobody else changes it. A file that is found as wanted is
gone on with, and may still be lost: an earlier write may have failed to sync the
directory. Once two writers have been at work together it promises nothing.

Two callers of `ApplyLogServer`, with nothing between them. `Open`, `Write`, `Sync`,
`Rename` and `SyncDir` are `AtomicWrite` over a file system that shows one content and
may keep others through a power loss (`disk`); an open file follows its name through a
rename by the other caller, since both use one temporary name. A URL is its length: of
two texts written to one file, the longer covers the other, otherwise the file is
`Spoilt`. `Stop` to `Restart` are the systemctl commands, `Fail` and `StopFails` their
errors. `stale` remembers that an application failed, was cut short or overlapped
another and that no whole one has followed.

The refinement maps what is shown to the data of the file, what is kept to `disk`, and the
stage of the writer to the step of the caller that is past its comparison (`Stage`).

### WireGuard

`Initialize` as one process with a program counter: `ListConfs` (after `nmready.Wait`)
to `EndRound`. Failures are those the code turns into warnings or into leaving a profile
out; the files may change between any two steps, also back to a content they had. A
content stands for its hash. Two history variables say what a synchronisation cannot see
from the sidecars: `leftovers` are connections whose removal failed, `unrecorded` the
profiles whose last import is not in its sidecar, because the file changed between the
hash and the import, the sidecar could not be written, or the process died before it
was. NetworkManager and the administrator are external.

### SettingsFile

The nested tables of the TOML file as their leaves: a function from names, which are
sequences of segments, to texts, where no name goes on where another ends. `SetNested`
drops the leaf that has to give way to a table, and the table that is in the way of a
leaf, as `config.go` does. Tables without a leaf, which only a hand-written file has, are
not represented; the service leaves none. `Save` inserts the names in every order
(`SetToSeqs`), since the code ranges over a map; one that fails may have renamed its file
already. `Open` to `Forget` are the boot around `migrateMilestoneSettings`, `Look` and
`Clear` the watcher's part, `Import` the dashboard's.

## The runs

| Run | What it checks | Bounds |
|---|---|---|
| `route_plan` | `SnapshotLoads`, `RevisionIdentifiesPlan`, `ShownIsDurable`, `RegisterSpec`, `EditKeepsTarget`, `KeepNeverChangesStop` | 3 stops, revisions to 2, 1 fault, 1 crash |
| `settings_mode` | at rest service mode is whole (`ModeIsWhole`), the file follows the hash (`FileFollowsHash`), rest is reached (`Settles`) | 2 forced settings, one on file, one without a default; 2 edits, 2 commands, 1 fault, 1 crash |
| `settings_round_trip` | leaving service mode restores everything (`RoundTrip`); what may replace a choice on file (`ChoicesOnFile`) | 2 forced fields and a plain one; 2 edits, 4 patient commands, 1 fault, 1 crash |
| `settings_valid` | `InvalidNeverSettles`, `EditsPersisted`, `ReplacedOnlyByEdits`, `Settles` | 3 edits, valid and invalid; 1 fault, 1 crash; an invalid and a transient entry on file |
| `channel_defaults` | `NoFlagLeft`, `ChannelDefaultInForce`, `OnlyChoicesOnFile` | 3 reports with 3 versions, 2 edits, 1 command, 1 fault, 1 crash |
| `destinations` | `BookKept`, `NoDanglingShortcut` | 2 slots, one on file without a UUID; 3 calls, 1 edit of the list, 1 failure, crash or reboot |
| `log_server` | `ConfigWhole`, `Applied`, `AtomicSpec` | 2 URLs, one longer; 2 edits, 1 fault, 1 crash or power loss |
| `wireguard` | `Synced`, `Connected` | 2 profiles, one that never comes up; 3 contents, one not importable; 2 changes, 1 fault, 1 restart |
| `settings_file` | `FileReadsBack`, `ChoiceSettles`, `ChoiceStays`, `ImportStaysDone` | 6 names, two of them nested in each other; 2 writes, 1 fault, 1 crash |

Each run but `settings_round_trip` and `settings_valid`, whose module's other run does,
also checks its module's type invariant. Three more find a promise of the
repository broken; `PROJECT.json` "findings" quotes it and says what happens:

| Run | What TLC shows |
|---|---|
| `settings_stale_watcher` | a watcher overtaken by a clear forces a field again, after service mode |
| `channels_lost_choice` | a choice that equals the old default is overwritten by a refresh, which is then saved as the choice |
| `log_server_overlap` | a log server changed during startup loses to the one that was loaded |

Why the bounds are enough.

* *Settings*: interference needs two edits (one under way, one to overtake it), an
  apply and a clear, and a crash at one place; a second crash starts again from Redis
  and the files alone, which one crash leaves in the states a second one would. Two
  forced fields, one with and one without a value to restore, give a clear that
  restores and drops; the third setting in `settings_round_trip` gives a save on behalf
  of another.
* *Route plan*: three stops are the least with a target that has a stop on either side,
  and the removal rules compare an index with the step and the length only. Revision 2
  is an edit of a plan, a migrated one included; a retry of a failed revision needs one
  fault.
* *Channel defaults*: a third report brings a default back to an earlier value while
  flags and notifications of the former change may be left.
* *Destinations*: two slots give a free and a taken one, and a full book; three calls
  are a save, and a delete or a save that follows or overtakes it through the watcher.
  Their fields are four: the one that marks a record, its UUID, the one touched, and
  the rest.
* *Log server*: the startup and the watcher, twice, over two files of which one covers
  the other.
* *WireGuard*: one change falls into a synchronisation and one after it, which may put
  the file back; two importable contents are enough for that. Profiles do not share
  anything but the list.
* *TOML*: two writes are a choice and the former name again, or a table and a value of
  one name.

Preconditions. `RoundTrip` and `ChoicesOnFile` are checked with patient commands, because
of `settings_stale_watcher`, and speak of forced settings nobody edits, because an edit
between capture and force is lost (below). `RoundTrip` speaks of behaviours without a
crash; `ChoicesOnFile` has crashes, and allows one replacement the code does against its
own comments (below): by the forced value, from the end of the overlay to the restore of
the field, after which only the choice itself may come back. `OnlyChoicesOnFile` allows the one
`channels_lost_choice` shows: a default written over an edit the watcher had not come to.
`ImportStaysDone` speaks of an import whose end is on file: before, a crash between the
dashboard's write and the save brings the marker back from the file, and the import
repeats. `ModeIsWhole` is
checked where clients wait for the subscription: an edit nobody hears is not
reasserted. `ModeIsWhole`, `FileFollowsHash` and `EditsPersisted` compare with the
files in behaviours without a failed write. `ConfigWhole`, `AtomicSpec`, `Applied` speak of a unit
whose appliers have not overlapped, because of `log_server_overlap`. `Synced` exempts
connections whose removal failed and, for its content only, a profile whose last import
is not in its sidecar: the code keeps a wrong content then (below). `NoDanglingShortcut`
speaks of behaviours without a crash: what a crash leaves of a delete is not repaired.

Deadlock is checked in every run. The `Wait` actions stutter where every goroutine is
blocked with nothing to receive (in `SettingsFile` also where the start has failed for
good), and nowhere else.

### Fairness

`FairSpec` has weak fairness of the boot, the watcher and the consumer: goroutines
the Go scheduler runs as long as they can go on, none of which waits for a lock
inside an action (a lock section is one). That a dead service boots again is the
job of its systemd unit, which is deployed outside the repository (README,
"Deployment"); it is an assumption. Nothing is assumed of clients: they may write
without ever publishing, and stop.

`WireGuard` has weak fairness of the steps of `Initialize`, and of NetworkManager
starting and going online: the loops of `nmready.Wait` and `activateProfiles` run
without limit and are written for that. `Connected` holds of profiles that can come up.

## The proofs

Eight modules hold them, each `EXTENDS` the module it is about. They are for any number
of keys, values, slots, profiles, edits, commands, faults and crashes, apart from the
assumptions listed below. Each main theorem rests on an inductive invariant, which TLC checked on the runs'
instances before it was proved.

| Module | Theorems |
|---|---|
| `RoutePlanProofs` | `LegalInvariance`, `TypeCorrect`, `SnapshotsLoad`, `RevisionInvariance`, `RevisionsIdentifyPlans`, `ShownPlansAreDurable`, `OwnerImplementsRegister`, `TargetInvariance`, `EditsKeepTheTarget`, `KeepStaysWithItsStop` |
| `SettingsProofs` | `SettingsTypeCorrect`, `ModeInvariance`, `ServiceModeIsWhole`, `InvalidValuesGo` |
| `PersistenceProofs` (on `SettingsProofs`) | `FileInvariance`, `PersistentFollowHash`, `FileAndHashAgree`, `ChoiceInvariance`, `EditsReachTheFile`, `EditsArePersisted`, `EntriesStay`, `ChoicesReplacedByEdits`, `RoundInvariance`, `LeavingRestores`, `ChoicesAreKept` |
| `ChannelProofs` (on `PersistenceProofs`) | `ChannelInvariance`, `ChannelTypeCorrect`, `NoFlagIsLeft`, `DefaultIsInForce`, `OnlyChoicesGetOnFile` |
| `DestinationsProofs` | `DestinationsTypeCorrect`, `BooksInvariance`, `CallersAreToldTheTruth`, `ItemsInvariance`, `DeletedIsNotSelectable` |
| `LogServerProofs` | `Invariance`, `LogServerTypeCorrect`, `WrittenWhole`, `AppliedAtRest`, `ApplierImplementsAtomicFile` |
| `WireGuardProofs` | `Invariance`, `WireGuardTypeCorrect`, `SynchronisedAfterACleanRun` |
| `SettingsFileProofs` | `ParseAnyOrder`, `SettingsFileTypes`, `FileIsReadBack`, `ChoiceIsSettled`, `ChoiceIsKept`, `DoneImportIsFinal` |

### Route plan

* `LegalInvariance`: the plan in memory, the one in flight, both snapshots and
  everything shown are legal, and all their UUIDs have been drawn. That last part
  is what makes it inductive: a new stop differs from the others because its number
  is above `issued`. One lemma per mutation (`RemoveLegal`, `MoveLegal`, ...) shows
  the plan it computes legal. `TypeCorrect` and `SnapshotsLoad` follow.
* `RevisionInvariance`: the snapshots are the plan in memory or exactly one
  revision ahead of it, and what was shown is durable or superseded. A failed
  directory sync leaves a file that is ahead of memory, so "the file is the plan"
  is not invariant and the weaker relation is needed.
* `RevisionsIdentifyPlans`, `ShownPlansAreDurable` and `OwnerImplementsRegister`
  follow. The last shows that initial states map to initial states and every step
  to a step of the register or a stutter.
* `TargetInvariance`: the plan on its way to the disk is one that may follow the plan
  in memory. It is needed because memory changes with the write, a step after the handler
  has computed the plan. `EditsKeepTheTarget` and `KeepStaysWithItsStop` follow, from one
  lemma per mutation about where the target's stop is afterwards.

The revision theorems assume `SettledBeforeLoad`: a rename whose directory was not
synced, because the process was killed between the two, is written back before the
restarted process serves a plan from it. The code relies on it (`Load` does not sync
what it reads). Without it, a power loss shortly after such a restart takes back a
plan that was shown. The other theorems do not need it.

### Settings service

`SettingsTypeCorrect` assumes nothing. It needs one fact besides the types: the watcher
is only in the steps of an overlaid edit with a key service mode forces, otherwise
`Forced` would be applied outside its domain.

The promises about a service at rest all have the same argument. None is invariant while
the service works, so the invariant says to whom each is *owed*: it holds, or a client is
about to publish the name, or the name is in the channel, or the watcher is at a step
from which it will see to it, or the consumer has still to write the field. Each action
settles the debt or hands it on, and at rest there is nobody left to owe it. The names:
`ModeInv` (a forced field has its value), `ValidInv` (no invalid value), `KeptInv` (what
is to be saved is on file) and `ChosenInv` (a value that is not the default is marked as
a choice).

* `ServiceModeIsWhole`: after any crash, the flag in memory, the mode file, the status
  field and the forced fields agree at rest.
* `InvalidValuesGo`: at rest no setting with a safe value is invalid.
* `FileInvariance` ties three things: `lastPersisted` is what is on file, what is not on
  file has a save coming, and a save that is refused is refused for a value the watcher
  has yet to repair. `PersistentFollowHash` is what that gives for the persistent
  settings beside transient ones; `FileAndHashAgree` is the run's `FileFollowsHash`.
* `EditsReachTheFile`, and `EditsArePersisted` as the run states it.
* `EntriesStay`, an action property: no step takes a setting off the file that may be
  chosen, whatever clients and the overlay do. Inductive with it: what is on file is
  marked and has a value, and a forced setting keeps a value on its whole way through the
  base. It says nothing of the value.
* `ChoicesReplacedByEdits`, an action property: the value in use, and the one of a
  repair under way, are the choice on file or a client's.
* `RoundInvariance`, across crashes and reboots: a forced setting that nobody edits has
  what the last start loaded of it or the forced value, by the step of the consumer, and
  its base what was loaded; a choice on file at first is still there, or the forced value
  is, and was loaded as long as it was there. What was loaded is an unknown of the
  invariant (there is one such value), since a crash may have left the forced one on file.
* `LeavingRestores` follows until the first crash, when what was loaded is what the file
  had at first; the file at rest then follows by `FileInvariance`.
* `ChoicesAreKept`, an action property, says what may replace the value on file. For the
  forced settings it is `RoundInvariance`: a save has what was loaded, or the forced value
  when the consumer is between the end of the overlay and the restore of the field. For
  the others `PlainInv`: no value is invalid, the watcher never repairs, and what is in
  use is the choice on file or a client's.

### Channel defaults

`ChannelInvariance` assumes nothing and contains the parts that need a precondition as
implications. The steps of `SettingsService` keep `TypeInv` and `Phases` by the lemmas of
the modules below, so what had to be shown is what they and the refresh do to each other:
a flag has its notification in the channel or its write ahead, and what is about to be
written no user has replaced. `NoFlagIsLeft` is therefore unconditional: even with an
impatient dashboard no flag outlives the channel. `OnlyChoicesGetOnFile` and
`DefaultIsInForce` assume `Patient`, since of two refreshes in a row the second's flag is
taken by the first's notification, and the other notification becomes a choice. For
`OnlyChoicesGetOnFile`, `OwnName` says of a field no client has written that every
notification of it will be recognised, so that the watcher never comes to it, and
`AsWritten` that what a client wrote last is in the hash.

### Saved locations, journal upload, WireGuard

* `BooksInvariance`: what a caller was told, what the call under way has written and what
  the watcher has still to save add up to the hash and the file. `ItemsInvariance`: each
  destination of the shortcut list has a record, or the call under way has yet to prune
  it.
* `LogServerProofs!Invariance`: two callers exclude each other nowhere, so the invariant
  says what a caller may rely on while it has been *alone* since it entered: the
  temporary file is its own, whole from its write on; and a configuration that the unit
  has not read is known as stale. `WrittenWhole` and `AppliedAtRest` follow.
* `ApplierImplementsAtomicFile`: by the same invariant a caller that is past its
  comparison is, without any overlap, the only one inside, so the stage of the abstract
  writer is a function of its step (`StageStep`); then one lemma per group of steps. The
  step that overlaps, and all after it, are `Share`.
* `WireGuardProofs!Invariance`: a sidecar stands for one connection of its content, unless
  the last import is unrecorded, and what the run has still to visit accounts for the
  rest. It has to speak of all sidecars, not only of those that equal their files, since
  a file may be put back to what an old sidecar says.
  Nothing tells a run what an interrupted one has left but the sidecars, so this is what
  survives restarts.

### TOML and the migration

`SettingsFileProofs` assumes nothing: any plain names, also ones that collide with each
other or with the names of the migration, any number of writes, failures and crashes.

* `ParseAnyOrder` is about `ParseRedisSettings` alone: for every finite map of settings
  and every order, the tree has each setting that can be stored and meets no other, with
  its value, nothing else, and no leaf on the way to another. `ParsesIs` says what the
  loop has after each name (of the names so far, those that no later one meets), and is
  shown by its least counterexample.
* `FileIsReadBack`: until the first failure the file mirrors what was last written
  (`Mirrors`), and each name is as it was then, or a client is about to publish it, or it
  is in the channel, or the watcher has one under way. `ChoiceIsSettled` says the same of
  the marker after a choice.
* `ChoiceIsKept` and `DoneImportIsFinal` are action properties that hold through failures,
  crashes and reboots, as long as no name is the table of the two settings. Inductive with
  them: wherever the marker is (on file, marked, in Redis, in a notification, in the
  watcher), the file has a mode (`EggsInv`). A crash forgets the marks and Redis may be
  lost, so the file is the only place that can carry this.

### Assumptions

Apart from the named `ASSUME`s of the modules, a theorem has the assumptions of its
`ASSUME ... PROVE`; there are these, and each is one the shipped schema satisfies or one
without which a behaviour of the code breaks the property.

| Assumption | Says | Why |
|---|---|---|
| `Listened` (`~EarlyEdits`), `~EarlyRequests` | clients wait for the subscription; callers for hydration | `main` is ready before either; what happens else is listed below |
| `InvalidHeard` | `Listened`, or nobody writes an invalid value | an edit that is not heard is not repaired |
| `SchemaIsSound` | safe values and defaults, and forced values, pass the checks | so in the shipped schema and `overlay.go:22` |
| `ForcedRepairable`, `PersistentRepairable` | a setting with checks has a safe value | so in the shipped schema; otherwise the code leaves the value and refuses saves |
| `ForcedSound` | clients write valid values to forced settings | captured into the base, an invalid one blocks the saves, and one that was refused is not repeated |
| `ForcedHaveValues` (`EntriesStay`) | a forced setting that may be chosen has a default or is on file | a clear that drops it may overtake the save of the first choice; the forced settings of the schema have defaults |
| `BlankRefused` | a setting with checks does not admit the empty text | the code takes an empty text on file for no value |
| `Transient = {}` (`FileAndHashAgree` only) | | a transient forced setting is marked but not saved, and a file with only transient entries is not rewritten; `PersistentFollowHash` does without |
| every persistent setting has a default (`EditsArePersisted` only) | | Redis keeps an edit the service died on, and only a default tells the next service's value from it; `EditsReachTheFile` states the same of the settings that have one |
| `MaxCommands = 0` (`ChoicesReplacedByEdits`) | no overlay commands | a clear between the two steps of a repair saves a value that the repair then takes back |
| `Patient`, `SteadySound` (`LeavingRestores`, `ChoicesAreKept`) | commands come at rest; forced settings nobody edits are valid, transient ones not on file | `settings_stale_watcher` shows the first is needed |
| `NothingRefused` (`ChoicesAreKept`) | no setting outside service mode gets an invalid value: at first on file, by default or from a client | a repair replaces an invalid one by what is known to be valid; `ChoicesReplacedByEdits` is about that |
| `ChannelsHaveDefaults` (`DefaultIsInForce`) | a setting with channel defaults has a default | a restart finds the old value in Redis, and without a default does not replace it; `scooter.developer-mode`, the only such setting, has one (`settings.schema.json:562`) |
| `~EditsAnytime` (`DeletedIsNotSelectable`) | clients leave the shortcut list alone during a call | the call writes the list it read |

The constants of each run satisfy the assumptions of the theorems about its properties.
`LeavingRestores` does without `Listened`, and its run lets edits come early.

### Model-checked only

* `Settles` and `Connected` are liveness properties under fairness, which the prover
  does not do.
* The three runs that expect a violation are counterexamples and have nothing to prove.

## What is left out, and assumed

* In `SettingsService` a Redis command does not fail while the process lives, and Redis
  does not restart under a living service. The code logs such failures and goes on. In
  the other modules commands fail, with the caller's error path, and then have not been
  executed.
* Failures of the boot that end the process are a crash, except in `SettingsFile`.
* In `SettingsService` and `SettingsFile` a failed file write leaves the old or the new
  content; that a rename may be undone by a power loss is modelled in `RoutePlan` and
  `LogServer` only.
* The status field is published like any other; the watcher ignores its name
  because the schema has it as transient, so its notifications are left out.
* A setting with a format but neither a default nor a safe value is left invalid by
  the code, and while it is user-set every save is refused. `MCSettings` gives every
  such setting a safe value, as the shipped schema does.
* *Not modelled*: the format rules of the schema (`trip_expunge.go`,
  `shortcut_items.go`, `sms_forward.go`): functions of one text each, without state,
  which the other modules see as the set of valid values; the JSON form of arrays and
  the TOML encoder; parsing of `/etc/os-release` and of nmcli's output; the backoff
  times, only their repetition matters; orderly shutdown, which is a crash that lets a
  handler finish; logging, flags, wording, coordinates, labels, timestamps.

Seen while modelling, and not the subject of a run:

* An edit of a forced field between its capture and its forced write is overwritten,
  and the base keeps the old value (`overlay.go:97`); captured invalid, it stays in the
  base, and every save is refused until service mode is left.
* A clear switches the overlay off and forgets the base before it restores the fields, so
  a save of another setting in between writes forced values over the choices on file
  (`overlay.go:142`); if the process dies before the restore, the next boot takes them for
  the user's, for good. The comments promise otherwise: "neither runtime-only settings nor
  forced overlay values may reach TOML" (`overlay.go:17`), "so the overlay never clobbers
  the user's persisted configuration" (`overlay.go:34`). TLC finds it with one forced
  setting on file, one edit of another, two patient commands and a crash; it is the one
  exception in `ChoicesOnFile`.
* A clear publishes restored schema defaults, which the watcher then marks and saves
  (`overlay.go:160`); an edit of a transient setting in service mode is saved
  (`service.go:422`).
* `main` reports readiness before the watcher has subscribed: an edit published in
  between is in use and not saved.
* A TOML file with nothing but transient entries is not rewritten at boot: an empty
  map and the nil snapshot compare equal.
* After a failed directory sync the file is ahead of `lastPersisted`, and a save of
  the previous values is skipped as done.
* Two reports of the dashboard with different versions in quick succession make the
  default of the first a user's choice. README:158 says the channel of the main board
  comes from `version:mdb`; the code reads `/etc/os-release`.
* The destination server answers before hydration: a save it has acknowledged is then
  overwritten by the file, or never saved. An edit of the shortcut list during a delete
  is lost, or brings the deleted token back.
* A restart of the journal-upload unit that fails, or that a crash forestalls, leaves
  the unit with the old URL for good, since the file is as wanted and the unit active.
* Once two callers of `ApplyLogServer` have overlapped, the configuration file may be
  torn: they share one temporary file (`atomic.go:11`).
* nmcli reads a WireGuard file again after its hash was taken (`manager.go:137`, `:171`). If
  it changes in between and is then put back, the next start finds the sidecar right and
  skips the import (`manager.go:153`), although the connection has the other content,
  against README:15 ("changed configurations are re-imported"). TLC finds it with one
  profile, two changes, a restart and no failure; a crash between the import and the sidecar, or a
  sidecar that cannot be written, has the same effect. It is the exception for content in
  `Synced`.
* A WireGuard connection whose removal fails stays beside the imported one.
* A crash between the dashboard's import of its easter eggs and the save brings the
  marker back from the file, and the import repeats.
* A plain value under `dashboard.milestones`, which a client may write, and the former
  milestone setting on one file make every start fail.

## Plan

1. Done: all components but the format rules of the schema; the proofs above, which
   cover every safety property of the runs.
2. Theorems to come: `PlanRegister`'s own promises as theorems of the register.
3. `SettingsService`: a Redis that restarts under a living service; a history of
   accepted edits, for the repair that overwrites a newer value.
