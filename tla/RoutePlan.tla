------------------------------- MODULE RoutePlan -------------------------------
(* internal/routeplan/server.go: the single owner of the navigation plan.      *)
(* One handler runs at a time.  It computes the next plan from the plan in     *)
(* memory, writes the whole snapshot to a file, installs it in memory, then    *)
(* publishes it in the hash "navigation".  The process may be killed or the    *)
(* vehicle may lose power between any two of those steps, and each of them may *)
(* fail.  A request that a guard refuses is answered with an error and changes *)
(* nothing: it is a stuttering step.  A stop is its UUID and its reached flag; *)
(* coordinates and labels only follow the UUID around.                         *)
EXTENDS Integers, Sequences, SequencesExt

CONSTANTS MaxStops,           \* 32 in the code
          SettledBeforeLoad,  \* the kernel writes a rename back before a restart reads it
          MaxRevision,        \* bound: commits stop at this revision
          MaxFaults,          \* bound: failed writes, failed HSETs
          MaxCrashes          \* bound: kills and power losses

ASSUME MaxStopsAssumption == MaxStops \in Nat \ {0}
ASSUME SettledAssumption == SettledBeforeLoad \in BOOLEAN
ASSUME BoundsAssumption == /\ MaxRevision \in Nat
                           /\ MaxFaults \in Nat
                           /\ MaxCrashes \in Nat

VARIABLES plan,      \* Server.plan, the copy every handler works on; while the process
                     \* is down, history: what it held last, which nobody reads
          pending,   \* the plan being committed
          pc,        \* where the one handler, or Load, stands
          disk,      \* the snapshot file as a reader of the file system sees it
          durable,   \* the snapshot that survives a power loss
          nav,       \* the complete projection in the hash "navigation"
          issued,    \* the number of UUIDs drawn so far; UUID n is n
          shown,     \* history: every plan a caller or a hash reader was shown
          faults, crashes

vars == <<plan, pending, pc, disk, durable, nav, issued, shown, faults, crashes>>

--------------------------------------------------------------------------------
(* Plans.                                                                      *)

NoFile == [kind |-> "no file"]
Unset == [kind |-> "unset"]
NoId == 0
Ids == Nat \ {NoId}

Stop == [id : Ids, reached : BOOLEAN]
Plan == [id : Nat, revision : Nat, stops : Seq(Stop), step : Nat, keep : BOOLEAN]

EmptyPlan == [id |-> NoId, revision |-> 0, stops |-> <<>>, step |-> 0, keep |-> FALSE]

\* current_step counts from zero.
Target(p) == p.stops[p.step + 1]

\* validatePlan
ValidPlan(p) ==
    /\ Len(p.stops) <= MaxStops
    /\ IF p.stops = <<>> THEN p.step = 0 ELSE p.step < Len(p.stops) /\ p.id # NoId
    /\ p.keep => p.stops # <<>> /\ ~Target(p).reached
    /\ \A i, j \in DOMAIN p.stops : p.stops[i].id = p.stops[j].id => i = j

\* The k-th new stop of one request, under a fresh UUID.
NewStop(k, reached) == [id |-> issued + k, reached |-> reached]

\* Mutant of StepAfterRemove: an emptied plan is overlooked.
StepAfterRemoveNoEmpty(i, n) ==
    IF plan.step >= n THEN n - 1
    ELSE IF i < plan.step THEN plan.step - 1 ELSE plan.step

StepAfterRemove(i, n) ==
    IF n = 0 THEN 0
    ELSE IF plan.step >= n THEN n - 1
    ELSE IF i < plan.step THEN plan.step - 1 ELSE plan.step

\* Mutant of WithoutStop: the flag outlives the stop it was set for.
WithoutStopKeepKept(i) ==
    LET stops == RemoveAt(plan.stops, i + 1)
        step == StepAfterRemove(i, Len(stops))
    IN [plan EXCEPT !.id = IF stops = <<>> THEN NoId ELSE @,
                    !.stops = stops,
                    !.step = step,
                    !.keep = @ /\ stops # <<>> /\ step # Len(stops) - 1]

\* The plan without its stop i.
WithoutStop(i) ==
    LET stops == RemoveAt(plan.stops, i + 1)
        step == StepAfterRemove(i, Len(stops))
        sameTarget == stops # <<>> /\ stops[step + 1].id = Target(plan).id
    IN [plan EXCEPT !.id = IF stops = <<>> THEN NoId ELSE @,
                    !.stops = stops,
                    !.step = step,
                    !.keep = @ /\ sameTarget /\ step # Len(stops) - 1]

\* Where the stop at k of the plan is taken from when stop i is moved to j.
MovedFrom(i, j, k) ==
    IF k = j THEN i
    ELSE IF i <= k /\ k < j THEN k + 1
    ELSE IF j < k /\ k <= i THEN k - 1 ELSE k

\* Mutant of WithStopMoved: the step stays where it was.
WithStopMovedStepKept(i, j) ==
    [plan EXCEPT !.stops = [k \in DOMAIN @ |-> @[MovedFrom(i, j, k - 1) + 1]],
                 !.keep = @ /\ plan.step # Len(plan.stops) - 1]

\* The plan with stop i moved to j; the step follows the target.
WithStopMoved(i, j) ==
    LET stops == [k \in DOMAIN plan.stops |-> plan.stops[MovedFrom(i, j, k - 1) + 1]]
        step == CHOOSE k \in 0..Len(plan.stops) - 1 : stops[k + 1].id = Target(plan).id
    IN [plan EXCEPT !.stops = stops,
                    !.step = step,
                    !.keep = @ /\ step # Len(stops) - 1]

\* The plan with stop i as its target: exactly the stops before it are reached.
WithTarget(i) ==
    [plan EXCEPT !.step = i, !.keep = FALSE,
                 !.stops = [k \in DOMAIN @ |-> [@[k] EXCEPT !.reached = k <= i]]]

--------------------------------------------------------------------------------
(* Start: Load and migrate.                                                    *)

Init == /\ plan = EmptyPlan /\ pending = EmptyPlan
        /\ pc = "down"
        /\ disk = NoFile /\ durable = NoFile
        /\ nav = Unset
        /\ issued = 0
        /\ shown = {}
        /\ faults = 0 /\ crashes = 0

\* A snapshot exists: it is authoritative.  An invalid one ends the process, so
\* the owner never comes up.
LoadSnapshot ==
    /\ pc = "down" /\ disk # NoFile
    /\ SettledBeforeLoad => durable = disk
    /\ ValidPlan(disk)
    /\ plan' = disk
    /\ pc' = "bootPublish"
    /\ UNCHANGED <<pending, disk, durable, nav, issued, shown, faults, crashes>>

\* No snapshot: an active legacy plan of n >= 1 stops becomes revision 1, any
\* other legacy state the empty plan of revision 0.
Migrated ==
    {EmptyPlan} \union
    UNION {{p \in [id : {issued + n + 1}, revision : {1},
                   stops : {[i \in 1..n |-> NewStop(i, reached[i])] :
                               reached \in [1..n -> BOOLEAN]},
                   step : 0..n - 1, keep : BOOLEAN] : p.keep => ~Target(p).reached}
           : n \in 1..MaxStops}

LoadMigrate ==
    /\ pc = "down" /\ disk = NoFile
    /\ \E p \in Migrated :
         /\ pending' = p
         /\ issued' = issued + IF p.stops = <<>> THEN 0 ELSE Len(p.stops) + 1
    /\ pc' = "bootPersist"
    /\ UNCHANGED <<plan, disk, durable, nav, shown, faults, crashes>>

--------------------------------------------------------------------------------
(* The handlers, up to the call of commit.                                     *)

\* Mutant of Commit: the revision counts on from the request's plan.
CommitOwnRevision(p) ==
    /\ pc = "idle"
    /\ plan.revision < MaxRevision
    /\ pending' = [p EXCEPT !.revision = @ + 1]
    /\ pc' = "persist"
    /\ UNCHANGED <<plan, disk, durable, nav, shown, faults, crashes>>

\* The head of commit: every committed plan gets the next revision.
Commit(p) == /\ pc = "idle"
             /\ plan.revision < MaxRevision
             /\ pending' = [p EXCEPT !.revision = plan.revision + 1]
             /\ pc' = "persist"
             /\ UNCHANGED <<plan, disk, durable, nav, shown, faults, crashes>>

\* n stops, the one at step is the target and the earlier ones are reached.
Replace(n, step) ==
    /\ Commit([id |-> issued + n + 1, revision |-> 0,
               stops |-> [i \in 1..n |-> NewStop(i, i <= step)],
               step |-> step, keep |-> FALSE])
    /\ issued' = issued + n + 1

AppendStop ==
    /\ Len(plan.stops) < MaxStops
    /\ Commit([plan EXCEPT !.stops = Append(@, NewStop(1, FALSE)),
                           !.id = IF @ = NoId THEN issued + 2 ELSE @])
    /\ issued' = issued + IF plan.id = NoId THEN 2 ELSE 1

HasStop(i) == i < Len(plan.stops)

RemoveStop(i, expectedRevision) ==
    /\ expectedRevision = plan.revision
    /\ HasStop(i)
    /\ Commit(WithoutStop(i))
    /\ UNCHANGED issued

MoveStop(i, j, expectedRevision) ==
    /\ expectedRevision = plan.revision
    /\ HasStop(i) /\ HasStop(j) /\ i # j
    /\ Commit(WithStopMoved(i, j))
    /\ UNCHANGED issued

Jump(i, expectedRevision) ==
    /\ expectedRevision = plan.revision
    /\ HasStop(i)
    /\ Commit(WithTarget(i))
    /\ UNCHANGED issued

\* checkProgress: the caller names the plan and the stop it is talking about.
CheckProgress(planId, stopId) ==
    /\ planId # NoId /\ planId = plan.id
    /\ plan.stops # <<>>
    /\ stopId # NoId /\ stopId = Target(plan).id

Unreach(planId, stopId) ==
    /\ CheckProgress(planId, stopId)
    /\ Target(plan).reached \/ ~plan.keep
    /\ Commit([plan EXCEPT !.stops[plan.step + 1].reached = FALSE, !.keep = TRUE])
    /\ UNCHANGED issued

SetKeepCurrent(planId, stopId, keep) ==
    /\ CheckProgress(planId, stopId)
    /\ keep => ~Target(plan).reached
    /\ plan.keep # keep
    /\ Commit([plan EXCEPT !.keep = keep])
    /\ UNCHANGED issued

Reached(planId, stopId) ==
    /\ CheckProgress(planId, stopId)
    /\ ~Target(plan).reached \/ plan.keep
    /\ Commit([plan EXCEPT !.stops[plan.step + 1].reached = TRUE, !.keep = FALSE])
    /\ UNCHANGED issued

\* Mutant of Advance: the flag is not reset.
AdvanceKeepKept(planId, stopId) ==
    /\ CheckProgress(planId, stopId)
    /\ HasStop(plan.step + 1)
    /\ Commit([plan EXCEPT !.step = @ + 1])
    /\ UNCHANGED issued

Advance(planId, stopId) ==
    /\ CheckProgress(planId, stopId)
    /\ HasStop(plan.step + 1)
    /\ Commit([plan EXCEPT !.step = @ + 1, !.keep = FALSE])
    /\ UNCHANGED issued

\* expected_plan_id is optional.
Clear(planId) ==
    /\ planId \in {NoId, plan.id}
    /\ Commit(EmptyPlan)
    /\ UNCHANGED issued

\* plan.get, and the idempotent requests that find nothing to change.
Answer ==
    /\ pc = "idle"
    /\ shown' = shown \union {plan}
    /\ UNCHANGED <<plan, pending, pc, disk, durable, nav, issued, faults, crashes>>

--------------------------------------------------------------------------------
(* The rest of commit and of Load: persist, install, publish, answer.          *)

Booting == pc \in {"bootPersist", "bootPublish"}
Persisting == pc \in {"persist", "bootPersist"}
Publishing == pc \in {"publish", "bootPublish"}

\* Mutant of PersistOk: the file is not synced.
PersistUnsynced ==
    /\ Persisting
    /\ disk' = pending
    /\ plan' = pending /\ pending' = EmptyPlan
    /\ pc' = IF Booting THEN "bootPublish" ELSE "publish"
    /\ UNCHANGED <<durable, nav, issued, shown, faults, crashes>>

\* The snapshot is durable before anyone learns of it.
PersistOk ==
    /\ Persisting
    /\ disk' = pending /\ durable' = pending
    /\ plan' = pending /\ pending' = EmptyPlan
    /\ pc' = IF Booting THEN "bootPublish" ELSE "publish"
    /\ UNCHANGED <<nav, issued, shown, faults, crashes>>

\* Mutant of PersistFails: the plan is installed before the write is known good.
PersistFailsInstalled ==
    /\ Persisting /\ faults < MaxFaults
    /\ disk' \in {disk, pending}
    /\ plan' = pending /\ pending' = EmptyPlan
    /\ pc' = IF Booting THEN "down" ELSE "idle"
    /\ faults' = faults + 1
    /\ UNCHANGED <<durable, nav, issued, shown, crashes>>

\* AtomicWrite fails before its rename, or after it, when the directory cannot
\* be synced.  The plan in memory stays; a failed Load ends the process.
PersistFails ==
    /\ Persisting /\ faults < MaxFaults
    /\ disk' \in {disk, pending}
    /\ pending' = EmptyPlan
    /\ pc' = IF Booting THEN "down" ELSE "idle"
    /\ faults' = faults + 1
    /\ UNCHANGED <<plan, durable, nav, issued, shown, crashes>>

Publish ==
    /\ Publishing
    /\ nav' = plan
    /\ shown' = shown \union {plan}
    /\ pc' = "idle"
    /\ UNCHANGED <<plan, pending, disk, durable, issued, faults, crashes>>

\* The HSET fails, or takes effect and a later command fails: the caller gets
\* an error for a plan that is installed; a failed Load ends the process.
PublishFails ==
    /\ Publishing /\ faults < MaxFaults
    /\ \/ UNCHANGED <<nav, shown>>
       \/ nav' = plan /\ shown' = shown \union {plan}
    /\ pc' = IF Booting THEN "down" ELSE "idle"
    /\ faults' = faults + 1
    /\ UNCHANGED <<plan, pending, disk, durable, issued, crashes>>

--------------------------------------------------------------------------------
(* The environment.                                                            *)

\* The kernel writes a rename back that nobody synced.
Writeback == /\ durable # disk
             /\ durable' = disk
             /\ UNCHANGED <<plan, pending, pc, disk, nav, issued, shown, faults, crashes>>

\* Files a crash can leave: the write under way may have reached its rename.
CrashFiles == {disk} \union IF Persisting THEN {pending} ELSE {}

Down == /\ pc' = "down"
        /\ pending' = EmptyPlan
        /\ crashes' = crashes + 1
        /\ UNCHANGED <<plan, issued, shown, faults>>

\* The process dies; the files as seen and the hash stay.
Kill == /\ crashes < MaxCrashes
        /\ pc # "down"
        /\ disk' \in CrashFiles
        /\ Down
        /\ UNCHANGED <<durable, nav>>

\* The vehicle loses power: unsynced renames and the in-memory hash are lost.
PowerLoss == /\ crashes < MaxCrashes
             /\ disk' \in CrashFiles \union {durable}
             /\ durable' = disk'
             /\ nav' = Unset
             /\ Down

Handler ==
    \/ \E n \in 1..MaxStops : \E step \in 0..n - 1 : Replace(n, step)
    \/ AppendStop
    \/ \E i \in 0..MaxStops - 1, rev \in 0..MaxRevision :
         \/ RemoveStop(i, rev)
         \/ \E j \in 0..MaxStops - 1 : MoveStop(i, j, rev)
         \/ Jump(i, rev)
    \/ \E planId, stopId \in 0..issued :
         \/ Unreach(planId, stopId)
         \/ \E keep \in BOOLEAN : SetKeepCurrent(planId, stopId, keep)
         \/ Reached(planId, stopId)
         \/ Advance(planId, stopId)
    \/ \E planId \in 0..issued : Clear(planId)
    \/ Answer

Next == \/ LoadSnapshot \/ LoadMigrate
        \/ Handler
        \/ PersistOk \/ PersistFails \/ Publish \/ PublishFails
        \/ Writeback \/ Kill \/ PowerLoss

Spec == Init /\ [][Next]_vars

--------------------------------------------------------------------------------
(* Properties.                                                                 *)

PlanOrNoFile == Plan \union {NoFile}

\* Every variable has its type.
TypeOK == /\ plan \in Plan /\ pending \in Plan
          /\ pc \in {"down", "bootPersist", "bootPublish", "idle", "persist", "publish"}
          /\ disk \in PlanOrNoFile /\ durable \in PlanOrNoFile
          /\ nav \in Plan \union {Unset}
          /\ issued \in Nat
          /\ shown \subseteq Plan
          /\ faults \in 0..MaxFaults /\ crashes \in 0..MaxCrashes

\* Load ends the process on a snapshot validatePlan refuses, so an illegal plan
\* that one handler lets through would keep the owner down for good.  Whatever
\* mutation, failed write or crash came last, the snapshot a restart reads
\* passes validatePlan.
SnapshotLoads == /\ disk # NoFile => ValidPlan(disk)
                 /\ durable # NoFile => ValidPlan(durable)

\* remove, move and jump trust the caller's plan on its revision alone.  They
\* may: two plans that anyone was ever shown under one revision are one plan,
\* also when a write failed halfway or a restart came between.
RevisionIdentifiesPlan ==
    \A p, q \in shown : p.revision = q.revision => p = q

\* The owner is serving its callers.
Serving == pc \in {"idle", "persist", "publish"}

\* A power loss takes the vehicle back to plan p or on to a later one.
Survives(p) == durable # NoFile /\ (p.revision < durable.revision \/ p = durable)

\* "The entire snapshot is synced ... before a successful reply or Redis
\* publication" (README): no power loss takes back a plan somebody was shown.
ShownIsDurable == \A p \in shown : Survives(p)

StopIds(p) == [i \in DOMAIN p.stops |-> p.stops[i].id]
SameTarget(p, q) == /\ p.stops # <<>> /\ q.stops # <<>>
                    /\ Target(p).id = Target(q).id

\* Editing the list of stops never sends the rider elsewhere: unless its own
\* stop is removed, the target stays the same stop while others are added,
\* removed or moved around it.
EditKeepsTarget ==
    [][Serving /\ Serving' /\ plan.stops # <<>> /\ StopIds(plan') # StopIds(plan)
         => SameTarget(plan, plan')
            \/ \A i \in DOMAIN plan'.stops : plan'.stops[i].id # Target(plan).id]_vars

\* keep_current_stop suppresses the arrival at the stop the rider stands at: no
\* commit carries it over to another stop.
KeepNeverChangesStop ==
    [][Serving /\ Serving' /\ plan'.keep => SameTarget(plan, plan')]_vars

\* The register is the plan in memory; while the process is down, the one it
\* held last.
Register == INSTANCE PlanRegister WITH Plans <- {p \in Plan : ValidPlan(p)},
                                       current <- plan

\* Every step of the owner is one the register may take: revisions are handed
\* out one by one in the order the plans take effect, a failed or interrupted
\* commit takes effect whole or not at all, and what anyone is shown is the
\* plan of that moment.
RegisterSpec == Register!Spec
================================================================================
