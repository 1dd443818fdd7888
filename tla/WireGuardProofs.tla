---------------------------- MODULE WireGuardProofs ----------------------------
(* Proofs about WireGuard, for any profiles, any contents and any number of       *)
(* changes, failures and restarts.  Nothing tells Initialize what an interrupted  *)
(* or failed run before it has left; it has the sidecar files to go by.  So the   *)
(* heart of the invariant is what a sidecar stands for, whatever its file holds   *)
(* by now: the content of the connection, unless the last import has not got into *)
(* it.                                                                           *)
EXTENDS WireGuard, FiniteSetTheorems, TLAPS

\* The connections NetworkManager has, apart from those whose removal has failed.
Ours == {c \in nm : c.id \notin leftovers}

\* There are finitely many connections, and an identifier is that of one.
Distinct == IsFiniteSet(nm) /\ \A c, d \in nm : c.id = d.id => c = d

\* A profile has at most one connection of ours.
OneEach == \A c, d \in Ours : c.name = d.name => c.id = d.id

--------------------------------------------------------------------------------
(* Sidecars.                                                                     *)

\* The connections of profile p have been imported from content x.
Holds(p, x) == x \notin Bad /\ \A c \in Ours : c.name = p => c.content = x

\* An import that is not in its sidecar yet.
Underway(p) == pc = "imported" /\ p = cur

\* A sidecar tells what has been imported.
Vouches == \A p \in Profiles \ unrecorded :
    sidecar[p] # None /\ ~Underway(p) => Holds(p, sidecar[p])

\* So will the one that is about to be written.
AboutToVouch == pc = "imported" =>
    /\ Named(cur) # {}
    /\ cur \notin unrecorded => Holds(cur, hash)

--------------------------------------------------------------------------------
(* How far a run has come.                                                       *)

\* The profiles it still has to look at.
Waiting == CASE pc = "orphans" -> confs
             [] pc \in {"next", "delete", "imported", "modify"} -> todo
             [] pc = "compare" -> todo \union {cur}
             [] OTHER -> {}

Listing(c) == [name |-> c.name, id |-> c.id]

Position == /\ pc \in {"compare", "delete", "imported", "modify"} => cur \in confs \ todo
            /\ pc \in {"compare", "delete", "imported"} => hash # None
            /\ pc = "start" => confs = {}

\* Of those the listing is still right.
ListingHolds == \A p \in Waiting :
    {c \in conns : c.name = p} = {Listing(c) : c \in Named(p)}

\* What it is about to delete is there, and is not needed; what it does not get to
\* delete is known.
DoomedAre ==
    /\ pc \in {"orphans", "delete"} => \A d \in doomed : \E c \in nm : d = Listing(c)
    /\ pc = "orphans" =>
          /\ \A d \in doomed : d.name \notin confs
          /\ \A c \in Ours : c.name \notin confs => Listing(c) \in doomed
    /\ pc = "delete" =>
          /\ \A d \in doomed : d.name = cur
          /\ \A c \in Ours : c.name = cur => Listing(c) \in doomed

InLoops == pc \in {"next", "compare", "delete", "imported", "modify", "activate"}

\* Once the orphans are gone, every connection of ours has a file in the list.
OrphansGone == InLoops \/ (pc = "done" /\ clean) => \A c \in Ours : c.name \in confs

\* A profile that has been synchronised in a run without failures or changes.
InStep(p) ==
    /\ conf[p] # None
    /\ conf[p] \notin Bad => sidecar[p] = conf[p] /\ Named(p) # {}
    /\ Named(p) \subseteq Ours => \A c \in Named(p) :
          /\ Named(p) = {c} /\ c.endless
          /\ p \notin unrecorded => conf[p] \notin Bad /\ c.content = conf[p]

\* Those a run without failures or changes has behind it.
Passed == CASE pc = "next" -> confs \ todo
            [] pc \in {"compare", "delete", "imported", "modify"} -> confs \ (todo \union {cur})
            [] pc \in {"activate", "done"} -> confs
            [] OTHER -> {}

CleanRun == clean =>
    /\ pc # "start" => \A p \in Profiles : p \in confs <=> conf[p] # None
    /\ \A p \in Passed : InStep(p)
    /\ pc \in {"compare", "delete", "imported"} => hash = conf[cur]
    /\ pc = "modify" => sidecar[cur] = conf[cur] /\ conf[cur] # None /\ Named(cur) # {}

\* What is about the files and connections, and what is about the run.
Stored == Distinct /\ OneEach /\ Vouches
Running == AboutToVouch /\ Position /\ ListingHolds /\ DoomedAre /\ OrphansGone /\ CleanRun

IInv == Types /\ Stored /\ Running

--------------------------------------------------------------------------------
(* Types.                                                                        *)

\* An identifier that no connection has: there are more candidates than connections.
LEMMA FreshIdIsFresh ==
    ASSUME nm \subseteq Connection, IsFiniteSet(nm)
    PROVE  FreshId \in Nat /\ FreshId \notin Ids(nm)
<1> DEFINE n == Cardinality(nm)
           f == [c \in nm |-> c.id]
<1>1. n \in Nat
  BY FS_CardinalityType
<1>2. f \in Surjection(nm, Ids(nm))
  BY DEF Surjection, Ids
<1>3. IsFiniteSet(Ids(nm)) /\ Cardinality(Ids(nm)) <= n
  BY <1>2, FS_Surjection
<1>4. IsFiniteSet(0..n) /\ Cardinality(0..n) = n + 1
  BY <1>1, FS_Interval
<1>5. ~(0..n \subseteq Ids(nm))
  <2> SUFFICES ASSUME 0..n \subseteq Ids(nm) PROVE FALSE
    OBVIOUS
  <2>1. Cardinality(0..n) <= Cardinality(Ids(nm)) /\ Cardinality(Ids(nm)) \in Nat
    BY <1>3, FS_Subset, FS_CardinalityType
  <2> QED
    BY <1>1, <1>3, <1>4, <2>1
<1>6. FreshId \in 0..n /\ FreshId \notin Ids(nm)
  BY <1>5 DEF FreshId
<1> QED
  BY <1>6

\* Connections stay connections when a flag of theirs is set.
LEMMA FlagType ==
    ASSUME NEW c \in Connection
    PROVE  /\ [c EXCEPT !.endless = TRUE] \in Connection
           /\ \A up \in BOOLEAN : [c EXCEPT !.up = up] \in Connection
BY DEF Connection

\* The parts of the type invariant.
StoreTypes == /\ conf \in [Profiles -> Contents \union {None}]
              /\ sidecar \in [Profiles -> Contents \union {None}]
              /\ nm \subseteq Connection
CounterTypes == /\ clean \in BOOLEAN /\ changes \in Nat /\ faults \in Nat /\ restarts \in Nat
                /\ nmUp \in BOOLEAN /\ online \in BOOLEAN
ListTypes == /\ confs \subseteq Profiles /\ todo \subseteq confs
             /\ conns \subseteq Listed /\ doomed \subseteq conns
             /\ pending \subseteq profiles /\ profiles \subseteq confs
OtherTypes == /\ pc \in {"start", "list", "orphans", "next", "compare", "delete", "imported",
                         "modify", "activate", "done"}
              /\ cur \in Profiles \union {None} /\ hash \in Contents \union {None}
              /\ leftovers \subseteq Nat /\ unrecorded \subseteq Profiles

LEMMA TypesSplit == /\ Types <=> StoreTypes /\ CounterTypes /\ ListTypes /\ OtherTypes
                    /\ Types' <=> StoreTypes' /\ CounterTypes' /\ ListTypes' /\ OtherTypes'
BY DEF Types, StoreTypes, CounterTypes, ListTypes, OtherTypes

\* A step sets flags and counts up.
LEMMA CounterStep == CounterTypes /\ [Next]_vars => CounterTypes'
<1> SUFFICES ASSUME CounterTypes, [Next]_vars PROVE CounterTypes'
  OBVIOUS
<1> USE DEF CounterTypes
<1>1. CASE Fault /\ UNCHANGED network
  <2>1. nmUp' \in BOOLEAN /\ online' \in BOOLEAN
    BY <1>1 DEF network
  <2>2. clean' = FALSE
    BY <1>1 DEF Fault
  <2>3. changes' \in Nat /\ faults' \in Nat /\ restarts' \in Nat
    BY <1>1 DEF Fault
  <2> QED
    BY <2>1, <2>2, <2>3
<1>2. CASE NoFault /\ UNCHANGED network
  BY <1>2 DEF NoFault, network, counters
<1>3. CASE Initialize
  <2>1. UNCHANGED network /\ (Fault \/ NoFault)
    BY <1>3 DEF Initialize, ListConfs, ListConnections, ListingFails, Delete, PruneSidecars,
       Hash, Compare, Import, WriteSidecar, Modify, StartActivation, Activate, EndRound
  <2> QED
    BY <2>1, <1>1, <1>2
<1>4. CASE NetworkManagerStarts \/ GoOnline
  BY <1>4 DEF NetworkManagerStarts, GoOnline, counters
<1>5. CASE Change
  <2>1. nmUp' \in BOOLEAN /\ online' \in BOOLEAN
    BY <1>5 DEF Change, network
  <2>2. clean' = FALSE
    BY <1>5 DEF Change
  <2>3. changes' \in Nat /\ faults' \in Nat /\ restarts' \in Nat
    BY <1>5 DEF Change
  <2> QED
    BY <2>1, <2>2, <2>3
<1>6. CASE Restart
  BY <1>6 DEF Restart, Start, network
<1>7. CASE Reboot
  <2>1. nmUp' = FALSE
    BY <1>7 DEF Reboot
  <2>2. online' = FALSE
    BY <1>7 DEF Reboot
  <2>3. clean' = TRUE
    BY <1>7 DEF Reboot, Start
  <2>4. changes' \in Nat /\ faults' \in Nat /\ restarts' \in Nat
    BY <1>7 DEF Reboot
  <2> QED
    BY <2>1, <2>2, <2>3, <2>4
<1>8. CASE UNCHANGED vars
  BY <1>8 DEF vars, network, counters
<1> QED
  BY <1>3, <1>4, <1>5, <1>6, <1>7, <1>8 DEF Next, Wait

\* The lists come from the files and from NetworkManager, and only shrink.
LEMMA ListStep == Types /\ Position /\ [Next]_vars => ListTypes'
<1> SUFFICES ASSUME ListTypes, nm \subseteq Connection, Position, [Next]_vars PROVE ListTypes'
  BY TypesSplit DEF StoreTypes
<1> USE DEF ListTypes
<1>1. CASE ListConfs
  BY <1>1 DEF ListConfs, Position
<1>2. CASE ListConnections
  BY <1>2 DEF ListConnections, Listed, Connection
<1>3. CASE ListingFails
  BY <1>3 DEF ListingFails, locals
<1>4. CASE Delete
  BY <1>4 DEF Delete
<1>5. CASE PruneSidecars
  BY <1>5 DEF PruneSidecars
<1>6. CASE Hash
  BY <1>6 DEF Hash
<1>7. CASE Compare
  BY <1>7 DEF Compare
<1>8. CASE Import
  BY <1>8 DEF Import, Skip
<1>9. CASE WriteSidecar
  BY <1>9 DEF WriteSidecar, locals
<1>10. CASE Modify
  BY <1>10 DEF Modify, Position
<1>11. CASE StartActivation \/ EndRound
  BY <1>11 DEF StartActivation, EndRound
<1>12. CASE Activate
  BY <1>12 DEF Activate
<1>13. CASE NetworkManagerStarts \/ GoOnline \/ Change
  BY <1>13 DEF NetworkManagerStarts, GoOnline, Change, locals
<1>14. CASE Restart \/ Reboot
  BY <1>14 DEF Restart, Reboot, Start
<1>15. CASE UNCHANGED vars
  BY <1>15 DEF vars, locals
<1> QED
  BY <1>1, <1>2, <1>3, <1>4, <1>5, <1>6, <1>7, <1>8, <1>9, <1>10, <1>11, <1>12, <1>13,
     <1>14, <1>15 DEF Next, Initialize, Wait

\* Files hold contents, NetworkManager connections.
LEMMA StoreStep == Types /\ Position /\ IsFiniteSet(nm) /\ [Next]_vars => StoreTypes'
<1> SUFFICES ASSUME StoreTypes, OtherTypes, confs \subseteq Profiles,
                    Position, IsFiniteSet(nm), [Next]_vars
             PROVE  StoreTypes'
  BY TypesSplit DEF ListTypes
<1> USE DEF StoreTypes
<1>1. CASE UNCHANGED <<files, nm>>
  BY <1>1 DEF files
<1>2. CASE Delete
  BY <1>2 DEF Delete, files
<1>3. CASE PruneSidecars
  BY <1>3 DEF PruneSidecars
<1>4. CASE Import
  <2>1. cur \in Profiles
    BY <1>4 DEF Import, Position
  <2>2. nm' \subseteq Connection
    <3>1. CASE nm' = nm
      BY <3>1
    <3>2. CASE /\ conf[cur] \notin Bad \union {None}
               /\ nm' = nm \union {[name |-> cur, id |-> FreshId, content |-> conf[cur],
                                   endless |-> FALSE, up |-> FALSE]}
      <4>1. conf[cur] \in Contents /\ FreshId \in Nat
        BY <2>1, <3>2, FreshIdIsFresh
      <4>2. [name |-> cur, id |-> FreshId, content |-> conf[cur], endless |-> FALSE,
             up |-> FALSE] \in Connection
        BY <2>1, <4>1 DEF Connection
      <4> QED
        BY <3>2, <4>2
    <3> QED
      BY <1>4, <3>1, <3>2 DEF Import, Skip
  <2> QED
    BY <1>4, <2>2 DEF Import, Skip
<1>5. CASE WriteSidecar
  BY <1>5 DEF WriteSidecar, OtherTypes
<1>6. CASE Modify
  BY <1>6, FlagType DEF Modify, files, Named
<1>7. CASE Activate
  BY <1>7, FlagType DEF Activate, files, Named
<1>8. CASE Change
  BY <1>8 DEF Change
<1>9. CASE Reboot
  BY <1>9, FlagType DEF Reboot, files
<1>10. CASE \/ ListConfs \/ ListConnections \/ ListingFails \/ Hash \/ Compare \/ StartActivation
            \/ EndRound \/ NetworkManagerStarts \/ GoOnline \/ Restart \/ UNCHANGED vars
  BY <1>10, <1>1 DEF ListConfs, ListConnections, ListingFails, Hash, Compare, StartActivation,
     EndRound, NetworkManagerStarts, GoOnline, Restart, vars
<1> QED
  BY <1>2, <1>3, <1>4, <1>5, <1>6, <1>7, <1>8, <1>9, <1>10 DEF Next, Initialize, Wait

\* The rest.
LEMMA OtherStep == Types /\ Position /\ IsFiniteSet(nm) /\ [Next]_vars => OtherTypes'
<1> SUFFICES ASSUME OtherTypes, StoreTypes, confs \subseteq Profiles, todo \subseteq confs,
                    doomed \subseteq Listed, Position, IsFiniteSet(nm), [Next]_vars
             PROVE  OtherTypes'
  BY TypesSplit DEF ListTypes
<1> USE DEF OtherTypes, history
<1>1. CASE ListConfs \/ ListConnections
  BY <1>1 DEF ListConfs, ListConnections
<1>2. CASE ListingFails
  BY <1>2 DEF ListingFails, locals
<1>3. CASE Delete
  BY <1>3 DEF Delete, Listed
<1>4. CASE PruneSidecars \/ Compare
  BY <1>4 DEF PruneSidecars, Compare
<1>5. CASE Hash
  BY <1>5 DEF Hash, StoreTypes
<1>6. CASE Import
  BY <1>6 DEF Import, Skip, Position
<1>7. CASE WriteSidecar
  BY <1>7 DEF WriteSidecar, locals, Position
<1>8. CASE Modify
  BY <1>8 DEF Modify
<1>9. CASE StartActivation \/ EndRound \/ Activate
  BY <1>9 DEF StartActivation, EndRound, Activate
<1>10. CASE NetworkManagerStarts \/ GoOnline \/ Change
  BY <1>10 DEF NetworkManagerStarts, GoOnline, Change, locals
<1>11. CASE Restart \/ Reboot
  BY <1>11 DEF Restart, Reboot, Start, Position
<1>12. CASE UNCHANGED vars
  BY <1>12 DEF vars, locals
<1> QED
  BY <1>1, <1>2, <1>3, <1>4, <1>5, <1>6, <1>7, <1>8, <1>9, <1>10, <1>11, <1>12
     DEF Next, Initialize, Wait

\* Every step keeps the types.
LEMMA NextType == Types /\ Position /\ IsFiniteSet(nm) /\ [Next]_vars => Types'
BY TypesSplit, CounterStep, ListStep, StoreStep, OtherStep

--------------------------------------------------------------------------------
(* What a step keeps that leaves the files and the removals that have failed      *)
(* alone, and of the connections changes flags only.                             *)

Same(c, d) == c.name = d.name /\ c.id = d.id /\ c.content = d.content

FlagsOnly == /\ \A c \in nm' : \E d \in nm : Same(c, d) /\ (d.endless => c.endless)
             /\ \A d \in nm : \E c \in nm' : Same(c, d)

Keeps == UNCHANGED <<conf, sidecar, leftovers>> /\ FlagsOnly

\* The exceptions only grow, by an import at least that is no longer under way.
Excepts == /\ unrecorded \subseteq unrecorded'
           /\ \A p \in Profiles \ unrecorded' : Underway(p) => Underway(p)'

LEMMA KeepsConnections ==
    ASSUME Keeps
    PROVE  /\ \A c \in Ours' : \E d \in Ours : Same(c, d)
           /\ \A d \in Ours : \E c \in Ours' : Same(c, d)
           /\ \A p : \A c \in Named(p)' : \E d \in Named(p) : Same(c, d) /\ (d.endless => c.endless)
           /\ \A p : \A d \in Named(p) : \E c \in Named(p)' : Same(c, d)
           /\ \A p : {Listing(c) : c \in Named(p)'} = {Listing(c) : c \in Named(p)}
<1>1. /\ \A c \in nm' : \E d \in nm : Same(c, d) /\ (d.endless => c.endless)
      /\ \A d \in nm : \E c \in nm' : Same(c, d)
      /\ leftovers' = leftovers
  BY DEF Keeps, FlagsOnly
<1>2. /\ \A c \in Ours' : \E d \in Ours : Same(c, d)
      /\ \A d \in Ours : \E c \in Ours' : Same(c, d)
  BY <1>1 DEF Ours, Same
<1>3. \A p : \A c \in Named(p)' : \E d \in Named(p) : Same(c, d) /\ (d.endless => c.endless)
  BY <1>1 DEF Named, Same
<1>4. \A p : \A d \in Named(p) : \E c \in Named(p)' : Same(c, d)
  BY <1>1 DEF Named, Same
<1>5. \A c, d : Same(c, d) => Listing(c) = Listing(d)
  BY DEF Same, Listing
<1>6. \A p : {Listing(c) : c \in Named(p)'} = {Listing(c) : c \in Named(p)}
  BY <1>3, <1>4, <1>5
<1> QED
  BY <1>2, <1>3, <1>4, <1>6

\* The parts of the invariant that are about files and connections only.
LEMMA KeepsStore ==
    ASSUME Keeps
    PROVE  /\ OneEach => OneEach'
           /\ \A p, x : Holds(p, x) => Holds(p, x)'
           /\ Distinct' /\ OneEach /\ unrecorded \subseteq unrecorded' => \A p : InStep(p) => InStep(p)'
           /\ Vouches /\ Excepts => Vouches'
<1> USE KeepsConnections
<1>1. conf' = conf /\ sidecar' = sidecar
  BY DEF Keeps
<1>2. OneEach => OneEach'
  BY DEF OneEach, Same
<1>3. \A p, x : Holds(p, x) => Holds(p, x)'
  BY DEF Holds, Same
<1>4. ASSUME NEW p, InStep(p), Distinct', OneEach, unrecorded \subseteq unrecorded'
      PROVE  InStep(p)'
  <2>1. conf'[p] # None
    BY <1>1, <1>4 DEF InStep
  <2>2. conf'[p] \notin Bad => sidecar'[p] = conf'[p] /\ Named(p)' # {}
    BY <1>1, <1>4 DEF InStep
  <2>3. Named(p)' \subseteq Ours' => Named(p) \subseteq Ours
    BY DEF Named, Ours, Same, Keeps
  <2>4. ASSUME Named(p)' \subseteq Ours', NEW c \in Named(p)'
        PROVE  /\ Named(p)' = {c} /\ c.endless
               /\ p \notin unrecorded' => conf'[p] \notin Bad /\ c.content = conf'[p]
    <3>1. PICK d \in Named(p) : Same(c, d) /\ (d.endless => c.endless)
      OBVIOUS
    <3>2. /\ Named(p) = {d} /\ d.endless
          /\ p \notin unrecorded => conf[p] \notin Bad /\ d.content = conf[p]
      BY <1>4, <2>3, <2>4 DEF InStep
    <3>3. \A e \in Named(p)' : e.id = c.id
      BY <3>1, <3>2 DEF Same
    <3>4. Named(p)' = {c}
      BY <1>4, <3>3 DEF Distinct, Named
    <3> QED
      BY <1>1, <1>4, <3>1, <3>2, <3>4 DEF Same
  <2> QED
    BY <2>1, <2>2, <2>4 DEF InStep
<1>5. Vouches /\ Excepts => Vouches'
  <2> SUFFICES ASSUME Vouches, Excepts, NEW p \in Profiles \ unrecorded',
                      sidecar'[p] # None, ~Underway(p)'
               PROVE  Holds(p, sidecar[p])'
    BY DEF Vouches
  <2>1. p \notin unrecorded /\ ~Underway(p)
    BY DEF Excepts
  <2>2. Holds(p, sidecar[p])
    BY <1>1, <2>1 DEF Vouches
  <2>3. \A x : Holds(p, x) => Holds(p, x)'
    BY <1>3
  <2> QED
    BY <1>1, <2>2, <2>3 DEF Holds
<1> QED
  BY <1>2, <1>3, <1>4, <1>5

\* Such a step is one that leaves the connections alone, ...
LEMMA StaticKeeps == UNCHANGED <<conf, sidecar, nm, leftovers>> => Keeps
BY DEF Keeps, FlagsOnly, Same

\* ... one that sets a flag of one of them, ...
LEMMA FlagKeeps ==
    ASSUME nm \subseteq Connection, Distinct, NEW c \in nm, NEW k \in Connection,
           Same(k, c), c.endless => k.endless, nm' = (nm \ {c}) \union {k}
    PROVE  Distinct' /\ FlagsOnly
<1>1. IsFiniteSet(nm')
  BY FS_RemoveElement, FS_AddElement DEF Distinct
<1>2. \A d, e \in nm' : d.id = e.id => d = e
  BY DEF Distinct, Same
<1>3. FlagsOnly
  BY DEF FlagsOnly, Same
<1> QED
  BY <1>1, <1>2, <1>3 DEF Distinct

\* ... or the one that takes all of them down.
LEMMA DownKeeps ==
    ASSUME nm \subseteq Connection, Distinct, nm' = {[c EXCEPT !.up = FALSE] : c \in nm}
    PROVE  Distinct' /\ FlagsOnly
<1> DEFINE down == [c \in nm |-> [c EXCEPT !.up = FALSE]]
<1>1. IsFiniteSet(nm')
  <2>1. down \in Surjection(nm, nm')
    BY DEF Surjection
  <2> QED
    BY <2>1, FS_Surjection DEF Distinct
<1>2. \A c \in nm : Same([c EXCEPT !.up = FALSE], c) /\ [c EXCEPT !.up = FALSE].endless = c.endless
  BY DEF Same, Connection
<1>3. ASSUME NEW d \in nm', NEW e \in nm', d.id = e.id
      PROVE  d = e
  <2>1. PICK c \in nm : d = [c EXCEPT !.up = FALSE]
    OBVIOUS
  <2>2. PICK k \in nm : e = [k EXCEPT !.up = FALSE]
    OBVIOUS
  <2>3. c.id = k.id
    BY <1>2, <1>3, <2>1, <2>2 DEF Same
  <2> QED
    BY <2>1, <2>2, <2>3 DEF Distinct
<1>4. FlagsOnly
  BY <1>2 DEF FlagsOnly, Same
<1> QED
  BY <1>1, <1>3, <1>4 DEF Distinct

--------------------------------------------------------------------------------
(* The steps that only look, and those that set flags.                           *)

\* What concerns files and connections only.
LEMMA KeepsStored == ASSUME Stored, Keeps, Distinct', Excepts PROVE Stored'
BY KeepsStore DEF Stored

\* Nothing the invariant is about changes, but perhaps a file.
LEMMA IdleStep ==
    ASSUME Stored, Running,
           UNCHANGED <<sidecar, nm, pc, locals, history>>,
           (clean' = clean /\ conf' = conf) \/ clean' = FALSE
    PROVE  Stored' /\ Running'
<1> USE DEF locals, history
<1>1. Stored'
  BY DEF Stored, Distinct, OneEach, Vouches, Underway, Holds, Ours
<1>2. Position'
  BY DEF Running, Position
<1>3. AboutToVouch'
  BY DEF Running, AboutToVouch, Holds, Named, Ours
<1>4. ListingHolds'
  BY DEF Running, ListingHolds, Waiting, Named, Listing
<1>5. DoomedAre'
  BY DEF Running, DoomedAre, Ours, Listing
<1>6. OrphansGone'
  BY DEF Running, OrphansGone, InLoops, Ours
<1>7. CleanRun'
  <2>1. CASE clean' = FALSE
    BY <2>1 DEF CleanRun
  <2>2. CASE clean' = clean /\ conf' = conf
    BY <2>2 DEF Running, CleanRun, Passed, InStep, Named, Ours
  <2> QED
    BY <2>1, <2>2
<1> QED
  BY <1>1, <1>2, <1>3, <1>4, <1>5, <1>6, <1>7 DEF Running

\* A run starts; what the one before has imported and not recorded is an exception.
LEMMA StartStep ==
    ASSUME Stored, Keeps, Distinct', Start
    PROVE  Stored' /\ Running'
<1>1. Stored'
  <2>1. Excepts
    BY DEF Start, Excepts, Underway
  <2> QED
    BY <2>1, KeepsStored
<1>2. pc' = "start" /\ confs' = {}
  BY DEF Start
<1>3. AboutToVouch' /\ Position' /\ DoomedAre'
  BY <1>2 DEF AboutToVouch, Position, DoomedAre
<1>4. ListingHolds' /\ OrphansGone' /\ CleanRun'
  BY <1>2 DEF ListingHolds, Waiting, OrphansGone, InLoops, CleanRun, Passed
<1> QED
  BY <1>1, <1>3, <1>4 DEF Running

\* A step of a run outside an import that changes neither files nor connections.
LEMMA StaticStored ==
    ASSUME Stored, UNCHANGED <<files, nm, history>>, pc # "imported"
    PROVE  Stored'
<1> USE DEF files, history
<1>1. Keeps /\ Distinct'
  BY StaticKeeps DEF Stored, Distinct
<1>2. Excepts
  BY DEF Excepts, Underway
<1> QED
  BY <1>1, <1>2, KeepsStored

\* It lists the files.
LEMMA ListConfsStep == ASSUME IInv, ListConfs PROVE Stored' /\ Running'
<1> USE DEF ListConfs, files, NoFault
<1>1. Stored'
  BY StaticStored DEF IInv
<1>2. AboutToVouch' /\ Position' /\ DoomedAre'
  BY DEF AboutToVouch, Position, DoomedAre
<1>3. ListingHolds' /\ OrphansGone' /\ CleanRun'
  BY DEF ListingHolds, Waiting, OrphansGone, InLoops, CleanRun, Passed
<1> QED
  BY <1>1, <1>2, <1>3 DEF Running

\* It lists the connections.
LEMMA ListConnectionsStep == ASSUME IInv, ListConnections PROVE Stored' /\ Running'
<1> USE DEF ListConnections, files, NoFault
<1>1. Stored'
  BY StaticStored DEF IInv
<1>2. AboutToVouch' /\ Position'
  BY DEF IInv, Running, AboutToVouch, Position
<1>3. conns' = {Listing(c) : c \in nm} /\ doomed' = {c \in conns' : c.name \notin confs}
  BY DEF Listing
<1>4. \A c : Listing(c).name = c.name
  BY DEF Listing
<1>5. ListingHolds'
  <2>1. Waiting' = confs
    BY DEF Waiting
  <2>2. \A p : {c \in conns' : c.name = p} = {Listing(c) : c \in Named(p)'}
    BY <1>3, <1>4 DEF Named
  <2> QED
    BY <2>1, <2>2 DEF ListingHolds
<1>6. DoomedAre'
  <2>1. \A d \in doomed' : \E c \in nm' : d = Listing(c)
    BY <1>3
  <2>2. \A d \in doomed' : d.name \notin confs'
    BY <1>3
  <2>3. \A c \in Ours' : c.name \notin confs' => Listing(c) \in doomed'
    BY <1>3, <1>4 DEF Ours
  <2> QED
    BY <2>1, <2>2, <2>3 DEF DoomedAre
<1>7. OrphansGone' /\ CleanRun'
  BY DEF IInv, Running, OrphansGone, InLoops, CleanRun, Passed
<1> QED
  BY <1>1, <1>2, <1>5, <1>6, <1>7 DEF Running

\* Or fails to.
LEMMA ListingFailsStep == ASSUME IInv, ListingFails PROVE Stored' /\ Running'
<1> USE DEF ListingFails, files, Fault
<1>1. Stored'
  BY StaticStored DEF IInv
<1>2. AboutToVouch' /\ Position' /\ DoomedAre'
  BY DEF IInv, Running, AboutToVouch, Position, DoomedAre
<1>3. ListingHolds'
  BY DEF ListingHolds, Waiting
<1>4. OrphansGone' /\ CleanRun'
  <2>1. pc' = "done"
    OBVIOUS
  <2>2. clean' = FALSE
    OBVIOUS
  <2> QED
    BY <2>1, <2>2 DEF OrphansGone, InLoops, CleanRun
<1> QED
  BY <1>1, <1>2, <1>3, <1>4 DEF Running

\* The next profile is taken up, or left out.
LEMMA HashStep == ASSUME IInv, Hash PROVE Stored' /\ Running'
<1>1. PICK p \in todo :
          /\ todo' = todo \ {p}
          /\ \/ /\ conf[p] # None
                /\ cur' = p /\ hash' = conf[p] /\ pc' = "compare"
                /\ NoFault
             \/ conf[p] = None /\ NoFault /\ UNCHANGED <<pc, cur, hash>>
             \/ Fault /\ UNCHANGED <<pc, cur, hash>>
  BY DEF Hash
<1>2. UNCHANGED <<conf, sidecar, nm, history, confs, conns, doomed>> /\ pc = "next"
  BY DEF Hash, files
<1>3. p \in confs /\ p \in Profiles /\ todo \subseteq confs
  BY <1>1 DEF IInv, Types
<1>4. Stored'
  BY <1>2, StaticStored DEF IInv, files
<1>5. CASE conf[p] # None /\ cur' = p /\ hash' = conf[p] /\ pc' = "compare" /\ NoFault
  <2>1. AboutToVouch' /\ Position' /\ DoomedAre'
    BY <1>1, <1>2, <1>3, <1>5 DEF AboutToVouch, Position, DoomedAre
  <2>2. ListingHolds'
    <3>1. Waiting' = Waiting
      BY <1>1, <1>2, <1>5 DEF Waiting
    <3> QED
      BY <1>2, <3>1 DEF IInv, Running, ListingHolds, Named, Listing
  <2>3. OrphansGone'
    BY <1>2, <1>5 DEF IInv, Running, OrphansGone, InLoops, Ours, history
  <2>4. CleanRun'
    <3>1. Passed' = Passed
      BY <1>1, <1>2, <1>5 DEF Passed
    <3>2. \A q : InStep(q) => InStep(q)'
      BY <1>2, <1>4 DEF InStep, Named, Ours, history
    <3> QED
      BY <1>2, <1>5, <3>1, <3>2 DEF IInv, Running, CleanRun, NoFault
  <2> QED
    BY <1>4, <2>1, <2>2, <2>3, <2>4 DEF Running
<1>6. CASE /\ (conf[p] = None /\ NoFault) \/ Fault
           /\ UNCHANGED <<pc, cur, hash>>
  <2>1. AboutToVouch' /\ Position' /\ DoomedAre'
    BY <1>2, <1>6 DEF AboutToVouch, Position, DoomedAre
  <2>2. ListingHolds'
    <3>1. Waiting' \subseteq Waiting
      BY <1>1, <1>2, <1>6 DEF Waiting
    <3> QED
      BY <1>2, <3>1 DEF IInv, Running, ListingHolds, Named, Listing
  <2>3. OrphansGone'
    BY <1>2, <1>6 DEF IInv, Running, OrphansGone, InLoops, Ours, history
  <2>4. CleanRun'
    <3>1. CASE Fault
      <4>1. clean' = FALSE
        BY <3>1 DEF Fault
      <4> QED
        BY <4>1 DEF CleanRun
    <3>2. CASE conf[p] = None /\ NoFault
      <4>1. clean' = clean /\ ~clean
        BY <1>2, <1>3, <3>2 DEF IInv, Running, CleanRun, NoFault
      <4> QED
        BY <4>1 DEF CleanRun
    <3> QED
      BY <1>6, <3>1, <3>2
  <2> QED
    BY <1>4, <2>1, <2>2, <2>3, <2>4 DEF Running
<1> QED
  BY <1>1, <1>5, <1>6

\* Its hash is compared with the sidecar.
LEMMA CompareStep == ASSUME IInv, Compare PROVE Stored' /\ Running'
<1>1. /\ UNCHANGED <<conf, sidecar, nm, history, confs, conns, todo, cur, hash, clean>>
      /\ pc = "compare"
  BY DEF Compare, files, NoFault
<1>2. \/ UpToDate /\ pc' = "modify"
      \/ ~UpToDate /\ pc' = "delete" /\ doomed' = {c \in conns : c.name = cur}
  BY DEF Compare
<1>3. Stored'
  BY <1>1, StaticStored DEF IInv, files
<1>4. AboutToVouch' /\ Position'
  BY <1>1, <1>2 DEF IInv, Running, AboutToVouch, Position
<1>5. ListingHolds'
  <2>1. Waiting' \subseteq Waiting
    BY <1>1, <1>2 DEF Waiting
  <2> QED
    BY <1>1, <2>1 DEF IInv, Running, ListingHolds, Named, Listing
<1>6. {c \in conns : c.name = cur} = {Listing(c) : c \in Named(cur)}
  <2>1. cur \in Waiting
    BY <1>1 DEF Waiting
  <2> QED
    BY <2>1 DEF IInv, Running, ListingHolds
<1>7. DoomedAre'
  <2>1. CASE UpToDate /\ pc' = "modify"
    BY <2>1 DEF DoomedAre
  <2>2. CASE ~UpToDate /\ pc' = "delete" /\ doomed' = {c \in conns : c.name = cur}
    <3>1. \A d \in doomed' : d.name = cur' /\ \E c \in nm' : d = Listing(c)
      BY <1>1, <1>6, <2>2 DEF Named
    <3>2. \A c \in Ours' : c.name = cur' => Listing(c) \in doomed'
      BY <1>1, <1>6, <2>2 DEF Named, Ours, history
    <3> QED
      BY <2>2, <3>1, <3>2 DEF DoomedAre
  <2> QED
    BY <1>2, <2>1, <2>2
<1>8. OrphansGone'
  BY <1>1, <1>2 DEF IInv, Running, OrphansGone, InLoops, Ours, history
<1>9. CleanRun'
  <2>1. Passed' = Passed
    BY <1>1, <1>2 DEF Passed
  <2>2. \A q : InStep(q) => InStep(q)'
    BY <1>1 DEF InStep, Named, Ours, history
  <2>3. (\A q \in Passed : InStep(q)) => \A q \in Passed' : InStep(q)'
    BY <2>1, <2>2
  <2>4. Named(cur)' = Named(cur)
    BY <1>1 DEF Named
  <2>5. UpToDate => Named(cur) # {} /\ sidecar[cur] = hash /\ hash # None
    BY <1>1, <1>6 DEF UpToDate, IInv, Running, Position
  <2> QED
    BY <1>1, <1>2, <2>3, <2>4, <2>5 DEF IInv, Running, CleanRun
<1> QED
  BY <1>3, <1>4, <1>5, <1>7, <1>8, <1>9 DEF Running

\* The profiles are brought up, round by round.
LEMMA ActivateStep ==
    ASSUME IInv, StartActivation \/ Activate \/ EndRound, Distinct', Keeps
    PROVE  Stored' /\ Running'
<1>1. UNCHANGED <<conf, sidecar, history, confs, clean>>
  BY DEF StartActivation, Activate, EndRound, files, NoFault
<1>2. /\ (pc = "next" /\ todo = {}) \/ pc = "activate"
      /\ pc' \in {"activate", "done"}
  BY DEF StartActivation, Activate, EndRound
<1>3. Stored'
  <2>1. Excepts
    BY <1>1, <1>2 DEF Excepts, Underway, history
  <2> QED
    BY <2>1, KeepsStored DEF IInv
<1>4. AboutToVouch' /\ Position' /\ DoomedAre'
  BY <1>2 DEF AboutToVouch, Position, DoomedAre
<1>5. ListingHolds'
  BY <1>2 DEF ListingHolds, Waiting
<1>6. OrphansGone'
  BY <1>1, <1>2, KeepsConnections DEF IInv, Running, OrphansGone, InLoops, Same
<1>7. CleanRun'
  <2>1. Passed' = Passed
    BY <1>1, <1>2 DEF Passed
  <2>2. (\A q \in Passed : InStep(q)) => \A q \in Passed' : InStep(q)'
    BY <1>1, <2>1, KeepsStore DEF IInv, Stored, history
  <2> QED
    BY <1>1, <1>2, <2>2 DEF IInv, Running, CleanRun
<1> QED
  BY <1>3, <1>4, <1>5, <1>6, <1>7 DEF Running

\* The profile in hand is configured to connect indefinitely: it is in step now.
LEMMA ModifyStep ==
    ASSUME IInv, Modify, Distinct', Keeps,
           NoFault => \E k \in Named(cur)' : k.endless
    PROVE  Stored' /\ Running'
<1>1. /\ UNCHANGED <<conf, sidecar, history, confs, conns, todo, doomed, cur, hash>>
      /\ pc = "modify" /\ pc' = "next"
      /\ NoFault \/ Fault
  BY DEF Modify, files
<1>2. Stored'
  <2>1. Excepts
    BY <1>1 DEF Excepts, Underway, history
  <2> QED
    BY <2>1, KeepsStored DEF IInv
<1>3. AboutToVouch' /\ Position' /\ DoomedAre'
  BY <1>1 DEF AboutToVouch, Position, DoomedAre
<1>4. ListingHolds'
  <2>1. Waiting' = Waiting
    BY <1>1 DEF Waiting
  <2> QED
    BY <1>1, <2>1, KeepsConnections DEF IInv, Running, ListingHolds
<1>5. OrphansGone'
  BY <1>1, KeepsConnections DEF IInv, Running, OrphansGone, InLoops, Same
<1>6. CASE Fault
  <2>1. clean' = FALSE
    BY <1>6 DEF Fault
  <2> QED
    BY <1>2, <1>3, <1>4, <1>5, <2>1 DEF Running, CleanRun
<1>7. CASE NoFault
  <2>1. clean' = clean
    BY <1>7 DEF NoFault
  <2> SUFFICES ASSUME clean PROVE CleanRun'
    BY <1>2, <1>3, <1>4, <1>5, <2>1 DEF Running, CleanRun
  <2>2. cur \in confs /\ confs \subseteq Profiles
    BY <1>1 DEF IInv, Types, Running, Position
  <2>3. sidecar[cur] = conf[cur] /\ conf[cur] # None /\ Named(cur) # {}
    BY <1>1 DEF IInv, Running, CleanRun
  <2>4. cur \notin unrecorded => Holds(cur, conf[cur])
    BY <1>1, <2>2, <2>3 DEF IInv, Stored, Vouches, Underway
  <2>5. ASSUME Named(cur)' \subseteq Ours', NEW c \in Named(cur)'
        PROVE  /\ Named(cur)' = {c} /\ c.endless
               /\ cur \notin unrecorded => conf[cur] \notin Bad /\ c.content = conf[cur]
    <3>1. PICK k \in Named(cur)' : k.endless
      BY <1>7
    <3>2. \A d \in Named(cur)' : d.id = c.id
      BY <1>2, <2>5 DEF Stored, OneEach, Named
    <3>3. \A d \in Named(cur)' : d = c
      BY <1>2, <2>5, <3>2 DEF Stored, Distinct, Named
    <3>4. \E d \in Ours : d.name = cur /\ d.content = c.content
      BY <1>1, <2>5, KeepsConnections DEF Same, Named
    <3> QED
      BY <2>4, <2>5, <3>1, <3>3, <3>4 DEF Holds
  <2>6. Named(cur)' # {}
    BY <1>1, <2>3 DEF Named, Keeps, FlagsOnly, Same
  <2>7. InStep(cur)'
    BY <1>1, <2>3, <2>5, <2>6 DEF InStep, history
  <2>8. Passed' = Passed \union {cur}
    BY <1>1, <2>2 DEF Passed, IInv, Running, Position
  <2>9. \A q \in Passed' : InStep(q)'
    BY <1>1, <2>7, <2>8, KeepsStore DEF IInv, Stored, Running, CleanRun, history
  <2> QED
    BY <1>1, <2>9 DEF IInv, Running, CleanRun
<1> QED
  BY <1>1, <1>6, <1>7

--------------------------------------------------------------------------------
(* The steps that change what there is.                                          *)

\* A connection is deleted, or known to be left: it is not one the run has dealt with.
LEMMA DeleteStep == ASSUME IInv, Delete PROVE Stored' /\ Running'
<1>1. PICK x \in doomed :
          /\ doomed' = doomed \ {x}
          /\ \/ nm' = {d \in nm : d.id # x.id} /\ NoFault /\ UNCHANGED leftovers
             \/ Fault /\ leftovers' = leftovers \union {x.id} /\ UNCHANGED nm
  BY DEF Delete
<1>2. /\ UNCHANGED <<conf, sidecar, pc, confs, conns, todo, cur, hash, unrecorded>>
      /\ pc \in {"orphans", "delete"}
      /\ clean' => clean
  <2>1. CASE NoFault
    BY <2>1 DEF Delete, files, NoFault
  <2>2. CASE Fault
    <3>1. clean' = FALSE
      BY <2>2 DEF Fault
    <3> QED
      BY <2>2, <3>1 DEF Delete, files
  <2> QED
    BY <1>1, <2>1, <2>2
<1>3. PICK k \in nm : x = Listing(k)
  BY <1>1, <1>2 DEF IInv, Running, DoomedAre
<1>4. x.id = k.id /\ x.name = k.name
  BY <1>3 DEF Listing
<1>5. /\ nm' \subseteq nm /\ (\A c \in nm : c # k => c \in nm')
      /\ Ours' = Ours \ {k}
  <2>1. \A d \in nm : d.id # x.id <=> d # k
    BY <1>4 DEF IInv, Stored, Distinct
  <2>2. CASE nm' = {d \in nm : d.id # x.id} /\ UNCHANGED leftovers
    BY <2>1, <2>2 DEF Ours
  <2>3. CASE leftovers' = leftovers \union {x.id} /\ UNCHANGED nm
    BY <2>1, <2>3 DEF Ours
  <2> QED
    BY <1>1, <2>2, <2>3
<1>6. \A p : p # k.name => Named(p)' = Named(p)
  BY <1>5 DEF Named
<1>7. pc = "orphans" => k.name \notin confs
  BY <1>1, <1>4 DEF IInv, Running, DoomedAre
<1>8. pc = "delete" => k.name = cur /\ cur \in confs /\ cur \notin todo
  BY <1>1, <1>4 DEF IInv, Running, DoomedAre, Position
<1>9. Distinct' /\ OneEach'
  <2>1. IsFiniteSet(nm')
    BY <1>5, FS_Subset DEF IInv, Stored, Distinct
  <2> QED
    BY <1>5, <2>1 DEF IInv, Stored, Distinct, OneEach
<1>10. Position' /\ AboutToVouch'
  BY <1>2 DEF IInv, Running, Position, AboutToVouch
<1>11. Vouches'
  <2>1. \A p, y : Holds(p, y) => Holds(p, y)'
    BY <1>5 DEF Holds
  <2> QED
    BY <1>2, <2>1 DEF IInv, Stored, Vouches, Underway
<1>12. ListingHolds'
  <2>1. Waiting' = Waiting /\ k.name \notin Waiting
    BY <1>2, <1>7, <1>8 DEF Waiting
  <2> QED
    BY <1>2, <1>6, <2>1 DEF IInv, Running, ListingHolds
<1>13. DoomedAre'
  <2>1. \A d \in doomed' : \E c \in nm' : d = Listing(c)
    BY <1>1, <1>2, <1>3, <1>5 DEF IInv, Running, DoomedAre
  <2>2. \A c \in Ours' : Listing(c) # x
    BY <1>4, <1>5 DEF IInv, Stored, Distinct, Ours, Listing
  <2>3. pc = "orphans" => \A c \in Ours' : c.name \notin confs => Listing(c) \in doomed'
    BY <1>1, <1>5, <2>2 DEF IInv, Running, DoomedAre
  <2>4. pc = "delete" => \A c \in Ours' : c.name = cur => Listing(c) \in doomed'
    BY <1>1, <1>5, <2>2 DEF IInv, Running, DoomedAre
  <2> QED
    BY <1>1, <1>2, <1>8, <2>1, <2>3, <2>4 DEF IInv, Running, DoomedAre
<1>14. OrphansGone'
  BY <1>2, <1>5 DEF IInv, Running, OrphansGone, InLoops
<1>15. CleanRun'
  <2>1. Passed' = Passed /\ k.name \notin Passed
    BY <1>2, <1>7, <1>8 DEF Passed
  <2>2. \A q \in Passed : InStep(q) => InStep(q)'
    <3> SUFFICES ASSUME NEW q \in Passed, InStep(q) PROVE InStep(q)'
      OBVIOUS
    <3>1. Named(q)' = Named(q) /\ q # k.name
      BY <1>6, <2>1
    <3>2. Named(q)' \subseteq Ours' <=> Named(q) \subseteq Ours
      BY <1>5, <3>1 DEF Named
    <3> QED
      BY <1>2, <3>1, <3>2 DEF InStep
  <2> QED
    BY <1>2, <2>1, <2>2 DEF IInv, Running, CleanRun
<1> QED
  BY <1>9, <1>10, <1>11, <1>12, <1>13, <1>14, <1>15 DEF Stored, Running

\* The file is imported under a fresh identifier, or left out.
LEMMA ImportStep == ASSUME IInv, Import PROVE Stored' /\ Running'
<1>1. /\ UNCHANGED <<conf, sidecar, confs, conns, todo, doomed, cur, hash>>
      /\ pc = "delete" /\ doomed = {}
      /\ clean' => clean
  <2>1. CASE NoFault
    BY <2>1 DEF Import, Skip, NoFault
  <2>2. CASE Fault
    <3>1. clean' = FALSE
      BY <2>2 DEF Fault
    <3> QED
      BY <2>2, <3>1 DEF Import, Skip
  <2> QED
    BY <2>1, <2>2 DEF Import
<1>2. cur \in Profiles /\ cur \in confs /\ cur \notin todo
  BY <1>1 DEF IInv, Types, Running, Position
<1>3. \A c \in Ours : c.name # cur
  BY <1>1 DEF IInv, Running, DoomedAre
<1>4. hash # None
  BY <1>1 DEF IInv, Running, Position
<1> DEFINE k == [name |-> cur, id |-> FreshId, content |-> conf[cur], endless |-> FALSE,
                 up |-> FALSE]
<1>5. CASE /\ conf[cur] \notin Bad \union {None}
           /\ nm' = nm \union {k} /\ leftovers' = leftovers \ {FreshId} /\ pc' = "imported"
           /\ unrecorded' = IF conf[cur] = hash THEN unrecorded \ {cur} ELSE unrecorded \union {cur}
  <2>1. FreshId \notin Ids(nm)
    BY FreshIdIsFresh DEF IInv, Types, Stored, Distinct
  <2>2. k.name = cur /\ k.id = FreshId /\ k.content = conf[cur]
    OBVIOUS
  <2> HIDE DEF k
  <2>3. \A c \in nm : c.id # k.id
    BY <2>1, <2>2 DEF Ids
  <2>4. Ours' = Ours \union {k}
    BY <1>5, <2>2, <2>3 DEF Ours
  <2>5. \A p : p # cur => Named(p)' = Named(p)
    BY <1>5, <2>2 DEF Named
  <2>6. Distinct'
    <3>1. IsFiniteSet(nm')
      BY <1>5, FS_AddElement DEF IInv, Stored, Distinct
    <3> QED
      BY <1>5, <2>3, <3>1 DEF IInv, Stored, Distinct
  <2>7. OneEach'
    BY <1>3, <2>2, <2>4 DEF IInv, Stored, OneEach
  <2>8. Position' /\ DoomedAre'
    BY <1>1, <1>5 DEF IInv, Running, Position, DoomedAre
  <2>9. \A p, x : p # cur /\ Holds(p, x) => Holds(p, x)'
    BY <2>2, <2>4 DEF Holds
  <2>10. Vouches'
    BY <1>1, <1>5, <2>9 DEF IInv, Stored, Vouches, Underway
  <2>11. AboutToVouch'
    <3>1. k \in Named(cur)'
      BY <1>1, <1>5, <2>2 DEF Named
    <3>2. Holds(cur, conf[cur])'
      BY <1>1, <1>3, <1>5, <2>2, <2>4 DEF Holds
    <3> QED
      BY <1>1, <1>2, <1>5, <3>1, <3>2 DEF AboutToVouch
  <2>12. ListingHolds'
    <3>1. Waiting' = Waiting /\ cur \notin Waiting
      BY <1>1, <1>2, <1>5 DEF Waiting
    <3> QED
      BY <1>1, <2>5, <3>1 DEF IInv, Running, ListingHolds
  <2>13. OrphansGone'
    BY <1>1, <1>2, <1>5, <2>2, <2>4 DEF IInv, Running, OrphansGone, InLoops
  <2>14. CleanRun'
    <3>1. Passed' = Passed /\ cur \notin Passed
      BY <1>1, <1>5 DEF Passed
    <3>2. \A q \in Passed : InStep(q) => InStep(q)'
      <4> SUFFICES ASSUME NEW q \in Passed, InStep(q) PROVE InStep(q)'
        OBVIOUS
      <4>1. Named(q)' = Named(q) /\ q # cur
        BY <2>5, <3>1
      <4>2. Named(q)' \subseteq Ours' => Named(q) \subseteq Ours
        BY <2>2, <2>4, <4>1 DEF Named
      <4>3. q \notin unrecorded' => q \notin unrecorded
        BY <1>5, <4>1
      <4> QED
        BY <1>1, <4>1, <4>2, <4>3 DEF InStep
    <3> QED
      BY <1>1, <1>5, <3>1, <3>2 DEF IInv, Running, CleanRun
  <2> QED
    BY <2>6, <2>7, <2>8, <2>10, <2>11, <2>12, <2>13, <2>14 DEF Stored, Running
<1>6. CASE /\ UNCHANGED <<nm, history>> /\ pc' = "next"
           /\ conf[cur] \in Bad \union {None} \/ Fault
  <2>1. Stored'
    BY <1>1, <1>6, StaticStored DEF IInv, files
  <2>2. AboutToVouch' /\ Position' /\ DoomedAre'
    BY <1>6 DEF AboutToVouch, Position, DoomedAre
  <2>3. ListingHolds'
    <3>1. Waiting' = Waiting
      BY <1>1, <1>6 DEF Waiting
    <3> QED
      BY <1>1, <1>6, <3>1 DEF IInv, Running, ListingHolds, Named
  <2>4. OrphansGone'
    BY <1>1, <1>6 DEF IInv, Running, OrphansGone, InLoops, Ours, history
  <2>5. CASE Fault
    <3>1. clean' = FALSE
      BY <2>5 DEF Fault
    <3> QED
      BY <2>1, <2>2, <2>3, <2>4, <3>1 DEF Running, CleanRun
  <2>6. CASE conf[cur] \in Bad \union {None}
    <3> SUFFICES ASSUME clean' PROVE CleanRun'
      BY <2>1, <2>2, <2>3, <2>4 DEF Running, CleanRun
    <3>1. conf[cur] # None
      BY <1>1, <1>4 DEF IInv, Running, CleanRun
    <3>2. InStep(cur)
      BY <1>3, <2>6, <3>1 DEF InStep, Named
    <3>3. Passed' = Passed \union {cur}
      BY <1>1, <1>2, <1>6 DEF Passed
    <3>4. \A q \in Passed' : InStep(q)'
      BY <1>1, <1>6, <3>2, <3>3 DEF IInv, Running, CleanRun, InStep, Named, Ours, history
    <3> QED
      BY <1>1, <1>6, <3>4 DEF IInv, Running, CleanRun
  <2> QED
    BY <1>6, <2>5, <2>6
<1> QED
  BY <1>5, <1>6 DEF Import, Skip

\* The sidecar is written: it vouches for what has just been imported, or for
\* nothing.
LEMMA WriteSidecarStep == ASSUME IInv, WriteSidecar PROVE Stored' /\ Running'
<1>1. PICK left \in {hash, sidecar[cur], None} :
          /\ sidecar' = [sidecar EXCEPT ![cur] = left]
          /\ \/ NoFault /\ left = hash /\ unrecorded' = unrecorded
             \/ Fault /\ unrecorded' = unrecorded \union {cur}
  BY DEF WriteSidecar
<1>2. /\ UNCHANGED <<conf, nm, leftovers, confs, conns, todo, doomed, cur, hash>>
      /\ pc = "imported" /\ pc' = "modify"
  BY DEF WriteSidecar, locals
<1>3. cur \in Profiles
  BY <1>2 DEF IInv, Types, Running, Position
<1>4. sidecar'[cur] = left /\ \A p \in Profiles : p # cur => sidecar'[p] = sidecar[p]
  BY <1>1, <1>3 DEF IInv, Types
<1>5. Distinct' /\ OneEach'
  BY <1>2 DEF IInv, Stored, Distinct, OneEach, Ours
<1>6. \A p, x : Holds(p, x) => Holds(p, x)'
  BY <1>2 DEF Holds, Ours
<1>7. unrecorded \subseteq unrecorded'
  BY <1>1
<1>8. Vouches'
  <2> SUFFICES ASSUME NEW p \in Profiles \ unrecorded', sidecar'[p] # None
               PROVE  Holds(p, sidecar[p])'
    BY DEF Vouches
  <2>1. CASE p = cur
    BY <1>1, <1>2, <1>4, <1>6, <2>1 DEF IInv, Running, AboutToVouch, Holds, Ours
  <2>2. CASE p # cur
    BY <1>2, <1>4, <1>6, <1>7, <2>2 DEF IInv, Stored, Vouches, Underway, Holds, Ours
  <2> QED
    BY <2>1, <2>2
<1>9. AboutToVouch' /\ Position' /\ DoomedAre'
  BY <1>2 DEF IInv, Running, AboutToVouch, Position, DoomedAre
<1>10. ListingHolds'
  <2>1. Waiting' = Waiting
    BY <1>2 DEF Waiting
  <2> QED
    BY <1>2, <2>1 DEF IInv, Running, ListingHolds, Named
<1>11. OrphansGone'
  BY <1>2 DEF IInv, Running, OrphansGone, InLoops, Ours
<1>12. CASE Fault
  <2>1. clean' = FALSE
    BY <1>12 DEF Fault
  <2> QED
    BY <1>5, <1>8, <1>9, <1>10, <1>11, <2>1 DEF Stored, Running, CleanRun
<1>13. CASE NoFault /\ left = hash
  <2>1. clean' = clean
    BY <1>13 DEF NoFault
  <2> SUFFICES ASSUME clean PROVE CleanRun'
    BY <1>5, <1>8, <1>9, <1>10, <1>11, <2>1 DEF Stored, Running, CleanRun
  <2>2. sidecar'[cur] = conf[cur] /\ conf[cur] # None /\ Named(cur) # {}
    BY <1>2, <1>4, <1>13 DEF IInv, Running, CleanRun, Position, AboutToVouch
  <2>3. Passed' = Passed /\ cur \notin Passed /\ Passed \subseteq Profiles
    BY <1>2 DEF Passed, IInv, Types
  <2>4. \A q \in Passed : InStep(q) => InStep(q)'
    BY <1>2, <1>4, <1>7, <2>3 DEF InStep, Named, Ours
  <2> QED
    BY <1>2, <2>2, <2>3, <2>4 DEF IInv, Running, CleanRun, Named
<1> QED
  BY <1>1, <1>12, <1>13

\* Sidecars of profiles without a file go, once their connections have gone.
LEMMA PruneSidecarsStep == ASSUME IInv, PruneSidecars PROVE Stored' /\ Running'
<1>1. /\ UNCHANGED <<conf, nm, history, confs, conns, doomed, cur, hash>>
      /\ pc = "orphans" /\ doomed = {} /\ pc' = "next" /\ todo' = confs
      /\ clean' => clean
  <2>1. CASE NoFault
    BY <2>1 DEF PruneSidecars, NoFault
  <2>2. CASE Fault
    <3>1. clean' = FALSE
      BY <2>2 DEF Fault
    <3> QED
      BY <2>2, <3>1 DEF PruneSidecars
  <2> QED
    BY <2>1, <2>2 DEF PruneSidecars
<1>2. \A p \in Profiles : sidecar'[p] \in {sidecar[p], None}
  BY DEF PruneSidecars
<1>3. Distinct' /\ OneEach'
  BY <1>1 DEF IInv, Stored, Distinct, OneEach, Ours, history
<1>5. \A p, x : Holds(p, x) => Holds(p, x)'
  BY <1>1 DEF Holds, Ours, history
<1>6. Vouches'
  BY <1>1, <1>2, <1>5 DEF IInv, Stored, Vouches, Underway, history
<1>7. AboutToVouch' /\ Position' /\ DoomedAre'
  BY <1>1 DEF AboutToVouch, Position, DoomedAre
<1>8. ListingHolds'
  <2>1. Waiting' = Waiting
    BY <1>1 DEF Waiting
  <2> QED
    BY <1>1, <2>1 DEF IInv, Running, ListingHolds, Named
<1>9. OrphansGone'
  BY <1>1 DEF IInv, Running, OrphansGone, InLoops, Ours, DoomedAre, history
<1>10. CleanRun'
  <2>1. Passed' = {}
    BY <1>1 DEF Passed
  <2> QED
    BY <1>1, <2>1 DEF IInv, Running, CleanRun
<1> QED
  BY <1>3, <1>6, <1>7, <1>8, <1>9, <1>10 DEF Stored, Running

--------------------------------------------------------------------------------
(* The invariant.                                                                *)

\* The steps that set a flag, or take all connections down.
LEMMA FlagSteps ==
    ASSUME IInv, Modify \/ Activate \/ Reboot
    PROVE  /\ Distinct' /\ Keeps
           /\ Modify /\ NoFault => \E k \in Named(cur)' : k.endless
<1>1. nm \subseteq Connection /\ Distinct
  BY DEF IInv, Types, Stored
<1>2. UNCHANGED <<conf, sidecar, leftovers>>
  BY DEF Modify, Activate, Reboot, files, history
<1>3. nm' = nm => Distinct' /\ Keeps
  BY <1>1, <1>2, StaticKeeps DEF Distinct
<1>4. ASSUME NEW c \in Named(cur), nm' = (nm \ {c}) \union {[c EXCEPT !.endless = TRUE]}, Modify
      PROVE  Distinct' /\ FlagsOnly /\ \E k \in Named(cur)' : k.endless
  <2>1. c \in nm /\ c.name = cur
    BY DEF Named
  <2> DEFINE k == [c EXCEPT !.endless = TRUE]
  <2>2. k \in Connection
    BY <1>1, <2>1, FlagType
  <2>3. Same(k, c)
    BY <1>1, <2>1 DEF Same, Connection
  <2>4. k.endless = TRUE
    BY <1>1, <2>1 DEF Connection
  <2>5. k.endless
    BY <2>4
  <2>6. nm' = (nm \ {c}) \union {k} /\ (c.endless => k.endless)
    BY <1>4, <2>5
  <2> HIDE DEF k
  <2>7. Distinct' /\ FlagsOnly
    BY <1>1, <1>4, <2>1, <2>2, <2>3, <2>5, <2>6, FlagKeeps
  <2>8. k \in Named(cur)'
    BY <1>4, <2>1, <2>3, <2>6 DEF Named, Same, Modify
  <2> QED
    BY <2>5, <2>7, <2>8
<1>5. ASSUME NEW c \in nm, nm' = (nm \ {c}) \union {[c EXCEPT !.up = TRUE]}
      PROVE  Distinct' /\ FlagsOnly
  <2> DEFINE k == [c EXCEPT !.up = TRUE]
  <2>1. k \in Connection
    BY <1>1, FlagType
  <2>2. Same(k, c)
    BY <1>1 DEF Same, Connection
  <2>3. k.endless = c.endless
    BY <1>1 DEF Connection
  <2> HIDE DEF k
  <2> QED
    BY <1>1, <1>5, <2>1, <2>2, <2>3, FlagKeeps DEF k
<1>6. CASE Modify
  <2>1. CASE Fault /\ UNCHANGED nm
    <3>1. ~NoFault
      BY <2>1 DEF Fault, NoFault, counters, IInv, Types
    <3> QED
      BY <1>3, <2>1, <3>1
  <2>2. CASE \E c \in Named(cur) : nm' = (nm \ {c}) \union {[c EXCEPT !.endless = TRUE]}
    BY <1>2, <1>4, <1>6, <2>2 DEF Keeps
  <2> QED
    BY <1>6, <2>1, <2>2 DEF Modify
<1>7. CASE Activate
  <2>1. nm' = nm \/ \E c \in nm : nm' = (nm \ {c}) \union {[c EXCEPT !.up = TRUE]}
    BY <1>7 DEF Activate, Named
  <2>2. ~Modify
    BY <1>7 DEF Activate, Modify
  <2> QED
    BY <1>2, <1>3, <1>5, <2>1, <2>2 DEF Keeps
<1>8. CASE Reboot
  <2>1. ~Modify
    BY <1>8 DEF Reboot, Start, Modify
  <2> QED
    BY <1>1, <1>2, <1>8, <2>1, DownKeeps DEF Reboot, Keeps
<1> QED
  BY <1>6, <1>7, <1>8

\* At first nothing has a sidecar, and nothing is known of a run.
LEMMA InitInvariant == Init => IInv
<1> SUFFICES ASSUME Init PROVE IInv
  OBVIOUS
<1>1. nm = {} \/ \E c \in Connection : nm = {c}
  <2>1. \A p \in Profiles : [name |-> p, id |-> 0, content |-> None, endless |-> FALSE,
                            up |-> FALSE] \in Connection
    BY DEF Connection
  <2> QED
    BY <2>1 DEF Init
<1>2. Types
  <2>1. StoreTypes
    BY <1>1 DEF Init, StoreTypes
  <2>2. changes = 0 /\ faults = 0 /\ restarts = 0
    BY DEF Init
  <2>3. clean = TRUE
    BY DEF Init
  <2>4. nmUp = FALSE
    BY DEF Init
  <2>5. online = FALSE
    BY DEF Init
  <2>6. CounterTypes
    BY <2>2, <2>3, <2>4, <2>5 DEF CounterTypes
  <2>7. ListTypes /\ OtherTypes
    BY DEF Init, ListTypes, OtherTypes
  <2> QED
    BY <2>1, <2>6, <2>7, TypesSplit
<1>3. Distinct
  BY <1>1, FS_EmptySet, FS_Singleton DEF Distinct
<1>4. OneEach /\ Vouches
  BY DEF Init, OneEach, Ours, Vouches
<1>6. pc = "start" /\ confs = {}
  BY DEF Init
<1>7. Running
  BY <1>6 DEF Running, AboutToVouch, Position, ListingHolds, Waiting,
     DoomedAre, OrphansGone, InLoops, CleanRun, Passed
<1> QED
  BY <1>2, <1>3, <1>4, <1>7 DEF IInv, Stored

\* Every step keeps it.
LEMMA NextInvariant == IInv /\ [Next]_vars => IInv'
<1> SUFFICES ASSUME IInv, [Next]_vars PROVE IInv'
  OBVIOUS
<1>1. Types'
  BY NextType DEF IInv, Stored, Running, Distinct
<1>2. Stored' /\ Running'
  <2>1. CASE ListConfs \/ ListConnections \/ ListingFails
    BY <2>1, ListConfsStep, ListConnectionsStep, ListingFailsStep
  <2>2. CASE Delete \/ PruneSidecars
    BY <2>2, DeleteStep, PruneSidecarsStep
  <2>3. CASE Hash \/ Compare
    BY <2>3, HashStep, CompareStep
  <2>4. CASE Import \/ WriteSidecar
    BY <2>4, ImportStep, WriteSidecarStep
  <2>5. CASE Modify
    BY <2>5, FlagSteps, ModifyStep
  <2>6. CASE StartActivation \/ EndRound
    <3>1. Keeps /\ Distinct'
      BY <2>6, StaticKeeps DEF StartActivation, EndRound, files, history, IInv, Stored, Distinct
    <3> QED
      BY <2>6, <3>1, ActivateStep
  <2>7. CASE Activate
    BY <2>7, FlagSteps, ActivateStep
  <2>8. CASE NetworkManagerStarts \/ GoOnline \/ UNCHANGED vars
    <3>1. UNCHANGED <<files, nm, pc, locals, history, clean>>
      BY <2>8 DEF NetworkManagerStarts, GoOnline, vars
    <3> QED
      BY <3>1, IdleStep DEF IInv, files
  <2>9. CASE Change
    <3>1. UNCHANGED <<sidecar, nm, pc, locals, history>> /\ clean' = FALSE
      BY <2>9 DEF Change
    <3> QED
      BY <3>1, IdleStep DEF IInv
  <2>10. CASE Restart
    <3>1. Keeps /\ Distinct'
      BY <2>10, StaticKeeps DEF Restart, files, IInv, Stored, Distinct
    <3> QED
      BY <2>10, <3>1, StartStep DEF Restart, IInv
  <2>11. CASE Reboot
    BY <2>11, FlagSteps, StartStep DEF Reboot, IInv
  <2> QED
    BY <2>1, <2>2, <2>3, <2>4, <2>5, <2>6, <2>7, <2>8, <2>9, <2>10, <2>11
       DEF Next, Initialize, Wait
<1> QED
  BY <1>1, <1>2 DEF IInv

\* What the run leaves, and what interrupted, failed and changed runs have left, is
\* always such that the next one can go by the sidecars.
THEOREM Invariance == Spec => []IInv
BY InitInvariant, NextInvariant, PTL DEF Spec

--------------------------------------------------------------------------------
(* What it is for.                                                               *)

\* An identifier is that of one connection.
LEMMA IdsOfConnections == Distinct => Cardinality(Ids(nm)) = Cardinality(nm)
<1> SUFFICES ASSUME Distinct PROVE Cardinality(Ids(nm)) = Cardinality(nm)
  OBVIOUS
<1> DEFINE f == [c \in nm |-> c.id]
<1>1. f \in Bijection(nm, Ids(nm))
  BY DEF Distinct, Ids, Bijection, Injection, Surjection, IsInjective
<1> QED
  BY <1>1, FS_Bijection DEF Distinct, ExistsBijection

\* Every variable has its type, and no two connections share an identifier.
THEOREM WireGuardTypeCorrect == Spec => []TypeOK
<1>1. IInv => TypeOK
  BY IdsOfConnections DEF IInv, Stored, TypeOK
<1> QED
  BY <1>1, Invariance, PTL

\* After a run in which nothing failed or changed, the connections are those of
\* the files.
LEMMA InvariantSynced == IInv => Synced
<1> SUFFICES ASSUME IInv, pc \in {"activate", "done"}, clean PROVE Synced
  BY DEF Synced
<1> DEFINE kept == {c.name : c \in {d \in nm : d.id \in leftovers}}
<1>1. \A p \in Profiles : p \in confs <=> conf[p] # None
  BY DEF IInv, Running, CleanRun
<1>2. \A p \in confs : InStep(p)
  BY DEF IInv, Running, CleanRun, Passed
<1>3. \A p \in Profiles : conf[p] \notin Bad \union {None} => sidecar[p] = conf[p] /\ Named(p) # {}
  BY <1>1, <1>2 DEF InStep
<1>4. \A c \in nm : c.id \notin leftovers => c.name \in confs /\ conf[c.name] # None
  BY <1>1 DEF IInv, Running, OrphansGone, InLoops, Ours, Types
<1>5. ASSUME NEW p \in Profiles \ kept, NEW c \in Named(p)
      PROVE  /\ Named(p) = {c} /\ c.endless
             /\ p \notin unrecorded => conf[p] \notin Bad /\ c.content = conf[p]
  <2>1. Named(p) \subseteq Ours
    BY DEF Named, Ours
  <2>2. p \in confs
    BY <1>4, <2>1 DEF Named, Ours
  <2> QED
    BY <1>2, <2>1, <2>2 DEF InStep
<1> QED
  BY <1>3, <1>4, <1>5 DEF Synced

\* A run in which nothing fails or changes makes the connections of NetworkManager
\* those of the files, whatever failures, crashes and changes have gone before; of a
\* profile whose last import has not got into its sidecar the content may differ.
THEOREM SynchronisedAfterACleanRun == Spec => []Synced
BY InvariantSynced, Invariance, PTL

================================================================================
