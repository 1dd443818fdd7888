------------------------------- MODULE WireGuard --------------------------------
(* internal/wireguard and internal/nmready: at every start, Manager.Initialize    *)
(* makes the WireGuard connections of NetworkManager equal to the files           *)
(* /data/wireguard/*.conf, remembers the hash of what it has imported in a        *)
(* sidecar file next to each, and brings the profiles up.  NetworkManager, and    *)
(* the administrator who edits the files, are outside src/.                       *)
(*                                                                               *)
(* A content stands for its SHA-256 too.  A file may be put back to a content it   *)
(* had before.                                                                   *)
EXTENDS Integers, FiniteSets

CONSTANTS Profiles,     \* base names of *.conf
          Contents,     \* what a file may hold
          None,         \* no file, no sidecar, a connection made by hand
          Bad,          \* contents nmcli refuses to import
          Dead,         \* profiles that can never be activated
          MaxChanges,   \* bound: changes of a file
          MaxFaults,    \* bound: commands and writes that fail
          MaxRestarts   \* bound: crashes, shutdowns and reboots

ASSUME ContentsAssumption == None \notin Contents /\ Bad \subseteq Contents /\ Dead \subseteq Profiles
ASSUME BoundsAssumption == MaxChanges \in Nat /\ MaxFaults \in Nat /\ MaxRestarts \in Nat

VARIABLES conf,       \* the content of each .conf
          sidecar,    \* the hash in each .sha256
          nm,         \* the WireGuard connections of NetworkManager
          nmUp,       \* NetworkManager runs
          online,     \* and can bring a connection up
          pc,         \* where Initialize is
          confs,      \* the profiles it has listed
          conns,      \* the connections it has listed
          todo,       \* the profiles left of the loop it is in
          doomed,     \* the connections it is about to delete
          cur, hash,  \* the profile in syncConf, and the hash it has taken
          profiles,   \* those that are to be activated
          pending,    \* those of them that are not up yet
          leftovers,  \* connections whose removal has failed (history variable)
          unrecorded, \* profiles whose last import has not got into its sidecar (history variable)
          clean,      \* nothing failed or changed since the start (history variable)
          changes, faults, restarts

files == <<conf, sidecar>>
locals == <<confs, conns, todo, doomed, cur, hash, profiles, pending>>
network == <<nmUp, online>>
counters == <<changes, faults, restarts>>
history == <<leftovers, unrecorded>>
vars == <<files, nm, network, pc, locals, history, clean, counters>>

Named(p) == {c \in nm : c.name = p}
Ids(connections) == {c.id : c \in connections}
FreshId == CHOOSE id \in 0..Cardinality(nm) : id \notin Ids(nm)

Fault == /\ faults < MaxFaults
         /\ faults' = faults + 1
         /\ clean' = FALSE
         /\ UNCHANGED <<changes, restarts>>

NoFault == UNCHANGED <<clean, counters>>

--------------------------------------------------------------------------------
(* Initialize: what is listed, and what has no file.                             *)

\* Initialize, once nmready.Wait finds NetworkManager running.
ListConfs ==
    /\ pc = "start" /\ nmUp
    /\ confs' = {p \in Profiles : conf[p] # None}
    /\ pc' = "list"
    /\ NoFault
    /\ UNCHANGED <<files, nm, network, conns, todo, doomed, cur, hash, profiles, pending, history>>

ListConnections ==
    /\ pc = "list"
    /\ conns' = {[name |-> c.name, id |-> c.id] : c \in nm}
    /\ doomed' = {c \in conns' : c.name \notin confs}
    /\ pc' = "orphans"
    /\ NoFault
    /\ UNCHANGED <<files, nm, network, confs, todo, cur, hash, profiles, pending, history>>

\* Listing fails: Initialize returns, nothing is tried again before the next start.
ListingFails ==
    /\ pc = "list"
    /\ Fault
    /\ pc' = "done"
    /\ UNCHANGED <<files, nm, network, locals, history>>

\* deleteByUUID, of an orphan or of what syncConf replaces; a failure is a warning.
Delete ==
    /\ pc \in {"orphans", "delete"}
    /\ \E c \in doomed :
          /\ doomed' = doomed \ {c}
          /\ \/ nm' = {d \in nm : d.id # c.id} /\ NoFault /\ UNCHANGED leftovers
             \/ Fault /\ leftovers' = leftovers \union {c.id} /\ UNCHANGED nm
    /\ UNCHANGED <<files, network, pc, confs, conns, todo, cur, hash, profiles, pending, unrecorded>>

\* pruneOrphanSidecars
PruneSidecars ==
    /\ pc = "orphans" /\ doomed = {}
    /\ \/ sidecar' = [p \in Profiles |-> IF p \in confs THEN sidecar[p] ELSE None] /\ NoFault
       \/ Fault /\ UNCHANGED sidecar
    /\ pc' = "next" /\ todo' = confs
    /\ UNCHANGED <<conf, nm, network, confs, conns, doomed, cur, hash, profiles, pending, history>>

--------------------------------------------------------------------------------
(* syncConf, profile by profile.                                                 *)

\* The order is that of a map, which is any.  A file that is gone is skipped.
Hash ==
    /\ pc = "next"
    /\ \E p \in todo :
          /\ todo' = todo \ {p}
          /\ \/ /\ conf[p] # None
                /\ cur' = p /\ hash' = conf[p] /\ pc' = "compare"
                /\ NoFault
             \/ conf[p] = None /\ NoFault /\ UNCHANGED <<pc, cur, hash>>
             \/ Fault /\ UNCHANGED <<pc, cur, hash>>
    /\ UNCHANGED <<files, nm, network, confs, conns, doomed, profiles, pending, history>>

\* Mutant of UpToDate: a connection of the name is enough.
UpToDateByName == \E c \in conns : c.name = cur

UpToDate == sidecar[cur] = hash /\ \E c \in conns : c.name = cur

Compare ==
    /\ pc = "compare"
    /\ IF UpToDate THEN pc' = "modify" /\ UNCHANGED doomed
       ELSE pc' = "delete" /\ doomed' = {c \in conns : c.name = cur}
    /\ NoFault
    /\ UNCHANGED <<files, nm, network, confs, conns, todo, cur, hash, profiles, pending, history>>

Skip == pc' = "next" /\ UNCHANGED <<sidecar, nm, profiles>>

\* nmcli reads the file once more: what it imports need not be what was hashed.  A
\* failure leaves the profile out until the next start; the sidecar stays, but its
\* connection is gone.
Import ==
    /\ pc = "delete" /\ doomed = {}
    /\ \/ /\ conf[cur] \notin Bad \union {None}
          /\ nm' = nm \union {[name |-> cur, id |-> FreshId, content |-> conf[cur],
                               endless |-> FALSE, up |-> FALSE]}
          /\ leftovers' = leftovers \ {FreshId}
          /\ unrecorded' = IF conf[cur] = hash THEN unrecorded \ {cur} ELSE unrecorded \union {cur}
          /\ pc' = "imported"
          /\ NoFault /\ UNCHANGED <<sidecar, profiles>>
       \/ conf[cur] \in Bad \union {None} /\ Skip /\ NoFault /\ UNCHANGED history
       \/ Fault /\ Skip /\ UNCHANGED history
    /\ UNCHANGED <<conf, network, confs, conns, todo, doomed, cur, hash, pending>>

\* A failing write, which has emptied the file first, is a warning.
WriteSidecar ==
    /\ pc = "imported"
    /\ \/ sidecar' = [sidecar EXCEPT ![cur] = hash] /\ NoFault /\ UNCHANGED unrecorded
       \/ /\ Fault
          /\ \E left \in {sidecar[cur], None} : sidecar' = [sidecar EXCEPT ![cur] = left]
          /\ unrecorded' = unrecorded \union {cur}
    /\ pc' = "modify"
    /\ UNCHANGED <<conf, nm, network, locals, leftovers>>

\* ensureAutoconnect; a failure is a warning.
Modify ==
    /\ pc = "modify"
    /\ \/ /\ \E c \in Named(cur) : nm' = (nm \ {c}) \union {[c EXCEPT !.endless = TRUE]}
          /\ NoFault
       \/ Fault /\ UNCHANGED nm
    /\ profiles' = profiles \union {cur}
    /\ pc' = "next"
    /\ UNCHANGED <<files, network, confs, conns, todo, doomed, cur, hash, pending, history>>

--------------------------------------------------------------------------------
(* activateProfiles: rounds over what is pending, until nothing is.              *)

\* Mutant of StartActivation: what was listed is activated, imported or not.
StartActivationAll ==
    /\ pc = "next" /\ todo = {}
    /\ pending' = confs /\ todo' = confs
    /\ pc' = "activate"
    /\ NoFault
    /\ UNCHANGED <<files, nm, network, confs, conns, doomed, cur, hash, profiles, history>>

StartActivation ==
    /\ pc = "next" /\ todo = {}
    /\ pending' = profiles /\ todo' = profiles
    /\ pc' = "activate"
    /\ NoFault
    /\ UNCHANGED <<files, nm, network, confs, conns, doomed, cur, hash, profiles, history>>

Works(p) == online /\ p \notin Dead

\* Mutant of Activate: the first failure ends the round.
ActivateInOrder ==
    /\ pc = "activate"
    /\ \E p \in todo :
          \/ /\ Works(p)
             /\ \E c \in Named(p) : nm' = (nm \ {c}) \union {[c EXCEPT !.up = TRUE]}
             /\ pending' = pending \ {p} /\ todo' = todo \ {p}
          \/ ~Works(p) /\ todo' = {} /\ UNCHANGED <<nm, pending>>
    /\ NoFault
    /\ UNCHANGED <<files, network, pc, confs, conns, doomed, cur, hash, profiles, history>>

\* nmcli connection up; a failure leaves the profile pending.
Activate ==
    /\ pc = "activate"
    /\ \E p \in todo :
          /\ todo' = todo \ {p}
          /\ \/ /\ Works(p)
                /\ \E c \in Named(p) : nm' = (nm \ {c}) \union {[c EXCEPT !.up = TRUE]}
                /\ pending' = pending \ {p}
             \/ ~Works(p) /\ UNCHANGED <<nm, pending>>
    /\ NoFault
    /\ UNCHANGED <<files, network, pc, confs, conns, doomed, cur, hash, profiles, history>>

\* The round is over: Initialize returns, or tries again after 2 to 60 seconds.
EndRound ==
    /\ pc = "activate" /\ todo = {}
    /\ IF pending = {} THEN pc' = "done" /\ UNCHANGED todo ELSE todo' = pending /\ UNCHANGED pc
    /\ NoFault
    /\ UNCHANGED <<files, nm, network, confs, conns, doomed, cur, hash, profiles, pending, history>>

Initialize ==
    \/ ListConfs \/ ListConnections \/ ListingFails \/ Delete \/ PruneSidecars
    \/ Hash \/ Compare \/ Import \/ WriteSidecar \/ Modify
    \/ StartActivation \/ Activate \/ EndRound

--------------------------------------------------------------------------------
(* The world around it.                                                          *)

NetworkManagerStarts ==
    /\ ~nmUp /\ nmUp' = TRUE
    /\ UNCHANGED <<files, nm, online, pc, locals, history, clean, counters>>

GoOnline ==
    /\ nmUp /\ ~online /\ online' = TRUE
    /\ UNCHANGED <<files, nm, nmUp, pc, locals, history, clean, counters>>

\* The administrator writes a file, puts an earlier one back, or removes it.
Change ==
    /\ changes < MaxChanges
    /\ changes' = changes + 1
    /\ \E p \in Profiles, content \in Contents \union {None} :
          conf[p] # content /\ conf' = [conf EXCEPT ![p] = content]
    /\ clean' = FALSE
    /\ UNCHANGED <<sidecar, nm, network, pc, locals, history, faults, restarts>>

Start == /\ pc' = "start" /\ clean' = TRUE
         /\ confs' = {} /\ conns' = {} /\ todo' = {} /\ doomed' = {} /\ hash' = None /\ UNCHANGED cur
         /\ profiles' = {} /\ pending' = {}
         /\ unrecorded' = IF pc = "imported" THEN unrecorded \union {cur} ELSE unrecorded

\* The process dies or is stopped at any point, and is started again.
Restart ==
    /\ restarts < MaxRestarts
    /\ restarts' = restarts + 1
    /\ Start
    /\ UNCHANGED <<files, nm, network, leftovers, changes, faults>>

\* NetworkManager keeps its connections over a reboot, but none is up.
Reboot ==
    /\ restarts < MaxRestarts
    /\ restarts' = restarts + 1
    /\ Start
    /\ nm' = {[c EXCEPT !.up = FALSE] : c \in nm}
    /\ nmUp' = FALSE /\ online' = FALSE
    /\ UNCHANGED <<files, leftovers, changes, faults>>

\* At first no connection is ours, but one may have been made by hand.
Init ==
    /\ conf \in [Profiles -> Contents \union {None}]
    /\ sidecar = [p \in Profiles |-> None]
    /\ nm \in {{}} \union {{[name |-> p, id |-> 0, content |-> None, endless |-> FALSE, up |-> FALSE]} :
                           p \in Profiles}
    /\ nmUp = FALSE /\ online = FALSE
    /\ pc = "start" /\ confs = {} /\ conns = {} /\ todo = {} /\ doomed = {}
    /\ cur = None /\ hash = None /\ profiles = {} /\ pending = {} /\ clean = TRUE
    /\ leftovers = {} /\ unrecorded = {}
    /\ changes = 0 /\ faults = 0 /\ restarts = 0

Wait == pc = "done" /\ UNCHANGED vars

Next == Initialize \/ NetworkManagerStarts \/ GoOnline \/ Change \/ Restart \/ Reboot \/ Wait

\* The loops run on, and NetworkManager becomes able to connect in the end: the
\* retries without limit are written for that.  Nothing else is assumed.
Fairness == WF_vars(Initialize) /\ WF_vars(NetworkManagerStarts) /\ WF_vars(GoOnline)

Spec == Init /\ [][Next]_vars /\ Fairness

--------------------------------------------------------------------------------
(* Properties.                                                                   *)

Connection == [name : Profiles, id : Nat, content : Contents \union {None}, endless : BOOLEAN, up : BOOLEAN]
Listed == [name : Profiles, id : Nat]

Types ==
    /\ conf \in [Profiles -> Contents \union {None}]
    /\ sidecar \in [Profiles -> Contents \union {None}]
    /\ nm \subseteq Connection
    /\ nmUp \in BOOLEAN /\ online \in BOOLEAN /\ clean \in BOOLEAN
    /\ pc \in {"start", "list", "orphans", "next", "compare", "delete", "imported", "modify",
               "activate", "done"}
    /\ confs \subseteq Profiles /\ todo \subseteq confs
    /\ conns \subseteq Listed /\ doomed \subseteq conns
    /\ cur \in Profiles \union {None} /\ hash \in Contents \union {None}
    /\ pending \subseteq profiles /\ profiles \subseteq confs
    /\ leftovers \subseteq Nat /\ unrecorded \subseteq Profiles
    /\ changes \in Nat /\ faults \in Nat /\ restarts \in Nat

\* Every variable has its type, and an identifier is that of one connection.
TypeOK == Types /\ Cardinality(Ids(nm)) = Cardinality(nm)

\* Initialize, after a run in which nothing failed or changed, whatever earlier
\* failures, crashes and changes have left behind.  Every importable file has a
\* connection and its sidecar, and "removed files remove their matching
\* connections" (README.md), save those whose removal had failed before.  A profile
\* that has none of these has at most one connection, "configured to autoconnect
\* indefinitely", with the content of its file.  For the content there is one more
\* exception: a profile whose last import has not got into its sidecar, because the
\* file changed between the hash and the import, the sidecar could not be written,
\* or the process died before it was.  Put back to what the sidecar says, such a file
\* is taken for unchanged.
Synced == pc \in {"activate", "done"} /\ clean =>
    LET kept == {c.name : c \in {d \in nm : d.id \in leftovers}}
    IN /\ \A p \in Profiles : conf[p] \notin Bad \union {None} => sidecar[p] = conf[p] /\ Named(p) # {}
       /\ \A c \in nm : c.id \notin leftovers => conf[c.name] # None
       /\ \A p \in Profiles \ kept : \A c \in Named(p) :
             /\ Named(p) = {c} /\ c.endless
             /\ p \notin unrecorded => conf[p] \notin Bad /\ c.content = conf[p]

\* activateProfiles retries without limit: in the end every profile that the last
\* synchronisation has taken is up, however many others cannot be activated.
Connected == <>[](\A p \in profiles \ Dead : \E c \in Named(p) : c.up)
================================================================================
