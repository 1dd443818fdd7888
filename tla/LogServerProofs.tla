---------------------------- MODULE LogServerProofs ----------------------------
(* Proofs about LogServer, for any URLs, any number of edits, faults and          *)
(* crashes.  The two callers of ApplyLogServer exclude each other nowhere, so     *)
(* what is inductive is what a caller may rely on while it has been alone.        *)
EXTENDS LogServer, TLAPS

Steps == {"idle", "stop", "disable", "compare", "open", "write", "sync", "rename",
          "syncdir", "enable", "restart"}
Proc == [pc : Steps, want : Urls \union {Unset}, file : {"none", "tmp", "conf"},
         alone : BOOLEAN]

\* An application is under way only in a service that has loaded its settings.
OnlyUp == Busy # {} => up

\* A caller that has been alone since it entered is the only one inside.
AloneIsAlone == \A c \in Callers : proc[c].pc # "idle" /\ proc[c].alone => Busy = {c}

\* What was cut short or overlapped is known to be stale; without any overlap only
\* a caller whose "systemctl stop" failed does not count as alone.
NotAlone == \A c \in Busy : ~proc[c].alone =>
               stale /\ (overlapped \/ proc[c].pc = "disable")

\* A running unit has read the file as it is and would be started again.
Consistent == unit.running # Unset => unit.running = conf.data /\ unit.enabled

\* The unit is as scooter.logserver says.
InForce(url) == IF url = Unset THEN unit.running = Unset /\ ~unit.enabled
                ELSE conf.data = url /\ unit.running = url /\ unit.enabled

\* How far a caller that has been alone has come.
Progress(c) ==
    /\ proc[c].pc \in {"stop", "disable"} <=> proc[c].want = Unset
    /\ proc[c].pc = "disable" => unit.running = Unset
    /\ proc[c].pc \in {"write", "sync", "rename"} => proc[c].file = "tmp"
    /\ proc[c].pc = "write" => tmp = NewFile
    /\ proc[c].pc \in {"sync", "rename"} => tmp.data = proc[c].want
    /\ proc[c].pc = "rename" => tmp.synced
    /\ proc[c].pc = "syncdir" => conf.synced
    /\ proc[c].pc \in {"syncdir", "enable", "restart"} => conf.data = proc[c].want
    /\ proc[c].pc = "restart" => unit.enabled
    /\ proc[c].pc = "compare" /\ ~stale => Consistent
    /\ pending = 0 => proc[c].want = setting

AloneProgress == \A c \in Busy : proc[c].alone => Progress(c)

\* Between two applications that count, the unit is as the setting says unless a
\* notification is still to be handled or the service is down.
Rested == Busy = {} /\ ~stale => Consistent /\ (up /\ pending = 0 => InForce(setting))

IInv == /\ TypeOK /\ OnlyUp /\ AloneIsAlone /\ NotAlone /\ AloneProgress
        /\ Rested /\ ConfigWhole

--------------------------------------------------------------------------------
(* Types.                                                                        *)

\* The constant records have their types.
LEMMA Constants ==
    /\ NoFile \in File /\ NewFile \in File /\ Idle \in Proc
    /\ \A u \in Urls \union {Unset} : u \in Contents /\ u # 0 /\ u # Spoilt
    /\ \A f \in File : Remains(f) \subseteq Contents /\ f.data \in Remains(f)
BY UrlsAssumption DEF NoFile, NewFile, Idle, Proc, Steps, File, Contents, Remains

\* A write leaves a file of a known content.
LEMMA WrittenType ==
    ASSUME NEW f \in File, NEW url \in Urls \union {Unset}
    PROVE  Written(f, url) \in File
BY DEF Written, File, Contents

\* The initial state has the types.
LEMMA InitType == Init => TypeOK
<1> SUFFICES ASSUME Init PROVE TypeOK
  OBVIOUS
<1>1. proc \in [Callers -> Proc]
  BY Constants DEF Init
<1>2. {conf, tmp} \subseteq File /\ disk \subseteq Contents /\ disk # {}
  BY Constants DEF Init, File, Contents
<1>3. unit \in [enabled : BOOLEAN, running : Contents]
  BY DEF Init, Contents
<1>4. up \in BOOLEAN /\ stale \in BOOLEAN /\ overlapped \in BOOLEAN
  BY DEF Init
<1>5. /\ setting \in Urls \union {Unset} /\ pending \in Nat
      /\ {edits, faults, crashes} \subseteq Nat
  BY DEF Init
<1> QED
  BY <1>1, <1>2, <1>3, <1>4, <1>5 DEF TypeOK, Proc, Steps

\* Entering keeps the types.
LEMMA EnterType ==
    ASSUME TypeOK, NEW c \in Callers, NEW want \in Urls \union {Unset}, Enter(c, want)
    PROVE  proc' \in [Callers -> Proc] /\ {stale', overlapped'} \subseteq BOOLEAN
<1> DEFINE alone == Busy = {}
           entered == [Idle EXCEPT !.pc = IF want = Unset THEN "stop" ELSE "compare",
                                   !.want = want, !.alone = alone]
           other(d) == [proc[d] EXCEPT !.alone = alone \/ d \notin Busy]
<1>1. entered \in Proc
  BY DEF Idle, Proc, Steps
<1>2. \A d \in Callers : other(d) \in Proc
  BY DEF TypeOK, Proc, Steps
<1>3. proc' = [d \in Callers |-> IF d = c THEN entered ELSE other(d)]
  BY DEF Enter
<1> HIDE DEF entered, other
<1>4. proc' \in [Callers -> Proc]
  BY <1>1, <1>2, <1>3
<1> QED
  BY <1>4 DEF Enter, TypeOK

\* The step counter of a caller is the only part of it most steps change.
LEMMA ProcType ==
    ASSUME TypeOK, NEW c \in Callers
    PROVE  /\ Return(c) => proc' \in [Callers -> Proc]
           /\ \A pc \in Steps : To(c, pc) => proc' \in [Callers -> Proc]
BY Constants DEF TypeOK, Return, To, Proc, Steps

\* Giving up keeps the types.
LEMMA GiveUpType ==
    ASSUME TypeOK, NEW c \in Callers, GiveUp(c)
    PROVE  /\ proc' \in [Callers -> Proc] /\ {conf', tmp'} \subseteq File
           /\ disk' = disk /\ {stale', overlapped'} \subseteq BOOLEAN
<1>1. CASE proc[c].pc \in {"write", "sync", "rename"}
  <2>1. \A d \in Callers : [proc[d] EXCEPT !.file = IF @ = "tmp" THEN "none" ELSE @] \in Proc
    BY DEF TypeOK, Proc, Steps
  <2>2. proc' \in [Callers -> Proc]
    BY <1>1, <2>1, Constants DEF GiveUp
  <2> QED
    BY <1>1, <2>2, Constants DEF GiveUp, TypeOK
<1>2. CASE proc[c].pc \notin {"write", "sync", "rename"}
  BY <1>2, ProcType DEF GiveUp, TypeOK
<1> QED
  BY <1>1, <1>2

\* Every step of ApplyLogServer keeps the types.
LEMMA ApplyType == ASSUME TypeOK, NEW c \in Callers, Apply(c) PROVE TypeOK'
<1> USE DEF TypeOK
<1> DEFINE Kept == /\ proc' \in [Callers -> Proc]
                   /\ {conf', tmp'} \subseteq File /\ disk' \subseteq Contents /\ disk' # {}
                   /\ unit' \in [enabled : BOOLEAN, running : Contents]
                   /\ {stale', overlapped'} \subseteq BOOLEAN
<1>a. Kept /\ UNCHANGED <<setting, pending, up, counters>> => TypeOK'
  BY DEF Proc, Steps, counters
<1>1. CASE Stop(c)
  <2>1. proc' \in [Callers -> Proc]
    BY <1>1, ProcType DEF Stop, Steps
  <2> QED
    BY <1>1, <1>a, <2>1 DEF Stop, files, history, counters, Contents
<1>2. CASE Disable(c)
  <2>1. proc' \in [Callers -> Proc]
    BY <1>2, ProcType DEF Disable, Complete
  <2> QED
    BY <1>2, <1>a, <2>1 DEF Disable, Complete, files, history, counters, Contents
<1>3. CASE Compare(c)
  <2>1. proc' \in [Callers -> Proc]
    BY <1>3, ProcType DEF Compare, Steps
  <2> QED
    BY <1>3, <1>a, <2>1 DEF Compare, files, history, counters
<1>4. CASE Enable(c)
  <2>1. proc' \in [Callers -> Proc]
    BY <1>4, ProcType DEF Enable, Steps
  <2> QED
    BY <1>4, <1>a, <2>1 DEF Enable, files, history, counters
<1>5. CASE Restart(c)
  <2>1. proc' \in [Callers -> Proc]
    BY <1>5, ProcType DEF Restart, Complete
  <2>2. unit' \in [enabled : BOOLEAN, running : Contents]
    BY <1>5 DEF Restart, File
  <2> QED
    BY <1>5, <1>a, <2>1, <2>2 DEF Restart, Complete, files, history, counters
<1>6. CASE Open(c)
  <2>1. proc' \in [Callers -> Proc]
    BY <1>6 DEF Open, Proc, Steps
  <2> QED
    BY <1>6, <1>a, <2>1, Constants DEF Open, history, counters
<1>7. CASE Write(c)
  <2>1. proc' \in [Callers -> Proc]
    BY <1>7, ProcType DEF Write, Steps
  <2>2. {conf', tmp'} \subseteq File
    BY <1>7, WrittenType DEF Write
  <2>3. disk' \subseteq Contents /\ disk' # {}
    BY <1>7, <2>2, Constants DEF Write
  <2> QED
    BY <1>7, <1>a, <2>1, <2>2, <2>3 DEF Write, history, counters
<1>8. CASE Sync(c)
  <2>1. proc' \in [Callers -> Proc]
    BY <1>8, ProcType DEF Sync, Steps
  <2>2. {conf', tmp'} \subseteq File
    BY <1>8 DEF Sync, File
  <2> QED
    BY <1>8, <1>a, <2>1, <2>2 DEF Sync, history, counters
<1>9. CASE Rename(c)
  <2>1. proc' \in [Callers -> Proc]
    BY <1>9 DEF Rename, Proc, Steps
  <2>2. disk' \subseteq Contents /\ disk' # {}
    BY <1>9, Constants DEF Rename
  <2> QED
    BY <1>9, <1>a, <2>1, <2>2, Constants DEF Rename, history, counters
<1>10. CASE SyncDir(c)
  <2>1. proc' \in [Callers -> Proc]
    BY <1>10, ProcType DEF SyncDir, Steps
  <2>2. disk' \subseteq Contents /\ disk' # {}
    BY <1>10, Constants DEF SyncDir
  <2> QED
    BY <1>10, <1>a, <2>1, <2>2 DEF SyncDir, history, counters
<1>11. CASE RenameMissing(c)
  BY <1>11, GiveUpType, <1>a DEF RenameMissing, GiveUp, Proc, Steps
<1>12. CASE Fail(c)
  <2>1. unit' \in [enabled : BOOLEAN, running : Contents]
    BY <1>12 DEF Fail, Contents
  <2> QED
    BY <1>12, <2>1, GiveUpType DEF Fail, GiveUp, Proc, Steps
<1>13. CASE StopFails(c)
  <2>1. proc' \in [Callers -> Proc]
    BY <1>13, ProcType DEF StopFails, Proc, Steps
  <2> QED
    BY <1>13, <2>1 DEF StopFails, files, Proc, Steps
<1> QED
  BY <1>1, <1>2, <1>3, <1>4, <1>5, <1>6, <1>7, <1>8, <1>9, <1>10, <1>11, <1>12, <1>13
     DEF Apply

\* So does every step.
LEMMA NextType == TypeOK /\ [Next]_vars => TypeOK'
<1> SUFFICES ASSUME TypeOK, [Next]_vars PROVE TypeOK'
  OBVIOUS
<1> USE DEF TypeOK
<1>1. CASE Load
  BY <1>1, EnterType DEF Load, files, counters, Callers, Proc, Steps
<1>2. CASE WatcherApplies
  BY <1>2, EnterType DEF WatcherApplies, files, counters, Callers, Proc, Steps
<1>3. CASE \E c \in Callers : Apply(c)
  BY <1>3, ApplyType
<1>4. CASE Edit
  BY <1>4 DEF Edit, files, history
<1>5. CASE Crash
  <2>1. proc' \in [Callers -> Proc]
    BY <1>5, Constants DEF Crash, Down
  <2>2. stale' \in BOOLEAN /\ overlapped' \in BOOLEAN /\ up' \in BOOLEAN
    BY <1>5 DEF Crash, Down
  <2> QED
    BY <1>5, <2>1, <2>2 DEF Crash, Down, files, Proc, Steps
<1>6. CASE PowerLoss
  <2>0. PICK data \in disk : /\ conf' = [data |-> data, synced |-> TRUE]
                            /\ unit' = [unit EXCEPT !.running = IF unit.enabled THEN data ELSE Unset]
                            /\ disk' = {data}
    BY <1>6 DEF PowerLoss
  <2>a. tmp' \in File
    <3>1. [data |-> Spoilt, synced |-> TRUE] \in File
      BY DEF File, Contents
    <3> QED
      BY <3>1, <1>6, Constants DEF PowerLoss
  <2>1. {conf', tmp'} \subseteq File /\ disk' \subseteq Contents /\ disk' # {}
    BY <2>0, <2>a DEF File
  <2>2. unit' \in [enabled : BOOLEAN, running : Contents]
    BY <2>0 DEF Contents
  <2>3. proc' \in [Callers -> Proc]
    BY <1>6, Constants DEF PowerLoss, Down
  <2>4. stale' \in BOOLEAN /\ overlapped' \in BOOLEAN /\ up' \in BOOLEAN
    BY <1>6 DEF PowerLoss, Down
  <2> QED
    BY <1>6, <2>1, <2>2, <2>3, <2>4 DEF PowerLoss, Down, history, counters, Proc, Steps
<1>7. CASE UNCHANGED vars
  BY <1>7 DEF vars, files, history, counters
<1> QED
  BY <1>1, <1>2, <1>3, <1>4, <1>5, <1>6, <1>7 DEF Next, Wait

--------------------------------------------------------------------------------
(* What a caller may rely on.                                                    *)

\* The initial state satisfies the invariant.
LEMMA InitInv == Init => IInv
<1> SUFFICES ASSUME Init PROVE IInv
  OBVIOUS
<1>1. TypeOK
  BY InitType
<1>2. Busy = {}
  BY DEF Init, Busy, Idle
<1>3. Consistent
  BY DEF Init, Consistent
<1>4. {0, Spoilt} \intersect (disk \union {conf.data}) = {}
  BY Constants DEF Init
<1> QED
  BY <1>1, <1>2, <1>3, <1>4
     DEF Init, IInv, OnlyUp, AloneIsAlone, NotAlone, AloneProgress, Rested, ConfigWhole, Busy

\* What a step that only moves one caller on leaves of the callers.
LEMMA MovedOn ==
    ASSUME TypeOK, NEW c \in Callers, NEW pc \in Steps, To(c, pc)
    PROVE  /\ \A d \in Callers \ {c} : proc'[d].pc = proc[d].pc
           /\ \A d \in Callers : proc'[d].alone = proc[d].alone
           /\ proc'[c].pc = pc /\ proc'[c].want = proc[c].want /\ proc'[c].file = proc[c].file
<1>1. \A d \in Callers \ {c} : proc'[d] = proc[d]
  BY DEF To, TypeOK
<1>2. proc'[c] = [proc[c] EXCEPT !.pc = pc]
  BY DEF To, TypeOK
<1>3. proc[c] \in Proc
  BY DEF TypeOK, Proc, Steps
<1>4. proc'[c].alone = proc[c].alone
  BY <1>2, <1>3 DEF Proc
<1>5. \A d \in Callers : proc'[d].alone = proc[d].alone
  BY <1>1, <1>4
<1> QED
  BY <1>1, <1>2, <1>3, <1>5 DEF Proc

\* And of a step that returns.
LEMMA Returned ==
    ASSUME TypeOK, NEW c \in Callers, Return(c)
    PROVE  /\ Busy' = Busy \ {c}
           /\ \A d \in Callers \ {c} : proc'[d].pc = proc[d].pc /\ proc'[d].alone = proc[d].alone
<1>1. \A d \in Callers \ {c} : proc'[d] = proc[d]
  BY DEF Return, TypeOK
<1>2. proc'[c].pc = "idle"
  BY DEF Return, Idle, TypeOK
<1> QED
  BY <1>1, <1>2 DEF Busy

\* Of two callers inside, neither counts as alone.
LEMMA NeitherAlone ==
    ASSUME AloneIsAlone, NEW c \in Busy, NEW d \in Busy, d # c
    PROVE  ~proc[c].alone /\ ~proc[d].alone
BY DEF AloneIsAlone, Busy

\* A caller enters with the setting of now.
LEMMA EnterInv ==
    ASSUME IInv, NEW c \in Callers, Enter(c, setting), TypeOK',
           UNCHANGED <<setting, files, unit>>, up'
    PROVE  IInv'
<1>1. /\ c \notin Busy /\ proc'[c].pc = (IF setting = Unset THEN "stop" ELSE "compare")
      /\ proc'[c].want = setting /\ (proc'[c].alone <=> Busy = {})
      /\ stale' <=> (stale \/ Busy # {})
      /\ overlapped' <=> (overlapped \/ Busy # {})
  BY DEF Enter, Idle, Busy
<1>2. /\ \A d \in Callers \ {c} : proc'[d].pc = proc[d].pc
      /\ \A d \in Busy : ~proc'[d].alone
  <2> SUFFICES ASSUME NEW d \in Callers \ {c}
               PROVE  proc'[d].pc = proc[d].pc /\ (d \in Busy => ~proc'[d].alone)
    BY <1>1 DEF Busy
  <2>1. proc'[d] = [proc[d] EXCEPT !.alone = Busy = {} \/ d \notin Busy]
    BY DEF Enter
  <2>2. proc[d] \in [pc : Steps, want : Urls \union {Unset},
                    file : {"none", "tmp", "conf"}, alone : BOOLEAN]
    BY DEF IInv, TypeOK, Steps
  <2> QED
    BY <2>1, <2>2
<1>3. Busy' = Busy \union {c}
  BY <1>1, <1>2 DEF Busy
<1>4. OnlyUp'
  BY DEF OnlyUp
<1>5. AloneIsAlone'
  BY <1>1, <1>2, <1>3 DEF AloneIsAlone, Busy
<1>6. NotAlone'
  <2> SUFFICES ASSUME NEW d \in Busy', ~proc'[d].alone
               PROVE  stale' /\ overlapped'
    BY DEF NotAlone
  <2>1. Busy # {}
    BY <1>1, <1>2, <1>3 DEF Busy
  <2> QED
    BY <1>1, <2>1
<1>7. AloneProgress'
  <2> SUFFICES ASSUME proc'[c].alone PROVE Progress(c)'
    BY <1>1, <1>2, <1>3 DEF AloneProgress
  <2>1. Consistent' <=> Consistent
    BY DEF Consistent, files
  <2>2. proc'[c].pc = "compare" /\ ~stale' => Consistent'
    BY <1>1, <2>1 DEF IInv, Rested
  <2>3. proc'[c].pc \in {"stop", "disable"} <=> proc'[c].want = Unset
    BY <1>1
  <2>4. setting' = setting
    OBVIOUS
  <2> QED
    BY <1>1, <2>2, <2>3, <2>4 DEF Progress
<1>8. Rested'
  BY <1>3 DEF Rested
<1>9. ConfigWhole'
  BY <1>1 DEF IInv, ConfigWhole, files
<1> QED
  BY <1>4, <1>5, <1>6, <1>7, <1>8, <1>9 DEF IInv

\* A step after which its caller is still inside: what is left to show is how far
\* it has come, if it was alone.
LEMMA StaysInside ==
    ASSUME IInv, NEW c \in Busy, Busy' = Busy, UNCHANGED <<up, overlapped>>,
           \A d \in Callers : proc'[d].alone => proc[d].alone,
           \A d \in Callers : proc[d].alone /\ ~proc'[d].alone =>
               (d = c /\ stale' /\ proc'[c].pc = "disable"),
           \A d \in Callers \ {c} : proc'[d].pc = proc[d].pc,
           proc[c].pc = "disable" => proc'[c].pc = "disable",
           stale => stale',
           proc'[c].alone => Progress(c)'
    PROVE  OnlyUp' /\ AloneIsAlone' /\ NotAlone' /\ AloneProgress' /\ Rested'
<1>1. OnlyUp'
  BY DEF IInv, OnlyUp
<1>2. AloneIsAlone'
  BY DEF IInv, AloneIsAlone, Busy
<1>3. NotAlone'
  BY DEF IInv, NotAlone, Busy
<1>4. AloneProgress'
  <2> SUFFICES ASSUME NEW d \in Busy \ {c}, proc'[d].alone PROVE FALSE
    BY DEF AloneProgress
  <2>1. proc[d].alone
    BY DEF Busy
  <2> QED
    BY <2>1, NeitherAlone DEF IInv
<1>5. Rested'
  BY DEF Rested
<1> QED
  BY <1>1, <1>2, <1>3, <1>4, <1>5

\* The usual case: nothing but the step of the caller and what it has done changes.
LEMMA Advances ==
    ASSUME IInv, NEW c \in Busy, UNCHANGED <<up, history>>,
           \A d \in Callers \ {c} : proc'[d].pc = proc[d].pc,
           \A d \in Callers : proc'[d].alone = proc[d].alone,
           proc[c].pc # "disable", proc'[c].pc # "idle",
           proc[c].alone => Progress(c)'
    PROVE  OnlyUp' /\ AloneIsAlone' /\ NotAlone' /\ AloneProgress' /\ Rested'
<1>1. Busy' = Busy
  BY DEF Busy
<1>2. overlapped' = overlapped /\ (stale => stale')
  BY DEF history
<1>3. c \in Callers
  BY DEF Busy
<1>4. \A d \in Callers : /\ proc'[d].alone => proc[d].alone
                        /\ proc[d].alone /\ ~proc'[d].alone => FALSE
  OBVIOUS
<1> QED
  BY <1>1, <1>2, <1>3, <1>4, StaysInside

\* A step with which its caller leaves: what is left to show is that it leaves
\* the unit in order, if it leaves nothing stale.
LEMMA Leaves ==
    ASSUME IInv, NEW c \in Busy, Busy' = Busy \ {c}, UNCHANGED <<up, overlapped>>,
           \A d \in Callers \ {c} : proc'[d].pc = proc[d].pc /\ proc'[d].alone = proc[d].alone,
           stale /\ ~proc[c].alone => stale',
           proc[c].alone /\ ~stale' => Consistent' /\ (up' /\ pending' = 0 => InForce(setting)')
    PROVE  OnlyUp' /\ AloneIsAlone' /\ NotAlone' /\ AloneProgress' /\ Rested'
<1>1. OnlyUp'
  BY DEF IInv, OnlyUp
<1>2. \A d \in Busy' : ~proc'[d].alone
  <2> SUFFICES ASSUME NEW d \in Busy \ {c}, proc'[d].alone PROVE FALSE
    OBVIOUS
  <2>1. proc[d].alone
    BY DEF Busy
  <2> QED
    BY <2>1, NeitherAlone DEF IInv
<1>3. AloneIsAlone'
  BY <1>2 DEF AloneIsAlone, Busy
<1>4. NotAlone'
  <2> SUFFICES ASSUME NEW d \in Busy \ {c}
               PROVE  stale' /\ (overlapped' \/ proc'[d].pc = "disable")
    BY DEF NotAlone
  <2>1. ~proc[c].alone /\ ~proc[d].alone
    BY NeitherAlone DEF IInv
  <2> QED
    BY <2>1 DEF IInv, NotAlone, Busy
<1>5. AloneProgress'
  BY <1>2 DEF AloneProgress
<1>6. Rested'
  <2> SUFFICES ASSUME Busy' = {}, ~stale'
               PROVE  Consistent' /\ (up' /\ pending' = 0 => InForce(setting)')
    BY DEF Rested
  <2>1. proc[c].alone
    BY DEF IInv, NotAlone
  <2> QED
    BY <2>1
<1> QED
  BY <1>1, <1>3, <1>4, <1>5, <1>6

\* Stopping and disabling the unit.
LEMMA StopInv == ASSUME IInv, TypeOK', NEW c \in Callers, Stop(c) \/ Disable(c) PROVE IInv'
<1>a. TypeOK /\ c \in Busy
  BY DEF IInv, Stop, Disable, Busy
<1>b. proc[c].alone => Progress(c)
  BY <1>a DEF IInv, AloneProgress
<1>c. ConfigWhole'
  BY DEF IInv, ConfigWhole, Stop, Disable, Complete, files, history
<1>1. CASE Stop(c)
  <2>1. To(c, "disable") /\ UNCHANGED <<up, history>> /\ proc[c].pc = "stop"
    BY <1>1 DEF Stop
  <2>2. proc[c].alone => Progress(c)'
    BY <1>1, <1>a, <1>b, <2>1, MovedOn DEF Stop, Progress, TypeOK, Steps
  <2>3. OnlyUp' /\ AloneIsAlone' /\ NotAlone' /\ AloneProgress' /\ Rested'
    BY <1>a, <2>1, <2>2, MovedOn, Advances DEF Steps
  <2> QED
    BY <1>c, <2>3 DEF IInv
<1>2. CASE Disable(c)
  <2>1. Return(c)
    BY <1>2 DEF Disable, Complete
  <2>3. stale /\ ~proc[c].alone => stale'
    BY <1>2 DEF Disable, Complete
  <2>4. proc[c].alone => unit'.running = Unset /\ ~unit'.enabled
    BY <1>2, <1>a, <1>b DEF Disable, Progress, TypeOK
  <2>5. proc[c].alone /\ pending' = 0 => setting' = Unset
    BY <1>2, <1>a, <1>b DEF Disable, Progress
  <2>6. proc[c].alone => Consistent' /\ (pending' = 0 => InForce(setting)')
    BY <2>4, <2>5 DEF Consistent, InForce
  <2> QED
    BY <1>2, <1>a, <1>c, <2>1, <2>3, <2>6, Returned, Leaves DEF Disable, Complete, IInv
<1> QED
  BY <1>1, <1>2

\* Comparing the file, enabling the unit and starting it.
LEMMA StartInv ==
    ASSUME IInv, TypeOK', NEW c \in Callers, Compare(c) \/ Enable(c) \/ Restart(c)
    PROVE  IInv'
<1>a. TypeOK /\ c \in Busy
  BY DEF IInv, Compare, Enable, Restart, Busy
<1>b. proc[c].alone => Progress(c)
  BY <1>a DEF IInv, AloneProgress
<1>c. ConfigWhole'
  BY DEF IInv, ConfigWhole, Compare, Enable, Restart, Complete, files, history
<1>1. CASE Compare(c) /\ (conf.data # proc[c].want \/ unit.running = Unset)
  <2>1. PICK pc \in {"open", "enable"} :
            To(c, pc) /\ (pc = "enable" => conf.data = proc[c].want)
    BY <1>1 DEF Compare
  <2>2. UNCHANGED <<up, history, conf, pending, setting>> /\ proc[c].pc = "compare"
    BY <1>1 DEF Compare, files
  <2>3. proc[c].alone => Progress(c)'
    BY <1>a, <1>b, <2>1, <2>2, MovedOn DEF Progress, TypeOK, Steps
  <2>4. OnlyUp' /\ AloneIsAlone' /\ NotAlone' /\ AloneProgress' /\ Rested'
    BY <1>a, <2>1, <2>2, <2>3, MovedOn, Advances DEF Steps
  <2> QED
    BY <1>c, <2>4 DEF IInv
<1>2. CASE Compare(c) /\ ~(conf.data # proc[c].want \/ unit.running = Unset)
  <2>1. /\ Return(c) /\ UNCHANGED <<up, files, unit, pending, setting>>
        /\ proc[c].pc = "compare" /\ conf.data = proc[c].want /\ unit.running # Unset
        /\ stale' = stale /\ overlapped' = overlapped
    BY <1>2 DEF Compare, history
  <2>2. proc[c].alone /\ ~stale => Consistent /\ (pending = 0 => InForce(setting))
    BY <1>b, <2>1 DEF Progress, Consistent, InForce
  <2>3. proc[c].alone /\ ~stale' => Consistent' /\ (pending' = 0 => InForce(setting)')
    BY <2>1, <2>2 DEF Consistent, InForce, files
  <2> QED
    BY <1>a, <1>c, <2>1, <2>3, Returned, Leaves DEF IInv
<1>3. CASE Enable(c)
  <2>1. /\ To(c, "restart") /\ proc[c].pc = "enable" /\ unit'.enabled
        /\ UNCHANGED <<up, history, conf, pending, setting>>
    BY <1>3, <1>a DEF Enable, files, TypeOK
  <2>2. proc[c].alone => Progress(c)'
    BY <1>a, <1>b, <2>1, MovedOn DEF Progress, TypeOK, Steps
  <2>3. OnlyUp' /\ AloneIsAlone' /\ NotAlone' /\ AloneProgress' /\ Rested'
    BY <1>a, <2>1, <2>2, MovedOn, Advances DEF Steps
  <2> QED
    BY <1>c, <2>3 DEF IInv
<1>4. CASE Restart(c)
  <2>1. /\ Return(c) /\ UNCHANGED <<up, files, pending, setting, overlapped>>
        /\ proc[c].pc = "restart" /\ unit'.running = conf.data /\ unit'.enabled = unit.enabled
    BY <1>4, <1>a DEF Restart, Complete, TypeOK
  <2>2. stale /\ ~proc[c].alone => stale'
    BY <1>4 DEF Restart, Complete
  <2>3. proc[c].alone => Consistent' /\ (pending' = 0 => InForce(setting)')
    BY <1>b, <2>1 DEF Progress, Consistent, InForce, files
  <2> QED
    BY <1>a, <1>c, <2>1, <2>2, <2>3, Returned, Leaves DEF IInv
<1> QED
  BY <1>1, <1>2, <1>3, <1>4

\* Without any overlap, a caller that writes is alone.
LEMMA WriterAlone ==
    ASSUME IInv, NEW c \in Busy, ~overlapped, proc[c].pc # "disable"
    PROVE  Progress(c)
BY DEF IInv, NotAlone, AloneProgress

\* Writing the file: until two callers overlap, what a caller renames is what it
\* has written, and synced.
LEMMA FileInv ==
    ASSUME IInv, TypeOK', NEW c \in Callers,
           Open(c) \/ Write(c) \/ Sync(c) \/ Rename(c) \/ SyncDir(c)
    PROVE  IInv'
<1>a. TypeOK /\ c \in Busy
  BY DEF IInv, Open, Write, Sync, Rename, SyncDir, Busy
<1>b. proc[c].alone => Progress(c)
  BY <1>a DEF IInv, AloneProgress
<1>c. /\ UNCHANGED <<up, history, pending, setting, unit>> /\ overlapped' = overlapped
      /\ proc[c].pc \in {"open", "write", "sync", "rename", "syncdir"}
  BY DEF Open, Write, Sync, Rename, SyncDir, history
<1>d. SUFFICES /\ \A d \in Callers \ {c} : proc'[d].pc = proc[d].pc
               /\ \A d \in Callers : proc'[d].alone = proc[d].alone
               /\ proc'[c].pc # "idle" /\ (proc[c].alone => Progress(c)')
               /\ ConfigWhole'
  <2>1. OnlyUp' /\ AloneIsAlone' /\ NotAlone' /\ AloneProgress' /\ Rested'
    BY <1>a, <1>c, <1>d, Advances
  <2> QED
    BY <1>d, <2>1 DEF IInv
<1>e. ~overlapped => Progress(c) /\ {0, Spoilt} \intersect (disk \union {conf.data}) = {}
  BY <1>a, <1>c, WriterAlone DEF IInv, ConfigWhole
<1>f. Progress(c) => proc[c].want \in Urls
  BY <1>a, <1>c DEF Progress, TypeOK
<1>1. CASE Open(c)
  <2>1. \A d \in Callers \ {c} : proc'[d] = proc[d]
    BY <1>1, <1>a DEF Open, TypeOK
  <2>2. proc'[c] = [proc[c] EXCEPT !.pc = "write", !.file = "tmp"]
    BY <1>1, <1>a DEF Open, TypeOK
  <2>3. proc[c] \in Proc
    BY <1>a DEF TypeOK, Proc, Steps
  <2>4. /\ proc'[c].pc = "write" /\ proc'[c].file = "tmp" /\ proc'[c].want = proc[c].want
    BY <2>2, <2>3 DEF Proc
  <2>5. proc'[c].alone = proc[c].alone
    BY <2>2, <2>3 DEF Proc
  <2>6. \A d \in Callers : proc'[d].alone = proc[d].alone
    BY <2>1, <2>5
  <2>7. proc[c].alone => Progress(c)'
    BY <1>1, <1>b, <1>c, <2>4 DEF Open, Progress
  <2>8. ConfigWhole'
    BY <1>1, <1>c DEF IInv, ConfigWhole, Open
  <2> QED
    BY <2>1, <2>4, <2>6, <2>7, <2>8
<1>2. CASE Write(c)
  <2>1. To(c, "sync") /\ proc[c].pc = "write"
    BY <1>2 DEF Write
  <2>2. Progress(c) => tmp'.data = proc[c].want
    <3>1. Progress(c) => tmp' = Written(NewFile, proc[c].want)
      BY <1>2 DEF Write, Progress
    <3>2. \A url \in Urls : Written(NewFile, url).data = url
      BY UrlsAssumption DEF Written, NewFile
    <3> QED
      BY <1>f, <3>1, <3>2
  <2>3. proc[c].alone => Progress(c)'
    BY <1>a, <1>b, <1>c, <2>1, <2>2, MovedOn DEF Progress, Steps
  <2>4. Progress(c) => UNCHANGED <<conf, disk>>
    BY <1>2 DEF Write, Progress
  <2>5. ConfigWhole'
    BY <1>c, <1>e, <2>4 DEF ConfigWhole
  <2> QED
    BY <1>a, <2>1, <2>3, <2>5, MovedOn DEF Steps
<1>3. CASE Sync(c)
  <2>1. To(c, "rename") /\ proc[c].pc = "sync"
    BY <1>3 DEF Sync
  <2>2. Progress(c) => tmp'.data = proc[c].want /\ tmp'.synced
    BY <1>3, <1>a DEF Sync, Progress, TypeOK, File
  <2>3. proc[c].alone => Progress(c)'
    BY <1>a, <1>b, <1>c, <2>1, <2>2, MovedOn DEF Progress, Steps
  <2>4. conf'.data = conf.data /\ disk' = disk
    BY <1>3, <1>a DEF Sync, TypeOK, File
  <2>5. ConfigWhole'
    BY <1>c, <1>e, <2>4 DEF ConfigWhole
  <2> QED
    BY <1>a, <2>1, <2>3, <2>5, MovedOn DEF Steps
<1>4. CASE Rename(c)
  <2>1. \A d \in Callers : /\ proc'[d] = [proc[d] EXCEPT
                                 !.pc = IF d = c THEN "syncdir" ELSE @,
                                 !.file = IF @ = "tmp" THEN "conf" ELSE "none"]
                          /\ proc[d] \in Proc
    BY <1>4, <1>a DEF Rename, TypeOK, Proc, Steps
  <2>2. \A d \in Callers : proc'[d].alone = proc[d].alone
    BY <2>1 DEF Proc
  <2>3. /\ \A d \in Callers \ {c} : proc'[d].pc = proc[d].pc
        /\ proc'[c].pc = "syncdir" /\ proc'[c].want = proc[c].want
    BY <2>1 DEF Proc
  <2>4. proc[c].pc = "rename" /\ conf' = tmp /\ disk' = disk \union Remains(tmp)
    BY <1>4 DEF Rename
  <2>5. Progress(c) => conf'.data = proc[c].want /\ conf'.synced
    BY <2>4 DEF Progress
  <2>6. proc[c].alone => Progress(c)'
    BY <1>b, <1>c, <2>3, <2>4, <2>5 DEF Progress
  <2>7. Progress(c) => disk' = disk \union {proc[c].want}
    BY <2>4 DEF Progress, Remains
  <2>8. ConfigWhole'
    BY <1>c, <1>e, <1>f, <2>5, <2>7, UrlsAssumption DEF ConfigWhole
  <2> QED
    BY <2>2, <2>3, <2>6, <2>8
<1>5. CASE SyncDir(c)
  <2>1. To(c, "enable") /\ proc[c].pc = "syncdir" /\ conf' = conf /\ disk' = Remains(conf)
    BY <1>5 DEF SyncDir
  <2>2. proc[c].alone => Progress(c)'
    BY <1>a, <1>b, <1>c, <2>1, MovedOn DEF Progress, Steps
  <2>3. Progress(c) => disk' = {conf.data}
    BY <2>1 DEF Progress, Remains
  <2>4. ConfigWhole'
    BY <1>c, <1>e, <2>1, <2>3 DEF ConfigWhole
  <2> QED
    BY <1>a, <2>1, <2>2, <2>4, MovedOn DEF Steps
<1> QED
  BY <1>1, <1>2, <1>3, <1>4, <1>5

\* Giving up leaves something stale, and no more than that.
LEMMA GivesUp ==
    ASSUME IInv, TypeOK', NEW c \in Busy, GiveUp(c)
    PROVE  IInv'
<1>a. TypeOK /\ c \in Callers
  BY DEF IInv, Busy
<1>1. \A d \in Callers \ {c} : proc'[d].pc = proc[d].pc /\ proc'[d].alone = proc[d].alone
  <2>1. CASE proc[c].pc \in {"write", "sync", "rename"}
    <3>1. \A d \in Callers \ {c} : /\ proc[d] \in Proc
                                   /\ proc'[d] = [proc[d] EXCEPT !.file = IF @ = "tmp" THEN "none" ELSE @]
      BY <2>1, <1>a DEF GiveUp, TypeOK, Proc, Steps
    <3> QED
      BY <3>1 DEF Proc
  <2>2. CASE proc[c].pc \notin {"write", "sync", "rename"}
    BY <2>2, <1>a, Returned DEF GiveUp
  <2> QED
    BY <2>1, <2>2
<1>2. proc'[c].pc = "idle"
  BY <1>a DEF GiveUp, Return, Idle, TypeOK
<1>3. Busy' = Busy \ {c}
  BY <1>1, <1>2 DEF Busy
<1>4. stale' /\ UNCHANGED <<up, overlapped>>
  BY DEF GiveUp
<1>5. OnlyUp' /\ AloneIsAlone' /\ NotAlone' /\ AloneProgress' /\ Rested'
  BY <1>1, <1>3, <1>4, Leaves
<1>6. ConfigWhole'
  BY DEF GiveUp, ConfigWhole, IInv
<1> QED
  BY <1>5, <1>6 DEF IInv

\* The steps that fail.
LEMMA FailInv ==
    ASSUME IInv, TypeOK', NEW c \in Callers, RenameMissing(c) \/ Fail(c) \/ StopFails(c)
    PROVE  IInv'
<1>a. TypeOK /\ c \in Busy
  BY DEF IInv, RenameMissing, Fail, StopFails, Busy
<1>1. CASE RenameMissing(c) \/ Fail(c)
  BY <1>1, <1>a, GivesUp DEF RenameMissing, Fail
<1>2. CASE StopFails(c) /\ proc[c].pc = "stop"
  <2>1. \A d \in Callers \ {c} : proc'[d] = proc[d]
    BY <1>2, <1>a DEF StopFails, TypeOK
  <2>2. proc'[c].pc = "disable" /\ ~proc'[c].alone
    BY <1>2, <1>a DEF StopFails, TypeOK
  <2>3. stale' /\ UNCHANGED <<up, overlapped, conf, disk>>
    BY <1>2 DEF StopFails, files
  <2>4. Busy' = Busy
    BY <1>2, <2>1, <2>2 DEF Busy
  <2>5. \A d \in Callers : proc'[d].alone => proc[d].alone
    BY <2>1, <2>2
  <2>6. OnlyUp' /\ AloneIsAlone' /\ NotAlone' /\ AloneProgress' /\ Rested'
    BY <1>2, <1>a, <2>1, <2>2, <2>3, <2>4, <2>5, StaysInside
  <2>7. ConfigWhole'
    BY <2>3 DEF ConfigWhole, IInv
  <2> QED
    BY <2>6, <2>7 DEF IInv
<1>3. CASE StopFails(c) /\ proc[c].pc # "stop"
  <2>1. Return(c) /\ stale' /\ UNCHANGED <<up, overlapped, conf, disk>>
    BY <1>3 DEF StopFails, files
  <2>2. OnlyUp' /\ AloneIsAlone' /\ NotAlone' /\ AloneProgress' /\ Rested'
    BY <1>a, <2>1, Returned, Leaves
  <2>3. ConfigWhole'
    BY <2>1 DEF ConfigWhole, IInv
  <2> QED
    BY <2>2, <2>3 DEF IInv
<1> QED
  BY <1>1, <1>2, <1>3

\* The process dies, or the power goes.
LEMMA DownInv == ASSUME IInv, TypeOK', Crash \/ PowerLoss PROVE IInv'
<1>1. Busy' = {} /\ ~up' /\ overlapped' = overlapped
  BY DEF Crash, PowerLoss, Down, Busy, Idle
<1>2. ~stale' => Busy = {} /\ ~stale
  BY DEF Crash, PowerLoss
<1>3. ~stale => (Busy = {} => Consistent)
  BY DEF IInv, Rested
<1>4. ~stale' => Consistent'
  <2>1. CASE Crash
    BY <2>1, <1>2, <1>3 DEF Crash, files, Consistent
  <2>2. CASE PowerLoss
    BY <2>2 DEF PowerLoss, Consistent, IInv, TypeOK
  <2> QED
    BY <2>1, <2>2
<1>5. ConfigWhole'
  <2>1. disk' \union {conf'.data} \subseteq disk \union {conf.data}
    BY DEF Crash, PowerLoss, files
  <2> QED
    BY <1>1, <2>1 DEF ConfigWhole, IInv
<1> QED
  BY <1>1, <1>4, <1>5 DEF IInv, OnlyUp, AloneIsAlone, NotAlone, AloneProgress, Rested, Busy

\* Every step keeps the invariant.
LEMMA NextInv == IInv /\ [Next]_vars => IInv'
<1> SUFFICES ASSUME IInv, [Next]_vars PROVE IInv'
  OBVIOUS
<1>a. TypeOK'
  BY NextType DEF IInv
<1>1. CASE Load \/ WatcherApplies
  BY <1>1, <1>a, EnterInv DEF Load, WatcherApplies, Callers
<1>2. CASE \E c \in Callers : Apply(c)
  BY <1>2, <1>a, StopInv, StartInv, FileInv, FailInv DEF Apply
<1>3. CASE Edit
  <2>1. pending' # 0 /\ UNCHANGED <<up, proc, files, unit, history>>
    BY <1>3 DEF Edit, IInv, TypeOK
  <2>2. Busy' = Busy /\ (Consistent' <=> Consistent) /\ (ConfigWhole' <=> ConfigWhole)
    BY <2>1 DEF Busy, Consistent, ConfigWhole, files, history
  <2>3. AloneProgress'
    BY <2>1, <2>2 DEF IInv, AloneProgress, Progress, files, history
  <2>4. OnlyUp' /\ AloneIsAlone' /\ NotAlone' /\ Rested'
    BY <2>1, <2>2 DEF IInv, OnlyUp, AloneIsAlone, NotAlone, Rested, history
  <2> QED
    BY <1>a, <2>2, <2>3, <2>4 DEF IInv
<1>4. CASE Crash \/ PowerLoss
  BY <1>4, <1>a, DownInv
<1>5. CASE UNCHANGED vars
  BY <1>5, <1>a DEF IInv, vars, files, history, OnlyUp, AloneIsAlone, NotAlone, AloneProgress,
     Progress, Rested, Consistent, InForce, ConfigWhole, Busy
<1> QED
  BY <1>1, <1>2, <1>3, <1>4, <1>5 DEF Next, Wait

--------------------------------------------------------------------------------
(* Results.                                                                      *)

\* The invariant holds: what a caller relies on while it is alone is so, whatever
\* the other caller, a client, a failing command, a crash or a power loss does.
THEOREM Invariance == Spec => []IInv
<1>1. Init => IInv
  BY InitInv
<1>2. IInv /\ [Next]_vars => IInv'
  BY NextInv
<1> QED
  BY <1>1, <1>2, PTL DEF Spec

\* Every variable keeps its type.
THEOREM LogServerTypeCorrect == Spec => []TypeOK
<1>1. IInv => TypeOK
  BY DEF IInv
<1> QED
  BY <1>1, Invariance, PTL

\* AtomicWrite leaves the old content or the new one: until two callers overlap,
\* neither the file nor anything a power loss could make of it is empty or mixed,
\* wherever a step fails and wherever the process dies.
THEOREM WrittenWhole == Spec => []ConfigWhole
<1>1. IInv => ConfigWhole
  BY DEF IInv
<1> QED
  BY <1>1, Invariance, PTL

\* At rest, with nothing failed, cut short or overlapped since the last whole
\* application, the unit does what scooter.logserver says now.
THEOREM AppliedAtRest == Spec => []Applied
<1>1. IInv => Applied
  BY DEF IInv, Rested, Applied, Quiescent, InForce
<1> QED
  BY <1>1, Invariance, PTL


--------------------------------------------------------------------------------
(* The file, as its only writer may expect it to be.                             *)

\* The state of the abstract file while nobody, or one caller, is at it.
LEMMA StageIs ==
    /\ Writers = {} => Stage = "out" /\ Asked = Spoilt
    /\ \A c \in Callers : Writers = {c} =>
          /\ Stage = IF proc[c].pc \in Writing THEN "writing"
                     ELSE IF proc[c].pc = "syncdir" THEN "placed" ELSE "done"
          /\ Asked = proc[c].want
<1> SUFFICES ASSUME NEW c \in Callers, Writers = {c} PROVE Writer = c
  BY DEF Stage, Asked
<1> QED
  BY DEF Writer

\* The same after a step.
LEMMA StageNext ==
    /\ Writers' = {} => Stage' = "out" /\ Asked' = Spoilt
    /\ \A c \in Callers : Writers' = {c} =>
          /\ Stage' = IF proc'[c].pc \in Writing THEN "writing"
                      ELSE IF proc'[c].pc = "syncdir" THEN "placed" ELSE "done"
          /\ Asked' = proc'[c].want
<1> SUFFICES ASSUME NEW c \in Callers, Writers' = {c} PROVE Writer' = c
  BY DEF Stage, Asked
<1> QED
  BY DEF Writer

\* Without any overlap, a caller that does not stop the unit is the only one inside.
LEMMA OnlyWriter ==
    ASSUME IInv, NEW c \in Busy, ~overlapped, proc[c].pc \notin {"stop", "disable"}
    PROVE  /\ Busy = {c} /\ Progress(c)
           /\ Writers = IF proc[c].pc = "compare" THEN {} ELSE {c}
<1>1. Progress(c) /\ Busy = {c}
  BY WriterAlone DEF IInv, NotAlone, AloneIsAlone, Busy
<1>2. Writers \subseteq Busy
  BY DEF Writers, Writing, After, Busy
<1>3. c \in Writers <=> proc[c].pc # "compare"
  BY DEF IInv, TypeOK, Writers, Writing, After, Busy
<1> QED
  BY <1>1, <1>2, <1>3

\* After a step of the only one inside.
LEMMA OnlyWriterNext ==
    ASSUME NEW c \in Callers, Busy = {c}, \A d \in Callers \ {c} : proc'[d].pc = proc[d].pc
    PROVE  Writers' = IF proc'[c].pc \in Writing \union {"syncdir"} \union After THEN {c} ELSE {}
<1>1. \A d \in Callers \ {c} : proc'[d].pc = "idle"
  BY DEF Busy
<1> QED
  BY <1>1 DEF Writers, Writing, After

\* A step that leaves every caller that writes where it is.
LEMMA StagesStay ==
    ASSUME \A d \in Writers \union Writers' : d \in Writers /\ d \in Writers' /\ proc'[d] = proc[d]
    PROVE  Stage' = Stage /\ Asked' = Asked
<1>1. Writers' = Writers
  OBVIOUS
<1>2. Writer' = Writer
  BY <1>1 DEF Writer
<1>3. CASE Writers = {}
  BY <1>1, <1>3 DEF Stage, Asked
<1>4. CASE Writers # {}
  <2>1. Writer \in Writers
    BY <1>4 DEF Writer
  <2>2. proc'[Writer] = proc[Writer]
    BY <2>1
  <2> QED
    BY <1>1, <1>2, <2>2, <1>4 DEF Stage, Asked
<1> QED
  BY <1>3, <1>4

\* Initial states are initial states of the abstract file.
LEMMA InitAtomic == Init => Atomic!Init
<1> SUFFICES ASSUME Init PROVE Atomic!Init
  OBVIOUS
<1>1. Writers = {}
  BY DEF Init, Writers, Idle, Writing, After
<1>2. Stage = "out" /\ Asked = Spoilt
  BY <1>1, StageIs
<1> QED
  BY <1>2 DEF Init, Atomic!Init

\* How far the only caller inside has come with the file.
StageOf(pc) == IF pc \in Writing THEN "writing"
               ELSE IF pc = "syncdir" THEN "placed"
               ELSE IF pc \in After THEN "done" ELSE "out"
AskedOf(p) == IF StageOf(p.pc) = "out" THEN Spoilt ELSE p.want

\* A step of the only caller inside, as the abstract file sees it.
LEMMA StageStep ==
    ASSUME IInv, NEW c \in Busy, ~overlapped, proc[c].pc \notin {"stop", "disable"},
           \A d \in Callers \ {c} : proc'[d].pc = proc[d].pc
    PROVE  /\ Progress(c)
           /\ Stage = StageOf(proc[c].pc) /\ Asked = AskedOf(proc[c])
           /\ Stage' = StageOf(proc'[c].pc) /\ Asked' = AskedOf(proc'[c])
<1>1. c \in Callers /\ proc[c].pc \in Steps \ {"idle", "stop", "disable"}
  BY DEF Busy, IInv, TypeOK, Steps
<1>2. Busy = {c} /\ Progress(c) /\ Writers = IF proc[c].pc = "compare" THEN {} ELSE {c}
  BY OnlyWriter
<1>3. Stage = StageOf(proc[c].pc) /\ Asked = AskedOf(proc[c])
  BY <1>1, <1>2, StageIs DEF StageOf, AskedOf, Writing, After, Steps
<1>4. Writers' = IF proc'[c].pc \in Writing \union {"syncdir"} \union After THEN {c} ELSE {}
  BY <1>1, <1>2, OnlyWriterNext
<1>5. Stage' = StageOf(proc'[c].pc) /\ Asked' = AskedOf(proc'[c])
  BY <1>1, <1>4, StageNext DEF StageOf, AskedOf, Writing, After
<1> QED
  BY <1>2, <1>3, <1>5

\* The file is compared, and the unit enabled and started.
LEMMA StartAtomic ==
    ASSUME IInv, NEW c \in Callers, Compare(c) \/ Enable(c) \/ Restart(c), ~overlapped
    PROVE  [Atomic!Next]_(Atomic!vars)
<1>a. /\ c \in Busy /\ proc[c].pc \in {"compare", "enable", "restart"} /\ TypeOK
      /\ UNCHANGED <<conf, disk, overlapped>>
  BY DEF Compare, Enable, Restart, Complete, Busy, IInv, files, history
<1>b. proc[c].want \in Urls \union {Unset}
  BY <1>a DEF TypeOK
<1>1. CASE \E pc \in {"open", "enable", "restart"} : To(c, pc)
  <2>1. PICK pc \in {"open", "enable", "restart"} : To(c, pc)
    BY <1>1
  <2>2. /\ \A d \in Callers \ {c} : proc'[d].pc = proc[d].pc
        /\ proc'[c].pc = pc /\ proc'[c].want = proc[c].want
    BY <1>a, <2>1, MovedOn DEF Steps
  <2>3. /\ Stage = StageOf(proc[c].pc) /\ Asked = AskedOf(proc[c])
        /\ Stage' = StageOf(pc) /\ Asked' = IF StageOf(pc) = "out" THEN Spoilt ELSE proc[c].want
    BY <1>a, <2>2, StageStep DEF AskedOf
  <2>4. CASE Compare(c) /\ pc = "open"
    <3>1. proc[c].pc = "compare" /\ conf.data # proc[c].want
      BY <1>a, <2>2, <2>4 DEF Compare, To, Return, Idle, TypeOK
    <3>2. Stage = "out" /\ Stage' = "writing" /\ Asked' = proc[c].want
      BY <2>3, <2>4, <3>1 DEF StageOf, Writing, After
    <3>3. Atomic!Begin
      BY <1>a, <1>b, <3>1, <3>2 DEF Atomic!Begin
    <3> QED
      BY <3>3 DEF Atomic!Next
  <2>5. CASE Compare(c) /\ pc # "open"
    <3>1. proc[c].pc = "compare" /\ conf.data = proc[c].want /\ pc = "enable"
      BY <1>a, <2>1, <2>2, <2>5 DEF Compare, To, Return, Idle, TypeOK
    <3>2. Stage = "out" /\ Stage' = "done" /\ Asked' = proc[c].want
      BY <2>3, <3>1 DEF StageOf, Writing, After
    <3>3. Atomic!Find
      BY <1>a, <3>1, <3>2 DEF Atomic!Find
    <3> QED
      BY <3>3 DEF Atomic!Next
  <2>6. CASE Enable(c)
    <3>1. proc[c].pc = "enable" /\ pc = "restart"
      BY <1>a, <2>2, <2>6 DEF Enable, To, TypeOK
    <3>2. Stage' = Stage /\ Asked' = Asked
      BY <2>3, <3>1 DEF StageOf, AskedOf, Writing, After
    <3> QED
      BY <1>a, <3>2 DEF Atomic!vars
  <2>7. CASE Restart(c)
    BY <1>a, <2>2, <2>7 DEF Restart, Complete, Return, Idle, TypeOK
  <2> QED
    BY <2>4, <2>5, <2>6, <2>7
<1>2. CASE Return(c)
  <2>1. \A d \in Callers \ {c} : proc'[d].pc = proc[d].pc
    BY <1>a, <1>2, Returned
  <2>2. proc'[c].pc = "idle"
    BY <1>a, <1>2 DEF Return, Idle, TypeOK
  <2>3. /\ Stage = StageOf(proc[c].pc) /\ Asked = AskedOf(proc[c])
        /\ Stage' = "out" /\ Asked' = Spoilt
    BY <1>a, <2>1, <2>2, StageStep DEF AskedOf, StageOf, Writing, After
  <2>4. CASE Stage = "out"
    BY <1>a, <2>3, <2>4 DEF AskedOf, Atomic!vars
  <2>5. CASE Stage # "out"
    BY <1>a, <2>3, <2>5 DEF Atomic!Next, Atomic!Leave
  <2> QED
    BY <2>4, <2>5
<1> QED
  BY <1>1, <1>2 DEF Compare, Enable, Restart, Complete

\* The steps of AtomicWrite.
LEMMA WriteAtomic ==
    ASSUME IInv, NEW c \in Callers,
           Open(c) \/ Write(c) \/ Sync(c) \/ Rename(c) \/ SyncDir(c), ~overlapped
    PROVE  [Atomic!Next]_(Atomic!vars)
<1>a. /\ c \in Busy /\ proc[c].pc \in {"open", "write", "sync", "rename", "syncdir"} /\ TypeOK
      /\ overlapped' = overlapped /\ proc[c] \in Proc
  BY DEF Open, Write, Sync, Rename, SyncDir, Busy, IInv, TypeOK, Proc, Steps, history
<1>b. Progress(c)
  BY <1>a, WriterAlone
<1>1. CASE Open(c) \/ Write(c) \/ Sync(c)
  <2>1. \A d \in Callers \ {c} : proc'[d] = proc[d]
    BY <1>a, <1>1 DEF Open, Write, Sync, To, TypeOK
  <2>2. proc'[c].pc \in Writing /\ proc[c].pc \in Writing /\ proc'[c].want = proc[c].want
    BY <1>a, <1>1 DEF Open, Write, Sync, To, TypeOK, Writing, Proc
  <2>3. Stage' = Stage /\ Asked' = Asked
    BY <1>a, <2>1, <2>2, StageStep DEF StageOf, AskedOf, Writing
  <2>4. conf'.data = conf.data /\ disk' = disk
    BY <1>a, <1>b, <1>1 DEF Open, Write, Sync, Progress, TypeOK, File
  <2> QED
    BY <1>a, <2>3, <2>4 DEF Atomic!vars
<1>2. CASE Rename(c)
  <2>1. \A d \in Callers : proc[d] \in Proc
    BY <1>a DEF TypeOK, Proc, Steps
  <2>2. /\ \A d \in Callers \ {c} : proc'[d].pc = proc[d].pc
        /\ proc'[c].pc = "syncdir" /\ proc'[c].want = proc[c].want /\ proc[c].pc = "rename"
    BY <1>2, <2>1 DEF Rename, Proc
  <2>3. /\ Stage = "writing" /\ Asked = proc[c].want
        /\ Stage' = "placed" /\ Asked' = proc[c].want
    BY <1>a, <2>2, StageStep DEF StageOf, AskedOf, Writing
  <2>4. conf'.data = proc[c].want /\ disk' = disk \union {proc[c].want}
    BY <1>b, <1>2, <2>2 DEF Rename, Progress, Remains
  <2>5. Atomic!Place
    BY <1>a, <2>3, <2>4 DEF Atomic!Place
  <2> QED
    BY <2>5 DEF Atomic!Next
<1>3. CASE SyncDir(c)
  <2>1. To(c, "enable") /\ proc[c].pc = "syncdir" /\ conf' = conf /\ disk' = Remains(conf)
    BY <1>3 DEF SyncDir
  <2>2. /\ \A d \in Callers \ {c} : proc'[d].pc = proc[d].pc
        /\ proc'[c].pc = "enable" /\ proc'[c].want = proc[c].want
    BY <1>a, <2>1, MovedOn DEF Steps
  <2>3. /\ Stage = "placed" /\ Asked = proc[c].want
        /\ Stage' = "done" /\ Asked' = proc[c].want
    BY <1>a, <2>1, <2>2, StageStep DEF StageOf, AskedOf, Writing, After
  <2>4. disk' = {proc[c].want}
    BY <1>b, <2>1 DEF Progress, Remains
  <2>5. Atomic!Return
    BY <1>a, <2>1, <2>3, <2>4 DEF Atomic!Return
  <2> QED
    BY <2>5 DEF Atomic!Next
<1> QED
  BY <1>1, <1>2, <1>3

\* Stopping and disabling the unit leaves the file and who writes it alone.
LEMMA StopAtomic ==
    ASSUME IInv, NEW c \in Callers, Stop(c) \/ Disable(c) \/ StopFails(c)
    PROVE  UNCHANGED Atomic!vars
<1>1. /\ TypeOK /\ UNCHANGED <<conf, disk, overlapped>>
      /\ proc[c].pc \in {"stop", "disable"}
  BY DEF IInv, Stop, Disable, StopFails, Complete, files, history
<1>2. /\ \A d \in Callers \ {c} : proc'[d] = proc[d]
      /\ proc'[c].pc \in {"disable", "idle"}
  BY <1>1 DEF Stop, Disable, StopFails, Complete, To, Return, Idle, TypeOK
<1>3. c \notin Writers /\ c \notin Writers'
  BY <1>1, <1>2 DEF Writers, Writing, After
<1>4. \A d \in Writers \union Writers' : d \in Writers /\ d \in Writers' /\ proc'[d] = proc[d]
  BY <1>2, <1>3 DEF Writers
<1>5. Stage' = Stage /\ Asked' = Asked
  BY <1>4, StagesStay
<1> QED
  BY <1>1, <1>5 DEF Atomic!vars

\* A writer that gives up leaves the file as it is.
LEMMA FailAtomic ==
    ASSUME IInv, NEW c \in Callers, RenameMissing(c) \/ Fail(c), ~overlapped
    PROVE  [Atomic!Next]_(Atomic!vars)
<1>1. /\ GiveUp(c) /\ c \in Busy /\ proc[c].pc \notin {"stop", "disable"} /\ TypeOK
      /\ UNCHANGED <<conf, disk, overlapped>>
  BY DEF RenameMissing, Fail, GiveUp, Busy, IInv
<1>2. Busy = {c}
  BY <1>1, OnlyWriter
<1>3. proc'[c].pc = "idle" /\ \A d \in Callers \ {c} : proc'[d].pc = proc[d].pc
  <2>1. CASE proc[c].pc \in {"write", "sync", "rename"}
    <3>1. \A d \in Callers : proc[d] \in Proc
      BY <1>1 DEF TypeOK, Proc, Steps
    <3>2. \A d \in Callers : proc'[d] = IF d = c THEN Idle
                 ELSE [proc[d] EXCEPT !.file = IF @ = "tmp" THEN "none" ELSE @]
      BY <1>1, <2>1 DEF GiveUp
    <3>3. proc'[c] = Idle /\ \A d \in Callers \ {c} :
                 proc'[d] = [proc[d] EXCEPT !.file = IF @ = "tmp" THEN "none" ELSE @]
      BY <3>2
    <3>4. \A d \in Callers \ {c} : proc'[d].pc = proc[d].pc
      BY <3>1, <3>3 DEF Proc
    <3> QED
      BY <3>3, <3>4 DEF Idle
  <2>2. CASE proc[c].pc \notin {"write", "sync", "rename"}
    BY <1>1, <2>2 DEF GiveUp, Return, Idle, TypeOK
  <2> QED
    BY <2>1, <2>2
<1>4. /\ Stage = StageOf(proc[c].pc) /\ Asked = AskedOf(proc[c])
      /\ Stage' = "out" /\ Asked' = Spoilt
  BY <1>1, <1>3, StageStep DEF AskedOf, StageOf, Writing, After
<1>5. CASE Stage = "out"
  BY <1>1, <1>4, <1>5 DEF AskedOf, Atomic!vars
<1>6. CASE Stage # "out"
  BY <1>1, <1>4, <1>6 DEF Atomic!Next, Atomic!Leave
<1> QED
  BY <1>5, <1>6

\* A caller that enters alone finds nobody at the file, and is not at it yet.
LEMMA EnterAtomic ==
    ASSUME TypeOK, NEW c \in Callers, Enter(c, setting), UNCHANGED files, ~overlapped'
    PROVE  UNCHANGED Atomic!vars
<1>1. Busy = {} /\ overlapped' = overlapped
  BY DEF Enter, TypeOK
<1>2. Writers = {}
  BY <1>1 DEF Writers, Writing, After, Busy
<1>3. /\ proc'[c].pc \in {"stop", "compare"}
      /\ \A d \in Callers \ {c} : proc'[d].pc = "idle"
  <2>1. proc'[c].pc \in {"stop", "compare"}
    BY DEF Enter, Idle
  <2>2. ASSUME NEW d \in Callers \ {c} PROVE proc'[d].pc = "idle"
    <3>1. proc'[d] = [proc[d] EXCEPT !.alone = Busy = {} \/ d \notin Busy]
      BY DEF Enter
    <3>2. proc[d] \in Proc /\ proc[d].pc = "idle"
      BY <1>1 DEF TypeOK, Proc, Steps, Busy
    <3> QED
      BY <3>1, <3>2 DEF Proc
  <2> QED
    BY <2>1, <2>2
<1>4. Writers' = {}
  BY <1>3 DEF Writers, Writing, After
<1>5. Stage' = Stage /\ Asked' = Asked
  BY <1>2, <1>4, StagesStay
<1> QED
  BY <1>1, <1>5 DEF Atomic!vars, files

\* With the process its writer dies; a power loss leaves what was kept.
LEMMA DownAtomic ==
    ASSUME IInv, Crash \/ PowerLoss
    PROVE  [Atomic!Next]_(Atomic!vars)
<1>1. Writers' = {} /\ overlapped' = overlapped
  BY DEF Crash, PowerLoss, Down, Writers, Writing, After, Idle
<1>2. Stage' = "out" /\ Asked' = Spoilt
  BY <1>1, StageNext
<1>3. CASE Crash
  <2>1. conf' = conf /\ disk' = disk
    BY <1>3 DEF Crash, files
  <2>2. CASE Writers = {}
    BY <1>1, <1>2, <2>1, <2>2, StageIs DEF Atomic!vars
  <2>3. CASE Writers # {}
    <3>1. Stage # "out"
      BY <2>3 DEF Stage
    <3> QED
      BY <1>1, <1>2, <2>1, <3>1 DEF Atomic!Next, Atomic!Leave
  <2> QED
    BY <2>2, <2>3
<1>4. CASE PowerLoss
  <2>1. conf'.data \in disk /\ disk' = {conf'.data}
    BY <1>4 DEF PowerLoss
  <2> QED
    BY <1>1, <1>2, <2>1 DEF Atomic!Next, Atomic!PowerLoss
<1> QED
  BY <1>3, <1>4

\* Every step is one of the abstract file, or a stutter.
LEMMA NextAtomic == IInv /\ [Next]_vars => [Atomic!Next]_(Atomic!vars)
<1> SUFFICES ASSUME IInv, [Next]_vars, ~overlapped' PROVE [Atomic!Next]_(Atomic!vars)
  BY DEF Atomic!Next, Atomic!Share
<1>1. CASE Load \/ WatcherApplies
  <2>1. \E c \in Callers : Enter(c, setting) /\ UNCHANGED files
    BY <1>1 DEF Load, WatcherApplies, Callers
  <2> QED
    BY <2>1, EnterAtomic DEF IInv
<1>2. CASE \E c \in Callers : Apply(c)
  <2>1. PICK c \in Callers : Apply(c)
    BY <1>2
  <2>2. ~overlapped
    BY <2>1 DEF Apply, Stop, Disable, Compare, Enable, Restart, Complete, Open, Write, Sync,
       Rename, SyncDir, RenameMissing, Fail, StopFails, GiveUp, history
  <2> QED
    BY <2>1, <2>2, StopAtomic, StartAtomic, WriteAtomic, FailAtomic DEF Apply
<1>3. CASE Edit
  <2>1. UNCHANGED <<proc, conf, disk, overlapped>>
    BY <1>3 DEF Edit, files, history
  <2>2. Writers' = Writers
    BY <2>1 DEF Writers
  <2>3. Stage' = Stage /\ Asked' = Asked
    BY <2>1, <2>2, StagesStay
  <2> QED
    BY <2>1, <2>3 DEF Atomic!vars
<1>4. CASE Crash \/ PowerLoss
  BY <1>4, DownAtomic
<1>5. CASE UNCHANGED vars
  <2>1. UNCHANGED <<proc, conf, disk, overlapped>>
    BY <1>5 DEF vars, files, history
  <2>2. Writers' = Writers
    BY <2>1 DEF Writers
  <2>3. Stage' = Stage /\ Asked' = Asked
    BY <2>1, <2>2, StagesStay
  <2> QED
    BY <2>1, <2>3 DEF Atomic!vars
<1> QED
  BY <1>1, <1>2, <1>3, <1>4, <1>5 DEF Next, Wait

\* AtomicWrite keeps its promise to a caller that is the only one: the file changes
\* in one step to what the caller asked for, and is kept once the call has returned,
\* for any URLs, failures, crashes and power losses, also those of earlier calls.
THEOREM ApplierImplementsAtomicFile == Spec => AtomicSpec
<1>1. Init => Atomic!Init
  BY InitAtomic
<1>2. IInv /\ [Next]_vars => [Atomic!Next]_(Atomic!vars)
  BY NextAtomic
<1> QED
  BY <1>1, <1>2, Invariance, PTL DEF Spec, AtomicSpec, Atomic!Spec

================================================================================
