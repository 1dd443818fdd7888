--------------------------- MODULE SettingsFileProofs ---------------------------
(* Proofs about SettingsFile, for any plain names, for any number of writes, of    *)
(* failures and of crashes, and for whatever the file holds at first.            *)
EXTENDS SettingsFile, FiniteSetTheorems, WellFoundedInduction, TLAPS

--------------------------------------------------------------------------------
(* The boot.                                                                     *)

Loaded == boot \in {"forget", "subscribe", "up"}

\* What is held while the service starts, and who may act then.
BootInv ==
    /\ boot = "hydrate" => cfg = file
    /\ boot = "save" => cfg = Migrated(file)
    /\ boot \in {"save", "hydrate"} => Old \notin DOMAIN cfg
    /\ boot = "forget" => Old \notin marks
    /\ boot # "up" => channel = <<>> /\ watcher.pc = "idle"

FileInv == TypeOK /\ BootInv

--------------------------------------------------------------------------------
(* The file reads back.                                                          *)

\* The file has of the settings what it can have, and nothing else.
Mirrors(m, settings) ==
    /\ \A n \in DOMAIN settings :
          Storable(n) /\ (\A o \in DOMAIN settings : Storable(o) => ~Collide(n, o)) =>
              n \in DOMAIN m /\ m[n] = settings[n]
    /\ \A n \in DOMAIN m : n \in DOMAIN settings /\ m[n] = settings[n]

\* The service has last written what is marked now.
Saved(n) == /\ n \in DOMAIN snapshot <=> n \in marks /\ n \in DOMAIN hash
            /\ n \in DOMAIN snapshot => snapshot[n] = hash[n]

Heard == Range(channel)

\* Until the first failure the file mirrors what was last written, and what was not
\* is about to be heard of.
MirrorInv == faults = 0 =>
    /\ Loaded => Mirrors(file, snapshot)
    /\ boot \in {"forget", "subscribe"} => \A n \in Names : Saved(n)
    /\ boot = "up" /\ watcher.pc = "idle" =>
           \A n \in Names : Saved(n) \/ n \in unsaid \/ n \in Heard

\* Whoever chose a mode is going to be heard.
ChosenInv == chosen /\ faults = 0 /\ crashes = 0 =>
    /\ boot = "up"
    /\ Get(hash, Eggs) = "true" =>
           Mode \in unsaid \/ Mode \in Heard \/ watcher.pc \in {"look", "clear"}

ReadInv == FileInv /\ MirrorInv /\ ChosenInv

--------------------------------------------------------------------------------
(* The mode and the marker, while no name is the table of either.                *)

Apart(n) == ~Collide(n, Mode) /\ ~Collide(n, Eggs)
ApartInv == \A n \in DOMAIN file \union DOMAIN cfg \union DOMAIN hash : Apart(n)

\* A mode on file is marked, and the hash has it; a choice is there as well.
ModeInv == Loaded =>
    /\ Mode \in DOMAIN hash
    /\ Mode \in DOMAIN file => Mode \in marks
    /\ Get(file, Mode) = Choice => hash[Mode] = Choice

\* Wherever the marker is, the file has a mode: there is nothing left to migrate.
EggsAbroad == \/ Eggs \in DOMAIN file \union marks \union unsaid \union Heard
              \/ Get(hash, Eggs) = "true" \/ watcher.name = Eggs \/ watcher.pc = "clear"
EggsInv == /\ EggsAbroad => Mode \in DOMAIN file
           /\ Loaded /\ Get(file, Eggs) = "false" => Eggs \in marks /\ Get(hash, Eggs) = "false"

\* Once the end of the import is on file, Redis has no pending marker either.
DoneInv == Get(file, Eggs) = "false" => Get(hash, Eggs) # "true"

ModeEggsInv == FileInv /\ (~collided => ApartInv /\ ModeInv /\ EggsInv /\ DoneInv)

--------------------------------------------------------------------------------
(* Names.                                                                        *)

LEMMA OwnNames ==
    /\ Old \in Names /\ Mode \in Names /\ Eggs \in Names /\ Milestones \in Names
    /\ IsFiniteSet(Names)
<1>1. IsFiniteSet(Plain \union {Old} \union {Mode} \union {Eggs} \union {Milestones})
  BY PlainAssumption, FS_AddElement
<1>2. Names = Plain \union {Old} \union {Mode} \union {Eggs} \union {Milestones}
  BY DEF Names
<1> QED
  BY <1>1, <1>2 DEF Names

\* The three names of the migration are all different leaves.
LEMMA MigrationNames ==
    /\ Storable(Old) /\ Storable(Mode) /\ Storable(Eggs)
    /\ Old # Mode /\ Old # Eggs /\ Mode # Eggs
    /\ IsPrefix(Old, Old) /\ IsPrefix(Mode, Mode)
    /\ ~IsPrefix(Old, Mode) /\ ~IsPrefix(Old, Eggs)
    /\ ~Collide(Old, Mode) /\ ~Collide(Old, Eggs) /\ ~Collide(Mode, Eggs)
<1>1. Len(Old) = 2 /\ Len(Mode) = 3 /\ Len(Eggs) = 3
  BY DEF Old, Mode, Eggs
<1>2. /\ Old[1] = "dashboard" /\ Old[2] = "milestone-celebrations"
      /\ Mode[1] = "dashboard" /\ Mode[2] = "milestones" /\ Mode[3] = "mode"
      /\ Eggs[1] = "dashboard" /\ Eggs[2] = "milestones" /\ Eggs[3] = "legacy-eggs-pending"
  BY DEF Old, Mode, Eggs
<1> DEFINE Segments == {"dashboard", "milestone-celebrations", "milestones", "mode",
                        "legacy-eggs-pending"}
<1>3. Old \in Seq(Segments) /\ Mode \in Seq(Segments) /\ Eggs \in Seq(Segments)
  BY DEF Old, Mode, Eggs
<1> HIDE DEF Segments
<1>4. /\ SubSeq(Old, 1, 2)[2] = Old[2]
      /\ SubSeq(Mode, 1, 2)[2] = Mode[2] /\ SubSeq(Eggs, 1, 2)[2] = Eggs[2]
      /\ SubSeq(Mode, 1, 3)[3] = Mode[3] /\ SubSeq(Eggs, 1, 3)[3] = Eggs[3]
  BY <1>1, <1>3
<1>5. ~IsPrefix(Old, Mode) /\ ~IsPrefix(Old, Eggs)
  BY <1>1, <1>2, <1>4 DEF IsPrefix
<1>6. ~IsPrefix(Mode, Old) /\ ~IsPrefix(Eggs, Old)
  BY <1>1 DEF IsPrefix
<1>7. ~IsPrefix(Mode, Eggs) /\ ~IsPrefix(Eggs, Mode)
  BY <1>1, <1>2, <1>4 DEF IsPrefix
<1>8. IsPrefix(Old, Old) /\ IsPrefix(Mode, Mode)
  BY <1>1 DEF IsPrefix
<1>9. Storable(Old) /\ Storable(Mode) /\ Storable(Eggs)
  BY <1>1, <1>2 DEF Storable
<1>10. Old # Mode /\ Old # Eggs /\ Mode # Eggs
  BY <1>1, <1>2
<1> QED
  BY <1>5, <1>6, <1>7, <1>8, <1>9, <1>10 DEF Collide, IsStrictPrefix

LEMMA CollideIs == \A n, m : /\ ~Collide(n, n)
                             /\ Collide(n, m) => Collide(m, n)
BY DEF Collide, IsStrictPrefix

--------------------------------------------------------------------------------
(* What ParseRedisSettings makes of the settings, for every order.               *)

\* A set of numbers has a least one.
LEMMA LeastNumber ==
    ASSUME NEW T, T \subseteq Nat, T # {}
    PROVE  \E x \in T : \A y \in T : x <= y
<1> DEFINE R == OpToRel(<, Nat)
<1>1. ASSUME NEW x \in Nat, NEW y \in Nat, y < x
      PROVE  <<y, x>> \in R
  <2> DEFINE p == <<y, x>>
  <2>1. p \in Nat \X Nat /\ p[1] < p[2]
    BY <1>1
  <2> QED
    BY <2>1 DEF OpToRel
<1>2. IsWellFoundedOn(R, Nat)
  BY NatLessThanWellFounded
<1> HIDE DEF R
<1>3. \E x \in T : \A y \in T : ~(<<y, x>> \in R)
  BY <1>2, WFMin
<1>4. PICK x \in T : \A y \in T : ~(<<y, x>> \in R)
  BY <1>3
<1>5. \A y \in T : ~(y < x)
  BY <1>1, <1>4
<1> QED
  BY <1>5

\* Of the first i names, those that stay: what may be stored and meets no later name.
Stays(order, k, i) == /\ Storable(order[k])
                      /\ \A j \in (k + 1)..i : Storable(order[j]) => ~Collide(order[k], order[j])
Staying(order, i) == {order[k] : k \in {k \in 1..i : Stays(order, k, i)}}

\* The next name drops what it meets.
LEMMA StayingNext ==
    ASSUME NEW order, NEW i \in Nat, i > 0
    PROVE  Staying(order, i) =
               IF Storable(order[i])
               THEN {l \in Staying(order, i - 1) : ~Collide(l, order[i])} \union {order[i]}
               ELSE Staying(order, i - 1)
<1>1. \A k \in 1..(i - 1) :
          Stays(order, k, i) <=>
              /\ Stays(order, k, i - 1)
              /\ Storable(order[i]) => ~Collide(order[k], order[i])
  <2> TAKE k \in 1..(i - 1)
  <2>1. (k + 1)..i = (k + 1)..(i - 1) \union {i}
    OBVIOUS
  <2> QED
    BY <2>1 DEF Stays
<1>2. Stays(order, i, i) <=> Storable(order[i])
  BY DEF Stays
<1>3. 1..i = 1..(i - 1) \union {i}
  OBVIOUS
<1>4. \A l : l \in Staying(order, i) <=>
          \/ Storable(order[i]) /\ l = order[i]
          \/ \E k \in 1..(i - 1) : /\ l = order[k] /\ Stays(order, k, i - 1)
                                   /\ Storable(order[i]) => ~Collide(order[k], order[i])
  BY <1>1, <1>2, <1>3, Zenon DEF Staying
<1>5. \A l : l \in Staying(order, i - 1) <=>
          \E k \in 1..(i - 1) : l = order[k] /\ Stays(order, k, i - 1)
  BY Zenon DEF Staying
<1>6. \A l : l \in Staying(order, i) <=>
          \/ Storable(order[i]) /\ l = order[i]
          \/ /\ l \in Staying(order, i - 1)
             /\ Storable(order[i]) => ~Collide(l, order[i])
  BY <1>4, <1>5, Zenon
<1> QED
  BY <1>6, Zenon

\* After each name the tree has the settings that stay.
LEMMA ParsesIs ==
    ASSUME NEW settings, NEW order, Len(order) \in Nat
    PROVE  Parses(settings, order) =
               [i \in 0..Len(order) |-> [n \in Staying(order, i) |-> settings[n]]]
<1> DEFINE N == Len(order)
           Next1(m, i) ==
               IF i = 0 THEN Empty
               ELSE IF Storable(order[i]) THEN SetNested(m, order[i], settings[order[i]])
               ELSE m
           P == Parses(settings, order)
           Q == [i \in 0..N |-> [n \in Staying(order, i) |-> settings[n]]]
<1>1. \A i \in 0..N : Q[i] = Next1(Q[i - 1], i)
  <2> TAKE i \in 0..N
  <2>1. CASE i = 0
    <3>1. Staying(order, 0) = {}
      BY DEF Staying
    <3>2. [n \in {} |-> settings[n]] = <<>>
      OBVIOUS
    <3> QED
      BY <2>1, <3>1, <3>2 DEF Empty
  <2>2. CASE i # 0 /\ Storable(order[i])
    <3>1. i - 1 \in 0..N /\ i \in Nat /\ i > 0
      BY <2>2
    <3>2. Staying(order, i) =
              {l \in Staying(order, i - 1) : ~Collide(l, order[i])} \union {order[i]}
      BY <2>2, <3>1, StayingNext
    <3>3. Q[i - 1] = [n \in Staying(order, i - 1) |-> settings[n]]
      BY <3>1
    <3>4. SetNested(Q[i - 1], order[i], settings[order[i]]) =
              [n \in Staying(order, i) |-> settings[n]]
      BY <3>2, <3>3 DEF SetNested
    <3> QED
      BY <2>2, <3>4
  <2>3. CASE i # 0 /\ ~Storable(order[i])
    <3>1. i - 1 \in 0..N /\ i \in Nat /\ i > 0
      BY <2>3
    <3> QED
      BY <2>3, <3>1, StayingNext
  <2> QED
    BY <2>1, <2>2, <2>3
<1>2. Q = [i \in 0..N |-> Next1(Q[i - 1], i)]
  <2>1. Q = [i \in 0..N |-> Q[i]]
    OBVIOUS
  <2> HIDE DEF Q, Next1
  <2> QED
    BY <1>1, <2>1
<1> HIDE DEF Q
<1>3. P = [i \in 0..N |-> Next1(P[i - 1], i)]
  BY <1>2, Zenon DEF Parses
<1>4. \A i \in 0..N : P[i] = Next1(P[i - 1], i)
  <2> HIDE DEF P, Next1
  <2> QED
    BY <1>3
<1>5. \A i \in 0..N : P[i] = Q[i]
  <2> DEFINE differ == {i \in 0..N : P[i] # Q[i]}
  <2> SUFFICES ASSUME differ # {} PROVE FALSE
    OBVIOUS
  <2>0. differ \subseteq Nat
    BY DEF differ
  <2>1. PICK i \in differ : \A j \in differ : i <= j
    <3> HIDE DEF differ
    <3> QED
      BY <2>0, LeastNumber
  <2>2. CASE i = 0
    BY <1>1, <1>4, <2>1, <2>2
  <2>3. CASE i # 0
    <3>1. i - 1 \in 0..N /\ i - 1 \notin differ
      BY <2>1, <2>3
    <3>2. P[i - 1] = Q[i - 1]
      BY <3>1
    <3>3. P[i] = Next1(P[i - 1], i) /\ Q[i] = Next1(Q[i - 1], i)
      BY <1>1, <1>4, <2>1
    <3> HIDE DEF Next1, P
    <3> QED
      BY <2>1, <3>2, <3>3
  <2> QED
    BY <2>2, <2>3
<1>6. P = [i \in 0..N |-> P[i]]
  <2> HIDE DEF P, Next1
  <2> QED
    BY <1>3
<1>7. P = Q
  <2>1. Q = [i \in 0..N |-> Q[i]]
    BY DEF Q
  <2> HIDE DEF P
  <2> QED
    BY <1>5, <1>6, <2>1
<1> QED
  BY <1>7 DEF Q

\* In every order, with every set of settings, the tree has each setting that can be
\* stored and meets no other, with its value; no other setting, value or name; and no
\* leaf on the way to another.
THEOREM ParseAnyOrder ==
    ASSUME NEW settings, IsFiniteSet(DOMAIN settings), NEW order \in SetToSeqs(DOMAIN settings)
    PROVE  /\ Mirrors(Parse(settings, order), settings)
           /\ \A n, o \in DOMAIN Parse(settings, order) : Storable(n) /\ ~Collide(n, o)
<1> DEFINE S == DOMAIN settings
           N == Cardinality(S)
           m == Parse(settings, order)
<1>1. N \in Nat
  BY FS_CardinalityType
<1>2. order \in [1..N -> S] /\ \A i, j \in 1..N : i # j => order[i] # order[j]
  BY DEF SetToSeqs
<1>3. Len(order) = N
  BY <1>1, <1>2
<1>4. m = [n \in Staying(order, N) |-> settings[n]]
  <2>1. N \in 0..N
    BY <1>1
  <2> QED
    BY <1>1, <1>3, <2>1, ParsesIs DEF Parse
<1>5. \A n \in S : \E k \in 1..N : order[k] = n
  <2>1. order \in Injection(1..N, S)
    BY <1>2 DEF Injection, IsInjective
  <2>2. IsFiniteSet(1..N) /\ Cardinality(1..N) = N
    BY <1>1, FS_Interval
  <2>3. order \in Surjection(1..N, S)
    BY <2>1, <2>2, FS_Injection
  <2> QED
    BY <2>3 DEF Surjection
<1>6. DOMAIN m = Staying(order, N) /\ \A n \in DOMAIN m : m[n] = settings[n]
  BY <1>4
<1> HIDE DEF m, N
<1>7. \A n \in DOMAIN m : \E k \in 1..N : order[k] = n /\ Stays(order, k, N)
  BY <1>6 DEF Staying
<1>8. ASSUME NEW n \in S, Storable(n), \A o \in S : Storable(o) => ~Collide(n, o)
      PROVE  n \in DOMAIN m
  <2>1. PICK k \in 1..N : order[k] = n
    BY <1>5
  <2>2. \A j \in (k + 1)..N : j \in 1..N /\ order[j] \in S
    BY <1>1, <1>2
  <2>3. Stays(order, k, N)
    BY <1>8, <2>1, <2>2 DEF Stays
  <2> QED
    BY <1>6, <2>1, <2>3 DEF Staying
<1>9. \A n \in DOMAIN m : n \in S
  BY <1>2, <1>7
<1>10. ASSUME NEW n \in DOMAIN m, NEW o \in DOMAIN m
       PROVE  Storable(n) /\ ~Collide(n, o)
  <2>1. PICK k \in 1..N : order[k] = n /\ Stays(order, k, N)
    BY <1>7
  <2>2. PICK l \in 1..N : order[l] = o /\ Stays(order, l, N)
    BY <1>7
  <2>3. Storable(n) /\ Storable(o)
    BY <2>1, <2>2 DEF Stays
  <2>4. CASE k < l
    <3>1. l \in (k + 1)..N
      BY <1>1, <2>4
    <3> QED
      BY <2>1, <2>2, <2>3, <3>1 DEF Stays
  <2>5. CASE l < k
    <3>1. k \in (l + 1)..N
      BY <1>1, <2>5
    <3> QED
      BY <2>1, <2>2, <2>3, <3>1, CollideIs DEF Stays
  <2>6. CASE k = l
    BY <2>1, <2>2, <2>3, <2>6, CollideIs
  <2> QED
    BY <1>1, <2>4, <2>5, <2>6
<1> QED
  BY <1>6, <1>8, <1>9, <1>10 DEF Mirrors, m, S

--------------------------------------------------------------------------------
(* The operators on trees and on settings.                                       *)

Tree(m) == \A n, o \in DOMAIN m : Storable(n) /\ ~Collide(n, o)

LEMMA EmptyIs == DOMAIN Empty = {} /\ Tree(Empty)
BY DEF Empty, Tree

\* A leaf is put into a tree.
LEMMA SetNestedIs ==
    ASSUME NEW m, NEW name, NEW v
    PROVE  /\ DOMAIN SetNested(m, name, v) =
                  {l \in DOMAIN m : ~Collide(l, name)} \union {name}
           /\ SetNested(m, name, v)[name] = v
           /\ \A n \in DOMAIN SetNested(m, name, v) :
                 n # name => SetNested(m, name, v)[n] = m[n]
           /\ Tree(m) /\ Storable(name) => Tree(SetNested(m, name, v))
<1> DEFINE s == SetNested(m, name, v)
<1>1. DOMAIN s = {l \in DOMAIN m : ~Collide(l, name)} \union {name}
  BY DEF SetNested
<1>2. \A n \in DOMAIN s : s[n] = IF n = name THEN v ELSE m[n]
  BY DEF SetNested
<1> HIDE DEF s
<1>3. ASSUME Tree(m), Storable(name), NEW n \in DOMAIN s, NEW o \in DOMAIN s
      PROVE  Storable(n) /\ ~Collide(n, o)
  BY <1>1, <1>3, CollideIs DEF Tree
<1> QED
  BY <1>1, <1>2, <1>3 DEF s, Tree

\* A tree is all of it settings.
LEMMA FieldsIs ==
    ASSUME NEW m, Tree(m)
    PROVE  /\ DOMAIN Fields(m) = DOMAIN m
           /\ \A n \in DOMAIN m : Fields(m)[n] = m[n]
           /\ \A n : Get(Fields(m), n) = Get(m, n)
<1>1. {n \in DOMAIN m : Len(n) >= 2} = DOMAIN m
  BY DEF Tree, Storable
<1>2. Fields(m) = [n \in DOMAIN m |-> m[n]]
  BY <1>1 DEF Fields, Restrict
<1> QED
  BY <1>2 DEF Get

\* The migration leaves a tree without the former setting; a mode that is there stays,
\* and so does the marker beside it; and there is a mode afterwards.
LEMMA MigratedIs ==
    ASSUME NEW m, Tree(m)
    PROVE  /\ Tree(Migrated(m))
           /\ DOMAIN Migrated(m) \subseteq DOMAIN m \union {Mode, Eggs}
           /\ ~Has(Migrated(m), Old)
           /\ Has(m, Mode) => \A n \in {Mode, Eggs} :
                 /\ n \in DOMAIN Migrated(m) <=> n \in DOMAIN m
                 /\ n \in DOMAIN m => Migrated(m)[n] = m[n]
           /\ ~Has(m, Mode) => Mode \in DOMAIN Migrated(m)
<1> DEFINE on == Get(m, Old) = "true"
           marked == IF on THEN SetNested(m, Eggs, "true") ELSE m
           moded == SetNested(marked, Mode, IF on THEN "regular" ELSE "off")
           new == IF Has(m, Mode) THEN m ELSE moded
<1>1. Migrated(m) = WithoutOld(new)
  BY DEF Migrated
<1>0. Storable(Mode) /\ Storable(Eggs)
  BY MigrationNames
<1>2. Tree(marked) /\ DOMAIN marked \subseteq DOMAIN m \union {Eggs}
  <2>1. DOMAIN SetNested(m, Eggs, "true") =
            {l \in DOMAIN m : ~Collide(l, Eggs)} \union {Eggs}
    BY SetNestedIs
  <2>2. Tree(SetNested(m, Eggs, "true"))
    BY <1>0, SetNestedIs
  <2> QED
    BY <2>1, <2>2
<1> HIDE DEF marked, on
<1>3. /\ Tree(moded) /\ DOMAIN moded \subseteq DOMAIN marked \union {Mode}
      /\ Mode \in DOMAIN moded
  <2> DEFINE v == IF on THEN "regular" ELSE "off"
  <2> HIDE DEF v
  <2>1. DOMAIN SetNested(marked, Mode, v) =
            {l \in DOMAIN marked : ~Collide(l, Mode)} \union {Mode}
    BY SetNestedIs
  <2>2. Tree(SetNested(marked, Mode, v))
    BY <1>0, <1>2, SetNestedIs
  <2> QED
    BY <2>1, <2>2 DEF v
<1> HIDE DEF moded
<1>4. Tree(new) /\ DOMAIN new \subseteq DOMAIN m \union {Mode, Eggs}
  BY <1>2, <1>3
<1>5. Has(m, Mode) => new = m
  OBVIOUS
<1>6. ~Has(m, Mode) => Mode \in DOMAIN new
  BY <1>3
<1> HIDE DEF new
<1>7. /\ DOMAIN WithoutOld(new) = {n \in DOMAIN new : ~IsPrefix(Old, n)}
      /\ \A n \in DOMAIN WithoutOld(new) : WithoutOld(new)[n] = new[n]
  BY DEF WithoutOld, Restrict
<1>8. \A n \in {Mode, Eggs} : ~IsPrefix(Old, n)
  BY MigrationNames
<1>9. Tree(WithoutOld(new)) /\ ~Has(WithoutOld(new), Old)
  BY <1>4, <1>7 DEF Tree, Has
<1> QED
  BY <1>1, <1>4, <1>5, <1>6, <1>7, <1>8, <1>9

LEMMA OverlayIs ==
    ASSUME NEW settings, NEW fields
    PROVE  /\ DOMAIN Overlay(settings, fields) = DOMAIN settings \union DOMAIN fields
           /\ \A n \in DOMAIN Overlay(settings, fields) :
                 Overlay(settings, fields)[n] =
                     IF n \in DOMAIN fields THEN fields[n] ELSE settings[n]
BY DEF Overlay

LEMMA PutIs ==
    ASSUME NEW settings, NEW n, NEW v
    PROVE  /\ DOMAIN Put(settings, n, v) = DOMAIN settings \union {n}
           /\ Put(settings, n, v)[n] = v
           /\ \A o \in DOMAIN settings : o # n => Put(settings, n, v)[o] = settings[o]
BY DEF Put

LEMMA WithoutIs ==
    ASSUME NEW settings, NEW n
    PROVE  /\ DOMAIN Without(settings, n) = DOMAIN settings \ {n}
           /\ \A o \in DOMAIN Without(settings, n) : Without(settings, n)[o] = settings[o]
BY DEF Without, Restrict

LEMMA PersistedIs ==
    /\ DOMAIN Persisted = marks \intersect DOMAIN hash
    /\ \A n \in DOMAIN Persisted : Persisted[n] = hash[n]
BY DEF Persisted

\* What Hydrate puts into the hash.
LEMMA HydratedIs ==
    ASSUME Tree(cfg), NEW new, new = Overlay(hash, Overlay(Defaults, Fields(cfg)))
    PROVE  /\ DOMAIN new = DOMAIN hash \union {Mode, Eggs} \union DOMAIN cfg
           /\ \A n \in DOMAIN cfg : new[n] = cfg[n]
           /\ Eggs \notin DOMAIN cfg => new[Eggs] = "false"
<1> DEFINE over == Overlay(Defaults, Fields(cfg))
<1>1. DOMAIN Defaults = {Mode, Eggs} /\ Defaults[Eggs] = "false"
  BY MigrationNames DEF Defaults
<1>2. DOMAIN Fields(cfg) = DOMAIN cfg /\ \A n \in DOMAIN cfg : Fields(cfg)[n] = cfg[n]
  BY FieldsIs
<1>3. /\ DOMAIN over = {Mode, Eggs} \union DOMAIN cfg
      /\ \A n \in DOMAIN cfg : over[n] = cfg[n]
      /\ Eggs \notin DOMAIN cfg => over[Eggs] = "false"
  BY <1>1, <1>2, OverlayIs
<1> HIDE DEF over
<1>4. new = Overlay(hash, over)
  BY DEF over
<1>5. /\ DOMAIN new = DOMAIN hash \union DOMAIN over
      /\ \A n \in DOMAIN new : new[n] = IF n \in DOMAIN over THEN over[n] ELSE hash[n]
  <2>1. DOMAIN Overlay(hash, over) = DOMAIN hash \union DOMAIN over
    BY DEF Overlay
  <2>2. \A n \in DOMAIN Overlay(hash, over) :
            Overlay(hash, over)[n] = IF n \in DOMAIN over THEN over[n] ELSE hash[n]
    BY DEF Overlay
  <2> QED
    BY <1>4, <2>1, <2>2
<1> QED
  BY <1>3, <1>5

--------------------------------------------------------------------------------
(* Types.                                                                        *)

Domains == /\ DOMAIN file \subseteq Names /\ DOMAIN cfg \subseteq Names
           /\ DOMAIN hash \subseteq Names /\ DOMAIN snapshot \subseteq Names
           /\ marks \subseteq Names
Watching == /\ watcher \in [pc : {"idle", "look", "clear", "mark", "save"}, name : Names]
            /\ channel \in Seq(Names)
Counts == /\ unsaid \subseteq Names
          /\ chosen \in BOOLEAN /\ collided \in BOOLEAN
          /\ edits \in Nat /\ faults \in Nat /\ crashes \in Nat
Booting == boot \in {"down", "save", "hydrate", "forget", "subscribe", "up", "failed"}

LEMMA TypeParts ==
    TypeOK <=> Tree(file) /\ Tree(cfg) /\ Domains /\ Booting /\ Watching /\ Counts
BY DEF Storable, TypeOK, Tree, Domains, Booting, Watching, Counts

LEMMA TypePartsNext ==
    TypeOK' <=> Tree(file') /\ Tree(cfg') /\ Domains' /\ Booting' /\ Watching' /\ Counts'
BY DEF Storable, TypeOK, Tree, Domains, Booting, Watching, Counts

\* What the service writes to the file.
LEMMA SaveIs ==
    ASSUME TypeOK, Save
    PROVE  /\ UNCHANGED <<hash, cfg, boot, marks, channel, unsaid, history, edits, crashes>>
           /\ watcher.pc = "save" /\ watcher' = Idle
           /\ \/ Persisted = snapshot /\ UNCHANGED <<file, snapshot, faults>>
              \/ /\ Mirrors(file', Persisted) /\ Tree(file')
                 /\ \/ snapshot' = Persisted /\ UNCHANGED faults
                    \/ faults' = faults + 1 /\ UNCHANGED snapshot
              \/ faults' = faults + 1 /\ UNCHANGED <<file, snapshot>>
<1>1. IsFiniteSet(DOMAIN Persisted)
  <2>1. DOMAIN Persisted \in SUBSET Names
    BY TypeParts, PersistedIs DEF Domains
  <2> QED
    BY <2>1, OwnNames, FS_Subset
<1>2. \A order \in SetToSeqs(DOMAIN Persisted) :
          Mirrors(Parse(Persisted, order), Persisted) /\ Tree(Parse(Persisted, order))
  BY <1>1, ParseAnyOrder DEF Tree
<1> HIDE DEF Mirrors, Tree, Persisted
<1>3. (\E order \in SetToSeqs(DOMAIN Persisted) : file' = Parse(Persisted, order)) =>
          Mirrors(file', Persisted) /\ Tree(file')
  BY <1>2
<1>4. /\ watcher.pc = "save"
      /\ \/ Persisted = snapshot /\ UNCHANGED <<file, snapshot, counters>>
         \/ /\ \E order \in SetToSeqs(DOMAIN Persisted) : file' = Parse(Persisted, order)
            /\ \/ snapshot' = Persisted /\ UNCHANGED counters
               \/ Fault /\ UNCHANGED snapshot
         \/ Fault /\ UNCHANGED <<file, snapshot>>
      /\ watcher' = Idle
      /\ UNCHANGED <<hash, cfg, boot, marks, channel, unsaid, history>>
  BY DEF Save
<1> QED
  BY <1>3, <1>4 DEF Fault, counters

\* At first the file has at most the former setting and a mode.
LEMMA InitFile == Init => Tree(file) /\ DOMAIN file \subseteq {Old, Mode}
<1> SUFFICES ASSUME Init PROVE Tree(file) /\ DOMAIN file \subseteq {Old, Mode}
  OBVIOUS
<1>1. PICK old \in InitOld, mode \in InitMode :
          file = PutEntry(PutEntry(Empty, Old, old), Mode, mode)
  BY DEF Init
<1> DEFINE first == PutEntry(Empty, Old, old)
<1>2. Storable(Old) /\ Storable(Mode)
  BY MigrationNames
<1>3. Tree(first) /\ DOMAIN first \subseteq {Old}
  <2>1. DOMAIN SetNested(Empty, Old, old) = {l \in DOMAIN Empty : ~Collide(l, Old)} \union {Old}
    BY SetNestedIs
  <2>2. Tree(SetNested(Empty, Old, old))
    BY <1>2, EmptyIs, SetNestedIs
  <2> QED
    BY <2>1, <2>2, EmptyIs DEF PutEntry
<1> HIDE DEF first
<1>4. /\ DOMAIN SetNested(first, Mode, mode) =
             {l \in DOMAIN first : ~Collide(l, Mode)} \union {Mode}
      /\ Tree(SetNested(first, Mode, mode))
  <2>1. DOMAIN SetNested(first, Mode, mode) =
            {l \in DOMAIN first : ~Collide(l, Mode)} \union {Mode}
    BY SetNestedIs
  <2>2. Tree(SetNested(first, Mode, mode))
    BY <1>2, <1>3, SetNestedIs
  <2> QED
    BY <2>1, <2>2
<1>5. file = PutEntry(first, Mode, mode)
  BY <1>1 DEF first
<1> QED
  BY <1>3, <1>4, <1>5 DEF PutEntry

LEMMA FileInit == Init => FileInv
<1> SUFFICES ASSUME Init PROVE FileInv
  OBVIOUS
<1>1. Tree(file) /\ DOMAIN file \subseteq Names
  BY InitFile, OwnNames
<1>2. cfg = Empty /\ hash = Empty /\ snapshot = Empty /\ Tree(cfg)
  BY EmptyIs DEF Init
<1>3. Domains
  BY <1>1, <1>2, EmptyIs DEF Init, Domains
<1>4. Watching
  BY OwnNames DEF Init, Watching, Idle
<1>5. Counts /\ Booting
  BY DEF Init, Counts, Booting
<1>6. BootInv
  BY DEF Init, BootInv, Loaded, Idle
<1> QED
  BY <1>1, <1>2, <1>3, <1>4, <1>5, <1>6, TypeParts DEF FileInv

LEMMA FileStep == FileInv /\ [Next]_vars => FileInv'
<1> SUFFICES ASSUME FileInv, [Next]_vars PROVE FileInv'
  OBVIOUS
<1> USE DEF FileInv
<1>0. Tree(file) /\ Tree(cfg) /\ Domains /\ Booting /\ Watching /\ Counts /\ BootInv
  BY TypeParts
<1>i. Idle \in [pc : {"idle", "look", "clear", "mark", "save"}, name : Names] /\ Idle.pc = "idle"
  BY OwnNames DEF Idle
<1>s. ASSUME NEW p \in {"mark", "save", "clear"}, Step(p)
      PROVE  watcher' \in [pc : {"idle", "look", "clear", "mark", "save"}, name : Names]
  <2>1. watcher' = [watcher EXCEPT !.pc = p]
    BY <1>s DEF Step
  <2>2. watcher \in [pc : {"idle", "look", "clear", "mark", "save"}, name : Names]
    BY <1>0 DEF Watching
  <2> QED
    BY <2>1, <2>2
<1>w. watcher.pc # "idle" => boot = "up"
  BY <1>0 DEF BootInv
<1>q. SUFFICES Tree(file') /\ Tree(cfg') /\ Domains' /\ Booting' /\ Watching' /\ Counts' /\ BootInv'
  BY TypePartsNext
<1>1. CASE Open
  <2>1. UNCHANGED <<file, hash, marks, snapshot, watcher, channel, unsaid, chosen, collided,
                    edits, faults, crashes>>
    BY <1>1 DEF Open, stores, memory, history, counters
  <2>2. \/ cfg' = file /\ boot' \in {"hydrate", "failed"}
        \/ cfg' = Migrated(file) /\ boot' = "save"
    BY <1>1 DEF Open
  <2>3. /\ Tree(Migrated(file)) /\ DOMAIN Migrated(file) \subseteq Names
        /\ ~Has(Migrated(file), Old)
    BY <1>0, MigratedIs, OwnNames DEF Domains
  <2>4. Tree(cfg') /\ DOMAIN cfg' \subseteq Names
    BY <1>0, <2>2, <2>3 DEF Domains
  <2>5. Domains' /\ Booting' /\ Watching' /\ Counts'
    BY <1>0, <2>1, <2>2, <2>4 DEF Domains, Booting, Watching, Counts
  <2>6. \A m : ~Has(m, Old) => Old \notin DOMAIN m
    BY MigrationNames DEF Has
  <2>7. boot' = "hydrate" => ~Has(file, Old)
    BY <1>1 DEF Open
  <2>8. BootInv'
    BY <1>0, <1>1, <2>1, <2>2, <2>3, <2>6, <2>7 DEF BootInv, Open
  <2> QED
    BY <1>0, <2>1, <2>4, <2>5, <2>8
<1>2. CASE SaveMigrated
  <2>1. UNCHANGED <<cfg, hash, marks, snapshot, watcher, channel, unsaid, chosen, collided,
                    edits, crashes>>
    BY <1>2 DEF SaveMigrated, memory, history, counters, Fault
  <2>2. /\ boot = "save"
        /\ \/ file' = cfg /\ boot' = "hydrate" /\ faults' = faults
           \/ file' \in {file, cfg} /\ boot' = "down" /\ faults' = faults + 1
    BY <1>2 DEF SaveMigrated, counters, Fault
  <2>3. Domains' /\ Booting' /\ Watching' /\ Counts'
    BY <1>0, <2>1, <2>2 DEF Domains, Booting, Watching, Counts
  <2> QED
    BY <1>0, <2>1, <2>2, <2>3 DEF BootInv
<1>3. CASE Hydrate
  <2>1. UNCHANGED <<file, cfg, watcher, channel, unsaid, chosen, collided, edits, faults, crashes>>
    BY <1>3 DEF Hydrate, history, counters
  <2>2. /\ boot = "hydrate" /\ boot' = "forget"
        /\ hash' = Overlay(hash, Overlay(Defaults, Fields(cfg)))
        /\ marks' = DOMAIN Fields(cfg) /\ snapshot' = Fields(cfg)
    BY <1>3 DEF Hydrate
  <2>3. DOMAIN Fields(cfg) = DOMAIN cfg
    BY <1>0, FieldsIs
  <2>4. DOMAIN hash' = DOMAIN hash \union {Mode, Eggs} \union DOMAIN cfg
    BY <1>0, <2>2, HydratedIs
  <2>5. Domains' /\ Booting' /\ Watching' /\ Counts'
    BY <1>0, <2>1, <2>2, <2>3, <2>4, OwnNames DEF Domains, Booting, Watching, Counts
  <2> QED
    BY <1>0, <2>1, <2>2, <2>3, <2>5 DEF BootInv
<1>4. CASE Forget
  <2>1. UNCHANGED <<file, cfg, marks, snapshot, watcher, channel, unsaid, chosen, collided,
                    edits, crashes>>
    BY <1>4 DEF Forget, memory, history, counters, Fault
  <2>2. /\ boot = "forget" /\ boot' \in {"subscribe", "down"}
        /\ hash' = Without(hash, Old) \/ hash' = hash
        /\ faults' = faults \/ faults' = faults + 1
    BY <1>4 DEF Forget, counters, Fault
  <2>3. DOMAIN hash' \subseteq DOMAIN hash
    <3>1. DOMAIN Without(hash, Old) = DOMAIN hash \ {Old}
      BY WithoutIs
    <3> QED
      BY <2>2, <3>1
  <2>4. Domains' /\ Booting' /\ Watching' /\ Counts'
    BY <1>0, <2>1, <2>2, <2>3 DEF Domains, Booting, Watching, Counts
  <2> QED
    BY <1>0, <2>1, <2>2, <2>4 DEF BootInv
<1>5. CASE Subscribe
  <2>1. UNCHANGED <<file, hash, marks, snapshot, watcher, channel, unsaid, chosen, collided,
                    edits, faults, crashes>> /\ boot' = "up" /\ cfg' = Empty
    BY <1>5 DEF Subscribe, stores, memory, history, counters
  <2>2. Domains' /\ Booting' /\ Watching' /\ Counts'
    BY <1>0, <2>1, EmptyIs DEF Domains, Booting, Watching, Counts
  <2> QED
    BY <1>0, <2>1, <2>2, EmptyIs DEF BootInv
<1>6. CASE Receive
  <2>1. UNCHANGED <<file, hash, cfg, boot, marks, snapshot, unsaid, chosen, collided,
                    edits, faults, crashes>>
    BY <1>6 DEF Receive, stores, memory, history, counters
  <2>2. /\ boot = "up" /\ channel # <<>> /\ channel' = Tail(channel)
        /\ watcher' = [pc |-> IF Head(channel) = Mode THEN "look" ELSE "mark",
                       name |-> Head(channel)]
    BY <1>6 DEF Receive
  <2>3. Head(channel) \in Names /\ Tail(channel) \in Seq(Names)
    BY <1>0, <2>2 DEF Watching
  <2>4. Watching'
    BY <2>2, <2>3 DEF Watching
  <2>5. Domains' /\ Booting' /\ Counts'
    BY <1>0, <2>1 DEF Domains, Booting, Counts
  <2> QED
    BY <1>0, <2>1, <2>2, <2>4, <2>5 DEF BootInv
<1>7. CASE Look
  <2>1. UNCHANGED <<file, hash, cfg, boot, marks, snapshot, channel, unsaid, chosen, collided,
                    edits, crashes>>
    BY <1>7 DEF Look, stores, memory, history, counters, Fault
  <2>2. /\ watcher.pc = "look"
        /\ \E pc \in {"clear", "mark"} : Step(pc)
        /\ faults' = faults \/ faults' = faults + 1
    BY <1>7 DEF Look, counters, Fault
  <2>3. Watching'
    BY <1>0, <1>s, <2>1, <2>2 DEF Watching
  <2>4. Domains' /\ Booting' /\ Counts'
    BY <1>0, <2>1, <2>2 DEF Domains, Booting, Counts
  <2> QED
    BY <1>0, <1>w, <2>1, <2>2, <2>3, <2>4 DEF BootInv
<1>8. CASE Clear
  <2>1. UNCHANGED <<file, cfg, boot, snapshot, unsaid, chosen, collided, edits, crashes>>
    BY <1>8 DEF Clear, history, counters, Fault
  <2>2. /\ watcher.pc = "clear" /\ Step("mark")
        /\ hash' = Put(hash, Eggs, "false") \/ hash' = hash
        /\ channel' = Append(channel, Eggs) \/ channel' = channel
        /\ marks' = marks \union {Eggs} \/ marks' = marks
        /\ faults' = faults \/ faults' = faults + 1
    BY <1>8 DEF Clear, counters, Fault
  <2>3. Watching'
    BY <1>0, <1>s, <2>2, OwnNames DEF Watching
  <2>4. DOMAIN hash' \subseteq Names
    <3>1. DOMAIN Put(hash, Eggs, "false") = DOMAIN hash \union {Eggs}
      BY PutIs
    <3> QED
      BY <1>0, <2>2, <3>1, OwnNames DEF Domains
  <2>5. Domains' /\ Booting' /\ Counts'
    BY <1>0, <2>1, <2>2, <2>4, OwnNames DEF Domains, Booting, Counts
  <2> QED
    BY <1>0, <1>w, <2>1, <2>2, <2>3, <2>5 DEF BootInv
<1>9. CASE Mark
  <2>1. UNCHANGED <<file, hash, cfg, boot, snapshot, channel, unsaid, chosen, collided,
                    edits, faults, crashes>>
    BY <1>9 DEF Mark, stores, history, counters
  <2>2. watcher.pc = "mark" /\ Step("save") /\ marks' = marks \union {watcher.name}
    BY <1>9 DEF Mark
  <2>3. Watching'
    BY <1>0, <1>s, <2>1, <2>2 DEF Watching
  <2>4. Domains' /\ Booting' /\ Counts'
    BY <1>0, <2>1, <2>2 DEF Domains, Booting, Counts, Watching
  <2> QED
    BY <1>0, <1>w, <2>1, <2>2, <2>3, <2>4 DEF BootInv
<1>10. CASE Save
  <2>1. /\ UNCHANGED <<hash, cfg, boot, marks, channel, unsaid, history, edits, crashes>>
        /\ watcher.pc = "save" /\ watcher' = Idle
        /\ \/ Persisted = snapshot /\ UNCHANGED <<file, snapshot, faults>>
           \/ /\ Mirrors(file', Persisted) /\ Tree(file')
              /\ \/ snapshot' = Persisted /\ UNCHANGED faults
                 \/ faults' = faults + 1 /\ UNCHANGED snapshot
           \/ faults' = faults + 1 /\ UNCHANGED <<file, snapshot>>
    BY <1>10, SaveIs
  <2>2. DOMAIN Persisted \subseteq Names
    BY <1>0, PersistedIs DEF Domains
  <2>3. DOMAIN file' \subseteq Names /\ DOMAIN snapshot' \subseteq Names /\ Tree(file')
    BY <1>0, <2>1, <2>2 DEF Domains, Mirrors
  <2>4. faults' \in Nat
    BY <1>0, <2>1 DEF Counts
  <2>5. Domains' /\ Booting' /\ Watching' /\ Counts'
    BY <1>0, <1>i, <2>1, <2>3, <2>4 DEF Domains, Booting, Watching, Counts, history
  <2> QED
    BY <1>0, <1>w, <2>1, <2>3, <2>5 DEF BootInv
<1>11. CASE Edit \/ Import
  <2>1. PICK n \in Names, v \in {Choice, "true", "false"} : Writes(n, v)
    BY <1>11, OwnNames DEF Edit, Import
  <2>2. /\ UNCHANGED <<file, cfg, boot, marks, snapshot, watcher, channel, faults, crashes>>
        /\ boot = "up"
    BY <1>11, <2>1 DEF Edit, Import, Writes, memory, counters
  <2>3. hash' = Put(hash, n, v) /\ unsaid' = unsaid \union {n}
    BY <2>1 DEF Writes
  <2>4. DOMAIN hash' \subseteq Names
    <3>1. DOMAIN Put(hash, n, v) = DOMAIN hash \union {n}
      BY PutIs
    <3> QED
      BY <1>0, <2>3, <3>1 DEF Domains
  <2>5. edits' \in Nat /\ chosen' \in BOOLEAN /\ collided' \in BOOLEAN
    <3>1. CASE Edit
      <4>1. PICK m \in Names \ {Eggs} :
                /\ chosen' = (chosen \/ m = Mode)
                /\ collided' = (collided \/ \E o \in {Mode, Eggs} : Collide(m, o))
        BY <3>1 DEF Edit
      <4>2. edits' = edits + 1
        BY <3>1 DEF Edit
      <4>3. chosen' \in BOOLEAN /\ collided' \in BOOLEAN
        BY <4>1, Zenon
      <4> QED
        BY <1>0, <4>2, <4>3 DEF Counts
    <3>2. CASE Import
      BY <1>0, <3>2 DEF Import, history, counters, Counts
    <3> QED
      BY <1>11, <3>1, <3>2
  <2>6. Domains' /\ Booting' /\ Watching' /\ Counts'
    BY <1>0, <2>2, <2>3, <2>4, <2>5 DEF Domains, Booting, Watching, Counts
  <2> QED
    BY <1>0, <2>2, <2>6 DEF BootInv
<1>12. CASE Say
  <2>1. PICK n \in unsaid :
            /\ unsaid' = unsaid \ {n}
            /\ channel' = IF boot = "up" THEN Append(channel, n) ELSE channel
    BY <1>12 DEF Say
  <2>2. UNCHANGED <<file, hash, cfg, boot, marks, snapshot, watcher, chosen, collided, edits,
                    faults, crashes>>
    BY <1>12 DEF Say, stores, memory, history, counters
  <2>3. Domains' /\ Booting' /\ Watching' /\ Counts'
    BY <1>0, <2>1, <2>2 DEF Domains, Booting, Watching, Counts
  <2> QED
    BY <1>0, <2>1, <2>2, <2>3 DEF BootInv
<1>13. CASE Crash \/ Reboot
  <2>1. /\ UNCHANGED <<file, chosen, collided, edits, faults>> /\ crashes' = crashes + 1
        /\ boot' = "down" /\ cfg' = Empty /\ marks' = {} /\ snapshot' = Empty
        /\ watcher' = Idle /\ channel' = <<>>
    BY <1>13 DEF Crash, Reboot, Down, history
  <2>2. (hash' = hash \/ hash' = Empty) /\ (unsaid' = unsaid \/ unsaid' = {})
    BY <1>13 DEF Crash, Reboot
  <2>3. Domains' /\ Booting' /\ Watching' /\ Counts'
    BY <1>0, <1>i, <2>1, <2>2, EmptyIs DEF Domains, Booting, Watching, Counts
  <2> QED
    BY <1>0, <1>i, <2>1, <2>3, EmptyIs DEF BootInv
<1>14. CASE UNCHANGED vars
  BY <1>0, <1>14 DEF vars, stores, memory, history, counters, Domains, Booting, Watching, Counts,
                     BootInv
<1> QED
  BY <1>1, <1>2, <1>3, <1>4, <1>5, <1>6, <1>7, <1>8, <1>9, <1>10, <1>11, <1>12, <1>13, <1>14
  DEF Next, Service, Wait

\* All that the service writes at the top of the file is a table, no leaf of it lies on
\* the way to another, and every variable has its type.
THEOREM SettingsFileTypes == Spec => []TypeOK
<1>1. FileInv => TypeOK
  BY DEF FileInv
<1> QED
  BY <1>1, FileInit, FileStep, PTL DEF Spec

--------------------------------------------------------------------------------
(* The file reads back.                                                          *)

LEMMA RangeAppend ==
    ASSUME NEW c \in Seq(Names), NEW n \in Names
    PROVE  Range(Append(c, n)) = Range(c) \union {n}
<1>1. DOMAIN Append(c, n) = DOMAIN c \union {Len(c) + 1}
  OBVIOUS
<1>2. \A i \in DOMAIN c : Append(c, n)[i] = c[i]
  OBVIOUS
<1>3. Append(c, n)[Len(c) + 1] = n /\ Len(c) + 1 \notin DOMAIN c
  OBVIOUS
<1> QED
  BY <1>1, <1>2, <1>3 DEF Range

LEMMA RangeTail ==
    ASSUME NEW c \in Seq(Names), c # <<>>
    PROVE  Range(c) \subseteq Range(Tail(c)) \union {Head(c)}
<1> SUFFICES ASSUME NEW i \in DOMAIN c PROVE c[i] \in Range(Tail(c)) \union {Head(c)}
  BY DEF Range
<1>1. CASE i = 1
  BY <1>1
<1>2. CASE i # 1
  <2>1. i - 1 \in DOMAIN Tail(c) /\ Tail(c)[i - 1] = c[i]
    BY <1>2
  <2> QED
    BY <2>1 DEF Range
<1> QED
  BY <1>1, <1>2

LEMMA RangeEmpty == Range(<<>>) = {}
BY DEF Range

\* What Writes does to the hash.
LEMMA WritesIs ==
    ASSUME NEW n \in Names, NEW v, Writes(n, v)
    PROVE  /\ DOMAIN hash' = DOMAIN hash \union {n} /\ hash'[n] = v
           /\ \A o \in DOMAIN hash : o # n => hash'[o] = hash[o]
           /\ unsaid' = unsaid \union {n}
           /\ UNCHANGED <<file, cfg, boot, marks, snapshot, watcher, channel>>
<1>1. hash' = Put(hash, n, v)
  BY DEF Writes
<1>2. /\ DOMAIN Put(hash, n, v) = DOMAIN hash \union {n}
      /\ Put(hash, n, v)[n] = v
      /\ \A o \in DOMAIN hash : o # n => Put(hash, n, v)[o] = hash[o]
  BY DEF Put
<1> QED
  BY <1>1, <1>2 DEF Writes, memory

LEMMA MirrorInit == Init => MirrorInv
BY DEF Init, MirrorInv, Loaded

LEMMA MirrorStep == FileInv /\ MirrorInv /\ [Next]_vars => MirrorInv'
<1> SUFFICES ASSUME FileInv, MirrorInv, [Next]_vars, faults' = 0
             PROVE  /\ Loaded' => Mirrors(file', snapshot')
                    /\ boot' \in {"forget", "subscribe"} => \A n \in Names : Saved(n)'
                    /\ boot' = "up" /\ watcher'.pc = "idle" =>
                           \A n \in Names : Saved(n)' \/ n \in unsaid' \/ n \in Heard'
  BY DEF MirrorInv
<1>0. Tree(file) /\ Tree(cfg) /\ Domains /\ Watching /\ Counts /\ BootInv
  BY TypeParts DEF FileInv
<1>t. TypeOK
  BY DEF FileInv
<1>m. faults = 0 =>
          /\ Loaded => Mirrors(file, snapshot)
          /\ boot \in {"forget", "subscribe"} => \A n \in Names : Saved(n)
          /\ boot = "up" /\ watcher.pc = "idle" =>
                 \A n \in Names : Saved(n) \/ n \in unsaid \/ n \in Heard
  BY DEF MirrorInv
<1>f. faults + 1 # 0
  BY <1>0 DEF Counts
<1>1. CASE Open \/ SaveMigrated \/ Crash \/ Reboot
  <2>1. boot' \in {"down", "hydrate", "save", "failed"}
    BY <1>1 DEF Open, SaveMigrated, Crash, Reboot, Down
  <2> QED
    BY <2>1 DEF Loaded
<1>2. CASE Hydrate
  <2>1. /\ boot = "hydrate" /\ boot' = "forget" /\ file' = file /\ cfg = file
        /\ hash' = Overlay(hash, Overlay(Defaults, Fields(cfg)))
        /\ marks' = DOMAIN Fields(cfg) /\ snapshot' = Fields(cfg)
    BY <1>0, <1>2 DEF Hydrate, BootInv
  <2>2. DOMAIN Fields(cfg) = DOMAIN cfg /\ \A n \in DOMAIN cfg : Fields(cfg)[n] = cfg[n]
    BY <1>0, FieldsIs
  <2>3. /\ DOMAIN hash' = DOMAIN hash \union {Mode, Eggs} \union DOMAIN cfg
        /\ \A n \in DOMAIN cfg : hash'[n] = cfg[n]
    BY <1>0, <2>1, HydratedIs
  <2>4. Mirrors(file', snapshot')
    BY <2>1, <2>2 DEF Mirrors
  <2>5. \A n \in Names : Saved(n)'
    BY <2>1, <2>2, <2>3 DEF Saved
  <2> QED
    BY <2>1, <2>4, <2>5
<1>3. CASE Forget
  <2>1. /\ boot = "forget" /\ hash' = Without(hash, Old) /\ boot' = "subscribe"
        /\ faults' = faults
    BY <1>3, <1>f DEF Forget, Fault, counters
  <2>2. UNCHANGED <<file, marks, snapshot>> /\ Old \notin marks
    BY <1>0, <1>3, <2>1 DEF Forget, memory, BootInv
  <2>3. /\ DOMAIN Without(hash, Old) = DOMAIN hash \ {Old}
        /\ \A o \in DOMAIN Without(hash, Old) : Without(hash, Old)[o] = hash[o]
    BY WithoutIs
  <2>4. Mirrors(file', snapshot') /\ \A n \in Names : Saved(n)
    BY <1>m, <2>1, <2>2 DEF Loaded
  <2>5. \A n \in Names : Saved(n)'
    BY <2>1, <2>2, <2>3, <2>4 DEF Saved
  <2> QED
    BY <2>1, <2>4, <2>5
<1>4. CASE Subscribe
  <2>1. boot = "subscribe" /\ boot' = "up" /\ UNCHANGED <<file, hash, marks, snapshot, faults>>
    BY <1>4 DEF Subscribe, stores, memory, counters
  <2> QED
    BY <1>m, <2>1 DEF Loaded, Saved
<1>5. CASE Receive \/ Look \/ Clear \/ Mark
  <2>1. UNCHANGED <<file, boot, snapshot, faults>>
    BY <1>5, <1>f DEF Receive, Look, Clear, Mark, stores, memory, counters, Fault
  <2>2. watcher'.pc # "idle" /\ boot = "up"
    <3>1. CASE Receive
      BY <3>1 DEF Receive
    <3>2. CASE Look \/ Clear \/ Mark
      <4>1. watcher.pc \in {"look", "clear", "mark"}
        BY <3>2 DEF Look, Clear, Mark
      <4>2. \E p \in {"mark", "save", "clear"} : watcher' = [watcher EXCEPT !.pc = p]
        BY <3>2 DEF Look, Clear, Mark, Step
      <4>3. \A p : [watcher EXCEPT !.pc = p].pc = p
        BY <1>0 DEF Watching
      <4> QED
        BY <1>0, <4>1, <4>2, <4>3 DEF BootInv
    <3> QED
      BY <1>5, <3>1, <3>2
  <2> QED
    BY <1>m, <2>1, <2>2 DEF Loaded
<1>6. CASE Save
  <2>1. /\ UNCHANGED <<hash, boot, marks>> /\ watcher.pc = "save"
        /\ \/ Persisted = snapshot /\ UNCHANGED <<file, snapshot, faults>>
           \/ Mirrors(file', Persisted) /\ snapshot' = Persisted /\ UNCHANGED faults
    BY <1>6, <1>f, <1>t, SaveIs
  <2>2. snapshot' = Persisted /\ faults = 0
    BY <2>1
  <2>3. boot = "up"
    BY <1>0, <2>1 DEF BootInv
  <2>4. Mirrors(file', snapshot')
    BY <1>m, <2>1, <2>2, <2>3 DEF Loaded
  <2>5. \A n \in Names : Saved(n)'
    BY <2>1, <2>2, PersistedIs DEF Saved
  <2> QED
    BY <2>1, <2>3, <2>4, <2>5
<1>7. CASE Edit \/ Import
  <2>1. PICK n \in Names, v \in {Choice, "true", "false"} : Writes(n, v)
    BY <1>7, OwnNames DEF Edit, Import
  <2>2. boot = "up" /\ faults' = faults
    BY <1>7 DEF Edit, Import, counters
  <2>3. /\ DOMAIN hash' = DOMAIN hash \union {n}
        /\ \A o \in DOMAIN hash : o # n => hash'[o] = hash[o]
        /\ unsaid' = unsaid \union {n}
        /\ UNCHANGED <<file, boot, marks, snapshot, watcher, channel>>
    BY <2>1, WritesIs
  <2>4. \A o \in Names : Saved(o) /\ o # n => Saved(o)'
    BY <2>3 DEF Saved
  <2>5. Heard' = Heard
    BY <2>3 DEF Heard
  <2> QED
    BY <1>m, <2>2, <2>3, <2>4, <2>5 DEF Loaded
<1>8. CASE Say
  <2>1. PICK n \in unsaid :
            /\ unsaid' = unsaid \ {n}
            /\ channel' = IF boot = "up" THEN Append(channel, n) ELSE channel
    BY <1>8 DEF Say
  <2>2. UNCHANGED <<file, hash, boot, marks, snapshot, watcher, faults>>
    BY <1>8 DEF Say, stores, memory, counters
  <2>3. boot = "up" => Heard' = Heard \union {n}
    BY <1>0, <2>1, RangeAppend DEF Heard, Watching, Counts
  <2>4. \A o \in Names : Saved(o) => Saved(o)'
    BY <2>2 DEF Saved
  <2> QED
    BY <1>m, <2>1, <2>2, <2>3, <2>4 DEF Loaded
<1>9. CASE UNCHANGED vars
  BY <1>m, <1>9 DEF vars, stores, memory, counters, Loaded, Saved, Heard
<1> QED
  BY <1>1, <1>2, <1>3, <1>4, <1>5, <1>6, <1>7, <1>8, <1>9 DEF Next, Service, Wait

LEMMA MirrorsAtRest == FileInv /\ MirrorInv => FileReadsBack
<1> SUFFICES ASSUME FileInv, MirrorInv, Quiescent, faults = 0
             PROVE  /\ \A n \in DOMAIN Persisted :
                          Storable(n) /\ (\A m \in DOMAIN Persisted : Storable(m) => ~Collide(n, m))
                              => Get(Fields(file), n) = Persisted[n]
                    /\ \A n \in DOMAIN Fields(file) : Get(Persisted, n) = Fields(file)[n]
  BY DEF FileReadsBack
<1>1. Tree(file) /\ Domains
  BY TypeParts DEF FileInv
<1>2. boot = "up" /\ watcher.pc = "idle" /\ channel = <<>> /\ unsaid = {}
  BY DEF Quiescent
<1>3. Heard = {}
  BY <1>2, RangeEmpty DEF Heard
<1>4. Mirrors(file, snapshot) /\ \A n \in Names : Saved(n)
  BY <1>2, <1>3 DEF MirrorInv, Loaded
<1>5. /\ DOMAIN Persisted = marks \intersect DOMAIN hash
      /\ \A n \in DOMAIN Persisted : Persisted[n] = hash[n]
  BY PersistedIs
<1> HIDE DEF Persisted
<1>6. DOMAIN Persisted = DOMAIN snapshot
  BY <1>1, <1>4, <1>5 DEF Saved, Domains
<1>7. \A n \in DOMAIN Persisted : Persisted[n] = snapshot[n]
  BY <1>1, <1>4, <1>5, <1>6 DEF Saved, Domains
<1>8. /\ DOMAIN Fields(file) = DOMAIN file
      /\ \A n \in DOMAIN file : Fields(file)[n] = file[n]
  BY <1>1, FieldsIs
<1> QED
  BY <1>4, <1>6, <1>7, <1>8 DEF Mirrors, Get

\* What is written is what will be read, in whatever order the names were inserted, and
\* whether the service died, the scooter rebooted or the migration ran before.
THEOREM FileIsReadBack == Spec => []FileReadsBack
<1>1. Init => FileInv /\ MirrorInv
  BY FileInit, MirrorInit
<1>2. FileInv /\ MirrorInv /\ [Next]_vars => (FileInv /\ MirrorInv)'
  BY FileStep, MirrorStep
<1> QED
  BY <1>1, <1>2, MirrorsAtRest, PTL DEF Spec

--------------------------------------------------------------------------------
(* A chosen mode settles the migration.                                          *)

LEMMA ChosenInit == Init => ChosenInv
BY DEF Init, ChosenInv

LEMMA ChosenStep == FileInv /\ ChosenInv /\ [Next]_vars => ChosenInv'
<1> DEFINE Coming == Mode \in unsaid \/ Mode \in Heard \/ watcher.pc \in {"look", "clear"}
<1> SUFFICES ASSUME FileInv, ChosenInv, [Next]_vars, chosen', faults' = 0, crashes' = 0
             PROVE  boot' = "up" /\ (Get(hash', Eggs) = "true" => Coming')
  BY DEF ChosenInv
<1>0. Watching /\ Counts /\ BootInv
  BY TypeParts DEF FileInv
<1>c. chosen /\ faults = 0 /\ crashes = 0 =>
          boot = "up" /\ (Get(hash, Eggs) = "true" => Coming)
  BY DEF ChosenInv
<1>f. faults + 1 # 0 /\ crashes + 1 # 0
  BY <1>0 DEF Counts
<1>p. \A p : [watcher EXCEPT !.pc = p].pc = p
  BY <1>0 DEF Watching
<1>v. "false" # "true" /\ Absent # "true"
  BY ChoiceAssumption
<1>1. CASE Open \/ SaveMigrated \/ Hydrate \/ Forget \/ Subscribe
  <2>1. boot # "up" /\ UNCHANGED <<chosen, crashes>>
    BY <1>1 DEF Open, SaveMigrated, Hydrate, Forget, Subscribe, history, counters, Fault
  <2>2. faults' = faults
    BY <1>1, <1>f DEF Open, SaveMigrated, Hydrate, Forget, Subscribe, counters, Fault
  <2> QED
    BY <1>c, <2>1, <2>2
<1>2. CASE Receive
  <2>1. UNCHANGED <<hash, boot, unsaid, chosen, faults, crashes>> /\ watcher.pc = "idle"
    BY <1>2 DEF Receive, stores, history, counters
  <2>2. /\ channel # <<>> /\ channel' = Tail(channel)
        /\ watcher'.pc = IF Head(channel) = Mode THEN "look" ELSE "mark"
    BY <1>2 DEF Receive
  <2>3. Heard \subseteq Heard' \union {Head(channel)}
    BY <1>0, <2>2, RangeTail DEF Watching, Heard
  <2> QED
    BY <1>c, <2>1, <2>2, <2>3
<1>3. CASE Look
  <2>1. UNCHANGED <<hash, boot, unsaid, channel, chosen, crashes>>
    BY <1>3 DEF Look, stores, history, counters, Fault
  <2>2. /\ Step(IF Get(hash, Eggs) = "true" THEN "clear" ELSE "mark")
        /\ faults' = faults
    BY <1>3, <1>f DEF Look, Fault, counters
  <2>3. Get(hash, Eggs) = "true" => watcher'.pc = "clear"
    BY <1>p, <2>2 DEF Step
  <2> QED
    BY <1>c, <2>1, <2>2, <2>3
<1>4. CASE Clear
  <2>1. /\ hash' = Put(hash, Eggs, "false")
        /\ UNCHANGED <<boot, chosen, faults, crashes>>
    BY <1>4, <1>f DEF Clear, Fault, counters, history
  <2>2. Get(hash', Eggs) = "false"
    BY <2>1 DEF Get, Put
  <2> QED
    BY <1>c, <1>v, <2>1, <2>2
<1>5. CASE Mark \/ Save
  <2>1. UNCHANGED <<hash, boot, unsaid, channel, chosen, crashes>>
    BY <1>5 DEF Mark, Save, stores, history, counters, Fault
  <2>2. watcher.pc \in {"mark", "save"} /\ faults' = faults
    BY <1>5, <1>f DEF Mark, Save, counters, Fault
  <2>3. Heard' = Heard
    BY <2>1 DEF Heard
  <2> QED
    BY <1>c, <2>1, <2>2, <2>3
<1>6. CASE Edit
  <2>1. PICK n \in Names \ {Eggs} :
            /\ Writes(n, IF n = Mode THEN Choice ELSE "true")
            /\ chosen' = (chosen \/ n = Mode)
    BY <1>6 DEF Edit
  <2>2. boot = "up" /\ UNCHANGED <<faults, crashes>>
    BY <1>6 DEF Edit
  <2>3. /\ DOMAIN hash' = DOMAIN hash \union {n}
        /\ \A o \in DOMAIN hash : o # n => hash'[o] = hash[o]
        /\ unsaid' = unsaid \union {n}
        /\ UNCHANGED <<boot, watcher, channel>>
    BY <2>1, WritesIs
  <2>4. Get(hash', Eggs) = Get(hash, Eggs) /\ Heard' = Heard
    BY <2>3 DEF Get, Heard
  <2>5. CASE n = Mode
    BY <2>2, <2>3, <2>5
  <2>6. CASE n # Mode
    BY <1>c, <2>1, <2>2, <2>3, <2>4, <2>6
  <2> QED
    BY <2>5, <2>6
<1>7. CASE Import
  <2>1. Writes(Eggs, "false") /\ UNCHANGED <<chosen, faults, crashes>> /\ boot = "up"
    BY <1>7 DEF Import, history, counters
  <2>2. DOMAIN hash' = DOMAIN hash \union {Eggs} /\ hash'[Eggs] = "false" /\ boot' = boot
    BY <2>1, OwnNames, WritesIs
  <2> QED
    BY <1>v, <2>1, <2>2 DEF Get
<1>8. CASE Say
  <2>1. PICK n \in unsaid :
            /\ unsaid' = unsaid \ {n}
            /\ channel' = IF boot = "up" THEN Append(channel, n) ELSE channel
    BY <1>8 DEF Say
  <2>2. UNCHANGED <<hash, boot, watcher, chosen, faults, crashes>>
    BY <1>8 DEF Say, stores, history, counters
  <2>3. boot = "up" => Heard' = Heard \union {n}
    BY <1>0, <2>1, RangeAppend DEF Heard, Watching, Counts
  <2> QED
    BY <1>c, <2>1, <2>2, <2>3
<1>9. CASE Crash \/ Reboot
  <2>1. crashes' = crashes + 1
    BY <1>9 DEF Crash, Reboot, Down
  <2> QED
    BY <1>f, <2>1
<1>10. CASE UNCHANGED vars
  BY <1>c, <1>10 DEF vars, stores, history, counters, Heard
<1> QED
  BY <1>1, <1>2, <1>3, <1>4, <1>5, <1>6, <1>7, <1>8, <1>9, <1>10 DEF Next, Service, Wait

LEMMA SettledAtRest == FileInv /\ MirrorInv /\ ChosenInv => ChoiceSettles
<1> SUFFICES ASSUME FileInv, MirrorInv, ChosenInv, Quiescent, chosen, faults = 0, crashes = 0
             PROVE  "true" \notin {Get(hash, Eggs), Get(Fields(file), Eggs)}
  BY DEF ChoiceSettles
<1>1. /\ boot = "up" /\ watcher.pc = "idle" /\ unsaid = {} /\ Heard = {}
  BY RangeEmpty DEF Quiescent, Heard
<1>2. Get(hash, Eggs) # "true"
  BY <1>1 DEF ChosenInv
<1>3. \A n \in DOMAIN Fields(file) : Get(Persisted, n) = Fields(file)[n]
  BY MirrorsAtRest DEF FileReadsBack
<1>4. Get(Persisted, Eggs) \in {Get(hash, Eggs), Absent}
  BY PersistedIs DEF Get
<1>5. Absent # "true"
  BY ChoiceAssumption
<1> HIDE DEF Persisted
<1>6. Get(Fields(file), Eggs) # "true"
  BY <1>2, <1>3, <1>4, <1>5 DEF Get
<1> QED
  BY <1>2, <1>6

\* After a user has chosen a mode nothing is left that would let the dashboard decide
\* over the choice, neither in Redis nor on file.
THEOREM ChoiceIsSettled == Spec => []ChoiceSettles
<1>1. Init => ReadInv
  BY FileInit, MirrorInit, ChosenInit DEF ReadInv
<1>2. ReadInv /\ [Next]_vars => ReadInv'
  BY FileStep, MirrorStep, ChosenStep DEF ReadInv
<1>3. ReadInv => ChoiceSettles
  BY SettledAtRest DEF ReadInv
<1> QED
  BY <1>1, <1>2, <1>3, PTL DEF Spec

--------------------------------------------------------------------------------
(* The mode and the marker, while no name is the table of either.                *)

MarkerInv == ApartInv /\ ModeInv /\ EggsInv

LEMMA OwnApart == Apart(Old) /\ Apart(Mode) /\ Apart(Eggs)
BY MigrationNames, CollideIs DEF Apart

\* The migration leaves the mode that is there, and the marker beside it.
LEMMA MigrationKeeps ==
    ASSUME Tree(file), \A n \in DOMAIN file : Apart(n)
    PROVE  /\ Mode \in DOMAIN Migrated(file)
           /\ Mode \in DOMAIN file => \A n \in {Mode, Eggs} : Get(Migrated(file), n) = Get(file, n)
<1>1. Has(file, Mode) => Mode \in DOMAIN file
  BY DEF Has, Apart, Collide, IsStrictPrefix
<1>2. Mode \in DOMAIN file => Has(file, Mode)
  BY MigrationNames DEF Has
<1>3. /\ Has(file, Mode) => \A n \in {Mode, Eggs} :
             /\ n \in DOMAIN Migrated(file) <=> n \in DOMAIN file
             /\ n \in DOMAIN file => Migrated(file)[n] = file[n]
      /\ ~Has(file, Mode) => Mode \in DOMAIN Migrated(file)
  BY MigratedIs
<1> QED
  BY <1>1, <1>2, <1>3 DEF Get

\* A name that meets no other is not lost, and has the value of the hash.
LEMMA SaveKeeps ==
    ASSUME FileInv, ApartInv, Save, NEW n \in {Mode, Eggs}
    PROVE  /\ n \in DOMAIN file' =>
                  \/ n \in DOMAIN file /\ file'[n] = file[n]
                  \/ n \in marks /\ n \in DOMAIN hash /\ file'[n] = hash[n]
           /\ n \in marks /\ n \in DOMAIN hash =>
                  \/ file' = file
                  \/ n \in DOMAIN file' /\ file'[n] = hash[n]
<1>1. TypeOK
  BY DEF FileInv
<1>2. file' = file \/ Mirrors(file', Persisted)
  BY <1>1, SaveIs
<1>3. /\ DOMAIN Persisted = marks \intersect DOMAIN hash
      /\ \A o \in DOMAIN Persisted : Persisted[o] = hash[o]
  BY PersistedIs
<1>4. Storable(n) /\ \A o \in DOMAIN Persisted : ~Collide(n, o)
  <2>1. \A o \in DOMAIN hash : Apart(o)
    BY DEF ApartInv
  <2> QED
    BY <1>3, <2>1, MigrationNames, CollideIs DEF Apart
<1> HIDE DEF Persisted
<1> QED
  BY <1>2, <1>3, <1>4 DEF Mirrors

\* No step takes the mode, a choice or the end of the import from the file.
LEMMA FileKeeps ==
    ASSUME FileInv, MarkerInv, [Next]_vars
    PROVE  /\ Mode \in DOMAIN file => Mode \in DOMAIN file'
           /\ Get(file, Mode) = Choice => Get(file', Mode) = Choice
           /\ Get(file, Eggs) = "false" => Get(file', Eggs) = "false"
<1>0. Tree(file) /\ BootInv
  BY TypeParts DEF FileInv
<1>a. Absent # Choice /\ Absent # "false"
  BY ChoiceAssumption
<1>b. /\ Get(file, Mode) = Choice => Mode \in DOMAIN file /\ file[Mode] = Choice
      /\ Get(file, Eggs) = "false" => Eggs \in DOMAIN file /\ file[Eggs] = "false"
  BY <1>a DEF Get
<1>c. Eggs \in DOMAIN file => Mode \in DOMAIN file
  BY DEF MarkerInv, EggsInv, EggsAbroad
<1>1. CASE SaveMigrated
  <2>1. boot = "save" /\ file' \in {file, cfg}
    BY <1>1 DEF SaveMigrated
  <2>2. cfg = Migrated(file)
    BY <1>0, <2>1 DEF BootInv
  <2>3. \A n \in DOMAIN file : Apart(n)
    BY DEF MarkerInv, ApartInv
  <2>4. /\ Mode \in DOMAIN cfg
        /\ Mode \in DOMAIN file => \A n \in {Mode, Eggs} : Get(cfg, n) = Get(file, n)
    BY <1>0, <2>2, <2>3, MigrationKeeps
  <2> QED
    BY <1>b, <1>c, <2>1, <2>4
<1>2. CASE Save
  <2>1. Loaded
    BY <1>0, <1>2 DEF Save, BootInv, Loaded
  <2>2. /\ Mode \in DOMAIN hash
        /\ Mode \in DOMAIN file => Mode \in marks
        /\ Get(file, Mode) = Choice => hash[Mode] = Choice
        /\ Get(file, Eggs) = "false" => Eggs \in marks /\ Get(hash, Eggs) = "false"
    BY <2>1 DEF MarkerInv, ModeInv, EggsInv
  <2>3. \A n \in {Mode, Eggs} : n \in marks /\ n \in DOMAIN hash =>
            file' = file \/ (n \in DOMAIN file' /\ file'[n] = hash[n])
    BY <1>2, SaveKeeps DEF MarkerInv
  <2>4. Get(hash, Eggs) = "false" => Eggs \in DOMAIN hash /\ hash[Eggs] = "false"
    BY <1>a DEF Get
  <2>5. Mode \in DOMAIN file => file' = file \/ (Mode \in DOMAIN file' /\ file'[Mode] = hash[Mode])
    BY <2>2, <2>3
  <2>6. Get(file, Eggs) = "false" =>
            file' = file \/ (Eggs \in DOMAIN file' /\ file'[Eggs] = "false")
    BY <2>2, <2>3, <2>4
  <2> QED
    BY <1>b, <2>2, <2>5, <2>6 DEF Get
<1>3. CASE ~SaveMigrated /\ ~Save
  <2>1. file' = file
    BY <1>3 DEF Next, Service, Open, Hydrate, Forget, Subscribe, Receive, Look, Clear, Mark,
                Edit, Import, Writes, Say, Crash, Reboot, Down, Wait, vars, stores
  <2> QED
    BY <2>1
<1> QED
  BY <1>1, <1>2, <1>3

LEMMA MarkerInit == Init => MarkerInv
<1> SUFFICES ASSUME Init PROVE MarkerInv
  OBVIOUS
<1>1. /\ DOMAIN file \subseteq {Old, Mode} /\ DOMAIN cfg = {} /\ DOMAIN hash = {}
      /\ marks = {} /\ unsaid = {} /\ channel = <<>> /\ watcher = Idle /\ boot = "down"
  BY InitFile, EmptyIs DEF Init
<1>2. ApartInv
  BY <1>1, OwnApart DEF ApartInv
<1>3. Heard = {}
  BY <1>1, RangeEmpty DEF Heard
<1>4. ~EggsAbroad
  BY <1>1, <1>3, MigrationNames, ChoiceAssumption DEF EggsAbroad, Get, Idle
<1> QED
  BY <1>1, <1>2, <1>4 DEF MarkerInv, ModeInv, EggsInv, Loaded

\* Only a client brings a name that was nowhere before.
LEMMA ApartStep == FileInv /\ ApartInv /\ [Next]_vars /\ ~collided' => ApartInv'
<1> SUFFICES ASSUME FileInv, ApartInv, [Next]_vars, ~collided' PROVE ApartInv'
  OBVIOUS
<1> DEFINE Held == DOMAIN file \union DOMAIN cfg \union DOMAIN hash
<1>0. Tree(file) /\ Tree(cfg) /\ TypeOK /\ \A n \in Held : Apart(n)
  BY TypeParts DEF FileInv, ApartInv
<1>q. SUFFICES ASSUME NEW n \in DOMAIN file' \union DOMAIN cfg' \union DOMAIN hash'
               PROVE  Apart(n)
  BY DEF ApartInv
<1>s. SUFFICES n \in Held \/ Apart(n)
  BY <1>0
<1>1. CASE Open
  <2>1. cfg' \in {file, Migrated(file)} /\ UNCHANGED <<file, hash>>
    BY <1>1 DEF Open, stores
  <2>2. DOMAIN Migrated(file) \subseteq DOMAIN file \union {Mode, Eggs}
    BY <1>0, MigratedIs
  <2> QED
    BY <2>1, <2>2, OwnApart
<1>2. CASE SaveMigrated
  BY <1>2 DEF SaveMigrated
<1>3. CASE Hydrate
  <2>1. /\ hash' = Overlay(hash, Overlay(Defaults, Fields(cfg)))
        /\ UNCHANGED <<file, cfg>>
    BY <1>3 DEF Hydrate
  <2>2. DOMAIN hash' = DOMAIN hash \union {Mode, Eggs} \union DOMAIN cfg
    BY <1>0, <2>1, HydratedIs
  <2> QED
    BY <2>1, <2>2, OwnApart
<1>4. CASE Forget
  <2>1. (hash' = Without(hash, Old) \/ hash' = hash) /\ UNCHANGED <<file, cfg>>
    BY <1>4 DEF Forget
  <2>2. DOMAIN Without(hash, Old) = DOMAIN hash \ {Old}
    BY WithoutIs
  <2> QED
    BY <2>1, <2>2
<1>5. CASE Clear
  <2>1. (hash' = Put(hash, Eggs, "false") \/ hash' = hash) /\ UNCHANGED <<file, cfg>>
    BY <1>5 DEF Clear
  <2>2. DOMAIN Put(hash, Eggs, "false") = DOMAIN hash \union {Eggs}
    BY PutIs
  <2> QED
    BY <2>1, <2>2, OwnApart
<1>6. CASE Save
  <2>1. /\ UNCHANGED <<hash, cfg>>
        /\ file' = file \/ Mirrors(file', Persisted)
    BY <1>0, <1>6, SaveIs
  <2>2. DOMAIN Persisted \subseteq DOMAIN hash
    BY PersistedIs
  <2> HIDE DEF Persisted
  <2> QED
    BY <2>1, <2>2 DEF Mirrors
<1>7. CASE Edit
  <2>1. PICK m \in Names \ {Eggs} :
            /\ Writes(m, IF m = Mode THEN Choice ELSE "true")
            /\ collided' = (collided \/ \E o \in {Mode, Eggs} : Collide(m, o))
    BY <1>7 DEF Edit
  <2>2. DOMAIN hash' = DOMAIN hash \union {m} /\ UNCHANGED <<file, cfg>>
    BY <2>1, WritesIs
  <2>3. Apart(m)
    BY <2>1 DEF Apart
  <2> QED
    BY <2>2, <2>3
<1>8. CASE Import
  <2>1. Writes(Eggs, "false")
    BY <1>8 DEF Import
  <2>2. DOMAIN hash' = DOMAIN hash \union {Eggs} /\ UNCHANGED <<file, cfg>>
    BY <2>1, OwnNames, WritesIs
  <2> QED
    BY <2>2, OwnApart
<1>9. CASE Subscribe \/ Crash \/ Reboot
  <2>1. cfg' = Empty /\ (hash' = hash \/ hash' = Empty) /\ file' = file
    BY <1>9 DEF Subscribe, Crash, Reboot, Down, stores
  <2> QED
    BY <2>1, EmptyIs
<1>10. CASE Receive \/ Look \/ Mark \/ Say \/ Wait \/ UNCHANGED vars
  BY <1>10 DEF Receive, Look, Mark, Say, Wait, vars, stores
<1> QED
  BY <1>1, <1>2, <1>3, <1>4, <1>5, <1>6, <1>7, <1>8, <1>9, <1>10 DEF Next, Service

LEMMA ModeStep == FileInv /\ MarkerInv /\ [Next]_vars => ModeInv'
<1> SUFFICES ASSUME FileInv, MarkerInv, [Next]_vars, Loaded'
             PROVE  /\ Mode \in DOMAIN hash'
                    /\ Mode \in DOMAIN file' => Mode \in marks'
                    /\ Get(file', Mode) = Choice => hash'[Mode] = Choice
  BY DEF ModeInv
<1>0. Tree(file) /\ Tree(cfg) /\ BootInv
  BY TypeParts DEF FileInv
<1>a. Absent # Choice
  BY ChoiceAssumption
<1>m. Loaded => /\ Mode \in DOMAIN hash
                /\ Mode \in DOMAIN file => Mode \in marks
                /\ Get(file, Mode) = Choice => hash[Mode] = Choice
  BY DEF MarkerInv, ModeInv
<1>1. CASE Open \/ SaveMigrated \/ Crash \/ Reboot
  BY <1>1 DEF Open, SaveMigrated, Crash, Reboot, Down, Loaded
<1>2. CASE Hydrate
  <2>1. /\ file' = file /\ cfg = file
        /\ hash' = Overlay(hash, Overlay(Defaults, Fields(cfg)))
        /\ marks' = DOMAIN Fields(cfg)
    BY <1>0, <1>2 DEF Hydrate, BootInv
  <2>2. /\ DOMAIN hash' = DOMAIN hash \union {Mode, Eggs} \union DOMAIN cfg
        /\ \A n \in DOMAIN cfg : hash'[n] = cfg[n]
    BY <1>0, <2>1, HydratedIs
  <2>3. DOMAIN Fields(cfg) = DOMAIN cfg
    BY <1>0, FieldsIs
  <2> QED
    BY <1>a, <2>1, <2>2, <2>3 DEF Get
<1>3. CASE Forget
  <2>1. /\ Loaded /\ UNCHANGED <<file, marks>>
        /\ hash' = Without(hash, Old) \/ hash' = hash
    BY <1>3 DEF Forget, Loaded, memory
  <2>2. /\ DOMAIN Without(hash, Old) = DOMAIN hash \ {Old}
        /\ \A o \in DOMAIN Without(hash, Old) : Without(hash, Old)[o] = hash[o]
    BY WithoutIs
  <2> QED
    BY <1>m, <2>1, <2>2, MigrationNames
<1>4. CASE Clear
  <2>1. /\ Loaded /\ file' = file /\ marks \subseteq marks'
        /\ hash' = Put(hash, Eggs, "false") \/ hash' = hash
    BY <1>0, <1>4 DEF Clear, Loaded, BootInv
  <2>2. /\ DOMAIN Put(hash, Eggs, "false") = DOMAIN hash \union {Eggs}
        /\ \A o \in DOMAIN hash : o # Eggs => Put(hash, Eggs, "false")[o] = hash[o]
    BY DEF Put
  <2> QED
    BY <1>m, <2>1, <2>2, MigrationNames
<1>5. CASE Save
  <2>1. Loaded /\ UNCHANGED <<hash, marks>>
    BY <1>0, <1>5 DEF Save, Loaded, BootInv
  <2>2. Mode \in DOMAIN file' =>
            \/ Mode \in DOMAIN file /\ file'[Mode] = file[Mode]
            \/ Mode \in marks /\ Mode \in DOMAIN hash /\ file'[Mode] = hash[Mode]
    BY <1>5, SaveKeeps DEF MarkerInv
  <2> QED
    BY <1>a, <1>m, <2>1, <2>2 DEF Get
<1>6. CASE Edit \/ Import
  <2>1. PICK n \in Names, v \in {Choice, "true", "false"} : Writes(n, v) /\ (n = Mode => v = Choice)
    BY <1>6, OwnNames, MigrationNames DEF Edit, Import
  <2>2. /\ DOMAIN hash' = DOMAIN hash \union {n} /\ hash'[n] = v
        /\ \A o \in DOMAIN hash : o # n => hash'[o] = hash[o]
        /\ UNCHANGED <<file, boot, marks>>
    BY <2>1, WritesIs
  <2>3. Loaded
    BY <1>6 DEF Edit, Import, Loaded
  <2> QED
    BY <1>m, <2>1, <2>2, <2>3
<1>7. CASE Mark
  <2>1. UNCHANGED <<file, hash, boot>> /\ marks \subseteq marks'
    BY <1>7 DEF Mark, stores
  <2> QED
    BY <1>m, <2>1 DEF Loaded
<1>8. CASE Subscribe \/ Receive \/ Look \/ Say \/ Wait \/ UNCHANGED vars
  <2>1. UNCHANGED <<file, hash, marks>> /\ Loaded
    BY <1>8 DEF Subscribe, Receive, Look, Say, Wait, vars, stores, memory, Loaded
  <2> QED
    BY <1>m, <2>1
<1> QED
  BY <1>1, <1>2, <1>3, <1>4, <1>5, <1>6, <1>7, <1>8 DEF Next, Service

LEMMA EggsStep == FileInv /\ MarkerInv /\ [Next]_vars => EggsInv'
<1> SUFFICES ASSUME FileInv, MarkerInv, [Next]_vars
             PROVE  /\ EggsAbroad' => Mode \in DOMAIN file'
                    /\ Loaded' /\ Get(file', Eggs) = "false" =>
                           Eggs \in marks' /\ Get(hash', Eggs) = "false"
  BY DEF EggsInv
<1>0. Tree(file) /\ Tree(cfg) /\ Watching /\ Counts /\ BootInv
  BY TypeParts DEF FileInv
<1>a. Absent # "true" /\ Absent # "false" /\ Mode # Eggs
  BY ChoiceAssumption, MigrationNames
<1>k. Mode \in DOMAIN file => Mode \in DOMAIN file'
  BY FileKeeps
<1>e. EggsAbroad => Mode \in DOMAIN file
  BY DEF MarkerInv, EggsInv
<1>m. Loaded /\ Get(file, Eggs) = "false" => Eggs \in marks /\ Get(hash, Eggs) = "false"
  BY DEF MarkerInv, EggsInv
<1>p. \A p : [watcher EXCEPT !.pc = p].pc = p /\ [watcher EXCEPT !.pc = p].name = watcher.name
  BY <1>0 DEF Watching
<1>i. Idle.name = Mode /\ Idle.pc = "idle"
  BY DEF Idle
<1>1. CASE Open
  <2>1. ~Loaded' /\ UNCHANGED <<file, hash, marks, watcher, channel, unsaid>>
    BY <1>1 DEF Open, stores, memory, Loaded
  <2> QED
    BY <1>e, <2>1 DEF EggsAbroad, Heard
<1>2. CASE SaveMigrated
  <2>1. /\ ~Loaded' /\ UNCHANGED <<hash, marks, watcher, channel, unsaid>>
        /\ boot = "save" /\ file' \in {file, cfg}
    BY <1>2 DEF SaveMigrated, memory, Loaded
  <2>2. \A n \in DOMAIN file : Apart(n)
    BY DEF MarkerInv, ApartInv
  <2>3. Mode \in DOMAIN cfg
    BY <1>0, <2>1, <2>2, MigrationKeeps DEF BootInv
  <2> QED
    BY <1>e, <1>k, <2>1, <2>3 DEF EggsAbroad, Heard
<1>3. CASE Hydrate
  <2>1. /\ file' = file /\ cfg = file /\ UNCHANGED <<watcher, channel, unsaid>>
        /\ hash' = Overlay(hash, Overlay(Defaults, Fields(cfg)))
        /\ marks' = DOMAIN Fields(cfg)
    BY <1>0, <1>3 DEF Hydrate, BootInv
  <2>2. /\ DOMAIN hash' = DOMAIN hash \union {Mode, Eggs} \union DOMAIN cfg
        /\ \A n \in DOMAIN cfg : hash'[n] = cfg[n]
        /\ Eggs \notin DOMAIN cfg => hash'[Eggs] = "false"
    BY <1>0, <2>1, HydratedIs
  <2>3. DOMAIN Fields(cfg) = DOMAIN cfg
    BY <1>0, FieldsIs
  <2>4. Get(hash', Eggs) = "true" => Eggs \in DOMAIN file
    BY <2>1, <2>2 DEF Get
  <2>5. EggsAbroad' => EggsAbroad
    BY <2>1, <2>3, <2>4 DEF EggsAbroad, Heard
  <2> QED
    BY <1>a, <1>e, <2>1, <2>2, <2>3, <2>5 DEF Get
<1>4. CASE Forget
  <2>1. /\ Loaded /\ UNCHANGED <<file, marks, watcher, channel, unsaid>>
        /\ hash' = Without(hash, Old) \/ hash' = hash
    BY <1>4 DEF Forget, Loaded, memory
  <2>2. Get(Without(hash, Old), Eggs) = Get(hash, Eggs)
    BY MigrationNames DEF Get, Without, Restrict
  <2> QED
    BY <1>e, <1>m, <2>1, <2>2 DEF EggsAbroad, Heard
<1>5. CASE Receive
  <2>1. UNCHANGED <<file, hash, boot, marks, unsaid>>
    BY <1>5 DEF Receive, stores, memory
  <2>2. /\ channel # <<>> /\ channel' = Tail(channel)
        /\ watcher'.name = Head(channel) /\ watcher'.pc # "clear"
    BY <1>5 DEF Receive
  <2>3. Range(Tail(channel)) \subseteq Range(channel) /\ Head(channel) \in Range(channel)
    <3>1. channel \in Seq(Names)
      BY <1>0 DEF Watching
    <3>2. \A i \in DOMAIN Tail(channel) :
              i + 1 \in DOMAIN channel /\ Tail(channel)[i] = channel[i + 1]
      BY <2>2, <3>1
    <3>3. 1 \in DOMAIN channel /\ Head(channel) = channel[1]
      BY <2>2, <3>1
    <3> QED
      BY <3>2, <3>3 DEF Range
  <2>4. EggsAbroad' => EggsAbroad
    BY <2>1, <2>2, <2>3 DEF EggsAbroad, Heard
  <2> QED
    BY <1>e, <1>m, <2>1, <2>4 DEF Loaded
<1>6. CASE Look
  <2>1. UNCHANGED <<file, hash, boot, marks, channel, unsaid>>
    BY <1>6 DEF Look, stores, memory
  <2>2. /\ watcher'.name = watcher.name
        /\ watcher'.pc = "clear" => Get(hash, Eggs) = "true"
    BY <1>6, <1>p DEF Look, Step
  <2>3. EggsAbroad' => EggsAbroad
    BY <2>1, <2>2 DEF EggsAbroad, Heard
  <2> QED
    BY <1>e, <1>m, <2>1, <2>3 DEF Loaded
<1>7. CASE Clear
  <2>1. /\ file' = file /\ EggsAbroad /\ marks \subseteq marks'
        /\ hash' = Put(hash, Eggs, "false") \/ hash' = hash
        /\ Loaded
    BY <1>0, <1>7 DEF Clear, EggsAbroad, Loaded, BootInv
  <2>2. Get(Put(hash, Eggs, "false"), Eggs) = "false"
    BY DEF Get, Put
  <2> QED
    BY <1>e, <1>m, <2>1, <2>2
<1>8. CASE Mark
  <2>1. /\ UNCHANGED <<file, hash, boot, channel, unsaid>>
        /\ marks' = marks \union {watcher.name}
    BY <1>8 DEF Mark, stores
  <2>2. watcher'.pc = "save" /\ watcher'.name = watcher.name
    BY <1>8, <1>p DEF Mark, Step
  <2>3. EggsAbroad' => EggsAbroad
    BY <2>1, <2>2 DEF EggsAbroad, Heard
  <2> QED
    BY <1>e, <1>m, <2>1, <2>3 DEF Loaded
<1>9. CASE Save
  <2>1. Loaded /\ UNCHANGED <<hash, marks, channel, unsaid>> /\ watcher' = Idle
    BY <1>0, <1>9 DEF Save, Loaded, BootInv
  <2>2. Eggs \in DOMAIN file' =>
            \/ Eggs \in DOMAIN file /\ file'[Eggs] = file[Eggs]
            \/ Eggs \in marks /\ Eggs \in DOMAIN hash /\ file'[Eggs] = hash[Eggs]
    BY <1>9, SaveKeeps DEF MarkerInv
  <2>3. EggsAbroad' => EggsAbroad
    BY <1>a, <1>i, <2>1, <2>2 DEF EggsAbroad, Heard
  <2>4. Get(file', Eggs) = "false" => Eggs \in marks /\ Get(hash, Eggs) = "false"
    BY <1>a, <1>m, <2>1, <2>2 DEF Get
  <2> QED
    BY <1>e, <1>k, <2>1, <2>3, <2>4
<1>10. CASE Edit
  <2>1. PICK n \in Names \ {Eggs}, v \in {Choice, "true", "false"} : Writes(n, v)
    BY <1>10 DEF Edit
  <2>2. /\ DOMAIN hash' = DOMAIN hash \union {n}
        /\ \A o \in DOMAIN hash : o # n => hash'[o] = hash[o]
        /\ unsaid' = unsaid \union {n}
        /\ UNCHANGED <<file, boot, marks, watcher, channel>>
    BY <2>1, WritesIs
  <2>3. Get(hash', Eggs) = Get(hash, Eggs)
    BY <2>1, <2>2 DEF Get
  <2>4. EggsAbroad' => EggsAbroad
    BY <2>1, <2>2, <2>3 DEF EggsAbroad, Heard
  <2> QED
    BY <1>e, <1>m, <2>2, <2>3, <2>4 DEF Loaded
<1>11. CASE Import
  <2>1. Writes(Eggs, "false") /\ EggsAbroad
    BY <1>11 DEF Import, EggsAbroad
  <2>2. /\ DOMAIN hash' = DOMAIN hash \union {Eggs} /\ hash'[Eggs] = "false"
        /\ UNCHANGED <<file, boot, marks>>
    BY <2>1, OwnNames, WritesIs
  <2> QED
    BY <1>e, <1>m, <2>1, <2>2 DEF Get, Loaded
<1>12. CASE Say
  <2>1. PICK n \in unsaid :
            /\ unsaid' = unsaid \ {n}
            /\ channel' = IF boot = "up" THEN Append(channel, n) ELSE channel
    BY <1>12 DEF Say
  <2>2. UNCHANGED <<file, hash, boot, marks, watcher>>
    BY <1>12 DEF Say, stores, memory
  <2>3. Heard' \subseteq Heard \union {n}
    BY <1>0, <2>1, RangeAppend DEF Heard, Watching, Counts
  <2>4. EggsAbroad' => EggsAbroad
    BY <2>1, <2>2, <2>3 DEF EggsAbroad
  <2> QED
    BY <1>e, <1>m, <2>2, <2>4 DEF Loaded
<1>13. CASE Crash \/ Reboot
  <2>1. /\ ~Loaded' /\ file' = file /\ marks' = {} /\ watcher' = Idle /\ channel' = <<>>
        /\ hash' = hash \/ hash' = Empty
        /\ unsaid' \subseteq unsaid
    BY <1>13 DEF Crash, Reboot, Down, Loaded
  <2>2. Heard' = {}
    BY <2>1, RangeEmpty DEF Heard
  <2>3. Get(hash', Eggs) = "true" => Get(hash, Eggs) = "true"
    BY <1>a, <2>1, EmptyIs DEF Get
  <2>4. EggsAbroad' => EggsAbroad
    BY <1>a, <1>i, <2>1, <2>2, <2>3 DEF EggsAbroad
  <2> QED
    BY <1>e, <2>1, <2>4
<1>14. CASE Subscribe \/ Wait \/ UNCHANGED vars
  <2>1. UNCHANGED <<file, hash, marks, watcher, channel, unsaid>>
    BY <1>14 DEF Subscribe, Wait, vars, stores, memory
  <2>2. Loaded' => Loaded
    BY <1>14 DEF Subscribe, Wait, vars, Loaded
  <2> QED
    BY <1>e, <1>m, <2>1, <2>2 DEF EggsAbroad, Heard
<1> QED
  BY <1>1, <1>2, <1>3, <1>4, <1>5, <1>6, <1>7, <1>8, <1>9, <1>10, <1>11, <1>12, <1>13, <1>14
  DEF Next, Service

\* Redis gets the marker from the file, and the file gets its end from Redis.
LEMMA DoneStep == FileInv /\ MarkerInv /\ DoneInv /\ EggsInv' /\ [Next]_vars => DoneInv'
<1> SUFFICES ASSUME FileInv, MarkerInv, DoneInv, EggsInv', [Next]_vars,
                    Get(file', Eggs) = "false"
             PROVE  Get(hash', Eggs) # "true"
  BY DEF DoneInv
<1>0. Tree(file) /\ BootInv
  BY TypeParts DEF FileInv
<1>1. CASE Loaded'
  BY <1>1 DEF EggsInv
<1>2. CASE SaveMigrated
  <2>1. boot = "save" /\ file' \in {file, cfg} /\ hash' = hash
    BY <1>2 DEF SaveMigrated
  <2>2. \A n \in DOMAIN file : Apart(n)
    BY DEF MarkerInv, ApartInv
  <2>3. Get(hash, Eggs) = "true" => Get(file', Eggs) = Get(file, Eggs)
    BY <1>0, <2>1, <2>2, MigrationKeeps DEF BootInv, MarkerInv, EggsInv, EggsAbroad
  <2> QED
    BY <2>1, <2>3 DEF DoneInv
<1>3. CASE Crash \/ Reboot
  <2>1. file' = file /\ (hash' = hash \/ hash' = Empty)
    BY <1>3 DEF Crash, Reboot, Down
  <2>2. Get(Empty, Eggs) # "true"
    BY EmptyIs, ChoiceAssumption DEF Get
  <2> QED
    BY <2>1, <2>2 DEF DoneInv
<1>4. CASE ~Loaded' /\ ~SaveMigrated /\ ~Crash /\ ~Reboot
  <2>1. UNCHANGED stores
    BY <1>0, <1>4 DEF Next, Service, Open, Hydrate, Forget, Subscribe, Receive, Look, Clear, Mark,
       Save, Edit, Import, Writes, Say, Wait, vars, stores, Loaded, BootInv
  <2> QED
    BY <2>1 DEF stores, DoneInv
<1> QED
  BY <1>1, <1>2, <1>3, <1>4

LEMMA ModeEggsInit == Init => ModeEggsInv
<1>1. Init => DoneInv
  BY EmptyIs, ChoiceAssumption DEF Init, DoneInv, Get
<1> QED
  BY <1>1, FileInit, MarkerInit DEF ModeEggsInv, MarkerInv

LEMMA ModeEggsStep == ModeEggsInv /\ [Next]_vars => ModeEggsInv'
<1> SUFFICES ASSUME ModeEggsInv, [Next]_vars PROVE ModeEggsInv'
  OBVIOUS
<1>1. FileInv /\ FileInv' /\ Counts
  BY FileStep, TypeParts DEF ModeEggsInv, FileInv
<1>2. collided => collided'
  BY <1>1 DEF Next, Service, Open, SaveMigrated, Hydrate, Forget, Subscribe, Receive, Look,
              Clear, Mark, Save, Edit, Import, Say, Crash, Reboot, Down, Wait, vars, history
<1>3. ASSUME ~collided' PROVE ApartInv' /\ ModeInv' /\ EggsInv' /\ DoneInv'
  <2>1. MarkerInv /\ DoneInv
    BY <1>2, <1>3 DEF ModeEggsInv, MarkerInv
  <2>2. ApartInv' /\ ModeInv' /\ EggsInv'
    BY <1>1, <1>3, <2>1, ApartStep, ModeStep, EggsStep DEF MarkerInv
  <2> QED
    BY <1>1, <2>1, <2>2, DoneStep
<1> QED
  BY <1>1, <1>3 DEF ModeEggsInv

\* What the file has of the mode and of the marker stays, step by step.
LEMMA KeptStep ==
    ModeEggsInv /\ [Next]_vars =>
        /\ ~collided /\ Get(Fields(file), Mode) = Choice => Get(Fields(file'), Mode) = Choice
        /\ ~collided /\ Get(Fields(file), Eggs) = "false" =>
              Get(Fields(file'), Eggs) = "false" /\ Get(hash', Eggs) # "true"
<1> SUFFICES ASSUME ModeEggsInv, [Next]_vars, ~collided
             PROVE  /\ Get(Fields(file), Mode) = Choice => Get(Fields(file'), Mode) = Choice
                    /\ Get(Fields(file), Eggs) = "false" =>
                          Get(Fields(file'), Eggs) = "false" /\ Get(hash', Eggs) # "true"
  OBVIOUS
<1>1. FileInv /\ MarkerInv /\ DoneInv
  BY DEF ModeEggsInv, MarkerInv
<1>2. FileInv'
  BY <1>1, FileStep
<1>3. Tree(file) /\ Tree(file')
  BY <1>1, <1>2, TypeParts, TypePartsNext DEF FileInv
<1>4. /\ \A n : Get(Fields(file), n) = Get(file, n)
      /\ \A n : Get(Fields(file'), n) = Get(file', n)
  BY <1>3, FieldsIs
<1>5. EggsInv'
  BY <1>1, EggsStep
<1>6. DoneInv'
  BY <1>1, <1>5, DoneStep
<1> QED
  BY <1>1, <1>4, <1>6, FileKeeps DEF DoneInv

\* A mode that a user chose is not migrated away, whenever the former setting turns up
\* again, and wherever the service fails, dies or is started.
THEOREM ChoiceIsKept == Spec => ChoiceStays
<1>1. ModeEggsInv /\ [Next]_vars =>
          [~collided /\ Get(Fields(file), Mode) = Choice
               => Get(Fields(file'), Mode) = Choice]_vars
  BY KeptStep
<1> QED
  BY <1>1, ModeEggsInit, ModeEggsStep, PTL DEF Spec, ChoiceStays

\* When the end of the import has come onto the file, the marker does not rise again,
\* on file or in Redis, wherever the service fails, dies or is started.
THEOREM DoneImportIsFinal == Spec => ImportStaysDone
<1>1. ModeEggsInv /\ [Next]_vars =>
          [~collided /\ Get(Fields(file), Eggs) = "false"
               => Get(Fields(file'), Eggs) = "false" /\ Get(hash', Eggs) # "true"]_vars
  BY KeptStep
<1> QED
  BY <1>1, ModeEggsInit, ModeEggsStep, PTL DEF Spec, ImportStaysDone
================================================================================
