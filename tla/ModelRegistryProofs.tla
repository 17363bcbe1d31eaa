-------------------------- MODULE ModelRegistryProofs --------------------------
(***************************************************************************)
(* Theorems about the model registry, for every finite set of threads and  *)
(* all ids, versions and contents.                                         *)
(***************************************************************************)
EXTENDS ModelRegistry, FiniteSetTheorems, SequenceTheorems, TLAPS

-----------------------------------------------------------------------------
(* The invariant *)

Registrars == {t \in Thread : pc[t] \in Registering}
Savers == {t \in Thread : pc[t] \in {"cleanup", "persist"}}

\* A handler that registers has a source, and copies none that stays in place;
\* one that removes has none.
Sourced ==
    \A t \in Thread :
        /\ pc[t] \in Registering => job[t].source # None
        /\ pc[t] \in {"copy", "copying"} => job[t].source # InPlace
        /\ pc[t] \in {"idle", "cleanup"} => job[t].source = None

\* The registrations under way still find a generation.
RoomKept == generation + Cardinality(Registrars) <= MaxGen

\* A handler holds the reservation of its key from its first look to the end
\* of persist_manifest().
Holds(t) ==
    \/ pc[t] \in Registering
    \/ pc[t] = "persist" /\ job[t].source # None

OneHolder ==
    /\ \A t \in Thread : Holds(t) => job[t].key \in registering
    /\ \A t, u \in Thread :
           Holds(t) /\ Holds(u) /\ job[t].key = job[u].key => t = u

FreeUntilCommit ==
    \A t \in Thread : pc[t] \in Registering =>
        entries[job[t].key] = None \/ job[t].replace

\* The newest snapshot is the entries, and is on the disk or on its way there.
NewestSnapshot ==
    \A t \in Savers : job[t].gen = generation => job[t].snapshot = entries

NewestOnItsWay ==
    \/ unsaved
    \/ manifest = entries /\ written = generation
    \/ \E t \in Savers : job[t].gen = generation

\* Whoever registers a key, or is about to delete its package, answers for it.
Answered(k) ==
    \/ \E t \in Registrars : job[t].key = k
    \/ \E t \in Thread : pc[t] = "cleanup" /\ k \in Doomed(t)

PackageInOrder ==
    \A k \in Key : ~Answered(k) /\ k \notin inDoubt =>
        pkg[k] = DirectoryOf(entries[k])

RegistryInv ==
    /\ TypeOK
    /\ Sourced
    /\ RoomKept
    /\ OneHolder
    /\ FreeUntilCommit
    /\ NewestSnapshot
    /\ NewestOnItsWay
    /\ PackageInOrder

\* What is committed has been digested.
Digested == \A t \in Thread : pc[t] = "commit" => job[t].entry # None

\* The snapshots on their way are versions the manifest does not have, in the
\* order of their numbers, unless a newer one is written; no two are the same.
SnapshotsInOrder ==
    /\ Len(newer) = generation - written
    /\ \A t \in Savers :
           /\ job[t].gen \notin {0, written}
           /\ job[t].gen > written =>
                  job[t].snapshot = newer[job[t].gen - written]
    /\ \A t, u \in Savers : job[t].gen = job[u].gen => t = u

\* A snapshot that is lost is on nobody's way.
LostIsLost == unsaved => \A t \in Savers : job[t].gen # generation

ContractInv == Digested /\ SnapshotsInOrder /\ LostIsLost

-----------------------------------------------------------------------------
(* Types *)

\* The three marks are no content and differ from each other.
LEMMA Marks ==
    /\ InPlace # None /\ Partial # None /\ InPlace # Partial
    /\ InPlace \notin Content /\ Partial \notin Content /\ None \notin Content
<1>1. ASSUME InPlace = None \/ Partial = None \/ InPlace = Partial
      PROVE  FALSE
  <2>1. \E a, b : {InPlace, Partial, None} = {a, b}
    BY <1>1
  <2>2. PICK a, b : {InPlace, Partial, None} = {a} \cup {b}
    BY <2>1
  <2>3. IsFiniteSet({a}) /\ Cardinality({a}) = 1
    BY FS_Singleton
  <2>4. Cardinality({a} \cup {b}) <= 2
    BY <2>3, FS_AddElement
  <2> QED
    BY <2>2, <2>4, ConstantsAssumption
<1> QED
  BY <1>1, ConstantsAssumption

\* The locals of an idle handler are typed.
LEMMA NoJobTyped ==
    NoJob \in Job /\ NoJob.source = None /\ NoJob.gen = 0
<1>1. Key # {}
  <2>1. PICK i \in Id, v \in Version : TRUE
    BY ConstantsAssumption
  <2>2. <<i, v>> \in Key
    BY <2>1 DEF Key
  <2> QED
    BY <2>2
<1>2. (CHOOSE k \in Key : TRUE) \in Key
  BY <1>1
<1>3. NoEntries \in Entries
  BY DEF NoEntries, Entries
<1> QED
  BY <1>2, <1>3, ConstantsAssumption DEF NoJob, Job, Entry

\* The registrars are finitely many.
LEMMA RegistrarsFinite ==
    ASSUME NEW S \in SUBSET Thread
    PROVE  IsFiniteSet(S) /\ Cardinality(S) \in Nat
BY ConstantsAssumption, FS_Subset, FS_CardinalityType

\* The initial state has the invariant.
LEMMA InitRegistry == Init => RegistryInv
<1> SUFFICES ASSUME Init  PROVE RegistryInv
  OBVIOUS
<1> USE ConstantsAssumption DEF Init
<1>1. TypeOK
  <2>1. /\ NoEntries \in Entries
        /\ NoEntries \in [Key -> Package \cup {None}]
    BY DEF Entries, NoEntries, Package
  <2>2. /\ job \in [Thread -> Job]
        /\ \A t \in Thread : job[t].gen <= generation
    BY NoJobTyped
  <2>3. generation \in 0 .. MaxGen /\ written \in 0 .. generation
    <3>1. MaxGen \in Nat
      BY ConstantsAssumption
    <3> QED
      BY <3>1 DEF Init
  <2>5. /\ registering \subseteq Key /\ inDoubt \subseteq Key
        /\ unsaved \in BOOLEAN
    OBVIOUS
  <2>4. pc \in [Thread -> {"idle", "wipe", "copy", "copying", "check",
                          "digest", "commit", "cleanup", "persist"}]
    OBVIOUS
  <2> QED
    BY <2>1, <2>2, <2>3, <2>4, <2>5 DEF TypeOK
<1>2. Registrars = {} /\ Savers = {}
  BY DEF Registrars, Savers, Registering
<1>3. Cardinality(Registrars) = 0
  BY <1>2, FS_EmptySet
<1>4. RoomKept
  BY <1>3 DEF RoomKept
<1> QED
  BY <1>1, <1>2, <1>4, NoJobTyped
     DEF RegistryInv, Sourced, OneHolder, Holds, FreeUntilCommit,
         NewestSnapshot, NewestOnItsWay, PackageInOrder, DirectoryOf,
         Registering, NoEntries

-----------------------------------------------------------------------------
(* The steps of a registration *)

\* What every step of register_model() before the commit and after the
\* reservation amounts to: it touches the package of its own key only.
Works(t) ==
    /\ pc[t] \in Registering
    /\ \E label \in Registering :
           /\ Goto(t, label)
           /\ label \in {"copy", "copying"} => job[t].source # InPlace
    /\ \E j \in Job :
           /\ job' = [job EXCEPT ![t] = j]
           /\ j.key = job[t].key /\ j.replace = job[t].replace
           /\ j.source = job[t].source /\ j.gen = job[t].gen
    /\ pkg' \in [Key -> Package \cup {None}]
    /\ \A k \in Key : k # job[t].key => pkg'[k] = pkg[k]
    /\ UNCHANGED <<locks, manifest, history>>

\* Five of the steps are such a step.
LEMMA WorkSteps ==
    ASSUME RegistryInv, NEW t \in Thread,
           \/ Wipe(t) \/ CopyBegin(t) \/ CopyEnd(t) \/ Check(t) \/ Digest(t)
    PROVE  Works(t)
<1> USE DEF RegistryInv, Works, Registering
<1>1. /\ job[t] \in Job /\ job = [job EXCEPT ![t] = job[t]]
      /\ job[t].key \in Key /\ job[t].source \in Entry
      /\ pkg \in [Key -> Package \cup {None}]
      /\ pc[t] \in Registering
  BY DEF TypeOK, Sourced, Job, Wipe, CopyBegin, CopyEnd, Check, Digest
<1>2. CASE Wipe(t)
  <2>1. Remains(job[t].key) \subseteq Package \cup {None}
    BY <1>1 DEF Remains, Package
  <2> QED
    BY <1>1, <1>2, <2>1 DEF Wipe, Goto
<1>3. CASE CopyBegin(t)
  BY <1>1, <1>3 DEF CopyBegin, Package, Sourced
<1>4. CASE CopyEnd(t)
  <2>1. job[t].source \in Content
    BY <1>1, <1>4 DEF CopyEnd, Sourced, Entry
  <2>2. Copied(t) \subseteq Package
    BY <2>1 DEF Copied, Package
  <2> QED
    BY <1>1, <1>4, <2>1, <2>2 DEF CopyEnd, Entry
<1>5. CASE Check(t)
  BY <1>1, <1>5 DEF Check, disk
<1>6. CASE Digest(t)
  <2> DEFINE found == IF job[t].source = InPlace THEN InPlace
                      ELSE pkg[job[t].key]
  <2>1. found \in Entry \cup {Partial, None}
    BY <1>1 DEF Entry, Package
  <2>2. job' = [job EXCEPT ![t].entry = found]
    BY <1>6 DEF Digest
  <2> HIDE DEF found
  <2>3. /\ [job[t] EXCEPT !.entry = found] \in Job
        /\ job' = [job EXCEPT ![t] = [job[t] EXCEPT !.entry = found]]
    BY <1>1, <2>1, <2>2 DEF Job
  <2> QED
    BY <1>1, <1>6, <2>3 DEF Digest, disk, Job
<1> QED
  BY <1>2, <1>3, <1>4, <1>5, <1>6

\* Such a step keeps the invariant: its key is answered for.
LEMMA WorksRegistry ==
    ASSUME RegistryInv, NEW t \in Thread, Works(t)
    PROVE  RegistryInv'
<1> USE DEF RegistryInv, Works, locks, history, Goto
<1>1. PICK label \in Registering :
          /\ pc' = [pc EXCEPT ![t] = label]
          /\ label \in {"copy", "copying"} => job[t].source # InPlace
  OBVIOUS
<1>2. /\ job' \in [Thread -> Job]
      /\ job'[t].key = job[t].key /\ job'[t].replace = job[t].replace
      /\ job'[t].source = job[t].source /\ job'[t].gen = job[t].gen
      /\ \A u \in Thread : u # t => job'[u] = job[u]
  BY DEF TypeOK
<1>3. /\ pc'[t] \in Registering
      /\ \A u \in Thread : u # t => pc'[u] = pc[u]
      /\ pc' \in [Thread -> {"idle", "wipe", "copy", "copying", "check",
                             "digest", "commit", "cleanup", "persist"}]
  BY <1>1 DEF TypeOK, Registering
<1>4. Registrars' = Registrars /\ Savers' = Savers
  BY <1>3 DEF Registrars, Savers, Registering
<1>5. TypeOK'
  BY <1>2, <1>3 DEF TypeOK
<1>6. Sourced'
  BY <1>1, <1>2, <1>3 DEF Sourced, Registering, TypeOK
<1>7. RoomKept'
  BY <1>4 DEF RoomKept
<1>8. OneHolder'
  BY <1>2, <1>3 DEF OneHolder, Holds, Registering
<1>9. FreeUntilCommit'
  BY <1>2, <1>3 DEF FreeUntilCommit
<1>10. NewestSnapshot' /\ NewestOnItsWay'
  <2>1. \A u \in Savers : job'[u] = job[u]
    BY <1>2 DEF Savers, Registering
  <2> QED
    BY <1>4, <2>1 DEF NewestSnapshot, NewestOnItsWay
<1>11. PackageInOrder'
  <2> SUFFICES ASSUME NEW k \in Key, ~Answered(k)', k \notin inDoubt
               PROVE  pkg'[k] = DirectoryOf(entries[k])
    BY DEF PackageInOrder, DirectoryOf
  <2>1. k # job[t].key
    BY <1>2, <1>4 DEF Answered, Registrars
  <2>2. ~Answered(k)
    BY <1>2, <1>3 DEF Answered, Registrars, Doomed, Others, Registering
  <2> QED
    BY <2>1, <2>2 DEF PackageInOrder
<1> QED
  BY <1>5, <1>6, <1>7, <1>8, <1>9, <1>10, <1>11

\* A registration that fails leaves a matching package or is on record.
LEMMA AbandonRegistry ==
    ASSUME RegistryInv, NEW t \in Thread, pc[t] \in Registering,
           NEW left \in Package \cup {None}, Abandon(t, left)
    PROVE  RegistryInv'
<1> USE DEF RegistryInv, Abandon, Return, Goto
<1>1. /\ job' \in [Thread -> Job] /\ job'[t] = NoJob
      /\ \A u \in Thread : u # t => job'[u] = job[u]
      /\ job[t].key \in Key
  BY NoJobTyped DEF TypeOK, Job
<1>2. /\ pc'[t] = "idle"
      /\ \A u \in Thread : u # t => pc'[u] = pc[u]
      /\ pc' \in [Thread -> {"idle", "wipe", "copy", "copying", "check",
                             "digest", "commit", "cleanup", "persist"}]
  BY DEF TypeOK
<1>3. Registrars' = Registrars \ {t} /\ Savers' = Savers
  BY <1>2 DEF Registrars, Savers, Registering
<1>4. TypeOK'
  BY <1>1, <1>2, NoJobTyped DEF TypeOK
<1>5. Sourced'
  BY <1>1, <1>2, NoJobTyped DEF Sourced, Registering
<1>6. RoomKept'
  <2>1. IsFiniteSet(Registrars) /\ Cardinality(Registrars) \in Nat
    BY RegistrarsFinite DEF Registrars
  <2>2. /\ Cardinality(Registrars') <= Cardinality(Registrars)
        /\ Cardinality(Registrars') \in Nat
    BY <1>3, <2>1, FS_Subset, FS_CardinalityType
  <2> QED
    BY <2>1, <2>2, ConstantsAssumption DEF RoomKept, TypeOK
<1>7. OneHolder'
  BY <1>1, <1>2 DEF OneHolder, Holds, Registering
<1>8. FreeUntilCommit'
  BY <1>1, <1>2 DEF FreeUntilCommit, Registering
<1>9. NewestSnapshot' /\ NewestOnItsWay'
  <2>1. \A u \in Savers : job'[u] = job[u]
    BY <1>1 DEF Savers, Registering
  <2> QED
    BY <1>3, <2>1 DEF NewestSnapshot, NewestOnItsWay
<1>10. PackageInOrder'
  <2> SUFFICES ASSUME NEW k \in Key, ~Answered(k)', k \notin inDoubt'
               PROVE  pkg'[k] = DirectoryOf(entries[k])
    BY DEF PackageInOrder, DirectoryOf
  <2>1. CASE k = job[t].key
    BY <1>1, <2>1 DEF DirectoryOf, TypeOK
  <2>2. CASE k # job[t].key
    <3>1. ~Answered(k)
      BY <1>1, <1>2, <2>2 DEF Answered, Registrars, Doomed, Others, Registering
    <3>2. pkg'[k] = pkg[k] /\ k \notin inDoubt
      BY <2>2 DEF TypeOK
    <3> QED
      BY <3>1, <3>2 DEF PackageInOrder
  <2> QED
    BY <2>1, <2>2
<1> QED
  BY <1>4, <1>5, <1>6, <1>7, <1>8, <1>9, <1>10

\* A registration begins with the reservation of its key.
LEMMA RegisterRegistry ==
    ASSUME RegistryInv, NEW t \in Thread, NEW k \in Key,
           NEW replace \in BOOLEAN, NEW source \in Entry,
           Register(t, k, replace, source)
    PROVE  RegistryInv'
<1> USE DEF RegistryInv, Register, Goto
<1>1. /\ job' \in [Thread -> Job] /\ job'[t].key = k
      /\ job'[t].replace = replace /\ job'[t].source = source
      /\ job'[t].gen = 0
      /\ \A u \in Thread : u # t => job'[u] = job[u]
  <2> DEFINE j == [NoJob EXCEPT !.key = k, !.replace = replace,
                                !.source = source]
  <2>1. j \in Job /\ j.key = k /\ j.replace = replace /\ j.source = source
        /\ j.gen = 0
    BY NoJobTyped DEF Job
  <2>2. job' = [job EXCEPT ![t] = j]
    OBVIOUS
  <2> HIDE DEF j
  <2> QED
    BY <2>1, <2>2 DEF TypeOK
<1>2. /\ pc[t] = "idle" /\ pc'[t] = "wipe"
      /\ \A u \in Thread : u # t => pc'[u] = pc[u]
      /\ pc' \in [Thread -> {"idle", "wipe", "copy", "copying", "check",
                             "digest", "commit", "cleanup", "persist"}]
  BY DEF TypeOK
<1>3. /\ Registrars' = Registrars \cup {t} /\ t \notin Registrars
      /\ Savers' = Savers
  BY <1>2 DEF Registrars, Savers, Registering
<1>4. TypeOK'
  BY <1>1, <1>2 DEF TypeOK, disk, history
<1>5. Sourced'
  BY <1>1, <1>2, Marks DEF Sourced, Registering, Entry
<1>6. RoomKept'
  <2>1. IsFiniteSet(Registrars) /\ Cardinality(Registrars) \in Nat
    BY RegistrarsFinite DEF Registrars
  <2>2. Cardinality(Registrars') = Cardinality(Registrars) + 1
    BY <1>3, <2>1, FS_AddElement
  <2>3. generation + Cardinality(Registrars) < MaxGen
    BY DEF Room, Registrars
  <2> QED
    BY <2>1, <2>2, <2>3, ConstantsAssumption DEF RoomKept, TypeOK
<1>7. OneHolder'
  BY <1>1, <1>2 DEF OneHolder, Holds, Registering, FreeToRegister
<1>8. FreeUntilCommit'
  BY <1>1, <1>2 DEF FreeUntilCommit, Registering, FreeToRegister
<1>9. NewestSnapshot' /\ NewestOnItsWay'
  <2>1. \A u \in Savers : job'[u] = job[u]
    BY <1>1, <1>2 DEF Savers
  <2> QED
    BY <1>3, <2>1 DEF NewestSnapshot, NewestOnItsWay, disk, history
<1>10. PackageInOrder'
  <2> SUFFICES ASSUME NEW o \in Key, ~Answered(o)', o \notin inDoubt
               PROVE  pkg[o] = DirectoryOf(entries[o])
    BY DEF PackageInOrder, DirectoryOf, disk, history
  <2>1. ~Answered(o)
    BY <1>1, <1>2, <1>3
       DEF Answered, Registrars, Doomed, Others, Registering
  <2> QED
    BY <2>1 DEF PackageInOrder
<1> QED
  BY <1>4, <1>5, <1>6, <1>7, <1>8, <1>9, <1>10

\* The commit numbers the newest snapshot and compares the package.
LEMMA CommitRegistry ==
    ASSUME RegistryInv, NEW t \in Thread, Commit(t)
    PROVE  RegistryInv'
<1> DEFINE k   == job[t].key
           new == [entries EXCEPT ![k] = job[t].entry]
           j   == [job[t] EXCEPT !.snapshot = new, !.gen = generation + 1]
<1>0. RegistryInv
  OBVIOUS
<1> USE DEF RegistryInv
<1>1. /\ entries' = new /\ generation' = generation + 1 /\ ~unsaved'
      /\ job' = [job EXCEPT ![t] = j]
      /\ pc[t] = "commit" /\ pc' = [pc EXCEPT ![t] = "persist"]
      /\ inDoubt' = IF pkg[k] = DirectoryOf(job[t].entry) THEN inDoubt \ {k}
                    ELSE inDoubt \cup {k}
      /\ newer' = Append(newer, new)
      /\ UNCHANGED <<registering, written, pkg, manifest>>
  BY DEF Commit, Snapshot, Goto, disk
<1>2. unsaved' \in BOOLEAN
  BY DEF Commit, Snapshot
<1>3. /\ job[t] \in Job /\ k \in Key /\ new \in Entries
      /\ new[k] = job[t].entry
      /\ \A o \in Key : o # k => new[o] = entries[o]
  BY DEF TypeOK, Entries, Job
<1>4. /\ Registrars' = Registrars \ {t} /\ t \in Registrars
      /\ Savers' = Savers \cup {t} /\ t \notin Savers
      /\ pc'[t] = "persist"
      /\ \A u \in Thread : u # t => pc'[u] = pc[u]
  BY <1>1 DEF TypeOK, Registrars, Savers, Registering
<1>5. generation + 1 <= MaxGen /\ RoomKept'
  <2>1. IsFiniteSet(Registrars) /\ Cardinality(Registrars) \in Nat
    BY RegistrarsFinite DEF Registrars
  <2>2. /\ Cardinality(Registrars') = Cardinality(Registrars) - 1
        /\ Cardinality(Registrars') \in Nat
    BY <1>4, <2>1, FS_RemoveElement, FS_CardinalityType
  <2> QED
    BY <1>1, <2>1, <2>2, ConstantsAssumption DEF RoomKept, TypeOK
<1>6. /\ j \in Job /\ j.key = k /\ j.source = job[t].source
      /\ j.snapshot = new /\ j.gen = generation + 1
  <2>1. generation + 1 \in 0 .. MaxGen
    BY <1>5, ConstantsAssumption DEF TypeOK
  <2> HIDE DEF new
  <2> QED
    BY <1>3, <2>1 DEF Job
<1> HIDE DEF j, new
<1>7. /\ job' \in [Thread -> Job] /\ job'[t] = j
      /\ \A u \in Thread : u # t => job'[u] = job[u]
  BY <1>1, <1>6 DEF TypeOK
<1>8. TypeOK'
  <2>1. generation' \in 0 .. MaxGen /\ written' \in 0 .. generation'
    BY <1>1, <1>5, ConstantsAssumption DEF TypeOK
  <2>2. \A u \in Thread : job'[u].gen <= generation'
    BY <1>1, <1>6, <1>7 DEF TypeOK, Job
  <2>3. pc' \in [Thread -> {"idle", "wipe", "copy", "copying", "check",
                            "digest", "commit", "cleanup", "persist"}]
    BY <1>1 DEF TypeOK
  <2>4. newer' \in Seq(Entries)
    BY <1>1, <1>3 DEF TypeOK
  <2> QED
    BY <1>1, <1>2, <1>3, <1>7, <2>1, <2>2, <2>3, <2>4 DEF TypeOK
<1>9. Sourced'
  BY <1>1, <1>4, <1>7 DEF Sourced, Registering
<1>10. OneHolder'
  BY <1>1, <1>4, <1>6, <1>7 DEF OneHolder, Holds, Registering
<1>11. FreeUntilCommit'
  <2>1. ASSUME NEW u \in Thread, pc'[u] \in Registering
        PROVE  u # t /\ job[u].key # k /\ job[u].key \in Key
    BY <1>1, <1>4, <2>1 DEF OneHolder, Holds, Registering, TypeOK, Job
  <2> QED
    BY <1>1, <1>3, <1>4, <1>7, <2>1 DEF FreeUntilCommit
<1>12. NewestSnapshot'
  <2>1. \A u \in Savers : job'[u].gen < generation'
    BY <1>1, <1>4, <1>7 DEF Savers, TypeOK, Job
  <2> QED
    BY <1>1, <1>4, <1>6, <1>7, <2>1 DEF NewestSnapshot
<1>13. NewestOnItsWay'
  BY <1>1, <1>4, <1>6, <1>7 DEF NewestOnItsWay
<1>14. PackageInOrder'
  <2> SUFFICES ASSUME NEW o \in Key, ~Answered(o)', o \notin inDoubt'
               PROVE  pkg[o] = DirectoryOf(new[o])
    BY <1>1 DEF PackageInOrder, DirectoryOf
  <2>1. CASE o = k
    BY <1>1, <1>3, <2>1
  <2>2. CASE o # k
    <3>1. ~Answered(o)
      BY <1>1, <1>4, <1>7, <2>2
         DEF Answered, Registrars, Doomed, Others, Registering
    <3>2. o \notin inDoubt
      BY <1>1, <2>2
    <3> QED
      BY <1>3, <2>2, <3>1, <3>2 DEF PackageInOrder
  <2> QED
    BY <2>1, <2>2
<1> QED
  BY <1>5, <1>8, <1>9, <1>10, <1>11, <1>12, <1>13, <1>14

-----------------------------------------------------------------------------
(* Removal, the manifest, and a crash *)

\* remove() numbers a snapshot too, and answers for the packages it deletes.
LEMMA RemoveRegistry ==
    ASSUME RegistryInv, NEW t \in Thread, NEW k \in Key, Remove(t, k)
    PROVE  RegistryInv'
<1> DEFINE new   == [entries EXCEPT ![k] = None]
           alone == \A o \in Others(k) : entries[o] = None
           j     == [NoJob EXCEPT !.key = k, !.entry = entries[k],
                                  !.alone = alone, !.snapshot = new,
                                  !.gen = generation + 1]
<1> USE DEF RegistryInv
<1>1. /\ entries' = new /\ generation' = generation + 1 /\ ~unsaved'
      /\ job' = [job EXCEPT ![t] = j]
      /\ pc[t] = "idle" /\ pc' = [pc EXCEPT ![t] = "cleanup"]
      /\ entries[k] # None
      /\ newer' = Append(newer, new)
      /\ UNCHANGED <<registering, written, pkg, manifest, inDoubt>>
  <2>1. [[NoJob EXCEPT !.key = k, !.entry = entries[k], !.alone = alone]
            EXCEPT !.snapshot = new, !.gen = generation + 1] = j
    BY DEF NoJob
  <2> QED
    BY <2>1 DEF Remove, Snapshot, Goto, disk
<1>2. unsaved' \in BOOLEAN
  BY DEF Remove, Snapshot
<1>3. /\ new \in Entries /\ new[k] = None
      /\ \A o \in Key : o # k => new[o] = entries[o]
      /\ entries[k] \in Entry \cup {Partial}
  BY <1>1 DEF TypeOK, Entries
<1>4. /\ Registrars' = Registrars /\ t \notin Registrars
      /\ Savers' = Savers \cup {t} /\ t \notin Savers
      /\ pc'[t] = "cleanup"
      /\ \A u \in Thread : u # t => pc'[u] = pc[u]
  BY <1>1 DEF TypeOK, Registrars, Savers, Registering
<1>5. generation + 1 <= MaxGen /\ RoomKept'
  <2>1. IsFiniteSet(Registrars) /\ Cardinality(Registrars) \in Nat
    BY RegistrarsFinite DEF Registrars
  <2>2. generation + Cardinality(Registrars) < MaxGen
    BY DEF Remove, Room, Registrars
  <2> QED
    BY <1>1, <1>4, <2>1, <2>2, ConstantsAssumption DEF RoomKept, TypeOK
<1>6. /\ j \in Job /\ j.key = k /\ j.source = None /\ j.entry = entries[k]
      /\ j.snapshot = new /\ j.gen = generation + 1
  <2>1. generation + 1 \in 0 .. MaxGen
    BY <1>5, ConstantsAssumption DEF TypeOK
  <2>2. alone \in BOOLEAN
    OBVIOUS
  <2> HIDE DEF new, alone
  <2> QED
    BY <1>3, <2>1, <2>2, NoJobTyped DEF Job
<1> HIDE DEF j, new
<1>7. /\ job' \in [Thread -> Job] /\ job'[t] = j
      /\ \A u \in Thread : u # t => job'[u] = job[u]
  BY <1>1, <1>6 DEF TypeOK
<1>8. TypeOK'
  <2>1. generation' \in 0 .. MaxGen /\ written' \in 0 .. generation'
    BY <1>1, <1>5, ConstantsAssumption DEF TypeOK
  <2>2. \A u \in Thread : job'[u].gen <= generation'
    BY <1>1, <1>6, <1>7 DEF TypeOK, Job
  <2>3. pc' \in [Thread -> {"idle", "wipe", "copy", "copying", "check",
                            "digest", "commit", "cleanup", "persist"}]
    BY <1>1 DEF TypeOK
  <2>4. newer' \in Seq(Entries)
    BY <1>1, <1>3 DEF TypeOK
  <2> QED
    BY <1>1, <1>2, <1>3, <1>7, <2>1, <2>2, <2>3, <2>4 DEF TypeOK
<1>9. Sourced'
  BY <1>1, <1>4, <1>6, <1>7 DEF Sourced, Registering
<1>10. OneHolder'
  BY <1>1, <1>4, <1>6, <1>7 DEF OneHolder, Holds, Registering
<1>11. FreeUntilCommit'
  BY <1>1, <1>3, <1>4, <1>7 DEF FreeUntilCommit, Registering, TypeOK, Job
<1>12. NewestSnapshot'
  <2>1. \A u \in Savers : job'[u].gen < generation'
    BY <1>1, <1>4, <1>7 DEF Savers, TypeOK, Job
  <2> QED
    <3> SUFFICES ASSUME NEW u \in Savers', job'[u].gen = generation'
                 PROVE  job'[u].snapshot = entries'
      BY DEF NewestSnapshot
    <3>1. u = t
      <4>1. generation' \in Nat
        BY <1>1, ConstantsAssumption DEF TypeOK
      <4> QED
        BY <1>4, <2>1, <4>1
    <3> QED
      BY <1>1, <1>6, <1>7, <3>1
<1>13. NewestOnItsWay'
  BY <1>1, <1>4, <1>6, <1>7 DEF NewestOnItsWay
<1>14. PackageInOrder'
  <2> SUFFICES ASSUME NEW o \in Key, ~Answered(o)', o \notin inDoubt
               PROVE  pkg[o] = DirectoryOf(new[o])
    BY <1>1 DEF PackageInOrder, DirectoryOf
  <2>1. ~Answered(o)
    BY <1>1, <1>4, <1>7
       DEF Answered, Registrars, Doomed, Others, Registering
  <2>2. CASE o = k
    <3>1. entries[k] = InPlace
      BY <1>4, <1>6, <1>7, <2>2 DEF Answered, Doomed
    <3> QED
      BY <1>3, <2>1, <2>2, <3>1 DEF PackageInOrder, DirectoryOf
  <2>3. CASE o # k
    BY <1>3, <2>1, <2>3 DEF PackageInOrder
  <2> QED
    BY <2>2, <2>3
<1> QED
  BY <1>5, <1>8, <1>9, <1>10, <1>11, <1>12, <1>13, <1>14

\* A deletion that meets an entry or a reservation is on record.
LEMMA CleanupRegistry ==
    ASSUME RegistryInv, NEW t \in Thread, Cleanup(t)
    PROVE  RegistryInv'
<1> USE DEF RegistryInv, Cleanup, Goto, locks
<1>1. /\ pc[t] = "cleanup" /\ pc'[t] = "persist"
      /\ \A u \in Thread : u # t => pc'[u] = pc[u]
      /\ pc' \in [Thread -> {"idle", "wipe", "copy", "copying", "check",
                             "digest", "commit", "cleanup", "persist"}]
      /\ job[t].source = None
  BY DEF TypeOK, Sourced
<1>2. Registrars' = Registrars /\ Savers' = Savers
  BY <1>1 DEF Registrars, Savers, Registering
<1>3. PICK left \in [Doomed(t) -> Package \cup {None}] :
           /\ pkg' = [k \in Key |-> IF k \in Doomed(t) THEN left[k] ELSE pkg[k]]
           /\ inDoubt' = inDoubt \cup
                  {k \in Doomed(t) : \/ entries[k] # None
                                     \/ k \in registering
                                     \/ left[k] # None}
  OBVIOUS
<1>4. TypeOK'
  <2>1. pkg' \in [Key -> Package \cup {None}]
    BY <1>3 DEF TypeOK
  <2>2. inDoubt' \subseteq Key
    BY <1>3 DEF TypeOK, Doomed, Others, Job
  <2> QED
    BY <1>1, <2>1, <2>2 DEF TypeOK
<1>5. Sourced'
  BY <1>1 DEF Sourced, Registering
<1>6. RoomKept'
  BY <1>2 DEF RoomKept
<1>7. OneHolder'
  BY <1>1 DEF OneHolder, Holds, Registering
<1>8. FreeUntilCommit'
  BY <1>1 DEF FreeUntilCommit, Registering
<1>9. NewestSnapshot' /\ NewestOnItsWay'
  BY <1>2 DEF NewestSnapshot, NewestOnItsWay
<1>10. PackageInOrder'
  <2> SUFFICES ASSUME NEW k \in Key, ~Answered(k)', k \notin inDoubt'
               PROVE  pkg'[k] = DirectoryOf(entries[k])
    BY DEF PackageInOrder, DirectoryOf
  <2>1. CASE k \in Doomed(t)
    BY <1>3, <2>1, Marks DEF DirectoryOf
  <2>2. CASE k \notin Doomed(t)
    <3>1. ~Answered(k)
      BY <1>1, <1>2, <2>2 DEF Answered, Doomed, Others
    <3> QED
      BY <1>3, <2>2, <3>1 DEF PackageInOrder
  <2> QED
    BY <2>1, <2>2
<1> QED
  BY <1>4, <1>5, <1>6, <1>7, <1>8, <1>9, <1>10

\* The manifest is written, whole or torn, is newer already, or cannot be
\* written; either way the handler returns and gives its reservation up.
LEMMA PersistRegistry ==
    ASSUME RegistryInv, NEW t \in Thread,
           Persist(t) \/ PersistFails(t) \/ PersistTorn(t)
    PROVE  RegistryInv'
<1> USE DEF RegistryInv
<1>1. /\ pc[t] = "persist" /\ pc' = [pc EXCEPT ![t] = "idle"]
      /\ job' = [job EXCEPT ![t] = NoJob]
      /\ registering' = IF job[t].source = None THEN registering
                        ELSE registering \ {job[t].key}
      /\ UNCHANGED <<entries, generation, pkg, inDoubt>>
      /\ \/ /\ manifest' = job[t].snapshot /\ written' = job[t].gen
            /\ unsaved' = unsaved /\ job[t].gen >= written
         \/ /\ manifest' = manifest /\ written' = written
            /\ unsaved' = unsaved /\ ~(job[t].gen >= written)
         \/ /\ manifest' = manifest /\ written' = written
            /\ unsaved' = (unsaved \/ job[t].gen = generation)
         \/ /\ manifest' = NoEntries /\ written' = job[t].gen
            /\ unsaved' = (unsaved \/ job[t].gen = generation)
            /\ job[t].gen >= written
  BY DEF Persist, PersistFails, PersistTorn, Written, LoseNewest, Finish,
         Return, Goto, NotOlder
<1>2. /\ job' \in [Thread -> Job] /\ job'[t] = NoJob
      /\ \A u \in Thread : u # t => job'[u] = job[u]
      /\ job[t] \in Job /\ job[t].gen <= generation
  BY <1>1, NoJobTyped DEF TypeOK
<1>3. /\ pc'[t] = "idle"
      /\ \A u \in Thread : u # t => pc'[u] = pc[u]
      /\ pc' \in [Thread -> {"idle", "wipe", "copy", "copying", "check",
                             "digest", "commit", "cleanup", "persist"}]
  BY <1>1 DEF TypeOK
<1>4. Registrars' = Registrars /\ Savers' = Savers \ {t} /\ t \in Savers
  BY <1>1, <1>3 DEF Registrars, Savers, Registering
<1>5. TypeOK'
  <2>1. manifest' \in Entries /\ registering' \subseteq Key
    BY <1>1, <1>2 DEF TypeOK, Job, NoEntries, Entries
  <2>2. written' \in 0 .. generation
    BY <1>1, <1>2 DEF TypeOK, Job
  <2>3. unsaved' \in BOOLEAN
    BY <1>1 DEF TypeOK
  <2>4. \A u \in Thread : job'[u].gen <= generation
    BY <1>2, NoJobTyped DEF TypeOK
  <2>5. newer' \in Seq(Entries)
    <3>1. \/ newer' = newer
          \/ /\ job[t].gen >= written
             /\ newer' = SubSeq(newer, job[t].gen - written + 1, Len(newer))
      BY DEF Persist, PersistFails, PersistTorn, Written, Finish, NotOlder
    <3>2. /\ job[t].gen - written + 1 \in Nat \ {0} \/ ~(job[t].gen >= written)
          /\ newer \in Seq(Entries)
      BY <1>2 DEF TypeOK, Job
    <3>3. \A m \in Nat \ {0} : SubSeq(newer, m, Len(newer)) \in Seq(Entries)
      BY <3>2
    <3> QED
      BY <3>1, <3>2, <3>3
  <2> QED
    BY <1>1, <1>2, <1>3, <2>1, <2>2, <2>3, <2>4, <2>5 DEF TypeOK
<1>6. Sourced'
  BY <1>2, <1>3, NoJobTyped DEF Sourced, Registering
<1>7. RoomKept'
  BY <1>1, <1>4 DEF RoomKept
<1>8. OneHolder'
  BY <1>1, <1>2, <1>3 DEF OneHolder, Holds, Registering
<1>9. FreeUntilCommit'
  BY <1>1, <1>2, <1>3 DEF FreeUntilCommit, Registering
<1>10. NewestSnapshot'
  BY <1>1, <1>2, <1>4 DEF NewestSnapshot
<1>11. NewestOnItsWay'
  <2>1. CASE job[t].gen = generation
    <3>1. job[t].snapshot = entries
      BY <1>4, <2>1 DEF NewestSnapshot
    <3>2. job[t].gen >= written
      BY <2>1 DEF TypeOK
    <3> QED
      BY <1>1, <2>1, <3>1, <3>2 DEF NewestOnItsWay
  <2>2. CASE job[t].gen # generation
    <3>1. CASE unsaved
      BY <1>1, <3>1 DEF NewestOnItsWay
    <3>2. CASE manifest = entries /\ written = generation
      <4>1. ~(job[t].gen >= written)
        BY <1>2, <2>2, <3>2 DEF TypeOK, Job
      <4> QED
        BY <1>1, <3>2, <4>1 DEF NewestOnItsWay
    <3>3. ASSUME NEW u \in Savers, job[u].gen = generation
          PROVE  NewestOnItsWay'
      <4>1. u # t
        BY <2>2, <3>3
      <4>2. u \in Savers' /\ job'[u].gen = generation'
        BY <1>1, <1>2, <1>4, <3>3, <4>1 DEF Savers
      <4> QED
        BY <4>2 DEF NewestOnItsWay
    <3> QED
      BY <3>1, <3>2, <3>3 DEF NewestOnItsWay
  <2> QED
    BY <2>1, <2>2
<1>12. PackageInOrder'
  <2> SUFFICES ASSUME NEW k \in Key, ~Answered(k)', k \notin inDoubt
               PROVE  pkg[k] = DirectoryOf(entries[k])
    BY <1>1 DEF PackageInOrder, DirectoryOf
  <2>1. ~Answered(k)
    BY <1>1, <1>2, <1>3
       DEF Answered, Registrars, Doomed, Others, Registering
  <2> QED
    BY <2>1 DEF PackageInOrder
<1> QED
  BY <1>5, <1>6, <1>7, <1>8, <1>9, <1>10, <1>11, <1>12

\* The process dies at any point of any handler, and starts from the manifest.
LEMMA CrashRegistry ==
    ASSUME RegistryInv, Crash
    PROVE  RegistryInv'
<1> USE DEF RegistryInv
<1>1. /\ entries' = manifest /\ registering' = {} /\ generation' = 0
      /\ written' = 0 /\ ~unsaved' /\ UNCHANGED <<pkg, manifest>>
      /\ pc' = [t \in Thread |-> "idle"] /\ job' = [t \in Thread |-> NoJob]
  BY DEF Crash, disk
<1>2. /\ inDoubt' \subseteq Key
      /\ \A k \in Key : k \notin inDoubt' =>
             /\ k \notin inDoubt /\ k \notin registering
             /\ manifest[k] = entries[k]
             /\ \A t \in Thread : pc[t] = "cleanup" => k \notin Doomed(t)
  <2>1. inDoubt' = inDoubt \cup registering
                   \cup {k \in Key : manifest[k] # entries[k]}
                   \cup UNION {Doomed(t) : t \in {u \in Thread :
                                                      pc[u] = "cleanup"}}
    BY DEF Crash
  <2>2. \A t \in Thread : Doomed(t) \subseteq Key
    BY DEF Doomed, Others, TypeOK, Job
  <2>3. UNION {Doomed(t) : t \in {u \in Thread : pc[u] = "cleanup"}}
            \subseteq Key
    BY <2>2
  <2> QED
    BY <2>1, <2>3 DEF TypeOK
<1>3. Registrars' = {} /\ Savers' = {}
  BY <1>1 DEF Registrars, Savers, Registering
<1>4. TypeOK'
  <2>1. unsaved' \in BOOLEAN
    BY DEF Crash
  <2>2. MaxGen \in Nat
    BY ConstantsAssumption
  <2>3. /\ job' \in [Thread -> Job]
        /\ \A t \in Thread : job'[t].gen <= generation'
    BY <1>1, NoJobTyped
  <2>4. pc' \in [Thread -> {"idle", "wipe", "copy", "copying", "check",
                            "digest", "commit", "cleanup", "persist"}]
    BY <1>1
  <2>5. generation' \in 0 .. MaxGen /\ written' \in 0 .. generation'
    BY <1>1, <2>2
  <2>6. newer' \in Seq(Entries)
    BY DEF Crash
  <2> QED
    BY <1>1, <1>2, <2>1, <2>3, <2>4, <2>5, <2>6 DEF TypeOK
<1>5. RoomKept'
  <2>1. Cardinality(Registrars') = 0
    BY <1>3, FS_EmptySet
  <2> QED
    BY <1>1, <2>1, ConstantsAssumption DEF RoomKept
<1>6. Sourced' /\ OneHolder' /\ FreeUntilCommit'
  BY <1>1, NoJobTyped
     DEF Sourced, OneHolder, Holds, FreeUntilCommit, Registering
<1>7. NewestSnapshot' /\ NewestOnItsWay'
  BY <1>1, <1>3 DEF NewestSnapshot, NewestOnItsWay
<1>8. PackageInOrder'
  <2> SUFFICES ASSUME NEW k \in Key, k \notin inDoubt'
               PROVE  pkg[k] = DirectoryOf(entries[k])
    BY <1>1, <1>2 DEF PackageInOrder, DirectoryOf
  <2>1. ~Answered(k)
    BY <1>2 DEF Answered, Registrars, OneHolder, Holds
  <2> QED
    BY <1>2, <2>1 DEF PackageInOrder
<1> QED
  BY <1>4, <1>5, <1>6, <1>7, <1>8

-----------------------------------------------------------------------------
(* The invariant holds throughout. *)

\* Every step keeps the invariant.
LEMMA NextRegistry ==
    ASSUME RegistryInv, [Next]_vars
    PROVE  RegistryInv'
<1>1. ASSUME NEW t \in Thread, Call(t)  PROVE RegistryInv'
  BY <1>1, RegisterRegistry, RemoveRegistry DEF Call
<1>2. ASSUME NEW t \in Thread, CopyFails(t) \/ CheckFails(t) \/ DigestFails(t)
      PROVE  RegistryInv'
  <2>1. \E left \in Package \cup {None} : Abandon(t, left)
    <3>1. /\ pkg[job[t].key] \in Package \cup {None}
          /\ Remains(job[t].key) \subseteq Package \cup {None}
      BY DEF RegistryInv, TypeOK, Job, Remains, Package
    <3>2. CASE pc[t] = "copying" /\ CopyFails(t)
      <4>1. job[t].source \in Package
        BY <3>2
           DEF RegistryInv, TypeOK, Sourced, Registering, Job, Entry, Package
      <4> QED
        BY <3>1, <3>2, <4>1 DEF CopyFails, Copied, Package
    <3> QED
      BY <1>2, <3>1, <3>2 DEF CopyFails, CheckFails, DigestFails
  <2>2. pc[t] \in Registering
    BY <1>2 DEF CopyFails, CheckFails, DigestFails, Registering
  <2> QED
    BY <2>1, <2>2, AbandonRegistry
<1>3. ASSUME NEW t \in Thread, Continue(t)  PROVE RegistryInv'
  BY <1>2, <1>3, WorkSteps, WorksRegistry, CommitRegistry, CleanupRegistry,
     PersistRegistry
     DEF Continue
<1>4. CASE UNCHANGED vars
  BY <1>4
     DEF vars, locks, disk, history, RegistryInv, TypeOK, Sourced, RoomKept,
         Registrars, Savers, OneHolder, Holds, FreeUntilCommit,
         NewestSnapshot, NewestOnItsWay, PackageInOrder, Answered, Doomed,
         Others, DirectoryOf
<1> QED
  BY <1>1, <1>3, <1>4, CrashRegistry DEF Next

\* It holds of every behaviour.
LEMMA RegistryAlways == Spec => []RegistryInv
<1>1. RegistryInv /\ [Next]_vars => RegistryInv'
  BY NextRegistry
<1> QED
  BY <1>1, InitRegistry, PTL DEF Spec

-----------------------------------------------------------------------------
(* Theorems *)

\* What the registry keeps in memory and on the disk has its type, and the
\* bound on generations is never passed.
THEOREM TypeCorrect == Spec => []TypeOK
<1>1. RegistryInv => TypeOK
  BY DEF RegistryInv
<1> QED
  BY <1>1, RegistryAlways, PTL

\* registering_ is taken before the copy and given up after the manifest: when
\* register_model() commits, nobody has registered its key since it looked.
THEOREM CommitFree == Spec => []CommitFindsFree
<1>1. RegistryInv => CommitFindsFree
  BY DEF RegistryInv, CommitFindsFree, FreeUntilCommit, OneHolder, Holds
<1> QED
  BY <1>1, RegistryAlways, PTL

\* persist_manifest() runs without mutex_: the numbers of the snapshots keep an
\* older one from covering a newer one, so that the manifest ends up current.
THEOREM ManifestEndsCurrent == Spec => []ManifestCurrent
<1>1. RegistryInv => ManifestCurrent
  BY DEF RegistryInv, ManifestCurrent, NewestOnItsWay, Savers
<1> QED
  BY <1>1, RegistryAlways, PTL

\* Through registrations, removals, failures and crashes, a package directory
\* that nothing on record has spoilt is what its entry says.
THEOREM PackagesMatch == Spec => []PackageMatches
<1>1. ASSUME RegistryInv  PROVE PackageMatches
  <2> SUFFICES ASSUME NEW k \in Key, ~Busy(k), k \notin inDoubt
               PROVE  pkg[k] = DirectoryOf(entries[k])
    BY DEF PackageMatches
  <2>1. ~Answered(k)
    BY <1>1
       DEF Answered, Busy, Registrars, RegistryInv, OneHolder, Holds
  <2> QED
    BY <1>1, <2>1 DEF RegistryInv, PackageInOrder
<1> QED
  BY <1>1, RegistryAlways, PTL
-----------------------------------------------------------------------------
(* Refinement: the facts about the snapshots *)

\* A step that neither numbers nor writes a snapshot leaves these facts alone.
LEMMA NoSnapshot ==
    ASSUME ContractInv, Savers' = Savers, \A t \in Savers : job'[t] = job[t],
           UNCHANGED <<generation, written, unsaved, newer>>, Digested'
    PROVE  ContractInv'
BY DEF ContractInv, SnapshotsInOrder, LostIsLost

\* A new snapshot has a number of its own and is the newest version.
LEMMA NewSnapshot ==
    ASSUME RegistryInv, ContractInv, NEW t \in Thread, t \notin Savers,
           Savers' = Savers \cup {t}, \A u \in Savers : job'[u] = job[u],
           NEW new \in Entries, newer' = Append(newer, new),
           generation' = generation + 1, written' = written, ~unsaved',
           job'[t].gen = generation + 1, job'[t].snapshot = new, Digested'
    PROVE  ContractInv'
<1> USE DEF ContractInv
<1>1. /\ generation \in Nat /\ written \in 0 .. generation
      /\ newer \in Seq(Entries)
      /\ \A u \in Savers : job[u].gen \in 0 .. generation
  BY ConstantsAssumption DEF RegistryInv, TypeOK, Job, Savers
<1>2. /\ Len(newer') = Len(newer) + 1
      /\ newer'[Len(newer) + 1] = new
      /\ \A i \in 1 .. Len(newer) : newer'[i] = newer[i]
  BY <1>1
<1>3. Len(newer') = generation' - written'
  BY <1>1, <1>2 DEF SnapshotsInOrder
<1>4. ASSUME NEW u \in Savers'
      PROVE  /\ job'[u].gen \notin {0, written'}
             /\ job'[u].gen > written' =>
                    job'[u].snapshot = newer'[job'[u].gen - written']
  <2>1. CASE u = t
    BY <1>1, <1>2, <2>1 DEF SnapshotsInOrder
  <2>2. CASE u # t
    <3>1. u \in Savers /\ job'[u] = job[u]
      BY <2>2
    <3>2. job[u].gen > written => job[u].gen - written \in 1 .. Len(newer)
      BY <1>1, <3>1 DEF SnapshotsInOrder
    <3> QED
      BY <1>2, <3>1, <3>2 DEF SnapshotsInOrder
  <2> QED
    BY <2>1, <2>2
<1>5. \A u, v \in Savers' : job'[u].gen = job'[v].gen => u = v
  BY <1>1 DEF SnapshotsInOrder
<1> QED
  BY <1>3, <1>4, <1>5 DEF SnapshotsInOrder, LostIsLost

\* What SubSeq leaves of a sequence without its first elements.
LEMMA WithoutFirst ==
    ASSUME NEW S, NEW s \in Seq(S), NEW d \in 0 .. Len(s)
    PROVE  /\ Len(SubSeq(s, d + 1, Len(s))) = Len(s) - d
           /\ \A i \in 1 .. Len(s) - d :
                  SubSeq(s, d + 1, Len(s))[i] = s[d + i]
<1>1. /\ d \in Nat /\ Len(s) \in Nat /\ d <= Len(s)
      /\ \A i \in d + 1 .. Len(s) : s[i] \in S
  OBVIOUS
<1>2. Len(SubSeq(s, d + 1, Len(s))) =
          IF d + 1 <= Len(s) THEN Len(s) - (d + 1) + 1 ELSE 0
  BY <1>1, SubSeqProperties
<1>3. \A i \in 1 .. Len(s) - (d + 1) + 1 :
          SubSeq(s, d + 1, Len(s))[i] = s[(d + 1) + i - 1]
  BY <1>1, SubSeqProperties
<1>4. \A i \in 1 .. Len(s) - d : (d + 1) + i - 1 = d + i
  BY <1>1
<1>5. /\ Len(s) - (d + 1) + 1 = Len(s) - d
      /\ ~(d + 1 <= Len(s)) => Len(s) - d = 0
  BY <1>1
<1>6. Len(SubSeq(s, d + 1, Len(s))) = Len(s) - d
  BY <1>2, <1>5
<1>7. ASSUME NEW i \in 1 .. Len(s) - d
      PROVE  SubSeq(s, d + 1, Len(s))[i] = s[d + i]
  <2>1. i \in 1 .. Len(s) - (d + 1) + 1 /\ (d + 1) + i - 1 = d + i
    BY <1>4, <1>5
  <2> QED
    BY <1>3, <2>1
<1> QED
  BY <1>6, <1>7

\* Writing a snapshot drops it and what is older from the versions to come.
LEMMA WrittenSnapshot ==
    ASSUME RegistryInv, ContractInv, NEW t \in Savers,
           Savers' = Savers \ {t}, \A u \in Savers \ {t} : job'[u] = job[u],
           job[t].gen >= written, written' = job[t].gen,
           newer' = SubSeq(newer, job[t].gen - written + 1, Len(newer)),
           unsaved' \in {unsaved, unsaved \/ job[t].gen = generation},
           UNCHANGED generation, Digested'
    PROVE  /\ ContractInv'
           /\ job[t].gen - written \in 1 .. Len(newer)
           /\ job[t].snapshot = newer[job[t].gen - written]
<1> USE DEF ContractInv
<1>1. /\ generation \in Nat /\ written \in 0 .. generation
      /\ newer \in Seq(Entries)
      /\ \A u \in Savers : job[u].gen \in 0 .. generation
  BY ConstantsAssumption DEF RegistryInv, TypeOK, Job, Savers
<1>2. /\ job[t].gen - written \in 1 .. Len(newer)
      /\ job[t].snapshot = newer[job[t].gen - written]
  <2>1. /\ Len(newer) = generation - written
        /\ job[t].gen \notin {0, written}
        /\ job[t].gen > written => job[t].snapshot = newer[job[t].gen - written]
    BY DEF SnapshotsInOrder
  <2> DEFINE gen == job[t].gen
  <2>2. gen \in 0 .. generation /\ gen >= written /\ gen # written
    BY <1>1, <2>1
  <2> HIDE DEF gen
  <2>3. gen > written /\ gen - written \in 1 .. (generation - written)
    BY <1>1, <2>2
  <2> QED
    BY <2>1, <2>3 DEF gen
<1>3. PICK d \in 1 .. Len(newer) : d = job[t].gen - written
  BY <1>2
<1>4. /\ Len(newer') = Len(newer) - d
      /\ \A i \in 1 .. Len(newer) - d : newer'[i] = newer[d + i]
  <2>1. newer' = SubSeq(newer, d + 1, Len(newer)) /\ d \in 0 .. Len(newer)
    BY <1>3
  <2>2. newer \in Seq(Entries)
    BY <1>1
  <2> HIDE DEF ContractInv
  <2>3. /\ Len(SubSeq(newer, d + 1, Len(newer))) = Len(newer) - d
        /\ \A i \in 1 .. Len(newer) - d :
               SubSeq(newer, d + 1, Len(newer))[i] = newer[d + i]
    BY <2>1, <2>2, WithoutFirst
  <2> QED
    BY <2>1, <2>3
<1>5. Len(newer) = generation - written /\ Len(newer') = generation' - written'
  <2>1. Len(newer) = generation - written
    BY DEF SnapshotsInOrder
  <2>2. /\ job[t].gen \in Nat /\ written \in Nat /\ generation \in Nat
        /\ Len(newer') = generation - written - (job[t].gen - written)
    BY <1>1, <1>3, <1>4, <2>1
  <2>3. Len(newer') = generation - job[t].gen
    BY <2>2
  <2> QED
    BY <2>1, <2>3
<1>6. ASSUME NEW u \in Savers'
      PROVE  /\ job'[u].gen \notin {0, written'}
             /\ job'[u].gen > written' =>
                    job'[u].snapshot = newer'[job'[u].gen - written']
  <2>1. u \in Savers /\ u # t /\ job'[u] = job[u]
    OBVIOUS
  <2>2. job[u].gen \notin {0, job[t].gen}
    BY <2>1 DEF SnapshotsInOrder
  <2>3. ASSUME job[u].gen > job[t].gen
        PROVE  job[u].snapshot = newer'[job[u].gen - job[t].gen]
    <3>1. PICK g \in 0 .. generation : g = job[u].gen
      BY <1>1, <2>1
    <3>2. job[t].gen = written + d /\ job[t].gen \in 0 .. generation
      BY <1>1, <1>3
    <3>3. /\ g - job[t].gen \in 1 .. Len(newer) - d
          /\ d + (g - job[t].gen) = g - written
          /\ g > written
      <4>1. /\ generation \in Nat /\ written \in Nat /\ d \in Nat /\ g \in Nat
            /\ g <= generation /\ g > written + d /\ d > 0
            /\ Len(newer) = generation - written
        BY <1>1, <1>5, <2>3, <3>1, <3>2
      <4>2. g - (written + d) \in 1 .. (generation - written) - d
        BY <4>1
      <4>3. d + (g - (written + d)) = g - written /\ g > written
        BY <4>1
      <4> QED
        BY <3>2, <4>1, <4>2, <4>3
    <3>4. newer'[g - job[t].gen] = newer[g - written]
      BY <1>4, <3>3
    <3> QED
      BY <2>1, <3>1, <3>3, <3>4 DEF SnapshotsInOrder
  <2> QED
    BY <2>1, <2>2, <2>3
<1>7. \A u, v \in Savers' : job'[u].gen = job'[v].gen => u = v
  BY DEF SnapshotsInOrder
<1>8. LostIsLost'
  BY DEF LostIsLost, SnapshotsInOrder
<1> QED
  BY <1>2, <1>5, <1>6, <1>7, <1>8 DEF SnapshotsInOrder

\* A snapshot that is not written, having been overtaken or having failed.
LEMMA UnwrittenSnapshot ==
    ASSUME RegistryInv, ContractInv, NEW t \in Savers,
           Savers' = Savers \ {t}, \A u \in Savers \ {t} : job'[u] = job[u],
           unsaved' \in {unsaved, unsaved \/ job[t].gen = generation},
           UNCHANGED <<generation, written, newer>>, Digested'
    PROVE  ContractInv'
<1>1. SnapshotsInOrder'
  BY DEF ContractInv, SnapshotsInOrder
<1>2. LostIsLost'
  <2>1. SUFFICES ASSUME unsaved', NEW u \in Savers'  PROVE job[u].gen # generation
    BY DEF LostIsLost
  <2>2. CASE unsaved
    BY <2>2 DEF ContractInv, LostIsLost
  <2>3. CASE job[t].gen = generation
    BY <2>3 DEF ContractInv, SnapshotsInOrder
  <2> QED
    BY <2>1, <2>2, <2>3
<1> QED
  BY <1>1, <1>2 DEF ContractInv

\* The initial state has these facts.
LEMMA InitContract == Init => ContractInv
<1> SUFFICES ASSUME Init  PROVE ContractInv
  OBVIOUS
<1> QED
  BY DEF Init, ContractInv, Digested, SnapshotsInOrder, LostIsLost, Savers

-----------------------------------------------------------------------------
(* Refinement: each step is one of the contract's, or none. *)

\* A step that touches nothing of the key k leaves its claim as it is.
LEMMA SameClaim ==
    ASSUME NEW k \in Key, Claimants(k)' = Claimants(k),
           \A u \in Claimants(k) : job'[u].replace = job[u].replace,
           k \in registering' <=> k \in registering
    PROVE  Claimed'[k] = Claimed[k]
BY DEF Claimed

\* Only the claim on k changes.
LEMMA OneClaim ==
    ASSUME NEW k \in Key, NEW c, Claimed'[k] = c,
           \A o \in Key \ {k} : Claimed'[o] = Claimed[o]
    PROVE  Claimed' = [Claimed EXCEPT ![k] = c]
BY DEF Claimed

\* The claim on the key of a handler that registers it is that handler's.
LEMMA ClaimOfRegistrar ==
    ASSUME RegistryInv, NEW t \in Registrars
    PROVE  /\ job[t].key \in Key /\ Claimants(job[t].key) = {t}
           /\ Claimed[job[t].key] = IF job[t].replace THEN "replace" ELSE "new"
<1>1. t \in Thread /\ job[t].key \in Key
  BY DEF Registrars, RegistryInv, TypeOK, Job
<1>2. Claimants(job[t].key) = {t}
  BY DEF Claimants, Registrars, RegistryInv, OneHolder, Holds
<1> QED
  BY <1>1, <1>2 DEF Claimed

\* Registration up to the commit: reserving a key is claiming it.
LEMMA RegisterMaps ==
    ASSUME RegistryInv, RegistryInv', NEW t \in Thread, NEW k \in Key,
           NEW replace \in BOOLEAN, NEW source \in Entry,
           Register(t, k, replace, source)
    PROVE  Promise!Claim(k, IF replace THEN "replace" ELSE "new")
<1> USE DEF Register, Goto
<1>1. /\ job'[t].key = k /\ job'[t].replace = replace
      /\ \A u \in Thread \ {t} : job'[u] = job[u]
      /\ pc'[t] \in Registering /\ pc[t] = "idle"
      /\ \A u \in Thread \ {t} : pc'[u] = pc[u]
  <2>1. [NoJob EXCEPT !.key = k, !.replace = replace, !.source = source]
            = [[[NoJob EXCEPT !.key = k] EXCEPT !.replace = replace]
                  EXCEPT !.source = source]
    BY DEF NoJob
  <2> QED
    BY DEF RegistryInv, TypeOK, Registering, NoJob
<1>2. Claimed[k] = "free"
  BY DEF Claimed, Claimants, FreeToRegister, RegistryInv, OneHolder, Holds
<1>3. t \in Registrars' /\ Claimed'[k] = IF replace THEN "replace" ELSE "new"
  <2>1. t \in Registrars'
    BY <1>1 DEF Registrars
  <2>2. Claimants(k)' = {t}
    BY <1>1, <1>2 DEF Claimants, Claimed
  <2> QED
    BY <1>1, <2>1, <2>2 DEF Claimed
<1>4. \A o \in Key \ {k} : Claimed'[o] = Claimed[o]
  <2> SUFFICES ASSUME NEW o \in Key \ {k}  PROVE Claimed'[o] = Claimed[o]
    OBVIOUS
  <2>1. /\ Claimants(o)' = Claimants(o)
        /\ \A u \in Claimants(o) : job'[u].replace = job[u].replace
    BY <1>1 DEF Claimants, Registering
  <2> QED
    BY <2>1, SameClaim
<1>5. Newest' = Newest
  BY <1>1 DEF Newest, history, Registering
<1> QED
  BY <1>2, <1>3, <1>4, <1>5, OneClaim
     DEF Promise!Claim, Promise!versions, FreeToRegister, disk, history

\* What a registration does before it commits is no step of the contract.
LEMMA WorksMaps ==
    ASSUME RegistryInv, NEW t \in Thread, Works(t)
    PROVE  UNCHANGED Promise!cvars
<1> USE DEF Works, Goto, locks, history
<1>1. PICK label \in Registering : pc' = [pc EXCEPT ![t] = label]
  OBVIOUS
<1>2. /\ \A u \in Thread : job'[u].key = job[u].key
      /\ \A u \in Thread : job'[u].replace = job[u].replace
      /\ \A u \in Thread : job'[u].gen = job[u].gen
  BY DEF RegistryInv, TypeOK
<1>3. \A u \in Thread : /\ pc'[u] \in Registering <=> pc[u] \in Registering
                        /\ pc'[u] \in {"cleanup", "persist"}
                               <=> pc[u] \in {"cleanup", "persist"}
  BY <1>1 DEF RegistryInv, TypeOK, Registering
<1>4. Newest' = Newest
  BY <1>2, <1>3 DEF Newest
<1>5. Claimed' = Claimed
  <2>1. \A k \in Key : Claimants(k)' = Claimants(k)
    BY <1>2, <1>3 DEF Claimants
  <2>2. \A k \in Key : Claimed'[k] = Claimed[k]
    BY <1>2, <2>1, SameClaim DEF Claimants
  <2> QED
    BY <2>2 DEF Claimed
<1> QED
  BY <1>4, <1>5 DEF Promise!cvars, Promise!versions

\* A registration that fails withdraws its claim.
LEMMA AbandonMaps ==
    ASSUME RegistryInv, NEW t \in Registrars, NEW left, Abandon(t, left)
    PROVE  Promise!Withdraw(job[t].key)
<1> USE DEF Abandon, Return, Goto
<1>k. PICK k \in Key : k = job[t].key
  BY ClaimOfRegistrar
<1>1. /\ t \in Thread /\ Claimants(k) = {t}
      /\ Claimed[k] \in {"new", "replace"}
  BY <1>k, ClaimOfRegistrar DEF Registrars
<1>2. /\ \A u \in Thread \ {t} : job'[u] = job[u] /\ pc'[u] = pc[u]
      /\ pc'[t] = "idle" /\ pc[t] \in Registering
  BY <1>1 DEF RegistryInv, TypeOK, Registrars
<1>3. Claimed'[k] = "free"
  <2>1. Claimants(k)' = {}
    BY <1>1, <1>2 DEF Claimants, Registering
  <2> QED
    BY <1>k, <1>1, <2>1 DEF Claimed, RegistryInv, TypeOK
<1>4. \A o \in Key \ {k} : Claimed'[o] = Claimed[o]
  <2> SUFFICES ASSUME NEW o \in Key \ {k}  PROVE Claimed'[o] = Claimed[o]
    OBVIOUS
  <2>1. /\ Claimants(o)' = Claimants(o)
        /\ \A u \in Claimants(o) : job'[u].replace = job[u].replace
    BY <1>k, <1>1, <1>2 DEF Claimants, Registering
  <2> QED
    BY <1>k, <2>1, SameClaim
<1>5. Newest' = Newest
  BY <1>1, <1>2 DEF Newest, Registering
<1> QED
  BY <1>k, <1>1, <1>3, <1>4, <1>5, OneClaim DEF Promise!Withdraw, Promise!versions

\* A step that numbers a snapshot owes the contract's newest version.
LEMMA NewestOwed ==
    ASSUME NEW t \in Thread, t \in Savers', job'[t].gen = generation', ~unsaved'
    PROVE  Newest' = "owed"
BY DEF Newest, Savers

\* The commit adds the entry under the claim.
LEMMA CommitMaps ==
    ASSUME RegistryInv, ContractInv, NEW t \in Thread, Commit(t)
    PROVE  \E entry \in Entry \cup {Partial} : Promise!Add(job[t].key, entry)
<1>k. PICK k \in Key : k = job[t].key
  BY DEF RegistryInv, TypeOK, Job
<1> DEFINE new   == [entries EXCEPT ![k] = job[t].entry]
           j     == [job[t] EXCEPT !.snapshot = new, !.gen = generation + 1]
<1>1. /\ t \in Registrars /\ pc[t] = "commit"
      /\ entries[k] = None \/ job[t].replace
      /\ entries' = new /\ newer' = Append(newer, new)
      /\ generation' = generation + 1 /\ ~unsaved'
      /\ job' = [job EXCEPT ![t] = j]
      /\ pc' = [pc EXCEPT ![t] = "persist"]
      /\ UNCHANGED <<registering, manifest>>
  BY <1>k DEF Commit, Snapshot, Goto, Registrars, Registering, disk
<1>2. /\ Claimants(k) = {t}
      /\ Claimed[k] = IF job[t].replace THEN "replace" ELSE "new"
  BY <1>k, <1>1, ClaimOfRegistrar
<1>3. j.key = k /\ j.replace = job[t].replace /\ j.gen = generation + 1
  BY <1>k DEF RegistryInv, TypeOK, Job
<1> HIDE DEF j
<1>4. /\ pc'[t] = "persist" /\ job'[t] = j
      /\ \A u \in Thread \ {t} : job'[u] = job[u] /\ pc'[u] = pc[u]
  BY <1>1 DEF RegistryInv, TypeOK
<1>5. job[t].entry \in Entry \cup {Partial}
  BY <1>1 DEF ContractInv, Digested, RegistryInv, TypeOK, Job
<1>6. Claimed'[k] = "done"
  <2>1. Claimants(k)' = {}
    BY <1>2, <1>4 DEF Claimants, Registering
  <2>2. k \in registering'
    BY <1>k, <1>1 DEF RegistryInv, OneHolder, Holds, Registering
  <2> QED
    BY <1>2, <2>1, <2>2 DEF Claimed
<1>7. \A o \in Key \ {k} : Claimed'[o] = Claimed[o]
  <2> SUFFICES ASSUME NEW o \in Key \ {k}  PROVE Claimed'[o] = Claimed[o]
    OBVIOUS
  <2>1. /\ Claimants(o)' = Claimants(o)
        /\ \A u \in Claimants(o) : job'[u].replace = job[u].replace
    BY <1>k, <1>1, <1>3, <1>4 DEF Claimants, Registering
  <2> QED
    BY <1>1, <2>1, SameClaim
<1>8. Newest' = "owed"
  BY <1>1, <1>3, <1>4, NewestOwed DEF Savers
<1>9. Promise!Add(k, job[t].entry)
  BY <1>1, <1>2, <1>6, <1>7, <1>8, OneClaim DEF Promise!Add, Promise!Change
<1> QED
  BY <1>k, <1>5, <1>9

\* remove() needs no claim.
LEMMA RemoveMaps ==
    ASSUME RegistryInv, NEW t \in Thread, NEW k \in Key, Remove(t, k)
    PROVE  Promise!Delete(k)
<1> DEFINE new == [entries EXCEPT ![k] = None]
<1>1. PICK j : /\ job' = [job EXCEPT ![t] = j]
               /\ j.gen = generation + 1
  <2> DEFINE locals == [NoJob EXCEPT !.key = k, !.entry = entries[k],
                            !.alone = \A o \in Others(k) : entries[o] = None]
  <2>1. Snapshot(t, new, locals, "cleanup")
    BY DEF Remove
  <2>2. [locals EXCEPT !.snapshot = new, !.gen = generation + 1].gen
            = generation + 1
    BY DEF NoJob
  <2> HIDE DEF locals
  <2> QED
    BY <2>1, <2>2 DEF Snapshot
<1>2. /\ entries' = new /\ newer' = Append(newer, new)
      /\ generation' = generation + 1 /\ ~unsaved' /\ entries[k] # None
      /\ pc[t] = "idle" /\ pc' = [pc EXCEPT ![t] = "cleanup"]
      /\ UNCHANGED <<registering, manifest>>
  BY DEF Remove, Snapshot, Goto, disk
<1>3. /\ pc'[t] = "cleanup" /\ job'[t] = j
      /\ \A u \in Thread \ {t} : job'[u] = job[u] /\ pc'[u] = pc[u]
  BY <1>1, <1>2 DEF RegistryInv, TypeOK
<1>4. Claimed' = Claimed
  <2>1. \A o \in Key : /\ Claimants(o)' = Claimants(o)
                       /\ \A u \in Claimants(o) : job'[u] = job[u]
    BY <1>2, <1>3 DEF Claimants, Registering
  <2>2. \A o \in Key : Claimed'[o] = Claimed[o]
    BY <1>2, <2>1, SameClaim
  <2> QED
    BY <2>2 DEF Claimed
<1>5. Newest' = "owed"
  BY <1>1, <1>2, <1>3, NewestOwed DEF Savers
<1> QED
  BY <1>2, <1>4, <1>5 DEF Promise!Delete, Promise!Change

\* Deleting packages is no step of the contract.
LEMMA CleanupMaps ==
    ASSUME RegistryInv, NEW t \in Thread, Cleanup(t)
    PROVE  UNCHANGED Promise!cvars
<1>1. /\ pc[t] = "cleanup" /\ pc' = [pc EXCEPT ![t] = "persist"]
      /\ UNCHANGED <<entries, registering, generation, manifest, job, unsaved,
                     newer>>
  BY DEF Cleanup, Goto, locks
<1>2. \A u \in Thread : /\ pc'[u] \in Registering <=> pc[u] \in Registering
                        /\ pc'[u] \in {"cleanup", "persist"}
                               <=> pc[u] \in {"cleanup", "persist"}
  BY <1>1 DEF RegistryInv, TypeOK, Registering
<1>3. Newest' = Newest /\ \A k \in Key : Claimants(k)' = Claimants(k)
  BY <1>1, <1>2 DEF Newest, Claimants
<1>4. Claimed' = Claimed
  <2>1. \A k \in Key : Claimed'[k] = Claimed[k]
    BY <1>1, <1>3, SameClaim
  <2> QED
    BY <2>1 DEF Claimed
<1> QED
  BY <1>1, <1>3, <1>4 DEF Promise!cvars, Promise!versions

\* A handler that is through with the manifest gives up the claim it has.
LEMMA FinishMaps ==
    ASSUME RegistryInv, NEW t \in Thread, pc[t] = "persist", Finish(t)
    PROVE  Promise!Finish
<1> USE DEF Finish
<1>1. /\ \A u \in Thread \ {t} : job'[u] = job[u] /\ pc'[u] = pc[u]
      /\ pc'[t] = "idle"
  BY DEF Return, Goto, RegistryInv, TypeOK
<1>2. \A o \in Key : /\ Claimants(o)' = Claimants(o)
                     /\ \A u \in Claimants(o) : job'[u] = job[u]
  BY <1>1 DEF Claimants, Registering
<1>3. CASE job[t].source = None
  <2>1. \A o \in Key : Claimed'[o] = Claimed[o]
    BY <1>2, <1>3, SameClaim
  <2> QED
    BY <2>1 DEF Claimed, Promise!Finish
<1>4. CASE job[t].source # None
  <2>1. PICK k \in Key : k = job[t].key
    BY DEF RegistryInv, TypeOK, Job
  <2>2. Claimants(k) = {} /\ k \in registering
    BY <1>4, <2>1
       DEF RegistryInv, OneHolder, Holds, Claimants, Registering
  <2>3. Claimed[k] = "done" /\ Claimed'[k] = "free"
    BY <1>2, <1>4, <2>1, <2>2 DEF Claimed
  <2>4. \A o \in Key \ {k} : Claimed'[o] = Claimed[o]
    BY <1>2, <1>4, <2>1, SameClaim
  <2> QED
    BY <2>3, <2>4, OneClaim DEF Promise!Finish
<1> QED
  BY <1>3, <1>4

\* If the newest version is not among what t was to write, its state stays.
LEMMA NewestStays ==
    ASSUME NEW t \in Savers, Savers' = Savers \ {t},
           \A u \in Savers \ {t} : job'[u] = job[u],
           job[t].gen # generation, UNCHANGED <<generation, unsaved>>
    PROVE  Newest' = Newest
<1>1. (\E u \in Savers' : job'[u].gen = generation')
          <=> \E u \in Savers : job[u].gen = generation
  OBVIOUS
<1> QED
  BY <1>1 DEF Newest, Savers

\* The manifest takes on one of the newer versions, is torn, or stays; and if it
\* is the newest version that is not written, that one is lost.
LEMMA PersistMaps ==
    ASSUME RegistryInv, ContractInv, ContractInv', NEW t \in Thread,
           Persist(t) \/ PersistFails(t) \/ PersistTorn(t)
    PROVE  \/ \E i \in 1 .. Len(newer) : Promise!Save(i) \/ Promise!Tear(i)
           \/ Promise!Skip \/ Promise!Lose
<1>1. /\ pc[t] = "persist" /\ Finish(t) /\ Promise!Finish
      /\ UNCHANGED <<entries, generation>>
  BY FinishMaps DEF Persist, PersistFails, PersistTorn, Finish
<1>2. /\ t \in Savers /\ Savers' = Savers \ {t}
      /\ \A u \in Savers \ {t} : job'[u] = job[u]
  BY <1>1 DEF Finish, Return, Goto, Savers, RegistryInv, TypeOK
<1>3. /\ job[t].gen \in 0 .. generation /\ generation \in Nat
      /\ written \in 0 .. generation /\ Len(newer) = generation - written
  BY ConstantsAssumption
     DEF RegistryInv, TypeOK, Job, ContractInv, SnapshotsInOrder
<1>4. CASE Persist(t) /\ NotOlder(t)
  <2>1. /\ manifest' = job[t].snapshot /\ written' = job[t].gen
        /\ newer' = SubSeq(newer, job[t].gen - written + 1, Len(newer))
        /\ unsaved' = unsaved /\ job[t].gen >= written
    BY <1>4 DEF Persist, Written, NotOlder
  <2>2. PICK i \in 1 .. Len(newer) :
            i = job[t].gen - written /\ job[t].snapshot = newer[i]
    BY <1>1, <1>2, <2>1, WrittenSnapshot DEF ContractInv
  <2>3. i = Len(newer) <=> job[t].gen = generation
    BY <1>3, <2>2
  <2>4. Newest' = IF i = Len(newer) THEN "saved" ELSE Newest
    <3>1. CASE job[t].gen = generation
      <4>1. ~unsaved' /\ \A u \in Savers' : job'[u].gen # generation'
        BY <1>1, <1>2, <2>1, <3>1
           DEF ContractInv, LostIsLost, SnapshotsInOrder
      <4> QED
        BY <2>3, <3>1, <4>1 DEF Newest, Savers
    <3>2. CASE job[t].gen # generation
      BY <1>1, <1>2, <2>1, <2>3, <3>2, NewestStays
    <3> QED
      BY <3>1, <3>2
  <2>5. Promise!Save(i)
    BY <1>1, <2>1, <2>2, <2>4 DEF Promise!Save, Promise!Write
  <2> QED
    BY <2>5
<1>5. CASE PersistTorn(t)
  <2>1. /\ manifest' = NoEntries /\ written' = job[t].gen
        /\ newer' = SubSeq(newer, job[t].gen - written + 1, Len(newer))
        /\ unsaved' = (unsaved \/ job[t].gen = generation)
        /\ job[t].gen >= written
    BY <1>5 DEF PersistTorn, Written, LoseNewest, NotOlder
  <2>2. job[t].gen # written
    BY <1>2 DEF ContractInv, SnapshotsInOrder
  <2>3. PICK i \in 1 .. Len(newer) : i = job[t].gen - written
    BY <1>3, <2>1, <2>2
  <2>4. Newest' = IF i = Len(newer) THEN "lost" ELSE Newest
    <3>1. CASE job[t].gen = generation
      BY <1>3, <2>1, <2>3, <3>1 DEF Newest
    <3>2. CASE job[t].gen # generation
      <4>1. i # Len(newer) /\ (unsaved' = unsaved)
        BY <1>3, <2>1, <2>3, <3>2 DEF RegistryInv, TypeOK
      <4> QED
        BY <1>1, <1>2, <3>2, <4>1, NewestStays
    <3> QED
      BY <3>1, <3>2
  <2>5. Promise!Tear(i)
    BY <1>1, <2>1, <2>3, <2>4 DEF Promise!Tear, Promise!Write, NoEntries
  <2> QED
    BY <2>5
<1>6. CASE Persist(t) /\ ~NotOlder(t)
  <2>1. UNCHANGED <<manifest, newer, unsaved>> /\ job[t].gen # generation
    BY <1>3, <1>6 DEF Persist, NotOlder
  <2> QED
    BY <1>1, <1>2, <2>1, NewestStays DEF Promise!Skip, Promise!versions
<1>7. CASE PersistFails(t)
  <2>1. /\ UNCHANGED <<manifest, newer>>
        /\ unsaved' = (unsaved \/ job[t].gen = generation)
    BY <1>7 DEF PersistFails, LoseNewest
  <2>2. CASE job[t].gen = generation
    <3>1. Newest = "owed"
      BY <1>2, <2>2 DEF Newest, Savers, ContractInv, LostIsLost
    <3>2. Newest' = "lost"
      BY <2>1, <2>2 DEF Newest
    <3> QED
      BY <1>1, <2>1, <3>1, <3>2 DEF Promise!Lose
  <2>3. CASE job[t].gen # generation
    <3>1. unsaved' = unsaved
      BY <2>1, <2>3 DEF RegistryInv, TypeOK
    <3> QED
      BY <1>1, <1>2, <2>1, <2>3, <3>1, NewestStays
         DEF Promise!Skip, Promise!versions
  <2> QED
    BY <2>2, <2>3
<1> QED
  BY <1>4, <1>5, <1>6, <1>7

\* After a crash the registry is what the manifest says.
LEMMA CrashMaps ==
    ASSUME Crash
    PROVE  Promise!Restart
<1>1. /\ entries' = manifest /\ registering' = {} /\ ~unsaved'
      /\ newer' = <<>> /\ manifest' = manifest
      /\ \A t \in Thread : pc'[t] = "idle"
  BY DEF Crash, disk
<1>2. Newest' = "saved"
  BY <1>1 DEF Newest
<1>3. Claimed' = [k \in Key |-> "free"]
  <2>1. \A k \in Key : Claimants(k)' = {}
    BY <1>1 DEF Claimants, Registering
  <2> QED
    BY <1>1, <2>1 DEF Claimed
<1> QED
  BY <1>1, <1>2, <1>3 DEF Promise!Restart

\* Every step keeps the facts about the snapshots.
LEMMA NextContract ==
    ASSUME RegistryInv, RegistryInv', ContractInv, [Next]_vars
    PROVE  ContractInv'
<1> USE DEF RegistryInv, TypeOK
<1>1. ASSUME NEW t \in Thread, NEW k \in Key, NEW replace \in BOOLEAN,
             NEW source \in Entry, Register(t, k, replace, source)
      PROVE  ContractInv'
  <2>1. Savers' = Savers /\ \A u \in Savers : job'[u] = job[u]
    BY <1>1 DEF Register, Goto, Savers
  <2>2. Digested'
    BY <1>1 DEF Register, Goto, ContractInv, Digested
  <2> QED
    BY <1>1, <2>1, <2>2, NoSnapshot DEF Register, history
<1>2. ASSUME NEW t \in Thread, NEW k \in Key, Remove(t, k)  PROVE ContractInv'
  <2> DEFINE new    == [entries EXCEPT ![k] = None]
             locals == [NoJob EXCEPT !.key = k, !.entry = entries[k],
                            !.alone = \A o \in Others(k) : entries[o] = None]
             j      == [locals EXCEPT !.snapshot = new, !.gen = generation + 1]
  <2>1. Snapshot(t, new, locals, "cleanup") /\ written' = written /\ pc[t] = "idle"
    BY <1>2 DEF Remove
  <2>2. j.snapshot = new /\ j.gen = generation + 1 /\ new \in Entries
    BY DEF NoJob, Entries
  <2> HIDE DEF new, locals
  <2>3. /\ job'[t] = j /\ pc'[t] = "cleanup" /\ ~unsaved'
        /\ \A u \in Thread \ {t} : job'[u] = job[u] /\ pc'[u] = pc[u]
        /\ generation' = generation + 1 /\ newer' = Append(newer, new)
    BY <2>1 DEF Snapshot, Goto
  <2> HIDE DEF j
  <2>4. t \notin Savers /\ Savers' = Savers \cup {t}
    BY <2>1, <2>3 DEF Savers
  <2>5. Digested'
    BY <2>3 DEF ContractInv, Digested
  <2> QED
    BY <2>1, <2>2, <2>3, <2>4, <2>5, NewSnapshot DEF Savers
<1>3. ASSUME NEW t \in Thread, Commit(t)  PROVE ContractInv'
  <2> DEFINE new == [entries EXCEPT ![job[t].key] = job[t].entry]
             j   == [job[t] EXCEPT !.snapshot = new, !.gen = generation + 1]
  <2>1. Snapshot(t, new, job[t], "persist") /\ written' = written
        /\ pc[t] = "commit"
    BY <1>3 DEF Commit
  <2>2. j.snapshot = new /\ j.gen = generation + 1 /\ new \in Entries
    BY DEF Job, Entries
  <2> HIDE DEF new
  <2>3. /\ job'[t] = j /\ pc'[t] = "persist" /\ ~unsaved'
        /\ \A u \in Thread \ {t} : job'[u] = job[u] /\ pc'[u] = pc[u]
        /\ generation' = generation + 1 /\ newer' = Append(newer, new)
    BY <2>1 DEF Snapshot, Goto
  <2> HIDE DEF j
  <2>4. t \notin Savers /\ Savers' = Savers \cup {t}
    BY <2>1, <2>3 DEF Savers
  <2>5. Digested'
    BY <2>3 DEF ContractInv, Digested
  <2> QED
    BY <2>1, <2>2, <2>3, <2>4, <2>5, NewSnapshot DEF Savers
<1>4. ASSUME NEW t \in Thread,
             \/ Wipe(t) \/ CopyBegin(t) \/ CopyEnd(t) \/ Check(t) \/ Digest(t)
             \/ Cleanup(t)
      PROVE  ContractInv'
  <2>1. /\ UNCHANGED <<generation, written, unsaved, newer>>
        /\ \E label \in Registering \cup {"persist"} :
               /\ pc' = [pc EXCEPT ![t] = label]
               /\ label = "persist" <=> pc[t] = "cleanup"
               /\ label = "commit" <=> pc[t] = "digest"
        /\ pc[t] # "persist"
    BY <1>4
       DEF Wipe, CopyBegin, CopyEnd, Check, Digest, Cleanup, Goto, locks,
           history, Registering
  <2>2. Savers' = Savers /\ \A u \in Savers : job'[u] = job[u]
    BY <1>4, <2>1
       DEF Savers, Registering, Wipe, CopyBegin, CopyEnd, Check, Digest, Cleanup
  <2>3. Digested'
    <3>1. CASE Digest(t)
      <4> DEFINE found == IF job[t].source = InPlace THEN InPlace
                          ELSE pkg[job[t].key]
      <4>1. found # None /\ job' = [job EXCEPT ![t].entry = found]
        BY <3>1, Marks DEF Digest
      <4>2. job'[t].entry = found /\ \A u \in Thread \ {t} : job'[u] = job[u]
        BY <4>1 DEF Job
      <4> QED
        BY <2>1, <4>1, <4>2 DEF ContractInv, Digested
    <3>2. CASE ~Digest(t)
      BY <1>4, <2>1, <3>2
         DEF ContractInv, Digested, Wipe, CopyBegin, CopyEnd, Check, Cleanup
    <3> QED
      BY <3>1, <3>2
  <2> QED
    BY <2>1, <2>2, <2>3, NoSnapshot
<1>5. ASSUME NEW t \in Thread, CopyFails(t) \/ CheckFails(t) \/ DigestFails(t)
      PROVE  ContractInv'
  <2>1. /\ pc[t] \in Registering /\ Return(t)
        /\ UNCHANGED <<generation, written, unsaved, newer>>
    BY <1>5 DEF CopyFails, CheckFails, DigestFails, Abandon, Registering
  <2>2. Savers' = Savers /\ \A u \in Savers : job'[u] = job[u]
    BY <2>1 DEF Return, Goto, Savers, Registering
  <2>3. Digested'
    BY <2>1 DEF Return, Goto, ContractInv, Digested
  <2> QED
    BY <2>1, <2>2, <2>3, NoSnapshot
<1>6. ASSUME NEW t \in Thread,
             Persist(t) \/ PersistFails(t) \/ PersistTorn(t)
      PROVE  ContractInv'
  <2>1. /\ pc[t] = "persist" /\ Return(t) /\ UNCHANGED generation
        /\ unsaved' \in {unsaved, unsaved \/ job[t].gen = generation}
        /\ \/ /\ job[t].gen >= written /\ written' = job[t].gen
              /\ newer' = SubSeq(newer, job[t].gen - written + 1, Len(newer))
           \/ UNCHANGED <<written, newer>>
    BY <1>6 DEF Persist, PersistFails, PersistTorn, Written, LoseNewest, Finish,
                NotOlder
  <2>2. /\ t \in Savers /\ Savers' = Savers \ {t}
        /\ \A u \in Savers \ {t} : job'[u] = job[u]
    BY <2>1 DEF Return, Goto, Savers
  <2>3. Digested'
    BY <2>1 DEF Return, Goto, ContractInv, Digested
  <2> QED
    BY <2>1, <2>2, <2>3, WrittenSnapshot, UnwrittenSnapshot
<1>7. CASE Crash
  BY <1>7 DEF Crash, ContractInv, Digested, SnapshotsInOrder, LostIsLost, Savers
<1>8. CASE UNCHANGED vars
  BY <1>8
     DEF vars, locks, history, ContractInv, Digested, SnapshotsInOrder,
         LostIsLost, Savers
<1> QED
  BY <1>1, <1>2, <1>3, <1>4, <1>5, <1>6, <1>7, <1>8 DEF Next, Call, Continue

\* ModelRegistry implements the contract: reservation, commit, removal, the
\* snapshots that register_model() and remove() write in any order, and the
\* restart are steps of RegistryContract, and nothing else is seen of the rest.
THEOREM ImplementsContract == Spec => KeepsContract
<1>1. Init => Promise!ContractInit
  BY DEF Init, Promise!ContractInit, NoEntries, Newest, Claimed, Claimants,
         Registering
<1>2. ASSUME RegistryInv, RegistryInv', ContractInv, ContractInv', [Next]_vars
      PROVE  [Promise!ContractNext]_(Promise!cvars)
  <2> USE <1>2 DEF Promise!ContractNext
  <2>1. ASSUME NEW t \in Thread, Call(t)  PROVE Promise!ContractNext
    <3>1. ASSUME NEW k \in Key, NEW replace \in BOOLEAN, NEW source \in Entry,
                 Register(t, k, replace, source)
          PROVE  Promise!ContractNext
      BY <3>1, RegisterMaps
    <3> QED
      BY <2>1, <3>1, RemoveMaps DEF Call
  <2>2. ASSUME NEW t \in Thread, CopyFails(t) \/ CheckFails(t) \/ DigestFails(t)
        PROVE  Promise!ContractNext
    <3>1. t \in Registrars /\ job[t].key \in Key
      BY <2>2
         DEF CopyFails, CheckFails, DigestFails, Registrars, Registering,
             RegistryInv, TypeOK, Job
    <3>2. \E left : Abandon(t, left)
      BY <2>2 DEF CopyFails, CheckFails, DigestFails
    <3> QED
      BY <3>1, <3>2, AbandonMaps
  <2>3. ASSUME NEW t \in Thread, Commit(t)  PROVE Promise!ContractNext
    <3>1. job[t].key \in Key
      BY DEF RegistryInv, TypeOK, Job
    <3> QED
      BY <2>3, <3>1, CommitMaps
  <2>4. ASSUME NEW t \in Thread, Continue(t)
        PROVE  [Promise!ContractNext]_(Promise!cvars)
    BY <2>2, <2>3, <2>4, WorkSteps, WorksMaps, CleanupMaps, PersistMaps
       DEF Continue
  <2>5. CASE UNCHANGED vars
    <3>1. Newest' = Newest
      BY <2>5 DEF vars, locks, history, Newest
    <3>2. \A k \in Key : Claimants(k)' = Claimants(k)
      BY <2>5 DEF vars, Claimants
    <3>3. \A k \in Key : Claimed'[k] = Claimed[k]
      BY <2>5, <3>2, SameClaim DEF vars, locks
    <3>4. Claimed' = Claimed
      BY <3>3 DEF Claimed
    <3> QED
      BY <2>5, <3>1, <3>4
         DEF vars, locks, disk, history, Promise!cvars, Promise!versions
  <2> QED
    BY <2>1, <2>4, <2>5, CrashMaps DEF Next
<1>3. RegistryInv /\ RegistryInv' /\ ContractInv /\ [Next]_vars => ContractInv'
  BY NextContract
<1> QED
  BY <1>1, <1>2, <1>3, InitContract, RegistryAlways, PTL
     DEF Spec, KeepsContract, Promise!Contract

=============================================================================
