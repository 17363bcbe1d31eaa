---------------------------- MODULE ModelRegistry ----------------------------
(***************************************************************************)
(* SimulationModelRegistry (src/source/simulation_model_registry.cpp): the *)
(* registered versions of each model in memory, their package directories  *)
(* and the manifest on disk, changed by concurrent register_model and      *)
(* remove calls and by a crash of the process, which keeps only the disk.  *)
(*                                                                         *)
(* An action is one critical section of mutex_ or of manifest_io_mutex_,   *)
(* or one file operation between them.  A package's content stands for its *)
(* digest: integrity_status reports "ok" when the two agree.               *)
(***************************************************************************)
EXTENDS Naturals, FiniteSets, Sequences

CONSTANTS
    Thread,     \* the gateway threads that run RPC handlers
    Id,
    Version,
    Content,    \* what a source directory can hold
    InPlace,    \* the entry of a model kept at its origin (copy_assets false)
    Partial,    \* a package directory that is no source's: with files missing,
                \* or with files of an older package among its own
    None,       \* no entry; no directory
    MaxGen      \* bound on manifest_generation_ between two starts

ASSUME ConstantsAssumption ==
    /\ IsFiniteSet(Thread)
    /\ Id # {} /\ Version # {}
    /\ MaxGen \in Nat
    /\ {InPlace, Partial, None} \cap Content = {}
    /\ Cardinality({InPlace, Partial, None}) = 3

Key == Id \X Version
Entry == Content \cup {InPlace}
Package == Content \cup {Partial}

VARIABLES
    entries,      \* entries_
    registering,  \* registering_
    generation,   \* manifest_generation_
    written,      \* last_written_generation_
    pkg,          \* disk: the package directory of each key
    manifest,     \* disk: the entries in registry.json, none if it is torn
    pc,           \* where each thread is
    job,          \* the locals of its handler
    unsaved,      \* history: the newest snapshot could not be written
    inDoubt,      \* history: keys whose package a failure or a race has spoilt
    newer         \* history: what entries was since the manifest's, in order

locks == <<entries, registering, generation, written>>
disk == <<pkg, manifest>>
history == <<unsaved, inDoubt, newer>>
vars == <<locks, disk, pc, job, history>>

\* A digest of an incomplete package may be registered too.
Entries == [Key -> Entry \cup {Partial, None}]

Job == [key : Key, replace : BOOLEAN, source : Entry \cup {None},
        entry : Entry \cup {Partial, None}, alone : BOOLEAN,
        snapshot : Entries, gen : 0 .. MaxGen]

NoEntries == [k \in Key |-> None]

NoJob == [key |-> CHOOSE k \in Key : TRUE, replace |-> FALSE, source |-> None,
          entry |-> None, alone |-> FALSE, snapshot |-> NoEntries, gen |-> 0]

TypeOK ==
    /\ entries \in Entries
    /\ registering \subseteq Key
    /\ generation \in 0 .. MaxGen
    /\ written \in 0 .. generation
    /\ pkg \in [Key -> Package \cup {None}]
    /\ manifest \in Entries
    /\ pc \in [Thread -> {"idle", "wipe", "copy", "copying", "check", "digest",
                          "commit", "cleanup", "persist"}]
    /\ job \in [Thread -> Job]
    /\ \A t \in Thread : job[t].gen <= generation
    /\ unsaved \in BOOLEAN
    /\ inDoubt \subseteq Key
    /\ newer \in Seq(Entries)

Init ==
    /\ entries = NoEntries
    /\ registering = {}
    /\ generation = 0
    /\ written = 0
    /\ pkg = NoEntries
    /\ manifest = NoEntries
    /\ pc = [t \in Thread |-> "idle"]
    /\ job = [t \in Thread |-> NoJob]
    /\ unsaved = FALSE
    /\ inDoubt = {}
    /\ newer = <<>>

Goto(t, label) == pc' = [pc EXCEPT ![t] = label]

Return(t) ==
    /\ Goto(t, "idle")
    /\ job' = [job EXCEPT ![t] = NoJob]

-----------------------------------------------------------------------------
(* register_model() *)

Registering == {"wipe", "copy", "copying", "check", "digest", "commit"}

\* Bound: a handler only begins when there is a generation left for it.
Room == generation + Cardinality({t \in Thread : pc[t] \in Registering}) < MaxGen

\* Mutant: the reservation does not exclude a second registration.
FreeIfUnregistered(k, replace) == entries[k] = None \/ replace

FreeToRegister(k, replace) ==
    /\ entries[k] = None \/ replace
    /\ k \notin registering

Register(t, k, replace, source) ==
    /\ pc[t] = "idle"
    /\ Room
    /\ FreeToRegister(k, replace)
    /\ registering' = registering \cup {k}
    /\ job' = [job EXCEPT ![t] = [NoJob EXCEPT !.key = k, !.replace = replace,
                                               !.source = source]]
    /\ Goto(t, "wipe")
    /\ UNCHANGED <<entries, generation, written, disk, history>>

\* What remove_all() can leave of a package: its error code is discarded.
Remains(k) == IF pkg[k] = None THEN {None} ELSE {None, Partial, pkg[k]}

\* "clean slate for replace": the old package goes first, or is to.
Wipe(t) ==
    /\ pc[t] = "wipe"
    /\ \E left \in Remains(job[t].key) :
           pkg' = [pkg EXCEPT ![job[t].key] = left]
    /\ Goto(t, IF job[t].source = InPlace THEN "check" ELSE "copy")
    /\ UNCHANGED <<locks, manifest, job, history>>

\* snapshot_package() takes its time: a directory that is removed meanwhile
\* ends up with the files copied after that.
CopyBegin(t) ==
    /\ pc[t] = "copy"
    /\ pkg' = [pkg EXCEPT ![job[t].key] = Partial]
    /\ Goto(t, "copying")
    /\ UNCHANGED <<locks, manifest, job, history>>

\* The copy adds to what the wipe has left there, and it passes over the
\* directories it may not read.
Copied(t) == IF pkg[job[t].key] = Partial THEN {job[t].source, Partial}
             ELSE {Partial}

CopyEnd(t) ==
    /\ pc[t] = "copying"
    /\ \E found \in Copied(t) : pkg' = [pkg EXCEPT ![job[t].key] = found]
    /\ Goto(t, "check")
    /\ UNCHANGED <<locks, manifest, job, history>>

\* The package directory that goes with an entry.
DirectoryOf(entry) == IF entry = InPlace THEN None ELSE entry

\* Mutant: the reservation is dropped by the successful path only.
AbandonReserved(t, left) ==
    /\ pkg' = [pkg EXCEPT ![job[t].key] = left]
    /\ inDoubt' = inDoubt \cup {job[t].key}
    /\ Return(t)
    /\ UNCHANGED <<locks, manifest, unsaved, newer>>

\* Every throw goes through the RegistrationGuard; `left` is what the handler
\* leaves in the package directory.
Abandon(t, left) ==
    /\ registering' = registering \ {job[t].key}
    /\ pkg' = [pkg EXCEPT ![job[t].key] = left]
    /\ inDoubt' = IF left = DirectoryOf(entries[job[t].key]) THEN inDoubt
                  ELSE inDoubt \cup {job[t].key}
    /\ Return(t)
    /\ UNCHANGED <<entries, generation, written, manifest, unsaved, newer>>

\* storage_dir_ cannot be created; snapshot_package() throws, at its limits
\* before it copies anything, or at a file; or convert_urdf() throws, the copy
\* being complete.
CopyFails(t) ==
    \/ /\ pc[t] \in {"wipe", "copy"}
       /\ Abandon(t, pkg[job[t].key])
    \/ /\ pc[t] = "copying"
       /\ \E left \in {pkg[job[t].key]} \cup Copied(t) : Abandon(t, left)

\* mj_loadXML() of what is there, and the two require_ options.
Check(t) ==
    /\ pc[t] = "check"
    /\ job[t].source = InPlace \/ pkg[job[t].key] # None
    /\ Goto(t, "digest")
    /\ UNCHANGED <<locks, disk, job, history>>

CheckFails(t) ==
    /\ pc[t] = "check"
    /\ \E left \in Remains(job[t].key) : Abandon(t, left)

\* sha256_directory(), or sha256_file() of a model kept in place.
Digest(t) ==
    /\ pc[t] = "digest"
    /\ LET found == IF job[t].source = InPlace THEN InPlace
                    ELSE pkg[job[t].key]
       IN  /\ found # None
           /\ job' = [job EXCEPT ![t].entry = found]
    /\ Goto(t, "commit")
    /\ UNCHANGED <<locks, disk, history>>

\* It throws at a file that cannot be opened, or when there is no directory.
DigestFails(t) ==
    /\ pc[t] = "digest"
    /\ Abandon(t, pkg[job[t].key])

\* Mutant: the snapshot is taken before entries_ changes.
SnapshotBefore(t, new, locals, label) ==
    /\ entries' = new
    /\ generation' = generation + 1
    /\ job' = [job EXCEPT ![t] = [locals EXCEPT !.snapshot = entries,
                                                !.gen = generation + 1]]
    /\ unsaved' = FALSE
    /\ newer' = Append(newer, new)
    /\ Goto(t, label)

\* entries_ becomes `new` and its snapshot is numbered, under mutex_.
Snapshot(t, new, locals, label) ==
    /\ entries' = new
    /\ generation' = generation + 1
    /\ job' = [job EXCEPT ![t] = [locals EXCEPT !.snapshot = new,
                                                !.gen = generation + 1]]
    /\ unsaved' = FALSE
    /\ newer' = Append(newer, new)
    /\ Goto(t, label)

\* The second check for a duplicate, which CommitFindsFree shows never fails.
Commit(t) ==
    LET k == job[t].key IN
    /\ pc[t] = "commit"
    /\ entries[k] = None \/ job[t].replace
    /\ Snapshot(t, [entries EXCEPT ![k] = job[t].entry], job[t], "persist")
    /\ inDoubt' = IF pkg[k] = DirectoryOf(job[t].entry) THEN inDoubt \ {k}
                  ELSE inDoubt \cup {k}
    /\ UNCHANGED <<registering, written, disk>>

-----------------------------------------------------------------------------
(* remove(): it does not look at registering_. *)

Others(k) == {o \in Key \ {k} : o[1] = k[1]}

Remove(t, k) ==
    /\ pc[t] = "idle"
    /\ Room
    /\ entries[k] # None
    /\ Snapshot(t, [entries EXCEPT ![k] = None],
                [NoJob EXCEPT !.key = k, !.entry = entries[k],
                              !.alone = \A o \in Others(k) : entries[o] = None],
                "cleanup")
    /\ UNCHANGED <<registering, written, disk, inDoubt>>

\* Mutant: only the last version's directory is deleted.
DoomedIfAlone(t) ==
    IF job[t].entry = InPlace \/ ~job[t].alone THEN {}
    ELSE {job[t].key} \cup Others(job[t].key)

\* The directory of the version and, of the last one of its id, the directory
\* of them all; of a model kept in place, neither.
Doomed(t) ==
    IF job[t].entry = InPlace THEN {}
    ELSE {job[t].key} \cup (IF job[t].alone THEN Others(job[t].key) ELSE {})

Cleanup(t) ==
    /\ pc[t] = "cleanup"
    /\ \E left \in [Doomed(t) -> Package \cup {None}] :
           /\ \A k \in Doomed(t) : left[k] \in Remains(k)
           /\ pkg' = [k \in Key |-> IF k \in Doomed(t) THEN left[k] ELSE pkg[k]]
           /\ inDoubt' = inDoubt \cup
                  {k \in Doomed(t) : \/ entries[k] # None
                                     \/ k \in registering
                                     \/ left[k] # None}
    /\ Goto(t, "persist")
    /\ UNCHANGED <<locks, manifest, job, unsaved, newer>>

-----------------------------------------------------------------------------
(* persist_manifest(), then both handlers return. *)

\* Mutant: a snapshot is written whatever has been written since.
AnyOrder(t) == TRUE

NotOlder(t) == job[t].gen >= written

Written(t, found) ==
    /\ manifest' = found
    /\ written' = job[t].gen
    /\ newer' = IF job[t].gen >= written
                THEN SubSeq(newer, job[t].gen - written + 1, Len(newer))
                ELSE newer

LoseNewest(t) == unsaved' = (unsaved \/ job[t].gen = generation)

\* The destructor of the RegistrationGuard, of a registration.
Finish(t) ==
    /\ registering' = IF job[t].source = None THEN registering
                      ELSE registering \ {job[t].key}
    /\ Return(t)
    /\ UNCHANGED <<entries, generation, pkg, inDoubt>>

Persist(t) ==
    /\ pc[t] = "persist"
    /\ IF NotOlder(t) THEN Written(t, job[t].snapshot)
       ELSE UNCHANGED <<manifest, written, newer>>
    /\ Finish(t)
    /\ UNCHANGED unsaved

\* The temporary file cannot be opened or renamed: entries_ stays changed.
PersistFails(t) ==
    /\ pc[t] = "persist"
    /\ NotOlder(t)
    /\ LoseNewest(t)
    /\ Finish(t)
    /\ UNCHANGED <<manifest, written, newer>>

\* The disk is full, at which nobody looks: a torn file is renamed over the
\* manifest.
PersistTorn(t) ==
    /\ pc[t] = "persist"
    /\ NotOlder(t)
    /\ Written(t, NoEntries)
    /\ LoseNewest(t)
    /\ Finish(t)

-----------------------------------------------------------------------------
(* The process dies, and load_manifest() runs at the next start, where a    *)
(* manifest that is torn is put aside.                                     *)

Crash ==
    /\ entries' = manifest
    /\ registering' = {}
    /\ generation' = 0
    /\ written' = 0
    /\ pc' = [t \in Thread |-> "idle"]
    /\ job' = [t \in Thread |-> NoJob]
    /\ unsaved' = FALSE
    /\ inDoubt' = inDoubt \cup registering
                  \cup {k \in Key : manifest[k] # entries[k]}
                  \cup UNION {Doomed(t) : t \in {u \in Thread :
                                                     pc[u] = "cleanup"}}
    /\ newer' = <<>>
    /\ UNCHANGED disk

-----------------------------------------------------------------------------
Call(t) ==
    \/ \E k \in Key, replace \in BOOLEAN, source \in Entry :
           Register(t, k, replace, source)
    \/ \E k \in Key : Remove(t, k)

Continue(t) ==
    \/ Wipe(t)
    \/ CopyBegin(t)
    \/ CopyEnd(t)
    \/ CopyFails(t)
    \/ Check(t)
    \/ CheckFails(t)
    \/ Digest(t)
    \/ DigestFails(t)
    \/ Commit(t)
    \/ Cleanup(t)
    \/ Persist(t)
    \/ PersistFails(t)
    \/ PersistTorn(t)

Next == (\E t \in Thread : Call(t) \/ Continue(t)) \/ Crash

\* A handler that has begun keeps running.
Fairness == \A t \in Thread : WF_vars(Continue(t))

Spec == Init /\ [][Next]_vars
FairSpec == Spec /\ Fairness

-----------------------------------------------------------------------------
(* Properties. *)

\* The reservation makes register_model()'s second look for a duplicate
\* redundant: nobody else has registered the key since the first one.
CommitFindsFree ==
    \A t \in Thread :
        pc[t] \in Registering =>
            /\ entries[job[t].key] = None \/ job[t].replace
            /\ \A u \in Thread \ {t} :
                   pc[u] \in Registering => job[u].key # job[t].key

\* Snapshots are written without mutex_ and in any order, and yet once no
\* handler is on its way to the disk the manifest holds the entries.
ManifestCurrent ==
    (\A t \in Thread : pc[t] \notin {"cleanup", "persist"}) =>
        unsaved \/ manifest = entries

Busy(k) ==
    \/ k \in registering
    \/ \E t \in Thread : pc[t] = "cleanup" /\ k \in Doomed(t)

\* What integrity_status compares: with no handler at work on it, the package
\* of a key is what its entry was registered with, and there is none without
\* an entry, except where a failure or a race is on record.
PackageMatches ==
    \A k \in Key : ~Busy(k) /\ k \notin inDoubt =>
        pkg[k] = DirectoryOf(entries[k])

\* architecture.md: "Registration is transactional": an entry that was not
\* removed keeps its package when a registration of its key has failed.
RegistrationIsTransactional ==
    \A k \in Key :
        entries[k] \in Content /\ k \notin registering => pkg[k] # None

\* A reservation is released, however the registration ends, so that the same
\* version can be tried again.
ReservationReleased ==
    \A k \in Key : (k \in registering) ~> (k \notin registering)

-----------------------------------------------------------------------------
(* Refinement *)

Newest == IF unsaved THEN "lost"
          ELSE IF \E t \in Thread : /\ pc[t] \in {"cleanup", "persist"}
                                    /\ job[t].gen = generation
               THEN "owed" ELSE "saved"

\* Those who are registering a key, until they commit.
Claimants(k) == {t \in Thread : pc[t] \in Registering /\ job[t].key = k}

Claimed == [k \in Key |->
               IF \E t \in Claimants(k) : job[t].replace THEN "replace"
               ELSE IF Claimants(k) # {} THEN "new"
               ELSE IF k \in registering THEN "done" ELSE "free"]

Promise == INSTANCE RegistryContract
    WITH Entry <- Entry \cup {Partial}, map <- entries, disk <- manifest,
         newest <- Newest, claim <- Claimed

\* Whatever the order in which handlers reserve, fail, commit, remove and write
\* snapshots, and wherever the process dies, a caller sees a run of
\* RegistryContract: one claim on a key at a time, and a manifest that is a
\* version of the entries and never goes back to an older one, unless the disk
\* is full and empties it.
KeepsContract == Promise!Contract

=============================================================================
