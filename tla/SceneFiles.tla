----------------------------- MODULE SceneFiles -----------------------------
(***************************************************************************)
(* The files of SimulationSceneManager                                     *)
(* (src/source/simulation_scene_manager.cpp): scene.save writes a copy of  *)
(* the scene to <path>.tmp and renames it to <path>, scene.load reads it   *)
(* back, and both survive a process that dies at any step.                 *)
(*                                                                         *)
(* Savers of one path share the temporary file: a name refers to an inode, *)
(* which a rename moves while another saver may still have it open.  What  *)
(* an inode holds is the scene that was written whole, or Torn: nothing,   *)
(* a part, or a mixture, none of which parses.  An action is one critical  *)
(* section of mutex_ or one call of the file system.  Power failures are   *)
(* left out: the code never syncs, and what they leave is up to the disk.  *)
(***************************************************************************)
CONSTANTS
    Thread,     \* the gateway threads that run RPC handlers
    Id,         \* scene ids
    Version,    \* what a scene may contain
    Path,       \* files scenes are saved to
    Inode,
    None,       \* no scene, no file
    Torn

ASSUME ConstantsAssumption ==
    /\ None \notin Id \cup Version \cup Path \cup Inode
    /\ Torn \notin Version

VARIABLES
    scenes,     \* scenes_
    file,       \* the inode of each path
    tmp,        \* the inode of each path's temporary file
    content,    \* what each inode holds
    pc,         \* where each thread is in save()
    job,        \* its copy of the scene, the path, the inode it writes to
    touched,    \* threads whose open inode another thread has opened or
                \* written to since
    doubtful,   \* history: threads whose save overlapped one of the same path,
                \* or failed without being told
    last,       \* history: what the last save that renamed had copied
    unsure,     \* history: paths whose last save overlapped another, or was
                \* cut short by a full disk without being told
    orphan      \* history: paths whose temporary file a dead process left, or
                \* could not be removed

disk == <<file, tmp, content>>
saver == <<pc, job, touched, doubtful>>
history == <<last, unsure, orphan>>
vars == <<scenes, disk, saver, history>>

NoJob == [id |-> None, version |-> None, path |-> None, inode |-> None]

Init ==
    /\ scenes = [i \in Id |-> None]
    /\ file = [p \in Path |-> None]
    /\ tmp = [p \in Path |-> None]
    /\ content = [n \in Inode |-> Torn]
    /\ pc = [t \in Thread |-> "idle"]
    /\ job = [t \in Thread |-> NoJob]
    /\ touched = {}
    /\ doubtful = {}
    /\ last = [p \in Path |-> None]
    /\ unsure = {}
    /\ orphan = {}

At(t, label) == pc[t] = label
Goto(t, label) == pc' = [pc EXCEPT ![t] = label]

Savers(p) == {t \in Thread : pc[t] # "idle" /\ job[t].path = p}

\* The handler returns, or throws.
Return(t) ==
    /\ Goto(t, "idle")
    /\ job' = [job EXCEPT ![t] = NoJob]
    /\ touched' = touched \ {t}
    /\ doubtful' = doubtful \ {t}

-----------------------------------------------------------------------------
(* Scenes in memory *)

\* create, with replace or without, and update: the whole scene is new.  An
\* update keeps the path, a create does not.
Edit(i, version, path) ==
    /\ path = None \/ (scenes[i] # None /\ path = scenes[i].path)
    /\ scenes' = [scenes EXCEPT ![i] = [version |-> version, path |-> path]]
    /\ UNCHANGED <<disk, saver, history>>

Unload(i) ==
    /\ scenes[i] # None
    /\ scenes' = [scenes EXCEPT ![i] = None]
    /\ UNCHANGED <<disk, saver, history>>

Parses(n) == n # None /\ content[n] # Torn

\* load() stores what it parsed under the id that the file says.
Load(p) ==
    /\ Parses(file[p])
    /\ LET read == content[file[p]]
       IN  scenes' = [scenes EXCEPT ![read.id] =
                         [version |-> read.version, path |-> p]]
    /\ UNCHANGED <<disk, saver, history>>

-----------------------------------------------------------------------------
(* save() *)

\* The path comes with the call, or is the one the scene has.
SaveRead(t, i, p) ==
    /\ At(t, "idle")
    /\ scenes[i] # None
    /\ job' = [job EXCEPT ![t] = [id |-> i, version |-> scenes[i].version,
                                  path |-> p, inode |-> None]]
    /\ Goto(t, "open")
    /\ doubtful' = IF Savers(p) = {} THEN doubtful
                   ELSE doubtful \cup Savers(p) \cup {t}
    /\ UNCHANGED <<scenes, disk, touched, history>>

OthersOn(t, n) == {u \in Thread \ {t} : job[u].inode = n /\ pc[u] = "write"}

Used == {file[p] : p \in Path} \cup {tmp[p] : p \in Path}
            \cup {job[t].inode : t \in Thread}

\* Mutant: the temporary file is opened without truncating it.
OpenTmpUntruncated(t) ==
    /\ At(t, "open")
    /\ LET p == job[t].path
       IN  \E n \in IF tmp[p] = None THEN Inode \ Used ELSE {tmp[p]} :
               /\ job' = [job EXCEPT ![t].inode = n]
               /\ content' = [content EXCEPT ![n] = Torn]
               /\ touched' = IF tmp[p] = None THEN touched
                             ELSE touched \cup OthersOn(t, n) \cup {t}
               /\ tmp' = [tmp EXCEPT ![p] = n]
    /\ Goto(t, "write")
    /\ UNCHANGED <<scenes, file, doubtful, history>>

OpenTmp(t) ==
    /\ At(t, "open")
    /\ LET p == job[t].path
       IN  \E n \in IF tmp[p] = None THEN Inode \ Used ELSE {tmp[p]} :
               /\ job' = [job EXCEPT ![t].inode = n]
               /\ content' = [content EXCEPT ![n] = Torn]
               /\ touched' = touched \cup OthersOn(t, n)
               /\ tmp' = [tmp EXCEPT ![p] = n]
    /\ Goto(t, "write")
    /\ UNCHANGED <<scenes, file, doubtful, history>>

OpenTmpFails(t) ==
    /\ At(t, "open")
    /\ Goto(t, "cleanup")
    /\ UNCHANGED <<scenes, disk, job, touched, doubtful, history>>

\* What the file holds once the stream is destroyed; a thread that was not
\* alone with the inode may have written into the other's text.
WriteTo(t, results) ==
    /\ At(t, "write")
    /\ \E result \in results :
           content' = [content EXCEPT ![job[t].inode] = result]
    /\ touched' = touched \cup OthersOn(t, job[t].inode)
    /\ UNCHANGED <<scenes, file, tmp, job, history>>

Whole(t) == [id |-> job[t].id, version |-> job[t].version]

Write(t) ==
    /\ WriteTo(t, {Whole(t)} \cup (IF t \in touched THEN {Torn} ELSE {}))
    /\ Goto(t, "rename")
    /\ UNCHANGED doubtful

\* Mutant: the exception leaves the temporary file behind.
WriteFailsUncleaned(t) ==
    /\ At(t, "write")
    /\ content' = [content EXCEPT ![job[t].inode] = Torn]
    /\ Return(t)
    /\ UNCHANGED <<scenes, file, tmp, history>>

\* The disk fills, and out.good() says so: the temporary file is removed.
WriteFails(t) ==
    /\ WriteTo(t, {Torn})
    /\ Goto(t, "cleanup")
    /\ UNCHANGED doubtful

\* The disk fills when the stream, checked while its text was still in the
\* buffer, is flushed by its destructor: nobody is told.
WriteFailsUnseen(t) ==
    /\ WriteTo(t, {Torn})
    /\ Goto(t, "rename")
    /\ doubtful' = doubtful \cup {t}

\* remove(tmp_path, ec), also after an unsuccessful rename.
Cleanup(t) ==
    /\ At(t, "cleanup")
    /\ tmp' = [tmp EXCEPT ![job[t].path] = None]
    /\ orphan' = orphan \ {job[t].path}
    /\ Return(t)
    /\ UNCHANGED <<scenes, file, content, last, unsure>>

\* The error of remove() is discarded: the file stays.
CleanupFails(t) ==
    /\ At(t, "cleanup")
    /\ tmp[job[t].path] # None
    /\ orphan' = orphan \cup {job[t].path}
    /\ Return(t)
    /\ UNCHANGED <<scenes, disk, last, unsure>>

Rename(t) ==
    /\ At(t, "rename")
    /\ LET p == job[t].path
       IN  /\ tmp[p] # None
           /\ file' = [file EXCEPT ![p] = tmp[p]]
           /\ tmp' = [tmp EXCEPT ![p] = None]
           /\ last' = [last EXCEPT ![p] = Whole(t)]
           /\ unsure' = IF t \in doubtful THEN unsure \cup {p}
                        ELSE unsure \ {p}
           /\ orphan' = orphan \ {p}
    /\ Goto(t, "record")
    /\ UNCHANGED <<scenes, content, job, touched, doubtful>>

\* Another saver has renamed or removed the temporary file, or the rename is
\* refused.
RenameFails(t) ==
    /\ At(t, "rename")
    /\ Goto(t, "cleanup")
    /\ UNCHANGED <<scenes, disk, job, touched, doubtful, history>>

\* Whatever scene has the id by now is given the path.
RecordPath(t) ==
    /\ At(t, "record")
    /\ scenes' = IF scenes[job[t].id] = None THEN scenes
                 ELSE [scenes EXCEPT ![job[t].id].path = job[t].path]
    /\ Return(t)
    /\ UNCHANGED <<disk, history>>

\* The process dies and another one starts.
Restart ==
    /\ scenes' = [i \in Id |-> None]
    /\ pc' = [t \in Thread |-> "idle"]
    /\ job' = [t \in Thread |-> NoJob]
    /\ touched' = {}
    /\ doubtful' = {}
    /\ orphan' = {p \in Path : tmp[p] # None}
    /\ UNCHANGED <<disk, last, unsure>>

-----------------------------------------------------------------------------
SaveStep(t) ==
    \/ OpenTmp(t) \/ OpenTmpFails(t)
    \/ Write(t) \/ WriteFails(t) \/ WriteFailsUnseen(t)
    \/ Rename(t) \/ RenameFails(t) \/ RecordPath(t)
    \/ Cleanup(t) \/ CleanupFails(t)

Next ==
    \/ \E i \in Id, v \in Version, p \in Path \cup {None} : Edit(i, v, p)
    \/ \E i \in Id : Unload(i)
    \/ \E p \in Path : Load(p)
    \/ \E t \in Thread, i \in Id, p \in Path : SaveRead(t, i, p)
    \/ \E t \in Thread : SaveStep(t)
    \/ Restart

Spec == Init /\ [][Next]_vars

-----------------------------------------------------------------------------
(* Properties *)

Saved == [id : Id, version : Version]

\* Scenes in memory, files on the disk, and the locals of a save.
TypeOK ==
    /\ scenes \in [Id -> [version : Version, path : Path \cup {None}]
                             \cup {None}]
    /\ file \in [Path -> Inode \cup {None}]
    /\ tmp \in [Path -> Inode \cup {None}]
    /\ content \in [Inode -> Saved \cup {Torn}]
    /\ pc \in [Thread -> {"idle", "open", "write", "rename", "cleanup",
                          "record"}]
    /\ job \in [Thread -> [id : Id \cup {None}, version : Version \cup {None},
                           path : Path \cup {None}, inode : Inode \cup {None}]]
    /\ \A t \in Thread :
           IF pc[t] = "idle" THEN job[t] = NoJob
           ELSE /\ job[t].id \in Id
                /\ job[t].version \in Version
                /\ job[t].path \in Path
    /\ \A t \in Thread : pc[t] = "write" => job[t].inode \in Inode
    /\ touched \subseteq Thread
    /\ doubtful \subseteq Thread
    /\ last \in [Path -> Saved \cup {None}]
    /\ unsure \subseteq Path
    /\ orphan \subseteq Path

\* The file of a scene is replaced as a whole or not at all: it holds what the
\* last save that came as far as its rename had copied, whole, whatever saves
\* failed since and wherever the process died; unless that save overlapped
\* another one of the path, or the disk filled in the final flush.
FileIsLastSaved ==
    \A p \in Path : last[p] # None /\ p \notin unsure =>
        /\ file[p] # None
        /\ content[file[p]] = last[p]

\* A save leaves no temporary file behind, however it ends and whichever other
\* saves use the same one: only a process that died in a save can, and a save
\* whose remove() was refused.
NoOrphanTmp ==
    \A p \in Path : tmp[p] # None /\ p \notin orphan => Savers(p) # {}
=============================================================================
