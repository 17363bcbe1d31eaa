-------------------------- MODULE SceneFilesProofs --------------------------
(***************************************************************************)
(* Theorems about what becomes of a scene: about the files of the scene    *)
(* manager (SceneFiles), for every set of threads, scenes, paths and       *)
(* inodes, and about the document the compiler writes of a scene it        *)
(* accepts (SceneRules), for every pool of items and scenes of any size.   *)
(*                                                                         *)
(* The functions that walk a list or a tree are recursive; what is shown   *)
(* of them goes by the least number at which it would fail.                *)
(***************************************************************************)
EXTENDS SceneFiles, SceneRules, WellFoundedInduction, FiniteSetTheorems, TLAPS

-----------------------------------------------------------------------------
(* Types *)

\* The initial state is typed.
LEMMA InitTypes == Init => TypeOK
BY ConstantsAssumption DEF Init, TypeOK, NoJob

\* Every step keeps the types.
LEMMA NextTypes == TypeOK /\ [Next]_vars => TypeOK'
<1> SUFFICES ASSUME TypeOK, [Next]_vars
             PROVE  TypeOK'
  OBVIOUS
<1> USE ConstantsAssumption DEF TypeOK, Saved, NoJob, At, Goto
<1>1. ASSUME NEW i \in Id, NEW v \in Version, NEW p \in Path \cup {None},
             Edit(i, v, p)
      PROVE  TypeOK'
  BY <1>1 DEF Edit, disk, saver, history
<1>2. ASSUME NEW i \in Id, Unload(i)  PROVE TypeOK'
  BY <1>2 DEF Unload, disk, saver, history
<1>3. ASSUME NEW p \in Path, Load(p)  PROVE TypeOK'
  BY <1>3 DEF Load, Parses, disk, saver, history
<1>4. ASSUME NEW t \in Thread, NEW i \in Id, NEW p \in Path, SaveRead(t, i, p)
      PROVE  TypeOK'
  BY <1>4 DEF SaveRead, Savers, disk, history
<1>5. ASSUME NEW t \in Thread, OpenTmp(t)  PROVE TypeOK'
  BY <1>5 DEF OpenTmp, OthersOn, history
<1>6. ASSUME NEW t \in Thread, OpenTmpFails(t)  PROVE TypeOK'
  BY <1>6 DEF OpenTmpFails, disk, history
<1>7. ASSUME NEW t \in Thread, Write(t)  PROVE TypeOK'
  BY <1>7 DEF Write, WriteTo, Whole, OthersOn, history
<1>8. ASSUME NEW t \in Thread, WriteFails(t)  PROVE TypeOK'
  BY <1>8 DEF WriteFails, WriteTo, OthersOn, history
<1>9. ASSUME NEW t \in Thread, WriteFailsUnseen(t)  PROVE TypeOK'
  BY <1>9 DEF WriteFailsUnseen, WriteTo, OthersOn, history
<1>10. ASSUME NEW t \in Thread, Rename(t)  PROVE TypeOK'
  BY <1>10 DEF Rename, Whole
<1>11. ASSUME NEW t \in Thread, RenameFails(t)  PROVE TypeOK'
  BY <1>11 DEF RenameFails, disk, history
<1>12. ASSUME NEW t \in Thread, Cleanup(t)  PROVE TypeOK'
  BY <1>12 DEF Cleanup, Return
<1>12a. ASSUME NEW t \in Thread, CleanupFails(t)  PROVE TypeOK'
  BY <1>12a DEF CleanupFails, Return, disk
<1>13. ASSUME NEW t \in Thread, RecordPath(t)  PROVE TypeOK'
  BY <1>13 DEF RecordPath, Return, disk, history
<1>14. CASE Restart
  BY <1>14 DEF Restart, disk
<1>15. CASE UNCHANGED vars
  BY <1>15 DEF vars, disk, saver, history
<1> QED
  BY <1>1, <1>2, <1>3, <1>4, <1>5, <1>6, <1>7, <1>8, <1>9, <1>10, <1>11,
     <1>12, <1>12a, <1>13, <1>14, <1>15 DEF Next, SaveStep

\* Every variable keeps its type: a save that is under way has its copy of the
\* scene, its path and, while it writes, its inode.
THEOREM TypeCorrect == Spec => []TypeOK
BY InitTypes, NextTypes, PTL DEF Spec

-----------------------------------------------------------------------------
(* The invariant.  FileIsLastSaved needs to know who can still write to the  *)
(* inode of a path: nobody but a save that is already on record as unsure.   *)

\* Savers of one path are none of them trusted.
OverlapIsDoubtful ==
    \A t, u \in Thread :
        t # u /\ pc[t] # "idle" /\ pc[u] # "idle" /\ job[t].path = job[u].path
            => t \in doubtful

\* Nor is one whose inode somebody else has had open.
TouchedIsDoubtful == touched \subseteq doubtful

\* An inode belongs to one path, whoever still has it open.
Uses(p, n) ==
    \/ file[p] = n
    \/ tmp[p] = n
    \/ \E t \in Thread : job[t].path = p /\ job[t].inode = n

InodeHasOnePath ==
    \A n \in Inode, p, q \in Path : Uses(p, n) /\ Uses(q, n) => p = q

FileIsNotTmp == \A p \in Path : file[p] # None => file[p] # tmp[p]

\* A trusted saver writes to the temporary file, and what it renames is whole.
TrustedIsAlone ==
    \A t \in Thread \ doubtful :
        /\ pc[t] = "write" => tmp[job[t].path] = job[t].inode
        /\ pc[t] = "rename" => /\ tmp[job[t].path] \in Inode
                               /\ content[tmp[job[t].path]] = Whole(t)

\* A saver whose inode was renamed under it may still spoil the file.
OpenFileIsUnsure ==
    \A t \in Thread :
        /\ pc[t] = "write"
        /\ job[t].inode = file[job[t].path]
        => job[t].path \in unsure

\* A temporary file has a saver that has still to rename or to remove it.
TmpHasSaver ==
    \A p \in Path : tmp[p] # None /\ p \notin orphan =>
        \E t \in Thread : /\ pc[t] \in {"write", "rename", "cleanup"}
                          /\ job[t].path = p

FileInv ==
    /\ TypeOK
    /\ OverlapIsDoubtful
    /\ TouchedIsDoubtful
    /\ InodeHasOnePath
    /\ FileIsNotTmp
    /\ TrustedIsAlone
    /\ OpenFileIsUnsure
    /\ TmpHasSaver
    /\ FileIsLastSaved

\* No file exists at first.
LEMMA InitFile == Init => FileInv
BY InitTypes, ConstantsAssumption
   DEF Init, NoJob, FileInv, OverlapIsDoubtful, TouchedIsDoubtful,
       InodeHasOnePath, Uses, FileIsNotTmp, TrustedIsAlone, OpenFileIsUnsure,
       TmpHasSaver, FileIsLastSaved

\* Two threads that write to one inode save to one path.
LEMMA SharedInode ==
    ASSUME FileInv, NEW t \in Thread, NEW u \in OthersOn(t, job[t].inode),
           pc[t] = "write"
    PROVE  u \in doubtful /\ t \in doubtful /\ u \in Thread
<1>1. u \in Thread /\ u # t /\ pc[u] = "write" /\ job[u].inode = job[t].inode
  BY DEF OthersOn
<1>2. job[t].path \in Path /\ job[u].path \in Path /\ job[t].inode \in Inode
  BY <1>1 DEF FileInv, TypeOK
<1>3. job[t].path = job[u].path
  BY <1>1, <1>2 DEF FileInv, InodeHasOnePath, Uses
<1> QED
  BY <1>1, <1>3 DEF FileInv, OverlapIsDoubtful

\* A save begins with a copy; if its path is being saved, both are in doubt.
LEMMA SaveReadFile ==
    ASSUME FileInv, TypeOK', NEW t \in Thread, NEW i \in Id, NEW q \in Path,
           SaveRead(t, i, q)
    PROVE  FileInv'
<1> USE ConstantsAssumption DEF FileInv, TypeOK, Saved, NoJob, At, Goto
<1>1. OverlapIsDoubtful'
  BY DEF SaveRead, Savers, disk, history, OverlapIsDoubtful
<1>2. TouchedIsDoubtful'
  BY DEF SaveRead, Savers, disk, history, TouchedIsDoubtful
<1>3. InodeHasOnePath'
  BY DEF SaveRead, Savers, disk, history, InodeHasOnePath, Uses
<1>4. FileIsNotTmp'
  BY DEF SaveRead, Savers, disk, history, FileIsNotTmp
<1>5. TrustedIsAlone'
  BY DEF SaveRead, Savers, disk, history, TrustedIsAlone, Whole
<1>6. OpenFileIsUnsure'
  BY DEF SaveRead, Savers, disk, history, OpenFileIsUnsure
<1>7. TmpHasSaver'
  BY DEF SaveRead, Savers, disk, history, TmpHasSaver
<1>8. FileIsLastSaved'
  BY DEF SaveRead, Savers, disk, history, FileIsLastSaved
<1> QED
  BY <1>1, <1>2, <1>3, <1>4, <1>5, <1>6, <1>7, <1>8

\* A save opens its temporary file and empties it.
LEMMA OpenTmpFile ==
    ASSUME FileInv, TypeOK', NEW t \in Thread, OpenTmp(t)
    PROVE  FileInv'
<1> USE ConstantsAssumption DEF FileInv, TypeOK, Saved, NoJob, At, Goto
<1> DEFINE q == job[t].path
<1>1. PICK n \in Inode :
          /\ tmp[q] # None => n = tmp[q]
          /\ tmp[q] = None => n \notin Used
          /\ job' = [job EXCEPT ![t].inode = n]
          /\ content' = [content EXCEPT ![n] = Torn]
          /\ touched' = touched \cup OthersOn(t, n)
          /\ tmp' = [tmp EXCEPT ![q] = n]
  BY DEF OpenTmp
<1>2. /\ pc[t] = "open" /\ q \in Path
      /\ pc' = [pc EXCEPT ![t] = "write"]
      /\ UNCHANGED <<scenes, file, doubtful, history>>
  BY DEF OpenTmp
\* An inode that is open, or that a name refers to, is used by one path.
<1>3. \A p \in Path : Uses(p, n) => p = q
  BY <1>1, <1>2 DEF InodeHasOnePath, Uses, Used
<1>4. OverlapIsDoubtful'
  BY <1>1, <1>2 DEF OverlapIsDoubtful
<1>5. TouchedIsDoubtful'
  <2>1. ASSUME NEW u \in OthersOn(t, n)  PROVE u \in doubtful
    BY <1>2, <1>3, <2>1 DEF OthersOn, Uses, OverlapIsDoubtful
  <2> QED
    BY <1>1, <1>2, <2>1 DEF TouchedIsDoubtful
<1>6. InodeHasOnePath'
  BY <1>1, <1>2, <1>3 DEF InodeHasOnePath, Uses
<1>7. FileIsNotTmp'
  BY <1>1, <1>2, <1>3 DEF FileIsNotTmp, Used, history
<1>8. TrustedIsAlone'
  <2> SUFFICES ASSUME NEW u \in Thread \ doubtful
               PROVE  /\ pc'[u] = "write" => tmp'[job'[u].path] = job'[u].inode
                      /\ pc'[u] = "rename" =>
                             /\ tmp'[job'[u].path] \in Inode
                             /\ content'[tmp'[job'[u].path]] = Whole(u)'
    BY <1>2 DEF TrustedIsAlone
  <2>1. CASE u = t
    BY <1>1, <1>2, <2>1
  <2>2. CASE u # t /\ pc[u] \in {"write", "rename"}
    <3>1. job[u].path \in Path /\ job[u].path # q
      BY <1>2, <2>2 DEF OverlapIsDoubtful
    <3>2. job'[u] = job[u] /\ pc'[u] = pc[u]
             /\ tmp'[job[u].path] = tmp[job[u].path]
      BY <1>1, <1>2, <2>2, <3>1
    <3>3. tmp[job[u].path] \in Inode => tmp[job[u].path] # n
      BY <1>3, <3>1 DEF Uses
    <3> QED
      BY <1>1, <2>2, <3>2, <3>3 DEF TrustedIsAlone, Whole
  <2> QED
    BY <1>2, <2>1, <2>2
<1>9. OpenFileIsUnsure'
  BY <1>1, <1>2, <1>3 DEF OpenFileIsUnsure, FileIsNotTmp, Used, history
<1>10. TmpHasSaver'
  BY <1>1, <1>2 DEF TmpHasSaver, history
<1>11. FileIsLastSaved'
  BY <1>1, <1>2, <1>3 DEF FileIsLastSaved, FileIsNotTmp, Uses, Used, history
<1> QED
  BY <1>4, <1>5, <1>6, <1>7, <1>8, <1>9, <1>10, <1>11

\* A save that cannot open its file returns with nothing done.
LEMMA OpenTmpFailsFile ==
    ASSUME FileInv, TypeOK', NEW t \in Thread, OpenTmpFails(t)
    PROVE  FileInv'
<1> USE ConstantsAssumption DEF FileInv, TypeOK, Saved, NoJob, At, Goto
<1>1. OverlapIsDoubtful'
  BY DEF OpenTmpFails, disk, history, OverlapIsDoubtful
<1>2. TouchedIsDoubtful'
  BY DEF OpenTmpFails, disk, history, TouchedIsDoubtful
<1>3. InodeHasOnePath'
  BY DEF OpenTmpFails, disk, history, InodeHasOnePath, Uses
<1>4. FileIsNotTmp'
  BY DEF OpenTmpFails, disk, history, FileIsNotTmp
<1>5. TrustedIsAlone'
  BY DEF OpenTmpFails, disk, history, TrustedIsAlone, Whole
<1>6. OpenFileIsUnsure'
  BY DEF OpenTmpFails, disk, history, OpenFileIsUnsure
<1>7. TmpHasSaver'
  BY DEF OpenTmpFails, disk, history, TmpHasSaver
<1>8. FileIsLastSaved'
  BY DEF OpenTmpFails, disk, history, FileIsLastSaved
<1> QED
  BY <1>1, <1>2, <1>3, <1>4, <1>5, <1>6, <1>7, <1>8

\* A save writes its whole copy.
LEMMA WriteFile ==
    ASSUME FileInv, TypeOK', NEW t \in Thread, Write(t)
    PROVE  FileInv'
<1> USE ConstantsAssumption DEF FileInv, TypeOK, Saved, NoJob, At, Goto
<1>1. OverlapIsDoubtful'
  BY DEF Write, WriteTo, OthersOn, history, OverlapIsDoubtful
<1>2. TouchedIsDoubtful'
  BY SharedInode DEF Write, WriteTo, OthersOn, history, TouchedIsDoubtful
<1>3. InodeHasOnePath'
  BY DEF Write, WriteTo, OthersOn, history, InodeHasOnePath, Uses
<1>4. FileIsNotTmp'
  BY DEF Write, WriteTo, OthersOn, history, FileIsNotTmp
<1>5. TrustedIsAlone'
  BY DEF Write, WriteTo, Whole, OthersOn, history, TrustedIsAlone,
         OverlapIsDoubtful, TouchedIsDoubtful, InodeHasOnePath, Uses
<1>6. OpenFileIsUnsure'
  BY DEF Write, WriteTo, OthersOn, history, OpenFileIsUnsure
<1>7. TmpHasSaver'
  BY DEF Write, WriteTo, OthersOn, history, TmpHasSaver
<1>8. FileIsLastSaved'
  BY DEF Write, WriteTo, OthersOn, history, FileIsLastSaved, InodeHasOnePath,
         OpenFileIsUnsure, Uses
<1> QED
  BY <1>1, <1>2, <1>3, <1>4, <1>5, <1>6, <1>7, <1>8

\* A write that out.good() sees to have failed goes on to the cleanup.
LEMMA WriteFailsFile ==
    ASSUME FileInv, TypeOK', NEW t \in Thread, WriteFails(t)
    PROVE  FileInv'
<1> USE ConstantsAssumption DEF FileInv, TypeOK, Saved, NoJob, At, Goto
<1>1. OverlapIsDoubtful'
  BY DEF WriteFails, WriteTo, OthersOn, history, OverlapIsDoubtful
<1>2. TouchedIsDoubtful'
  BY SharedInode DEF WriteFails, WriteTo, OthersOn, history, TouchedIsDoubtful
<1>3. InodeHasOnePath'
  BY DEF WriteFails, WriteTo, OthersOn, history, InodeHasOnePath, Uses
<1>4. FileIsNotTmp'
  BY DEF WriteFails, WriteTo, OthersOn, history, FileIsNotTmp
<1>5. TrustedIsAlone'
  BY DEF WriteFails, WriteTo, OthersOn, history, TrustedIsAlone,
         OverlapIsDoubtful, InodeHasOnePath, Uses, Whole
<1>6. OpenFileIsUnsure'
  BY DEF WriteFails, WriteTo, OthersOn, history, OpenFileIsUnsure
<1>7. TmpHasSaver'
  BY DEF WriteFails, WriteTo, OthersOn, history, TmpHasSaver
<1>8. FileIsLastSaved'
  BY DEF WriteFails, WriteTo, OthersOn, history, FileIsLastSaved,
         InodeHasOnePath, OpenFileIsUnsure, Uses
<1> QED
  BY <1>1, <1>2, <1>3, <1>4, <1>5, <1>6, <1>7, <1>8

\* A flush that fails unseen leaves a torn file, and the path in doubt.
LEMMA WriteFailsUnseenFile ==
    ASSUME FileInv, TypeOK', NEW t \in Thread, WriteFailsUnseen(t)
    PROVE  FileInv'
<1> USE ConstantsAssumption DEF FileInv, TypeOK, Saved, NoJob, At, Goto
<1>1. OverlapIsDoubtful'
  BY DEF WriteFailsUnseen, WriteTo, OthersOn, history, OverlapIsDoubtful
<1>2. TouchedIsDoubtful'
  BY SharedInode
     DEF WriteFailsUnseen, WriteTo, OthersOn, history, TouchedIsDoubtful
<1>3. InodeHasOnePath'
  BY DEF WriteFailsUnseen, WriteTo, OthersOn, history, InodeHasOnePath, Uses
<1>4. FileIsNotTmp'
  BY DEF WriteFailsUnseen, WriteTo, OthersOn, history, FileIsNotTmp
<1>5. TrustedIsAlone'
  BY DEF WriteFailsUnseen, WriteTo, OthersOn, history, TrustedIsAlone,
         OverlapIsDoubtful, InodeHasOnePath, Uses, Whole
<1>6. OpenFileIsUnsure'
  BY DEF WriteFailsUnseen, WriteTo, OthersOn, history, OpenFileIsUnsure
<1>7. TmpHasSaver'
  BY DEF WriteFailsUnseen, WriteTo, OthersOn, history, TmpHasSaver
<1>8. FileIsLastSaved'
  BY DEF WriteFailsUnseen, WriteTo, OthersOn, history, FileIsLastSaved,
         InodeHasOnePath, OpenFileIsUnsure, Uses
<1> QED
  BY <1>1, <1>2, <1>3, <1>4, <1>5, <1>6, <1>7, <1>8

\* The temporary file becomes the scene's file.
LEMMA RenameFile ==
    ASSUME FileInv, TypeOK', NEW t \in Thread, Rename(t)
    PROVE  FileInv'
<1> USE ConstantsAssumption DEF FileInv, TypeOK, Saved, NoJob, At, Goto
<1>1. OverlapIsDoubtful'
  BY DEF Rename, OverlapIsDoubtful
<1>2. TouchedIsDoubtful'
  BY DEF Rename, TouchedIsDoubtful
<1>3. InodeHasOnePath'
  BY DEF Rename, InodeHasOnePath, Uses
<1>4. FileIsNotTmp'
  BY DEF Rename, FileIsNotTmp
<1>5. TrustedIsAlone'
  BY DEF Rename, Whole, TrustedIsAlone, OverlapIsDoubtful
<1>6. OpenFileIsUnsure'
  BY DEF Rename, OpenFileIsUnsure, OverlapIsDoubtful
<1>7. TmpHasSaver'
  BY DEF Rename, TmpHasSaver
<1>8. FileIsLastSaved'
  BY DEF Rename, FileIsLastSaved, TrustedIsAlone
<1> QED
  BY <1>1, <1>2, <1>3, <1>4, <1>5, <1>6, <1>7, <1>8

\* A rename that fails goes on to the cleanup.
LEMMA RenameFailsFile ==
    ASSUME FileInv, TypeOK', NEW t \in Thread, RenameFails(t)
    PROVE  FileInv'
<1> USE ConstantsAssumption DEF FileInv, TypeOK, Saved, NoJob, At, Goto
<1>1. OverlapIsDoubtful'
  BY DEF RenameFails, disk, history, OverlapIsDoubtful
<1>2. TouchedIsDoubtful'
  BY DEF RenameFails, disk, history, TouchedIsDoubtful
<1>3. InodeHasOnePath'
  BY DEF RenameFails, disk, history, InodeHasOnePath, Uses
<1>4. FileIsNotTmp'
  BY DEF RenameFails, disk, history, FileIsNotTmp
<1>5. TrustedIsAlone'
  BY DEF RenameFails, disk, history, TrustedIsAlone, Whole
<1>6. OpenFileIsUnsure'
  BY DEF RenameFails, disk, history, OpenFileIsUnsure
<1>7. TmpHasSaver'
  BY DEF RenameFails, disk, history, TmpHasSaver
<1>8. FileIsLastSaved'
  BY DEF RenameFails, disk, history, FileIsLastSaved
<1> QED
  BY <1>1, <1>2, <1>3, <1>4, <1>5, <1>6, <1>7, <1>8

\* A save that failed removes its temporary file.
LEMMA CleanupFile ==
    ASSUME FileInv, TypeOK', NEW t \in Thread, Cleanup(t)
    PROVE  FileInv'
<1> USE ConstantsAssumption DEF FileInv, TypeOK, Saved, NoJob, At, Goto
<1>1. OverlapIsDoubtful'
  BY DEF Cleanup, Return, OverlapIsDoubtful
<1>2. TouchedIsDoubtful'
  BY DEF Cleanup, Return, TouchedIsDoubtful
<1>3. InodeHasOnePath'
  BY DEF Cleanup, Return, InodeHasOnePath, Uses
<1>4. FileIsNotTmp'
  BY DEF Cleanup, Return, FileIsNotTmp
<1>5. TrustedIsAlone'
  BY DEF Cleanup, Return, TrustedIsAlone, OverlapIsDoubtful, Whole
<1>6. OpenFileIsUnsure'
  BY DEF Cleanup, Return, OpenFileIsUnsure
<1>7. TmpHasSaver'
  BY DEF Cleanup, Return, TmpHasSaver
<1>8. FileIsLastSaved'
  BY DEF Cleanup, Return, FileIsLastSaved
<1> QED
  BY <1>1, <1>2, <1>3, <1>4, <1>5, <1>6, <1>7, <1>8

\* Or leaves it where it is, on record.
LEMMA CleanupFailsFile ==
    ASSUME FileInv, TypeOK', NEW t \in Thread, CleanupFails(t)
    PROVE  FileInv'
<1> USE ConstantsAssumption DEF FileInv, TypeOK, Saved, NoJob, At, Goto
<1>1. OverlapIsDoubtful'
  BY DEF CleanupFails, Return, disk, OverlapIsDoubtful
<1>2. TouchedIsDoubtful'
  BY DEF CleanupFails, Return, disk, TouchedIsDoubtful
<1>3. InodeHasOnePath'
  <2>1. ASSUME NEW p \in Path, NEW n \in Inode, Uses(p, n)'  PROVE Uses(p, n)
    BY <2>1 DEF CleanupFails, Return, disk, Uses
  <2> QED
    BY <2>1 DEF InodeHasOnePath
<1>4. FileIsNotTmp'
  BY DEF CleanupFails, Return, disk, FileIsNotTmp
<1>5. TrustedIsAlone'
  BY DEF CleanupFails, Return, disk, TrustedIsAlone, Whole
<1>6. OpenFileIsUnsure'
  BY DEF CleanupFails, Return, disk, OpenFileIsUnsure
<1>7. TmpHasSaver'
  BY DEF CleanupFails, Return, disk, TmpHasSaver
<1>8. FileIsLastSaved'
  BY DEF CleanupFails, Return, disk, FileIsLastSaved
<1> QED
  BY <1>1, <1>2, <1>3, <1>4, <1>5, <1>6, <1>7, <1>8

\* A save that succeeded records its path, and touches no file.
LEMMA RecordPathFile ==
    ASSUME FileInv, TypeOK', NEW t \in Thread, RecordPath(t)
    PROVE  FileInv'
<1> USE ConstantsAssumption DEF FileInv, TypeOK, Saved, NoJob, At, Goto
<1>1. OverlapIsDoubtful'
  BY DEF RecordPath, Return, disk, history, OverlapIsDoubtful
<1>2. TouchedIsDoubtful'
  BY DEF RecordPath, Return, disk, history, TouchedIsDoubtful
<1>3. InodeHasOnePath'
  <2>1. ASSUME NEW p \in Path, NEW n \in Inode, Uses(p, n)'  PROVE Uses(p, n)
    BY <2>1 DEF RecordPath, Return, disk, Uses
  <2> QED
    BY <2>1 DEF InodeHasOnePath
<1>4. FileIsNotTmp'
  BY DEF RecordPath, Return, disk, history, FileIsNotTmp
<1>5. TrustedIsAlone'
  BY DEF RecordPath, Return, disk, history, TrustedIsAlone, Whole
<1>6. OpenFileIsUnsure'
  BY DEF RecordPath, Return, disk, history, OpenFileIsUnsure
<1>7. TmpHasSaver'
  BY DEF RecordPath, Return, disk, history, TmpHasSaver
<1>8. FileIsLastSaved'
  BY DEF RecordPath, Return, disk, history, FileIsLastSaved
<1> QED
  BY <1>1, <1>2, <1>3, <1>4, <1>5, <1>6, <1>7, <1>8

\* A process that dies leaves its files, and no save under way.
LEMMA RestartFile ==
    ASSUME FileInv, TypeOK', Restart
    PROVE  FileInv'
<1> USE ConstantsAssumption DEF FileInv, TypeOK, Saved, NoJob, At, Goto
<1>1. OverlapIsDoubtful'
  BY DEF Restart, disk, OverlapIsDoubtful
<1>2. TouchedIsDoubtful'
  BY DEF Restart, disk, TouchedIsDoubtful
<1>3. InodeHasOnePath'
  BY DEF Restart, disk, InodeHasOnePath, Uses
<1>4. FileIsNotTmp'
  BY DEF Restart, disk, FileIsNotTmp
<1>5. TrustedIsAlone'
  BY DEF Restart, disk, TrustedIsAlone
<1>6. OpenFileIsUnsure'
  BY DEF Restart, disk, OpenFileIsUnsure
<1>7. TmpHasSaver'
  BY DEF Restart, disk, TmpHasSaver
<1>8. FileIsLastSaved'
  BY DEF Restart, disk, FileIsLastSaved
<1> QED
  BY <1>1, <1>2, <1>3, <1>4, <1>5, <1>6, <1>7, <1>8

\* Scenes come and go in memory without a file being touched.
LEMMA MemoryFile ==
    ASSUME FileInv, TypeOK', UNCHANGED <<disk, saver, history>>
    PROVE  FileInv'
BY DEF disk, saver, history, FileInv, OverlapIsDoubtful, TouchedIsDoubtful,
       InodeHasOnePath, Uses, FileIsNotTmp, TrustedIsAlone, Whole,
       OpenFileIsUnsure, TmpHasSaver, FileIsLastSaved

\* Every step keeps the invariant.
LEMMA NextFile == FileInv /\ [Next]_vars => FileInv'
<1> SUFFICES ASSUME FileInv, [Next]_vars
             PROVE  FileInv'
  OBVIOUS
<1>1. TypeOK'
  BY NextTypes DEF FileInv
<1>2. ASSUME NEW i \in Id, NEW v \in Version, NEW p \in Path \cup {None},
             Edit(i, v, p)
      PROVE  FileInv'
  BY <1>1, <1>2, MemoryFile DEF Edit
<1>3. ASSUME NEW i \in Id, Unload(i)  PROVE FileInv'
  BY <1>1, <1>3, MemoryFile DEF Unload
<1>4. ASSUME NEW p \in Path, Load(p)  PROVE FileInv'
  BY <1>1, <1>4, MemoryFile DEF Load
<1>5. CASE UNCHANGED vars
  BY <1>1, <1>5, MemoryFile DEF vars
<1> QED
  BY <1>1, <1>2, <1>3, <1>4, <1>5, SaveReadFile, OpenTmpFile,
     OpenTmpFailsFile, WriteFile, WriteFailsFile, WriteFailsUnseenFile,
     RenameFile, RenameFailsFile, CleanupFile, CleanupFailsFile,
     RecordPathFile, RestartFile
     DEF Next, SaveStep

\* scene.save replaces the file of a path as a whole or not at all, whichever
\* saves overlap, fail or are cut short by the end of the process: the file is
\* what the last save that renamed had copied, unless an overlap or a full disk
\* that nobody was told of is on record.
THEOREM SavedWhole == Spec => []FileIsLastSaved
<1>1. FileInv => FileIsLastSaved
  BY DEF FileInv
<1> QED
  BY InitFile, NextFile, <1>1, PTL DEF Spec

\* A temporary file that no dead process left has a save that will rename or
\* remove it, however many saves share it.
THEOREM TmpCleanedUp == Spec => []NoOrphanTmp
<1>1. FileInv => NoOrphanTmp
  BY DEF FileInv, TmpHasSaver, NoOrphanTmp, Savers
<1> QED
  BY InitFile, NextFile, <1>1, PTL DEF Spec

-----------------------------------------------------------------------------
(* Lists *)

\* A set of numbers that is not empty has one whose predecessor is not in it.
LEMMA LeastNumber ==
    ASSUME NEW T \in SUBSET Nat, T # {}
    PROVE  \E m \in T : m = 0 \/ m - 1 \notin T
<1> DEFINE Less == OpToRel(<, Nat)
<1>1. IsWellFoundedOn(Less, Nat)
  BY NatLessThanWellFounded
<1> HIDE DEF Less
<1>2. PICK m \in T : \A n \in T : <<n, m>> \notin Less
  BY <1>1, WFMin
<1>3. ASSUME m # 0  PROVE m - 1 \notin T
  <2>1. m - 1 \in Nat /\ m - 1 < m
    BY <1>3
  <2>2. <<m - 1, m>> \in Less
    BY <2>1 DEF Less, OpToRel
  <2> QED  BY <1>2, <2>2
<1> QED  BY <1>2, <1>3

\* The recursive function behind FlattenSeq is what its equations say.
LEMMA FlattenUnfolds ==
    ASSUME NEW S, NEW seqs \in Seq(Seq(S)), Len(seqs) # 0
    PROVE  \E flat \in [1..Len(seqs) -> Seq(S)] :
               /\ FlattenSeq(seqs) = flat[Len(seqs)]
               /\ flat[1] = seqs[1]
               /\ \A i \in 2..Len(seqs) : flat[i] = flat[i - 1] \o seqs[i]
<1> DEFINE N == Len(seqs)
           Flat(f, m) == [i \in 1..m |-> IF i = 1 THEN seqs[i]
                                         ELSE f[i - 1] \o seqs[i]]
           flatten == CHOOSE f : f = Flat(f, N)
           Works(m) == \E f \in [1..m -> Seq(S)] : f = Flat(f, m)
<1>0. N \in Nat /\ \A i \in 1..N : seqs[i] \in Seq(S)
  OBVIOUS
<1>1. \A m \in 0..N : Works(m)
  <2> DEFINE Bad == {m \in 0..N : ~Works(m)}
  <2>1. SUFFICES ASSUME Bad # {}  PROVE FALSE
    OBVIOUS
  <2>2. Bad \in SUBSET Nat
    <3> HIDE DEF Works
    <3> QED  BY <1>0
  <2>3. PICK m \in Bad : m = 0 \/ m - 1 \notin Bad
    BY <2>1, <2>2, LeastNumber
  <2>4. CASE m = 0
    <3>1. [i \in 1..0 |-> <<>>] \in [1..0 -> Seq(S)]
      OBVIOUS
    <3>2. [i \in 1..0 |-> <<>>] = Flat([i \in 1..0 |-> <<>>], 0)
      OBVIOUS
    <3> QED  BY <2>3, <2>4, <3>1, <3>2
  <2>5. CASE m # 0
    <3>1. m - 1 \in 0..N /\ m \in 1..N
      BY <1>0, <2>5
    <3>2. PICK f \in [1..(m - 1) -> Seq(S)] : f = Flat(f, m - 1)
      BY <2>3, <2>5, <3>1
    <3> DEFINE g == [i \in 1..m |-> IF i = m THEN IF m = 1 THEN seqs[m]
                                                  ELSE f[m - 1] \o seqs[m]
                                    ELSE f[i]]
    <3>3. g \in [1..m -> Seq(S)]
      <4>1. m # 1 => f[m - 1] \in Seq(S)
        BY <3>1, <3>2
      <4>2. seqs[m] \in Seq(S)
        BY <1>0, <3>1
      <4>3. m # 1 => f[m - 1] \o seqs[m] \in Seq(S)
        BY <4>1, <4>2
      <4>4. \A i \in 1..m : i # m => f[i] \in Seq(S)
        BY <3>1, <3>2
      <4> QED  BY <4>2, <4>3, <4>4
    <3>4. ASSUME NEW i \in 1..m
          PROVE  g[i] = IF i = 1 THEN seqs[i] ELSE g[i - 1] \o seqs[i]
      <4>1. CASE i = m
        BY <3>1, <4>1
      <4>2. CASE i # m
        <5>1. i \in 1..(m - 1)
          BY <3>1, <4>2
        <5>2. f[i] = IF i = 1 THEN seqs[i] ELSE f[i - 1] \o seqs[i]
          BY <3>2, <5>1
        <5>3. i # 1 => i - 1 \in 1..m /\ i - 1 # m
          BY <3>1, <4>2
        <5>4. g[i] = f[i] /\ (i # 1 => g[i - 1] = f[i - 1])
          BY <4>2, <5>3
        <5> QED  BY <5>2, <5>4
      <4> QED  BY <4>1, <4>2
    <3>5. g = Flat(g, m)
      <4> HIDE DEF g
      <4>1. g = [i \in 1..m |-> g[i]]
        BY <3>3
      <4> QED  BY <3>4, <4>1
    <3> HIDE DEF g
    <3> QED  BY <2>3, <3>3, <3>5
  <2> QED  BY <2>4, <2>5
<1>2. flatten = Flat(flatten, N)
  <2>1. PICK f \in [1..N -> Seq(S)] : f = Flat(f, N)
    <3>1. Works(N)
      <4> HIDE DEF Works
      <4> QED  BY <1>0, <1>1
    <3> QED  BY <3>1
  <2> HIDE DEF Flat
  <2> QED  BY <2>1
<1>3. \A i \in 1..N : flatten[i] \in Seq(S)
  <2> DEFINE Bad == {i \in 1..N : flatten[i] \notin Seq(S)}
  <2> HIDE DEF flatten
  <2>1. SUFFICES ASSUME Bad # {}  PROVE FALSE
    OBVIOUS
  <2>2. Bad \in SUBSET Nat
    BY <1>0
  <2>3. PICK i \in Bad : i = 0 \/ i - 1 \notin Bad
    BY <2>1, <2>2, LeastNumber
  <2>4. flatten[i] = IF i = 1 THEN seqs[i] ELSE flatten[i - 1] \o seqs[i]
    BY <1>2
  <2>5. CASE i = 1
    BY <1>0, <2>4, <2>5
  <2>6. CASE i # 1
    <3>1. i - 1 \in 1..N
      BY <1>0, <2>6
    <3>2. flatten[i - 1] \in Seq(S) /\ seqs[i] \in Seq(S)
      BY <1>0, <2>3, <3>1
    <3>3. flatten[i - 1] \o seqs[i] \in Seq(S)
      BY <3>2
    <3> QED  BY <2>3, <2>4, <2>6, <3>3
  <2> QED  BY <2>5, <2>6
<1>4. FlattenSeq(seqs) = flatten[N]
  BY DEF FlattenSeq
<1> HIDE DEF flatten
<1>5. \A i \in 1..N : flatten[i] = IF i = 1 THEN seqs[i] ELSE flatten[i - 1] \o seqs[i]
  BY <1>2
<1>6. flatten \in [1..N -> Seq(S)]
  <2>1. flatten = [i \in 1..N |-> flatten[i]]
    BY <1>2
  <2> QED  BY <1>3, <2>1
<1>7. flatten[1] = seqs[1]
  <2>1. N # 0 /\ N \in Nat
    BY <1>0
  <2>2. 1 \in 1..N
    <3> HIDE DEF N
    <3> QED  BY <2>1
  <2> QED  BY <1>5, <2>2
<1>8. ASSUME NEW i \in 2..N  PROVE flatten[i] = flatten[i - 1] \o seqs[i]
  <2>1. i \in 1..N /\ i # 1
    BY <1>0
  <2> QED  BY <1>5, <2>1
<1> QED  BY <1>4, <1>6, <1>7, <1>8

\* Lists of S put one after the other make a list of S.
LEMMA FlattenType ==
    ASSUME NEW S, NEW seqs \in Seq(Seq(S))
    PROVE  FlattenSeq(seqs) \in Seq(S)
<1>1. CASE Len(seqs) = 0
  <2>1. seqs = <<>>
    BY <1>1
  <2> QED  BY <1>1, <2>1 DEF FlattenSeq
<1>2. CASE Len(seqs) # 0
  <2>1. Len(seqs) \in 1..Len(seqs)
    BY <1>2
  <2>2. PICK flat \in [1..Len(seqs) -> Seq(S)] : FlattenSeq(seqs) = flat[Len(seqs)]
    BY <1>2, FlattenUnfolds
  <2>3. flat[Len(seqs)] \in Seq(S)
    BY <2>1, <2>2
  <2> QED  BY <2>2, <2>3
<1> QED  BY <1>1, <1>2

\* Two lists one after the other have what either has.
LEMMA ConcatHas ==
    ASSUME NEW S, NEW s \in Seq(S), NEW t \in Seq(S)
    PROVE  s \o t \in Seq(S) /\ Range(s \o t) = Range(s) \cup Range(t)
<1>1. Len(s) \in Nat /\ Len(t) \in Nat /\ Len(s \o t) = Len(s) + Len(t)
  OBVIOUS
<1>2. \A k \in 1..Len(s) : (s \o t)[k] = s[k]
  OBVIOUS
<1>3. \A k \in 1..Len(t) : (s \o t)[Len(s) + k] = t[k]
  OBVIOUS
<1>4. /\ DOMAIN s = 1..Len(s) /\ DOMAIN t = 1..Len(t)
      /\ DOMAIN (s \o t) = 1..(Len(s) + Len(t))
  OBVIOUS
<1> DEFINE u == s \o t
<1>5. s \o t \in Seq(S)
  OBVIOUS
<1> HIDE DEF u
<1>6. ASSUME NEW e \in Range(s)  PROVE e \in Range(u)
  <2>1. PICK k \in 1..Len(s) : e = s[k]
    BY <1>4 DEF Range
  <2>2. k \in DOMAIN u /\ u[k] = e
    BY <1>1, <1>2, <1>4, <2>1 DEF u
  <2> QED  BY <2>2 DEF Range
<1>7. ASSUME NEW e \in Range(t)  PROVE e \in Range(u)
  <2>1. PICK k \in 1..Len(t) : e = t[k]
    BY <1>4 DEF Range
  <2>2. Len(s) + k \in DOMAIN u /\ u[Len(s) + k] = e
    BY <1>1, <1>3, <1>4, <2>1 DEF u
  <2> QED  BY <2>2 DEF Range
<1>8. ASSUME NEW e \in Range(u)  PROVE e \in Range(s) \cup Range(t)
  <2>1. PICK k \in 1..(Len(s) + Len(t)) : e = u[k]
    BY <1>4 DEF Range, u
  <2>2. CASE k \in 1..Len(s)
    BY <1>2, <1>4, <2>1, <2>2 DEF Range, u
  <2>3. CASE k \notin 1..Len(s)
    <3>1. k - Len(s) \in 1..Len(t) /\ k = Len(s) + (k - Len(s))
      BY <1>1, <2>1, <2>3
    <3>2. u[k] = t[k - Len(s)]
      BY <1>3, <3>1 DEF u
    <3> QED  BY <1>4, <2>1, <3>1, <3>2 DEF Range
  <2> QED  BY <2>2, <2>3
<1>9. Range(u) = Range(s) \cup Range(t)
  BY <1>6, <1>7, <1>8
<1> QED  BY <1>5, <1>9 DEF u

\* Flattening loses nothing of any of the lists.
LEMMA FlattenHas ==
    ASSUME NEW S, NEW seqs \in Seq(Seq(S)), NEW k \in DOMAIN seqs
    PROVE  Range(seqs[k]) \subseteq Range(FlattenSeq(seqs))
<1> DEFINE N == Len(seqs)
<1>1. N \in Nat /\ k \in 1..N /\ N # 0 /\ \A i \in 1..N : seqs[i] \in Seq(S)
  OBVIOUS
<1>2. PICK flat \in [1..N -> Seq(S)] :
          /\ FlattenSeq(seqs) = flat[N]
          /\ flat[1] = seqs[1]
          /\ \A i \in 2..N : flat[i] = flat[i - 1] \o seqs[i]
  BY <1>1, FlattenUnfolds
<1> HIDE DEF N
<1>3. ASSUME NEW i \in 2..N
      PROVE  Range(flat[i]) = Range(flat[i - 1]) \cup Range(seqs[i])
  <2>1. i - 1 \in 1..N /\ i \in 1..N
    BY <1>1
  <2>2. flat[i - 1] \in Seq(S) /\ seqs[i] \in Seq(S) /\ flat[i] = flat[i - 1] \o seqs[i]
    BY <1>1, <1>2, <2>1
  <2> QED  BY <2>2, ConcatHas
<1>4. \A i \in 0..N : i >= k => Range(seqs[k]) \subseteq Range(flat[i])
  <2> DEFINE Bad == {i \in 0..N : i >= k /\ ~(Range(seqs[k]) \subseteq Range(flat[i]))}
  <2>1. SUFFICES ASSUME Bad # {}  PROVE FALSE
    OBVIOUS
  <2>2. Bad \in SUBSET Nat
    BY <1>1
  <2>3. PICK i \in Bad : i = 0 \/ i - 1 \notin Bad
    <3> HIDE DEF Bad
    <3> QED  BY <2>1, <2>2, LeastNumber
  <2>4. i \in 1..N /\ i >= k
    BY <1>1, <2>3
  <2>5. CASE i = 1
    BY <1>1, <1>2, <2>3, <2>4, <2>5
  <2>6. CASE i # 1
    <3>1. i \in 2..N
      BY <1>1, <2>4, <2>6
    <3>2. CASE i = k
      BY <1>3, <2>3, <3>1, <3>2
    <3>3. CASE i # k
      <4>1. i - 1 \in 0..N /\ i - 1 >= k
        BY <1>1, <2>4, <3>1, <3>3
      <4>2. Range(seqs[k]) \subseteq Range(flat[i - 1])
        BY <2>3, <2>4, <4>1
      <4>3. Range(flat[i]) = Range(flat[i - 1]) \cup Range(seqs[i])
        BY <1>3, <3>1
      <4> QED  BY <2>3, <4>2, <4>3
    <3> QED  BY <3>2, <3>3
  <2> QED  BY <2>5, <2>6
<1> QED  BY <1>1, <1>2, <1>4

\* A flattened list has what one of its lists has, and nothing else.
LEMMA FlattenRange ==
    ASSUME NEW S, NEW seqs \in Seq(Seq(S))
    PROVE  Range(FlattenSeq(seqs)) = UNION {Range(seqs[k]) : k \in DOMAIN seqs}
<1> DEFINE U == UNION {Range(seqs[k]) : k \in DOMAIN seqs}
<1>1. \A k \in DOMAIN seqs : seqs[k] \in Seq(U)
  <2> SUFFICES ASSUME NEW k \in DOMAIN seqs  PROVE seqs[k] \in Seq(U)
    OBVIOUS
  <2>1. seqs[k] \in Seq(Range(seqs[k])) /\ Range(seqs[k]) \subseteq U
    <3>1. seqs[k] \in Seq(S)
      OBVIOUS
    <3> QED  BY <3>1 DEF Range
  <2> HIDE DEF U
  <2> QED  BY <2>1
<1>2. seqs \in Seq(Seq(U))
  <2> HIDE DEF U
  <2> QED  BY <1>1
<1>3. Range(FlattenSeq(seqs)) \subseteq U
  <2> HIDE DEF U
  <2>1. FlattenSeq(seqs) \in Seq(U)
    BY <1>2, FlattenType
  <2> QED  BY <2>1 DEF Range
<1> QED  BY <1>3, FlattenHas

\* A sequence of anything is a list.
LEMMA SequencesAreLists ==
    ASSUME NEW S, NEW s \in Seq(S)
    PROVE  IsList(s)
<1>1. Len(s) \in Nat /\ s \in [1..Len(s) -> Range(s)]
  BY DEF Range
<1> QED  BY <1>1 DEF IsList

\* What is made of a list item by item is a list,
LEMMA MappedList ==
    ASSUME NEW items, IsList(items), NEW s, s = [k \in DOMAIN items |-> s[k]]
    PROVE  IsList(s)
<1>1. Len(items) \in Nat /\ DOMAIN items = 1..Len(items)
  BY DEF IsList
<1>2. s \in [1..Len(items) -> Range(s)]
  BY <1>1 DEF Range
<1> QED  BY <1>1, <1>2 DEF IsList

\* of the type that is made,
LEMMA MappedType ==
    ASSUME NEW items, IsList(items), NEW S, NEW s \in [DOMAIN items -> S]
    PROVE  s \in Seq(S)
<1>1. Len(items) \in Nat /\ DOMAIN items = 1..Len(items)
  BY DEF IsList
<1> QED  BY <1>1

\* A list of one.
LEMMA OneList ==
    ASSUME NEW S, NEW e \in S
    PROVE  <<e>> \in Seq(S) /\ Range(<<e>>) = {e}
<1> DEFINE s == <<e>>
<1>1. s \in Seq(S) /\ DOMAIN s = {1} /\ s[1] = e
  OBVIOUS
<1> HIDE DEF s
<1>2. Range(s) = {e}
  BY <1>1 DEF Range
<1> QED  BY <1>1, <1>2 DEF s

\* What is written on a condition.
LEMMA WhenRange ==
    ASSUME NEW e, NEW c \in BOOLEAN
    PROVE  IsList(When(c, e)) /\ Range(When(c, e)) = IF c THEN {e} ELSE {}
<1>1. CASE c
  <2> DEFINE S == {e}
  <2>1. e \in S
    OBVIOUS
  <2> HIDE DEF S
  <2> QED  BY <1>1, <2>1, OneList, SequencesAreLists DEF When
<1>2. CASE ~c
  <2> DEFINE none == <<>>
  <2>1. none \in Seq({}) /\ DOMAIN none = {}
    OBVIOUS
  <2>2. When(c, e) = none
    BY <1>2 DEF When
  <2> HIDE DEF none
  <2> QED  BY <1>2, <2>1, <2>2, SequencesAreLists DEF Range
<1> QED  BY <1>1, <1>2

-----------------------------------------------------------------------------
(* Trees: the items below an id *)

\* What items can be below: one of them, or none.
Tops(items) == {""} \cup Range(Field(items, "id"))

\* Each child of the id with what the function has below that child.
Families(items, below, id) ==
    [k \in DOMAIN items |->
        IF Value(items[k], "parent") = id
        THEN <<items[k]>> \o below[Value(items[k], "id")]
        ELSE <<>>]

\* The levels of Below: how far down the list of what is below an id goes.
Unfolds(items, below) ==
    /\ \A id \in Tops(items) : below[0][id] = <<>>
    /\ \A n \in 1..Len(items) : \A id \in Tops(items) :
           below[n][id] = FlattenSeq(Families(items, below[n - 1], id))

\* The recursive function behind Below is what its equations say.
LEMMA BelowUnfolds ==
    ASSUME NEW I, NEW items \in Seq(I)
    PROVE  \E below : Below(items) = below[Len(items)] /\ Unfolds(items, below)
<1> DEFINE N == Len(items)
           Heads == Tops(items)
           Under(below, id, k) == IF Value(items[k], "parent") = id
                                  THEN <<items[k]>> \o below[Value(items[k], "id")]
                                  ELSE <<>>
           Level(below, n) ==
               [id \in Heads |->
                   IF n = 0 THEN <<>>
                   ELSE FlattenSeq([k \in DOMAIN items |-> Under(below, id, k)])]
           Levels(f, m) == [n \in 0..m |-> Level(f[n - 1], n)]
           below == CHOOSE f : f = Levels(f, N)
           Works(m) == \E f : f = Levels(f, m)
<1>1. N \in Nat /\ DOMAIN items = 1..N
  OBVIOUS
<1>2. Works(N)
  <2> DEFINE Bad == {m \in 0..N : ~Works(m)}
  <2>1. SUFFICES ASSUME Bad # {}  PROVE FALSE
    <3> HIDE DEF Works
    <3> QED  BY <1>1
  <2>2. Bad \in SUBSET Nat
    <3> HIDE DEF Works
    <3> QED  BY <1>1
  <2>3. PICK m \in Bad : m = 0 \/ m - 1 \notin Bad
    <3> HIDE DEF Bad
    <3> QED  BY <2>1, <2>2, LeastNumber
  <2>4. \A b, c : Level(b, 0) = Level(c, 0)
    OBVIOUS
  <2> HIDE DEF Level
  <2>5. CASE m = 0
    <3> DEFINE g == [n \in 0..0 |-> Level(0, 0)]
    <3>1. \A n \in 0..0 : g[n] = Level(g[n - 1], n)
      BY <2>4
    <3>2. g = Levels(g, 0)
      BY <3>1
    <3> QED  BY <2>3, <2>5, <3>2
  <2>6. CASE m # 0
    <3>1. m - 1 \in 0..N /\ m \in 1..N
      BY <1>1, <2>6
    <3>2. PICK f : f = Levels(f, m - 1)
      BY <2>3, <2>6, <3>1
    <3> DEFINE g == [n \in 0..m |-> IF n = m THEN Level(f[m - 1], m) ELSE f[n]]
    <3>3. ASSUME NEW n \in 0..m  PROVE g[n] = Level(g[n - 1], n)
      <4>1. CASE n = m
        BY <3>1, <4>1
      <4>2. CASE n # m
        <5>1. n \in 0..(m - 1)
          BY <3>1, <4>2
        <5>2. f[n] = Level(f[n - 1], n)
          BY <3>2, <5>1
        <5>3. CASE n = 0
          BY <2>4, <4>2, <5>2, <5>3
        <5>4. CASE n # 0
          <6>1. n - 1 \in 0..m /\ n - 1 # m
            BY <3>1, <4>2, <5>4
          <6> QED  BY <4>2, <5>2, <6>1
        <5> QED  BY <5>3, <5>4
      <4> QED  BY <4>1, <4>2
    <3>4. g = Levels(g, m)
      <4>1. g = [n \in 0..m |-> g[n]]
        OBVIOUS
      <4> HIDE DEF g
      <4> QED  BY <3>3, <4>1
    <3> HIDE DEF g
    <3> QED  BY <2>3, <3>4
  <2> QED  BY <2>5, <2>6
<1>3. below = Levels(below, N)
  <2> HIDE DEF Levels
  <2> QED  BY <1>2
<1>4. Below(items) = below[N]
  BY DEF Below, Tops
<1> HIDE DEF below
<1>5. ASSUME NEW id \in Heads  PROVE below[0][id] = <<>>
  <2>1. below[0] = Level(below[0 - 1], 0)
    <3> HIDE DEF Level
    <3> QED  BY <1>1, <1>3
  <2> QED  BY <2>1
<1>6. ASSUME NEW n \in 1..N, NEW id \in Heads
      PROVE  below[n][id] = FlattenSeq(Families(items, below[n - 1], id))
  <2>1. below[n] = Level(below[n - 1], n)
    <3> HIDE DEF Level
    <3> QED  BY <1>1, <1>3
  <2>2. n # 0
    OBVIOUS
  <2> QED  BY <2>1, <2>2 DEF Families
<1> QED  BY <1>4, <1>5, <1>6 DEF Unfolds

\* A set of ids that has, with an id, those below it.
Downward(ids, items) ==
    \A k \in DOMAIN items :
        Value(items[k], "parent") \in ids => Value(items[k], "id") \in ids

\* At each level, what is below a member of a downward set has its parent in it.
LEMMA UnfoldedStays ==
    ASSUME NEW I, NEW items \in Seq(I), NEW ids, Downward(ids, items),
           NEW below, Unfolds(items, below)
    PROVE  \A n \in 0..Len(items) : \A id \in Tops(items) \cap ids :
               below[n][id] \in Seq({x \in Range(items) : Value(x, "parent") \in ids})
<1> DEFINE N == Len(items)
           Heads == Tops(items)
           S == {x \in Range(items) : Value(x, "parent") \in ids}
<1>1. N \in Nat /\ DOMAIN items = 1..N
  OBVIOUS
<1>2. /\ \A id \in Heads : below[0][id] = <<>>
      /\ \A n \in 1..N : \A id \in Heads :
                 below[n][id] = FlattenSeq(Families(items, below[n - 1], id))
  BY DEF Unfolds
<1>3. \A n \in 0..N : \A id \in Heads \cap ids : below[n][id] \in Seq(S)
  <2> DEFINE Bad == {n \in 0..N : \E id \in Heads \cap ids : below[n][id] \notin Seq(S)}
  <2>1. SUFFICES ASSUME Bad # {}  PROVE FALSE
    OBVIOUS
  <2>2. Bad \in SUBSET Nat
    BY <1>1
  <2>3. PICK n \in Bad : n = 0 \/ n - 1 \notin Bad
    <3> HIDE DEF Bad
    <3> QED  BY <2>1, <2>2, LeastNumber
  <2>4. PICK id \in Heads \cap ids : below[n][id] \notin Seq(S)
    BY <2>3
  <2>5. CASE n = 0
    <3>1. below[n][id] = <<>>
      BY <1>2, <2>4, <2>5
    <3> HIDE DEF S
    <3> QED  BY <2>4, <3>1
  <2>6. CASE n # 0
    <3>1. n - 1 \in 0..N /\ n \in 1..N
      BY <1>1, <2>6
    <3>2. \A j \in Heads \cap ids : below[n - 1][j] \in Seq(S)
      BY <2>3, <2>6, <3>1
    <3> DEFINE seqs == Families(items, below[n - 1], id)
    <3>3. ASSUME NEW k \in 1..N
          PROVE  seqs[k] \in Seq(S)
      <4>1. CASE Value(items[k], "parent") = id
        <5>1. items[k] \in S
          BY <1>1, <2>4, <4>1 DEF Range
        <5>2. Value(items[k], "id") \in Heads \cap ids
          BY <1>1, <2>4, <4>1 DEF Range, Field, Downward, Tops
        <5>3. below[n - 1][Value(items[k], "id")] \in Seq(S)
          BY <3>2, <5>2
        <5>4. seqs[k] = <<items[k]>> \o below[n - 1][Value(items[k], "id")]
          BY <1>1, <4>1 DEF Families
        <5> HIDE DEF S, seqs
        <5>5. <<items[k]>> \in Seq(S)
          BY <5>1
        <5> QED  BY <5>3, <5>4, <5>5
      <4>2. CASE Value(items[k], "parent") # id
        BY <1>1, <4>2 DEF Families
      <4> QED  BY <4>1, <4>2
    <3>4. seqs = [k \in 1..N |-> seqs[k]]
      BY <1>1 DEF Families
    <3> HIDE DEF seqs
    <3>5. seqs \in Seq(Seq(S))
      <4> HIDE DEF S
      <4> QED  BY <1>1, <3>3, <3>4
    <3>6. below[n][id] = FlattenSeq(seqs)
      BY <1>2, <2>4, <3>1 DEF seqs
    <3> HIDE DEF S
    <3> QED  BY <2>4, <3>5, <3>6, FlattenType
  <2> QED  BY <2>5, <2>6
<1> QED  BY <1>3

\* What Below has under a member of a downward set has its parent in the set.
LEMMA BelowStays ==
    ASSUME NEW I, NEW items \in Seq(I), NEW ids,
           NEW root \in ids \cap Tops(items),
           Downward(ids, items)
    PROVE  Below(items)[root] \in Seq({x \in Range(items) : Value(x, "parent") \in ids})
<1>1. PICK below : Below(items) = below[Len(items)] /\ Unfolds(items, below)
  BY BelowUnfolds
<1>2. Len(items) \in 0..Len(items)
  OBVIOUS
<1> QED  BY <1>1, <1>2, UnfoldedStays

\* A level has, below an id, the children of the id and what is below them one
\* level up, and nothing else.
LEMMA UnfoldedHas ==
    ASSUME NEW I, NEW items \in Seq(I), NEW below, Unfolds(items, below),
           NEW n \in 1..Len(items), NEW id \in Tops(items)
    PROVE  /\ Range(below[n][id]) \subseteq Range(items)
           /\ Range(below[n - 1][id]) \subseteq Range(items)
           /\ \A x \in Range(items) : Value(x, "parent") = id =>
                  /\ Value(x, "id") \in Tops(items)
                  /\ x \in Range(below[n][id])
                  /\ Range(below[n - 1][Value(x, "id")]) \subseteq Range(below[n][id])
           /\ \A y \in Range(below[n][id]) :
                  \E x \in Range(items) :
                      /\ Value(x, "parent") = id /\ Value(x, "id") \in Tops(items)
                      /\ y = x \/ y \in Range(below[n - 1][Value(x, "id")])
<1> DEFINE N == Len(items)
           S == Range(items)
           seqs == Families(items, below[n - 1], id)
<1>1. N \in Nat /\ DOMAIN items = 1..N /\ n \in 1..N /\ n - 1 \in 0..N /\ n \in 0..N
  OBVIOUS
<1>2. \A m \in 0..N : \A j \in Tops(items) : below[m][j] \in Seq(S)
  <2> DEFINE ids == Tops(items)
             P == {x \in Range(items) : Value(x, "parent") \in ids}
  <2>1. Downward(ids, items)
    BY DEF Downward, Tops, Range, Field
  <2>2. \A m \in 0..N : \A j \in ids \cap ids : below[m][j] \in Seq(P)
    <3> HIDE DEF ids
    <3> QED  BY <2>1, UnfoldedStays DEF ids
  <2>3. P \subseteq S
    OBVIOUS
  <2> HIDE DEF P, S, ids, N
  <2>4. \A m \in 0..N : \A j \in ids : below[m][j] \in Seq(S)
    BY <2>2, <2>3
  <2> QED  BY <2>4 DEF ids
<1>3. \A x \in S : Value(x, "id") \in Tops(items)
  BY DEF Tops, Range, Field
<1>4. \A k \in 1..N : seqs[k] = IF Value(items[k], "parent") = id
                                THEN <<items[k]>> \o below[n - 1][Value(items[k], "id")]
                                ELSE <<>>
  BY <1>1 DEF Families
<1>5. ASSUME NEW k \in 1..N, Value(items[k], "parent") = id
      PROVE  /\ seqs[k] \in Seq(S)
             /\ Range(seqs[k]) = {items[k]} \cup Range(below[n - 1][Value(items[k], "id")])
  <2>1. items[k] \in S
    BY <1>1 DEF Range
  <2>2. below[n - 1][Value(items[k], "id")] \in Seq(S)
    BY <1>1, <1>2, <1>3, <2>1
  <2> DEFINE one == <<items[k]>>
  <2>3. one \in Seq(S) /\ Range(one) = {items[k]}
    <3>1. one \in Seq(S) /\ DOMAIN one = {1} /\ one[1] = items[k]
      BY <2>1
    <3> HIDE DEF one
    <3> QED  BY <3>1 DEF Range
  <2>4. seqs[k] = one \o below[n - 1][Value(items[k], "id")]
    BY <1>4, <1>5
  <2> HIDE DEF one, S, seqs
  <2> QED  BY <2>2, <2>3, <2>4, ConcatHas
<1>6. ASSUME NEW k \in 1..N, Value(items[k], "parent") # id
      PROVE  seqs[k] \in Seq(S) /\ Range(seqs[k]) = {}
  <2>1. seqs[k] = <<>>
    BY <1>4, <1>6
  <2> HIDE DEF seqs, S
  <2> QED  BY <2>1 DEF Range
<1>7. seqs \in Seq(Seq(S)) /\ DOMAIN seqs = 1..N
  <2>1. seqs = [k \in 1..N |-> seqs[k]]
    BY <1>1 DEF Families
  <2> HIDE DEF seqs, S
  <2> QED  BY <1>1, <1>5, <1>6, <2>1
<1>8. below[n][id] = FlattenSeq(seqs)
  BY DEF Unfolds
<1>9. ASSUME NEW x \in Range(items), Value(x, "parent") = id
      PROVE  /\ x \in Range(below[n][id])
             /\ Range(below[n - 1][Value(x, "id")]) \subseteq Range(below[n][id])
  <2>1. PICK k \in 1..N : x = items[k]
    BY <1>1 DEF Range
  <2>2. Range(seqs[k]) \subseteq Range(FlattenSeq(seqs))
    <3> HIDE DEF seqs, S
    <3> QED  BY <1>7, FlattenHas
  <2> HIDE DEF seqs
  <2> QED  BY <1>5, <1>8, <1>9, <2>1, <2>2
<1>10. ASSUME NEW y \in Range(below[n][id])
       PROVE  \E x \in Range(items) :
                      /\ Value(x, "parent") = id /\ Value(x, "id") \in Tops(items)
                      /\ y = x \/ y \in Range(below[n - 1][Value(x, "id")])
  <2>3. y \in UNION {Range(seqs[k]) : k \in DOMAIN seqs}
    <3> HIDE DEF seqs, S
    <3> QED  BY <1>7, <1>8, <1>10, FlattenRange
  <2>4. PICK k \in 1..N : y \in Range(seqs[k])
    <3> HIDE DEF seqs
    <3> QED  BY <1>7, <2>3
  <2>5. Value(items[k], "parent") = id
    <3> HIDE DEF seqs
    <3> QED  BY <1>6, <2>4
  <2>6. items[k] \in S
    BY <1>1 DEF Range
  <2> HIDE DEF seqs
  <2> QED  BY <1>3, <1>5, <2>4, <2>5, <2>6
<1>11. /\ Range(below[n][id]) \subseteq Range(items)
       /\ Range(below[n - 1][id]) \subseteq Range(items)
  <2>1. below[n][id] \in Seq(S) /\ below[n - 1][id] \in Seq(S)
    BY <1>1, <1>2
  <2> HIDE DEF S
  <2>2. Range(below[n][id]) \subseteq S /\ Range(below[n - 1][id]) \subseteq S
    BY <2>1 DEF Range
  <2> QED  BY <2>2 DEF S
<1> QED  BY <1>3, <1>9, <1>10, <1>11

\* A level has at least what the level before it has.
LEMMA UnfoldedGrows ==
    ASSUME NEW I, NEW items \in Seq(I), NEW below, Unfolds(items, below)
    PROVE  \A n \in 1..Len(items) : \A id \in Tops(items) :
               Range(below[n - 1][id]) \subseteq Range(below[n][id])
<1> DEFINE N == Len(items)
           Grows(n) == \A id \in Tops(items) :
                           Range(below[n - 1][id]) \subseteq Range(below[n][id])
           Bad == {n \in 1..N : ~Grows(n)}
<1>1. SUFFICES ASSUME Bad # {}  PROVE FALSE
  OBVIOUS
<1>2. N \in Nat /\ Bad \in SUBSET Nat
  OBVIOUS
<1>3. PICK n \in Bad : n = 0 \/ n - 1 \notin Bad
  <2> HIDE DEF Bad
  <2> QED  BY <1>1, <1>2, LeastNumber
<1>4. n \in 1..N
  OBVIOUS
<1>5. PICK id \in Tops(items) :
          \E y \in Range(below[n - 1][id]) : y \notin Range(below[n][id])
  BY <1>3
<1>y. PICK y \in Range(below[n - 1][id]) : y \notin Range(below[n][id])
  BY <1>5
<1>6. CASE n = 1
  <2>1. below[n - 1][id] = <<>>
    BY <1>6 DEF Unfolds
  <2> QED  BY <1>y, <2>1 DEF Range
<1>7. CASE n # 1
  <2>1. n - 1 \in 1..N
    BY <1>2, <1>4, <1>7
  <2>2. Grows(n - 1)
    <3> HIDE DEF Grows
    <3> QED  BY <1>3, <1>4, <2>1
  <2>3. PICK x \in Range(items) :
            /\ Value(x, "parent") = id /\ Value(x, "id") \in Tops(items)
            /\ y = x \/ y \in Range(below[(n - 1) - 1][Value(x, "id")])
    <3> HIDE DEF N, Grows
    <3> QED  BY <1>y, <2>1, UnfoldedHas DEF N
  <2>4. /\ x \in Range(below[n][id])
        /\ Range(below[n - 1][Value(x, "id")]) \subseteq Range(below[n][id])
    <3> HIDE DEF N, Grows
    <3> QED  BY <1>4, <2>3, UnfoldedHas DEF N
  <2> QED  BY <1>y, <2>2, <2>3, <2>4
<1> QED  BY <1>6, <1>7

\* The next level has the children of whatever a level has.
LEMMA UnfoldedSteps ==
    ASSUME NEW I, NEW items \in Seq(I), NEW below, Unfolds(items, below)
    PROVE  \A n \in 1..Len(items) : \A id \in Tops(items) :
               \A x \in Range(below[n - 1][id]), y \in Range(items) :
                   Value(y, "parent") = Value(x, "id") => y \in Range(below[n][id])
<1> DEFINE N == Len(items)
           Steps(n) == \A id \in Tops(items) :
               \A x \in Range(below[n - 1][id]), y \in Range(items) :
                   Value(y, "parent") = Value(x, "id") => y \in Range(below[n][id])
           Bad == {n \in 1..N : ~Steps(n)}
<1>1. SUFFICES ASSUME Bad # {}  PROVE FALSE
  OBVIOUS
<1>2. N \in Nat /\ Bad \in SUBSET Nat
  OBVIOUS
<1>3. PICK n \in Bad : n = 0 \/ n - 1 \notin Bad
  <2> HIDE DEF Bad
  <2> QED  BY <1>1, <1>2, LeastNumber
<1>4. n \in 1..N
  OBVIOUS
<1>a. PICK id \in Tops(items) :
          \E x \in Range(below[n - 1][id]), y \in Range(items) :
              Value(y, "parent") = Value(x, "id") /\ y \notin Range(below[n][id])
  BY <1>3
<1>5. PICK x \in Range(below[n - 1][id]), y \in Range(items) :
          Value(y, "parent") = Value(x, "id") /\ y \notin Range(below[n][id])
  BY <1>a
<1>6. CASE n = 1
  <2>1. below[n - 1][id] = <<>>
    BY <1>6 DEF Unfolds
  <2> QED  BY <1>5, <2>1 DEF Range
<1>7. CASE n # 1
  <2>1. n - 1 \in 1..N
    BY <1>2, <1>4, <1>7
  <2>2. Steps(n - 1)
    <3> HIDE DEF Steps
    <3> QED  BY <1>3, <1>4, <2>1
  <2>3. PICK z \in Range(items) :
            /\ Value(z, "parent") = id /\ Value(z, "id") \in Tops(items)
            /\ x = z \/ x \in Range(below[(n - 1) - 1][Value(z, "id")])
    <3>1. x \in Range(below[n - 1][id])
      OBVIOUS
    <3> HIDE DEF N, Steps
    <3> QED  BY <2>1, <3>1, UnfoldedHas DEF N
  <2>4. Range(below[n - 1][Value(z, "id")]) \subseteq Range(below[n][id])
    <3> HIDE DEF N, Steps
    <3> QED  BY <1>4, <2>3, UnfoldedHas DEF N
  <2>5. CASE x = z
    <3>1. y \in Range(below[n - 1][Value(z, "id")])
      <4> HIDE DEF N, Steps
      <4> QED  BY <1>5, <2>1, <2>3, <2>5, UnfoldedHas DEF N
    <3> QED  BY <1>5, <2>4, <3>1
  <2>6. CASE x \in Range(below[(n - 1) - 1][Value(z, "id")])
    <3>1. y \in Range(below[n - 1][Value(z, "id")])
      BY <1>5, <2>2, <2>3, <2>6
    <3> QED  BY <1>5, <2>4, <3>1
  <2> QED  BY <2>3, <2>5, <2>6
<1> QED  BY <1>6, <1>7

\* A tree that validate_scene accepts is listed completely: a level that adds
\* nothing is closed, and there are as many levels as items.
LEMMA BelowReaches ==
    ASSUME NEW I, NEW items \in Seq(I), TreeValid(Range(items)),
           \A x \in Range(items) : Given(x, "id")
    PROVE  Range(items) \subseteq Range(Below(items)[""])
<1> DEFINE N == Len(items)
           S == Range(items)
<1>1. PICK below : Below(items) = below[N] /\ Unfolds(items, below)
  BY BelowUnfolds
<1> DEFINE T(n) == Range(below[n][""])
<1>2. N \in Nat /\ DOMAIN items = 1..N
  OBVIOUS
<1>3. "" \in Tops(items)
  BY DEF Tops
<1>4. IsFiniteSet(S) /\ Cardinality(S) <= N
  <2>1. items \in Surjection(1..N, S)
    <3>1. items \in [1..N -> S] /\ \A x \in S : \E k \in 1..N : items[k] = x
      BY <1>2 DEF Range
    <3> HIDE DEF S
    <3> QED  BY <3>1 DEF Surjection
  <2>2. ExistsSurjection(1..N, S)
    <3> HIDE DEF S
    <3> QED  BY <2>1 DEF ExistsSurjection
  <2> HIDE DEF S, N
  <2> QED  BY <1>2, <2>2, FS_NatSurjection, FS_SurjCardinalityBound
<1>5. \A n \in 1..N : T(n) \subseteq S /\ T(n - 1) \subseteq T(n)
  BY <1>1, <1>3, UnfoldedHas, UnfoldedGrows
<1>6. T(0) = {}
  <2>1. below[0][""] = <<>>
    BY <1>1, <1>3 DEF Unfolds
  <2> DEFINE none == <<>>
  <2>2. DOMAIN none = {}
    OBVIOUS
  <2> HIDE DEF none
  <2>3. Range(none) = {}
    BY <2>2 DEF Range
  <2> QED  BY <2>1, <2>3 DEF none
<1>7. ASSUME NEW n \in 1..N, T(n) = T(n - 1)  PROVE T(n) = S
  <2> DEFINE ids == {x.id : x \in T(n)}
             first == {x.id : x \in {y \in S : ~Given(y, "parent")}}
  <2>1. \A x \in S : ~Given(x, "parent") => x \in T(n)
    <3>1. \A x \in S : Value(x, "parent") = "" => x \in T(n)
      BY <1>1, <1>3, UnfoldedHas
    <3> QED  BY <3>1 DEF Given
  <2>2. \A x \in T(n), y \in S : Value(y, "parent") = Value(x, "id") => y \in T(n)
    BY <1>1, <1>3, <1>7, UnfoldedSteps
  <2>3. \A x \in S : Value(x, "id") = x.id
    BY DEF Given, Value, ValueOr
  <2>4. T(n) \subseteq S
    BY <1>5
  <2> HIDE DEF T, S
  <2>5. first \subseteq ids /\ ids \in SUBSET {x.id : x \in S}
    BY <2>1, <2>4
  <2>6. \A x \in S : Value(x, "parent") \in ids => x \in T(n)
    BY <2>2, <2>3, <2>4
  <2>7. \A x \in S : Value(x, "parent") \in ids => x.id \in ids
    BY <2>6
  <2>8. {x.id : x \in S} \subseteq Reached(S, first)
    BY DEF TreeValid, S
  <2>9. {x.id : x \in S} \subseteq ids
    BY <2>5, <2>7, <2>8 DEF Reached
  <2>10. ASSUME NEW x \in S  PROVE x \in T(n)
    <3>1. CASE ~Given(x, "parent")
      BY <2>1, <3>1
    <3>2. CASE Given(x, "parent")
      <4>1. \E y \in S : y.id = x.parent
        BY <3>2 DEF TreeValid, S
      <4>2. x.parent = Value(x, "parent")
        BY <3>2 DEF Given, Value, ValueOr
      <4> QED  BY <2>6, <2>9, <4>1, <4>2
    <3> QED  BY <3>1, <3>2
  <2> QED  BY <2>4, <2>10
<1> HIDE DEF T, S, N
<1>8. \A n \in 0..N : T(n) \subseteq S /\ (T(n) = S \/ Cardinality(T(n)) >= n)
  <2> DEFINE Holds(n) == T(n) \subseteq S /\ (T(n) = S \/ Cardinality(T(n)) >= n)
             Bad == {n \in 0..N : ~Holds(n)}
  <2>1. SUFFICES ASSUME Bad # {}  PROVE FALSE
    OBVIOUS
  <2>2. Bad \in SUBSET Nat
    BY <1>2
  <2>3. PICK n \in Bad : n = 0 \/ n - 1 \notin Bad
    <3> HIDE DEF Bad
    <3> QED  BY <2>1, <2>2, LeastNumber
  <2>4. CASE n = 0
    <3>1. T(0) \subseteq S /\ Cardinality(T(0)) = 0
      <4>1. Cardinality({}) = 0
        BY FS_EmptySet
      <4> QED  BY <1>6, <4>1
    <3> QED  BY <2>3, <2>4, <3>1
  <2>5. CASE n # 0
    <3>1. n \in 1..N /\ n - 1 \in 0..N
      BY <1>2, <2>3, <2>5
    <3>2. Holds(n - 1)
      BY <2>3, <2>5, <3>1
    <3>3. T(n) \subseteq S /\ T(n - 1) \subseteq T(n)
      BY <1>5, <3>1
    <3>4. CASE T(n - 1) = S
      BY <2>3, <3>3, <3>4
    <3>5. CASE T(n) = T(n - 1)
      BY <1>7, <2>3, <3>1, <3>3, <3>5
    <3>6. CASE T(n) # T(n - 1) /\ T(n - 1) # S
      <4>1. IsFiniteSet(T(n)) /\ Cardinality(T(n)) \in Nat
        BY <1>4, <3>3, FS_Subset, FS_CardinalityType
      <4>2. /\ IsFiniteSet(T(n - 1)) /\ Cardinality(T(n - 1)) \in Nat
            /\ Cardinality(T(n - 1)) <= Cardinality(T(n))
            /\ Cardinality(T(n - 1)) # Cardinality(T(n))
        BY <3>3, <3>6, <4>1, FS_Subset, FS_CardinalityType
      <4>3. Cardinality(T(n - 1)) >= n - 1
        BY <3>2, <3>6
      <4>4. Cardinality(T(n)) >= n
        BY <3>1, <4>1, <4>2, <4>3
      <4> QED  BY <2>3, <3>3, <4>4
    <3> QED  BY <3>4, <3>5, <3>6
  <2> QED  BY <2>4, <2>5
<1>9. T(N) = S
  <2>1. T(N) \subseteq S /\ (T(N) = S \/ Cardinality(T(N)) >= N)
    BY <1>2, <1>8
  <2>2. IsFiniteSet(T(N)) /\ Cardinality(T(N)) <= Cardinality(S) /\ Cardinality(T(N)) \in Nat
        /\ Cardinality(S) \in Nat
    BY <1>4, <2>1, FS_Subset, FS_CardinalityType
  <2>3. CASE Cardinality(T(N)) >= N
    <3>1. Cardinality(T(N)) = Cardinality(S)
      BY <1>2, <1>4, <2>2, <2>3
    <3> QED  BY <1>4, <2>1, <3>1, FS_Subset
  <2> QED  BY <2>1, <2>3
<1> QED  BY <1>1, <1>9 DEF T, S

-----------------------------------------------------------------------------
(* The sections of a scene *)

\* Every section is a list of items of its pool.
InSections(doc) == \A section \in Sections : doc[section] \in Seq(Pool[section])

\* Types: an update appends an item of the pool of the section.
SceneTypes == DOMAIN scene = Sections /\ InSections(scene)

\* The sections stay typed.
LEMMA TypesInvariant == SceneSpec => []SceneTypes
<1>1. SceneInit => SceneTypes
  BY DEF SceneInit, SceneTypes, InSections
<1>2. SceneTypes /\ [SceneNext]_sceneVars => SceneTypes'
  <2>1. ASSUME SceneTypes, NEW section \in Sections, NEW item \in Pool[section],
               Update(section, item)
        PROVE  SceneTypes'
    <3>1. Append(scene[section], item) \in Seq(Pool[section])
      BY <2>1 DEF SceneTypes, InSections
    <3> QED  BY <2>1, <3>1 DEF Update, SceneTypes, InSections
  <2>2. ASSUME SceneTypes, UNCHANGED sceneVars  PROVE SceneTypes'
    BY <2>2 DEF sceneVars, SceneTypes, InSections
  <2> QED  BY <2>1, <2>2 DEF SceneNext
<1> QED  BY <1>1, <1>2, PTL DEF SceneSpec

\* All sections the compiler reads are lists.
LEMMA ListedSections ==
    ASSUME NEW doc, InSections(doc)
    PROVE  \A section \in {"models", "plugins", "assets", "objects", "sensors", "pairs",
            "bodies", "actuators", "equality", "tendon", "keyframes",
            "cameras", "custom", "flexes", "skins", "excludes", "defaultClasses"} :
             /\ IsList(doc[section])
             /\ doc[section] \in Seq(Pool[section])
<1>1. {"models", "plugins", "assets", "objects", "sensors", "pairs",
            "bodies", "actuators", "equality", "tendon", "keyframes",
            "cameras", "custom", "flexes", "skins", "excludes", "defaultClasses"} \subseteq Sections
  <2>1. \A k \in 1..15 : Pooled[k] \in Range(Pooled)
    BY DEF Pooled, Range
  <2>2. /\ Pooled[1] = "models" /\ Pooled[2] = "plugins" /\ Pooled[3] = "assets"
        /\ Pooled[4] = "objects" /\ Pooled[5] = "sensors" /\ Pooled[6] = "pairs"
        /\ Pooled[7] = "bodies" /\ Pooled[8] = "actuators" /\ Pooled[9] = "equality"
        /\ Pooled[10] = "tendon" /\ Pooled[11] = "keyframes" /\ Pooled[12] = "cameras"
        /\ Pooled[13] = "custom" /\ Pooled[14] = "flexes" /\ Pooled[15] = "skins"
    BY DEF Pooled
  <2>3. \A k \in 1..15 : Pooled[k] \in Sections
    BY <2>1, PoolAssumption
  <2>4. /\ Pooled[1] \in Sections /\ Pooled[2] \in Sections /\ Pooled[3] \in Sections
        /\ Pooled[4] \in Sections /\ Pooled[5] \in Sections /\ Pooled[6] \in Sections
        /\ Pooled[7] \in Sections /\ Pooled[8] \in Sections /\ Pooled[9] \in Sections
        /\ Pooled[10] \in Sections /\ Pooled[11] \in Sections /\ Pooled[12] \in Sections
        /\ Pooled[13] \in Sections /\ Pooled[14] \in Sections /\ Pooled[15] \in Sections
    BY <2>3
  <2>5. {"excludes", "defaultClasses"} \subseteq Sections
    BY PoolAssumption
  <2> QED  BY <2>2, <2>4, <2>5
<1>2. \A section \in Sections : doc[section] \in Seq(Pool[section])
  BY DEF InSections
<1> QED  BY <1>1, <1>2, SequencesAreLists

\* The sites of a tendon are a list.
LEMMA ListedSites ==
    ASSUME NEW doc, InSections(doc)
    PROVE  \A t \in Items(doc, "tendon") : Len(ValueOr(t, "sites", <<>>)) \in Nat
<1> SUFFICES ASSUME NEW t \in Items(doc, "tendon")
             PROVE  Len(ValueOr(t, "sites", <<>>)) \in Nat
  OBVIOUS
<1>1. t \in Pool["tendon"]
  BY ListedSections DEF Items, Range
<1>2. IsList(ValueOr(t, "sites", <<>>))
  BY <1>1, PoolAssumption
<1> QED  BY <1>2 DEF IsList

-----------------------------------------------------------------------------
(* What validate_scene accepts compiles *)

\* The known gaps, one by one.
LEMMA UncheckedPairs ==
    /\ \A w \in {"body", "object", "model", "world"} : \A k \in {"pos", "quat"} :
           <<w, k>> \in Unchecked
    /\ \A w \in {"asset", "object", "class", "flex", "skin"} :
           <<w, "rgba">> \in Unchecked
    /\ \A k \in {"axis", "range", "ctrlrange", "forcerange"} :
           <<"class", k>> \in Unchecked
    /\ \A k \in {"o_solref", "o_solimp", "o_friction", "inertiagrouprange"} :
           <<"physics", k>> \in Unchecked
    /\ \A k \in {"center", "headlight", "visual_rgba"} :
           <<"environment", k>> \in Unchecked
    /\ \A k \in {"actrange", "bias", "timeconst", "range"} :
           <<"actuator", k>> \in Unchecked
    /\ {<<"object", "size">>, <<"asset", "scale">>, <<"tendon", "range">>,
        <<"skin", "bindpos">>, <<"skin", "bindquat">>, <<"box", "size">>,
        <<"box", "unknown plugin">>, <<"geom", "unknown plugin">>,
        <<"sensor", "plugin_instance">>} \subseteq Unchecked
BY DEF Unchecked

\* Nothing but known gaps is thrown at in physics and environment.
LEMMA GlobalsCompile ==
    ASSUME NEW doc, GlobalsValid(doc)
    PROVE  GlobalThrows(doc) \subseteq Unchecked
BY UncheckedPairs DEF GlobalsValid, GlobalThrows, Misfits

\* Nor in a default class that is accepted.
LEMMA ClassesCompile ==
    ASSUME NEW doc, ClassesValid(doc), NEW c \in Items(doc, "defaultClasses")
    PROVE  ClassThrows(c) \subseteq Unchecked
<1>1. /\ ValueOr(c, "joint", "hinge") \in JointTypes
      /\ ValueOr(c, "geom", "box") \in GeomTypes
      /\ ValueOr(c, "site", "sphere") \in SiteTypes
  BY DEF ClassesValid
<1> QED  BY <1>1, UncheckedPairs DEF ClassThrows, Unsupported, Misfits

\* Nor in an asset.
LEMMA AssetsCompile ==
    ASSUME NEW doc, AssetsValid(doc), NEW a \in Items(doc, "assets"),
           "" \notin Files
    PROVE  AssetThrows(a) \subseteq Unchecked
<1>1. /\ a.kind \in {"mesh", "texture", "material", "hfield"}
      /\ \/ a.kind = "mesh" /\ Given(a, "plugin_instance")
         \/ a.kind = "material"
         \/ Given(a, "file")
      /\ a.kind = "hfield" => "size" \notin Wrong(a)
  BY DEF AssetsValid, Given, Value, ValueOr
<1> QED  BY <1>1, UncheckedPairs DEF AssetThrows, Missing, Misfits

\* Nor in an object that is no sensor.
LEMMA ObjectsCompile ==
    ASSUME NEW doc, ObjectsValid(doc), NEW o \in Items(doc, "objects"),
           ~IsSensor(o)
    PROVE  ObjectThrows(o) \subseteq Unchecked
<1>1. /\ o.type = "obstacle.mesh" => Given(o, "mesh")
      /\ o.type = "obstacle.hfield" => Given(o, "hfield")
  BY DEF ObjectsValid, IsAsset, Given
<1> QED  BY <1>1, UncheckedPairs DEF ObjectThrows, Missing, Misfits

\* Nor in a sensor, in whichever section it is.
LEMMA SensorsCompile ==
    ASSUME NEW doc, NEW s, IsSensor(s), SensorValid(doc, s)
    PROVE  SensorThrows(doc, s) \subseteq Unchecked
<1> DEFINE shape == Shape[s.type]
<1>1. shape \in {"site", "body", "frame", "camprojection", "insidesite",
                 "geompair", "none", "plugin"}
  BY DEF IsSensor, Shape, Value, ValueOr
<1>2. CASE shape \in {"site", "body", "camprojection", "insidesite"}
  BY <1>2 DEF SensorThrows, SensorValid, Missing
<1>3. CASE shape = "frame"
  <2>1. Given(s, "objtype") /\ Given(s, "objname")
    BY <1>3 DEF SensorValid, ObjTypes, Given
  <2> QED  BY <1>3, <2>1 DEF SensorThrows, Missing
<1>4. CASE shape = "geompair"
  <2>1. /\ Given(s, "geom1") # Given(s, "body1")
        /\ Given(s, "geom2") # Given(s, "body2")
    BY <1>4 DEF SensorValid
  <2> QED  BY <1>4, <2>1 DEF SensorThrows
<1>5. CASE shape = "none"
  BY <1>5 DEF SensorThrows
<1>6. CASE shape = "plugin"
  BY <1>6, UncheckedPairs DEF SensorThrows, SensorValid, Missing, UnknownPlugin
<1> QED  BY <1>1, <1>2, <1>3, <1>4, <1>5, <1>6

\* Joints, sites and cameras of an accepted body are never thrown at.
LEMMA PartsCompile ==
    ASSUME NEW doc, BodiesValid(doc), NEW b \in Items(doc, "bodies")
    PROVE  /\ \A j \in Inner(b, "joints") : JointThrows(j) = {}
           /\ \A s \in Inner(b, "sites") : SiteThrows(s) = {}
           /\ \A c \in Inner(b, "cameras") : CameraThrows("camera", c) = {}
<1>1. ASSUME NEW j \in Inner(b, "joints")  PROVE JointThrows(j) = {}
  <2>1. JointValid(doc, j)
    BY DEF BodiesValid
  <2> QED  BY <2>1 DEF JointValid, JointThrows, Unsupported, Misfits
<1>2. ASSUME NEW s \in Inner(b, "sites")  PROVE SiteThrows(s) = {}
  <2>1. SiteValid(doc, s)
    BY DEF BodiesValid
  <2> QED  BY <2>1 DEF SiteValid, SiteThrows, Unsupported, Misfits
<1>3. ASSUME NEW c \in Inner(b, "cameras")
      PROVE  CameraThrows("camera", c) = {}
  <2>1. BodyCameraValid(doc, c)
    BY DEF BodiesValid
  <2> QED  BY <2>1 DEF BodyCameraValid, CameraThrows, Misfits
<1> QED  BY <1>1, <1>2, <1>3

\* A geom only for its plugin, or for the box it is made without a type.
LEMMA GeomsCompile ==
    ASSUME NEW doc, BodiesValid(doc), NEW b \in Items(doc, "bodies"),
           NEW g \in Inner(b, "geoms"), NEW classed
    PROVE  GeomThrows(doc, g, classed) \subseteq Unchecked
<1> DEFINE type == ValueOr(g, "type", "box")
           typed == Given(g, "type")
           box == ~typed /\ ~classed /\ ~Given(g, "class")
           where == IF box THEN "box" ELSE IF type = "sdf" THEN type ELSE "geom"
<1>1. GeomValid(doc, g)
  BY DEF BodiesValid
<1>2. Misfits("geom", g, {"pos", "quat", "rgba"}) = {}
  BY <1>1 DEF GeomValid, Misfits
<1>3. (typed \/ box) /\ type \in Sized => Misfits(where, g, {"size"}) \subseteq Unchecked
  <2>1. CASE typed
    BY <1>1, <2>1 DEF GeomValid, Misfits
  <2>2. CASE ~typed /\ box
    BY <2>2, UncheckedPairs DEF Misfits
  <2> QED  BY <2>1, <2>2
<1>4. Unsupported("geom", type, GeomTypes) = {}
  BY <1>1 DEF GeomValid, Unsupported
<1>5. /\ type \in {"mesh", "hfield"} => Missing("geom", g, {type}) = {}
      /\ type = "sdf" => /\ Missing("geom", g, {"mesh", "plugin_instance"}) = {}
                         /\ UnknownPlugin(doc, where, g) = {}
  BY <1>1 DEF GeomValid, IsAsset, Given, Missing, UnknownPlugin
<1>6. type # "sdf" => UnknownPlugin(doc, where, g) \subseteq Unchecked
  BY UncheckedPairs DEF UnknownPlugin
<1> QED  BY <1>2, <1>3, <1>4, <1>5, <1>6 DEF GeomThrows

\* So a body only at known gaps.
LEMMA BodiesCompile ==
    ASSUME NEW doc, BodiesValid(doc), NEW b \in Items(doc, "bodies")
    PROVE  BodyThrows(doc, b) \subseteq Unchecked
<1>1. Misfits("body", b, {"pos", "quat"}) \subseteq Unchecked
  BY UncheckedPairs DEF Misfits
<1>2. Misfits("body", b, {"offset", "euler"}) = {}
  BY DEF BodiesValid, Misfits
<1> QED  BY <1>1, <1>2, PartsCompile, GeomsCompile DEF BodyThrows, Over

\* Nor in a tendon, whichever of its forms it has.
LEMMA TendonsCompile ==
    ASSUME NEW doc, TendonsValid(doc), NEW t \in Items(doc, "tendon"),
           Len(ValueOr(t, "sites", <<>>)) \in Nat
    PROVE  TendonThrows(t) \subseteq Unchecked
<1>1. Misfits("tendon", t, {"range"}) \subseteq Unchecked
  BY UncheckedPairs DEF Misfits
<1>2. CASE t.type = "fixed"
  BY <1>1, <1>2 DEF TendonsValid, TendonThrows
<1>3. CASE t.type = "spatial" /\ Inner(t, "path") # {}
  <2>1. ASSUME NEW p \in Inner(t, "path")
        PROVE  ValueOr(p, "type", "site") \in {"site", "geom", "pulley"}
    <3>1. t.type # "fixed"
      BY <1>3
    <3> DEFINE type == ValueOr(p, "type", "site")
    <3>2. type = "pulley" \/ (type \in {"site", "geom"} /\ Given(p, type))
      BY <1>3, <3>1 DEF TendonsValid
    <3> QED  BY <3>2
  <2>2. Over(Inner(t, "path"),
             LAMBDA p : Unsupported("path", ValueOr(p, "type", "site"),
                                    {"site", "geom", "pulley"})) = {}
    BY <2>1 DEF Over, Unsupported
  <2> QED  BY <1>1, <1>3, <2>2 DEF TendonThrows
<1>4. CASE t.type = "spatial" /\ Inner(t, "path") = {}
  <2>1. Len(ValueOr(t, "sites", <<>>)) >= 2
    BY <1>4 DEF TendonsValid
  <2>2. ~(Len(ValueOr(t, "sites", <<>>)) < 2)
    BY <2>1
  <2> QED  BY <1>1, <1>4, <2>2 DEF TendonThrows
<1>5. t.type \in {"fixed", "spatial"}
  BY DEF TendonsValid
<1> QED  BY <1>2, <1>3, <1>4, <1>5

\* Nor in an actuator.
LEMMA ActuatorsCompile ==
    ASSUME NEW doc, ActuatorsValid(doc), NEW a \in Items(doc, "actuators")
    PROVE  ActuatorThrows(doc, a) \subseteq Unchecked
<1>a. Value(a, "type") \in ActuatorTypes
  BY DEF ActuatorsValid
<1>b. Value(a, "type") = a.type
  BY <1>a DEF ActuatorTypes, Value, ValueOr
<1>1. /\ Value(a, "type") \in ActuatorTypes
      /\ Given(a, Target(Value(a, "type")))
      /\ Value(a, "type") = "plugin" => Given(a, "plugin_instance") /\ PluginKnown(doc, a)
      /\ Wrong(a) \cap {"ctrlrange", "forcerange"} = {}
  BY <1>a, <1>b DEF ActuatorsValid
<1>2. VectorsOf(Value(a, "type")) \subseteq {"actrange", "bias", "timeconst", "range"}
  BY DEF VectorsOf
<1> QED
  BY <1>1, <1>2, UncheckedPairs
  DEF ActuatorThrows, Unsupported, Missing, Misfits, UnknownPlugin

\* Nothing is refused for want of an id.
LEMMA NamedCompile ==
    ASSUME NEW doc, BodiesValid(doc),
           Named(doc, (Range(Pooled) \ {"pairs"}) \cup {"defaultClasses"})
    PROVE  Unnamed(doc) = {}
<1>1. ASSUME NEW section \in {"assets", "objects", "sensors", "cameras",
                 "flexes", "skins", "equality", "tendon", "actuators",
                 "keyframes"},
             NEW x \in Items(doc, section)
      PROVE  Given(x, "id")
  BY DEF Named, Range, Pooled
<1>2. ASSUME NEW b \in Items(doc, "bodies"),
             NEW part \in {"joints", "geoms", "sites", "cameras"},
             NEW x \in Inner(b, part)
      PROVE  Given(x, "id")
  BY DEF BodiesValid
<1> DEFINE sections == {"assets", "objects", "sensors", "cameras", "flexes",
                        "skins", "equality", "tendon", "actuators", "keyframes"}
           Nested(part) == UNION {Inner(body, part) : body \in Items(doc, "bodies")}
           named == (UNION {Items(doc, section) : section \in sections})
                    \cup (UNION {Nested(part) : part \in
                              {"joints", "geoms", "sites", "cameras"}})
<1>3. ASSUME NEW x \in named  PROVE Missing("item", x, {"id"}) = {}
  <2>1. Given(x, "id")
    BY <1>1, <1>2
  <2> QED  BY <2>1 DEF Missing
<1>4. Over(named, LAMBDA x : Missing("item", x, {"id"})) = {}
  <2> HIDE DEF named
  <2> QED  BY <1>3 DEF Over
<1> QED  BY <1>4 DEF Unnamed

\* A contact pair is never thrown at.
LEMMA PairsCompile ==
    ASSUME NEW doc, ContactsValid(doc), NEW p \in Items(doc, "pairs")
    PROVE  /\ Missing("pair", p, {"geom1", "geom2"}) = {}
           /\ Misfits("pair", p, {"friction", "solref", "solreffriction", "solimp"}) = {}
BY DEF ContactsValid, Missing, Misfits

\* Flexes and skins only at known gaps.
LEMMA DeformablesCompile ==
    ASSUME NEW doc, DeformablesValid(doc)
    PROVE  DeformableThrows(doc) \subseteq Unchecked
<1>1. ASSUME NEW f \in Items(doc, "flexes")
      PROVE  Missing("flex", f, {"body"}) \cup Misfits("flex", f, {"rgba"}) \subseteq Unchecked
  BY UncheckedPairs DEF DeformablesValid, Missing, Misfits
<1>2. ASSUME NEW s \in Items(doc, "skins")
      PROVE  Misfits("skin", s, {"rgba", "bindpos", "bindquat"}) \subseteq Unchecked
  BY UncheckedPairs DEF Misfits
<1> QED  BY <1>1, <1>2 DEF DeformableThrows, Over

\* An equality constraint is never thrown at.
LEMMA EqualityCompiles ==
    ASSUME NEW doc, EqualityValid(doc), NEW e \in Items(doc, "equality")
    PROVE  EqualityThrows(e) = {}
<1>1. e.type \in {"connect", "weld", "joint", "tendon"}
  BY DEF EqualityValid
<1>2. CASE e.type \in {"connect", "weld"}
  BY <1>2 DEF EqualityValid, EqualityThrows, Missing, Misfits
<1>3. CASE e.type = "joint"
  BY <1>3 DEF EqualityValid, EqualityThrows, Missing, Misfits
<1>4. CASE e.type = "tendon"
  BY <1>4 DEF EqualityValid, EqualityThrows, Missing, Misfits
<1> QED  BY <1>1, <1>2, <1>3, <1>4

\* Whatever is thrown at in an accepted scene is a known gap.
LEMMA AcceptedCompile ==
    ASSUME NEW doc, Valid(doc), "" \notin Files,
           \A t \in Items(doc, "tendon") : Len(ValueOr(t, "sites", <<>>)) \in Nat
    PROVE  Throws(doc) \subseteq Unchecked
<1>1. GlobalThrows(doc) \subseteq Unchecked
  BY GlobalsCompile DEF Valid
<1>2. Over(Items(doc, "defaultClasses"), ClassThrows) \subseteq Unchecked
  BY ClassesCompile DEF Valid, Over
<1>3. Over(Items(doc, "assets"), AssetThrows) \subseteq Unchecked
  BY AssetsCompile DEF Valid, Over
<1>4. Over(Items(doc, "models"), LAMBDA m : Misfits("model", m, {"pos", "quat"})) \subseteq Unchecked
  BY UncheckedPairs DEF Over, Misfits
<1>5. ASSUME NEW o \in Items(doc, "objects")
      PROVE  IF IsSensor(o) THEN SensorThrows(doc, o) \subseteq Unchecked
             ELSE ObjectThrows(o) \subseteq Unchecked
  <2>1. ObjectsValid(doc)
    BY DEF Valid
  <2>2. IsSensor(o) => SensorValid(doc, o)
    BY <2>1 DEF ObjectsValid
  <2> QED  BY <2>1, <2>2, ObjectsCompile, SensorsCompile
<1>6. Over({o \in Items(doc, "objects") : ~IsSensor(o)}, ObjectThrows) \subseteq Unchecked
  BY <1>5 DEF Over
<1>7. Over({o \in Items(doc, "objects") : IsSensor(o)}, LAMBDA s : SensorThrows(doc, s)) \subseteq Unchecked
  BY <1>5 DEF Over
<1>8. Over(Items(doc, "sensors"), LAMBDA s : SensorThrows(doc, s)) \subseteq Unchecked
  BY SensorsCompile DEF Valid, SensorsValid, Over
<1>9. Over(Items(doc, "cameras"), LAMBDA c : CameraThrows("world", c)) \subseteq Unchecked
  BY UncheckedPairs DEF Over, CameraThrows, Misfits
<1>10. Over(Items(doc, "bodies"), LAMBDA b : BodyThrows(doc, b)) \subseteq Unchecked
  BY BodiesCompile DEF Valid, Over
<1>11. Over(Items(doc, "pairs"),
            LAMBDA p : Missing("pair", p, {"geom1", "geom2"})
                             \cup Misfits("pair", p, {"friction", "solref",
                                      "solreffriction", "solimp"})) \subseteq Unchecked
  BY PairsCompile DEF Valid, Over
<1>12. DeformableThrows(doc) \subseteq Unchecked
  BY DeformablesCompile DEF Valid
<1>13. Over(Items(doc, "equality"), EqualityThrows) \subseteq Unchecked
  BY EqualityCompiles DEF Valid, Over
<1>14. Over(Items(doc, "tendon"), TendonThrows) \subseteq Unchecked
  BY TendonsCompile DEF Valid, Over
<1>15. Over(Items(doc, "actuators"), LAMBDA a : ActuatorThrows(doc, a)) \subseteq Unchecked
  BY ActuatorsCompile DEF Valid, Over
<1>16. Unnamed(doc) = {}
  BY NamedCompile DEF Valid
<1> QED
  BY <1>1, <1>2, <1>3, <1>4, <1>6, <1>7, <1>8, <1>9, <1>10, <1>11, <1>12, <1>13, <1>14, <1>15, <1>16
  DEF Throws

\* ValidScenesCompile: what compile_scene throws at, validate_scene reports, the
\* known gaps excepted.
THEOREM AcceptedScenesCompile == SceneSpec => []ValidScenesCompile
<1>1. SceneTypes => ValidScenesCompile
  <2> SUFFICES ASSUME SceneTypes, Valid(scene)  PROVE ValidScenesCompile
    BY DEF ValidScenesCompile
  <2>1. \A t \in Items(scene, "tendon") : Len(ValueOr(t, "sites", <<>>)) \in Nat
    BY ListedSites DEF SceneTypes
  <2>2. Throws(scene) \subseteq Unchecked
    BY <2>1, PoolAssumption, AcceptedCompile
  <2> QED  BY <2>2 DEF ValidScenesCompile
<1> QED  BY <1>1, TypesInvariant, PTL

-----------------------------------------------------------------------------
(* Each element by itself *)

\* What the elements before the world define, by namespace and name.
Nameable(doc) ==
    {<<"class", c.id>> : c \in Items(doc, "defaultClasses")}
    \cup {<<"plugin", p.id>> : p \in Items(doc, "plugins")}
    \cup {<<a.kind, a.id>> : a \in Items(doc, "assets")}
    \cup {<<"model", "scene_model_" \o m.id>> : m \in Items(doc, "models")}
    \cup (IF GroundMaterial(doc) THEN {<<"material", "scene_ground_mat">>} ELSE {})
    \cup (IF Checker(doc) THEN {<<"texture", "scene_ground_tex">>} ELSE {})

\* A document is written of a scene that is accepted and thrown at by nothing.
Written(doc) == Valid(doc) /\ Throws(doc) = {}

\* A reference that something before the world defines, or that nobody checks.
Resolved(doc, ns, ref) ==
    \/ ref[1] = "body"
    \/ ref[1] = "material" /\ ns \in {"class", "skin"}
    \/ ref \in Nameable(doc)

\* All references are of that kind, if the document is written.
Settles(doc, ns, refs) ==
    Written(doc) => \A ref \in refs : Resolved(doc, ns, ref)

\* What holds of each element: its references resolve, none that may not is to a
\* body inside <replicate>, and a body inside is one the guard knows of.
Fine(doc, e) ==
    /\ Settles(doc, e.ns, e.refs)
    /\ /\ e.ns \in {"equality", "exclude", "sensor"}
       /\ e.ns = "sensor" => e.name \notin Unguarded(doc)
       => \A b \in Replicated(doc) : <<"body", b>> \notin e.refs
    /\ e.ns = "body" /\ e.copied => e.name \in Replicated(doc)

\* A list of such elements.
Sound(doc, s) == IsList(s) /\ \A e \in Range(s) : Fine(doc, e)

\* A sequence over elements that are fine is sound.
LEMMA SoundFrom ==
    ASSUME NEW doc, NEW S, NEW s \in Seq(S), \A e \in S : Fine(doc, e)
    PROVE  Sound(doc, s)
<1>1. Len(s) \in Nat /\ DOMAIN s = 1..Len(s) /\ \A k \in 1..Len(s) : s[k] \in S
  OBVIOUS
<1>2. s \in Seq(Range(s))
  BY <1>1 DEF Range
<1> QED  BY <1>1, <1>2 DEF Sound, IsList, Range

\* Soundness of lists carries over to one after the other,
LEMMA SoundConcat ==
    ASSUME NEW doc, NEW s, Sound(doc, s), NEW t, Sound(doc, t)
    PROVE  Sound(doc, s \o t)
<1> DEFINE S == Range(s) \cup Range(t)
<1>1. \A e \in S : Fine(doc, e)
  BY DEF Sound
<1>2. s \in Seq(S) /\ t \in Seq(S)
  BY DEF Sound, IsList
<1> HIDE DEF S
<1>3. s \o t \in Seq(S)
  BY <1>2
<1> QED  BY <1>1, <1>3, SoundFrom

\* to the flattening of a list of them,
LEMMA SoundFlatten ==
    ASSUME NEW doc, NEW seqs, IsList(seqs), \A k \in DOMAIN seqs : Sound(doc, seqs[k])
    PROVE  Sound(doc, FlattenSeq(seqs))
<1> DEFINE S == UNION {Range(seqs[k]) : k \in DOMAIN seqs}
<1>1. \A e \in S : Fine(doc, e)
  BY DEF Sound
<1>2. \A k \in DOMAIN seqs : seqs[k] \in Seq(S)
  <2> SUFFICES ASSUME NEW k \in DOMAIN seqs PROVE seqs[k] \in Seq(S)
    OBVIOUS
  <2>1. seqs[k] \in Seq(Range(seqs[k])) /\ Range(seqs[k]) \subseteq S
    BY DEF Sound, IsList
  <2> QED  BY <2>1
<1>3. Range(seqs) \subseteq Seq(S)
  BY <1>2 DEF Range
<1> HIDE DEF S
<1>4. seqs \in Seq(Seq(S))
  BY <1>3 DEF IsList
<1>5. FlattenSeq(seqs) \in Seq(S)
  BY <1>4, FlattenType
<1> QED  BY <1>1, <1>5, SoundFrom

\* and sound if each that is made is fine.
LEMMA SoundMapped ==
    ASSUME NEW doc, NEW items, IsList(items), NEW s,
           s = [k \in DOMAIN items |-> s[k]],
           \A k \in DOMAIN items : Fine(doc, s[k])
    PROVE  Sound(doc, s)
<1>1. DOMAIN s = DOMAIN items
  OBVIOUS
<1> QED  BY <1>1, MappedList DEF Sound, Range

\* A list of one that is fine is sound.
LEMMA SoundOne ==
    ASSUME NEW doc, NEW e, Fine(doc, e)
    PROVE  Sound(doc, <<e>>)
<1> DEFINE S == {e}
<1>1. <<e>> \in Seq(S)
  OBVIOUS
<1>2. \A x \in S : Fine(doc, x)
  OBVIOUS
<1> HIDE DEF S
<1> QED  BY <1>1, <1>2, SoundFrom

\* The empty list is sound.
LEMMA SoundNone ==
    ASSUME NEW doc
    PROVE  Sound(doc, <<>>)
<1> DEFINE S == {}
<1>1. <<>> \in Seq(S)
  OBVIOUS
<1>2. \A x \in S : Fine(doc, x)
  OBVIOUS
<1> HIDE DEF S
<1> QED  BY <1>1, <1>2, SoundFrom

\* An element that is written on a condition is sound if fine on it.
LEMMA SoundWhen ==
    ASSUME NEW doc, NEW e, NEW c \in BOOLEAN, c => Fine(doc, e)
    PROVE  Sound(doc, When(c, e))
BY SoundOne, SoundNone DEF When

\* Replicated has the replicated roots and whatever is below a member.
LEMMA ReplicatedClosed ==
    ASSUME NEW doc, NEW b \in Items(doc, "bodies")
    PROVE  /\ "replicate" \in DOMAIN b /\ ~Given(b, "parent") => b.id \in Replicated(doc)
           /\ Value(b, "parent") \in Replicated(doc) => b.id \in Replicated(doc)
BY DEF Replicated, Reached, Roots

\* An element of a namespace the guard is not about is fine once its references
\* are settled, wherever it is nested.
LEMMA QuietElement ==
    ASSUME NEW doc, NEW ns, NEW name, NEW refs,
           ns \notin {"equality", "exclude", "sensor"}, Settles(doc, ns, refs)
    PROVE  /\ Fine(doc, Element(ns, name, refs))
           /\ Fine(doc, Derived(ns, name, refs))
           /\ \A in : /\ Fine(doc, [Element(ns, name, refs) EXCEPT !.in = in])
                     /\ Fine(doc, [Derived(ns, name, refs) EXCEPT !.in = in])
BY DEF Fine, Element, Derived

\* The rules of validate_scene settle the references they look at.
LEMMA SettledRefs ==
    ASSUME NEW doc, NEW ns
    PROVE  /\ Settles(doc, ns, {})
           /\ \A r, q : Settles(doc, ns, r) /\ Settles(doc, ns, q)
                            => Settles(doc, ns, r \cup q)
           /\ \A x, keys : Settles(doc, ns, Refs("body", x, keys))
           /\ \A x, key : (Written(doc) => ClassKnown(doc, x, key))
                            => Settles(doc, ns, Refs("class", x, {key}))
           /\ \A x : (Written(doc) => PluginKnown(doc, x))
                            => Settles(doc, ns, PluginAttr(x))
           /\ \A x, key : \A kind \in {"texture", "material", "mesh", "hfield"} :
                  (Written(doc) /\ Given(x, key) => IsAsset(doc, x[key], kind))
                            => Settles(doc, ns, Refs(kind, x, {key}))
<1>1. \A x, keys : Settles(doc, ns, Refs("body", x, keys))
  BY DEF Settles, Resolved, Refs
<1>2. ASSUME NEW x, NEW key, Written(doc) => ClassKnown(doc, x, key)
      PROVE  Settles(doc, ns, Refs("class", x, {key}))
  BY <1>2 DEF Settles, Resolved, Refs, ClassKnown, Nameable
<1>3. ASSUME NEW x, Written(doc) => PluginKnown(doc, x)
      PROVE  Settles(doc, ns, PluginAttr(x))
  BY <1>3 DEF Settles, Resolved, PluginAttr, Refs, PluginKnown, Nameable
<1>4. ASSUME NEW x, NEW key,
             NEW kind \in {"texture", "material", "mesh", "hfield"},
             Written(doc) /\ Given(x, key) => IsAsset(doc, x[key], kind)
      PROVE  Settles(doc, ns, Refs(kind, x, {key}))
  <2> SUFFICES ASSUME Written(doc), Given(x, key)
               PROVE  <<kind, x[key]>> \in Nameable(doc)
    BY DEF Settles, Resolved, Refs
  <2>1. PICK a \in Items(doc, "assets") : Value(a, "id") = x[key] /\ Value(a, "kind") = kind
    BY <1>4 DEF IsAsset
  <2>2. x[key] # ""
    BY <1>4 DEF IsAsset
  <2>4. a.id = x[key]
    BY <2>1, <2>2 DEF Value, ValueOr
  <2>5. a.kind = kind
    BY <2>1 DEF Value, ValueOr
  <2> QED  BY <2>4, <2>5 DEF Nameable
<1> QED  BY <1>1, <1>2, <1>3, <1>4 DEF Settles

\* The default classes are sound.
LEMMA DefaultsSound ==
    ASSUME NEW doc, InSections(doc)
    PROVE  Sound(doc, Defaults(doc))
<1> DEFINE items == doc.defaultClasses
           Class(class) ==
            [Element("class", class.id, Refs("material", class, {"material"}))
                 EXCEPT !.in = Value(class, "parent")]
<1>1. items \in Seq(Pool["defaultClasses"])
  BY ListedSections
<1>2. Downward(Tops(items) , items)
  BY DEF Downward, Tops, Range, Field
<1>3. "" \in Tops(items)
  BY DEF Tops
<1>4. PICK S : Below(items)[""] \in Seq(S)
  BY <1>1, <1>2, <1>3, BelowStays
<1> DEFINE classes == Below(items)[""]
           s == [k \in DOMAIN classes |-> Class(classes[k])]
<1>5. IsList(classes)
  BY <1>4, SequencesAreLists
<1>6. \A k \in DOMAIN classes : Fine(doc, s[k])
  <2>1. \A x : Settles(doc, "class", Refs("material", x, {"material"}))
    BY DEF Settles, Resolved, Refs
  <2> QED  BY <2>1, QuietElement
<1>7. s = [k \in DOMAIN classes |-> s[k]]
  OBVIOUS
<1>8. Defaults(doc) = s
  BY DEF Defaults, Each
<1> HIDE DEF s
<1> QED  BY <1>5, <1>6, <1>7, <1>8, SoundMapped

\* The plugin instances are.
LEMMA ExtensionSound ==
    ASSUME NEW doc, InSections(doc)
    PROVE  Sound(doc, Extension(doc))
<1> DEFINE s == [k \in DOMAIN doc.plugins |->
                    When(Given(doc.plugins[k], "plugin"), Element("plugin", doc.plugins[k].id, {}))]
<1>1. IsList(s)
  BY ListedSections, MappedList
<1>2. \A k \in DOMAIN s : Sound(doc, s[k])
  BY QuietElement, SettledRefs, SoundWhen DEF Given
<1> QED  BY <1>1, <1>2, SoundFlatten DEF Extension, Each

\* The sections that refer to nothing are.
LEMMA PlainSound ==
    ASSUME NEW doc, InSections(doc), NEW section \in {"custom", "tendon", "keyframes"}
    PROVE  Sound(doc, Plain(doc, section))
<1> DEFINE s == Plain(doc, section)
<1>1. \A k \in DOMAIN doc[section] : Fine(doc, s[k])
  BY QuietElement, SettledRefs DEF Plain, Each
<1>2. s = [k \in DOMAIN doc[section] |-> s[k]]
  BY DEF Plain, Each
<1>3. IsList(doc[section])
  BY ListedSections
<1>4. Sound(doc, s)
  <2> HIDE DEF s
  <2> QED  BY <1>1, <1>2, <1>3, SoundMapped
<1> QED  BY <1>4

\* The assets of an accepted scene are.
LEMMA AssetsSound ==
    ASSUME NEW doc, InSections(doc), AssetsValid(doc)
    PROVE  Sound(doc, Assets(doc))
<1>1. Sound(doc, EnvAssets(doc))
  <2>1. Sound(doc, When(Skybox(doc), Derived("texture", "scene_skybox", {})))
    <3>1. Fine(doc, Derived("texture", "scene_skybox", {}))
      BY QuietElement, SettledRefs
    <3>2. Skybox(doc) \in BOOLEAN
      BY DEF Skybox
    <3> QED  BY <3>1, <3>2, SoundWhen
  <2>2. Sound(doc, When(Checker(doc), Derived("texture", "scene_ground_tex", {})))
    BY QuietElement, SettledRefs, SoundWhen DEF Checker, Ground
  <2> DEFINE refs == IF Checker(doc) THEN {<<"texture", "scene_ground_tex">>} ELSE {}
  <2>3. Sound(doc, When(GroundMaterial(doc), Derived("material", "scene_ground_mat", refs)))
    <3>1. Settles(doc, "material", refs)
      BY DEF Settles, Resolved, Nameable
    <3> HIDE DEF refs
    <3> QED  BY <3>1, QuietElement, SoundWhen DEF GroundMaterial, Checker, Ground
  <2> QED  BY <2>1, <2>2, <2>3, SoundConcat DEF EnvAssets
<1> DEFINE OfKind(kind) ==
            FlattenSeq(Each(doc.assets,
                LAMBDA asset : When(Value(asset, "kind") = kind,
                                    AssetDeclaration(asset))))
<1>2. ASSUME NEW kind
      PROVE  Sound(doc, OfKind(kind))
  <2> DEFINE s == [k \in DOMAIN doc.assets |->
                     When(Value(doc.assets[k], "kind") = kind,
                          AssetDeclaration(doc.assets[k]))]
  <2>1. \A k \in DOMAIN s : Sound(doc, s[k])
    <3> SUFFICES ASSUME NEW k \in DOMAIN s  PROVE Sound(doc, s[k])
      OBVIOUS
    <3>1. doc.assets[k].kind \in {"mesh", "texture", "material", "hfield"}
      BY DEF AssetsValid, Items, Range, Value, ValueOr
    <3> DEFINE a == doc.assets[k]
    <3>2. Fine(doc, AssetDeclaration(a))
      <4> HIDE DEF a
      <4>1. a \in Items(doc, "assets")
        BY DEF a, Items, Range
      <4>2. CASE a.kind = "material"
        <5>1. Given(a, "texture") => IsAsset(doc, a["texture"], "texture")
          BY <4>1, <4>2 DEF AssetsValid
        <5>2. Settles(doc, "material", Refs("texture", a, {"texture"}))
          BY <5>1, SettledRefs
        <5> QED  BY <4>2, <5>2, QuietElement DEF AssetDeclaration
      <4>3. CASE a.kind = "mesh"
        <5>1. PluginKnown(doc, a)
          BY <4>1, <4>3 DEF AssetsValid, PluginKnown
        <5>2. Settles(doc, "mesh", PluginAttr(a))
          BY <5>1, SettledRefs
        <5> QED  BY <4>3, <5>2, QuietElement DEF AssetDeclaration
      <4>4. CASE a.kind \notin {"material", "mesh"}
        BY <3>1, <4>4, SettledRefs, QuietElement DEF AssetDeclaration, a
      <4> QED  BY <4>2, <4>3, <4>4
    <3> QED  BY <3>2, SoundWhen
  <2>2. s = [k \in DOMAIN doc.assets |-> s[k]]
    OBVIOUS
  <2>3. OfKind(kind) = FlattenSeq(s)
    BY DEF Each
  <2> HIDE DEF s
  <2>4. IsList(s)
    BY <2>2, ListedSections, MappedList
  <2>5. Sound(doc, FlattenSeq(s))
    BY <2>1, <2>4, SoundFlatten
  <2> QED  BY <2>3, <2>5
<1>3. Sound(doc, UserAssets(doc))
  <2>1. UserAssets(doc) = OfKind("texture") \o OfKind("material")
                              \o OfKind("mesh") \o OfKind("hfield")
    BY DEF UserAssets
  <2> HIDE DEF OfKind
  <2> QED  BY <1>2, <2>1, SoundConcat
<1>4. Sound(doc, Each(doc.models, LAMBDA m : Derived("model", "scene_model_" \o m.id, {})))
  <2> DEFINE s == [k \in DOMAIN doc.models |->
                     Derived("model", "scene_model_" \o doc.models[k].id, {})]
  <2>1. \A k \in DOMAIN doc.models : Fine(doc, s[k])
    BY QuietElement, SettledRefs
  <2>2. s = [k \in DOMAIN doc.models |-> s[k]]
    OBVIOUS
  <2>3. Sound(doc, s)
    <3> HIDE DEF s
    <3> QED  BY <2>1, <2>2, ListedSections, SoundMapped
  <2> QED  BY <2>3 DEF Each
<1> QED  BY <1>1, <1>3, <1>4, SoundConcat DEF Assets

\* Flexes and skins are.
LEMMA DeformableSound ==
    ASSUME NEW doc, InSections(doc)
    PROVE  Sound(doc, Deformable(doc))
<1> DEFINE Flex(flex) == Element("flex", flex.id, Refs("body", flex, {"body"}))
           Skin(skin) ==
            Element("skin", skin.id,
                    Refs("material", skin, {"material"})
                    \cup UNION {Refs("body", bone, {"body"}) :
                                  bone \in Inner(skin, "bone")})
           flexes == [k \in DOMAIN doc.flexes |-> Flex(doc.flexes[k])]
           skins == [k \in DOMAIN doc.skins |-> Skin(doc.skins[k])]
<1>1. Sound(doc, flexes)
  <2>1. \A k \in DOMAIN doc.flexes : Fine(doc, flexes[k])
    BY QuietElement, SettledRefs
  <2>2. flexes = [k \in DOMAIN doc.flexes |-> flexes[k]]
    OBVIOUS
  <2> HIDE DEF flexes
  <2> QED  BY <2>1, <2>2, ListedSections, SoundMapped
<1>2. Sound(doc, skins)
  <2>1. \A k \in DOMAIN doc.skins : Fine(doc, skins[k])
    <3>1. \A x : Settles(doc, "skin", Refs("material", x, {"material"}))
      BY DEF Settles, Resolved, Refs
    <3>2. \A x : Settles(doc, "skin", UNION {Refs("body", bone, {"body"}) :
                                                 bone \in Inner(x, "bone")})
      BY DEF Settles, Resolved, Refs
    <3>3. \A x : Settles(doc, "skin", Refs("material", x, {"material"})
                             \cup UNION {Refs("body", bone, {"body"}) :
                                            bone \in Inner(x, "bone")})
      BY <3>1, <3>2, SettledRefs
    <3> QED  BY <3>3, QuietElement
  <2>2. skins = [k \in DOMAIN doc.skins |-> skins[k]]
    OBVIOUS
  <2> HIDE DEF skins
  <2> QED  BY <2>1, <2>2, ListedSections, SoundMapped
<1>3. Deformable(doc) = flexes \o skins
  BY DEF Deformable, Each
<1> HIDE DEF flexes, skins
<1> QED  BY <1>1, <1>2, <1>3, SoundConcat

\* The actuators are.
LEMMA ActuatorsSound ==
    ASSUME NEW doc, InSections(doc)
    PROVE  Sound(doc, Each(doc.actuators, Actuator))
<1> DEFINE s == [k \in DOMAIN doc.actuators |-> Actuator(doc.actuators[k])]
<1>1. \A k \in DOMAIN doc.actuators : Fine(doc, s[k])
  <2> SUFFICES ASSUME NEW k \in DOMAIN doc.actuators
               PROVE  Fine(doc, Actuator(doc.actuators[k]))
    OBVIOUS
  <2> DEFINE a == doc.actuators[k]
  <2>1. Written(doc) => /\ ClassKnown(doc, a, "class")
                        /\ a.type = "plugin" => PluginKnown(doc, a)
    BY DEF Written, Valid, ActuatorsValid, Items, Range
  <2> HIDE DEF a
  <2>2. Settles(doc, "actuator", ClassAttr(a))
    BY <2>1, SettledRefs DEF ClassAttr
  <2>3. Settles(doc, "actuator", Refs("body", a, IF Target(a.type) = "body" THEN {"body"} ELSE {}))
    BY SettledRefs
  <2>4. Settles(doc, "actuator", IF a.type = "plugin" THEN PluginAttr(a) ELSE {})
    BY <2>1, SettledRefs
  <2>5. Settles(doc, "actuator",
                ClassAttr(a)
                \cup Refs("body", a, IF Target(a.type) = "body" THEN {"body"} ELSE {})
                \cup (IF a.type = "plugin" THEN PluginAttr(a) ELSE {}))
    BY <2>2, <2>3, <2>4, SettledRefs
  <2> QED  BY <2>5, QuietElement DEF Actuator, a
<1>2. s = [k \in DOMAIN doc.actuators |-> s[k]]
  OBVIOUS
<1>3. Sound(doc, s)
  <2> HIDE DEF s
  <2> QED  BY <1>1, <1>2, ListedSections, SoundMapped
<1> QED  BY <1>3 DEF Each

\* The excludes name no body inside <replicate>: the guard looked at both.
LEMMA ContactSound ==
    ASSUME NEW doc, InSections(doc), ReplicatedUnnamed(doc)
    PROVE  Sound(doc, Contact(doc))
<1> DEFINE Pair(pair) == Element("pair", Value(pair, "id"), {})
           Exclude(item) ==
            Element("exclude", Value(item, "name"),
                    Refs("body", item, {"body1", "body2"}))
           pairs == [k \in DOMAIN doc.pairs |-> Pair(doc.pairs[k])]
           excludes == [k \in DOMAIN doc.excludes |-> Exclude(doc.excludes[k])]
<1>1. Sound(doc, pairs)
  <2>1. \A k \in DOMAIN doc.pairs : Fine(doc, pairs[k])
    BY QuietElement, SettledRefs
  <2>2. pairs = [k \in DOMAIN doc.pairs |-> pairs[k]]
    OBVIOUS
  <2> HIDE DEF pairs
  <2> QED  BY <2>1, <2>2, ListedSections, SoundMapped
<1>2. Sound(doc, excludes)
  <2>1. \A k \in DOMAIN doc.excludes : Fine(doc, excludes[k])
    <3> SUFFICES ASSUME NEW k \in DOMAIN doc.excludes  PROVE Fine(doc, Exclude(doc.excludes[k]))
      OBVIOUS
    <3>1. {Value(doc.excludes[k], "body1"), Value(doc.excludes[k], "body2")}
              \cap Replicated(doc) = {}
      BY DEF ReplicatedUnnamed, Items, Range
    <3>2. Settles(doc, "exclude", Refs("body", doc.excludes[k], {"body1", "body2"}))
      BY SettledRefs
    <3> QED  BY <3>1, <3>2 DEF Fine, Element, Refs, Given, Value, ValueOr
  <2>2. excludes = [k \in DOMAIN doc.excludes |-> excludes[k]]
    OBVIOUS
  <2> HIDE DEF excludes
  <2> QED  BY <2>1, <2>2, ListedSections, SoundMapped
<1>3. Contact(doc) = pairs \o excludes
  BY DEF Contact, Each
<1> HIDE DEF pairs, excludes
<1> QED  BY <1>1, <1>2, <1>3, SoundConcat

\* Nor do the equality constraints.
LEMMA EqualitySound ==
    ASSUME NEW doc, InSections(doc), ReplicatedUnnamed(doc)
    PROVE  Sound(doc, Equality(doc))
<1> DEFINE Constraint(eq) ==
            Element("equality", eq.id,
                    IF eq.type \in {"connect", "weld"}
                    THEN Refs("body", eq, {"body1", "body2"}) ELSE {})
           s == [k \in DOMAIN doc.equality |-> Constraint(doc.equality[k])]
<1>1. \A k \in DOMAIN doc.equality : Fine(doc, s[k])
  <2> SUFFICES ASSUME NEW k \in DOMAIN doc.equality
               PROVE  Fine(doc, Constraint(doc.equality[k]))
    OBVIOUS
  <2>1. {Value(doc.equality[k], "body1"), Value(doc.equality[k], "body2")}
            \cap Replicated(doc) = {}
    BY DEF ReplicatedUnnamed, Items, Range
  <2> DEFINE eq == doc.equality[k]
             refs == IF eq.type \in {"connect", "weld"}
                     THEN Refs("body", eq, {"body1", "body2"}) ELSE {}
  <2>2. Settles(doc, "equality", refs)
    BY SettledRefs
  <2>3. \A b \in Replicated(doc) : <<"body", b>> \notin refs
    BY <2>1 DEF Refs, Given, Value, ValueOr
  <2> HIDE DEF refs
  <2>4. Fine(doc, Element("equality", eq.id, refs))
    BY <2>2, <2>3 DEF Fine, Element
  <2> QED  BY <2>4 DEF refs
<1>2. s = [k \in DOMAIN doc.equality |-> s[k]]
  OBVIOUS
<1>3. Equality(doc) = s
  BY DEF Equality, Each
<1> HIDE DEF s
<1> QED  BY <1>1, <1>2, <1>3, ListedSections, SoundMapped

\* Nor does a sensor, but those whose objname the guard overlooks.
LEMMA SensorFine ==
    ASSUME NEW doc, NEW s \in Items(doc, "objects") \cup Items(doc, "sensors"),
           IsSensor(s), ReplicatedUnnamed(doc), SensorValid(doc, s)
    PROVE  Fine(doc, SensorObject(s))
<1> DEFINE shape == Shape[s.type]
           element == SensorObject(s)
<1>1. shape \in {"site", "body", "frame", "camprojection", "insidesite",
                 "geompair", "none", "plugin"}
  BY DEF IsSensor, Shape, Value, ValueOr
<1>2. element.ns = "sensor" /\ element.name = s.id
  BY DEF SensorObject, Element
<1>3. SensorBodyRefs(s) \cap Replicated(doc) = {}
  BY DEF ReplicatedUnnamed
<1>6. Settles(doc, "sensor", element.refs)
  <2>1. \A ref \in SensorBodies(s) : ref[1] = "body"
    <3>1. CASE shape \in {"site", "camprojection", "none"}
      BY <3>1 DEF SensorBodies
    <3>2. CASE shape \in {"body", "frame", "geompair", "insidesite", "plugin"}
      BY <3>2 DEF SensorBodies, Refs
    <3> QED  BY <1>1, <3>1, <3>2
  <2>2. Settles(doc, "sensor", SensorBodies(s))
    BY <2>1 DEF Settles, Resolved
  <2>3. Settles(doc, "sensor", IF shape = "plugin" THEN PluginAttr(s) ELSE {})
    BY SettledRefs DEF SensorValid
  <2>4. element.refs = SensorBodies(s) \cup (IF shape = "plugin" THEN PluginAttr(s) ELSE {})
    BY DEF SensorObject, Element
  <2> HIDE DEF element, shape
  <2> QED  BY <2>2, <2>3, <2>4, SettledRefs
<1>4. CASE shape \in {"insidesite", "plugin"}
  <2>1. s.id \in Unguarded(doc)
    BY <1>4 DEF Unguarded
  <2>2. Fine(doc, element)
    <3> HIDE DEF element
    <3> QED  BY <1>2, <1>6, <2>1 DEF Fine
  <2> QED  BY <2>2
<1>5. CASE shape \notin {"insidesite", "plugin"}
  <2>1. \A b : <<"body", b>> \in SensorBodies(s) => b \in SensorBodyRefs(s)
    <3>1. CASE shape = "body"
      BY <3>1 DEF SensorBodies, SensorBodyRefs, Refs, Given, Value, ValueOr
    <3>2. CASE shape = "frame"
      BY <3>2 DEF SensorBodies, SensorBodyRefs, Refs, Given, Value, ValueOr
    <3>3. CASE shape = "geompair"
      BY <3>3 DEF SensorBodies, SensorBodyRefs, Refs, Given, Value, ValueOr
    <3>4. CASE shape \in {"site", "camprojection", "none"}
      BY <3>4 DEF SensorBodies
    <3> QED  BY <1>1, <1>5, <3>1, <3>2, <3>3, <3>4
  <2>2. element.refs = SensorBodies(s)
    BY <1>5 DEF SensorObject, Element
  <2>3. Fine(doc, element)
    <3> HIDE DEF element
    <3> QED  BY <1>2, <1>3, <1>6, <2>1, <2>2 DEF Fine
  <2> QED  BY <2>3
<1> QED  BY <1>4, <1>5

\* So the sensors of both sections are sound.
LEMMA SensorsSound ==
    ASSUME NEW doc, InSections(doc), ReplicatedUnnamed(doc), SensorsValid(doc), ObjectsValid(doc)
    PROVE  Sound(doc, Sensors(doc))
<1> DEFINE objects == [k \in DOMAIN doc.objects |->
                          When(IsSensor(doc.objects[k]), SensorObject(doc.objects[k]))]
           sensors == [k \in DOMAIN doc.sensors |-> SensorObject(doc.sensors[k])]
<1>1. Sound(doc, FlattenSeq(objects))
  <2>1. \A k \in DOMAIN objects : Sound(doc, objects[k])
    <3> SUFFICES ASSUME NEW k \in DOMAIN doc.objects
                 PROVE  Sound(doc, When(IsSensor(doc.objects[k]),
                                        SensorObject(doc.objects[k])))
      OBVIOUS
    <3>1. doc.objects[k] \in Items(doc, "objects")
      BY DEF Items, Range
    <3>2. IsSensor(doc.objects[k]) => Fine(doc, SensorObject(doc.objects[k]))
      BY <3>1, SensorFine DEF ObjectsValid
    <3>3. IsSensor(doc.objects[k]) \in BOOLEAN
      BY DEF IsSensor
    <3> QED  BY <3>2, <3>3, SoundWhen
  <2>2. objects = [k \in DOMAIN doc.objects |-> objects[k]]
    OBVIOUS
  <2> HIDE DEF objects
  <2>3. IsList(objects)
    BY <2>2, ListedSections, MappedList
  <2> QED  BY <2>1, <2>3, SoundFlatten
<1>2. Sound(doc, sensors)
  <2>1. \A k \in DOMAIN doc.sensors : Fine(doc, sensors[k])
    BY SensorFine DEF SensorsValid, Items, Range
  <2>2. sensors = [k \in DOMAIN doc.sensors |-> sensors[k]]
    OBVIOUS
  <2> HIDE DEF sensors
  <2> QED  BY <2>1, <2>2, ListedSections, SoundMapped
<1>3. Sensors(doc) = FlattenSeq(objects) \o sensors
  BY DEF Sensors, Each
<1> HIDE DEF objects, sensors
<1> QED  BY <1>1, <1>2, <1>3, SoundConcat

\* What the parts of a body refer to is defined, if the document is written: a
\* geom with an unknown plugin would have been thrown at.
LEMMA PartsSettle ==
    ASSUME NEW doc, NEW b \in Items(doc, "bodies")
    PROVE  /\ \A x \in Inner(b, "joints") : Settles(doc, "joint", ClassAttr(x))
           /\ \A x \in Inner(b, "sites") : Settles(doc, "site", ClassAttr(x))
           /\ \A x \in Inner(b, "cameras") : Settles(doc, "camera", ClassAttr(x))
           /\ \A x \in Inner(b, "geoms") : Settles(doc, "geom", Geom(x).refs)
<1>1. ASSUME NEW x \in Inner(b, "joints")  PROVE Settles(doc, "joint", ClassAttr(x))
  <2>1. Written(doc) => ClassKnown(doc, x, "class")
    BY DEF Written, Valid, BodiesValid, JointValid
  <2> QED  BY <2>1, SettledRefs DEF ClassAttr
<1>2. ASSUME NEW x \in Inner(b, "sites")  PROVE Settles(doc, "site", ClassAttr(x))
  <2>1. Written(doc) => ClassKnown(doc, x, "class")
    BY DEF Written, Valid, BodiesValid, SiteValid
  <2> QED  BY <2>1, SettledRefs DEF ClassAttr
<1>3. ASSUME NEW x \in Inner(b, "cameras")  PROVE Settles(doc, "camera", ClassAttr(x))
  <2>1. Written(doc) => ClassKnown(doc, x, "class")
    BY DEF Written, Valid, BodiesValid, BodyCameraValid
  <2> QED  BY <2>1, SettledRefs DEF ClassAttr
<1>4. ASSUME NEW x \in Inner(b, "geoms")  PROVE Settles(doc, "geom", Geom(x).refs)
  <2> DEFINE type == Value(x, "type")
             mesh == Refs("mesh", x, IF type \in {"mesh", "sdf"} THEN {"mesh"} ELSE {})
             hfield == Refs("hfield", x, IF type = "hfield" THEN {"hfield"} ELSE {})
             material == Refs("material", x, {"material"})
  <2>1. Written(doc) => GeomValid(doc, x)
    BY DEF Written, Valid, BodiesValid
  <2>2. Settles(doc, "geom", ClassAttr(x))
    BY <2>1, SettledRefs DEF GeomValid, ClassAttr
  <2>3. Settles(doc, "geom", PluginAttr(x))
    <3>1. Written(doc) => PluginKnown(doc, x)
      <4> SUFFICES ASSUME Written(doc)  PROVE PluginKnown(doc, x)
        OBVIOUS
      <4>1. BodyThrows(doc, b) = {}
        BY DEF Written, Throws, Over
      <4>2. \E where : UnknownPlugin(doc, where, x) = {}
        BY <4>1 DEF BodyThrows, Over, GeomThrows
      <4> QED  BY <4>2 DEF UnknownPlugin
    <3> QED  BY <3>1, SettledRefs
  <2>4. Settles(doc, "geom", material)
    BY <2>1, SettledRefs DEF GeomValid
  <2>5. Settles(doc, "geom", mesh)
    <3>1. CASE type \in {"mesh", "sdf"}
      <4>1. Written(doc) => IsAsset(doc, Value(x, "mesh"), "mesh")
        BY <2>1, <3>1 DEF GeomValid, Value, ValueOr
      <4>2. Given(x, "mesh") => x["mesh"] = Value(x, "mesh")
        BY DEF Given, Value, ValueOr
      <4> QED  BY <3>1, <4>1, <4>2, SettledRefs
    <3>2. CASE type \notin {"mesh", "sdf"}
      BY <3>2 DEF Settles, Refs
    <3> QED  BY <3>1, <3>2
  <2>6. Settles(doc, "geom", hfield)
    <3>1. CASE type = "hfield"
      <4>1. Written(doc) => IsAsset(doc, Value(x, "hfield"), "hfield")
        BY <2>1, <3>1 DEF GeomValid, Value, ValueOr
      <4>2. Given(x, "hfield") => x["hfield"] = Value(x, "hfield")
        BY DEF Given, Value, ValueOr
      <4> QED  BY <3>1, <4>1, <4>2, SettledRefs
    <3>2. CASE type # "hfield"
      BY <3>2 DEF Settles, Refs
    <3> QED  BY <3>1, <3>2
  <2>7. Geom(x).refs = ClassAttr(x) \cup PluginAttr(x) \cup material \cup mesh \cup hfield
    BY DEF Geom, Element
  <2> HIDE DEF type, mesh, hfield, material
  <2>8. Settles(doc, "geom", ClassAttr(x) \cup PluginAttr(x) \cup material)
    BY <2>2, <2>3, <2>4, SettledRefs
  <2>9. Settles(doc, "geom", ClassAttr(x) \cup PluginAttr(x) \cup material \cup mesh)
    BY <2>5, <2>8, SettledRefs
  <2>10. Settles(doc, "geom", ClassAttr(x) \cup PluginAttr(x) \cup material \cup mesh \cup hfield)
    BY <2>6, <2>9, SettledRefs
  <2> QED  BY <2>7, <2>10
<1> QED  BY <1>1, <1>2, <1>3, <1>4

\* A body is written sound if the guard knows of it whenever it is inside.
LEMMA BodyNodeSound ==
    ASSUME NEW doc, InSections(doc), NEW b \in Items(doc, "bodies"),
           NEW copied, copied => b.id \in Replicated(doc)
    PROVE  Sound(doc, BodyNode(b, copied))
<1> DEFINE joints == ValueOr(b, "joints", <<>>)
           geoms == ValueOr(b, "geoms", <<>>)
           sites == ValueOr(b, "sites", <<>>)
           cameras == ValueOr(b, "cameras", <<>>)
           parts == Each(joints, Joint) \o Each(geoms, Geom) \o Each(sites, Site)
                        \o Each(cameras, Camera)
           body == [Element("body", b.id, Refs("class", b, {"childclass"}))
                        EXCEPT !.in = Value(b, "parent"), !.copied = copied]
           inside == [k \in DOMAIN parts |->
                         [parts[k] EXCEPT !.in = b.id, !.copied = copied]]
           S == {Joint(joints[k]) : k \in DOMAIN joints}
                    \cup {Geom(geoms[k]) : k \in DOMAIN geoms}
                    \cup {Site(sites[k]) : k \in DOMAIN sites}
                    \cup {Camera(cameras[k]) : k \in DOMAIN cameras}
<1>1. IsList(joints) /\ IsList(geoms) /\ IsList(sites) /\ IsList(cameras)
  <2>1. b \in Pool["bodies"]
    BY ListedSections DEF Items, Range
  <2> QED  BY <2>1, PoolAssumption
<1>2. Fine(doc, body)
  <2>1. Written(doc) => ClassKnown(doc, b, "childclass")
    BY DEF Written, Valid, BodiesValid
  <2>2. Settles(doc, "body", Refs("class", b, {"childclass"}))
    BY <2>1, SettledRefs
  <2> QED  BY <2>2 DEF Fine, Element
<1>3. \A e \in S : Fine(doc, [e EXCEPT !.in = b.id, !.copied = copied])
  <2>1. ASSUME NEW ns \in {"joint", "geom", "site", "camera"}, NEW name, NEW refs,
               Settles(doc, ns, refs)
        PROVE  Fine(doc, [Element(ns, name, refs) EXCEPT !.in = b.id, !.copied = copied])
    BY <2>1 DEF Fine, Element
  <2>2. ASSUME NEW x \in Inner(b, "joints")
        PROVE  Fine(doc, [Joint(x) EXCEPT !.in = b.id, !.copied = copied])
    BY <2>1, PartsSettle DEF Joint
  <2>3. ASSUME NEW x \in Inner(b, "geoms")
        PROVE  Fine(doc, [Geom(x) EXCEPT !.in = b.id, !.copied = copied])
    <3>1. Settles(doc, "geom", Geom(x).refs) /\ Geom(x) = Element("geom", x.id, Geom(x).refs)
      BY PartsSettle DEF Geom, Element
    <3> QED  BY <2>1, <3>1
  <2>4. ASSUME NEW x \in Inner(b, "sites")
        PROVE  Fine(doc, [Site(x) EXCEPT !.in = b.id, !.copied = copied])
    BY <2>1, PartsSettle DEF Site
  <2>5. ASSUME NEW x \in Inner(b, "cameras")
        PROVE  Fine(doc, [Camera(x) EXCEPT !.in = b.id, !.copied = copied])
    BY <2>1, PartsSettle DEF Camera
  <2>6. /\ \A k \in DOMAIN joints : joints[k] \in Inner(b, "joints")
        /\ \A k \in DOMAIN geoms : geoms[k] \in Inner(b, "geoms")
        /\ \A k \in DOMAIN sites : sites[k] \in Inner(b, "sites")
        /\ \A k \in DOMAIN cameras : cameras[k] \in Inner(b, "cameras")
    BY DEF Inner, Range
  <2> HIDE DEF joints, geoms, sites, cameras
  <2> QED  BY <2>2, <2>3, <2>4, <2>5, <2>6
<1>4. parts \in Seq(S)
  <2>1. /\ Each(joints, Joint) \in [DOMAIN joints -> S]
        /\ Each(geoms, Geom) \in [DOMAIN geoms -> S]
        /\ Each(sites, Site) \in [DOMAIN sites -> S]
        /\ Each(cameras, Camera) \in [DOMAIN cameras -> S]
    BY DEF Each
  <2> HIDE DEF S, joints, geoms, sites, cameras
  <2>2. /\ Each(joints, Joint) \in Seq(S) /\ Each(geoms, Geom) \in Seq(S)
        /\ Each(sites, Site) \in Seq(S) /\ Each(cameras, Camera) \in Seq(S)
    BY <1>1, <2>1, MappedType
  <2> QED  BY <2>2
<1>5. Sound(doc, inside)
  <2> HIDE DEF parts, S
  <2>1. IsList(parts) /\ \A k \in DOMAIN parts : parts[k] \in S
    BY <1>4, SequencesAreLists
  <2>2. \A k \in DOMAIN parts : Fine(doc, inside[k])
    BY <1>3, <2>1
  <2>3. inside = [k \in DOMAIN parts |-> inside[k]]
    OBVIOUS
  <2> HIDE DEF inside
  <2> QED  BY <2>1, <2>2, <2>3, SoundMapped
<1>6. BodyNode(b, copied) = <<body>> \o inside
  BY DEF BodyNode
<1> HIDE DEF body, inside
<1> QED  BY <1>2, <1>5, <1>6, SoundOne, SoundConcat

\* Below a replicated root there are only bodies the guard knows of: the set of
\* ids it collects is downward, and so is that of all ids.
LEMMA BodyForestSound ==
    ASSUME NEW doc, InSections(doc), \A b \in Items(doc, "bodies") : Given(b, "id")
    PROVE  Sound(doc, BodyForest(doc))
<1> DEFINE bodies == doc.bodies
<1>1. bodies \in Seq(Pool["bodies"]) /\ IsList(bodies)
  BY ListedSections
<1>2. ASSUME NEW b \in Items(doc, "bodies")  PROVE Value(b, "id") = b.id
  BY <1>2 DEF Given, Value, ValueOr
<1>3. ASSUME NEW root \in Items(doc, "bodies"), ~Given(root, "parent")
      PROVE  Sound(doc, BodyTree(bodies, root))
  <2> DEFINE copied == "replicate" \in DOMAIN root
             ids == IF copied THEN Replicated(doc) ELSE Tops(bodies)
             S == {b \in Range(bodies) : Value(b, "parent") \in ids}
             T == {b \in Items(doc, "bodies") : copied => b.id \in Replicated(doc)}
             descent == <<root>> \o Below(bodies)[root.id]
  <2>1. root.id \in Tops(bodies)
    BY <1>1, <1>2 DEF Tops, Range, Field, Items
  <2>2. root.id \in ids
    BY <1>3, <2>1, ReplicatedClosed
  <2>3. Downward(ids, bodies)
    <3>1. ASSUME NEW k \in DOMAIN bodies, Value(bodies[k], "parent") \in ids
          PROVE  Value(bodies[k], "id") \in ids
      <4>1. bodies[k] \in Items(doc, "bodies")
        BY DEF Items, Range
      <4>2. CASE copied
        BY <1>2, <3>1, <4>1, <4>2, ReplicatedClosed
      <4>3. CASE ~copied
        BY <4>3 DEF Tops, Range, Field
      <4> QED  BY <4>2, <4>3
    <3> HIDE DEF ids
    <3> QED  BY <3>1 DEF Downward
  <2>4. Below(bodies)[root.id] \in Seq(S)
    <3> HIDE DEF ids
    <3> QED  BY <1>1, <2>1, <2>2, <2>3, BelowStays
  <2>5. S \subseteq T /\ root \in T
    BY <1>3, ReplicatedClosed DEF Items
  <2>6. descent \in Seq(T)
    <3>1. <<root>> \in Seq(T) /\ Below(bodies)[root.id] \in Seq(T)
      <4> HIDE DEF S, T
      <4> QED  BY <2>4, <2>5
    <3> HIDE DEF T
    <3> QED  BY <3>1
  <2> DEFINE seqs == [k \in DOMAIN descent |-> BodyNode(descent[k], copied)]
  <2>7. IsList(descent) /\ \A k \in DOMAIN descent : descent[k] \in T
    <3> HIDE DEF descent, T
    <3> QED  BY <2>6, SequencesAreLists
  <2>8. \A k \in DOMAIN seqs : Sound(doc, seqs[k])
    <3> HIDE DEF descent
    <3> QED  BY <2>7, BodyNodeSound
  <2>9. seqs = [k \in DOMAIN descent |-> seqs[k]]
    OBVIOUS
  <2>10. BodyTree(bodies, root) = FlattenSeq(seqs)
    BY DEF BodyTree, Each
  <2> HIDE DEF seqs, descent
  <2>11. IsList(seqs)
    BY <2>7, <2>9, MappedList
  <2> QED  BY <2>8, <2>10, <2>11, SoundFlatten
<1> DEFINE trees == [k \in DOMAIN bodies |->
                        IF Given(bodies[k], "parent") THEN <<>>
                        ELSE BodyTree(bodies, bodies[k])]
<1>4. \A k \in DOMAIN trees : Sound(doc, trees[k])
  BY <1>3, SoundNone DEF Items, Range
<1>5. trees = [k \in DOMAIN bodies |-> trees[k]]
  OBVIOUS
<1>6. BodyForest(doc) = FlattenSeq(trees)
  BY DEF BodyForest, Each
<1> HIDE DEF trees
<1>7. IsList(trees)
  BY <1>1, <1>5, MappedList
<1> QED  BY <1>4, <1>6, <1>7, SoundFlatten

\* The world is sound.
LEMMA WorldSound ==
    ASSUME NEW doc, InSections(doc), \A b \in Items(doc, "bodies") : Given(b, "id")
    PROVE  Sound(doc, World(doc))
<1> DEFINE ground == Derived("geom", "scene_ground",
                    IF GroundMaterial(doc)
                    THEN {<<"material", "scene_ground_mat">>} ELSE {})
           mounts == [k \in DOMAIN doc.models |->
                         Derived("frame", doc.models[k].id \o "_mount",
                             {<<"model", "scene_model_" \o doc.models[k].id>>})]
           obstacles == [k \in DOMAIN doc.objects |->
                            IF IsSensor(doc.objects[k]) THEN <<>>
                            ELSE PrimitiveObject(doc.objects[k])]
           cameras == [k \in DOMAIN doc.cameras |-> Camera(doc.cameras[k])]
<1>1. Sound(doc, When(Ground(doc), ground))
  <2>1. Fine(doc, ground)
    <3> DEFINE refs == IF GroundMaterial(doc) THEN {<<"material", "scene_ground_mat">>} ELSE {}
    <3>1. Settles(doc, "geom", refs)
      BY DEF Settles, Resolved, Nameable
    <3> HIDE DEF refs
    <3>2. Fine(doc, Derived("geom", "scene_ground", refs))
      BY <3>1, QuietElement
    <3> QED  BY <3>2 DEF refs
  <2>2. Ground(doc) \in BOOLEAN
    BY DEF Ground
  <2> HIDE DEF ground
  <2> QED  BY <2>1, <2>2, SoundWhen
<1>2. Sound(doc, mounts)
  <2>1. \A k \in DOMAIN doc.models : Fine(doc, mounts[k])
    <3>1. \A m \in Items(doc, "models") :
              Settles(doc, "frame", {<<"model", "scene_model_" \o m.id>>})
      BY DEF Settles, Resolved, Nameable
    <3> QED  BY <3>1, QuietElement DEF Items, Range
  <2>2. mounts = [k \in DOMAIN doc.models |-> mounts[k]]
    OBVIOUS
  <2> HIDE DEF mounts
  <2> QED  BY <2>1, <2>2, ListedSections, SoundMapped
<1>3. Sound(doc, FlattenSeq(obstacles))
  <2>1. ASSUME NEW o \in Items(doc, "objects"), ~IsSensor(o)
        PROVE  Sound(doc, PrimitiveObject(o))
    <3> DEFINE body == Element("body", o.id, {})
               geom == [Derived("geom", o.id \o "_geom",
               Refs("mesh", o,
                    IF o.type = "obstacle.mesh" THEN {"mesh"} ELSE {})
               \cup Refs("hfield", o,
                         IF o.type = "obstacle.hfield" THEN {"hfield"}
                         ELSE {}))
           EXCEPT !.in = o.id]
               S == {body, geom}
    <3> DEFINE mesh == Refs("mesh", o,
                    IF o.type = "obstacle.mesh" THEN {"mesh"} ELSE {})
               hfield == Refs("hfield", o,
                         IF o.type = "obstacle.hfield" THEN {"hfield"} ELSE {})
    <3>a. Settles(doc, "geom", mesh) /\ Settles(doc, "geom", hfield)
      <4>1. Written(doc) =>
                /\ o.type = "obstacle.mesh" => IsAsset(doc, Value(o, "mesh"), "mesh")
                /\ o.type = "obstacle.hfield" => IsAsset(doc, Value(o, "hfield"), "hfield")
        BY <2>1 DEF Written, Valid, ObjectsValid
      <4>2. /\ Given(o, "mesh") => o["mesh"] = Value(o, "mesh")
            /\ Given(o, "hfield") => o["hfield"] = Value(o, "hfield")
        BY DEF Given, Value, ValueOr
      <4>3. \A kind, item : Settles(doc, "geom", Refs(kind, item, {}))
        BY DEF Settles, Refs
      <4> QED  BY <4>1, <4>2, <4>3, SettledRefs
    <3>b. Settles(doc, "geom", mesh \cup hfield)
      <4> HIDE DEF mesh, hfield
      <4> QED  BY <3>a, SettledRefs
    <3>1. Fine(doc, body) /\ Fine(doc, geom)
      BY <3>b, SettledRefs, QuietElement
    <3>2. PrimitiveObject(o) = <<body, geom>>
      BY DEF PrimitiveObject
    <3>3. <<body, geom>> \in Seq(S)
      <4> HIDE DEF body, geom
      <4> QED  OBVIOUS
    <3>4. \A e \in S : Fine(doc, e)
      <4> HIDE DEF body, geom
      <4> QED  BY <3>1 DEF S
    <3> HIDE DEF S, body, geom
    <3> QED  BY <3>2, <3>3, <3>4, SoundFrom
  <2>2. \A k \in DOMAIN obstacles : Sound(doc, obstacles[k])
    BY <2>1, SoundNone DEF Items, Range
  <2>3. obstacles = [k \in DOMAIN doc.objects |-> obstacles[k]]
    OBVIOUS
  <2> HIDE DEF obstacles
  <2>4. IsList(obstacles)
    BY <2>3, ListedSections, MappedList
  <2> QED  BY <2>2, <2>4, SoundFlatten
<1>4. Sound(doc, cameras)
  <2>1. \A k \in DOMAIN doc.cameras : Fine(doc, cameras[k])
    <3>1. \A c \in Items(doc, "cameras") : Written(doc) => ClassKnown(doc, c, "class")
      BY DEF Written, Valid, WorldCamerasValid
    <3>2. \A c \in Items(doc, "cameras") : Settles(doc, "camera", ClassAttr(c))
      BY <3>1, SettledRefs DEF ClassAttr
    <3> QED  BY <3>2, QuietElement DEF Camera, Items, Range
  <2>2. cameras = [k \in DOMAIN doc.cameras |-> cameras[k]]
    OBVIOUS
  <2> HIDE DEF cameras
  <2> QED  BY <2>1, <2>2, ListedSections, SoundMapped
<1>5. World(doc) = When(Ground(doc), ground) \o mounts \o FlattenSeq(obstacles)
                       \o cameras \o BodyForest(doc)
  BY DEF World, Each
<1> HIDE DEF ground, mounts, obstacles, cameras
<1> QED
  BY <1>1, <1>2, <1>3, <1>4, <1>5, BodyForestSound, SoundConcat

\* Every element of an accepted scene is fine.
LEMMA DocumentSound ==
    ASSUME NEW doc, InSections(doc), Valid(doc)
    PROVE  Sound(doc, Document(doc))
<1>1. \A b \in Items(doc, "bodies") : Given(b, "id")
  <2>1. "bodies" \in Range(Pooled) \ {"pairs"}
    <3>1. Pooled[7] = "bodies" /\ 7 \in DOMAIN Pooled
      BY DEF Pooled
    <3> QED  BY <3>1 DEF Range
  <2> QED  BY <2>1 DEF Valid, Named
<1>2. /\ AssetsValid(doc) /\ SensorsValid(doc) /\ ObjectsValid(doc)
      /\ ReplicatedUnnamed(doc)
  BY DEF Valid
<1>3. Sound(doc, Defaults(doc) \o Extension(doc) \o Plain(doc, "custom") \o Assets(doc))
  BY <1>2, DefaultsSound, ExtensionSound, PlainSound, AssetsSound, SoundConcat
<1>4. Sound(doc, World(doc)) /\ Sound(doc, Contact(doc)) /\ Sound(doc, Deformable(doc))
  BY <1>1, <1>2, WorldSound, ContactSound, DeformableSound
<1>5. Sound(doc, Equality(doc)) /\ Sound(doc, Plain(doc, "tendon"))
  BY <1>2, EqualitySound, PlainSound
<1>6. /\ Sound(doc, Each(doc.actuators, Actuator)) /\ Sound(doc, Sensors(doc))
      /\ Sound(doc, Plain(doc, "keyframes"))
  BY <1>2, ActuatorsSound, SensorsSound, PlainSound
<1> QED
  BY <1>3, <1>4, <1>5, <1>6, SoundConcat DEF Document

\* ReplicatedUnaddressed: nothing that may not names a body inside <replicate>
\* (reject_replicated in validate_scene against what compile_body_forest, the
\* equality, contact and sensor generators write).
THEOREM ReplicasUnaddressed == SceneSpec => []ReplicatedUnaddressed
<1>1. SceneTypes => ReplicatedUnaddressed
  <2> SUFFICES ASSUME SceneTypes, Valid(scene)  PROVE ReplicatedUnaddressed
    BY DEF ReplicatedUnaddressed
  <2>1. \A e \in Elements : Fine(scene, e)
    BY DocumentSound DEF SceneTypes, Elements, Sound
  <2> QED  BY <2>1 DEF ReplicatedUnaddressed, Fine
<1> QED  BY <1>1, TypesInvariant, PTL

-----------------------------------------------------------------------------
(* The order of the elements *)

\* What a list defines, by namespace and name.
Names(s) == {<<e.ns, e.name>> : e \in Range(s)}

\* References that are not checked.
Exempt(e, ref) ==
    ref[1] = "body" \/ (ref[1] = "material" /\ e.ns \in {"class", "skin"})

\* Every reference is to one of the names given, or to an earlier element.
Ordered(s, known) ==
    \A k \in DOMAIN s : \A ref \in s[k].refs :
        \/ Exempt(s[k], ref)
        \/ ref \in known
        \/ \E j \in 1..(k - 1) : <<s[j].ns, s[j].name>> = ref

\* Every reference is to one of the names known.
Closed(s, known) ==
    \A e \in Range(s) : \A ref \in e.refs : Exempt(e, ref) \/ ref \in known

\* References to what is known are in order wherever they are.
LEMMA ClosedOrdered ==
    ASSUME NEW s, NEW known, Closed(s, known)
    PROVE  Ordered(s, known)
BY DEF Closed, Ordered, Range

\* Order stays if more is known.
LEMMA OrderedMore ==
    ASSUME NEW s, NEW known, NEW more, Ordered(s, known), known \subseteq more
    PROVE  Ordered(s, more)
BY DEF Ordered

\* One list after the other defines what either does.
LEMMA NamesConcat ==
    ASSUME NEW s, IsList(s), NEW t, IsList(t)
    PROVE  /\ IsList(s \o t)
           /\ Range(s \o t) = Range(s) \cup Range(t)
           /\ Names(s \o t) = Names(s) \cup Names(t)
<1> DEFINE S == Range(s) \cup Range(t)
<1>1. s \in Seq(S) /\ t \in Seq(S)
  BY DEF IsList
<1> HIDE DEF S
<1>2. s \o t \in Seq(S) /\ Range(s \o t) = Range(s) \cup Range(t)
  BY <1>1, ConcatHas
<1>3. IsList(s \o t)
  BY <1>2, SequencesAreLists
<1> QED  BY <1>2, <1>3 DEF Names

\* Order carries over to one list after the other.
LEMMA OrderedConcat ==
    ASSUME NEW s, IsList(s), NEW t, IsList(t), NEW known,
           Ordered(s, known), Ordered(t, known \cup Names(s))
    PROVE  Ordered(s \o t, known)
<1> DEFINE u == s \o t
<1>1. /\ Len(s) \in Nat /\ DOMAIN s = 1..Len(s)
      /\ Len(t) \in Nat /\ DOMAIN t = 1..Len(t)
  BY DEF IsList
<1>2. /\ DOMAIN u = 1..(Len(s) + Len(t))
      /\ \A k \in 1..Len(s) : u[k] = s[k]
      /\ \A k \in 1..Len(t) : u[Len(s) + k] = t[k]
  <2> DEFINE S == Range(s) \cup Range(t)
  <2>1. s \in Seq(S) /\ t \in Seq(S)
    BY DEF IsList
  <2> HIDE DEF S
  <2> QED  BY <2>1
<1> HIDE DEF u
<1>3. ASSUME NEW k \in DOMAIN u, NEW ref \in u[k].refs
      PROVE  \/ Exempt(u[k], ref)
             \/ ref \in known
             \/ \E j \in 1..(k - 1) : <<u[j].ns, u[j].name>> = ref
  <2>1. CASE k \in 1..Len(s)
    <3>1. \/ Exempt(s[k], ref)
          \/ ref \in known
          \/ \E j \in 1..(k - 1) : <<s[j].ns, s[j].name>> = ref
      BY <1>1, <1>2, <1>3, <2>1 DEF Ordered
    <3>2. \A j \in 1..(k - 1) : j \in 1..Len(s) /\ u[j] = s[j]
      BY <1>1, <1>2, <2>1
    <3> QED  BY <1>2, <2>1, <3>1, <3>2
  <2>2. CASE k \notin 1..Len(s)
    <3> DEFINE m == k - Len(s)
    <3>1. m \in 1..Len(t) /\ k = Len(s) + m /\ u[k] = t[m]
      BY <1>1, <1>2, <2>2
    <3>2. \/ Exempt(t[m], ref)
          \/ ref \in known \cup Names(s)
          \/ \E j \in 1..(m - 1) : <<t[j].ns, t[j].name>> = ref
      BY <1>1, <1>3, <3>1 DEF Ordered
    <3>3. CASE ref \in Names(s)
      <4>1. PICK j \in 1..Len(s) : ref = <<s[j].ns, s[j].name>>
        BY <1>1, <3>3 DEF Names, Range
      <4>2. j \in 1..(k - 1) /\ u[j] = s[j]
        BY <1>1, <1>2, <3>1, <4>1
      <4> QED  BY <4>1, <4>2
    <3>4. CASE \E j \in 1..(m - 1) : <<t[j].ns, t[j].name>> = ref
      <4>1. PICK j \in 1..(m - 1) : <<t[j].ns, t[j].name>> = ref
        BY <3>4
      <4>2. /\ Len(s) + j \in 1..(k - 1) /\ j \in 1..Len(t)
            /\ u[Len(s) + j] = t[j]
        BY <1>1, <1>2, <3>1
      <4> QED  BY <4>1, <4>2
    <3> HIDE DEF m
    <3> QED  BY <3>1, <3>2, <3>3, <3>4
  <2> QED  BY <2>1, <2>2
<1> QED  BY <1>3 DEF Ordered, u

\* One more list: closed under what is known and what is before it.
LEMMA OrderedThen ==
    ASSUME NEW s, IsList(s), NEW t, IsList(t), NEW known,
           Ordered(s, known), Closed(t, known \cup Names(s))
    PROVE  /\ IsList(s \o t) /\ Ordered(s \o t, known)
           /\ Names(s \o t) = Names(s) \cup Names(t)
BY ClosedOrdered, OrderedConcat, NamesConcat

\* Every default class is written (BelowReaches), and refers to no other name.
LEMMA ClassesWritten ==
    ASSUME NEW doc, InSections(doc), Written(doc)
    PROVE  /\ Closed(Defaults(doc), {})
           /\ \A c \in Items(doc, "defaultClasses") :
                  <<"class", c.id>> \in Names(Defaults(doc))
<1> DEFINE items == doc.defaultClasses
           Class(class) ==
            [Element("class", class.id, Refs("material", class, {"material"}))
                 EXCEPT !.in = Value(class, "parent")]
           classes == Below(items)[""]
           s == [k \in DOMAIN classes |-> Class(classes[k])]
<1>1. items \in Seq(Pool["defaultClasses"])
  BY ListedSections
<1>2. Range(items) \subseteq Range(classes)
  <2>1. TreeValid(Range(items))
    BY DEF Written, Valid, ClassesValid, Items
  <2>2. \A x \in Range(items) : Given(x, "id")
    BY DEF Written, Valid, Named, Items
  <2> HIDE DEF items
  <2> QED  BY <1>1, <2>1, <2>2, BelowReaches
<1>3. Defaults(doc) = s
  BY DEF Defaults, Each
<1>4. Closed(s, {})
  <2>1. ASSUME NEW c, NEW ref \in Class(c).refs
        PROVE  Exempt(Class(c), ref)
    BY <2>1 DEF Element, Refs, Exempt
  <2>2. \A e \in Range(s) : \E c : e = Class(c)
    BY DEF Range
  <2> HIDE DEF Class, s
  <2> QED  BY <2>1, <2>2 DEF Closed
<1>5. \A c \in Range(items) : <<"class", c.id>> \in Names(s)
  <2>1. ASSUME NEW c \in Range(items)  PROVE \E k \in DOMAIN s : s[k] = Class(c)
    BY <1>2 DEF Range
  <2>2. \A c : Class(c).ns = "class" /\ Class(c).name = c.id
    BY DEF Element
  <2> HIDE DEF s, items, Class
  <2> QED  BY <2>1, <2>2 DEF Names, Range
<1> QED  BY <1>3, <1>4, <1>5 DEF Items

\* Every plugin instance is written: validate_scene wants its plugin.
LEMMA PluginsWritten ==
    ASSUME NEW doc, InSections(doc), Written(doc)
    PROVE  /\ Closed(Extension(doc), {})
           /\ \A p \in Items(doc, "plugins") :
                  <<"plugin", p.id>> \in Names(Extension(doc))
<1> DEFINE s == [k \in DOMAIN doc.plugins |->
                    When(Given(doc.plugins[k], "plugin"), Element("plugin", doc.plugins[k].id, {}))]
           S == {Element("plugin", p.id, {}) : p \in Items(doc, "plugins")}
<1>1. \A k \in DOMAIN doc.plugins : Given(doc.plugins[k], "plugin")
  BY DEF Written, Valid, PluginsValid, Items, Range
<1>2. \A k \in DOMAIN s : s[k] = <<Element("plugin", doc.plugins[k].id, {})>>
  BY <1>1 DEF When
<1>3. \A k \in DOMAIN s : s[k] \in Seq(S)
                          /\ Range(s[k]) = {Element("plugin", doc.plugins[k].id, {})}
  <2> SUFFICES ASSUME NEW k \in DOMAIN s
               PROVE  /\ s[k] \in Seq(S)
                      /\ Range(s[k]) = {Element("plugin", doc.plugins[k].id, {})}
    OBVIOUS
  <2> DEFINE e == Element("plugin", doc.plugins[k].id, {})
  <2>1. e \in S
    BY DEF Items, Range
  <2> HIDE DEF e, S
  <2>2. s[k] = <<e>>
    BY <1>2 DEF e
  <2> HIDE DEF s
  <2>3. s[k] \in Seq(S) /\ Range(s[k]) = {e}
    BY <2>1, <2>2, OneList
  <2> QED  BY <2>3 DEF e
<1>4. s = [k \in DOMAIN doc.plugins |-> s[k]]
  OBVIOUS
<1>5. Extension(doc) = FlattenSeq(s)
  BY DEF Extension, Each
<1> HIDE DEF s, S
<1>6. s \in Seq(Seq(S))
  BY <1>3, <1>4, ListedSections, MappedType
<1>7. Range(FlattenSeq(s)) = UNION {Range(s[k]) : k \in DOMAIN s}
  BY <1>6, FlattenRange
<1>8. Range(Extension(doc)) = {Element("plugin", p.id, {}) : p \in Items(doc, "plugins")}
  <2>1. DOMAIN s = DOMAIN doc.plugins
    BY <1>4
  <2>2. Range(Extension(doc)) = UNION {{Element("plugin", doc.plugins[k].id, {})} :
                                          k \in DOMAIN doc.plugins}
    BY <1>3, <1>5, <1>7, <2>1
  <2> QED  BY <2>2 DEF Items, Range
<1>9. \A ns, name, refs : /\ Element(ns, name, refs).ns = ns
                           /\ Element(ns, name, refs).name = name
                           /\ Element(ns, name, refs).refs = refs
  BY DEF Element
<1>10. \A e \in Range(Extension(doc)) : e.refs = {}
  BY <1>8, <1>9
<1>11. \A p \in Items(doc, "plugins") : \E e \in Range(Extension(doc)) :
           e.ns = "plugin" /\ e.name = p.id
  BY <1>8, <1>9
<1> QED  BY <1>10, <1>11 DEF Closed, Names

\* The assets of one kind, as generate_asset_xml writes them.
OfKind(doc, kind) ==
    FlattenSeq(Each(doc.assets,
        LAMBDA asset : When(Value(asset, "kind") = kind, AssetDeclaration(asset))))

\* They are the declarations of the assets of the kind.
LEMMA OfKindRange ==
    ASSUME NEW doc, InSections(doc), NEW kind
    PROVE  /\ IsList(OfKind(doc, kind))
           /\ Range(OfKind(doc, kind)) =
                  {AssetDeclaration(a) : a \in {x \in Items(doc, "assets") :
                                                   Value(x, "kind") = kind}}
<1> DEFINE items == doc.assets
           s == [k \in DOMAIN items |->
                    When(Value(items[k], "kind") = kind, AssetDeclaration(items[k]))]
           S == {AssetDeclaration(a) : a \in {x \in Range(items) : Value(x, "kind") = kind}}
<1>1. ASSUME NEW k \in DOMAIN items, Value(items[k], "kind") = kind
      PROVE  s[k] \in Seq(S) /\ Range(s[k]) = {AssetDeclaration(items[k])}
  <2> DEFINE e == AssetDeclaration(items[k])
  <2>1. e \in S
    BY <1>1 DEF Range
  <2>2. s[k] = <<e>>
    BY <1>1 DEF When
  <2> HIDE DEF e, S, s
  <2>3. s[k] \in Seq(S) /\ Range(s[k]) = {e}
    BY <2>1, <2>2, OneList
  <2> QED  BY <2>3 DEF e
<1>2. ASSUME NEW k \in DOMAIN items, Value(items[k], "kind") # kind
      PROVE  s[k] \in Seq(S) /\ Range(s[k]) = {}
  <2>1. s[k] = <<>>
    BY <1>2 DEF When
  <2> HIDE DEF s, S
  <2> QED  BY <2>1 DEF Range
<1>3. s = [k \in DOMAIN items |-> s[k]] /\ OfKind(doc, kind) = FlattenSeq(s)
  BY DEF OfKind, Each
<1>4. IsList(items)
  BY ListedSections
<1> HIDE DEF s
<1>5. s \in Seq(Seq(S))
  <2> HIDE DEF S
  <2> QED  BY <1>1, <1>2, <1>3, <1>4, MappedType
<1>6. IsList(OfKind(doc, kind))
  <2> HIDE DEF S
  <2> QED  BY <1>3, <1>5, FlattenType, SequencesAreLists
<1>7. Range(OfKind(doc, kind)) = UNION {Range(s[k]) : k \in DOMAIN s}
  <2> HIDE DEF S
  <2> QED  BY <1>3, <1>5, FlattenRange
<1>8. DOMAIN s = DOMAIN items
  BY <1>3
<1>9. ASSUME NEW e \in Range(OfKind(doc, kind))  PROVE e \in S
  <2>1. PICK k \in DOMAIN items : e \in Range(s[k])
    BY <1>7, <1>8
  <2>2. Value(items[k], "kind") = kind
    <3> HIDE DEF S
    <3> QED  BY <1>2, <2>1
  <2>3. e = AssetDeclaration(items[k])
    <3> HIDE DEF S
    <3> QED  BY <1>1, <2>1, <2>2
  <2> QED  BY <2>2, <2>3 DEF Range
<1>10. ASSUME NEW x \in Range(items), Value(x, "kind") = kind
       PROVE  AssetDeclaration(x) \in Range(OfKind(doc, kind))
  <2>1. PICK k \in DOMAIN items : x = items[k]
    BY DEF Range
  <2> QED  BY <1>1, <1>7, <1>8, <1>10, <2>1
<1>11. Range(OfKind(doc, kind)) = S
  BY <1>9, <1>10
<1> QED  BY <1>6, <1>11 DEF Items

\* What an asset of each kind refers to.
LEMMA AssetRefs ==
    ASSUME NEW doc, Written(doc), NEW a \in Items(doc, "assets")
    PROVE  LET e == AssetDeclaration(a)
           IN  /\ e.ns = Value(a, "kind") /\ e.name = a.id
               /\ Value(a, "kind") \in {"texture", "material", "mesh", "hfield"}
               /\ Value(a, "kind") \in {"texture", "hfield"} => e.refs = {}
               /\ Value(a, "kind") = "material" =>
                      \A ref \in e.refs : \E t \in Items(doc, "assets") :
                          Value(t, "kind") = "texture" /\ ref = <<"texture", t.id>>
               /\ Value(a, "kind") = "mesh" =>
                      \A ref \in e.refs : \E p \in Items(doc, "plugins") :
                          ref = <<"plugin", p.id>>
<1>1. Value(a, "kind") \in {"texture", "material", "mesh", "hfield"}
  BY DEF Written, Valid, AssetsValid
<1>2. a.kind = Value(a, "kind")
  BY <1>1 DEF Value, ValueOr
<1>3. \A ns, name, refs : /\ Element(ns, name, refs).ns = ns
                           /\ Element(ns, name, refs).name = name
                           /\ Element(ns, name, refs).refs = refs
  BY DEF Element
<1>4. CASE a.kind \in {"texture", "hfield"}
  BY <1>2, <1>3, <1>4 DEF AssetDeclaration
<1>5. CASE a.kind = "material"
  <2>1. AssetDeclaration(a) = Element("material", a.id, Refs("texture", a, {"texture"}))
    BY <1>5 DEF AssetDeclaration
  <2>2. ASSUME NEW ref \in Refs("texture", a, {"texture"})
        PROVE  \E t \in Items(doc, "assets") :
                          Value(t, "kind") = "texture" /\ ref = <<"texture", t.id>>
    <3>1. ref = <<"texture", a.texture>> /\ Given(a, "texture")
      BY <2>2 DEF Refs
    <3>2. IsAsset(doc, a.texture, "texture")
      BY <1>5, <3>1 DEF Written, Valid, AssetsValid
    <3> QED  BY <3>1, <3>2 DEF IsAsset, Value, ValueOr
  <2> QED  BY <1>2, <1>3, <1>5, <2>1, <2>2
<1>6. CASE a.kind = "mesh"
  <2>1. AssetDeclaration(a) = Element("mesh", a.id, PluginAttr(a))
    BY <1>6 DEF AssetDeclaration
  <2>2. ASSUME NEW ref \in PluginAttr(a)
        PROVE  \E p \in Items(doc, "plugins") : ref = <<"plugin", p.id>>
    <3>1. ref = <<"plugin", a.plugin_instance>> /\ Given(a, "plugin_instance")
      BY <2>2 DEF PluginAttr, Refs
    <3>2. PluginKnown(doc, a)
      BY <1>6, <3>1 DEF Written, Valid, AssetsValid
    <3> QED  BY <3>1, <3>2 DEF PluginKnown
  <2> QED  BY <1>2, <1>3, <1>6, <2>1, <2>2
<1> QED  BY <1>1, <1>2, <1>4, <1>5, <1>6

\* The environment's assets: the texture of the ground before its material.
LEMMA EnvironmentWritten ==
    ASSUME NEW doc
    PROVE  /\ IsList(EnvAssets(doc)) /\ Ordered(EnvAssets(doc), {})
           /\ GroundMaterial(doc) => <<"material", "scene_ground_mat">> \in Names(EnvAssets(doc))
           /\ Checker(doc) => <<"texture", "scene_ground_tex">> \in Names(EnvAssets(doc))
<1> DEFINE sky == When(Skybox(doc), Derived("texture", "scene_skybox", {}))
           tex == When(Checker(doc), Derived("texture", "scene_ground_tex", {}))
           refs == IF Checker(doc) THEN {<<"texture", "scene_ground_tex">>} ELSE {}
           mat == When(GroundMaterial(doc), Derived("material", "scene_ground_mat", refs))
<1>1. \A ns, name, r : /\ Derived(ns, name, r).ns = ns
                        /\ Derived(ns, name, r).name = name
                        /\ Derived(ns, name, r).refs = r
  BY DEF Derived, Element
<1>2. Skybox(doc) \in BOOLEAN /\ Checker(doc) \in BOOLEAN /\ GroundMaterial(doc) \in BOOLEAN
  BY DEF Skybox, Checker, GroundMaterial, Ground
<1>3. EnvAssets(doc) = sky \o tex \o mat
  BY DEF EnvAssets
<1>4. /\ IsList(sky) /\ Range(sky) \subseteq {Derived("texture", "scene_skybox", {})}
      /\ IsList(tex) /\ Range(tex) = IF Checker(doc) THEN {Derived("texture", "scene_ground_tex", {})} ELSE {}
      /\ IsList(mat) /\ Range(mat) = IF GroundMaterial(doc) THEN {Derived("material", "scene_ground_mat", refs)} ELSE {}
  <2> HIDE DEF refs
  <2> QED  BY <1>2, WhenRange
<1> HIDE DEF sky, tex, mat
<1>5. Closed(sky, {}) /\ Closed(tex, {})
  <2> HIDE DEF refs
  <2> QED  BY <1>1, <1>4 DEF Closed
<1>6. Checker(doc) => <<"texture", "scene_ground_tex">> \in Names(tex)
  <2> HIDE DEF refs
  <2>1. SUFFICES ASSUME Checker(doc)  PROVE <<"texture", "scene_ground_tex">> \in Names(tex)
    OBVIOUS
  <2>2. Derived("texture", "scene_ground_tex", {}) \in Range(tex)
    BY <1>4, <2>1
  <2> QED  BY <1>1, <2>2 DEF Names
<1>7. GroundMaterial(doc) => <<"material", "scene_ground_mat">> \in Names(mat)
  <2> HIDE DEF refs
  <2>1. SUFFICES ASSUME GroundMaterial(doc)  PROVE <<"material", "scene_ground_mat">> \in Names(mat)
    OBVIOUS
  <2>2. Derived("material", "scene_ground_mat", refs) \in Range(mat)
    BY <1>4, <2>1
  <2> QED  BY <1>1, <2>2 DEF Names
<1>8. Closed(mat, Names(tex))
  <2>1. \A ref \in refs : ref \in Names(tex)
    BY <1>6
  <2> HIDE DEF refs
  <2> QED  BY <1>1, <1>4, <2>1 DEF Closed
<1>9. /\ IsList(sky \o tex) /\ Ordered(sky \o tex, {})
      /\ Names(tex) \subseteq Names(sky \o tex)
  <2>1. Ordered(sky, {}) /\ Ordered(tex, {} \cup Names(sky))
    BY <1>5, ClosedOrdered DEF Closed
  <2> QED  BY <1>4, <2>1, OrderedConcat, NamesConcat
<1>10. /\ IsList((sky \o tex) \o mat) /\ Ordered((sky \o tex) \o mat, {})
       /\ Names(tex) \cup Names(mat) \subseteq Names((sky \o tex) \o mat)
  <2> DEFINE s == sky \o tex
  <2>1. Closed(mat, {} \cup Names(s))
    BY <1>8, <1>9 DEF Closed
  <2> HIDE DEF s
  <2>2. Ordered(mat, {} \cup Names(s))
    BY <2>1, ClosedOrdered
  <2>3. IsList(s) /\ Ordered(s, {}) /\ Names(tex) \subseteq Names(s)
    BY <1>9 DEF s
  <2>4. /\ IsList(s \o mat) /\ Ordered(s \o mat, {})
        /\ Names(tex) \cup Names(mat) \subseteq Names(s \o mat)
    BY <1>4, <2>2, <2>3, OrderedConcat, NamesConcat
  <2> QED  BY <2>4 DEF s
<1> QED  BY <1>3, <1>6, <1>7, <1>10

\* The assets of the scene are in order, textures before the materials that name
\* them, and every one of them is written.
LEMMA UserAssetsWritten ==
    ASSUME NEW doc, InSections(doc), Written(doc), NEW known,
           \A p \in Items(doc, "plugins") : <<"plugin", p.id>> \in known
    PROVE  /\ IsList(UserAssets(doc)) /\ Ordered(UserAssets(doc), known)
           /\ \A a \in Items(doc, "assets") : <<a.kind, a.id>> \in Names(UserAssets(doc))
<1> DEFINE T == OfKind(doc, "texture")
           M == OfKind(doc, "material")
           E == OfKind(doc, "mesh")
           H == OfKind(doc, "hfield")
<1>1. UserAssets(doc) = T \o M \o E \o H
  BY DEF UserAssets, OfKind
<1>2. IsList(T) /\ IsList(M) /\ IsList(E) /\ IsList(H)
  BY OfKindRange
<1>3. ASSUME NEW kind \in {"texture", "material", "mesh", "hfield"},
             NEW e \in Range(OfKind(doc, kind))
      PROVE  \E a \in Items(doc, "assets") :
                 Value(a, "kind") = kind /\ e = AssetDeclaration(a)
  BY <1>3, OfKindRange
<1>4. \A a \in Items(doc, "assets") :
          <<Value(a, "kind"), a.id>> \in Names(OfKind(doc, Value(a, "kind")))
  <2> SUFFICES ASSUME NEW a \in Items(doc, "assets")
               PROVE  <<Value(a, "kind"), a.id>> \in Names(OfKind(doc, Value(a, "kind")))
    OBVIOUS
  <2>1. AssetDeclaration(a) \in Range(OfKind(doc, Value(a, "kind")))
    BY OfKindRange
  <2>2. AssetDeclaration(a).ns = Value(a, "kind") /\ AssetDeclaration(a).name = a.id
    BY AssetRefs
  <2> QED  BY <2>1, <2>2 DEF Names
<1>5. \A a \in Items(doc, "assets") : Value(a, "kind") = "texture" => <<"texture", a.id>> \in Names(T)
  BY <1>4
<1> HIDE DEF T, M, E, H
<1>6. Closed(T, known)
  <2>1. \A e \in Range(T) : e.refs = {}
    BY <1>3, AssetRefs DEF T
  <2> QED  BY <2>1 DEF Closed
<1>7. Closed(M, known \cup Names(T))
  <2>1. \A e \in Range(M) : \A ref \in e.refs : \E t \in Items(doc, "assets") :
                          Value(t, "kind") = "texture" /\ ref = <<"texture", t.id>>
    BY <1>3, AssetRefs DEF M
  <2> QED  BY <1>5, <2>1 DEF Closed
<1>8. Closed(E, known)
  <2>1. \A e \in Range(E) : \A ref \in e.refs : \E p \in Items(doc, "plugins") :
                          ref = <<"plugin", p.id>>
    BY <1>3, AssetRefs DEF E
  <2> QED  BY <2>1 DEF Closed
<1>9. Closed(H, known)
  <2>1. \A e \in Range(H) : e.refs = {}
    BY <1>3, AssetRefs DEF H
  <2> QED  BY <2>1 DEF Closed
<1>10. /\ IsList(T \o M) /\ Ordered(T \o M, known)
       /\ Names(T \o M) = Names(T) \cup Names(M)
  BY <1>2, <1>6, <1>7, ClosedOrdered, OrderedThen
<1>11. /\ IsList((T \o M) \o E) /\ Ordered((T \o M) \o E, known)
       /\ Names((T \o M) \o E) = Names(T) \cup Names(M) \cup Names(E)
  <2> DEFINE s == T \o M
  <2>1. Closed(E, known \cup Names(s))
    BY <1>8 DEF Closed
  <2>2. IsList(s) /\ Ordered(s, known) /\ Names(s) = Names(T) \cup Names(M)
    BY <1>10
  <2> HIDE DEF s
  <2>3. IsList(s \o E) /\ Ordered(s \o E, known) /\ Names(s \o E) = Names(s) \cup Names(E)
    BY <1>2, <2>1, <2>2, OrderedThen
  <2> QED  BY <2>2, <2>3 DEF s
<1>12. /\ IsList(((T \o M) \o E) \o H) /\ Ordered(((T \o M) \o E) \o H, known)
       /\ Names(((T \o M) \o E) \o H) = Names(T) \cup Names(M) \cup Names(E) \cup Names(H)
  <2> DEFINE s == (T \o M) \o E
  <2>1. Closed(H, known \cup Names(s))
    BY <1>9 DEF Closed
  <2>2. IsList(s) /\ Ordered(s, known) /\ Names(s) = Names(T) \cup Names(M) \cup Names(E)
    BY <1>11
  <2> HIDE DEF s
  <2>3. IsList(s \o H) /\ Ordered(s \o H, known) /\ Names(s \o H) = Names(s) \cup Names(H)
    BY <1>2, <2>1, <2>2, OrderedThen
  <2> QED  BY <2>2, <2>3 DEF s
<1>13. ASSUME NEW a \in Items(doc, "assets")
       PROVE  <<a.kind, a.id>> \in Names(T) \cup Names(M) \cup Names(E) \cup Names(H)
  <2>1. Value(a, "kind") \in {"texture", "material", "mesh", "hfield"}
    BY AssetRefs
  <2>2. a.kind = Value(a, "kind")
    BY <2>1 DEF Value, ValueOr
  <2> QED  BY <1>4, <2>1, <2>2 DEF T, M, E, H
<1> QED  BY <1>1, <1>12, <1>13

\* So are all assets.
LEMMA AssetsWritten ==
    ASSUME NEW doc, InSections(doc), Written(doc), NEW known,
           \A p \in Items(doc, "plugins") : <<"plugin", p.id>> \in known
    PROVE  /\ IsList(Assets(doc)) /\ Ordered(Assets(doc), known)
           /\ \A a \in Items(doc, "assets") : <<a.kind, a.id>> \in Names(Assets(doc))
           /\ \A m \in Items(doc, "models") :
                  <<"model", "scene_model_" \o m.id>> \in Names(Assets(doc))
           /\ GroundMaterial(doc) => <<"material", "scene_ground_mat">> \in Names(Assets(doc))
           /\ Checker(doc) => <<"texture", "scene_ground_tex">> \in Names(Assets(doc))
<1> DEFINE env == EnvAssets(doc)
           user == UserAssets(doc)
           models == [k \in DOMAIN doc.models |->
                         Derived("model", "scene_model_" \o doc.models[k].id, {})]
<1>1. Assets(doc) = (env \o user) \o models
  BY DEF Assets, Each
<1>2. IsList(models) /\ Closed(models, {})
      /\ \A m \in Items(doc, "models") : <<"model", "scene_model_" \o m.id>> \in Names(models)
  <2>1. models = [k \in DOMAIN doc.models |-> models[k]]
    OBVIOUS
  <2>2. \A k \in DOMAIN doc.models :
            /\ models[k].refs = {} /\ models[k].ns = "model"
            /\ models[k].name = "scene_model_" \o doc.models[k].id
    BY DEF Derived, Element
  <2> HIDE DEF models
  <2>3. IsList(models) /\ DOMAIN models = DOMAIN doc.models
    BY <2>1, ListedSections, MappedList
  <2>4. Closed(models, {})
    BY <2>2, <2>3 DEF Closed, Range
  <2>5. ASSUME NEW m \in Items(doc, "models")
        PROVE  <<"model", "scene_model_" \o m.id>> \in Names(models)
    <3>1. PICK k \in DOMAIN doc.models : m = doc.models[k]
      BY DEF Items, Range
    <3>2. models[k] \in Range(models)
      BY <2>3 DEF Range
    <3> QED  BY <2>2, <3>1, <3>2 DEF Names
  <2> QED  BY <2>3, <2>4, <2>5
<1>3. IsList(env) /\ Ordered(env, known)
  BY EnvironmentWritten, OrderedMore
<1>4. IsList(user) /\ Ordered(user, known \cup Names(env))
      /\ \A a \in Items(doc, "assets") : <<a.kind, a.id>> \in Names(user)
  <2>1. \A p \in Items(doc, "plugins") : <<"plugin", p.id>> \in known \cup Names(env)
    OBVIOUS
  <2> HIDE DEF env
  <2> QED  BY <2>1, UserAssetsWritten
<1>5. /\ GroundMaterial(doc) => <<"material", "scene_ground_mat">> \in Names(env)
      /\ Checker(doc) => <<"texture", "scene_ground_tex">> \in Names(env)
  BY EnvironmentWritten
<1> HIDE DEF env, user, models
<1>6. /\ IsList(env \o user) /\ Ordered(env \o user, known)
      /\ Names(env \o user) = Names(env) \cup Names(user)
  BY <1>3, <1>4, OrderedConcat, NamesConcat
<1>7. /\ IsList((env \o user) \o models) /\ Ordered((env \o user) \o models, known)
      /\ Names((env \o user) \o models) = Names(env) \cup Names(user) \cup Names(models)
  <2> DEFINE s == env \o user
  <2>1. Closed(models, known \cup Names(s))
    BY <1>2 DEF Closed
  <2>2. IsList(s) /\ Ordered(s, known) /\ Names(s) = Names(env) \cup Names(user)
    BY <1>6
  <2> HIDE DEF s
  <2>3. IsList(s \o models) /\ Ordered(s \o models, known)
        /\ Names(s \o models) = Names(s) \cup Names(models)
    BY <1>2, <2>1, <2>2, OrderedThen
  <2> QED  BY <2>2, <2>3 DEF s
<1> QED  BY <1>1, <1>2, <1>4, <1>5, <1>7

\* What is written before the world refers backwards only, and defines all
\* that may be referred to.
LEMMA PrefixWritten ==
    ASSUME NEW doc, InSections(doc), Written(doc)
    PROVE  LET before == Defaults(doc) \o Extension(doc) \o Plain(doc, "custom")
                             \o Assets(doc)
           IN  /\ IsList(before) /\ Ordered(before, {})
               /\ Nameable(doc) \subseteq Names(before)
<1> DEFINE D == Defaults(doc)
           X == Extension(doc)
           C == Plain(doc, "custom")
           A == Assets(doc)
<1>1. IsList(D) /\ IsList(X) /\ IsList(C)
  BY DefaultsSound, ExtensionSound, PlainSound DEF Sound
<1>2. Closed(D, {}) /\ Closed(X, {})
  BY ClassesWritten, PluginsWritten
<1>3. Closed(C, {})
  <2>1. \A e \in Range(C) : e.refs = {}
    <3>1. \A name : Element("custom", name, {}).refs = {}
      BY DEF Element
    <3>2. \A e \in Range(C) : \E name : e = Element("custom", name, {})
      BY DEF Plain, Each, Range
    <3> QED  BY <3>1, <3>2
  <2> QED  BY <2>1 DEF Closed
<1>4. /\ \A c \in Items(doc, "defaultClasses") : <<"class", c.id>> \in Names(D)
      /\ \A p \in Items(doc, "plugins") : <<"plugin", p.id>> \in Names(X)
  BY ClassesWritten, PluginsWritten
<1> HIDE DEF D, X, C
<1>5. IsList(D \o X) /\ Ordered(D \o X, {}) /\ Names(D \o X) = Names(D) \cup Names(X)
  <2>1. Closed(X, {} \cup Names(D))
    BY <1>2 DEF Closed
  <2> QED  BY <1>1, <1>2, <2>1, ClosedOrdered, OrderedThen
<1>6. /\ IsList((D \o X) \o C) /\ Ordered((D \o X) \o C, {})
      /\ Names((D \o X) \o C) = Names(D) \cup Names(X) \cup Names(C)
  <2> DEFINE s == D \o X
  <2>1. Closed(C, {} \cup Names(s))
    BY <1>3 DEF Closed
  <2>2. IsList(s) /\ Ordered(s, {}) /\ Names(s) = Names(D) \cup Names(X)
    BY <1>5
  <2> HIDE DEF s
  <2>3. IsList(s \o C) /\ Ordered(s \o C, {}) /\ Names(s \o C) = Names(s) \cup Names(C)
    BY <1>1, <2>1, <2>2, OrderedThen
  <2> QED  BY <2>2, <2>3 DEF s
<1> DEFINE s == (D \o X) \o C
<1>7. IsList(s) /\ Ordered(s, {}) /\ Names(s) = Names(D) \cup Names(X) \cup Names(C)
  BY <1>6
<1> HIDE DEF s
<1>8. \A p \in Items(doc, "plugins") : <<"plugin", p.id>> \in {} \cup Names(s)
  BY <1>4, <1>7
<1>9. /\ IsList(A) /\ Ordered(A, {} \cup Names(s))
      /\ \A a \in Items(doc, "assets") : <<a.kind, a.id>> \in Names(A)
      /\ \A m \in Items(doc, "models") : <<"model", "scene_model_" \o m.id>> \in Names(A)
      /\ GroundMaterial(doc) => <<"material", "scene_ground_mat">> \in Names(A)
      /\ Checker(doc) => <<"texture", "scene_ground_tex">> \in Names(A)
  BY <1>8, AssetsWritten
<1> HIDE DEF A
<1>10. IsList(s \o A) /\ Ordered(s \o A, {}) /\ Names(s \o A) = Names(s) \cup Names(A)
  BY <1>7, <1>9, OrderedConcat, NamesConcat
<1>11. Nameable(doc) \subseteq Names(s) \cup Names(A)
  BY <1>4, <1>7, <1>9 DEF Nameable
<1>12. Defaults(doc) \o Extension(doc) \o Plain(doc, "custom") \o Assets(doc) = s \o A
  BY DEF s, D, X, C, A
<1> QED  BY <1>10, <1>11, <1>12

\* A sound list after those refers to what they define.
LEMMA NextWritten ==
    ASSUME NEW doc, Written(doc), NEW s, IsList(s), Ordered(s, {}),
           Nameable(doc) \subseteq Names(s), NEW t, Sound(doc, t)
    PROVE  /\ IsList(s \o t) /\ Ordered(s \o t, {})
           /\ Nameable(doc) \subseteq Names(s \o t)
<1>1. ASSUME NEW e \in Range(t), NEW ref \in e.refs
      PROVE  Exempt(e, ref) \/ ref \in {} \cup Names(s)
  <2>1. Resolved(doc, e.ns, ref)
    BY <1>1 DEF Sound, Fine, Settles
  <2> QED  BY <2>1 DEF Resolved, Exempt
<1>2. Closed(t, {} \cup Names(s))
  BY <1>1 DEF Closed
<1> QED  BY <1>2, OrderedThen DEF Sound

\* Every reference in a document is to an earlier element.
LEMMA DocumentWritten ==
    ASSUME NEW doc, InSections(doc), Written(doc)
    PROVE  Ordered(Document(doc), {})
<1> DEFINE s1 == Defaults(doc) \o Extension(doc) \o Plain(doc, "custom") \o Assets(doc)
           s2 == s1 \o World(doc)
           s3 == s2 \o Contact(doc)
           s4 == s3 \o Deformable(doc)
           s5 == s4 \o Equality(doc)
           s6 == s5 \o Plain(doc, "tendon")
           s7 == s6 \o Each(doc.actuators, Actuator)
           s8 == s7 \o Sensors(doc)
           s9 == s8 \o Plain(doc, "keyframes")
           Good(s) == IsList(s) /\ Ordered(s, {}) /\ Nameable(doc) \subseteq Names(s)
<1>1. /\ \A b \in Items(doc, "bodies") : Given(b, "id")
      /\ SensorsValid(doc) /\ ObjectsValid(doc) /\ ReplicatedUnnamed(doc)
  <2>1. "bodies" \in Range(Pooled) \ {"pairs"}
    <3>1. Pooled[7] = "bodies" /\ 7 \in DOMAIN Pooled
      BY DEF Pooled
    <3> QED  BY <3>1 DEF Range
  <2> QED  BY <2>1 DEF Written, Valid, Named
<1>2. Document(doc) = s9
  BY DEF Document
<1> HIDE DEF s1
<1>3. Good(s1)
  BY PrefixWritten DEF s1
<1> HIDE DEF s2
<1>4. Good(s2)
  BY <1>1, <1>3, WorldSound, NextWritten DEF s2
<1> HIDE DEF s3
<1>5. Good(s3)
  BY <1>1, <1>4, ContactSound, NextWritten DEF s3
<1> HIDE DEF s4
<1>6. Good(s4)
  BY <1>5, DeformableSound, NextWritten DEF s4
<1> HIDE DEF s5
<1>7. Good(s5)
  BY <1>1, <1>6, EqualitySound, NextWritten DEF s5
<1> HIDE DEF s6
<1>8. Good(s6)
  BY <1>7, PlainSound, NextWritten DEF s6
<1> HIDE DEF s7
<1>9. Good(s7)
  BY <1>8, ActuatorsSound, NextWritten DEF s7
<1> HIDE DEF s8
<1>10. Good(s8)
  BY <1>1, <1>9, SensorsSound, NextWritten DEF s8
<1>11. Good(s9)
  BY <1>10, PlainSound, NextWritten DEF s9
<1> QED  BY <1>2, <1>11

\* ReferencesResolve: an element refers to what has been written before it
\* (the order of generate_scene_xml against the checks of validate_scene).
THEOREM WrittenBefore == SceneSpec => []ReferencesResolve
<1>1. SceneTypes => ReferencesResolve
  <2> SUFFICES ASSUME SceneTypes, Written(scene)  PROVE ReferencesResolve
    BY DEF ReferencesResolve, Written
  <2> DEFINE doc == Document(scene)
  <2>1. Ordered(doc, {})
    BY DocumentWritten DEF SceneTypes
  <2> HIDE DEF doc
  <2>2. ASSUME NEW k \in DOMAIN doc, NEW ref \in doc[k].refs
        PROVE  \/ ref[1] = "body"
               \/ ref[1] = "material" /\ doc[k].ns \in {"class", "skin"}
               \/ \E j \in 1..(k - 1) : doc[j].ns = ref[1] /\ doc[j].name = ref[2]
    <3>1. \/ Exempt(doc[k], ref)
          \/ \E j \in 1..(k - 1) : <<doc[j].ns, doc[j].name>> = ref
      BY <2>1, <2>2 DEF Ordered
    <3> QED  BY <3>1 DEF Exempt
  <2> QED  BY <2>2 DEF ReferencesResolve, doc
<1> QED  BY <1>1, TypesInvariant, PTL

-----------------------------------------------------------------------------
(* Lists that are apart, and in order *)

\* No two places of a list hold a pair of the relation.
Apart(s, X) == \A j, k \in DOMAIN s : j # k => <<s[j], s[k]>> \notin X

\* Nothing of one set and of the other is a pair of the relation.
Clear(A, B, X) == \A a \in A, b \in B : <<a, b>> \notin X /\ <<b, a>> \notin X

\* Whatever is not free has a predecessor of the relation before it.
Follows(s, J, free) ==
    \A k \in DOMAIN s : s[k] \in free \/ \E j \in 1..(k - 1) : <<s[j], s[k]>> \in J

\* What has a predecessor in the set.
After(J, A) == {p[2] : p \in {q \in J : q = <<q[1], q[2]>> /\ q[1] \in A}}

\* Where the parts of a concatenation are.
LEMMA ConcatPlaces ==
    ASSUME NEW s, IsList(s), NEW t, IsList(t)
    PROVE  /\ Len(s) \in Nat /\ DOMAIN s = 1..Len(s)
           /\ Len(t) \in Nat /\ DOMAIN t = 1..Len(t)
           /\ DOMAIN (s \o t) = 1..(Len(s) + Len(t))
           /\ \A k \in 1..Len(s) : (s \o t)[k] = s[k]
           /\ \A k \in 1..Len(t) : (s \o t)[Len(s) + k] = t[k]
<1> DEFINE S == Range(s) \cup Range(t)
<1>1. s \in Seq(S) /\ t \in Seq(S)
  BY DEF IsList
<1> HIDE DEF S
<1> QED  BY <1>1

\* Two lists one after the other are apart if each is and they are clear.
LEMMA ApartConcat ==
    ASSUME NEW s, IsList(s), NEW t, IsList(t), NEW X
    PROVE  Apart(s \o t, X) <=>
               Apart(s, X) /\ Apart(t, X) /\ Clear(Range(s), Range(t), X)
<1> DEFINE u == s \o t
           m == Len(s)
           n == Len(t)
<1>1. /\ m \in Nat /\ DOMAIN s = 1..m
      /\ n \in Nat /\ DOMAIN t = 1..n
      /\ DOMAIN u = 1..(m + n)
      /\ \A k \in 1..m : u[k] = s[k]
      /\ \A k \in 1..n : u[m + k] = t[k]
  BY ConcatPlaces
<1> HIDE DEF u, m, n
<1>2. ASSUME Apart(u, X)
      PROVE  Apart(s, X) /\ Apart(t, X) /\ Clear(Range(s), Range(t), X)
  <2>1. Apart(s, X)
    <3> SUFFICES ASSUME NEW j \in 1..m, NEW k \in 1..m, j # k  PROVE <<s[j], s[k]>> \notin X
      BY <1>1 DEF Apart
    <3>1. j \in DOMAIN u /\ k \in DOMAIN u /\ u[j] = s[j] /\ u[k] = s[k]
      BY <1>1
    <3> QED  BY <1>2, <3>1 DEF Apart
  <2>2. Apart(t, X)
    <3> SUFFICES ASSUME NEW j \in 1..n, NEW k \in 1..n, j # k  PROVE <<t[j], t[k]>> \notin X
      BY <1>1 DEF Apart
    <3>1. /\ m + j \in DOMAIN u /\ m + k \in DOMAIN u /\ m + j # m + k
          /\ u[m + j] = t[j] /\ u[m + k] = t[k]
      BY <1>1
    <3> QED  BY <1>2, <3>1 DEF Apart
  <2>3. ASSUME NEW a \in Range(s), NEW b \in Range(t)
        PROVE  <<a, b>> \notin X /\ <<b, a>> \notin X
    <3>1. PICK j \in 1..m : a = s[j]
      BY <1>1 DEF Range
    <3>2. PICK k \in 1..n : b = t[k]
      BY <1>1 DEF Range
    <3>3. /\ j \in DOMAIN u /\ m + k \in DOMAIN u /\ j # m + k
          /\ u[j] = a /\ u[m + k] = b
      BY <1>1, <3>1, <3>2
    <3> QED  BY <1>2, <3>3 DEF Apart
  <2> QED  BY <2>1, <2>2, <2>3 DEF Clear
<1>3. ASSUME Apart(s, X), Apart(t, X), Clear(Range(s), Range(t), X)
      PROVE  Apart(u, X)
  <2> SUFFICES ASSUME NEW j \in DOMAIN u, NEW k \in DOMAIN u, j # k
               PROVE  <<u[j], u[k]>> \notin X
    BY DEF Apart
  <2>1. \A i \in DOMAIN u : \/ i \in 1..m /\ u[i] = s[i] /\ s[i] \in Range(s)
                            \/ i - m \in 1..n /\ u[i] = t[i - m] /\ t[i - m] \in Range(t)
    <3> SUFFICES ASSUME NEW i \in DOMAIN u, i \notin 1..m
                 PROVE  i - m \in 1..n /\ u[i] = t[i - m] /\ t[i - m] \in Range(t)
      BY <1>1 DEF Range
    <3>1. i - m \in 1..n /\ m + (i - m) = i
      BY <1>1
    <3> QED  BY <1>1, <3>1 DEF Range
  <2>2. CASE j \in 1..m /\ u[j] = s[j] /\ s[j] \in Range(s)
    <3>1. CASE k \in 1..m /\ u[k] = s[k]
      BY <1>1, <1>3, <2>2, <3>1 DEF Apart
    <3>2. CASE u[k] = t[k - m] /\ t[k - m] \in Range(t)
      BY <1>3, <2>2, <3>2 DEF Clear
    <3> QED  BY <2>1, <3>1, <3>2
  <2>3. CASE j - m \in 1..n /\ u[j] = t[j - m] /\ t[j - m] \in Range(t)
    <3>1. CASE u[k] = s[k] /\ s[k] \in Range(s)
      BY <1>3, <2>3, <3>1 DEF Clear
    <3>2. CASE k - m \in 1..n /\ u[k] = t[k - m]
      <4>1. j - m # k - m
        BY <1>1
      <4> QED  BY <1>1, <1>3, <2>3, <3>2, <4>1 DEF Apart
    <3> QED  BY <2>1, <3>1, <3>2
  <2> QED  BY <2>1, <2>2, <2>3
<1> QED  BY <1>2, <1>3 DEF u

\* Lists one after the other are apart if each is and any two are clear.
LEMMA ApartFlatten ==
    ASSUME NEW S, NEW seqs \in Seq(Seq(S)), NEW X
    PROVE  Apart(FlattenSeq(seqs), X) <=>
               /\ \A k \in DOMAIN seqs : Apart(seqs[k], X)
               /\ \A j, k \in DOMAIN seqs :
                      j # k => Clear(Range(seqs[j]), Range(seqs[k]), X)
<1> DEFINE N == Len(seqs)
           Upto(i) == /\ \A k \in 1..i : Apart(seqs[k], X)
                      /\ \A j, k \in 1..i :
                             j # k => Clear(Range(seqs[j]), Range(seqs[k]), X)
<1>1. N \in Nat /\ DOMAIN seqs = 1..N /\ \A i \in 1..N : seqs[i] \in Seq(S)
  OBVIOUS
<1>2. CASE N = 0
  <2>1. FlattenSeq(seqs) = <<>>
    <3>1. seqs = <<>>
      BY <1>2
    <3> QED  BY <3>1 DEF FlattenSeq
  <2>2. Apart(<<>>, X)
    BY DEF Apart
  <2> QED  BY <1>1, <1>2, <2>1, <2>2
<1>3. CASE N # 0
  <2>1. PICK flat \in [1..N -> Seq(S)] :
          /\ FlattenSeq(seqs) = flat[N]
          /\ flat[1] = seqs[1]
          /\ \A i \in 2..N : flat[i] = flat[i - 1] \o seqs[i]
    BY <1>3, FlattenUnfolds
  <2> HIDE DEF N
  <2> DEFINE Holds(i) == /\ Apart(flat[i], X) <=> Upto(i)
                         /\ Range(flat[i]) = UNION {Range(seqs[k]) : k \in 1..i}
             Bad == {i \in 1..N : ~Holds(i)}
  <2>2. Bad = {}
    <3>1. SUFFICES ASSUME Bad # {}  PROVE FALSE
      OBVIOUS
    <3>2. Bad \in SUBSET Nat
      BY <1>1
    <3>3. PICK i \in Bad : i = 0 \/ i - 1 \notin Bad
      <4> HIDE DEF Bad
      <4> QED  BY <3>1, <3>2, LeastNumber
    <3>4. CASE i = 1
      <4>1. 1..1 = {1}
        OBVIOUS
      <4>2. Upto(1) <=> Apart(seqs[1], X)
        BY <4>1
      <4>3. UNION {Range(seqs[k]) : k \in 1..1} = Range(seqs[1])
        BY <4>1
      <4> HIDE DEF Upto
      <4> QED  BY <2>1, <3>3, <3>4, <4>2, <4>3
    <3>5. CASE i # 1
      <4>1. i \in 2..N /\ i - 1 \in 1..N /\ i \in 1..N
        BY <1>1, <3>3, <3>5
      <4>2. Holds(i - 1)
        <5> HIDE DEF Holds
        <5> QED  BY <3>3, <4>1
      <4>3. flat[i] = flat[i - 1] \o seqs[i] /\ flat[i - 1] \in Seq(S) /\ seqs[i] \in Seq(S)
        BY <1>1, <2>1, <4>1
      <4>4. IsList(flat[i - 1]) /\ IsList(seqs[i])
        BY <4>3, SequencesAreLists
      <4>5. 1..i = 1..(i - 1) \cup {i} /\ i \notin 1..(i - 1)
        BY <4>1
      <4>6. Range(flat[i]) = UNION {Range(seqs[k]) : k \in 1..i}
        <5>1. Range(flat[i]) = Range(flat[i - 1]) \cup Range(seqs[i])
          BY <4>3, ConcatHas
        <5> QED  BY <4>2, <4>5, <5>1
      <4>7. Apart(flat[i], X) <=> /\ Apart(flat[i - 1], X) /\ Apart(seqs[i], X)
                                  /\ Clear(Range(flat[i - 1]), Range(seqs[i]), X)
        BY <4>3, <4>4, ApartConcat
      <4>8. Clear(Range(flat[i - 1]), Range(seqs[i]), X) <=>
                \A j \in 1..(i - 1) : Clear(Range(seqs[j]), Range(seqs[i]), X)
        BY <4>2 DEF Clear
      <4>9. \A j, k \in 1..N : Clear(Range(seqs[j]), Range(seqs[k]), X)
                                 <=> Clear(Range(seqs[k]), Range(seqs[j]), X)
        BY DEF Clear
      <4>10. Upto(i) <=> /\ Upto(i - 1) /\ Apart(seqs[i], X)
                         /\ \A j \in 1..(i - 1) : Clear(Range(seqs[j]), Range(seqs[i]), X)
        <5> DEFINE a(k) == Apart(seqs[k], X)
                   c(j, k) == Clear(Range(seqs[j]), Range(seqs[k]), X)
        <5>1. \A j \in 1..i : j \in 1..N
          BY <1>1, <4>1
        <5>2. \A j, k \in 1..i : c(j, k) <=> c(k, j)
          BY <4>9, <5>1
        <5> HIDE DEF a, c
        <5>3. (/\ \A k \in 1..i : a(k)
               /\ \A j, k \in 1..i : j # k => c(j, k))
              <=> (/\ \A k \in 1..(i - 1) : a(k)
                   /\ \A j, k \in 1..(i - 1) : j # k => c(j, k)
                   /\ a(i) /\ \A j \in 1..(i - 1) : c(j, i))
          BY <4>5, <5>2
        <5> QED  BY <5>3 DEF a, c
      <4>11. Apart(flat[i - 1], X) <=> Upto(i - 1)
        BY <4>2
      <4>12. Apart(flat[i], X) <=> Upto(i)
        <5> HIDE DEF Upto
        <5> QED  BY <4>7, <4>8, <4>10, <4>11
      <4> QED  BY <3>3, <4>6, <4>12
    <3>6. i \in 1..N
      BY <3>3
    <3> QED  BY <3>4, <3>5
  <2>3. N \in 1..N
    BY <1>1, <1>3
  <2>4. Holds(N)
    <3> HIDE DEF Holds
    <3> QED  BY <2>2, <2>3
  <2> QED  BY <1>1, <2>1, <2>4
<1> QED  BY <1>2, <1>3

\* Order carries over to one list after the other,
LEMMA FollowsConcat ==
    ASSUME NEW s, IsList(s), NEW t, IsList(t), NEW J, NEW free,
           Follows(s, J, free), Follows(t, J, free \cup After(J, Range(s)))
    PROVE  Follows(s \o t, J, free)
<1> DEFINE u == s \o t
           m == Len(s)
           n == Len(t)
<1>1. /\ m \in Nat /\ DOMAIN s = 1..m
      /\ n \in Nat /\ DOMAIN t = 1..n
      /\ DOMAIN u = 1..(m + n)
      /\ \A k \in 1..m : u[k] = s[k]
      /\ \A k \in 1..n : u[m + k] = t[k]
  BY ConcatPlaces
<1> HIDE DEF u, m, n
<1>2. ASSUME NEW k \in DOMAIN u
      PROVE  u[k] \in free \/ \E j \in 1..(k - 1) : <<u[j], u[k]>> \in J
  <2>1. CASE k \in 1..m
    <3>1. s[k] \in free \/ \E j \in 1..(k - 1) : <<s[j], s[k]>> \in J
      BY <1>1, <2>1 DEF Follows
    <3>2. \A j \in 1..(k - 1) : u[j] = s[j]
      BY <1>1, <2>1
    <3> QED  BY <1>1, <2>1, <3>1, <3>2
  <2>2. CASE k \notin 1..m
    <3> DEFINE i == k - m
    <3>1. i \in 1..n /\ k = m + i /\ u[k] = t[i]
      BY <1>1, <2>2
    <3> HIDE DEF i
    <3>2. t[i] \in free \cup After(J, Range(s)) \/ \E j \in 1..(i - 1) : <<t[j], t[i]>> \in J
      BY <1>1, <3>1 DEF Follows
    <3>3. CASE t[i] \in After(J, Range(s))
      <4>1. PICK p \in J : p = <<p[1], p[2]>> /\ p[1] \in Range(s) /\ t[i] = p[2]
        BY <3>3 DEF After
      <4>2. PICK j \in 1..m : p[1] = s[j]
        BY <1>1, <4>1 DEF Range
      <4>3. j \in 1..(k - 1) /\ u[j] = s[j] /\ <<s[j], t[i]>> \in J
        BY <1>1, <3>1, <4>1, <4>2
      <4> QED  BY <3>1, <4>3
    <3>4. CASE \E j \in 1..(i - 1) : <<t[j], t[i]>> \in J
      <4>1. PICK j \in 1..(i - 1) : <<t[j], t[i]>> \in J
        BY <3>4
      <4>2. m + j \in 1..(k - 1) /\ j \in 1..n /\ u[m + j] = t[j]
        BY <1>1, <3>1
      <4> QED  BY <3>1, <4>1, <4>2
    <3> QED  BY <3>1, <3>2, <3>3, <3>4
  <2> QED  BY <2>1, <2>2
<1> QED  BY <1>2 DEF Follows, u

\* What comes earlier in a list of lists.
Earlier(seqs, k) == UNION {Range(seqs[j]) : j \in 1..(k - 1)}

\* and to many.
LEMMA FollowsFlatten ==
    ASSUME NEW S, NEW seqs \in Seq(Seq(S)), NEW J, NEW free,
           \A k \in DOMAIN seqs : Follows(seqs[k], J, free \cup After(J, Earlier(seqs, k)))
    PROVE  Follows(FlattenSeq(seqs), J, free)
<1> DEFINE N == Len(seqs)
<1>1. N \in Nat /\ DOMAIN seqs = 1..N /\ \A i \in 1..N : seqs[i] \in Seq(S)
  OBVIOUS
<1>2. CASE N = 0
  <2>1. FlattenSeq(seqs) = <<>>
    <3>1. seqs = <<>>
      BY <1>2
    <3> QED  BY <3>1 DEF FlattenSeq
  <2>2. Follows(<<>>, J, free)
    BY DEF Follows
  <2> QED  BY <2>1, <2>2
<1>3. CASE N # 0
  <2>1. PICK flat \in [1..N -> Seq(S)] :
          /\ FlattenSeq(seqs) = flat[N]
          /\ flat[1] = seqs[1]
          /\ \A i \in 2..N : flat[i] = flat[i - 1] \o seqs[i]
    BY <1>3, FlattenUnfolds
  <2> HIDE DEF N
  <2> DEFINE Holds(i) == /\ Follows(flat[i], J, free)
                         /\ Range(flat[i]) = UNION {Range(seqs[k]) : k \in 1..i}
             Bad == {i \in 1..N : ~Holds(i)}
  <2>2. Bad = {}
    <3>1. SUFFICES ASSUME Bad # {}  PROVE FALSE
      OBVIOUS
    <3>2. Bad \in SUBSET Nat
      BY <1>1
    <3>3. PICK i \in Bad : i = 0 \/ i - 1 \notin Bad
      <4> HIDE DEF Bad
      <4> QED  BY <3>1, <3>2, LeastNumber
    <3>4. CASE i = 1
      <4>1. 1..1 = {1} /\ 1..(1 - 1) = {}
        OBVIOUS
      <4>2. UNION {Range(seqs[k]) : k \in 1..1} = Range(seqs[1])
        BY <4>1
      <4>3. After(J, Earlier(seqs, 1)) = {}
        BY <4>1 DEF After, Earlier
      <4>4. Follows(seqs[1], J, free)
        <5>1. 1 \in DOMAIN seqs
          BY <1>1, <3>3, <3>4
        <5>2. Follows(seqs[1], J, free \cup After(J, Earlier(seqs, 1)))
          BY <5>1
        <5> QED  BY <4>3, <5>2
      <4> QED  BY <2>1, <3>3, <3>4, <4>2, <4>4
    <3>5. CASE i # 1
      <4>1. i \in 2..N /\ i - 1 \in 1..N /\ i \in 1..N
        BY <1>1, <3>3, <3>5
      <4>2. Holds(i - 1)
        <5> HIDE DEF Holds
        <5> QED  BY <3>3, <4>1
      <4>3. flat[i] = flat[i - 1] \o seqs[i] /\ flat[i - 1] \in Seq(S) /\ seqs[i] \in Seq(S)
        BY <1>1, <2>1, <4>1
      <4>4. IsList(flat[i - 1]) /\ IsList(seqs[i])
        BY <4>3, SequencesAreLists
      <4>5. 1..i = 1..(i - 1) \cup {i}
        BY <4>1
      <4>6. Range(flat[i]) = UNION {Range(seqs[k]) : k \in 1..i}
        <5>1. Range(flat[i]) = Range(flat[i - 1]) \cup Range(seqs[i])
          BY <4>3, ConcatHas
        <5> QED  BY <4>2, <4>5, <5>1
      <4>7. Range(flat[i - 1]) = Earlier(seqs, i)
        BY <4>2 DEF Earlier
      <4>8. Follows(seqs[i], J, free \cup After(J, Range(flat[i - 1])))
        BY <1>1, <4>1, <4>7
      <4>9. Follows(flat[i], J, free)
        <5>1. Follows(flat[i - 1], J, free)
          BY <4>2
        <5> HIDE DEF Holds, Bad
        <5>2. Follows(flat[i - 1] \o seqs[i], J, free)
          BY <4>4, <4>8, <5>1, FollowsConcat
        <5> QED  BY <4>3, <5>2
      <4> QED  BY <3>3, <4>6, <4>9
    <3>6. i \in 1..N
      BY <3>3
    <3> QED  BY <3>4, <3>5
  <2>3. N \in 1..N
    BY <1>1, <1>3
  <2>4. Holds(N)
    <3> HIDE DEF Holds
    <3> QED  BY <2>2, <2>3
  <2> QED  BY <1>1, <2>1, <2>4
<1> QED  BY <1>2, <1>3

\* More may be free.
LEMMA FollowsMore ==
    ASSUME NEW s, NEW J, NEW free, NEW more, Follows(s, J, free), free \subseteq more
    PROVE  Follows(s, J, more)
BY DEF Follows

\* A tree as validate_scene accepts it: items that differ have different ids.
ProperTree(items) ==
    /\ TreeValid(Range(items))
    /\ \A x \in Range(items) : Given(x, "id")
    /\ \A j, k \in DOMAIN items :
           j # k => Value(items[j], "id") # Value(items[k], "id")

\* Of whatever a level has below an id, the parent is the id or is there one
\* level up.
LEMMA UnfoldedParent ==
    ASSUME NEW I, NEW items \in Seq(I), NEW below, Unfolds(items, below)
    PROVE  \A n \in 1..Len(items) : \A id \in Tops(items) :
               \A x \in Range(below[n][id]) :
                   \/ Value(x, "parent") = id
                   \/ \E y \in Range(below[n - 1][id]) :
                          Value(y, "id") = Value(x, "parent")
<1> DEFINE N == Len(items)
           Fits(n) == \A id \in Tops(items) :
               \A x \in Range(below[n][id]) :
                   \/ Value(x, "parent") = id
                   \/ \E y \in Range(below[n - 1][id]) :
                          Value(y, "id") = Value(x, "parent")
           Bad == {n \in 1..N : ~Fits(n)}
<1>1. SUFFICES ASSUME Bad # {}  PROVE FALSE
  OBVIOUS
<1>2. N \in Nat /\ Bad \in SUBSET Nat
  OBVIOUS
<1>3. PICK n \in Bad : n = 0 \/ n - 1 \notin Bad
  <2> HIDE DEF Bad
  <2> QED  BY <1>1, <1>2, LeastNumber
<1>4. n \in 1..N
  OBVIOUS
<1>a. PICK id \in Tops(items) :
          \E x \in Range(below[n][id]) :
              /\ Value(x, "parent") # id
              /\ \A y \in Range(below[n - 1][id]) : Value(y, "id") # Value(x, "parent")
  BY <1>3
<1>5. PICK x \in Range(below[n][id]) :
              /\ Value(x, "parent") # id
              /\ \A y \in Range(below[n - 1][id]) : Value(y, "id") # Value(x, "parent")
  BY <1>a
<1>6. PICK z \in Range(items) :
            /\ Value(z, "parent") = id /\ Value(z, "id") \in Tops(items)
            /\ x = z \/ x \in Range(below[n - 1][Value(z, "id")])
  <2> HIDE DEF N, Fits, Bad
  <2>1. x \in Range(below[n][id]) /\ id \in Tops(items)
    BY <1>5
  <2>2. n \in 1..Len(items)
    BY <1>4 DEF N
  <2>3. \A y \in Range(below[n][id]) :
                  \E z \in Range(items) :
                      /\ Value(z, "parent") = id /\ Value(z, "id") \in Tops(items)
                      /\ y = z \/ y \in Range(below[n - 1][Value(z, "id")])
    BY <2>1, <2>2, UnfoldedHas
  <2> QED  BY <2>1, <2>3
<1>7. x \in Range(below[n - 1][Value(z, "id")])
  BY <1>5, <1>6
<1>8. n # 1
  <2>1. SUFFICES ASSUME n = 1  PROVE FALSE
    OBVIOUS
  <2>2. below[n - 1][Value(z, "id")] = <<>>
    BY <1>6, <2>1 DEF Unfolds
  <2> QED  BY <1>7, <2>2 DEF Range
<1>9. n - 1 \in 1..N /\ Fits(n - 1)
  <2> HIDE DEF Fits
  <2>1. n - 1 \in 1..N
    BY <1>2, <1>4, <1>8
  <2> QED  BY <1>3, <1>4, <2>1
<1>10. /\ z \in Range(below[n - 1][id])
       /\ Range(below[(n - 1) - 1][Value(z, "id")]) \subseteq Range(below[n - 1][id])
  <2> HIDE DEF N, Fits, Bad
  <2> QED  BY <1>6, <1>9, UnfoldedHas DEF N
<1>11. \/ Value(x, "parent") = Value(z, "id")
       \/ \E y \in Range(below[(n - 1) - 1][Value(z, "id")]) :
              Value(y, "id") = Value(x, "parent")
  BY <1>6, <1>7, <1>9
<1> QED  BY <1>5, <1>10, <1>11

-----------------------------------------------------------------------------
(* A tree is listed once, parents first *)

\* A level lists items below each id.
LEMMA LevelLists ==
    ASSUME NEW I, NEW items \in Seq(I), NEW below, Unfolds(items, below)
    PROVE  /\ Len(items) \in Nat /\ DOMAIN items = 1..Len(items)
           /\ \A x \in Range(items) : Value(x, "id") \in Tops(items)
           /\ \A n \in 0..Len(items) : \A id \in Tops(items) :
                  below[n][id] \in Seq(Range(items))
           /\ \A id \in Tops(items) : Range(below[0][id]) = {}
<1>1. Len(items) \in Nat /\ DOMAIN items = 1..Len(items)
  OBVIOUS
<1>2. \A x \in Range(items) : Value(x, "id") \in Tops(items)
  BY DEF Tops, Range, Field
<1> DEFINE ids == Tops(items)
           S == Range(items)
           P == {x \in Range(items) : Value(x, "parent") \in ids}
<1>3. Downward(ids, items)
  BY DEF Downward, Tops, Range, Field
<1>4. \A m \in 0..Len(items) : \A j \in ids \cap ids : below[m][j] \in Seq(P)
  <2> HIDE DEF ids
  <2> QED  BY <1>3, UnfoldedStays DEF ids
<1>5. P \subseteq S
  OBVIOUS
<1>6. \A m \in 0..Len(items) : \A j \in ids : below[m][j] \in Seq(S)
  <2> HIDE DEF P, S, ids
  <2> QED  BY <1>4, <1>5
<1>7. \A id \in Tops(items) : Range(below[0][id]) = {}
  <2> DEFINE none == <<>>
  <2>1. DOMAIN none = {}
    OBVIOUS
  <2> HIDE DEF none
  <2>2. Range(none) = {}
    BY <2>1 DEF Range
  <2>3. \A id \in Tops(items) : below[0][id] = none
    BY DEF Unfolds, none
  <2> QED  BY <2>2, <2>3
<1> QED  BY <1>1, <1>2, <1>6, <1>7

\* Nothing is below itself: a cycle would be out of reach of the items without
\* a parent.
LEMMA NotBelowItself ==
    ASSUME NEW I, NEW items \in Seq(I), ProperTree(items),
           NEW below, Below(items) = below[Len(items)], Unfolds(items, below)
    PROVE  \A z \in Range(items) : \A m \in 0..Len(items) :
               z \notin Range(below[m][Value(z, "id")])
<1> DEFINE N == Len(items)
           S == Range(items)
           T(n) == Range(below[n][""])
<1>0. N \in Nat
  OBVIOUS
<1>1. /\ N \in Nat /\ DOMAIN items = 1..N
      /\ \A x \in S : Value(x, "id") \in Tops(items)
      /\ \A n \in 0..N : \A id \in Tops(items) : Range(below[n][id]) \subseteq S
      /\ \A id \in Tops(items) : Range(below[0][id]) = {}
      /\ "" \in Tops(items)
  <2>1. \A n \in 0..N : \A id \in Tops(items) : below[n][id] \in Seq(S)
    BY LevelLists
  <2>2. \A n \in 0..N : \A id \in Tops(items) : Range(below[n][id]) \subseteq S
    <3> HIDE DEF S, N
    <3> QED  BY <2>1 DEF Range
  <2> QED  BY <2>2, LevelLists DEF Tops
<1>2. /\ \A x \in S : Value(x, "id") # ""
      /\ \A x, y \in S : Value(x, "id") = Value(y, "id") => x = y
  BY <1>1 DEF ProperTree, Given, Range
<1>3. S \subseteq T(N)
  BY BelowReaches DEF ProperTree
<1>4. \A n \in 1..N : \A id \in Tops(items) : \A x \in Range(below[n][id]) :
          \/ Value(x, "parent") = id
          \/ \E y \in Range(below[n - 1][id]) : Value(y, "id") = Value(x, "parent")
  BY UnfoldedParent
<1>5. \A n \in 1..N : \A id \in Tops(items) : \A x \in S :
          Value(x, "parent") = id =>
              Range(below[n - 1][Value(x, "id")]) \subseteq Range(below[n][id])
  BY UnfoldedHas
<1>a. /\ \A n \in 0..N : T(n) \subseteq S
      /\ T(0) = {}
      /\ \A n \in 1..N : \A x \in T(n) :
             \/ Value(x, "parent") = ""
             \/ \E y \in T(n - 1) : Value(y, "id") = Value(x, "parent")
  BY <1>1, <1>4
<1> HIDE DEF N, S, T
<1> DEFINE Bad == {n \in 0..N : \E z \in T(n) : \E m \in 0..N :
                                    z \in Range(below[m][Value(z, "id")])}
<1>6. SUFFICES ASSUME Bad # {}  PROVE FALSE
  <2>1. ASSUME NEW z \in S, NEW m \in 0..N, z \in Range(below[m][Value(z, "id")])
        PROVE  N \in Bad
    BY <1>0, <1>3, <2>1
  <2> HIDE DEF Bad
  <2> QED  BY <2>1 DEF S, N
<1>7. Bad \in SUBSET Nat
  BY <1>0
<1>8. PICK n \in Bad : n = 0 \/ n - 1 \notin Bad
  <2> HIDE DEF Bad
  <2> QED  BY <1>6, <1>7, LeastNumber
<1>9. PICK z \in T(n) : \E m \in 0..N : z \in Range(below[m][Value(z, "id")])
  BY <1>8
<1>10. PICK m \in 0..N : z \in Range(below[m][Value(z, "id")])
  BY <1>9
<1>11. n \in 1..N /\ n - 1 \in 0..N
  <2>1. n \in 0..N
    BY <1>8
  <2>2. n # 0
    BY <1>a, <1>9
  <2> HIDE DEF Bad
  <2> QED  BY <1>0, <2>1, <2>2
<1>12. n - 1 \notin Bad
  BY <1>8, <1>11
<1>13. z \in S /\ Value(z, "id") \in Tops(items)
  BY <1>1, <1>a, <1>9, <1>11
<1>14. m \in 1..N /\ m - 1 \in 0..N
  <2>1. m \in 0..N
    BY <1>10
  <2>2. m # 0
    BY <1>1, <1>10, <1>13
  <2> HIDE DEF Bad
  <2> QED  BY <1>0, <2>1, <2>2
<1>15. \/ Value(z, "parent") = ""
       \/ \E y \in T(n - 1) : Value(y, "id") = Value(z, "parent")
  BY <1>a, <1>9, <1>11
<1>16. \/ Value(z, "parent") = Value(z, "id")
       \/ \E y \in Range(below[m - 1][Value(z, "id")]) : Value(y, "id") = Value(z, "parent")
  BY <1>4, <1>10, <1>13, <1>14
<1>17. \A y \in Range(below[m - 1][Value(z, "id")]) : y \in S
  BY <1>1, <1>13, <1>14
<1>18. Value(z, "parent") # ""
  BY <1>2, <1>13, <1>16, <1>17
<1>19. PICK y \in T(n - 1) : Value(y, "id") = Value(z, "parent")
  BY <1>15, <1>18
<1>20. y \in S /\ Value(y, "id") \in Tops(items)
  BY <1>1, <1>a, <1>11, <1>19
<1>21. CASE Value(z, "parent") = Value(z, "id")
  <2>1. y = z
    BY <1>2, <1>13, <1>19, <1>20, <1>21
  <2> QED  BY <1>10, <1>11, <1>12, <1>19, <2>1
<1>22. CASE \E x \in Range(below[m - 1][Value(z, "id")]) : Value(x, "id") = Value(z, "parent")
  <2>1. y \in Range(below[m - 1][Value(z, "id")])
    BY <1>2, <1>17, <1>19, <1>20, <1>22
  <2>2. y \in Range(below[m][Value(y, "id")])
    BY <1>5, <1>13, <1>14, <1>19, <1>20, <2>1
  <2> QED  BY <1>11, <1>12, <1>14, <1>19, <2>2
<1> QED  BY <1>16, <1>21, <1>22

\* What is below two children of one parent is apart.
LEMMA SiblingsApart ==
    ASSUME NEW I, NEW items \in Seq(I), ProperTree(items),
           NEW below, Below(items) = below[Len(items)], Unfolds(items, below),
           NEW u \in Range(items), NEW v \in Range(items), u # v,
           Value(u, "parent") = Value(v, "parent")
    PROVE  \A m, n \in 0..Len(items) :
               /\ u \notin Range(below[n][Value(v, "id")])
               /\ v \notin Range(below[n][Value(u, "id")])
               /\ Range(below[m][Value(u, "id")]) \cap Range(below[n][Value(v, "id")]) = {}
<1> DEFINE N == Len(items)
           S == Range(items)
           T(n) == Range(below[n][""])
<1>0. N \in Nat
  OBVIOUS
<1>1. /\ N \in Nat /\ DOMAIN items = 1..N
      /\ \A x \in S : Value(x, "id") \in Tops(items)
      /\ \A n \in 0..N : \A id \in Tops(items) : Range(below[n][id]) \subseteq S
      /\ \A id \in Tops(items) : Range(below[0][id]) = {}
      /\ "" \in Tops(items)
  <2>1. \A n \in 0..N : \A id \in Tops(items) : below[n][id] \in Seq(S)
    BY LevelLists
  <2>2. \A n \in 0..N : \A id \in Tops(items) : Range(below[n][id]) \subseteq S
    <3> HIDE DEF S, N
    <3> QED  BY <2>1 DEF Range
  <2> QED  BY <2>2, LevelLists DEF Tops
<1>2. /\ \A x \in S : Value(x, "id") # ""
      /\ \A x, y \in S : Value(x, "id") = Value(y, "id") => x = y
  BY <1>1 DEF ProperTree, Given, Range
<1>3. S \subseteq T(N)
  BY BelowReaches DEF ProperTree
<1>4. \A n \in 1..N : \A id \in Tops(items) : \A x \in Range(below[n][id]) :
          \/ Value(x, "parent") = id
          \/ \E y \in Range(below[n - 1][id]) : Value(y, "id") = Value(x, "parent")
  BY UnfoldedParent
<1>5. \A n \in 1..N : \A id \in Tops(items) : \A x \in S :
          Value(x, "parent") = id =>
              /\ x \in Range(below[n][id])
              /\ Range(below[n - 1][Value(x, "id")]) \subseteq Range(below[n][id])
  BY UnfoldedHas
<1>6. \A z \in S : \A m \in 0..N : z \notin Range(below[m][Value(z, "id")])
  BY NotBelowItself
<1>a. /\ \A n \in 0..N : T(n) \subseteq S
      /\ T(0) = {}
      /\ \A n \in 1..N : \A x \in T(n) :
             \/ Value(x, "parent") = ""
             \/ \E y \in T(n - 1) : Value(y, "id") = Value(x, "parent")
  BY <1>1, <1>4
<1> HIDE DEF N, S, T
<1> DEFINE Bad == {i \in 0..N : \E x \in T(i) : \E m, n \in 0..N :
                                    /\ x \in Range(below[m][Value(u, "id")])
                                    /\ x \in Range(below[n][Value(v, "id")])}
<1>7. ASSUME NEW w \in S, NEW x \in S, Value(w, "parent") = Value(x, "parent"),
             NEW m \in 0..N
      PROVE  w \notin Range(below[m][Value(x, "id")])
  <2> SUFFICES ASSUME w \in Range(below[m][Value(x, "id")])  PROVE FALSE
    OBVIOUS
  <2>1. m \in 1..N /\ m - 1 \in 0..N /\ Value(x, "id") \in Tops(items)
    <3>1. m # 0
      BY <1>1
    <3>2. m \in 1..N /\ m - 1 \in 0..N
      BY <1>0, <3>1
    <3>3. Value(x, "id") \in Tops(items)
      BY <1>1
    <3> QED  BY <3>2, <3>3
  <2>2. CASE Value(w, "parent") = Value(x, "id")
    BY <1>5, <1>6, <1>7, <2>1, <2>2
  <2>3. CASE \E y \in Range(below[m - 1][Value(x, "id")]) : Value(y, "id") = Value(w, "parent")
    <3>1. PICK y \in Range(below[m - 1][Value(x, "id")]) : Value(y, "id") = Value(x, "parent")
      BY <1>7, <2>3
    <3>2. y \in S /\ Value(y, "id") \in Tops(items)
      BY <1>1, <2>1, <3>1
    <3>3. y \in Range(below[m][Value(y, "id")])
      BY <1>5, <2>1, <3>1, <3>2
    <3> QED  BY <1>6, <3>2, <3>3
  <2> QED  BY <1>4, <2>1, <2>2, <2>3
<1>8. u \in S /\ v \in S
  BY DEF S
<1>9. Bad = {}
  <2>1. SUFFICES ASSUME Bad # {}  PROVE FALSE
    OBVIOUS
  <2>2. Bad \in SUBSET Nat
    BY <1>0
  <2>3. PICK i \in Bad : i = 0 \/ i - 1 \notin Bad
    <3> HIDE DEF Bad
    <3> QED  BY <2>1, <2>2, LeastNumber
  <2>4. PICK x \in T(i) : \E m, n \in 0..N :
                                    /\ x \in Range(below[m][Value(u, "id")])
                                    /\ x \in Range(below[n][Value(v, "id")])
    BY <2>3
  <2>5. PICK m \in 0..N, n \in 0..N : /\ x \in Range(below[m][Value(u, "id")])
                                      /\ x \in Range(below[n][Value(v, "id")])
    BY <2>4
  <2>6. i \in 1..N /\ i - 1 \in 0..N
    <3>1. i \in 0..N
      BY <2>3
    <3>2. i # 0
      BY <1>a, <2>4
    <3> HIDE DEF Bad
    <3> QED  BY <1>0, <3>1, <3>2
  <2>7. i - 1 \notin Bad
    BY <2>3, <2>6
  <2>8. Value(u, "id") \in Tops(items) /\ Value(v, "id") \in Tops(items)
    BY <1>1, <1>8
  <2>9. m \in 1..N /\ m - 1 \in 0..N /\ n \in 1..N /\ n - 1 \in 0..N
    <3>1. m \in 0..N /\ n \in 0..N
      BY <2>5
    <3>2. m # 0 /\ n # 0
      BY <1>1, <2>5, <2>8
    <3> HIDE DEF Bad
    <3> QED  BY <1>0, <3>1, <3>2
  <2>10. \/ Value(x, "parent") = ""
         \/ \E y \in T(i - 1) : Value(y, "id") = Value(x, "parent")
    BY <1>a, <2>4, <2>6
  <2>11. \/ Value(x, "parent") = Value(u, "id")
         \/ \E y \in Range(below[m - 1][Value(u, "id")]) : Value(y, "id") = Value(x, "parent")
    BY <1>4, <2>5, <2>8, <2>9
  <2>12. \/ Value(x, "parent") = Value(v, "id")
         \/ \E y \in Range(below[n - 1][Value(v, "id")]) : Value(y, "id") = Value(x, "parent")
    BY <1>4, <2>5, <2>8, <2>9
  <2>13. /\ \A y \in Range(below[m - 1][Value(u, "id")]) : y \in S
         /\ \A y \in Range(below[n - 1][Value(v, "id")]) : y \in S
         /\ \A y \in T(i - 1) : y \in S
    BY <1>1, <1>a, <2>6, <2>8, <2>9
  <2>14. Value(x, "parent") # ""
    BY <1>2, <1>8, <2>11, <2>13
  <2>15. PICK y \in T(i - 1) : Value(y, "id") = Value(x, "parent")
    BY <2>10, <2>14
  <2>16. y = u \/ y \in Range(below[m - 1][Value(u, "id")])
    BY <1>2, <1>8, <2>11, <2>13, <2>15
  <2>17. y = v \/ y \in Range(below[n - 1][Value(v, "id")])
    BY <1>2, <1>8, <2>12, <2>13, <2>15
  <2>18. /\ u \notin Range(below[n - 1][Value(v, "id")])
         /\ v \notin Range(below[m - 1][Value(u, "id")])
    BY <1>7, <1>8, <2>9
  <2>19. /\ y \in Range(below[m - 1][Value(u, "id")])
         /\ y \in Range(below[n - 1][Value(v, "id")])
    BY <2>16, <2>17, <2>18
  <2> QED  BY <2>6, <2>7, <2>9, <2>15, <2>19
<1>10. ASSUME NEW m \in 0..N, NEW n \in 0..N
       PROVE  Range(below[m][Value(u, "id")]) \cap Range(below[n][Value(v, "id")]) = {}
  <2> SUFFICES ASSUME NEW x, x \in Range(below[m][Value(u, "id")]),
                      x \in Range(below[n][Value(v, "id")])
               PROVE  FALSE
    OBVIOUS
  <2>1. x \in S
    BY <1>1, <1>8
  <2>2. x \in T(N) /\ N \in 0..N
    BY <1>0, <1>3, <2>1
  <2>3. N \in Bad
    BY <2>2
  <2> QED  BY <1>9, <2>3
<1> QED  BY <1>7, <1>8, <1>10 DEF N

\* An item with itself.
Same(S) == {<<x, x>> : x \in S}

\* An item with one whose parent it is, and the items with a given parent.
Parentage(S) == {p \in S \X S : Value(p[2], "parent") = Value(p[1], "id")}
ChildrenOf(S, id) == {x \in S : Value(x, "parent") = id}

\* What a level gives each id is a list of items.
Listing(items, lower) == \A id \in Tops(items) : lower[id] \in Seq(Range(items))

\* A family has a child of the id and what is below that child.
LEMMA FamilyHas ==
    ASSUME NEW I, NEW items \in Seq(I), NEW lower, Listing(items, lower), NEW id,
           NEW k \in DOMAIN items
    PROVE  LET one == <<items[k]>>
               rest == lower[Value(items[k], "id")]
               family == Families(items, lower, id)[k]
           IN  /\ items[k] \in Range(items) /\ Value(items[k], "id") \in Tops(items)
               /\ IsList(one) /\ Range(one) = {items[k]}
               /\ IsList(rest) /\ Range(rest) \subseteq Range(items)
               /\ family \in Seq(Range(items))
               /\ Value(items[k], "parent") = id => Range(family) = {items[k]} \cup Range(rest)
               /\ Value(items[k], "parent") # id => Range(family) = {}
<1> DEFINE S == Range(items)
           one == <<items[k]>>
           rest == lower[Value(items[k], "id")]
           family == Families(items, lower, id)[k]
<1>1. items[k] \in S
  BY DEF Range
<1>2. Value(items[k], "id") \in Tops(items)
  BY DEF Tops, Range, Field
<1>3. rest \in Seq(S)
  BY <1>2 DEF Listing
<1>4. family = IF Value(items[k], "parent") = id THEN one \o rest ELSE <<>>
  BY DEF Families
<1>5. one \in Seq(S) /\ Range(one) = {items[k]}
  <2> HIDE DEF S
  <2> QED  BY <1>1, OneList
<1> HIDE DEF one, rest, family, S
<1>6. IsList(one) /\ IsList(rest) /\ Range(rest) \subseteq S
  BY <1>3, <1>5, SequencesAreLists DEF Range
<1>7. one \o rest \in Seq(S) /\ Range(one \o rest) = Range(one) \cup Range(rest)
  BY <1>3, <1>5, ConcatHas
<1>8. CASE Value(items[k], "parent") = id
  BY <1>1, <1>2, <1>4, <1>5, <1>6, <1>7, <1>8 DEF one, rest, family, S
<1>9. CASE Value(items[k], "parent") # id
  <2>1. family = <<>>
    BY <1>4, <1>9
  <2>2. family \in Seq(S) /\ Range(family) = {}
    BY <2>1 DEF Range
  <2> QED  BY <1>1, <1>2, <1>5, <1>6, <1>9, <2>1, <2>2 DEF one, rest, family, S
<1> QED  BY <1>8, <1>9

\* There is a family for each item.
LEMMA FamiliesLists ==
    ASSUME NEW I, NEW items \in Seq(I), NEW lower, Listing(items, lower), NEW id
    PROVE  LET seqs == Families(items, lower, id)
           IN  seqs \in Seq(Seq(Range(items))) /\ DOMAIN seqs = DOMAIN items
<1> DEFINE S == Range(items)
           seqs == Families(items, lower, id)
<1>1. DOMAIN seqs = DOMAIN items /\ seqs = [k \in DOMAIN items |-> seqs[k]]
  BY DEF Families
<1>2. \A k \in DOMAIN items : seqs[k] \in Seq(S)
  BY FamilyHas
<1>3. Len(items) \in Nat /\ DOMAIN items = 1..Len(items)
  OBVIOUS
<1> HIDE DEF S, seqs
<1>4. seqs \in Seq(Seq(S))
  BY <1>1, <1>2, <1>3
<1> QED  BY <1>1, <1>4 DEF S, seqs

\* An empty list, and a list of one, are apart and in order.
LEMMA ShortLists ==
    ASSUME NEW X, NEW J, NEW free, NEW e \in free
    PROVE  /\ Apart(<<>>, X) /\ Follows(<<>>, J, free)
           /\ Apart(<<e>>, X) /\ Follows(<<e>>, J, free)
<1>1. Apart(<<>>, X) /\ Follows(<<>>, J, free)
  BY DEF Apart, Follows
<1> DEFINE s == <<e>>
<1>2. DOMAIN s = {1} /\ s[1] = e
  OBVIOUS
<1> HIDE DEF s
<1>3. Apart(s, X) /\ Follows(s, J, free)
  BY <1>2 DEF Apart, Follows
<1> QED  BY <1>1, <1>3 DEF s

\* Families of one id have nothing in common, and none has an item twice.
LEMMA FamiliesApart ==
    ASSUME NEW I, NEW items \in Seq(I), ProperTree(items),
           NEW below, Below(items) = below[Len(items)], Unfolds(items, below),
           NEW n \in 0..Len(items), NEW id,
           \A j \in Tops(items) : Apart(below[n][j], Same(Range(items)))
    PROVE  LET seqs == Families(items, below[n], id)
           IN  /\ \A k \in DOMAIN items : Apart(seqs[k], Same(Range(items)))
               /\ \A j, k \in DOMAIN items :
                      j # k => Clear(Range(seqs[j]), Range(seqs[k]), Same(Range(items)))
<1> DEFINE S == Range(items)
           X == Same(S)
           seqs == Families(items, below[n], id)
           rest(k) == below[n][Value(items[k], "id")]
           Child(k) == Value(items[k], "parent") = id
<1>0. Listing(items, below[n])
  BY LevelLists DEF Listing
<1>1. \A k \in DOMAIN items :
          /\ items[k] \in S /\ Value(items[k], "id") \in Tops(items)
          /\ IsList(<<items[k]>>) /\ Range(<<items[k]>>) = {items[k]}
          /\ IsList(rest(k))
          /\ Child(k) => seqs[k] = <<items[k]>> \o rest(k)
                         /\ Range(seqs[k]) = {items[k]} \cup Range(rest(k))
          /\ ~Child(k) => seqs[k] = <<>> /\ Range(seqs[k]) = {}
  <2> SUFFICES ASSUME NEW k \in DOMAIN items
               PROVE  /\ items[k] \in S /\ Value(items[k], "id") \in Tops(items)
                      /\ IsList(<<items[k]>>) /\ Range(<<items[k]>>) = {items[k]}
                      /\ IsList(rest(k))
                      /\ Child(k) => seqs[k] = <<items[k]>> \o rest(k)
                                     /\ Range(seqs[k]) = {items[k]} \cup Range(rest(k))
                      /\ ~Child(k) => seqs[k] = <<>> /\ Range(seqs[k]) = {}
    OBVIOUS
  <2> DEFINE lower == below[n]
  <2>1. Listing(items, lower)
    BY <1>0
  <2> HIDE DEF lower
  <2>2. LET one == <<items[k]>>
            own == lower[Value(items[k], "id")]
            family == Families(items, lower, id)[k]
        IN  /\ items[k] \in S /\ Value(items[k], "id") \in Tops(items)
            /\ IsList(one) /\ Range(one) = {items[k]}
            /\ IsList(own)
            /\ Child(k) => Range(family) = {items[k]} \cup Range(own)
            /\ ~Child(k) => Range(family) = {}
    BY <2>1, FamilyHas
  <2>3. /\ Child(k) => seqs[k] = <<items[k]>> \o rest(k)
        /\ ~Child(k) => seqs[k] = <<>>
    BY DEF Families
  <2> QED  BY <2>2, <2>3 DEF lower
<1>2. \A k \in DOMAIN items : Child(k) => items[k] \notin Range(rest(k))
  BY <1>1, NotBelowItself
<1>3. \A j, k \in DOMAIN items : Child(j) /\ Child(k) /\ j # k =>
          /\ items[j] # items[k]
          /\ items[j] \notin Range(rest(k)) /\ items[k] \notin Range(rest(j))
          /\ Range(rest(j)) \cap Range(rest(k)) = {}
  <2> SUFFICES ASSUME NEW j \in DOMAIN items, NEW k \in DOMAIN items,
                      Child(j), Child(k), j # k
               PROVE  /\ items[j] # items[k]
                      /\ items[j] \notin Range(rest(k)) /\ items[k] \notin Range(rest(j))
                      /\ Range(rest(j)) \cap Range(rest(k)) = {}
    OBVIOUS
  <2>1. items[j] # items[k]
    BY DEF ProperTree
  <2>2. items[j] \in S /\ items[k] \in S
    BY <1>1
  <2> QED  BY <2>1, <2>2, SiblingsApart
<1>4. \A A, B : A \cap B = {} => Clear(A, B, X)
  BY DEF Clear, Same
<1>5. ASSUME NEW k \in DOMAIN items  PROVE Apart(seqs[k], X)
  <2>1. CASE Child(k)
    <3> DEFINE one == <<items[k]>>
    <3>1. /\ seqs[k] = one \o rest(k) /\ IsList(one) /\ IsList(rest(k))
          /\ Range(one) = {items[k]} /\ Value(items[k], "id") \in Tops(items)
      BY <1>1, <2>1
    <3>2. Apart(one, X)
      <4> HIDE DEF X
      <4> QED  BY ShortLists
    <3>3. Apart(rest(k), X)
      BY <3>1
    <3>4. Clear(Range(one), Range(rest(k)), X)
      BY <1>2, <1>4, <2>1, <3>1
    <3> HIDE DEF one, rest, X, seqs
    <3> QED  BY <3>1, <3>2, <3>3, <3>4, ApartConcat
  <2>2. CASE ~Child(k)
    <3>1. seqs[k] = <<>>
      BY <1>1, <2>2
    <3> HIDE DEF seqs, X
    <3> QED  BY <3>1, ShortLists
  <2> QED  BY <2>1, <2>2
<1>6. ASSUME NEW j \in DOMAIN items, NEW k \in DOMAIN items, j # k
      PROVE  Clear(Range(seqs[j]), Range(seqs[k]), X)
  <2>1. Range(seqs[j]) \cap Range(seqs[k]) = {}
    <3>1. CASE Child(j) /\ Child(k)
      <4>1. /\ Range(seqs[j]) = {items[j]} \cup Range(rest(j))
            /\ Range(seqs[k]) = {items[k]} \cup Range(rest(k))
        BY <1>1, <3>1
      <4> HIDE DEF rest, seqs
      <4> QED  BY <1>3, <1>6, <3>1, <4>1
    <3>2. CASE ~Child(j) \/ ~Child(k)
      BY <1>1, <3>2
    <3> QED  BY <3>1, <3>2
  <2> HIDE DEF X, seqs
  <2> QED  BY <1>4, <2>1
<1> QED  BY <1>5, <1>6

\* A family begins with a child of the id, and the parent of everything else in
\* it comes before.
LEMMA FamiliesFollow ==
    ASSUME NEW I, NEW items \in Seq(I), NEW below, Unfolds(items, below),
           NEW n \in 0..Len(items), NEW id,
           \A j \in Tops(items) :
               Follows(below[n][j], Parentage(Range(items)), ChildrenOf(Range(items), j))
    PROVE  LET seqs == Families(items, below[n], id)
           IN  \A k \in DOMAIN items : Follows(seqs[k], Parentage(Range(items)), ChildrenOf(Range(items), id))
<1> DEFINE S == Range(items)
           J == Parentage(S)
           free == ChildrenOf(S, id)
           seqs == Families(items, below[n], id)
           rest(k) == below[n][Value(items[k], "id")]
           Child(k) == Value(items[k], "parent") = id
<1>0. Listing(items, below[n])
  BY LevelLists DEF Listing
<1> SUFFICES ASSUME NEW k \in DOMAIN items  PROVE Follows(seqs[k], J, free)
  OBVIOUS
<1>1. CASE Child(k)
  <2> DEFINE one == <<items[k]>>
             own == Value(items[k], "id")
  <2> DEFINE lower == below[n]
  <2>a. Listing(items, lower)
    BY <1>0
  <2> HIDE DEF lower
  <2>c. seqs[k] = one \o rest(k)
    BY <1>1 DEF Families
  <2>b. /\ IsList(one) /\ IsList(lower[own])
        /\ Range(one) = {items[k]} /\ own \in Tops(items) /\ items[k] \in S
        /\ Range(lower[own]) \subseteq S
    BY <1>1, <2>a, FamilyHas
  <2>1. /\ seqs[k] = one \o rest(k) /\ IsList(one) /\ IsList(rest(k))
        /\ Range(one) = {items[k]} /\ own \in Tops(items) /\ items[k] \in S
        /\ Range(rest(k)) \subseteq S
    BY <2>b, <2>c DEF lower
  <2>2. items[k] \in free
    BY <1>1, <2>1 DEF ChildrenOf
  <2>3. Follows(one, J, free)
    <3> HIDE DEF J, free
    <3> QED  BY <2>2, ShortLists
  <2>4. ChildrenOf(S, own) \subseteq After(J, Range(one))
    <3>1. ASSUME NEW x \in ChildrenOf(S, own)  PROVE x \in After(J, {items[k]})
      <4>1. <<items[k], x>> \in J
        BY <2>1, <3>1 DEF ChildrenOf, Parentage
      <4> HIDE DEF J
      <4> QED  BY <4>1 DEF After
    <3> QED  BY <2>1, <3>1
  <2>5. Follows(rest(k), J, ChildrenOf(S, own))
    BY <2>1
  <2> HIDE DEF one, rest, own, J, free, seqs, S
  <2>6. Follows(rest(k), J, free \cup After(J, Range(one)))
    BY <2>4, <2>5, FollowsMore
  <2> QED  BY <2>1, <2>3, <2>6, FollowsConcat
<1>2. CASE ~Child(k)
  <2>1. seqs[k] = <<>>
    BY <1>2 DEF Families
  <2> HIDE DEF seqs, J, free
  <2> QED  BY <2>1 DEF Follows
<1> QED  BY <1>1, <1>2

\* So at every level: a tree is listed without repetition, parents first.
LEMMA LevelsListOnce ==
    ASSUME NEW I, NEW items \in Seq(I), ProperTree(items),
           NEW below, Below(items) = below[Len(items)], Unfolds(items, below)
    PROVE  \A n \in 0..Len(items) : \A id \in Tops(items) :
               /\ Apart(below[n][id], Same(Range(items)))
               /\ Follows(below[n][id], Parentage(Range(items)), ChildrenOf(Range(items), id))
<1> DEFINE N == Len(items)
           S == Range(items)
           X == Same(S)
           J == Parentage(S)
           free(id) == ChildrenOf(S, id)
           Good(n) == \A id \in Tops(items) :
               Apart(below[n][id], X) /\ Follows(below[n][id], J, free(id))
<1> HIDE DEF X, J, free
<1>1. N \in Nat
  OBVIOUS
<1>2. ASSUME NEW n \in 1..N, Good(n - 1)  PROVE Good(n)
  <2> SUFFICES ASSUME NEW id \in Tops(items)
               PROVE  Apart(below[n][id], X) /\ Follows(below[n][id], J, free(id))
    OBVIOUS
  <2> DEFINE seqs == Families(items, below[n - 1], id)
  <2>1. n - 1 \in 0..N
    OBVIOUS
  <2>2. seqs \in Seq(Seq(S)) /\ DOMAIN seqs = DOMAIN items
    <3>1. Listing(items, below[n - 1])
      BY <2>1, LevelLists DEF Listing
    <3> QED  BY <3>1, FamiliesLists
  <2>3. below[n][id] = FlattenSeq(seqs)
    BY DEF Unfolds
  <2>4. /\ \A k \in DOMAIN items : Apart(seqs[k], X)
        /\ \A j, k \in DOMAIN items : j # k => Clear(Range(seqs[j]), Range(seqs[k]), X)
    BY <1>2, <2>1, FamiliesApart DEF X
  <2>5. \A k \in DOMAIN items : Follows(seqs[k], J, free(id))
    BY <1>2, <2>1, FamiliesFollow DEF J, free
  <2> HIDE DEF seqs, S
  <2>6. Apart(FlattenSeq(seqs), X)
    BY <2>2, <2>4, ApartFlatten
  <2>7. \A k \in DOMAIN seqs : Follows(seqs[k], J, free(id) \cup After(J, Earlier(seqs, k)))
    BY <2>2, <2>5, FollowsMore
  <2>8. Follows(FlattenSeq(seqs), J, free(id))
    BY <2>2, <2>7, FollowsFlatten
  <2> QED  BY <2>3, <2>6, <2>8
<1>3. Good(0)
  <2>1. \A id \in Tops(items) : below[0][id] = <<>>
    BY DEF Unfolds
  <2> QED  BY <2>1 DEF Apart, Follows
<1> HIDE DEF Good
<1> DEFINE Bad == {n \in 0..N : ~Good(n)}
<1>4. ASSUME Bad # {}  PROVE FALSE
  <2>1. Bad \in SUBSET Nat
    BY <1>1
  <2>2. PICK n \in Bad : n = 0 \/ n - 1 \notin Bad
    <3> HIDE DEF Bad
    <3> QED  BY <1>4, <2>1, LeastNumber
  <2>3. n \in 1..N /\ n - 1 \in 0..N
    <3>1. n \in 0..N /\ n # 0
      BY <1>3, <2>2
    <3> HIDE DEF Bad, N
    <3> QED  BY <1>1, <3>1
  <2>4. Good(n - 1)
    BY <2>2, <2>3
  <2> QED  BY <1>2, <2>2, <2>3, <2>4
<1> QED  BY <1>4 DEF Good, X, J, free

\* What is below "" has every item of a tree once and parents first; so have, one
\* after the other, the families of "": a top item and what is below it.
LEMMA TreeLists ==
    ASSUME NEW I, NEW items \in Seq(I), ProperTree(items)
    PROVE  LET S == Range(items)
               all == Below(items)[""]
               seqs == Families(items, Below(items), "")
           IN  /\ all \in Seq(S) /\ S \subseteq Range(all)
               /\ Apart(all, Same(S)) /\ Follows(all, Parentage(S), ChildrenOf(S, ""))
               /\ seqs \in Seq(Seq(S)) /\ DOMAIN seqs = DOMAIN items
               /\ \A k \in DOMAIN items :
                      Apart(seqs[k], Same(S)) /\ Follows(seqs[k], Parentage(S), ChildrenOf(S, ""))
               /\ \A j, k \in DOMAIN items :
                      j # k => Clear(Range(seqs[j]), Range(seqs[k]), Same(S))
               /\ \A x \in S : \E k \in DOMAIN items : x \in Range(seqs[k])
<1> DEFINE S == Range(items)
           N == Len(items)
           all == Below(items)[""]
           seqs == Families(items, Below(items), "")
<1>1. PICK below : Below(items) = below[Len(items)] /\ Unfolds(items, below)
  BY BelowUnfolds
<1>2. N \in 0..N /\ "" \in Tops(items)
  BY DEF Tops
<1>a. N \in Nat /\ DOMAIN items = 1..N
  OBVIOUS
<1>3. all = below[N][""] /\ seqs = Families(items, below[N], "")
  BY <1>1
<1>b. Listing(items, Below(items))
  BY <1>1, <1>2, LevelLists DEF Listing
<1>4. \A n \in 0..N : \A id \in Tops(items) :
          /\ Apart(below[n][id], Same(S))
          /\ Follows(below[n][id], Parentage(S), ChildrenOf(S, id))
  BY <1>1, LevelsListOnce
<1>5. all \in Seq(S)
  BY <1>1, <1>2, <1>3, LevelLists
<1>6. S \subseteq Range(all)
  BY BelowReaches DEF ProperTree
<1>7. seqs \in Seq(Seq(S)) /\ DOMAIN seqs = DOMAIN items
  BY <1>b, FamiliesLists
<1>8. /\ \A k \in DOMAIN items : Apart(seqs[k], Same(S))
      /\ \A j, k \in DOMAIN items :
             j # k => Clear(Range(seqs[j]), Range(seqs[k]), Same(S))
  BY <1>1, <1>2, <1>3, <1>4, FamiliesApart
<1>9. \A k \in DOMAIN items : Follows(seqs[k], Parentage(S), ChildrenOf(S, ""))
  BY <1>1, <1>2, <1>3, <1>4, FamiliesFollow
<1>10. ASSUME NEW x \in S  PROVE \E k \in DOMAIN items : x \in Range(seqs[k])
  <2>1. x \in Range(below[N][""])
    BY <1>3, <1>6
  <2>2. N \in 1..N
    <3>1. PICK k \in 1..N : items[k] = x
      BY <1>a DEF Range
    <3> HIDE DEF N
    <3> QED  BY <1>a, <3>1
  <2>3. PICK z \in S : /\ Value(z, "parent") = "" /\ Value(z, "id") \in Tops(items)
                       /\ x = z \/ x \in Range(below[N - 1][Value(z, "id")])
    <3>1. Unfolds(items, below)
      BY <1>1
    <3>2. \A y \in Range(below[N][""]) :
              \E z \in Range(items) :
                  /\ Value(z, "parent") = "" /\ Value(z, "id") \in Tops(items)
                  /\ y = z \/ y \in Range(below[N - 1][Value(z, "id")])
      BY <1>2, <2>2, <3>1, UnfoldedHas
    <3> QED  BY <2>1, <3>2
  <2>4. Range(below[N - 1][Value(z, "id")]) \subseteq Range(below[N][Value(z, "id")])
    BY <1>1, <2>2, <2>3, UnfoldedGrows
  <2>5. PICK k \in DOMAIN items : z = items[k]
    BY DEF Range
  <2>6. Range(seqs[k]) = {items[k]} \cup Range(Below(items)[Value(items[k], "id")])
    BY <1>b, <2>3, <2>5, FamilyHas
  <2> QED  BY <1>1, <2>3, <2>4, <2>5, <2>6
<1> QED  BY <1>4, <1>2, <1>3, <1>5, <1>6, <1>7, <1>8, <1>9, <1>10

-----------------------------------------------------------------------------
(* The ids that are put into one set *)

\* FlattenRange and ApartFlatten for lists of lists of whatever.
LEMMA FlattenParts ==
    ASSUME NEW seqs, IsList(seqs), \A k \in DOMAIN seqs : IsList(seqs[k]), NEW X
    PROVE  /\ \E S : seqs \in Seq(Seq(S))
           /\ IsList(FlattenSeq(seqs))
           /\ Range(FlattenSeq(seqs)) = UNION {Range(seqs[k]) : k \in DOMAIN seqs}
           /\ Apart(FlattenSeq(seqs), X) <=>
                  /\ \A k \in DOMAIN seqs : Apart(seqs[k], X)
                  /\ \A j, k \in DOMAIN seqs :
                         j # k => Clear(Range(seqs[j]), Range(seqs[k]), X)
<1> DEFINE S == UNION {Range(seqs[k]) : k \in DOMAIN seqs}
<1>1. \A k \in DOMAIN seqs : seqs[k] \in Seq(S)
  <2> SUFFICES ASSUME NEW k \in DOMAIN seqs PROVE seqs[k] \in Seq(S)
    OBVIOUS
  <2>1. seqs[k] \in Seq(Range(seqs[k])) /\ Range(seqs[k]) \subseteq S
    BY DEF IsList
  <2> QED  BY <2>1
<1>2. Range(seqs) \subseteq Seq(S)
  BY <1>1 DEF Range
<1> HIDE DEF S
<1>3. seqs \in Seq(Seq(S))
  BY <1>2 DEF IsList
<1>4. FlattenSeq(seqs) \in Seq(S)
  BY <1>3, FlattenType
<1> QED  BY <1>3, <1>4, SequencesAreLists, FlattenRange, ApartFlatten

\* An item that has an id has another than the other.
Unlike(x, y) == Value(x, "id") # "" => Value(x, "id") # Value(y, "id")

\* Items of a list whose ids are apart.
LEMMA FieldApart ==
    ASSUME NEW items, IsList(items), NEW a
    PROVE  /\ IsList(Field(items, "id"))
           /\ Range(Field(items, "id")) = {Value(x, "id") : x \in Range(items)}
           /\ Apart(Field(items, "id"), {<<a, a>>}) =>
                  \A j, k \in DOMAIN items :
                      j # k => ~(Value(items[j], "id") = a /\ Value(items[k], "id") = a)
<1> DEFINE s == Field(items, "id")
<1>1. s = [k \in DOMAIN items |-> s[k]] /\ \A k \in DOMAIN items : s[k] = Value(items[k], "id")
  BY DEF Field
<1>2. IsList(s)
  <2> HIDE DEF s
  <2> QED  BY <1>1, MappedList
<1>3. DOMAIN s = DOMAIN items
  BY <1>1
<1> HIDE DEF s
<1>4. Range(s) = {Value(x, "id") : x \in Range(items)}
  BY <1>1, <1>3 DEF Range
<1>5. Apart(s, {<<a, a>>}) =>
                  \A j, k \in DOMAIN items :
                      j # k => ~(Value(items[j], "id") = a /\ Value(items[k], "id") = a)
  BY <1>1, <1>3 DEF Apart
<1> QED  BY <1>2, <1>4, <1>5 DEF s

\* Ids that are put into one set differ, in whatever sections they are; and so
\* do those of the parts of one kind, in whatever bodies, and of the cameras of
\* the world and of bodies.
LEMMA IdsDiffer ==
    ASSUME NEW doc, InSections(doc), IdsUnique(doc)
    PROVE  /\ \A s \in Range(Pooled) : \A j, k \in DOMAIN doc[s] :
                  j # k => Unlike(doc[s][j], doc[s][k])
           /\ \A s, t \in Range(Pooled) : s # t =>
                  \A x \in Items(doc, s), y \in Items(doc, t) : Unlike(x, y)
           /\ \A part \in {"joints", "geoms", "sites", "cameras"} :
                  \A i \in DOMAIN doc.bodies :
                      LET inner == ValueOr(doc.bodies[i], part, <<>>)
                      IN  \A j, k \in DOMAIN inner : j # k => Unlike(inner[j], inner[k])
           /\ \A part \in {"joints", "geoms", "sites", "cameras"} :
                  \A i, j \in DOMAIN doc.bodies : i # j =>
                      \A x \in Inner(doc.bodies[i], part), y \in Inner(doc.bodies[j], part) :
                          Unlike(x, y)
           /\ \A s \in Range(Pooled) :
                  \A part \in {"joints", "geoms", "sites", "cameras"} :
                      \A x \in Items(doc, s) : \A i \in DOMAIN doc.bodies :
                          \A y \in Inner(doc.bodies[i], part) : Unlike(x, y)
<1> DEFINE Parts == <<"joints", "geoms", "sites", "cameras">>
           section(k) == Field(doc[Pooled[k]], "id")
           sections == [k \in DOMAIN Pooled |-> section(k)]
           own(i, part) == Field(ValueOr(doc.bodies[i], part, <<>>), "id")
           each(part) == [i \in DOMAIN doc.bodies |-> own(i, part)]
           inner == [k \in 1..4 |-> FlattenSeq(each(Parts[k]))]
           PartNames == {"joints", "geoms", "sites", "cameras"}
<1>1. Ids(doc) = FlattenSeq(sections) \o FlattenSeq(inner)
  BY DEF Ids, InnerIds
<1>2. \A s \in Range(Pooled) : IsList(doc[s])
  BY ListedSections DEF Pooled, Range
<1>3. \A i \in DOMAIN doc.bodies : \A part \in PartNames :
          IsList(ValueOr(doc.bodies[i], part, <<>>))
  <2>1. doc.bodies \in Seq(Pool["bodies"])
    BY ListedSections
  <2>2. \A i \in DOMAIN doc.bodies : doc.bodies[i] \in Pool["bodies"]
    BY <2>1
  <2> QED  BY <2>2, PoolAssumption
<1>4. IsList(Pooled) /\ "bodies" \in Range(Pooled)
  BY DEF IsList, Pooled, Range
<1>5. \A k \in 1..4 : Parts[k] \in PartNames
  OBVIOUS
<1>6. \A part \in PartNames : \E k \in 1..4 : Parts[k] = part
  OBVIOUS
<1>7. /\ IsList(sections) /\ \A k \in DOMAIN Pooled : IsList(sections[k])
      /\ DOMAIN sections = DOMAIN Pooled
      /\ \A k \in DOMAIN Pooled :
             Range(sections[k]) = {Value(x, "id") : x \in Items(doc, Pooled[k])}
  <2>1. \A k \in DOMAIN Pooled : IsList(doc[Pooled[k]])
    BY <1>2 DEF Range
  <2>2. \A k \in DOMAIN Pooled : /\ IsList(section(k))
                                 /\ Range(section(k)) = {Value(x, "id") : x \in Items(doc, Pooled[k])}
    BY <2>1, FieldApart DEF Items
  <2>3. sections = [k \in DOMAIN Pooled |-> sections[k]] /\ DOMAIN sections = DOMAIN Pooled
        /\ \A k \in DOMAIN Pooled : sections[k] = section(k)
    OBVIOUS
  <2> HIDE DEF sections, section
  <2>4. IsList(sections)
    BY <1>4, <2>3, MappedList
  <2> QED  BY <2>2, <2>3, <2>4
<1>a. \A part \in PartNames : \A i \in DOMAIN doc.bodies :
          /\ IsList(own(i, part))
          /\ Range(own(i, part)) = {Value(x, "id") : x \in Inner(doc.bodies[i], part)}
  BY <1>3, FieldApart DEF Inner
<1>8. ASSUME NEW part \in PartNames
      PROVE  /\ IsList(each(part)) /\ DOMAIN each(part) = DOMAIN doc.bodies
             /\ \A i \in DOMAIN doc.bodies :
                    /\ each(part)[i] = own(i, part) /\ IsList(own(i, part))
                    /\ Range(own(i, part)) = {Value(x, "id") : x \in Inner(doc.bodies[i], part)}
  <2>1. \A i \in DOMAIN doc.bodies :
            /\ IsList(own(i, part))
            /\ Range(own(i, part)) = {Value(x, "id") : x \in Inner(doc.bodies[i], part)}
    BY <1>a
  <2> DEFINE s == each(part)
  <2>2. s = [i \in DOMAIN doc.bodies |-> s[i]] /\ DOMAIN s = DOMAIN doc.bodies
        /\ \A i \in DOMAIN doc.bodies : s[i] = own(i, part)
    OBVIOUS
  <2>3. IsList(doc.bodies)
    BY ListedSections
  <2> HIDE DEF s, own
  <2>4. IsList(s)
    BY <2>2, <2>3, MappedList
  <2> QED  BY <2>1, <2>2, <2>4 DEF s
<1>9. /\ IsList(inner) /\ DOMAIN inner = 1..4
      /\ \A k \in 1..4 : inner[k] = FlattenSeq(each(Parts[k])) /\ IsList(inner[k])
  <2>1. \A part \in PartNames : IsList(FlattenSeq(each(part)))
    <3> SUFFICES ASSUME NEW part \in PartNames  PROVE IsList(FlattenSeq(each(part)))
      OBVIOUS
    <3> DEFINE s == each(part)
    <3>1. IsList(s) /\ \A i \in DOMAIN s : IsList(s[i])
      BY <1>8
    <3> HIDE DEF s
    <3> QED  BY <3>1, FlattenParts DEF s
  <2>2. \A k \in 1..4 : IsList(inner[k])
    BY <1>5, <2>1
  <2> DEFINE S == UNION {Range(inner[k]) : k \in 1..4}
  <2>3. DOMAIN inner = 1..4 /\ inner = [k \in 1..4 |-> inner[k]]
        /\ \A k \in 1..4 : inner[k] = FlattenSeq(each(Parts[k]))
    OBVIOUS
  <2> HIDE DEF inner, each, Parts
  <2>4. IsList(inner)
    <3>1. inner \in Seq(Range(inner))
      <4> DEFINE R == Range(inner)
      <4>1. \A k \in 1..4 : inner[k] \in R
        BY <2>3 DEF Range
      <4> HIDE DEF R
      <4>2. inner \in Seq(R)
        BY <2>3, <4>1
      <4> QED  BY <4>2 DEF R
    <3> QED  BY <3>1 DEF IsList
  <2> QED  BY <2>2, <2>3, <2>4
<1>10. ASSUME NEW a, a # ""
       PROVE  /\ \A k \in DOMAIN Pooled :
                     /\ Apart(section(k), {<<a, a>>})
                     /\ \A j \in DOMAIN Pooled : j # k =>
                            ~(a \in Range(section(j)) /\ a \in Range(section(k)))
                     /\ \A part \in PartNames : \A i \in DOMAIN doc.bodies :
                            ~(a \in Range(section(k)) /\ a \in Range(own(i, part)))
              /\ \A part \in PartNames : \A i \in DOMAIN doc.bodies :
                     /\ Apart(own(i, part), {<<a, a>>})
                     /\ \A j \in DOMAIN doc.bodies : i # j =>
                            ~(a \in Range(own(i, part)) /\ a \in Range(own(j, part)))
  <2> DEFINE X == {<<a, a>>}
  <2>1. \A A, B : Clear(A, B, X) => ~(a \in A /\ a \in B)
    BY DEF Clear
  <2>2. Apart(Ids(doc), X)
    BY <1>10 DEF IdsUnique, Distinct, Apart
  <2> HIDE DEF X
  <2>3. /\ IsList(FlattenSeq(sections)) /\ IsList(FlattenSeq(inner))
        /\ Range(FlattenSeq(sections)) = UNION {Range(sections[k]) : k \in DOMAIN sections}
        /\ Range(FlattenSeq(inner)) = UNION {Range(inner[k]) : k \in DOMAIN inner}
        /\ Apart(FlattenSeq(sections), X) =>
                  /\ \A k \in DOMAIN sections : Apart(sections[k], X)
                  /\ \A j, k \in DOMAIN sections :
                         j # k => Clear(Range(sections[j]), Range(sections[k]), X)
        /\ Apart(FlattenSeq(inner), X) => \A k \in DOMAIN inner : Apart(inner[k], X)
    <3> HIDE DEF sections, inner
    <3>1. /\ IsList(sections) /\ \A k \in DOMAIN sections : IsList(sections[k])
          /\ IsList(inner) /\ \A k \in DOMAIN inner : IsList(inner[k])
      BY <1>7, <1>9
    <3> QED  BY <3>1, FlattenParts
  <2>4. /\ Apart(FlattenSeq(sections), X) /\ Apart(FlattenSeq(inner), X)
        /\ Clear(Range(FlattenSeq(sections)), Range(FlattenSeq(inner)), X)
    <3> DEFINE s == FlattenSeq(sections)
               t == FlattenSeq(inner)
    <3>1. IsList(s) /\ IsList(t) /\ Apart(s \o t, X)
      BY <1>1, <2>2, <2>3
    <3> HIDE DEF s, t
    <3>2. Apart(s, X) /\ Apart(t, X) /\ Clear(Range(s), Range(t), X)
      BY <3>1, ApartConcat
    <3> QED  BY <3>2 DEF s, t
  <2>5. \A k \in DOMAIN Pooled : sections[k] = section(k)
    OBVIOUS
  <2>6. ASSUME NEW part \in PartNames
        PROVE  /\ \A i \in DOMAIN doc.bodies : Apart(own(i, part), X)
               /\ \A i, j \in DOMAIN doc.bodies :
                      i # j => Clear(Range(own(i, part)), Range(own(j, part)), X)
               /\ \A i \in DOMAIN doc.bodies :
                      Range(own(i, part)) \subseteq Range(FlattenSeq(inner))
    <3> DEFINE s == each(part)
    <3>1. PICK k \in 1..4 : Parts[k] = part
      BY <1>6
    <3>2. k \in DOMAIN inner /\ inner[k] = FlattenSeq(s)
      BY <1>9, <3>1
    <3>3. Apart(FlattenSeq(s), X) /\ Range(FlattenSeq(s)) \subseteq Range(FlattenSeq(inner))
      <4> HIDE DEF inner, s
      <4> QED  BY <2>3, <2>4, <3>2
    <3>4. IsList(s) /\ DOMAIN s = DOMAIN doc.bodies /\ (\A i \in DOMAIN s : IsList(s[i]))
      BY <1>8
    <3>5. \A i \in DOMAIN doc.bodies : s[i] = own(i, part)
      OBVIOUS
    <3> HIDE DEF s, inner, own
    <3>6. /\ \A i \in DOMAIN s : Apart(s[i], X)
          /\ \A i, j \in DOMAIN s : i # j => Clear(Range(s[i]), Range(s[j]), X)
          /\ \A i \in DOMAIN s : Range(s[i]) \subseteq Range(FlattenSeq(s))
      <4>1. Range(FlattenSeq(s)) = UNION {Range(s[i]) : i \in DOMAIN s}
        BY <3>4, FlattenParts
      <4>2. /\ \A i \in DOMAIN s : Apart(s[i], X)
            /\ \A i, j \in DOMAIN s : i # j => Clear(Range(s[i]), Range(s[j]), X)
        BY <3>3, <3>4, FlattenParts
      <4> QED  BY <4>1, <4>2
    <3> QED  BY <3>3, <3>4, <3>5, <3>6
  <2> HIDE DEF inner, section, own, sections
  <2>7. ASSUME NEW k \in DOMAIN Pooled
        PROVE  /\ Apart(section(k), X)
               /\ \A j \in DOMAIN Pooled : j # k => Clear(Range(section(j)), Range(section(k)), X)
               /\ Range(section(k)) \subseteq Range(FlattenSeq(sections))
    BY <1>7, <2>3, <2>4, <2>5
  <2>8. ASSUME NEW k \in DOMAIN Pooled, NEW part \in PartNames, NEW i \in DOMAIN doc.bodies
        PROVE  ~(a \in Range(section(k)) /\ a \in Range(own(i, part)))
    <3>1. /\ Range(section(k)) \subseteq Range(FlattenSeq(sections))
          /\ Range(own(i, part)) \subseteq Range(FlattenSeq(inner))
      BY <2>6, <2>7
    <3> QED  BY <2>1, <2>4, <3>1
  <2> QED  BY <2>1, <2>6, <2>7, <2>8 DEF X
<1>11. ASSUME NEW s \in Range(Pooled), NEW j \in DOMAIN doc[s], NEW k \in DOMAIN doc[s], j # k
       PROVE  Unlike(doc[s][j], doc[s][k])
  <2> DEFINE a == Value(doc[s][j], "id")
             items == doc[s]
  <2> SUFFICES ASSUME a # "", Value(doc[s][k], "id") = a  PROVE FALSE
    BY DEF Unlike
  <2>1. PICK p \in DOMAIN Pooled : s = Pooled[p]
    BY DEF Range
  <2>2. Apart(Field(items, "id"), {<<a, a>>})
    BY <1>10, <2>1
  <2>3. IsList(items)
    BY <1>2
  <2>4. j \in DOMAIN items /\ k \in DOMAIN items /\ Value(items[j], "id") = a /\ Value(items[k], "id") = a
    BY <1>11
  <2> HIDE DEF a, items
  <2> QED  BY <1>11, <2>2, <2>3, <2>4, FieldApart
<1>12. ASSUME NEW s \in Range(Pooled), NEW t \in Range(Pooled), s # t,
              NEW x \in Items(doc, s), NEW y \in Items(doc, t)
       PROVE  Unlike(x, y)
  <2> DEFINE a == Value(x, "id")
  <2> SUFFICES ASSUME a # "", Value(y, "id") = a  PROVE FALSE
    BY DEF Unlike
  <2>1. PICK p \in DOMAIN Pooled, q \in DOMAIN Pooled : s = Pooled[p] /\ t = Pooled[q]
    BY DEF Range
  <2>2. a \in Range(section(p)) /\ a \in Range(section(q))
    BY <1>7, <1>12, <2>1
  <2>3. p # q
    BY <1>12, <2>1
  <2> HIDE DEF a, section
  <2> QED  BY <1>10, <2>2, <2>3
<1>13. ASSUME NEW part \in PartNames, NEW i \in DOMAIN doc.bodies,
              NEW j \in DOMAIN ValueOr(doc.bodies[i], part, <<>>),
              NEW k \in DOMAIN ValueOr(doc.bodies[i], part, <<>>), j # k
       PROVE  Unlike(ValueOr(doc.bodies[i], part, <<>>)[j], ValueOr(doc.bodies[i], part, <<>>)[k])
  <2> DEFINE items == ValueOr(doc.bodies[i], part, <<>>)
             a == Value(items[j], "id")
  <2> SUFFICES ASSUME a # "", Value(items[k], "id") = a  PROVE FALSE
    BY DEF Unlike
  <2>1. Apart(Field(items, "id"), {<<a, a>>})
    BY <1>10
  <2>2. IsList(items)
    BY <1>3
  <2>3. Value(items[j], "id") = a /\ j \in DOMAIN items /\ k \in DOMAIN items
    BY <1>13
  <2> HIDE DEF a, items
  <2> QED  BY <1>13, <2>1, <2>2, <2>3, FieldApart
<1>14. ASSUME NEW part \in PartNames, NEW i \in DOMAIN doc.bodies, NEW j \in DOMAIN doc.bodies,
              i # j, NEW x \in Inner(doc.bodies[i], part), NEW y \in Inner(doc.bodies[j], part)
       PROVE  Unlike(x, y)
  <2> DEFINE a == Value(x, "id")
  <2> SUFFICES ASSUME a # "", Value(y, "id") = a  PROVE FALSE
    BY DEF Unlike
  <2>1. a \in Range(own(i, part)) /\ a \in Range(own(j, part))
    <3>1. Range(own(i, part)) = {Value(z, "id") : z \in Inner(doc.bodies[i], part)}
      BY <1>a
    <3>2. Range(own(j, part)) = {Value(z, "id") : z \in Inner(doc.bodies[j], part)}
      BY <1>a
    <3> HIDE DEF own
    <3> QED  BY <1>14, <3>1, <3>2
  <2> HIDE DEF a, own
  <2> QED  BY <1>10, <1>14, <2>1
<1>15. ASSUME NEW s \in Range(Pooled), NEW part \in PartNames, NEW x \in Items(doc, s),
              NEW i \in DOMAIN doc.bodies, NEW y \in Inner(doc.bodies[i], part)
       PROVE  Unlike(x, y)
  <2> DEFINE a == Value(x, "id")
  <2> SUFFICES ASSUME a # "", Value(y, "id") = a  PROVE FALSE
    BY DEF Unlike
  <2>1. PICK p \in DOMAIN Pooled : s = Pooled[p]
    BY DEF Range
  <2>2. a \in Range(section(p)) /\ a \in Range(own(i, part))
    <3>1. Range(section(p)) = {Value(z, "id") : z \in Items(doc, Pooled[p])}
      BY <1>7
    <3>2. Range(own(i, part)) = {Value(z, "id") : z \in Inner(doc.bodies[i], part)}
      BY <1>a
    <3> HIDE DEF own, section
    <3> QED  BY <1>15, <2>1, <3>1, <3>2
  <2> HIDE DEF a, own, section
  <2> QED  BY <1>10, <2>2
<1> QED  BY <1>11, <1>12, <1>13, <1>14, <1>15

-----------------------------------------------------------------------------
(* NamesAreUnique: parts of the document without clashes *)

\* What NamesAreUnique forbids of two elements.
Clash(e, f) ==
    /\ e.ns = f.ns /\ e.name = f.name /\ e.name # ""
    /\ e.ns = "geom" => e.derived = f.derived
    /\ e.ns # "exclude"

\* A relation of such pairs only.
OnlyClashes(X) == \A e, f : <<e, f>> \in X => Clash(e, f)

\* A part of the document that keeps to some namespaces and has no clash.
Piece(s, spaces, X) ==
    IsList(s) /\ Apart(s, X) /\ \A e \in Range(s) : e.ns \in spaces

\* Parts without clashes between them are clear.
LEMMA ClearIf ==
    ASSUME NEW X, OnlyClashes(X), NEW A, NEW B, \A a \in A, b \in B : ~Clash(a, b)
    PROVE  Clear(A, B, X)
<1> SUFFICES ASSUME NEW a \in A, NEW b \in B
             PROVE  <<a, b>> \notin X /\ <<b, a>> \notin X
  BY DEF Clear
<1>1. ~Clash(a, b) /\ ~Clash(b, a)
  BY DEF Clash
<1> QED  BY <1>1 DEF OnlyClashes

\* Parts of different namespaces can follow each other,
LEMMA PieceConcat ==
    ASSUME NEW X, OnlyClashes(X), NEW s, NEW spaces, Piece(s, spaces, X),
           NEW t, NEW more, Piece(t, more, X),
           \A a \in Range(s), b \in Range(t) : ~Clash(a, b)
    PROVE  Piece(s \o t, spaces \cup more, X)
<1>1. Clear(Range(s), Range(t), X)
  BY ClearIf
<1>2. Apart(s \o t, X)
  BY <1>1, ApartConcat DEF Piece
<1>3. IsList(s \o t) /\ Range(s \o t) = Range(s) \cup Range(t)
  BY NamesConcat DEF Piece
<1> QED  BY <1>2, <1>3 DEF Piece

\* and so can any two without a clash.
LEMMA PieceThen ==
    ASSUME NEW X, OnlyClashes(X), NEW s, NEW spaces, Piece(s, spaces, X),
           NEW t, NEW more, Piece(t, more, X), spaces \cap more = {}
    PROVE  Piece(s \o t, spaces \cup more, X)
<1>1. \A a \in Range(s), b \in Range(t) : ~Clash(a, b)
  BY DEF Piece, Clash
<1> QED  BY <1>1, PieceConcat

\* The parts made of the items of a list, each by itself without clash.
LEMMA PieceFlatten ==
    ASSUME NEW X, OnlyClashes(X), NEW seqs, IsList(seqs), NEW spaces,
           \A k \in DOMAIN seqs : Piece(seqs[k], spaces, X),
           \A j, k \in DOMAIN seqs : j # k =>
               \A e \in Range(seqs[j]), f \in Range(seqs[k]) : ~Clash(e, f)
    PROVE  /\ Piece(FlattenSeq(seqs), spaces, X)
           /\ \A e \in Range(FlattenSeq(seqs)) : \E k \in DOMAIN seqs : e \in Range(seqs[k])
<1>1. \A k \in DOMAIN seqs : IsList(seqs[k]) /\ Apart(seqs[k], X)
  BY DEF Piece
<1>2. \A j, k \in DOMAIN seqs : j # k => Clear(Range(seqs[j]), Range(seqs[k]), X)
  BY ClearIf
<1>3. /\ IsList(FlattenSeq(seqs)) /\ Apart(FlattenSeq(seqs), X)
      /\ Range(FlattenSeq(seqs)) = UNION {Range(seqs[k]) : k \in DOMAIN seqs}
  BY <1>1, <1>2, FlattenParts
<1> QED  BY <1>3 DEF Piece

\* Elements that have their names from items.
CalledLike(s, items) == \A e \in Range(s) : \E x \in items : e.name = Value(x, "id")

\* A list with one element for each item, in a namespace, and of its name.
OnePerItem(s, items, ns) ==
    /\ s = [k \in DOMAIN items |-> s[k]]
    /\ \A k \in DOMAIN items : s[k].ns = ns /\ s[k].name = Value(items[k], "id")

\* A list with a list of elements for each item, in a namespace and of its name.
FewPerItem(seqs, items, ns, X) ==
    /\ seqs = [k \in DOMAIN items |-> seqs[k]]
    /\ \A k \in DOMAIN items :
           /\ Piece(seqs[k], {ns}, X)
           /\ \A e \in Range(seqs[k]) : e.name = Value(items[k], "id")

\* Elements of one namespace.
LEMMA PieceMapped ==
    ASSUME NEW X, OnlyClashes(X), NEW s, IsList(s), NEW ns,
           \A k \in DOMAIN s : s[k].ns = ns,
           \A j, k \in DOMAIN s : j # k => ~Clash(s[j], s[k])
    PROVE  Piece(s, {ns}, X)
<1>1. Apart(s, X)
  BY DEF Apart, OnlyClashes
<1> QED  BY <1>1 DEF Piece, Range

\* A single element that may be written.
LEMMA PieceWhen ==
    ASSUME NEW X, NEW c \in BOOLEAN, NEW e
    PROVE  Piece(When(c, e), {e.ns}, X)
<1>1. IsList(When(c, e)) /\ Range(When(c, e)) = IF c THEN {e} ELSE {}
  BY WhenRange
<1>2. Apart(<<e>>, X) /\ Apart(<<>>, X)
  <2> DEFINE free == {e}
  <2>1. e \in free
    OBVIOUS
  <2> HIDE DEF free
  <2> QED  BY <2>1, ShortLists
<1>3. Apart(When(c, e), X)
  BY <1>2 DEF When
<1> QED  BY <1>1, <1>3 DEF Piece

\* What the items of a scene are called: all but the pairs have to have an id.
LEMMA ItemsNamed ==
    ASSUME NEW doc, Valid(doc), NEW section \in Range(Pooled) \cup {"defaultClasses"},
           section # "pairs", NEW k \in DOMAIN doc[section]
    PROVE  doc[section][k].id = Value(doc[section][k], "id") /\ doc[section][k].id # ""
<1>1. Given(doc[section][k], "id")
  BY DEF Valid, Named, Items, Range
<1> QED  BY <1>1 DEF Given, Value, ValueOr

\* The sections with ids of their own.
LEMMA PooledHas ==
    {"models", "plugins", "assets", "objects", "sensors", "pairs", "bodies",
     "actuators", "equality", "tendon", "keyframes", "cameras", "custom", "flexes",
     "skins"} \subseteq Range(Pooled)
BY DEF Pooled, Range

\* A section whose items each become one element that is called like the item.
LEMMA SectionPiece ==
    ASSUME NEW doc, InSections(doc), Valid(doc), NEW X, OnlyClashes(X),
           NEW section \in Range(Pooled), NEW ns,
           NEW s, OnePerItem(s, doc[section], ns)
    PROVE  Piece(s, {ns}, X)
<1> DEFINE items == doc[section]
<1>1. IsList(items)
  BY ListedSections DEF Pooled, Range
<1>2. \A j, k \in DOMAIN items : j # k => Unlike(items[j], items[k])
  BY IdsDiffer DEF Valid
<1>3. OnePerItem(s, items, ns)
  OBVIOUS
<1> HIDE DEF items
<1>4. s = [k \in DOMAIN items |-> s[k]]
      /\ \A k \in DOMAIN items : s[k].ns = ns /\ s[k].name = Value(items[k], "id")
  BY <1>3 DEF OnePerItem
<1>5. IsList(s) /\ DOMAIN s = DOMAIN items
  BY <1>1, <1>4, MappedList
<1>6. ASSUME NEW j \in DOMAIN items, NEW k \in DOMAIN items, j # k
      PROVE  ~Clash(s[j], s[k])
  <2> SUFFICES ASSUME s[j].name = s[k].name, s[j].name # ""  PROVE FALSE
    BY DEF Clash
  <2>1. s[j].name = Value(items[j], "id") /\ s[k].name = Value(items[k], "id")
    BY <1>4
  <2> QED  BY <1>2, <1>6, <2>1 DEF Unlike
<1> QED  BY <1>4, <1>5, <1>6, PieceMapped

\* A section of which some items become one element that is called like it.
LEMMA SectionFlatten ==
    ASSUME NEW doc, InSections(doc), Valid(doc), NEW X, OnlyClashes(X),
           NEW section \in Range(Pooled), NEW ns,
           NEW seqs, FewPerItem(seqs, doc[section], ns, X)
    PROVE  /\ Piece(FlattenSeq(seqs), {ns}, X)
           /\ CalledLike(FlattenSeq(seqs), Items(doc, section))
<1> DEFINE items == doc[section]
           spaces == {ns}
<1>1. IsList(items)
  BY ListedSections DEF Pooled, Range
<1>2. \A j, k \in DOMAIN items : j # k => Unlike(items[j], items[k])
  BY IdsDiffer DEF Valid
<1>a. FewPerItem(seqs, items, ns, X)
  OBVIOUS
<1> HIDE DEF items
<1>4. /\ seqs = [k \in DOMAIN items |-> seqs[k]]
      /\ \A k \in DOMAIN items : Piece(seqs[k], spaces, X)
      /\ \A k \in DOMAIN items : \A e \in Range(seqs[k]) : e.name = Value(items[k], "id")
  BY <1>a DEF FewPerItem
<1>3. ASSUME NEW j \in DOMAIN items, NEW k \in DOMAIN items, j # k,
             NEW e \in Range(seqs[j]), NEW f \in Range(seqs[k])
      PROVE  ~Clash(e, f)
  <2> SUFFICES ASSUME e.name = f.name, e.name # ""  PROVE FALSE
    BY DEF Clash
  <2>1. e.name = Value(items[j], "id") /\ f.name = Value(items[k], "id")
    BY <1>3, <1>4
  <2> QED  BY <1>2, <1>3, <2>1 DEF Unlike
<1>5. IsList(seqs) /\ DOMAIN seqs = DOMAIN items
  BY <1>1, <1>4, MappedList
<1>6. \A k \in DOMAIN items : \A e \in Range(seqs[k]) :
          \E x \in Items(doc, section) : e.name = Value(x, "id")
  BY <1>4 DEF Items, Range, items
<1> HIDE DEF spaces
<1>7. /\ Piece(FlattenSeq(seqs), spaces, X)
      /\ \A e \in Range(FlattenSeq(seqs)) : \E k \in DOMAIN seqs : e \in Range(seqs[k])
  BY <1>3, <1>4, <1>5, PieceFlatten
<1> QED  BY <1>5, <1>6, <1>7 DEF spaces, CalledLike

\* The sections that refer to nothing, the constraints and the actuators.
LEMMA PlainPiece ==
    ASSUME NEW doc, InSections(doc), Valid(doc), NEW X, OnlyClashes(X)
    PROVE  /\ Piece(Plain(doc, "custom"), {"custom"}, X)
           /\ Piece(Plain(doc, "tendon"), {"tendon"}, X)
           /\ Piece(Plain(doc, "keyframes"), {"keyframes"}, X)
           /\ Piece(Equality(doc), {"equality"}, X)
           /\ Piece(Each(doc.actuators, Actuator), {"actuator"}, X)
<1>0. \A section \in {"custom", "tendon", "keyframes", "equality", "actuators"} :
          section \in Range(Pooled) /\ section # "pairs"
  BY PooledHas
<1>1. \A section \in {"custom", "tendon", "keyframes", "equality", "actuators"} :
          \A k \in DOMAIN doc[section] : doc[section][k].id = Value(doc[section][k], "id")
  BY <1>0, ItemsNamed
<1>2. \A section \in {"custom", "tendon", "keyframes"} :
          OnePerItem(Plain(doc, section), doc[section], section)
  BY <1>1 DEF OnePerItem, Plain, Each, Element
<1>3. OnePerItem(Equality(doc), doc["equality"], "equality")
  BY <1>1 DEF OnePerItem, Equality, Each, Element
<1>4. OnePerItem(Each(doc.actuators, Actuator), doc["actuators"], "actuator")
  BY <1>1 DEF OnePerItem, Each, Actuator, Element
<1> QED  BY <1>0, <1>2, <1>3, <1>4, SectionPiece

\* Contacts, flexes and skins.
LEMMA ContactPiece ==
    ASSUME NEW doc, InSections(doc), Valid(doc), NEW X, OnlyClashes(X)
    PROVE  /\ Piece(Contact(doc), {"pair", "exclude"}, X)
           /\ Piece(Deformable(doc), {"flex", "skin"}, X)
<1>0. /\ \A section \in {"flexes", "skins"} :
             section \in Range(Pooled) /\ section # "pairs"
      /\ "pairs" \in Range(Pooled)
  BY PooledHas
<1>1. \A section \in {"flexes", "skins"} :
          \A k \in DOMAIN doc[section] : doc[section][k].id = Value(doc[section][k], "id")
  BY <1>0, ItemsNamed
<1> DEFINE Pair(pair) == Element("pair", Value(pair, "id"), {})
           Exclude(item) ==
               Element("exclude", Value(item, "name"),
                       Refs("body", item, {"body1", "body2"}))
           Flex(flex) == Element("flex", flex.id, Refs("body", flex, {"body"}))
           Skin(skin) ==
            Element("skin", skin.id,
                    Refs("material", skin, {"material"})
                    \cup UNION {Refs("body", bone, {"body"}) :
                                  bone \in Inner(skin, "bone")})
           pairs == [k \in DOMAIN doc.pairs |-> Pair(doc.pairs[k])]
           excludes == [k \in DOMAIN doc.excludes |-> Exclude(doc.excludes[k])]
           flexes == [k \in DOMAIN doc.flexes |-> Flex(doc.flexes[k])]
           skins == [k \in DOMAIN doc.skins |-> Skin(doc.skins[k])]
<1>2. OnePerItem(pairs, doc["pairs"], "pair")
  BY DEF OnePerItem, Element
<1>3. OnePerItem(flexes, doc["flexes"], "flex")
  BY <1>1 DEF OnePerItem, Element
<1>4. OnePerItem(skins, doc["skins"], "skin")
  BY <1>1 DEF OnePerItem, Element
<1>5. Piece(excludes, {"exclude"}, X)
  <2>1. IsList(doc.excludes)
    BY ListedSections
  <2>2. excludes = [k \in DOMAIN doc.excludes |-> excludes[k]]
    OBVIOUS
  <2>3. \A k \in DOMAIN doc.excludes : excludes[k].ns = "exclude"
    BY DEF Element
  <2> HIDE DEF excludes
  <2>4. IsList(excludes) /\ DOMAIN excludes = DOMAIN doc.excludes
    BY <2>1, <2>2, MappedList
  <2>5. \A j, k \in DOMAIN excludes : j # k => ~Clash(excludes[j], excludes[k])
    BY <2>3, <2>4 DEF Clash
  <2> QED  BY <2>3, <2>4, <2>5, PieceMapped
<1>6. Contact(doc) = pairs \o excludes /\ Deformable(doc) = flexes \o skins
  BY DEF Contact, Deformable, Each
<1> HIDE DEF pairs, excludes, flexes, skins, Pair, Exclude, Flex, Skin
<1>7. Piece(pairs, {"pair"}, X) /\ Piece(flexes, {"flex"}, X) /\ Piece(skins, {"skin"}, X)
  BY <1>0, <1>2, <1>3, <1>4, SectionPiece
<1>8. Piece(pairs \o excludes, {"pair"} \cup {"exclude"}, X)
  BY <1>5, <1>7, PieceThen
<1>9. Piece(flexes \o skins, {"flex"} \cup {"skin"}, X)
  BY <1>7, PieceThen
<1>10. {"pair"} \cup {"exclude"} = {"pair", "exclude"} /\ {"flex"} \cup {"skin"} = {"flex", "skin"}
  OBVIOUS
<1> QED  BY <1>6, <1>8, <1>9, <1>10

\* The default classes and the bodies of an accepted scene are trees.
LEMMA Trees ==
    ASSUME NEW doc, InSections(doc), Valid(doc)
    PROVE  /\ doc.defaultClasses \in Seq(Pool["defaultClasses"])
           /\ doc.bodies \in Seq(Pool["bodies"])
           /\ ProperTree(doc.defaultClasses) /\ ProperTree(doc.bodies)
<1>1. /\ doc.defaultClasses \in Seq(Pool["defaultClasses"])
      /\ doc.bodies \in Seq(Pool["bodies"])
  BY ListedSections
<1>2. TreeValid(Range(doc.defaultClasses)) /\ TreeValid(Range(doc.bodies))
  BY DEF Valid, ClassesValid, BodiesValid, Items
<1>3. "bodies" \in Range(Pooled)
  BY PooledHas
<1>4. \A x \in Range(doc.defaultClasses) \cup Range(doc.bodies) : Given(x, "id")
  BY <1>3 DEF Valid, Named, Items
<1>5. \A j, k \in DOMAIN doc.defaultClasses :
          j # k => Value(doc.defaultClasses[j], "id") # Value(doc.defaultClasses[k], "id")
  <2>1. Distinct(Field(doc.defaultClasses, "id"))
    BY DEF Valid, ClassesValid
  <2> QED  BY <1>4, <2>1 DEF Distinct, Field, Given, Range
<1>6. \A j, k \in DOMAIN doc.bodies :
          j # k => Value(doc.bodies[j], "id") # Value(doc.bodies[k], "id")
  <2>1. \A j, k \in DOMAIN doc["bodies"] : j # k => Unlike(doc["bodies"][j], doc["bodies"][k])
    BY <1>3, IdsDiffer DEF Valid
  <2> QED  BY <1>4, <2>1 DEF Unlike, Given, Range
<1> QED  BY <1>1, <1>2, <1>4, <1>5, <1>6 DEF ProperTree

\* Items of a tree are the same if their ids are.
LEMMA SameId ==
    ASSUME NEW items, ProperTree(items), NEW x \in Range(items), NEW y \in Range(items),
           Value(x, "id") = Value(y, "id")
    PROVE  x = y
BY DEF ProperTree, Range

\* The default classes.
LEMMA DefaultsPiece ==
    ASSUME NEW doc, InSections(doc), Valid(doc), NEW X, OnlyClashes(X)
    PROVE  Piece(Defaults(doc), {"class"}, X)
<1> DEFINE items == doc.defaultClasses
           S == Range(items)
           Class(class) ==
            [Element("class", class.id, Refs("material", class, {"material"}))
                 EXCEPT !.in = Value(class, "parent")]
           all == Below(items)[""]
           s == [k \in DOMAIN all |-> Class(all[k])]
<1>1. items \in Seq(Pool["defaultClasses"]) /\ ProperTree(items)
  BY Trees
<1>2. all \in Seq(S) /\ Apart(all, Same(S))
  BY <1>1, TreeLists
<1>3. \A x \in S : x.id = Value(x, "id")
  BY <1>1 DEF ProperTree, Given, Value, ValueOr
<1>4. \A x : Class(x).ns = "class" /\ Class(x).name = x.id
  BY DEF Element
<1>5. Defaults(doc) = s
  BY DEF Defaults, Each
<1>6. s = [k \in DOMAIN all |-> s[k]] /\ \A k \in DOMAIN all : s[k] = Class(all[k])
  OBVIOUS
<1> HIDE DEF all, s, S, Class, items
<1>7. IsList(s) /\ DOMAIN s = DOMAIN all
  BY <1>2, <1>6, SequencesAreLists, MappedList
<1>8. ASSUME NEW j \in DOMAIN s, NEW k \in DOMAIN s, j # k, Clash(s[j], s[k])  PROVE FALSE
  <2>1. all[j] \in S /\ all[k] \in S
    BY <1>2, <1>7
  <2>2. Value(all[j], "id") = Value(all[k], "id")
    <3>1. s[j].name = s[k].name
      BY <1>8 DEF Clash
    <3>2. s[j].name = all[j].id /\ s[k].name = all[k].id
      BY <1>4, <1>6, <1>7, <1>8
    <3> QED  BY <1>3, <2>1, <3>1, <3>2
  <2>3. all[j] = all[k]
    BY <1>1, <2>1, <2>2, SameId DEF S
  <2> QED  BY <1>2, <1>7, <1>8, <2>1, <2>3 DEF Apart, Same
<1>9. \A k \in DOMAIN s : s[k].ns = "class"
  BY <1>4, <1>6, <1>7
<1>10. Piece(s, {"class"}, X)
  BY <1>7, <1>8, <1>9, PieceMapped
<1> QED  BY <1>5, <1>10

\* The plugin instances.
LEMMA ExtensionPiece ==
    ASSUME NEW doc, InSections(doc), Valid(doc), NEW X, OnlyClashes(X)
    PROVE  Piece(Extension(doc), {"plugin"}, X)
<1> DEFINE items == doc["plugins"]
           seqs == [k \in DOMAIN items |->
                       When(Given(items[k], "plugin"), Element("plugin", items[k].id, {}))]
<1>0. "plugins" \in Range(Pooled)
  BY PooledHas
<1>1. \A k \in DOMAIN items : items[k].id = Value(items[k], "id")
  BY <1>0, ItemsNamed
<1>2. ASSUME NEW k \in DOMAIN items
      PROVE  /\ Piece(seqs[k], {"plugin"}, X)
             /\ \A e \in Range(seqs[k]) : e.name = Value(items[k], "id")
  <2> DEFINE e == Element("plugin", items[k].id, {})
             c == Given(items[k], "plugin")
  <2>1. e.ns = "plugin" /\ e.name = Value(items[k], "id")
    BY <1>1 DEF Element
  <2>2. c \in BOOLEAN
    BY DEF Given
  <2>3. seqs[k] = When(c, e)
    OBVIOUS
  <2> HIDE DEF e, c, seqs, items
  <2>4. Piece(When(c, e), {"plugin"}, X) /\ \A f \in Range(When(c, e)) : f = e
    BY <2>1, <2>2, PieceWhen, WhenRange
  <2> QED  BY <2>1, <2>3, <2>4
<1>3. FewPerItem(seqs, items, "plugin", X)
  BY <1>2 DEF FewPerItem
<1>4. Extension(doc) = FlattenSeq(seqs)
  BY DEF Extension, Each
<1> HIDE DEF seqs
<1>5. Piece(FlattenSeq(seqs), {"plugin"}, X)
  BY <1>0, <1>3, SectionFlatten
<1> QED  BY <1>4, <1>5

\* The assets of one kind.
LEMMA KindPiece ==
    ASSUME NEW doc, InSections(doc), Valid(doc), NEW X, OnlyClashes(X), NEW kind, kind # ""
    PROVE  /\ Piece(OfKind(doc, kind), {kind}, X)
           /\ \A e \in Range(OfKind(doc, kind)) : e.name \notin Reserved
<1> DEFINE items == doc["assets"]
           seqs == [k \in DOMAIN items |->
                       When(Value(items[k], "kind") = kind, AssetDeclaration(items[k]))]
<1>0. "assets" \in Range(Pooled)
  BY PooledHas
<1>1. \A k \in DOMAIN items : items[k].id = Value(items[k], "id")
  BY <1>0, ItemsNamed
<1>2. ASSUME NEW k \in DOMAIN items
      PROVE  /\ Piece(seqs[k], {kind}, X)
             /\ \A e \in Range(seqs[k]) : e.name = Value(items[k], "id")
  <2> DEFINE e == AssetDeclaration(items[k])
             c == Value(items[k], "kind") = kind
  <2>1. c => e.ns = kind
    BY <1>1 DEF AssetDeclaration, Element, Value, ValueOr
  <2>2. e.name = Value(items[k], "id")
    BY <1>1 DEF AssetDeclaration, Element
  <2>3. seqs[k] = When(c, e) /\ c \in BOOLEAN
    OBVIOUS
  <2> HIDE DEF e, c, seqs, items
  <2>4. Range(When(c, e)) = IF c THEN {e} ELSE {}
    BY <2>3, WhenRange
  <2>5. Piece(When(c, e), {kind}, X)
    BY <2>1, <2>3, <2>4, PieceWhen DEF Piece
  <2> QED  BY <2>2, <2>3, <2>4, <2>5
<1>3. FewPerItem(seqs, items, kind, X)
  BY <1>2 DEF FewPerItem
<1>4. OfKind(doc, kind) = FlattenSeq(seqs)
  BY DEF OfKind, Each
<1>5. \A x \in Items(doc, "assets") : Value(x, "id") \notin Reserved
  <2>1. \A k \in DOMAIN items : items[k].id \notin Reserved
    BY DEF Valid, AssetsValid, Items, Range
  <2> QED  BY <1>1, <2>1 DEF Items, Range
<1> HIDE DEF seqs
<1>6. Piece(FlattenSeq(seqs), {kind}, X)
  BY <1>0, <1>3, SectionFlatten
<1>7. CalledLike(FlattenSeq(seqs), Items(doc, "assets"))
  BY <1>0, <1>3, SectionFlatten
<1> QED  BY <1>4, <1>5, <1>6, <1>7 DEF CalledLike

\* The assets of the environment.
LEMMA EnvironmentPiece ==
    ASSUME NEW doc, NEW X, OnlyClashes(X)
    PROVE  /\ Piece(EnvAssets(doc), {"texture", "material"}, X)
           /\ \A e \in Range(EnvAssets(doc)) : e.name \in Reserved
<1> DEFINE sky == Derived("texture", "scene_skybox", {})
           tex == Derived("texture", "scene_ground_tex", {})
           refs == IF Checker(doc) THEN {<<"texture", "scene_ground_tex">>} ELSE {}
           mat == Derived("material", "scene_ground_mat", refs)
           skies == When(Skybox(doc), sky)
           texes == When(Checker(doc), tex)
           mats == When(GroundMaterial(doc), mat)
<1>1. /\ sky.ns = "texture" /\ sky.name = "scene_skybox"
      /\ tex.ns = "texture" /\ tex.name = "scene_ground_tex"
      /\ mat.ns = "material" /\ mat.name = "scene_ground_mat"
  BY DEF Derived, Element
<1>2. Skybox(doc) \in BOOLEAN /\ Checker(doc) \in BOOLEAN /\ GroundMaterial(doc) \in BOOLEAN
  BY DEF Skybox, Checker, GroundMaterial, Ground
<1>3. EnvAssets(doc) = skies \o texes \o mats
  BY DEF EnvAssets
<1> HIDE DEF sky, tex, mat, refs
<1>4. /\ Range(skies) \subseteq {sky} /\ Range(texes) \subseteq {tex} /\ Range(mats) \subseteq {mat}
      /\ IsList(skies) /\ IsList(texes) /\ IsList(mats)
  <2>1. /\ Range(skies) = IF Skybox(doc) THEN {sky} ELSE {}
        /\ Range(texes) = IF Checker(doc) THEN {tex} ELSE {}
        /\ Range(mats) = IF GroundMaterial(doc) THEN {mat} ELSE {}
        /\ IsList(skies) /\ IsList(texes) /\ IsList(mats)
    BY <1>2, WhenRange
  <2> QED  BY <2>1
<1>5. Piece(skies, {"texture"}, X) /\ Piece(texes, {"texture"}, X) /\ Piece(mats, {"material"}, X)
  BY <1>1, <1>2, PieceWhen
<1> HIDE DEF skies, texes, mats
<1>6. ~Clash(sky, tex)
  BY <1>1 DEF Clash
<1>7. Piece(skies \o texes, {"texture"} \cup {"texture"}, X)
  BY <1>4, <1>5, <1>6, PieceConcat
<1>8. Piece(skies \o texes, {"texture"}, X)
  BY <1>7
<1>9. Piece(skies \o texes \o mats, {"texture"} \cup {"material"}, X)
  BY <1>5, <1>8, PieceThen
<1>10. {"texture"} \cup {"material"} = {"texture", "material"}
  OBVIOUS
<1>11. Range(skies \o texes \o mats) = Range(skies) \cup Range(texes) \cup Range(mats)
  BY <1>4, NamesConcat
<1> QED  BY <1>1, <1>3, <1>4, <1>9, <1>10, <1>11, NamesAssumption

\* All assets: those of a scene are called like none of the environment.
LEMMA AssetsPiece ==
    ASSUME NEW doc, InSections(doc), Valid(doc), NEW X, OnlyClashes(X)
    PROVE  Piece(Assets(doc), {"texture", "material", "mesh", "hfield", "model"}, X)
<1> DEFINE T == OfKind(doc, "texture")
           M == OfKind(doc, "material")
           E == OfKind(doc, "mesh")
           H == OfKind(doc, "hfield")
           items == doc.models
           env == EnvAssets(doc)
           models == [k \in DOMAIN items |-> Derived("model", "scene_model_" \o items[k].id, {})]
<1>1. /\ UserAssets(doc) = T \o M \o E \o H
      /\ Assets(doc) = env \o UserAssets(doc) \o models
  BY DEF UserAssets, OfKind, Assets, Each
<1>2. /\ Piece(T, {"texture"}, X) /\ Piece(M, {"material"}, X)
      /\ Piece(E, {"mesh"}, X) /\ Piece(H, {"hfield"}, X)
      /\ \A e \in Range(T) \cup Range(M) \cup Range(E) \cup Range(H) : e.name \notin Reserved
  BY KindPiece
<1>3. Piece(models, {"model"}, X)
  <2>0. "models" \in Range(Pooled)
    BY PooledHas
  <2>1. items \in Seq(Pool["models"]) /\ IsList(items)
    BY ListedSections
  <2>2. \A k \in DOMAIN items : items[k].id = Value(items[k], "id") /\ items[k].id # ""
    BY <2>0, ItemsNamed
  <2>3. \A j, k \in DOMAIN items : j # k => Unlike(items[j], items[k])
    BY <2>0, IdsDiffer DEF Valid
  <2>4. \A k \in DOMAIN items : items[k] \in Pool["models"]
    BY <2>1
  <2>5. /\ models = [k \in DOMAIN items |-> models[k]]
        /\ \A k \in DOMAIN items : /\ models[k].ns = "model"
                                   /\ models[k].name = "scene_model_" \o items[k].id
    BY DEF Derived, Element
  <2> HIDE DEF models, items
  <2>6. IsList(models) /\ DOMAIN models = DOMAIN items
    BY <2>1, <2>5, MappedList
  <2>7. ASSUME NEW j \in DOMAIN models, NEW k \in DOMAIN models, j # k
        PROVE  ~Clash(models[j], models[k])
    <3>1. Value(items[j], "id") # Value(items[k], "id")
      BY <2>2, <2>3, <2>6, <2>7 DEF Unlike
    <3>2. "scene_model_" \o Value(items[j], "id") # "scene_model_" \o Value(items[k], "id")
      BY <2>4, <2>6, <3>1, NamesAssumption
    <3>3. models[j].name # models[k].name
      BY <2>2, <2>5, <2>6, <3>2
    <3> QED  BY <3>3 DEF Clash
  <2> QED  BY <2>5, <2>6, <2>7, PieceMapped
<1>4. Piece(env, {"texture", "material"}, X) /\ \A e \in Range(env) : e.name \in Reserved
  BY EnvironmentPiece
<1> HIDE DEF T, M, E, H, models, items, env
<1> DEFINE user == T \o M \o E \o H
           spaces == {"texture"} \cup {"material"} \cup {"mesh"} \cup {"hfield"}
<1>5. Piece(user, spaces, X) /\ \A e \in Range(user) : e.name \notin Reserved
  <2>1. Piece(T \o M, {"texture"} \cup {"material"}, X)
    BY <1>2, PieceThen
  <2>2. Piece(T \o M \o E, {"texture"} \cup {"material"} \cup {"mesh"}, X)
    BY <1>2, <2>1, PieceThen
  <2>3. Piece(T \o M \o E \o H, {"texture"} \cup {"material"} \cup {"mesh"} \cup {"hfield"}, X)
    BY <1>2, <2>2, PieceThen
  <2>4. /\ Range(T \o M) = Range(T) \cup Range(M)
        /\ Range(T \o M \o E) = Range(T \o M) \cup Range(E)
        /\ Range(T \o M \o E \o H) = Range(T \o M \o E) \cup Range(H)
    BY <1>2, <2>1, <2>2, NamesConcat DEF Piece
  <2> QED  BY <1>2, <2>3, <2>4
<1> HIDE DEF user, spaces
<1>6. Piece(env \o user, {"texture", "material"} \cup spaces, X)
  <2>1. \A a \in Range(env), b \in Range(user) : ~Clash(a, b)
    BY <1>4, <1>5 DEF Clash
  <2> QED  BY <1>4, <1>5, <2>1, PieceConcat
<1>7. Piece(env \o user \o models, {"texture", "material"} \cup spaces \cup {"model"}, X)
  <2>1. ({"texture", "material"} \cup spaces) \cap {"model"} = {}
    BY DEF spaces
  <2> QED  BY <1>3, <1>6, <2>1, PieceThen
<1>8. {"texture", "material"} \cup spaces \cup {"model"}
          = {"texture", "material", "mesh", "hfield", "model"}
  BY DEF spaces
<1> QED  BY <1>1, <1>7, <1>8 DEF user

\* The sensors, from whichever section.
LEMMA SensorsPiece ==
    ASSUME NEW doc, InSections(doc), Valid(doc), NEW X, OnlyClashes(X)
    PROVE  Piece(Sensors(doc), {"sensor"}, X)
<1> DEFINE seqs == [k \in DOMAIN doc["objects"] |->
                       When(IsSensor(doc["objects"][k]), SensorObject(doc["objects"][k]))]
           s == [k \in DOMAIN doc["sensors"] |-> SensorObject(doc["sensors"][k])]
<1>0. \A section \in {"objects", "sensors"} : section \in Range(Pooled) /\ section # "pairs"
  BY PooledHas
<1>1. \A section \in {"objects", "sensors"} : \A k \in DOMAIN doc[section] :
          doc[section][k].id = Value(doc[section][k], "id")
  BY <1>0, ItemsNamed
<1>2. \A x : SensorObject(x).ns = "sensor" /\ SensorObject(x).name = x.id
  BY DEF SensorObject, Element
<1>3. ASSUME NEW k \in DOMAIN doc["objects"]
      PROVE  /\ Piece(seqs[k], {"sensor"}, X)
             /\ \A e \in Range(seqs[k]) : e.name = Value(doc["objects"][k], "id")
  <2> DEFINE x == doc["objects"][k]
             e == SensorObject(x)
             c == IsSensor(x)
  <2>1. e.ns = "sensor" /\ e.name = Value(x, "id")
    BY <1>1, <1>2
  <2>2. c \in BOOLEAN /\ seqs[k] = When(c, e)
    BY DEF IsSensor
  <2> HIDE DEF x, e, c, seqs
  <2>3. Piece(When(c, e), {"sensor"}, X) /\ \A f \in Range(When(c, e)) : f = e
    BY <2>1, <2>2, PieceWhen, WhenRange
  <2> QED  BY <2>1, <2>2, <2>3 DEF x
<1>4. FewPerItem(seqs, doc["objects"], "sensor", X)
  BY <1>3 DEF FewPerItem
<1>5. OnePerItem(s, doc["sensors"], "sensor")
  <2> HIDE DEF s
  <2>1. s = [k \in DOMAIN doc["sensors"] |-> s[k]]
        /\ \A k \in DOMAIN doc["sensors"] : s[k] = SensorObject(doc["sensors"][k])
    BY DEF s
  <2> QED  BY <1>1, <1>2, <2>1 DEF OnePerItem
<1>6. Sensors(doc) = FlattenSeq(seqs) \o s
  BY DEF Sensors, Each
<1> HIDE DEF seqs, s
<1> DEFINE t == FlattenSeq(seqs)
<1>7. Piece(t, {"sensor"}, X)
  BY <1>0, <1>4, SectionFlatten
<1>a. CalledLike(t, Items(doc, "objects"))
  BY <1>0, <1>4, SectionFlatten
<1>8. Piece(s, {"sensor"}, X)
  BY <1>0, <1>5, SectionPiece
<1>9. \A e \in Range(s) : \E x \in Items(doc, "sensors") : e.name = Value(x, "id")
  BY <1>5 DEF OnePerItem, Range, Items
<1>10. \A x \in Items(doc, "objects"), y \in Items(doc, "sensors") : Unlike(x, y)
  BY <1>0, IdsDiffer DEF Valid
<1> HIDE DEF t
<1>11. \A e \in Range(t), f \in Range(s) : ~Clash(e, f)
  BY <1>a, <1>9, <1>10 DEF Unlike, Clash, CalledLike
<1>12. Piece(t \o s, {"sensor"} \cup {"sensor"}, X)
  BY <1>7, <1>8, <1>11, PieceConcat
<1> QED  BY <1>6, <1>12 DEF t

\* A list whose elements only differ from those of a part in where they are.
LEMMA PieceMoved ==
    ASSUME NEW X, OnlyClashes(X), NEW s, NEW spaces,
           Piece(s, spaces, {p \in Range(s) \X Range(s) : Clash(p[1], p[2])}),
           NEW t, t = [k \in DOMAIN s |-> t[k]],
           \A k \in DOMAIN s : /\ t[k].ns = s[k].ns /\ t[k].name = s[k].name
                               /\ t[k].derived = s[k].derived
    PROVE  Piece(t, spaces, X)
<1>1. \A j, k \in DOMAIN s : j # k => ~Clash(s[j], s[k])
  <2> SUFFICES ASSUME NEW j \in DOMAIN s, NEW k \in DOMAIN s, j # k, Clash(s[j], s[k])
               PROVE  FALSE
    OBVIOUS
  <2>1. s[j] \in Range(s) /\ s[k] \in Range(s)
    BY DEF Range
  <2>2. <<s[j], s[k]>> \in {p \in Range(s) \X Range(s) : Clash(p[1], p[2])}
    BY <2>1
  <2> QED  BY <2>2 DEF Piece, Apart
<1>2. IsList(t) /\ DOMAIN t = DOMAIN s
  BY MappedList DEF Piece
<1>3. \A j, k \in DOMAIN s : j # k => ~Clash(t[j], t[k])
  BY <1>1 DEF Clash
<1>4. Apart(t, X)
  BY <1>2, <1>3 DEF Apart, OnlyClashes
<1>5. \A k \in DOMAIN s : s[k].ns \in spaces
  BY DEF Piece, Range
<1> QED  BY <1>2, <1>4, <1>5 DEF Piece, Range

\* The parts of one kind of a body.
LEMMA PartPiece ==
    ASSUME NEW doc, InSections(doc), Valid(doc), NEW X, OnlyClashes(X),
           NEW b \in Items(doc, "bodies"),
           NEW part \in {"joints", "geoms", "sites", "cameras"}, NEW ns,
           NEW s, OnePerItem(s, ValueOr(b, part, <<>>), ns)
    PROVE  Piece(s, {ns}, X) /\ CalledLike(s, Inner(b, part))
<1> DEFINE items == ValueOr(b, part, <<>>)
<1>1. PICK i \in DOMAIN doc.bodies : b = doc.bodies[i]
  BY DEF Items, Range
<1>2. IsList(items)
  <2>1. b \in Pool["bodies"]
    BY ListedSections DEF Items, Range
  <2> QED  BY <2>1, PoolAssumption
<1>3. \A j, k \in DOMAIN items : j # k => Unlike(items[j], items[k])
  BY <1>1, IdsDiffer DEF Valid
<1>4. Inner(b, part) = Range(items)
  BY DEF Inner
<1>5. OnePerItem(s, items, ns)
  OBVIOUS
<1> HIDE DEF items
<1>6. s = [k \in DOMAIN items |-> s[k]]
      /\ \A k \in DOMAIN items : s[k].ns = ns /\ s[k].name = Value(items[k], "id")
  BY <1>5 DEF OnePerItem
<1>7. IsList(s) /\ DOMAIN s = DOMAIN items
  BY <1>2, <1>6, MappedList
<1>8. ASSUME NEW j \in DOMAIN items, NEW k \in DOMAIN items, j # k
      PROVE  ~Clash(s[j], s[k])
  <2> SUFFICES ASSUME s[j].name = s[k].name, s[j].name # ""  PROVE FALSE
    BY DEF Clash
  <2>1. s[j].name = Value(items[j], "id") /\ s[k].name = Value(items[k], "id")
    BY <1>6
  <2> QED  BY <1>3, <1>8, <2>1 DEF Unlike
<1>9. CalledLike(s, Inner(b, part))
  BY <1>4, <1>6, <1>7 DEF CalledLike, Range
<1> QED  BY <1>6, <1>7, <1>8, <1>9, PieceMapped

\* The kinds of parts of a body, and the lists they are in.
BodyParts == {<<"joint", "joints">>, <<"geom", "geoms">>, <<"site", "sites">>,
              <<"camera", "cameras">>}

\* An element that is the body or one of its parts.
PartOf(e, b) ==
    \E p \in BodyParts : e.ns = p[1] /\ \E x \in Inner(b, p[2]) : e.name = Value(x, "id")
OfBody(e, b) ==
    /\ ~e.derived
    /\ (e.ns = "body" /\ e.name = Value(b, "id")) \/ PartOf(e, b)

\* What is written of a body.
LEMMA NodePiece ==
    ASSUME NEW doc, InSections(doc), Valid(doc), NEW X, OnlyClashes(X),
           NEW b \in Items(doc, "bodies"), NEW copied
    PROVE  \E head, inside :
               /\ BodyNode(b, copied) = <<head>> \o inside
               /\ Piece(inside, {"joint", "geom", "site", "camera"}, X)
               /\ \A e \in Range(inside) : ~e.derived /\ PartOf(e, b)
               /\ head.ns = "body" /\ head.name = Value(b, "id") /\ ~head.derived
               /\ head.in = Value(b, "parent")
<1> DEFINE joints == ValueOr(b, "joints", <<>>)
           geoms == ValueOr(b, "geoms", <<>>)
           sites == ValueOr(b, "sites", <<>>)
           cameras == ValueOr(b, "cameras", <<>>)
           J == Each(joints, Joint)
           G == Each(geoms, Geom)
           T == Each(sites, Site)
           C == Each(cameras, Camera)
           parts == J \o G \o T \o C
           head == [Element("body", b.id, Refs("class", b, {"childclass"}))
                        EXCEPT !.in = Value(b, "parent"), !.copied = copied]
           inside == [k \in DOMAIN parts |->
                         [parts[k] EXCEPT !.in = b.id, !.copied = copied]]
           Z == {p \in Range(parts) \X Range(parts) : Clash(p[1], p[2])}
<1>1. BodyNode(b, copied) = <<head>> \o inside
  BY DEF BodyNode
<1>2. b.id = Value(b, "id")
  <2>1. PICK i \in DOMAIN doc.bodies : b = doc.bodies[i]
    BY DEF Items, Range
  <2>2. "bodies" \in Range(Pooled)
    BY PooledHas
  <2>3. \A k \in DOMAIN doc["bodies"] : doc["bodies"][k].id = Value(doc["bodies"][k], "id")
    BY <2>2, ItemsNamed
  <2> QED  BY <2>1, <2>3
<1>3. head.ns = "body" /\ head.name = Value(b, "id") /\ head.derived = FALSE
      /\ head.in = Value(b, "parent")
  BY <1>2 DEF Element
<1>4. \A part \in {"joints", "geoms", "sites", "cameras"} : \A x \in Inner(b, part) :
          x.id = Value(x, "id")
  <2>1. \A part \in {"joints", "geoms", "sites", "cameras"} : \A x \in Inner(b, part) :
            Given(x, "id")
    BY DEF Valid, BodiesValid
  <2> QED  BY <2>1 DEF Given, Value, ValueOr
<1>5. /\ OnePerItem(J, joints, "joint") /\ OnePerItem(G, geoms, "geom")
      /\ OnePerItem(T, sites, "site") /\ OnePerItem(C, cameras, "camera")
  <2>1. /\ \A k \in DOMAIN joints : joints[k].id = Value(joints[k], "id")
        /\ \A k \in DOMAIN geoms : geoms[k].id = Value(geoms[k], "id")
        /\ \A k \in DOMAIN sites : sites[k].id = Value(sites[k], "id")
        /\ \A k \in DOMAIN cameras : cameras[k].id = Value(cameras[k], "id")
    BY <1>4 DEF Inner, Range
  <2> HIDE DEF joints, geoms, sites, cameras
  <2>2. OnePerItem(J, joints, "joint")
    BY <2>1 DEF OnePerItem, Each, Joint, Element
  <2>3. OnePerItem(G, geoms, "geom")
    BY <2>1 DEF OnePerItem, Each, Geom, Element
  <2>4. OnePerItem(T, sites, "site")
    BY <2>1 DEF OnePerItem, Each, Site, Element
  <2>5. OnePerItem(C, cameras, "camera")
    BY <2>1 DEF OnePerItem, Each, Camera, Element
  <2> QED  BY <2>2, <2>3, <2>4, <2>5
<1> DEFINE New(e) == e.derived = FALSE /\ {"ns", "name", "derived"} \subseteq DOMAIN e
<1>6. /\ \A k \in DOMAIN J : New(J[k])
      /\ \A k \in DOMAIN G : New(G[k])
      /\ \A k \in DOMAIN T : New(T[k])
      /\ \A k \in DOMAIN C : New(C[k])
  <2>1. \A ns, name, refs : New(Element(ns, name, refs))
    BY DEF Element
  <2> HIDE DEF joints, geoms, sites, cameras, New
  <2> QED  BY <2>1 DEF Each, Joint, Geom, Site, Camera
<1>z. OnlyClashes(Z)
  BY DEF OnlyClashes
<1>7. /\ Piece(J, {"joint"}, Z) /\ CalledLike(J, Inner(b, "joints"))
      /\ Piece(G, {"geom"}, Z) /\ CalledLike(G, Inner(b, "geoms"))
      /\ Piece(T, {"site"}, Z) /\ CalledLike(T, Inner(b, "sites"))
      /\ Piece(C, {"camera"}, Z) /\ CalledLike(C, Inner(b, "cameras"))
  <2> HIDE DEF J, G, T, C, Z
  <2> QED  BY <1>5, <1>z, PartPiece
<1> DEFINE Own(e) == New(e) /\ PartOf(e, b)
<1>8. /\ \A e \in Range(J) : Own(e)
      /\ \A e \in Range(G) : Own(e)
      /\ \A e \in Range(T) : Own(e)
      /\ \A e \in Range(C) : Own(e)
  <2> HIDE DEF J, G, T, C, Z, New
  <2>1. \A e \in Range(J) \cup Range(G) \cup Range(T) \cup Range(C) : New(e)
    BY <1>6 DEF Range
  <2>2. /\ \A e \in Range(J) : e.ns = "joint" /\ \E x \in Inner(b, "joints") : e.name = Value(x, "id")
        /\ \A e \in Range(G) : e.ns = "geom" /\ \E x \in Inner(b, "geoms") : e.name = Value(x, "id")
        /\ \A e \in Range(T) : e.ns = "site" /\ \E x \in Inner(b, "sites") : e.name = Value(x, "id")
        /\ \A e \in Range(C) : e.ns = "camera" /\ \E x \in Inner(b, "cameras") : e.name = Value(x, "id")
    BY <1>7 DEF Piece, CalledLike
  <2> QED  BY <2>1, <2>2 DEF PartOf, BodyParts
<1> HIDE DEF J, G, T, C, Z, head
<1>9. Piece(J \o G \o T \o C, {"joint"} \cup {"geom"} \cup {"site"} \cup {"camera"}, Z)
  <2>1. Piece(J \o G, {"joint"} \cup {"geom"}, Z)
    BY <1>7, <1>z, PieceThen
  <2>2. Piece(J \o G \o T, {"joint"} \cup {"geom"} \cup {"site"}, Z)
    BY <1>7, <1>z, <2>1, PieceThen
  <2> QED  BY <1>7, <1>z, <2>2, PieceThen
<1>10. {"joint"} \cup {"geom"} \cup {"site"} \cup {"camera"} = {"joint", "geom", "site", "camera"}
  OBVIOUS
<1>11. Piece(parts, {"joint", "geom", "site", "camera"}, Z)
  BY <1>9, <1>10
<1>12. \A e \in Range(parts) : Own(e)
  <2>1. Range(J \o G \o T \o C) = Range(J) \cup Range(G) \cup Range(T) \cup Range(C)
    <3>1. IsList(J) /\ IsList(G) /\ IsList(T) /\ IsList(C)
      BY <1>7 DEF Piece
    <3>2. IsList(J \o G) /\ Range(J \o G) = Range(J) \cup Range(G)
      BY <3>1, NamesConcat
    <3>3. IsList(J \o G \o T) /\ Range(J \o G \o T) = Range(J \o G) \cup Range(T)
      BY <3>1, <3>2, NamesConcat
    <3> QED  BY <3>1, <3>2, <3>3, NamesConcat
  <2> QED  BY <1>8, <2>1
<1> HIDE DEF Own
<1>13. \A k \in DOMAIN parts : /\ inside[k].ns = parts[k].ns
                               /\ inside[k].name = parts[k].name
                               /\ inside[k].derived = parts[k].derived
  <2>1. \A k \in DOMAIN parts : {"ns", "name", "derived"} \subseteq DOMAIN parts[k]
    <3> HIDE DEF parts
    <3> QED  BY <1>12 DEF Own, New, Range
  <2> HIDE DEF parts
  <2> QED  BY <2>1
<1>14. inside = [k \in DOMAIN parts |-> inside[k]]
  OBVIOUS
<1> HIDE DEF inside, parts
<1>15. Piece(inside, {"joint", "geom", "site", "camera"}, X)
  BY <1>11, <1>13, <1>14, PieceMoved DEF Z
<1>16. \A e \in Range(inside) : ~e.derived /\ PartOf(e, b)
  <2>1. DOMAIN inside = DOMAIN parts
    BY <1>14
  <2> QED  BY <1>12, <1>13, <2>1 DEF Range, Own, New, PartOf
<1> QED  BY <1>1, <1>3, <1>15, <1>16

-----------------------------------------------------------------------------
(* EmittedOnce: bodies and classes inside what has been written before *)

\* Inside what an element may be: nothing, or an element of its kind.  The set
\* holds what is written, which the relation needs to be one.
Rest(U) == {e \in U : e.ns \notin {"body", "class"} \/ e.in = ""}
Insides(U) == {p \in U \X U : p[1].ns = p[2].ns /\ p[1].name = p[2].in}

\* A list whose bodies and classes are inside what has been written before.
Nested(s, U) == Follows(s, Insides(U), Rest(U))

\* What is nested may follow each other.
LEMMA NestedConcat ==
    ASSUME NEW U, NEW s, IsList(s), Nested(s, U), NEW t, IsList(t), Nested(t, U)
    PROVE  Nested(s \o t, U)
<1>1. Follows(t, Insides(U), Rest(U) \cup After(Insides(U), Range(s)))
  BY FollowsMore DEF Nested
<1> QED  BY <1>1, FollowsConcat DEF Nested

\* and so may many.
LEMMA NestedFlatten ==
    ASSUME NEW U, NEW seqs, IsList(seqs), \A k \in DOMAIN seqs : IsList(seqs[k]),
           \A k \in DOMAIN seqs : Nested(seqs[k], U)
    PROVE  Nested(FlattenSeq(seqs), U)
<1>1. PICK S : seqs \in Seq(Seq(S))
  BY FlattenParts
<1>2. \A k \in DOMAIN seqs :
          Follows(seqs[k], Insides(U), Rest(U) \cup After(Insides(U), Earlier(seqs, k)))
  BY FollowsMore DEF Nested
<1> QED  BY <1>1, <1>2, FollowsFlatten DEF Nested

\* Elements of bodies, with an element for each body.
BodySpaces == {"body", "joint", "geom", "site", "camera"}
OfBodies(s, B) == \A e \in Range(s) : \E b \in B : OfBody(e, b)
Headed(s, B) ==
    \A b \in B : \E e \in Range(s) : /\ e.ns = "body" /\ e.name = Value(b, "id")
                                     /\ e.in = Value(b, "parent")

\* What is written of a body, as a whole.
LEMMA NodeWhole ==
    ASSUME NEW doc, InSections(doc), Valid(doc), NEW X, OnlyClashes(X),
           NEW b \in Items(doc, "bodies"), NEW copied
    PROVE  /\ Piece(BodyNode(b, copied), BodySpaces, X)
           /\ \A e \in Range(BodyNode(b, copied)) : OfBody(e, b)
           /\ \E head \in Range(BodyNode(b, copied)) :
                  /\ head.ns = "body" /\ head.name = Value(b, "id")
                  /\ head.in = Value(b, "parent")
                  /\ \A U, free :
                         /\ Range(BodyNode(b, copied)) \subseteq U
                         /\ Rest(U) \subseteq free /\ head \in free
                         => Follows(BodyNode(b, copied), Insides(U), free)
<1> DEFINE s == BodyNode(b, copied)
<1>1. PICK head, inside :
               /\ s = <<head>> \o inside
               /\ Piece(inside, {"joint", "geom", "site", "camera"}, X)
               /\ \A e \in Range(inside) : ~e.derived /\ PartOf(e, b)
               /\ head.ns = "body" /\ head.name = Value(b, "id") /\ ~head.derived
               /\ head.in = Value(b, "parent")
  BY NodePiece
<1>2. IsList(<<head>>) /\ Range(<<head>>) = {head}
  <2> DEFINE S == {head}
  <2>1. head \in S
    OBVIOUS
  <2> HIDE DEF S
  <2>2. <<head>> \in Seq(S) /\ Range(<<head>>) = {head}
    BY <2>1, OneList
  <2> QED  BY <2>2, SequencesAreLists
<1>3. Piece(<<head>>, {"body"}, X)
  <2>1. Apart(<<head>>, X)
    <3> DEFINE free == {head}
    <3>1. head \in free
      OBVIOUS
    <3> HIDE DEF free
    <3> QED  BY <3>1, ShortLists
  <2> QED  BY <1>1, <1>2, <2>1 DEF Piece
<1> HIDE DEF s
<1> DEFINE one == <<head>>
<1>4. one = <<head>>
  OBVIOUS
<1> HIDE DEF one
<1>5. Piece(one \o inside, {"body"} \cup {"joint", "geom", "site", "camera"}, X)
  BY <1>1, <1>3, <1>4, PieceThen
<1>6. {"body"} \cup {"joint", "geom", "site", "camera"} = BodySpaces
  BY DEF BodySpaces
<1>7. Range(s) = {head} \cup Range(inside)
  BY <1>1, <1>2, <1>4, NamesConcat DEF Piece
<1>8. \A e \in Range(s) : OfBody(e, b)
  BY <1>1, <1>7 DEF OfBody
<1>9. ASSUME NEW U, NEW free, Range(s) \subseteq U, Rest(U) \subseteq free, head \in free
      PROVE  Follows(s, Insides(U), free)
  <2>1. \A e \in Range(inside) : e.ns \in {"joint", "geom", "site", "camera"}
    BY <1>1 DEF Piece
  <2>2. \A e \in Range(inside) : e \in Rest(U)
    BY <1>7, <1>9, <2>1 DEF Rest
  <2>3. Range(s) \subseteq free
    BY <1>7, <1>9, <2>2
  <2> QED  BY <2>3 DEF Follows, Range
<1> QED  BY <1>1, <1>4, <1>5, <1>6, <1>7, <1>8, <1>9 DEF s

\* Each kind of parts has a list of its own.
LEMMA PartKinds ==
    /\ \A p \in BodyParts :
           p[1] # "body" /\ p[2] \in {"joints", "geoms", "sites", "cameras"}
    /\ \A p, q \in BodyParts : p[1] = q[1] => p[2] = q[2]
<1> DEFINE j == <<"joint", "joints">>
           g == <<"geom", "geoms">>
           t == <<"site", "sites">>
           c == <<"camera", "cameras">>
<1>1. /\ j[1] = "joint" /\ j[2] = "joints" /\ g[1] = "geom" /\ g[2] = "geoms"
      /\ t[1] = "site" /\ t[2] = "sites" /\ c[1] = "camera" /\ c[2] = "cameras"
  OBVIOUS
<1>2. BodyParts = {j, g, t, c}
  BY DEF BodyParts
<1> HIDE DEF j, g, t, c
<1> QED  BY <1>1, <1>2

\* Elements of bodies that differ do not clash.
LEMMA BodiesApart ==
    ASSUME NEW doc, InSections(doc), Valid(doc),
           NEW b \in Items(doc, "bodies"), NEW c \in Items(doc, "bodies"), b # c,
           NEW e, OfBody(e, b), NEW f, OfBody(f, c)
    PROVE  ~Clash(e, f)
<1> SUFFICES ASSUME Clash(e, f)  PROVE FALSE
  OBVIOUS
<1>1. PICK i \in DOMAIN doc.bodies, j \in DOMAIN doc.bodies :
          b = doc.bodies[i] /\ c = doc.bodies[j]
  BY DEF Items, Range
<1>2. i # j /\ e.ns = f.ns /\ e.name = f.name /\ e.name # ""
  BY <1>1 DEF Clash
<1>3. CASE e.ns = "body"
  <2>1. Value(b, "id") = Value(c, "id")
    <3>1. ~PartOf(e, b) /\ ~PartOf(f, c)
      BY <1>2, <1>3, PartKinds DEF PartOf
    <3> QED  BY <1>2, <3>1 DEF OfBody
  <2>2. ProperTree(doc.bodies)
    BY Trees
  <2> QED  BY <2>1, <2>2, SameId DEF Items
<1>4. CASE e.ns # "body"
  <2>1. PICK p \in BodyParts : e.ns = p[1] /\ \E x \in Inner(b, p[2]) : e.name = Value(x, "id")
    BY <1>4 DEF OfBody, PartOf
  <2>2. PICK q \in BodyParts : f.ns = q[1] /\ \E x \in Inner(c, q[2]) : f.name = Value(x, "id")
    BY <1>2, <1>4 DEF OfBody, PartOf
  <2>3. p[2] = q[2] /\ p[2] \in {"joints", "geoms", "sites", "cameras"}
    BY <1>2, <2>1, <2>2, PartKinds
  <2>4. PICK x \in Inner(b, p[2]) : e.name = Value(x, "id")
    BY <2>1
  <2>5. PICK y \in Inner(c, p[2]) : f.name = Value(y, "id")
    BY <2>2, <2>3
  <2>6. Unlike(x, y)
    <3>1. \A part \in {"joints", "geoms", "sites", "cameras"} :
              \A k, l \in DOMAIN doc.bodies : k # l =>
                  \A z \in Inner(doc.bodies[k], part), w \in Inner(doc.bodies[l], part) :
                      Unlike(z, w)
      BY IdsDiffer DEF Valid
    <3> QED  BY <1>1, <1>2, <2>3, <2>4, <2>5, <3>1
  <2> QED  BY <1>2, <2>4, <2>5, <2>6 DEF Unlike
<1> QED  BY <1>3, <1>4

\* What a sequence has.
LEMMA ListHas ==
    ASSUME NEW S, NEW s \in Seq(S)
    PROVE  /\ IsList(s) /\ Len(s) \in Nat /\ DOMAIN s = 1..Len(s)
           /\ \A k \in DOMAIN s : s[k] \in S
BY SequencesAreLists

\* A place before another one is a place.
LEMMA PlacesBefore ==
    ASSUME NEW n \in Nat, NEW k \in 1..n, NEW j \in 1..(k - 1)
    PROVE  k \in Nat /\ j \in 1..n
OBVIOUS

\* What is written of bodies, one after the other.
NodesOf(seqs, descent, copied) ==
    seqs = [k \in DOMAIN descent |-> BodyNode(descent[k], copied)]

\* Of different bodies, parents first: no clash, and each inside its parent.
LEMMA NodesPiece ==
    ASSUME NEW doc, InSections(doc), Valid(doc), NEW X, OnlyClashes(X),
           NEW descent \in Seq(Items(doc, "bodies")),
           Apart(descent, Same(Items(doc, "bodies"))),
           Follows(descent, Parentage(Items(doc, "bodies")),
                   ChildrenOf(Items(doc, "bodies"), "")),
           NEW copied,
           NEW seqs, NodesOf(seqs, descent, copied)
    PROVE  /\ Piece(FlattenSeq(seqs), BodySpaces, X)
           /\ OfBodies(FlattenSeq(seqs), Range(descent))
           /\ Headed(FlattenSeq(seqs), Range(descent))
           /\ \A U : Range(FlattenSeq(seqs)) \subseteq U => Nested(FlattenSeq(seqs), U)
<1> DEFINE S == Items(doc, "bodies")
<1>1. /\ IsList(descent) /\ Len(descent) \in Nat /\ DOMAIN descent = 1..Len(descent)
      /\ \A k \in DOMAIN descent : descent[k] \in S
  BY ListHas
<1>2. DOMAIN seqs = DOMAIN descent /\ \A k \in DOMAIN descent : seqs[k] = BodyNode(descent[k], copied)
  BY DEF NodesOf
<1>3. IsList(seqs)
  <2>1. seqs = [k \in DOMAIN descent |-> seqs[k]]
    BY DEF NodesOf
  <2> QED  BY <1>1, <2>1, MappedList
<1>4. \A k \in DOMAIN seqs : /\ Piece(seqs[k], BodySpaces, X)
                             /\ \A e \in Range(seqs[k]) : OfBody(e, descent[k])
  <2> SUFFICES ASSUME NEW k \in DOMAIN seqs
               PROVE  /\ Piece(seqs[k], BodySpaces, X)
                      /\ \A e \in Range(seqs[k]) : OfBody(e, descent[k])
    OBVIOUS
  <2> DEFINE b == descent[k]
  <2>1. b \in S /\ seqs[k] = BodyNode(b, copied)
    BY <1>1, <1>2
  <2> HIDE DEF b
  <2>2. /\ Piece(BodyNode(b, copied), BodySpaces, X)
        /\ \A e \in Range(BodyNode(b, copied)) : OfBody(e, b)
    BY <2>1, NodeWhole
  <2> QED  BY <2>1, <2>2 DEF b
<1>h. ASSUME NEW k \in DOMAIN seqs
      PROVE  \E head \in Range(seqs[k]) :
                  /\ head.ns = "body" /\ head.name = Value(descent[k], "id")
                  /\ head.in = Value(descent[k], "parent")
                  /\ \A V, more :
                         Range(seqs[k]) \subseteq V /\ Rest(V) \subseteq more /\ head \in more
                         => Follows(seqs[k], Insides(V), more)
  <2> DEFINE b == descent[k]
  <2>1. b \in S /\ seqs[k] = BodyNode(b, copied)
    BY <1>1, <1>2
  <2> HIDE DEF b
  <2>2. \E head \in Range(BodyNode(b, copied)) :
            /\ head.ns = "body" /\ head.name = Value(b, "id")
            /\ head.in = Value(b, "parent")
            /\ \A V, more :
                   /\ Range(BodyNode(b, copied)) \subseteq V
                   /\ Rest(V) \subseteq more /\ head \in more
                   => Follows(BodyNode(b, copied), Insides(V), more)
    BY <2>1, NodeWhole
  <2> QED  BY <2>1, <2>2 DEF b
<1>5. ASSUME NEW j \in DOMAIN seqs, NEW k \in DOMAIN seqs, j # k
      PROVE  \A e \in Range(seqs[j]), f \in Range(seqs[k]) : ~Clash(e, f)
  <2>1. descent[j] # descent[k]
    BY <1>1, <1>2, <1>5 DEF Apart, Same
  <2> QED  BY <1>1, <1>2, <1>4, <2>1, BodiesApart
<1> DEFINE spaces == BodySpaces
           s == FlattenSeq(seqs)
<1>6. /\ Piece(s, spaces, X)
      /\ \A e \in Range(s) : \E k \in DOMAIN seqs : e \in Range(seqs[k])
  <2> HIDE DEF spaces
  <2>1. \A k \in DOMAIN seqs : Piece(seqs[k], spaces, X)
    BY <1>4 DEF spaces
  <2> QED  BY <1>3, <1>5, <2>1, PieceFlatten
<1>7. /\ \A k \in DOMAIN seqs : IsList(seqs[k])
      /\ Range(s) = UNION {Range(seqs[k]) : k \in DOMAIN seqs}
  <2>1. \A k \in DOMAIN seqs : IsList(seqs[k])
    BY <1>4 DEF Piece
  <2>2. Range(s) = UNION {Range(seqs[k]) : k \in DOMAIN seqs}
    BY <1>3, <2>1, FlattenParts
  <2> QED  BY <2>1, <2>2
<1> HIDE DEF s
<1>8. OfBodies(s, Range(descent))
  <2>1. \A k \in DOMAIN seqs : descent[k] \in Range(descent)
    BY <1>2 DEF Range
  <2> QED  BY <1>4, <1>6, <2>1 DEF OfBodies
<1>9. Headed(s, Range(descent))
  <2> SUFFICES ASSUME NEW k \in DOMAIN descent
               PROVE  \E e \in Range(s) : /\ e.ns = "body" /\ e.name = Value(descent[k], "id")
                                          /\ e.in = Value(descent[k], "parent")
    BY DEF Headed, Range
  <2>1. \E e \in Range(seqs[k]) : /\ e.ns = "body" /\ e.name = Value(descent[k], "id")
                                  /\ e.in = Value(descent[k], "parent")
    BY <1>2, <1>h
  <2> QED  BY <1>2, <1>7, <2>1
<1>10. ASSUME NEW U, Range(s) \subseteq U  PROVE Nested(s, U)
  <2>1. ASSUME NEW k \in DOMAIN seqs
        PROVE  Follows(seqs[k], Insides(U), Rest(U) \cup After(Insides(U), Earlier(seqs, k)))
    <3> DEFINE free == Rest(U) \cup After(Insides(U), Earlier(seqs, k))
    <3>1. PICK head \in Range(seqs[k]) :
                  /\ head.ns = "body" /\ head.name = Value(descent[k], "id")
                  /\ head.in = Value(descent[k], "parent")
                  /\ \A V, more :
                         Range(seqs[k]) \subseteq V /\ Rest(V) \subseteq more /\ head \in more
                         => Follows(seqs[k], Insides(V), more)
      BY <1>h
    <3>2. Range(seqs[k]) \subseteq U
      BY <1>7, <1>10
    <3>3. head \in free
      <4>1. CASE descent[k] \in ChildrenOf(S, "")
        BY <3>1, <3>2, <4>1 DEF ChildrenOf, Rest
      <4>2. CASE \E j \in 1..(k - 1) : <<descent[j], descent[k]>> \in Parentage(S)
        <5>1. PICK j \in 1..(k - 1) : <<descent[j], descent[k]>> \in Parentage(S)
          BY <4>2
        <5>2. k \in Nat /\ j \in DOMAIN seqs
          <6>1. k \in 1..Len(descent) /\ j \in 1..(k - 1)
            BY <1>1, <1>2, <5>1
          <6>2. k \in Nat /\ j \in 1..Len(descent)
            BY <1>1, <6>1, PlacesBefore
          <6> QED  BY <1>1, <1>2, <6>2
        <5>3. PICK up \in Range(seqs[j]) :
                  up.ns = "body" /\ up.name = Value(descent[j], "id")
          BY <5>2, <1>h
        <5>4. up \in Earlier(seqs, k)
          BY <5>1, <5>3 DEF Earlier
        <5>5. up \in U
          BY <1>7, <1>10, <5>2, <5>3
        <5>6. Value(descent[k], "parent") = Value(descent[j], "id")
          BY <5>1 DEF Parentage
        <5>7. <<up, head>> \in Insides(U)
          BY <3>1, <3>2, <5>3, <5>5, <5>6 DEF Insides
        <5>8. head \in After(Insides(U), Earlier(seqs, k))
          <6> DEFINE q == <<up, head>>
          <6>1. q \in Insides(U) /\ q = <<q[1], q[2]>> /\ q[1] = up /\ q[2] = head
            BY <5>7
          <6> HIDE DEF q
          <6> QED  BY <5>4, <6>1 DEF After
        <5> QED  BY <5>8
      <4> QED  BY <1>2, <4>1, <4>2 DEF Follows
    <3>4. Rest(U) \subseteq free
      OBVIOUS
    <3> HIDE DEF free
    <3>5. Follows(seqs[k], Insides(U), free)
      BY <3>1, <3>2, <3>3, <3>4
    <3> QED  BY <3>5 DEF free
  <2>2. PICK V : seqs \in Seq(Seq(V))
    BY <1>3, <1>7, FlattenParts
  <2>3. Follows(FlattenSeq(seqs), Insides(U), Rest(U))
    BY <2>1, <2>2, FollowsFlatten
  <2> QED  BY <2>3 DEF Nested, s
<1> QED  BY <1>6, <1>8, <1>9, <1>10 DEF s

\* What is written of some bodies: without clashes, each of them, inside its parent.
Forest(s, B, X) ==
    /\ Piece(s, BodySpaces, X) /\ OfBodies(s, B) /\ Headed(s, B)
    /\ \A U : Range(s) \subseteq U => Nested(s, U)

\* From a body without a parent down, and nothing from another.
LEMMA TreePiece ==
    ASSUME NEW doc, InSections(doc), Valid(doc), NEW X, OnlyClashes(X),
           NEW k \in DOMAIN doc.bodies
    PROVE  LET root == doc.bodies[k]
               fam == Families(doc.bodies, Below(doc.bodies), "")[k]
               s == IF Given(root, "parent") THEN <<>> ELSE BodyTree(doc.bodies, root)
           IN  Forest(s, Range(fam), X)
<1> DEFINE bodies == doc.bodies
           S == Items(doc, "bodies")
           root == bodies[k]
           seqs == Families(bodies, Below(bodies), "")
           fam == seqs[k]
           s == IF Given(root, "parent") THEN <<>> ELSE BodyTree(bodies, root)
<1>1. /\ seqs \in Seq(Seq(S)) /\ DOMAIN seqs = DOMAIN bodies
      /\ Apart(fam, Same(S)) /\ Follows(fam, Parentage(S), ChildrenOf(S, ""))
  <2>1. bodies \in Seq(Pool["bodies"]) /\ ProperTree(bodies) /\ k \in DOMAIN bodies
    BY Trees
  <2>2. S = Range(bodies)
    BY DEF Items
  <2> HIDE DEF bodies, S
  <2> QED  BY <2>1, <2>2, TreeLists
<1>2. fam \in Seq(S)
  <2> HIDE DEF seqs, S
  <2> QED  BY <1>1, ListHas
<1>3. root.id = Value(root, "id")
  <2>1. "bodies" \in Range(Pooled)
    BY PooledHas
  <2>2. \A j \in DOMAIN doc["bodies"] : doc["bodies"][j].id = Value(doc["bodies"][j], "id")
    BY <2>1, ItemsNamed
  <2> QED  BY <2>2
<1>4. CASE Given(root, "parent")
  <2>1. fam = <<>> /\ s = <<>>
    BY <1>4 DEF Families, Given
  <2>2. IsList(<<>>) /\ Range(<<>>) = {}
    BY DEF IsList, Range
  <2>3. Piece(<<>>, BodySpaces, X)
    BY <2>2 DEF Piece, Apart
  <2>4. OfBodies(<<>>, {}) /\ Headed(<<>>, {}) /\ \A U : Nested(<<>>, U)
    BY <2>2 DEF OfBodies, Headed, Nested, Follows
  <2> QED  BY <2>1, <2>2, <2>3, <2>4 DEF Forest
<1>5. CASE ~Given(root, "parent")
  <2> DEFINE copied == "replicate" \in DOMAIN root
             descent == <<root>> \o Below(bodies)[root.id]
             nodes == [j \in DOMAIN descent |-> BodyNode(descent[j], copied)]
  <2>1. fam = descent
    BY <1>3, <1>5 DEF Families, Given
  <2>2. s = FlattenSeq(nodes)
    BY <1>5 DEF BodyTree, Each
  <2>3. NodesOf(nodes, descent, copied)
    BY DEF NodesOf
  <2> HIDE DEF nodes, descent, s, copied, fam, S
  <2>4. /\ descent \in Seq(S) /\ Apart(descent, Same(S))
        /\ Follows(descent, Parentage(S), ChildrenOf(S, ""))
    BY <1>1, <1>2, <2>1
  <2> DEFINE t == FlattenSeq(nodes)
  <2>5. /\ Piece(t, BodySpaces, X) /\ OfBodies(t, Range(descent)) /\ Headed(t, Range(descent))
        /\ \A U : Range(t) \subseteq U => Nested(t, U)
    BY <2>3, <2>4, NodesPiece DEF S
  <2>6. Forest(s, Range(fam), X)
    BY <2>1, <2>2, <2>5 DEF Forest
  <2> QED  BY <2>6 DEF s, fam
<1> QED  BY <1>4, <1>5

\* All bodies: each is in the tree of one body without a parent.
LEMMA ForestPiece ==
    ASSUME NEW doc, InSections(doc), Valid(doc), NEW X, OnlyClashes(X)
    PROVE  Forest(BodyForest(doc), Items(doc, "bodies"), X)
<1> DEFINE bodies == doc.bodies
           S == Items(doc, "bodies")
           fams == Families(bodies, Below(bodies), "")
           trees == [k \in DOMAIN bodies |->
                        IF Given(bodies[k], "parent") THEN <<>>
                        ELSE BodyTree(bodies, bodies[k])]
           all == FlattenSeq(trees)
<1>1. /\ fams \in Seq(Seq(S)) /\ DOMAIN fams = DOMAIN bodies
      /\ \A j, k \in DOMAIN bodies :
             j # k => Clear(Range(fams[j]), Range(fams[k]), Same(S))
      /\ \A x \in S : \E k \in DOMAIN bodies : x \in Range(fams[k])
  <2>1. bodies \in Seq(Pool["bodies"]) /\ ProperTree(bodies)
    BY Trees
  <2>2. S = Range(bodies)
    BY DEF Items
  <2> HIDE DEF bodies, S
  <2> QED  BY <2>1, <2>2, TreeLists
<1>2. BodyForest(doc) = all
  BY DEF BodyForest, Each
<1>3. \A k \in DOMAIN bodies : Forest(trees[k], Range(fams[k]), X)
  BY TreePiece
<1>4. IsList(trees) /\ DOMAIN trees = DOMAIN bodies
  <2>1. trees = [k \in DOMAIN bodies |-> trees[k]] /\ IsList(bodies) /\ DOMAIN trees = DOMAIN bodies
    BY ListedSections
  <2> HIDE DEF trees
  <2> QED  BY <2>1, MappedList
<1> HIDE DEF trees, fams, bodies, S
<1>5. \A k \in DOMAIN bodies : Range(fams[k]) \subseteq S
  <2>1. \A k \in DOMAIN bodies : fams[k] \in Seq(S)
    BY <1>1, ListHas
  <2> QED  BY <2>1 DEF Range
<1>6. ASSUME NEW j \in DOMAIN trees, NEW k \in DOMAIN trees, j # k
      PROVE  \A e \in Range(trees[j]), f \in Range(trees[k]) : ~Clash(e, f)
  <2> SUFFICES ASSUME NEW e \in Range(trees[j]), NEW f \in Range(trees[k])
               PROVE  ~Clash(e, f)
    OBVIOUS
  <2>1. PICK b \in Range(fams[j]), c \in Range(fams[k]) : OfBody(e, b) /\ OfBody(f, c)
    BY <1>3, <1>4 DEF Forest, OfBodies
  <2>2. b \in S /\ c \in S /\ b # c
    BY <1>1, <1>4, <1>5, <1>6, <2>1 DEF Clear, Same
  <2> QED  BY <2>1, <2>2, BodiesApart DEF S
<1> DEFINE spaces == BodySpaces
<1>7. /\ \A k \in DOMAIN trees : Piece(trees[k], spaces, X)
      /\ \A k \in DOMAIN trees : IsList(trees[k])
  BY <1>3, <1>4 DEF Forest, Piece
<1>8. Piece(all, spaces, X)
  <2> HIDE DEF spaces
  <2> QED  BY <1>4, <1>6, <1>7, PieceFlatten
<1>9. Range(all) = UNION {Range(trees[k]) : k \in DOMAIN trees}
  BY <1>4, <1>7, FlattenParts
<1> HIDE DEF all
<1>10. OfBodies(all, S)
  BY <1>3, <1>4, <1>5, <1>9 DEF Forest, OfBodies
<1>11. Headed(all, S)
  <2> SUFFICES ASSUME NEW b \in S
               PROVE  \E e \in Range(all) : /\ e.ns = "body" /\ e.name = Value(b, "id")
                                            /\ e.in = Value(b, "parent")
    BY DEF Headed
  <2>1. PICK k \in DOMAIN bodies : b \in Range(fams[k])
    BY <1>1
  <2>2. PICK e \in Range(trees[k]) : /\ e.ns = "body" /\ e.name = Value(b, "id")
                                     /\ e.in = Value(b, "parent")
    BY <1>3, <2>1 DEF Forest, Headed
  <2> QED  BY <1>4, <1>9, <2>2
<1>12. ASSUME NEW U, Range(all) \subseteq U  PROVE Nested(all, U)
  <2>1. \A k \in DOMAIN trees : Nested(trees[k], U)
    BY <1>3, <1>4, <1>9, <1>12 DEF Forest
  <2> QED  BY <1>4, <1>7, <2>1, NestedFlatten DEF all
<1>13. Forest(all, S, X)
  BY <1>8, <1>10, <1>11, <1>12 DEF Forest
<1> QED  BY <1>2, <1>13 DEF S

\* The frames that models are attached at.
Mounts(s, items) ==
    /\ s = [k \in DOMAIN items |-> s[k]]
    /\ \A k \in DOMAIN items : s[k].ns = "frame" /\ s[k].name = items[k].id \o "_mount"

\* They are called after ids that differ.
LEMMA MountsPiece ==
    ASSUME NEW doc, InSections(doc), Valid(doc), NEW X, OnlyClashes(X),
           NEW s, Mounts(s, doc.models)
    PROVE  Piece(s, {"frame"}, X)
<1> DEFINE items == doc["models"]
<1>0. "models" \in Range(Pooled)
  BY PooledHas
<1>1. items \in Seq(Pool["models"])
  BY ListedSections
<1>2. \A k \in DOMAIN items : items[k].id = Value(items[k], "id") /\ items[k].id # ""
  BY <1>0, ItemsNamed
<1>3. \A j, k \in DOMAIN items : j # k => Unlike(items[j], items[k])
  BY <1>0, IdsDiffer DEF Valid
<1>a. Mounts(s, items)
  OBVIOUS
<1> HIDE DEF items
<1>4. /\ s = [k \in DOMAIN items |-> s[k]]
      /\ \A k \in DOMAIN items : s[k].ns = "frame" /\ s[k].name = items[k].id \o "_mount"
  BY <1>a DEF Mounts
<1>5. IsList(items) /\ \A k \in DOMAIN items : items[k] \in Pool["models"]
  BY <1>1, ListHas
<1>6. IsList(s) /\ DOMAIN s = DOMAIN items
  BY <1>4, <1>5, MappedList
<1>7. ASSUME NEW j \in DOMAIN s, NEW k \in DOMAIN s, j # k
      PROVE  ~Clash(s[j], s[k])
  <2>1. Value(items[j], "id") # Value(items[k], "id")
    BY <1>2, <1>3, <1>6, <1>7 DEF Unlike
  <2>2. Value(items[j], "id") \o "_mount" # Value(items[k], "id") \o "_mount"
    BY <1>5, <1>6, <2>1, NamesAssumption
  <2>3. s[j].name # s[k].name
    BY <1>2, <1>4, <1>6, <2>2
  <2> QED  BY <2>3 DEF Clash
<1> QED  BY <1>4, <1>6, <1>7, PieceMapped

\* What is written of an object that is no sensor.
OfObject(e, o) ==
    \/ e.ns = "body" /\ e.name = Value(o, "id") /\ e.in = ""
    \/ e.ns = "geom" /\ e.derived /\ e.name = Value(o, "id") \o "_geom"

\* Its body and its geom do not clash.
LEMMA ObjectPiece ==
    ASSUME NEW X, OnlyClashes(X), NEW o, o.id = Value(o, "id")
    PROVE  /\ Piece(PrimitiveObject(o), {"body", "geom"}, X)
           /\ \A e \in Range(PrimitiveObject(o)) : OfObject(e, o)
<1> DEFINE head == Element("body", o.id, {})
           refs == Refs("mesh", o, IF o.type = "obstacle.mesh" THEN {"mesh"} ELSE {})
                   \cup Refs("hfield", o,
                             IF o.type = "obstacle.hfield" THEN {"hfield"} ELSE {})
           geom == [Derived("geom", o.id \o "_geom", refs) EXCEPT !.in = o.id]
           s == <<head, geom>>
<1>1. PrimitiveObject(o) = s
  BY DEF PrimitiveObject
<1>2. /\ head.ns = "body" /\ head.name = Value(o, "id") /\ head.in = ""
      /\ geom.ns = "geom" /\ geom.name = Value(o, "id") \o "_geom" /\ geom.derived = TRUE
  BY DEF Element, Derived
<1> HIDE DEF head, geom
<1>3. /\ IsList(s) /\ DOMAIN s = {1, 2} /\ s[1] = head /\ s[2] = geom
  <2> DEFINE S == {head, geom}
  <2>1. head \in S /\ geom \in S
    OBVIOUS
  <2> HIDE DEF S
  <2>2. s \in Seq(S) /\ DOMAIN s = {1, 2} /\ s[1] = head /\ s[2] = geom
    BY <2>1
  <2> HIDE DEF s
  <2> QED  BY <2>2, SequencesAreLists
<1> HIDE DEF s
<1>4. Apart(s, X)
  <2>1. ~Clash(head, geom) /\ ~Clash(geom, head)
    BY <1>2 DEF Clash
  <2>2. <<head, geom>> \notin X /\ <<geom, head>> \notin X
    BY <2>1 DEF OnlyClashes
  <2> QED  BY <1>3, <2>2 DEF Apart
<1>5. Range(s) = {head, geom}
  BY <1>3 DEF Range
<1> QED  BY <1>1, <1>2, <1>3, <1>4, <1>5 DEF Piece, OfObject

\* All objects that are no sensors.
Obstacles(seqs, items) ==
    /\ seqs = [k \in DOMAIN items |-> seqs[k]]
    /\ \A k \in DOMAIN items : seqs[k] = <<>> \/ seqs[k] = PrimitiveObject(items[k])

\* Objects do not clash: their ids differ, and so do the names of their geoms.
LEMMA ObjectsPiece ==
    ASSUME NEW doc, InSections(doc), Valid(doc), NEW X, OnlyClashes(X),
           NEW seqs, Obstacles(seqs, doc.objects)
    PROVE  /\ Piece(FlattenSeq(seqs), {"body", "geom"}, X)
           /\ \A e \in Range(FlattenSeq(seqs)) :
                  \E o \in Items(doc, "objects") : OfObject(e, o)
<1> DEFINE items == doc["objects"]
           spaces == {"body", "geom"}
           S == Items(doc, "objects")
<1>0. "objects" \in Range(Pooled)
  BY PooledHas
<1>1. items \in Seq(Pool["objects"])
  BY ListedSections
<1>2. \A k \in DOMAIN items : items[k].id = Value(items[k], "id") /\ items[k].id # ""
  BY <1>0, ItemsNamed
<1>3. \A j, k \in DOMAIN items : j # k => Unlike(items[j], items[k])
  BY <1>0, IdsDiffer DEF Valid
<1>b. Obstacles(seqs, items)
  OBVIOUS
<1>a. \A k \in DOMAIN items : items[k] \in S
  BY DEF Items, Range
<1> HIDE DEF items, S, spaces
<1>4. /\ seqs = [k \in DOMAIN items |-> seqs[k]]
      /\ \A k \in DOMAIN items : seqs[k] = <<>> \/ seqs[k] = PrimitiveObject(items[k])
  BY <1>b DEF Obstacles
<1>5. IsList(items) /\ \A k \in DOMAIN items : items[k] \in Pool["objects"]
  BY <1>1, ListHas
<1>6. IsList(seqs) /\ DOMAIN seqs = DOMAIN items
  BY <1>4, <1>5, MappedList
<1>7. ASSUME NEW k \in DOMAIN seqs
      PROVE  Piece(seqs[k], spaces, X) /\ \A e \in Range(seqs[k]) : OfObject(e, items[k])
  <2>1. CASE seqs[k] = <<>>
    <3>1. IsList(<<>>) /\ Range(<<>>) = {}
      BY DEF IsList, Range
    <3>2. Piece(<<>>, spaces, X)
      BY <3>1 DEF Piece, Apart
    <3> QED  BY <2>1, <3>1, <3>2
  <2>2. CASE seqs[k] = PrimitiveObject(items[k])
    <3> DEFINE o == items[k]
    <3>1. o.id = Value(o, "id") /\ seqs[k] = PrimitiveObject(o)
      BY <1>2, <1>6, <2>2
    <3> HIDE DEF o
    <3>2. Piece(PrimitiveObject(o), spaces, X)
          /\ \A e \in Range(PrimitiveObject(o)) : OfObject(e, o)
      BY <3>1, ObjectPiece DEF spaces
    <3> QED  BY <3>1, <3>2 DEF o
  <2> QED  BY <1>4, <1>6, <2>1, <2>2
<1>8. ASSUME NEW j \in DOMAIN seqs, NEW k \in DOMAIN seqs, j # k,
             NEW e \in Range(seqs[j]), NEW f \in Range(seqs[k])
      PROVE  ~Clash(e, f)
  <2>1. Value(items[j], "id") # Value(items[k], "id")
    BY <1>2, <1>3, <1>6, <1>8 DEF Unlike
  <2>2. Value(items[j], "id") \o "_geom" # Value(items[k], "id") \o "_geom"
    BY <1>5, <1>6, <2>1, NamesAssumption
  <2>3. OfObject(e, items[j]) /\ OfObject(f, items[k])
    BY <1>7, <1>8
  <2> QED  BY <2>1, <2>2, <2>3 DEF Clash, OfObject
<1>9. /\ Piece(FlattenSeq(seqs), spaces, X)
      /\ \A e \in Range(FlattenSeq(seqs)) : \E k \in DOMAIN seqs : e \in Range(seqs[k])
  BY <1>6, <1>7, <1>8, PieceFlatten
<1>10. \A e \in Range(FlattenSeq(seqs)) : \E o \in S : OfObject(e, o)
  <2> SUFFICES ASSUME NEW e \in Range(FlattenSeq(seqs))  PROVE \E o \in S : OfObject(e, o)
    OBVIOUS
  <2>1. PICK k \in DOMAIN seqs : e \in Range(seqs[k])
    BY <1>9
  <2>2. items[k] \in S /\ OfObject(e, items[k])
    BY <1>6, <1>7, <1>a, <2>1
  <2> QED  BY <2>2
<1> QED  BY <1>9, <1>10 DEF spaces, S

-----------------------------------------------------------------------------
(* The world and the whole document *)

\* A list without bodies or classes is nested, whatever is around it.
LEMMA NestedOthers ==
    ASSUME NEW s, \A e \in Range(s) : e.ns \notin {"body", "class"} \/ e.in = ""
    PROVE  \A U : Range(s) \subseteq U => Nested(s, U)
BY DEF Nested, Follows, Rest, Range

\* The world: its own geom, the frames of models, the objects, the cameras and
\* the bodies do not clash.
LEMMA WorldPiece ==
    ASSUME NEW doc, InSections(doc), Valid(doc), NEW X, OnlyClashes(X)
    PROVE  /\ Piece(World(doc), BodySpaces \cup {"frame"}, X)
           /\ Headed(World(doc), Items(doc, "bodies"))
           /\ \A U : Range(World(doc)) \subseteq U => Nested(World(doc), U)
<1> DEFINE refs == IF GroundMaterial(doc) THEN {<<"material", "scene_ground_mat">>} ELSE {}
           geom == Derived("geom", "scene_ground", refs)
           ground == When(Ground(doc), geom)
           mounts == [k \in DOMAIN doc.models |->
                         Derived("frame", doc.models[k].id \o "_mount",
                                 {<<"model", "scene_model_" \o doc.models[k].id>>})]
           seqs == [k \in DOMAIN doc.objects |->
                       IF IsSensor(doc.objects[k]) THEN <<>>
                       ELSE PrimitiveObject(doc.objects[k])]
           objects == FlattenSeq(seqs)
           cameras == [k \in DOMAIN doc["cameras"] |-> Camera(doc["cameras"][k])]
           forest == BodyForest(doc)
           O == Items(doc, "objects")
           C == Items(doc, "cameras")
           S == Items(doc, "bodies")
<1>1. World(doc) = ground \o mounts \o objects \o cameras \o forest
  BY DEF World, Each
<1>2. Piece(ground, {"geom"}, X) /\ IsList(ground)
      /\ \A e \in Range(ground) : e.ns = "geom" /\ e.derived /\ e.name = "scene_ground"
  <2>1. geom.ns = "geom" /\ geom.name = "scene_ground" /\ geom.derived = TRUE
    BY DEF Derived, Element
  <2>2. Ground(doc) \in BOOLEAN
    BY DEF Ground
  <2> HIDE DEF geom
  <2>3. Range(ground) \subseteq {geom}
    BY <2>2, WhenRange
  <2>4. Piece(ground, {"geom"}, X)
    BY <2>1, <2>2, PieceWhen
  <2> HIDE DEF ground
  <2> QED  BY <2>1, <2>3, <2>4 DEF Piece
<1>3. Piece(mounts, {"frame"}, X)
  <2>1. Mounts(mounts, doc.models)
    BY DEF Mounts, Derived, Element
  <2> HIDE DEF mounts
  <2> QED  BY <2>1, MountsPiece
<1>4. Piece(objects, {"body", "geom"}, X)
      /\ \A e \in Range(objects) : \E o \in O : OfObject(e, o)
  <2>1. Obstacles(seqs, doc.objects)
    BY DEF Obstacles
  <2> HIDE DEF seqs
  <2> QED  BY <2>1, ObjectsPiece
<1>5. Piece(cameras, {"camera"}, X) /\ CalledLike(cameras, C)
  <2>0. \A section \in {"cameras", "flexes"} : section \in Range(Pooled) /\ section # "pairs"
    BY PooledHas
  <2>1. \A k \in DOMAIN doc["cameras"] : doc["cameras"][k].id = Value(doc["cameras"][k], "id")
    BY <2>0, ItemsNamed
  <2>2. cameras = [k \in DOMAIN doc["cameras"] |-> cameras[k]]
        /\ \A k \in DOMAIN doc["cameras"] : /\ cameras[k].ns = "camera"
                                            /\ cameras[k].name = doc["cameras"][k].id
    BY DEF Camera, Element
  <2> HIDE DEF cameras
  <2>3. OnePerItem(cameras, doc["cameras"], "camera")
    BY <2>1, <2>2 DEF OnePerItem
  <2>4. Piece(cameras, {"camera"}, X)
    BY <2>0, <2>3, SectionPiece
  <2>5. CalledLike(cameras, C)
    BY <2>1, <2>2 DEF CalledLike, Items, Range
  <2> QED  BY <2>4, <2>5
<1>6. Forest(forest, S, X)
  BY ForestPiece
<1>7. /\ \A x \in O, y \in S : Unlike(x, y)
      /\ \A x \in C : \A b \in S : \A y \in Inner(b, "cameras") : Unlike(x, y)
  <2>0. {"objects", "bodies", "cameras"} \subseteq Range(Pooled)
    BY PooledHas
  <2>1. /\ \A s, t \in Range(Pooled) : s # t =>
                  \A x \in Items(doc, s), y \in Items(doc, t) : Unlike(x, y)
        /\ \A s \in Range(Pooled) :
                  \A part \in {"joints", "geoms", "sites", "cameras"} :
                      \A x \in Items(doc, s) : \A i \in DOMAIN doc.bodies :
                          \A y \in Inner(doc.bodies[i], part) : Unlike(x, y)
    BY IdsDiffer DEF Valid
  <2>2. \A x \in O, y \in S : Unlike(x, y)
    BY <2>0, <2>1
  <2>3. \A x \in C : \A i \in DOMAIN doc.bodies :
            \A y \in Inner(doc.bodies[i], "cameras") : Unlike(x, y)
    BY <2>0, <2>1
  <2> QED  BY <2>2, <2>3 DEF Items, Range
<1>8. \A o \in O : o \in Pool["objects"]
  <2>1. doc.objects \in Seq(Pool["objects"])
    BY ListedSections
  <2> QED  BY <2>1, ListHas DEF Items, Range
<1> HIDE DEF geom, refs, ground, mounts, seqs, objects, cameras, forest, O, C, S
\* what there is between the parts
<1>9. \A e \in Range(ground), f \in Range(objects) : ~Clash(e, f)
  <2> SUFFICES ASSUME NEW e \in Range(ground), NEW f \in Range(objects), Clash(e, f)
               PROVE  FALSE
    OBVIOUS
  <2>1. PICK o \in O : OfObject(f, o)
    BY <1>4
  <2>2. f.name = Value(o, "id") \o "_geom" /\ e.name = "scene_ground"
    BY <1>2, <2>1 DEF Clash, OfObject
  <2> QED  BY <1>8, <2>2, NamesAssumption DEF Clash
<1>10. \A e \in Range(ground), f \in Range(forest) : ~Clash(e, f)
  BY <1>2, <1>6 DEF Forest, OfBodies, OfBody, Clash
<1>11. \A e \in Range(objects), f \in Range(forest) : ~Clash(e, f)
  <2> SUFFICES ASSUME NEW e \in Range(objects), NEW f \in Range(forest), Clash(e, f)
               PROVE  FALSE
    OBVIOUS
  <2>1. PICK o \in O : OfObject(e, o)
    BY <1>4
  <2>2. PICK b \in S : OfBody(f, b)
    BY <1>6 DEF Forest, OfBodies
  <2>3. e.ns = "body" /\ e.name = Value(o, "id")
    BY <2>1, <2>2 DEF Clash, OfObject, OfBody
  <2>4. f.name = Value(b, "id")
    BY <2>2, <2>3, PartKinds DEF Clash, OfBody, PartOf
  <2> QED  BY <1>7, <2>3, <2>4 DEF Clash, Unlike
<1>12. \A e \in Range(cameras), f \in Range(forest) : ~Clash(e, f)
  <2> SUFFICES ASSUME NEW e \in Range(cameras), NEW f \in Range(forest), Clash(e, f)
               PROVE  FALSE
    OBVIOUS
  <2>1. PICK x \in C : e.name = Value(x, "id")
    BY <1>5 DEF CalledLike
  <2>2. PICK b \in S : OfBody(f, b)
    BY <1>6 DEF Forest, OfBodies
  <2>3. f.ns = "camera" /\ f.name = e.name /\ e.name # ""
    BY <1>5 DEF Piece, Clash
  <2>4. PICK p \in BodyParts : p[1] = "camera" /\ \E y \in Inner(b, p[2]) : f.name = Value(y, "id")
    BY <2>2, <2>3 DEF OfBody, PartOf
  <2>5. p[2] = "cameras"
    <3> DEFINE c == <<"camera", "cameras">>
    <3>1. c \in BodyParts /\ c[1] = "camera" /\ c[2] = "cameras"
      BY DEF BodyParts
    <3> HIDE DEF c
    <3> QED  BY <2>4, <3>1, PartKinds
  <2>6. PICK y \in Inner(b, "cameras") : f.name = Value(y, "id")
    BY <2>4, <2>5
  <2> QED  BY <1>7, <2>1, <2>3, <2>6 DEF Unlike
\* one after the other
<1> DEFINE s2 == ground \o mounts
           s3 == s2 \o objects
           s4 == s3 \o cameras
           n1 == {"geom"}
           n2 == n1 \cup {"frame"}
           n3 == n2 \cup {"body", "geom"}
           n4 == n3 \cup {"camera"}
<1>13. Piece(s2, n2, X) /\ Range(s2) = Range(ground) \cup Range(mounts)
  <2>1. {"geom"} \cap {"frame"} = {}
    OBVIOUS
  <2> QED  BY <1>2, <1>3, <2>1, PieceThen, NamesConcat DEF Piece
<1> HIDE DEF s2
<1>14. Piece(s3, n3, X) /\ Range(s3) = Range(s2) \cup Range(objects)
  <2>1. \A e \in Range(mounts), f \in Range(objects) : ~Clash(e, f)
    BY <1>3, <1>4 DEF Piece, Clash
  <2>2. \A e \in Range(s2), f \in Range(objects) : ~Clash(e, f)
    BY <1>9, <1>13, <2>1
  <2>3. Piece(s3, n3, X)
    <3> HIDE DEF n2
    <3> QED  BY <1>4, <1>13, <2>2, PieceConcat
  <2> QED  BY <1>4, <1>13, <2>3, NamesConcat DEF Piece
<1> HIDE DEF s3
<1>15. Piece(s4, n4, X) /\ Range(s4) = Range(s3) \cup Range(cameras)
  <2>1. n3 \cap {"camera"} = {}
    OBVIOUS
  <2>2. Piece(s4, n4, X)
    <3> HIDE DEF n3
    <3> QED  BY <1>5, <1>14, <2>1, PieceThen
  <2> QED  BY <1>5, <1>14, <2>2, NamesConcat DEF Piece
<1> HIDE DEF s4
<1> DEFINE w == s4 \o forest
<1>16. Piece(w, n4 \cup BodySpaces, X) /\ Range(w) = Range(s4) \cup Range(forest)
  <2>1. \A e \in Range(mounts), f \in Range(forest) : ~Clash(e, f)
    BY <1>3, <1>6 DEF Piece, Clash, Forest, BodySpaces
  <2>2. \A e \in Range(s4), f \in Range(forest) : ~Clash(e, f)
    BY <1>10, <1>11, <1>12, <1>13, <1>14, <1>15, <2>1
  <2>3. Piece(w, n4 \cup BodySpaces, X)
    <3> HIDE DEF n4
    <3> QED  BY <1>6, <1>15, <2>2, PieceConcat DEF Forest
  <2> QED  BY <1>6, <1>15, <2>3, NamesConcat DEF Piece, Forest
<1>17. n4 \cup BodySpaces = BodySpaces \cup {"frame"}
  BY DEF BodySpaces
<1>18. World(doc) = w
  BY <1>1 DEF s4, s3, s2
<1>19. ASSUME NEW U, Range(w) \subseteq U  PROVE Nested(w, U)
  <2>1. \A e \in Range(s4) : e.ns \notin {"body", "class"} \/ e.in = ""
    <3>1. \A e \in Range(ground) \cup Range(mounts) \cup Range(cameras) :
              e.ns \in {"geom", "frame", "camera"}
      BY <1>2, <1>3, <1>5 DEF Piece
    <3>2. \A e \in Range(objects) : e.ns # "class" /\ (e.ns = "body" => e.in = "")
      BY <1>4 DEF OfObject
    <3>3. Range(s4) = Range(ground) \cup Range(mounts) \cup Range(cameras) \cup Range(objects)
      BY <1>13, <1>14, <1>15
    <3> QED  BY <3>1, <3>2, <3>3
  <2>2. Nested(s4, U)
    BY <1>16, <1>19, <2>1, NestedOthers
  <2>3. Nested(forest, U)
    BY <1>6, <1>16, <1>19 DEF Forest
  <2> QED  BY <1>6, <1>15, <2>2, <2>3, NestedConcat DEF Piece, Forest
<1>20. Headed(w, S)
  BY <1>6, <1>16 DEF Forest, Headed
<1> HIDE DEF w, n4
<1> QED  BY <1>16, <1>17, <1>18, <1>19, <1>20 DEF S

\* The default classes are written each inside its parent.
LEMMA ClassesNested ==
    ASSUME NEW doc, InSections(doc), Valid(doc)
    PROVE  /\ \A U : Range(Defaults(doc)) \subseteq U => Nested(Defaults(doc), U)
           /\ \A x \in Items(doc, "defaultClasses") : \E e \in Range(Defaults(doc)) :
                  /\ e.ns = "class" /\ e.name = Value(x, "id")
                  /\ e.in = Value(x, "parent")
<1> DEFINE items == doc.defaultClasses
           S == Range(items)
           Class(class) ==
            [Element("class", class.id, Refs("material", class, {"material"}))
                 EXCEPT !.in = Value(class, "parent")]
           all == Below(items)[""]
           s == [k \in DOMAIN all |-> Class(all[k])]
<1>1. items \in Seq(Pool["defaultClasses"]) /\ ProperTree(items)
  BY Trees
<1>2. all \in Seq(S) /\ S \subseteq Range(all)
      /\ Follows(all, Parentage(S), ChildrenOf(S, ""))
  BY <1>1, TreeLists
<1>3. \A x \in S : x.id = Value(x, "id")
  BY <1>1 DEF ProperTree, Given, Value, ValueOr
<1>4. \A x : Class(x).ns = "class" /\ Class(x).name = x.id /\ Class(x).in = Value(x, "parent")
  BY DEF Element
<1>5. Defaults(doc) = s
  BY DEF Defaults, Each
<1>6. /\ DOMAIN s = DOMAIN all /\ \A k \in DOMAIN all : s[k] = Class(all[k])
  OBVIOUS
<1>7. Items(doc, "defaultClasses") = S
  BY DEF Items
<1> HIDE DEF all, s, S, Class, items
<1>8. /\ Len(all) \in Nat /\ DOMAIN all = 1..Len(all)
      /\ \A k \in DOMAIN all : all[k] \in S
  BY <1>2, ListHas
<1>9. \A k \in DOMAIN all : /\ s[k].ns = "class" /\ s[k].name = Value(all[k], "id")
                            /\ s[k].in = Value(all[k], "parent")
  BY <1>3, <1>4, <1>6, <1>8
<1>10. ASSUME NEW x \in S
       PROVE  \E e \in Range(s) : /\ e.ns = "class" /\ e.name = Value(x, "id")
                                  /\ e.in = Value(x, "parent")
  <2>1. PICK k \in DOMAIN all : all[k] = x
    BY <1>2 DEF Range
  <2>2. s[k] \in Range(s)
    BY <1>6 DEF Range
  <2> QED  BY <1>9, <2>1, <2>2
<1>11. ASSUME NEW U, Range(s) \subseteq U  PROVE Nested(s, U)
  <2> SUFFICES ASSUME NEW k \in DOMAIN s
               PROVE  \/ s[k] \in Rest(U)
                      \/ \E j \in 1..(k - 1) : <<s[j], s[k]>> \in Insides(U)
    BY DEF Nested, Follows
  <2>1. \A j \in DOMAIN s : s[j] \in U
    BY <1>11 DEF Range
  <2>2. CASE all[k] \in ChildrenOf(S, "")
    BY <1>6, <1>9, <2>1, <2>2 DEF ChildrenOf, Rest
  <2>3. CASE \E j \in 1..(k - 1) : <<all[j], all[k]>> \in Parentage(S)
    <3>1. PICK j \in 1..(k - 1) : <<all[j], all[k]>> \in Parentage(S)
      BY <2>3
    <3>2. k \in 1..Len(all)
      BY <1>6, <1>8
    <3>3. j \in DOMAIN s
      BY <1>6, <1>8, <3>1, <3>2, PlacesBefore
    <3>4. Value(all[k], "parent") = Value(all[j], "id")
      BY <3>1 DEF Parentage
    <3>5. <<s[j], s[k]>> \in Insides(U)
      BY <1>6, <1>9, <2>1, <3>3, <3>4 DEF Insides
    <3> QED  BY <3>1, <3>5
  <2> QED  BY <1>2, <1>6, <2>2, <2>3 DEF Follows
<1> QED  BY <1>5, <1>7, <1>10, <1>11

\* A part of the document, without clashes and nested.
Tidy(s, spaces, X) ==
    Piece(s, spaces, X) /\ \A U : Range(s) \subseteq U => Nested(s, U)

\* Without bodies and classes there is nothing to nest.
LEMMA TidyOthers ==
    ASSUME NEW X, NEW s, NEW spaces, Piece(s, spaces, X), "body" \notin spaces,
           "class" \notin spaces
    PROVE  Tidy(s, spaces, X)
BY NestedOthers DEF Tidy, Piece

\* Parts of different namespaces, one after the other.
LEMMA TidyThen ==
    ASSUME NEW X, OnlyClashes(X), NEW s, NEW spaces, Tidy(s, spaces, X),
           NEW t, NEW more, Tidy(t, more, X), spaces \cap more = {}
    PROVE  /\ Tidy(s \o t, spaces \cup more, X)
           /\ Range(s) \cup Range(t) \subseteq Range(s \o t)
<1>1. Piece(s \o t, spaces \cup more, X)
  BY PieceThen DEF Tidy
<1>2. Range(s \o t) = Range(s) \cup Range(t)
  BY NamesConcat DEF Tidy, Piece
<1>3. ASSUME NEW U, Range(s \o t) \subseteq U  PROVE Nested(s \o t, U)
  <2>1. Nested(s, U) /\ Nested(t, U)
    BY <1>2, <1>3 DEF Tidy
  <2> QED  BY <2>1, NestedConcat DEF Tidy, Piece
<1> QED  BY <1>1, <1>2, <1>3 DEF Tidy

\* The document: its parts keep to different namespaces.
LEMMA DocumentTidy ==
    ASSUME NEW doc, InSections(doc), Valid(doc), NEW X, OnlyClashes(X)
    PROVE  /\ \E spaces : Tidy(Document(doc), spaces, X)
           /\ Range(Defaults(doc)) \cup Range(World(doc)) \subseteq Range(Document(doc))
<1> DEFINE p1 == Defaults(doc)
           p2 == Extension(doc)
           p3 == Plain(doc, "custom")
           p4 == Assets(doc)
           p5 == World(doc)
           p6 == Contact(doc)
           p7 == Deformable(doc)
           p8 == Equality(doc)
           p9 == Plain(doc, "tendon")
           p10 == Each(doc.actuators, Actuator)
           p11 == Sensors(doc)
           p12 == Plain(doc, "keyframes")
           n1 == {"class"}
           n2 == {"plugin"}
           n3 == {"custom"}
           n4 == {"texture", "material", "mesh", "hfield", "model"}
           n5 == BodySpaces \cup {"frame"}
           n6 == {"pair", "exclude"}
           n7 == {"flex", "skin"}
           n8 == {"equality"}
           n9 == {"tendon"}
           n10 == {"actuator"}
           n11 == {"sensor"}
           n12 == {"keyframes"}
<1>1. Document(doc) = p1 \o p2 \o p3 \o p4 \o p5 \o p6 \o p7 \o p8 \o p9 \o p10 \o p11 \o p12
  BY DEF Document
<1>2. Tidy(p1, n1, X)
  BY DefaultsPiece, ClassesNested DEF Tidy
<1>3. Tidy(p5, n5, X)
  BY WorldPiece DEF Tidy
<1>4. /\ Piece(p2, n2, X) /\ Piece(p3, n3, X) /\ Piece(p4, n4, X) /\ Piece(p6, n6, X)
      /\ Piece(p7, n7, X) /\ Piece(p8, n8, X) /\ Piece(p9, n9, X) /\ Piece(p10, n10, X)
      /\ Piece(p11, n11, X) /\ Piece(p12, n12, X)
  BY ExtensionPiece, PlainPiece, AssetsPiece, ContactPiece, SensorsPiece
<1>5. \A n \in {n2, n3, n4, n6, n7, n8, n9, n10, n11, n12} : "body" \notin n /\ "class" \notin n
  OBVIOUS
<1> HIDE DEF p1, p2, p3, p4, p5, p6, p7, p8, p9, p10, p11, p12
<1>6. /\ Tidy(p2, n2, X) /\ Tidy(p3, n3, X) /\ Tidy(p4, n4, X) /\ Tidy(p6, n6, X)
      /\ Tidy(p7, n7, X) /\ Tidy(p8, n8, X) /\ Tidy(p9, n9, X) /\ Tidy(p10, n10, X)
      /\ Tidy(p11, n11, X) /\ Tidy(p12, n12, X)
  <2> HIDE DEF n2, n3, n4, n6, n7, n8, n9, n10, n11, n12
  <2> QED  BY <1>4, <1>5, TidyOthers
<1> DEFINE m2 == n1 \cup n2
           m3 == m2 \cup n3
           m4 == m3 \cup n4
           m5 == m4 \cup n5
           m6 == m5 \cup n6
           m7 == m6 \cup n7
           m8 == m7 \cup n8
           m9 == m8 \cup n9
           m10 == m9 \cup n10
           m11 == m10 \cup n11
           m12 == m11 \cup n12
<1>7. /\ n1 \cap n2 = {} /\ m2 \cap n3 = {} /\ m3 \cap n4 = {} /\ m4 \cap n5 = {}
      /\ m5 \cap n6 = {} /\ m6 \cap n7 = {} /\ m7 \cap n8 = {} /\ m8 \cap n9 = {}
      /\ m9 \cap n10 = {} /\ m10 \cap n11 = {} /\ m11 \cap n12 = {}
  BY DEF BodySpaces
<1> HIDE DEF n1, n2, n3, n4, n5, n6, n7, n8, n9, n10, n11, n12
<1> DEFINE d2 == p1 \o p2
           d3 == d2 \o p3
           d4 == d3 \o p4
           d5 == d4 \o p5
           d6 == d5 \o p6
           d7 == d6 \o p7
           d8 == d7 \o p8
           d9 == d8 \o p9
           d10 == d9 \o p10
           d11 == d10 \o p11
           d12 == d11 \o p12
<1>8. Tidy(d2, m2, X) /\ Range(p1) \cup Range(p2) \subseteq Range(d2)
  BY <1>2, <1>6, <1>7, TidyThen
<1>9. Tidy(d3, m3, X) /\ Range(d2) \cup Range(p3) \subseteq Range(d3)
  <2> HIDE DEF d2, m2
  <2> QED  BY <1>6, <1>7, <1>8, TidyThen
<1>10. Tidy(d4, m4, X) /\ Range(d3) \cup Range(p4) \subseteq Range(d4)
  <2> HIDE DEF d3, m3
  <2> QED  BY <1>6, <1>7, <1>9, TidyThen
<1>11. Tidy(d5, m5, X) /\ Range(d4) \cup Range(p5) \subseteq Range(d5)
  <2> HIDE DEF d4, m4
  <2> QED  BY <1>3, <1>7, <1>10, TidyThen
<1>12. Tidy(d6, m6, X) /\ Range(d5) \cup Range(p6) \subseteq Range(d6)
  <2> HIDE DEF d5, m5
  <2> QED  BY <1>6, <1>7, <1>11, TidyThen
<1>13. Tidy(d7, m7, X) /\ Range(d6) \cup Range(p7) \subseteq Range(d7)
  <2> HIDE DEF d6, m6
  <2> QED  BY <1>6, <1>7, <1>12, TidyThen
<1>14. Tidy(d8, m8, X) /\ Range(d7) \cup Range(p8) \subseteq Range(d8)
  <2> HIDE DEF d7, m7
  <2> QED  BY <1>6, <1>7, <1>13, TidyThen
<1>15. Tidy(d9, m9, X) /\ Range(d8) \cup Range(p9) \subseteq Range(d9)
  <2> HIDE DEF d8, m8
  <2> QED  BY <1>6, <1>7, <1>14, TidyThen
<1>16. Tidy(d10, m10, X) /\ Range(d9) \cup Range(p10) \subseteq Range(d10)
  <2> HIDE DEF d9, m9
  <2> QED  BY <1>6, <1>7, <1>15, TidyThen
<1>17. Tidy(d11, m11, X) /\ Range(d10) \cup Range(p11) \subseteq Range(d11)
  <2> HIDE DEF d10, m10
  <2> QED  BY <1>6, <1>7, <1>16, TidyThen
<1>18. Tidy(d12, m12, X) /\ Range(d11) \cup Range(p12) \subseteq Range(d12)
  <2> HIDE DEF d11, m11
  <2> QED  BY <1>6, <1>7, <1>17, TidyThen
<1>19. Document(doc) = d12
  BY <1>1
<1> HIDE DEF d2, d3, d4, d5, d6, d7, d8, d9, d10, d11, d12, m12
<1>20. Range(p1) \cup Range(p5) \subseteq Range(d12)
  BY <1>8, <1>9, <1>10, <1>11, <1>12, <1>13, <1>14, <1>15, <1>16, <1>17, <1>18
<1> QED  BY <1>18, <1>19, <1>20 DEF p1, p5

\* Of an accepted scene, no two elements clash.
LEMMA DocumentApart ==
    ASSUME NEW doc, InSections(doc), Valid(doc)
    PROVE  \A j, k \in DOMAIN Document(doc) :
               j # k => ~Clash(Document(doc)[j], Document(doc)[k])
<1> DEFINE s == Document(doc)
           X == {p \in Range(s) \X Range(s) : Clash(p[1], p[2])}
<1>1. OnlyClashes(X)
  BY DEF OnlyClashes
<1>2. Apart(s, X)
  <2> HIDE DEF X
  <2> QED  BY <1>1, DocumentTidy DEF Tidy, Piece
<1> SUFFICES ASSUME NEW j \in DOMAIN s, NEW k \in DOMAIN s, j # k, Clash(s[j], s[k])
             PROVE  FALSE
  OBVIOUS
<1>3. s[j] \in Range(s) /\ s[k] \in Range(s)
  BY DEF Range
<1> HIDE DEF s
<1>4. <<s[j], s[k]>> \in X
  BY <1>3
<1> QED  BY <1>2, <1>4 DEF Apart

\* NamesAreUnique: two elements of one namespace have different names.
THEOREM NamesStayUnique == SceneSpec => []NamesAreUnique
<1>1. ASSUME SceneTypes  PROVE NamesAreUnique
  <2> SUFFICES ASSUME Valid(scene),
                      NEW j \in DOMAIN Document(scene), NEW k \in DOMAIN Document(scene),
                      j # k, Document(scene)[j].ns = Document(scene)[k].ns,
                      Document(scene)[j].name = Document(scene)[k].name,
                      Document(scene)[j].name # ""
               PROVE  \/ /\ Document(scene)[j].ns = "geom"
                         /\ Document(scene)[j].derived # Document(scene)[k].derived
                      \/ Document(scene)[j].ns = "exclude"
    BY DEF NamesAreUnique
  <2>1. InSections(scene)
    BY <1>1 DEF SceneTypes
  <2>2. ~Clash(Document(scene)[j], Document(scene)[k])
    BY <2>1, DocumentApart
  <2> QED  BY <2>2 DEF Clash
<1> QED  BY <1>1, TypesInvariant, PTL

\* An item of a tree is one element of the document, after the one it is in.
Once(s, kind, x) ==
    \E i \in DOMAIN s :
        /\ {k \in DOMAIN s : s[k].ns = kind /\ s[k].name = x.id} = {i}
        /\ s[i].in = Value(x, "parent")
        /\ s[i].in # "" => \E j \in 1..(i - 1) : s[j].ns = kind /\ s[j].name = s[i].in

\* So is each of an accepted scene.
LEMMA TreesWritten ==
    ASSUME NEW doc, InSections(doc), Valid(doc), NEW kind \in {"body", "class"},
           NEW x \in Items(doc, IF kind = "body" THEN "bodies" ELSE "defaultClasses")
    PROVE  Once(Document(doc), kind, x)
<1> DEFINE s == Document(doc)
           U == Range(s)
<1>1. x.id = Value(x, "id") /\ x.id # ""
  <2>1. Given(x, "id")
    <3>1. "bodies" \in Range(Pooled)
      BY PooledHas
    <3> QED  BY <3>1 DEF Valid, Named
  <2> QED  BY <2>1 DEF Given, Value, ValueOr
<1>2. PICK e \in U : e.ns = kind /\ e.name = Value(x, "id") /\ e.in = Value(x, "parent")
  <2>1. OnlyClashes({})
    BY DEF OnlyClashes
  <2>2. Range(Defaults(doc)) \cup Range(World(doc)) \subseteq U
    BY <2>1, DocumentTidy
  <2>3. Headed(World(doc), Items(doc, "bodies"))
    BY <2>1, WorldPiece
  <2>4. CASE kind = "body"
    BY <2>2, <2>3, <2>4 DEF Headed
  <2>5. CASE kind = "class"
    BY <2>2, <2>5, ClassesNested
  <2> QED  BY <2>4, <2>5
<1>3. Nested(s, U)
  <2>1. OnlyClashes({})
    BY DEF OnlyClashes
  <2> QED  BY <2>1, DocumentTidy DEF Tidy
<1>4. \A j, k \in DOMAIN s : j # k => ~Clash(s[j], s[k])
  BY DocumentApart
<1> HIDE DEF s
<1>5. PICK i \in DOMAIN s : s[i] = e
  BY <1>2 DEF Range
<1>6. \A k \in DOMAIN s : s[k].ns = kind /\ s[k].name = x.id => k = i
  <2> SUFFICES ASSUME NEW k \in DOMAIN s, s[k].ns = kind, s[k].name = x.id, k # i
               PROVE  FALSE
    OBVIOUS
  <2>1. Clash(s[k], s[i])
    BY <1>1, <1>2, <1>5 DEF Clash
  <2> QED  BY <1>4, <2>1
<1>7. {k \in DOMAIN s : s[k].ns = kind /\ s[k].name = x.id} = {i}
  BY <1>1, <1>2, <1>5, <1>6
<1>8. s[i].in # "" => \E j \in 1..(i - 1) : s[j].ns = kind /\ s[j].name = s[i].in
  <2> SUFFICES ASSUME s[i].in # ""
               PROVE  \E j \in 1..(i - 1) : s[j].ns = kind /\ s[j].name = s[i].in
    OBVIOUS
  <2>1. s[i] \notin Rest(U)
    BY <1>2, <1>5 DEF Rest
  <2>2. PICK j \in 1..(i - 1) : <<s[j], s[i]>> \in Insides(U)
    BY <1>3, <2>1 DEF Nested, Follows
  <2>3. s[j].ns = s[i].ns /\ s[j].name = s[i].in
    BY <2>2 DEF Insides
  <2> QED  BY <1>2, <1>5, <2>2, <2>3
<1> QED  BY <1>2, <1>5, <1>7, <1>8 DEF s, Once

\* EmittedOnce: every body and every default class is written once, in its parent.
THEOREM TreesEmittedOnce == SceneSpec => []EmittedOnce
<1>1. ASSUME SceneTypes  PROVE EmittedOnce
  <2> SUFFICES ASSUME Valid(scene), NEW kind \in {"body", "class"},
                      NEW x \in Items(scene, IF kind = "body" THEN "bodies"
                                             ELSE "defaultClasses")
               PROVE  LET doc == Document(scene)
                          at == {k \in DOMAIN doc : doc[k].ns = kind /\ doc[k].name = x.id}
                      IN  /\ Cardinality(at) = 1
                          /\ \A k \in at :
                                 /\ doc[k].in = Value(x, "parent")
                                 /\ doc[k].in # "" =>
                                        \E j \in 1..(k - 1) :
                                            doc[j].ns = kind /\ doc[j].name = doc[k].in
    BY DEF EmittedOnce
  <2> DEFINE doc == Document(scene)
             at == {k \in DOMAIN doc : doc[k].ns = kind /\ doc[k].name = x.id}
  <2>1. InSections(scene)
    BY <1>1 DEF SceneTypes
  <2>2. PICK i \in DOMAIN doc :
                   /\ at = {i}
                   /\ doc[i].in = Value(x, "parent")
                   /\ doc[i].in # "" =>
                          \E j \in 1..(i - 1) : doc[j].ns = kind /\ doc[j].name = doc[i].in
    <3>1. Once(doc, kind, x)
      BY <2>1, TreesWritten
    <3> HIDE DEF doc
    <3> QED  BY <3>1 DEF Once
  <2> HIDE DEF at, doc
  <2>3. Cardinality(at) = 1
    BY <2>2, FS_Singleton
  <2>4. \A k \in at : /\ doc[k].in = Value(x, "parent")
                      /\ doc[k].in # "" =>
                             \E j \in 1..(k - 1) : doc[j].ns = kind /\ doc[j].name = doc[k].in
    BY <2>2
  <2> QED  BY <2>3, <2>4 DEF at, doc
<1> QED  BY <1>1, TypesInvariant, PTL
=============================================================================
