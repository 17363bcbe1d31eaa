------------------------ MODULE RecordManagerProofs ------------------------
(***************************************************************************)
(* Theorems about the record manager, for every set of threads, record ids *)
(* and sessions.                                                           *)
(***************************************************************************)
EXTENDS RecordManager, TLAPS

-----------------------------------------------------------------------------
(* Types *)

\* The initial state is typed.
LEMMA InitTypes == Init => TypeOK
<1> SUFFICES ASSUME Init  PROVE TypeOK
  OBVIOUS
<1>1. \A t \in Thread : mine[t] = NoSession <=> pc[t] = "idle"
  BY DEF Init
<1>2. /\ sessions \in [Id -> Session \cup {NoSession}]
      /\ file \in [Id -> Session \cup {NoSession}]
      /\ idOf \in [Session -> Id \cup {NoId}]
      /\ mine \in [Thread -> Session \cup {NoSession}]
  BY DEF Init
<1> QED
  BY <1>1, <1>2 DEF Init, TypeOK

\* Every step keeps the types.
LEMMA NextTypes == TypeOK /\ [Next]_vars => TypeOK'
<1> SUFFICES ASSUME TypeOK, [Next]_vars
             PROVE  TypeOK'
  OBVIOUS
<1> USE ConstantsAssumption DEF TypeOK, Live, At, Goto
<1>1. ASSUME NEW t \in Thread, NEW i \in Id, Start(t, i)  PROVE TypeOK'
  BY <1>1 DEF Start
<1>2. ASSUME NEW t \in Thread, Spawn(t)  PROVE TypeOK'
  BY <1>2 DEF Spawn, Return
<1>3. ASSUME NEW t \in Thread, NEW i \in Id, Stop(t, i)  PROVE TypeOK'
  BY <1>3 DEF Stop, session
<1>4. ASSUME NEW t \in Thread, NEW i \in Id, Remove(t, i)  PROVE TypeOK'
  BY <1>4 DEF Remove, session
<1>5. ASSUME NEW t \in Thread, Request(t)  PROVE TypeOK'
  BY <1>5 DEF Request
<1>6. ASSUME NEW t \in Thread, OnceFirst(t)  PROVE TypeOK'
  BY <1>6 DEF OnceFirst
<1>7. ASSUME NEW t \in Thread, OnceNext(t)  PROVE TypeOK'
  BY <1>7 DEF OnceNext, session
<1>8. ASSUME NEW t \in Thread, Join(t)  PROVE TypeOK'
  BY <1>8 DEF Join
<1>9. ASSUME NEW t \in Thread, Finish(t)  PROVE TypeOK'
  BY <1>9 DEF Finish, Return
<1>10. ASSUME NEW t \in Thread, Unlink(t)  PROVE TypeOK'
  BY <1>10 DEF Unlink, Return, session
<1>11. ASSUME NEW s \in Session, Open(s)  PROVE TypeOK'
  BY <1>11 DEF Open, caller
<1>12. ASSUME NEW s \in Session, CheckStop(s)  PROVE TypeOK'
  BY <1>12 DEF CheckStop, caller
<1>13. ASSUME NEW s \in Session, Sample(s)  PROVE TypeOK'
  BY <1>13 DEF Sample, caller
<1>14. ASSUME NEW s \in Session, End(s)  PROVE TypeOK'
  BY <1>14 DEF End, caller
<1>15. ASSUME NEW s \in Session, DestroySession(s)  PROVE TypeOK'
  BY <1>15 DEF DestroySession, Referenced, caller
<1>16. CASE InstanceComesAndGoes
  BY <1>16 DEF InstanceComesAndGoes, session, caller
<1>17. CASE UNCHANGED vars
  BY <1>17 DEF vars, session, caller
<1> QED
  BY <1>1, <1>2, <1>3, <1>4, <1>5, <1>6, <1>7, <1>8, <1>9, <1>10, <1>11,
     <1>12, <1>13, <1>14, <1>15, <1>16, <1>17
     DEF Next, Call, Continue, Worker, Dead

\* Every variable keeps its type; a handler holds a session exactly while it
\* has one to see to.
THEOREM TypeCorrect == Spec => []TypeOK
BY InitTypes, NextTypes, PTL DEF Spec

-----------------------------------------------------------------------------
(* The invariant *)

InStop == {"request", "once", "joining", "finish", "unlink"}

\* A thread that removes a session has taken it out of the map.
RemovingStops == \A t \in removing : pc[t] \in InStop

\* Whoever names a session names one that exists, the map by its id.
NamesExist ==
    /\ \A i \in Id : sessions[i] # NoSession => idOf[sessions[i]] = i
    /\ \A t \in Thread : mine[t] # NoSession => idOf[mine[t]] # NoId

FreeIsFresh ==
    \A s \in Session : idOf[s] = NoId =>
        wpc[s] = "none" /\ once[s] = "unused" /\ s \notin early

\* A session without a worker has one start() that will give it one.
SpawnsOnce ==
    /\ \A t \in Thread : pc[t] = "spawn" => wpc[mine[t]] = "none"
    /\ \A t, u \in Thread :
           pc[t] = "spawn" /\ pc[u] = "spawn" /\ mine[t] = mine[u] => t = u
    /\ \A s \in Session : idOf[s] # NoId /\ wpc[s] = "none" =>
           \E t \in Thread : pc[t] = "spawn" /\ mine[t] = s

\* call_once lets one thread join, and is used up by a join, or early.
JoinsOnce ==
    /\ \A t \in Thread : pc[t] = "joining" =>
           once[mine[t]] = "busy" /\ wpc[mine[t]] \in Live \cup {"exited"}
    /\ \A t, u \in Thread :
           pc[t] = "joining" /\ pc[u] = "joining" /\ mine[t] = mine[u] => t = u
    /\ \A s \in Session : once[s] = "used" => wpc[s] = "joined" \/ s \in early
    /\ \A s \in Session : wpc[s] = "joined" => once[s] = "used"
    /\ \A s \in early : once[s] = "used" /\ wpc[s] # "joined"
    /\ \A t \in Thread : pc[t] \in {"finish", "unlink"} =>
           once[mine[t]] = "used"

\* A session leaves the map only with a remove() that sees to its worker.
OutOfMap ==
    \A s \in Session : idOf[s] # NoId /\ sessions[idOf[s]] # s =>
        once[s] = "used" \/ \E t \in removing : mine[t] = s

\* A worker opens the file of its session's id.
FileIsOfId ==
    \A i \in Id : file[i] # NoSession =>
        idOf[file[i]] = i \/ (idOf[file[i]] = NoId /\ aborted)

RecordInv ==
    /\ TypeOK
    /\ RemovingStops
    /\ NamesExist
    /\ FreeIsFresh
    /\ SpawnsOnce
    /\ JoinsOnce
    /\ OutOfMap
    /\ FileIsOfId
    /\ StoppedIsOver
    /\ FileHasSession

\* No session exists at first.
LEMMA InitRecord == Init => RecordInv
BY InitTypes, ConstantsAssumption
   DEF Init, RecordInv, RemovingStops, NamesExist, FreeIsFresh, SpawnsOnce,
       JoinsOnce, OutOfMap, FileIsOfId, StoppedIsOver, FileHasSession

\* record.start takes a session nobody used and puts it into the map.
LEMMA StartRecord ==
    ASSUME RecordInv, TypeOK', NEW t \in Thread, NEW i \in Id, Start(t, i)
    PROVE  RecordInv'
<1> USE ConstantsAssumption DEF RecordInv, TypeOK, InStop, Live, At, Goto
<1>1. RemovingStops'
  BY DEF Start, RemovingStops
<1>2. NamesExist'
  BY DEF Start, NamesExist
<1>3. FreeIsFresh'
  BY DEF Start, FreeIsFresh
<1>4. SpawnsOnce'
  BY DEF Start, SpawnsOnce, NamesExist, FreeIsFresh
<1>5. JoinsOnce'
  BY DEF Start, JoinsOnce
<1>6. OutOfMap'
  BY DEF Start, OutOfMap
<1>7. FileIsOfId'
  BY DEF Start, FileIsOfId
<1>8. StoppedIsOver'
  BY DEF Start, StoppedIsOver
<1>9. FileHasSession'
  BY DEF Start, FileHasSession
<1> QED
  BY <1>1, <1>2, <1>3, <1>4, <1>5, <1>6, <1>7, <1>8, <1>9 DEF RecordInv

\* The one handler that started a session gives it its thread.
LEMMA SpawnRecord ==
    ASSUME RecordInv, TypeOK', NEW t \in Thread, Spawn(t)
    PROVE  RecordInv'
<1> USE ConstantsAssumption DEF RecordInv, TypeOK, InStop, Live, At, Goto
<1>1. RemovingStops'
  BY DEF Spawn, Return, RemovingStops
<1>2. NamesExist'
  BY DEF Spawn, Return, NamesExist
<1>3. FreeIsFresh'
  BY DEF Spawn, Return, FreeIsFresh, NamesExist
<1>4. SpawnsOnce'
  BY DEF Spawn, Return, SpawnsOnce
<1>5. JoinsOnce'
  BY DEF Spawn, Return, JoinsOnce, SpawnsOnce
<1>6. OutOfMap'
  BY DEF Spawn, Return, OutOfMap, RemovingStops
<1>7. FileIsOfId'
  BY DEF Spawn, Return, FileIsOfId
<1>8. StoppedIsOver'
  BY DEF Spawn, Return, StoppedIsOver, SpawnsOnce
<1>9. FileHasSession'
  BY DEF Spawn, Return, FileHasSession, RemovingStops
<1> QED
  BY <1>1, <1>2, <1>3, <1>4, <1>5, <1>6, <1>7, <1>8, <1>9 DEF RecordInv

\* record.stop takes a reference to the session of the map.
LEMMA StopRecord ==
    ASSUME RecordInv, TypeOK', NEW t \in Thread, NEW i \in Id, Stop(t, i)
    PROVE  RecordInv'
<1> USE ConstantsAssumption DEF RecordInv, TypeOK, InStop, Live, At, Goto
<1>1. RemovingStops'
  BY DEF Stop, session, RemovingStops
<1>2. NamesExist'
  BY DEF Stop, session, NamesExist
<1>3. FreeIsFresh'
  BY DEF Stop, session, FreeIsFresh
<1>4. SpawnsOnce'
  BY DEF Stop, session, SpawnsOnce
<1>5. JoinsOnce'
  BY DEF Stop, session, JoinsOnce
<1>6. OutOfMap'
  BY DEF Stop, session, OutOfMap
<1>7. FileIsOfId'
  BY DEF Stop, session, FileIsOfId
<1>8. StoppedIsOver'
  BY DEF Stop, session, StoppedIsOver
<1>9. FileHasSession'
  BY DEF Stop, session, FileHasSession
<1> QED
  BY <1>1, <1>2, <1>3, <1>4, <1>5, <1>6, <1>7, <1>8, <1>9 DEF RecordInv

\* record.remove takes the session out of the map and is the one to stop it.
LEMMA RemoveRecord ==
    ASSUME RecordInv, TypeOK', NEW t \in Thread, NEW i \in Id, Remove(t, i)
    PROVE  RecordInv'
<1> USE ConstantsAssumption DEF RecordInv, TypeOK, InStop, Live, At, Goto
<1>1. RemovingStops'
  BY DEF Remove, session, RemovingStops
<1>2. NamesExist'
  BY DEF Remove, session, NamesExist
<1>3. FreeIsFresh'
  BY DEF Remove, session, FreeIsFresh
<1>4. SpawnsOnce'
  BY DEF Remove, session, SpawnsOnce
<1>5. JoinsOnce'
  BY DEF Remove, session, JoinsOnce
<1>6. OutOfMap'
  BY DEF Remove, session, OutOfMap
<1>7. FileIsOfId'
  BY DEF Remove, session, FileIsOfId
<1>8. StoppedIsOver'
  BY DEF Remove, session, StoppedIsOver
<1>9. FileHasSession'
  BY DEF Remove, session, FileHasSession
<1> QED
  BY <1>1, <1>2, <1>3, <1>4, <1>5, <1>6, <1>7, <1>8, <1>9 DEF RecordInv

\* stop_requested is only ever raised.
LEMMA RequestRecord ==
    ASSUME RecordInv, TypeOK', NEW t \in Thread, Request(t)
    PROVE  RecordInv'
<1> USE ConstantsAssumption DEF RecordInv, TypeOK, InStop, Live, At, Goto
<1>1. RemovingStops'
  BY DEF Request, RemovingStops
<1>2. NamesExist'
  BY DEF Request, NamesExist
<1>3. FreeIsFresh'
  BY DEF Request, FreeIsFresh
<1>4. SpawnsOnce'
  BY DEF Request, SpawnsOnce
<1>5. JoinsOnce'
  BY DEF Request, JoinsOnce
<1>6. OutOfMap'
  BY DEF Request, OutOfMap
<1>7. FileIsOfId'
  BY DEF Request, FileIsOfId
<1>8. StoppedIsOver'
  BY DEF Request, StoppedIsOver
<1>9. FileHasSession'
  BY DEF Request, FileHasSession
<1> QED
  BY <1>1, <1>2, <1>3, <1>4, <1>5, <1>6, <1>7, <1>8, <1>9 DEF RecordInv

\* The first caller of call_once is the one that joins, if a thread is there.
LEMMA OnceFirstRecord ==
    ASSUME RecordInv, TypeOK', NEW t \in Thread, OnceFirst(t)
    PROVE  RecordInv'
<1> USE ConstantsAssumption DEF RecordInv, TypeOK, InStop, Live, At, Goto
<1>1. RemovingStops'
  BY DEF OnceFirst, RemovingStops
<1>2. NamesExist'
  BY DEF OnceFirst, NamesExist
<1>3. FreeIsFresh'
  BY DEF OnceFirst, FreeIsFresh, NamesExist
<1>4. SpawnsOnce'
  BY DEF OnceFirst, SpawnsOnce
<1>5. JoinsOnce'
  BY DEF OnceFirst, JoinsOnce
<1>6. OutOfMap'
  BY DEF OnceFirst, OutOfMap
<1>7. FileIsOfId'
  BY DEF OnceFirst, FileIsOfId
<1>8. StoppedIsOver'
  BY DEF OnceFirst, StoppedIsOver
<1>9. FileHasSession'
  BY DEF OnceFirst, FileHasSession
<1> QED
  BY <1>1, <1>2, <1>3, <1>4, <1>5, <1>6, <1>7, <1>8, <1>9 DEF RecordInv

\* A later caller of call_once finds the join done.
LEMMA OnceNextRecord ==
    ASSUME RecordInv, TypeOK', NEW t \in Thread, OnceNext(t)
    PROVE  RecordInv'
<1> USE ConstantsAssumption DEF RecordInv, TypeOK, InStop, Live, At, Goto
<1>1. RemovingStops'
  BY DEF OnceNext, session, RemovingStops
<1>2. NamesExist'
  BY DEF OnceNext, session, NamesExist
<1>3. FreeIsFresh'
  BY DEF OnceNext, session, FreeIsFresh
<1>4. SpawnsOnce'
  BY DEF OnceNext, session, SpawnsOnce
<1>5. JoinsOnce'
  BY DEF OnceNext, session, JoinsOnce
<1>6. OutOfMap'
  BY DEF OnceNext, session, OutOfMap
<1>7. FileIsOfId'
  BY DEF OnceNext, session, FileIsOfId
<1>8. StoppedIsOver'
  BY DEF OnceNext, session, StoppedIsOver
<1>9. FileHasSession'
  BY DEF OnceNext, session, FileHasSession
<1> QED
  BY <1>1, <1>2, <1>3, <1>4, <1>5, <1>6, <1>7, <1>8, <1>9 DEF RecordInv

\* A join ends after the worker has.
LEMMA JoinRecord ==
    ASSUME RecordInv, TypeOK', NEW t \in Thread, Join(t)
    PROVE  RecordInv'
<1> USE ConstantsAssumption DEF RecordInv, TypeOK, InStop, Live, At, Goto
<1>1. RemovingStops'
  BY DEF Join, RemovingStops
<1>2. NamesExist'
  BY DEF Join, NamesExist
<1>3. FreeIsFresh'
  BY DEF Join, FreeIsFresh
<1>4. SpawnsOnce'
  BY DEF Join, SpawnsOnce
<1>5. JoinsOnce'
  BY DEF Join, JoinsOnce
<1>6. OutOfMap'
  BY DEF Join, OutOfMap
<1>7. FileIsOfId'
  BY DEF Join, FileIsOfId
<1>8. StoppedIsOver'
  BY DEF Join, StoppedIsOver
<1>9. FileHasSession'
  BY DEF Join, FileHasSession
<1> QED
  BY <1>1, <1>2, <1>3, <1>4, <1>5, <1>6, <1>7, <1>8, <1>9 DEF RecordInv

\* A session is reported stopped after the call_once.
LEMMA FinishRecord ==
    ASSUME RecordInv, TypeOK', NEW t \in Thread, Finish(t)
    PROVE  RecordInv'
<1> USE ConstantsAssumption DEF RecordInv, TypeOK, InStop, Live, At, Goto
<1>1. RemovingStops'
  BY DEF Finish, Return, RemovingStops
<1>2. NamesExist'
  BY DEF Finish, Return, NamesExist
<1>3. FreeIsFresh'
  BY DEF Finish, Return, FreeIsFresh
<1>4. SpawnsOnce'
  BY DEF Finish, Return, SpawnsOnce
<1>5. JoinsOnce'
  BY DEF Finish, Return, JoinsOnce
<1>6. OutOfMap'
  BY DEF Finish, Return, OutOfMap
<1>7. FileIsOfId'
  BY DEF Finish, Return, FileIsOfId
<1>8. StoppedIsOver'
  BY DEF Finish, Return, StoppedIsOver, JoinsOnce
<1>9. FileHasSession'
  BY DEF Finish, Return, FileHasSession
<1> QED
  BY <1>1, <1>2, <1>3, <1>4, <1>5, <1>6, <1>7, <1>8, <1>9 DEF RecordInv

\* record.remove unlinks the file of its session, once that is over.
LEMMA UnlinkRecord ==
    ASSUME RecordInv, TypeOK', NEW t \in Thread, Unlink(t)
    PROVE  RecordInv'
<1> USE ConstantsAssumption DEF RecordInv, TypeOK, InStop, Live, At, Goto
<1>1. RemovingStops'
  BY DEF Unlink, Return, session, RemovingStops
<1>2. NamesExist'
  BY DEF Unlink, Return, session, NamesExist
<1>3. FreeIsFresh'
  BY DEF Unlink, Return, session, FreeIsFresh
<1>4. SpawnsOnce'
  BY DEF Unlink, Return, session, SpawnsOnce
<1>5. JoinsOnce'
  BY DEF Unlink, Return, session, JoinsOnce
<1>6. OutOfMap'
  BY DEF Unlink, Return, session, OutOfMap, JoinsOnce
<1>7. FileIsOfId'
  BY DEF Unlink, Return, session, FileIsOfId
<1>8. StoppedIsOver'
  BY DEF Unlink, Return, session, StoppedIsOver
<1>9. FileHasSession'
  BY DEF Unlink, Return, session, FileHasSession, FileIsOfId
<1> QED
  BY <1>1, <1>2, <1>3, <1>4, <1>5, <1>6, <1>7, <1>8, <1>9 DEF RecordInv

\* A worker opens, and thereby takes over, the file of its id.
LEMMA OpenRecord ==
    ASSUME RecordInv, TypeOK', NEW s \in Session, Open(s)
    PROVE  RecordInv'
<1> USE ConstantsAssumption DEF RecordInv, TypeOK, InStop, Live, At, Goto
<1>1. RemovingStops'
  BY DEF Open, caller, RemovingStops
<1>2. NamesExist'
  BY DEF Open, caller, NamesExist
<1>3. FreeIsFresh'
  BY DEF Open, caller, FreeIsFresh
<1>4. SpawnsOnce'
  BY DEF Open, caller, SpawnsOnce
<1>5. JoinsOnce'
  BY DEF Open, caller, JoinsOnce
<1>6. OutOfMap'
  BY DEF Open, caller, OutOfMap
<1>7. FileIsOfId'
  BY DEF Open, caller, FileIsOfId
<1>8. StoppedIsOver'
  BY DEF Open, caller, StoppedIsOver
<1>9. FileHasSession'
  BY DEF Open, caller, FileHasSession, OutOfMap, JoinsOnce
<1> QED
  BY <1>1, <1>2, <1>3, <1>4, <1>5, <1>6, <1>7, <1>8, <1>9 DEF RecordInv

\* A worker leaves its loop when the flag is up.
LEMMA CheckStopRecord ==
    ASSUME RecordInv, TypeOK', NEW s \in Session, CheckStop(s)
    PROVE  RecordInv'
<1> USE ConstantsAssumption DEF RecordInv, TypeOK, InStop, Live, At, Goto
<1>1. RemovingStops'
  BY DEF CheckStop, caller, RemovingStops
<1>2. NamesExist'
  BY DEF CheckStop, caller, NamesExist
<1>3. FreeIsFresh'
  BY DEF CheckStop, caller, FreeIsFresh
<1>4. SpawnsOnce'
  BY DEF CheckStop, caller, SpawnsOnce
<1>5. JoinsOnce'
  BY DEF CheckStop, caller, JoinsOnce
<1>6. OutOfMap'
  BY DEF CheckStop, caller, OutOfMap
<1>7. FileIsOfId'
  BY DEF CheckStop, caller, FileIsOfId
<1>8. StoppedIsOver'
  BY DEF CheckStop, caller, StoppedIsOver
<1>9. FileHasSession'
  BY DEF CheckStop, caller, FileHasSession
<1> QED
  BY <1>1, <1>2, <1>3, <1>4, <1>5, <1>6, <1>7, <1>8, <1>9 DEF RecordInv

\* A sample goes into the file of a session that is not over.
LEMMA SampleRecord ==
    ASSUME RecordInv, TypeOK', NEW s \in Session, Sample(s)
    PROVE  RecordInv'
<1> USE ConstantsAssumption DEF RecordInv, TypeOK, InStop, Live, At, Goto
<1>1. RemovingStops'
  BY DEF Sample, caller, RemovingStops
<1>2. NamesExist'
  BY DEF Sample, caller, NamesExist
<1>3. FreeIsFresh'
  BY DEF Sample, caller, FreeIsFresh
<1>4. SpawnsOnce'
  BY DEF Sample, caller, SpawnsOnce
<1>5. JoinsOnce'
  BY DEF Sample, caller, JoinsOnce
<1>6. OutOfMap'
  BY DEF Sample, caller, OutOfMap
<1>7. FileIsOfId'
  BY DEF Sample, caller, FileIsOfId
<1>8. StoppedIsOver'
  BY DEF Sample, caller, StoppedIsOver
<1>9. FileHasSession'
  BY DEF Sample, caller, FileHasSession
<1> QED
  BY <1>1, <1>2, <1>3, <1>4, <1>5, <1>6, <1>7, <1>8, <1>9 DEF RecordInv

\* A worker that ends is running no more.
LEMMA EndRecord ==
    ASSUME RecordInv, TypeOK', NEW s \in Session, End(s)
    PROVE  RecordInv'
<1> USE ConstantsAssumption DEF RecordInv, TypeOK, InStop, Live, At, Goto
<1>1. RemovingStops'
  BY DEF End, caller, RemovingStops
<1>2. NamesExist'
  BY DEF End, caller, NamesExist
<1>3. FreeIsFresh'
  BY DEF End, caller, FreeIsFresh
<1>4. SpawnsOnce'
  BY DEF End, caller, SpawnsOnce
<1>5. JoinsOnce'
  BY DEF End, caller, JoinsOnce
<1>6. OutOfMap'
  BY DEF End, caller, OutOfMap
<1>7. FileIsOfId'
  BY DEF End, caller, FileIsOfId
<1>8. StoppedIsOver'
  BY DEF End, caller, StoppedIsOver
<1>9. FileHasSession'
  BY DEF End, caller, FileHasSession
<1> QED
  BY <1>1, <1>2, <1>3, <1>4, <1>5, <1>6, <1>7, <1>8, <1>9 DEF RecordInv

\* A session that nothing refers to is free for another use.
LEMMA DestroySessionRecord ==
    ASSUME RecordInv, TypeOK', NEW s \in Session, DestroySession(s)
    PROVE  RecordInv'
<1> USE ConstantsAssumption DEF RecordInv, TypeOK, InStop, Live, At, Goto
\* A session that goes and is still the last to have opened a file has a worker
\* that nobody joined, and takes the process with it.
<1>0. \A i \in Id : file[i] = s => wpc[s] = "exited" /\ aborted'
  <2>1. ASSUME NEW i \in Id, file[i] = s  PROVE s \in early
    BY <2>1 DEF DestroySession, Referenced, FileHasSession
  <2>2. wpc[s] \notin Live \cup {"none"}
    BY DEF DestroySession, Referenced, SpawnsOnce
  <2>3. wpc[s] \in Live \cup {"none", "exited", "joined"}
    OBVIOUS
  <2>4. aborted' <=> wpc[s] = "exited"
    BY DEF DestroySession
  <2> QED
    BY <2>1, <2>2, <2>3, <2>4 DEF JoinsOnce
<1>1. RemovingStops'
  BY DEF DestroySession, Referenced, caller, RemovingStops
<1>2. NamesExist'
  BY DEF DestroySession, Referenced, caller, NamesExist
<1>3. FreeIsFresh'
  BY DEF DestroySession, Referenced, caller, FreeIsFresh
<1>4. SpawnsOnce'
  BY DEF DestroySession, Referenced, caller, SpawnsOnce
<1>5. JoinsOnce'
  BY DEF DestroySession, Referenced, caller, JoinsOnce
<1>6. OutOfMap'
  BY DEF DestroySession, Referenced, caller, OutOfMap
<1>7. FileIsOfId'
  BY <1>0 DEF DestroySession, caller, FileIsOfId
<1>8. StoppedIsOver'
  BY DEF DestroySession, Referenced, caller, StoppedIsOver
<1>9. FileHasSession'
  BY <1>0 DEF DestroySession, caller, FileHasSession
<1> QED
  BY <1>1, <1>2, <1>3, <1>4, <1>5, <1>6, <1>7, <1>8, <1>9 DEF RecordInv

\* Instances come and go without a session being touched.
LEMMA InstanceComesAndGoesRecord ==
    ASSUME RecordInv, TypeOK', InstanceComesAndGoes
    PROVE  RecordInv'
<1> USE ConstantsAssumption DEF RecordInv, TypeOK, InStop, Live, At, Goto
<1>1. RemovingStops'
  BY DEF InstanceComesAndGoes, session, caller, RemovingStops
<1>2. NamesExist'
  BY DEF InstanceComesAndGoes, session, caller, NamesExist
<1>3. FreeIsFresh'
  BY DEF InstanceComesAndGoes, session, caller, FreeIsFresh
<1>4. SpawnsOnce'
  BY DEF InstanceComesAndGoes, session, caller, SpawnsOnce
<1>5. JoinsOnce'
  BY DEF InstanceComesAndGoes, session, caller, JoinsOnce
<1>6. OutOfMap'
  BY DEF InstanceComesAndGoes, session, caller, OutOfMap
<1>7. FileIsOfId'
  BY DEF InstanceComesAndGoes, session, caller, FileIsOfId
<1>8. StoppedIsOver'
  BY DEF InstanceComesAndGoes, session, caller, StoppedIsOver
<1>9. FileHasSession'
  BY DEF InstanceComesAndGoes, session, caller, FileHasSession
<1> QED
  BY <1>1, <1>2, <1>3, <1>4, <1>5, <1>6, <1>7, <1>8, <1>9 DEF RecordInv

\* Every step keeps the invariant.
LEMMA NextRecord == RecordInv /\ [Next]_vars => RecordInv'
<1> SUFFICES ASSUME RecordInv, [Next]_vars
             PROVE  RecordInv'
  OBVIOUS
<1>1. TypeOK'
  BY NextTypes DEF RecordInv
<1>2. CASE UNCHANGED vars
  BY <1>1, <1>2
     DEF vars, session, caller, RecordInv, RemovingStops, NamesExist,
         FreeIsFresh, SpawnsOnce, JoinsOnce, OutOfMap, FileIsOfId,
         StoppedIsOver, FileHasSession
<1> QED
  BY <1>1, <1>2, StartRecord, SpawnRecord, StopRecord, RemoveRecord,
     RequestRecord, OnceFirstRecord, OnceNextRecord, JoinRecord, FinishRecord,
     UnlinkRecord, OpenRecord, CheckStopRecord, SampleRecord, EndRecord,
     DestroySessionRecord, InstanceComesAndGoesRecord
     DEF Next, Call, Continue, Worker, Dead

\* record.info and record.list say that a recording has stopped only when its
\* last frame is written, except after a stop that came before the thread.
THEOREM StoppedOver == Spec => []StoppedIsOver
<1>1. RecordInv => StoppedIsOver
  BY DEF RecordInv
<1> QED
  BY InitRecord, NextRecord, <1>1, PTL DEF Spec

\* The last reference to a session goes only after somebody has joined its
\* worker, with the same exception.
THEOREM DestroyedJoined == Spec => []DestroyedIsJoined
<1>1. ASSUME RecordInv, NEW s \in Session, idOf[s] # NoId, ~Referenced(s)
      PROVE  wpc[s] = "joined" \/ s \in early
  <2>1. sessions[idOf[s]] # s /\ \A t \in Thread : mine[t] # s
    BY <1>1 DEF Referenced, RecordInv, TypeOK
  <2>2. once[s] = "used"
    BY <1>1, <2>1 DEF RecordInv, TypeOK, OutOfMap
  <2> QED
    BY <2>2, <1>1 DEF RecordInv, JoinsOnce
<1>2. RecordInv => DestroyedIsJoined
  BY <1>1 DEF DestroyedIsJoined
<1> QED
  BY InitRecord, NextRecord, <1>2, PTL DEF Spec

\* record.remove leaves no file behind: every file is one of a session that is
\* in the map or being removed, with the same exception.
THEOREM FileOwned == Spec => []FileHasSession
<1>1. RecordInv => FileHasSession
  BY DEF RecordInv
<1> QED
  BY InitRecord, NextRecord, <1>1, PTL DEF Spec
=============================================================================
