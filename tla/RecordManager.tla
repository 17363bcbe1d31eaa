---------------------------- MODULE RecordManager ----------------------------
(***************************************************************************)
(* SimulationRecordManager (src/source/simulation_record_manager.cpp): the *)
(* sessions that sample an instance into a JSONL file, each with a worker  *)
(* thread of its own, and the callers of start, stop and remove.           *)
(*                                                                         *)
(* An action is one critical section (of mutex_ or of a session's mutex),  *)
(* or one step taken outside both: assigning the thread, entering          *)
(* call_once, joining, opening or deleting the file.                       *)
(***************************************************************************)
EXTENDS FiniteSets

CONSTANTS
    Thread,     \* the gateway threads that run RPC handlers
    Id,         \* record ids, each with the file <id>.jsonl
    Session,    \* identities of Session objects, and of their workers
    NoSession,  \* a null shared_ptr; no file
    NoId

ASSUME ConstantsAssumption == NoSession \notin Session /\ NoId \notin Id

VARIABLES
    sessions,       \* sessions_
    file,           \* for each path the session whose worker opened it last
    idOf,           \* the id, and with it the file_path, of each session
    stopRequested,  \* stop_requested of each session
    running,        \* running of each session: what list and info report
    once,           \* join_once of each session
    wpc,            \* where each worker is; "none": worker is not joinable
    last,           \* the kind of the last frame each worker has written
    pc,             \* where each RPC thread is
    mine,           \* the shared_ptr<Session> of its handler
    removing,       \* RPC threads in remove(), not stop()
    present,        \* the recorded instance can be found
    early,          \* history: join_once was used up before worker was set
    aborted         \* the process has terminated

session == <<idOf, stopRequested, running, once, wpc, last>>
caller == <<pc, mine, removing>>
vars == <<sessions, file, session, caller, present, early, aborted>>

Live == {"opening", "looping", "sampling", "closing"}

TypeOK ==
    /\ sessions \in [Id -> Session \cup {NoSession}]
    /\ file \in [Id -> Session \cup {NoSession}]
    /\ idOf \in [Session -> Id \cup {NoId}]
    /\ stopRequested \in [Session -> BOOLEAN]
    /\ running \in [Session -> BOOLEAN]
    /\ once \in [Session -> {"unused", "busy", "used"}]
    /\ wpc \in [Session -> Live \cup {"none", "exited", "joined"}]
    /\ last \in [Session -> {"none", "frame", "error"}]
    /\ pc \in [Thread -> {"idle", "spawn", "request", "once", "joining",
                          "finish", "unlink"}]
    /\ mine \in [Thread -> Session \cup {NoSession}]
    /\ removing \subseteq Thread
    /\ present \in BOOLEAN
    /\ early \subseteq Session
    /\ aborted \in BOOLEAN
    /\ \A t \in Thread : mine[t] = NoSession <=> pc[t] = "idle"

Init ==
    /\ sessions = [i \in Id |-> NoSession]
    /\ file = [i \in Id |-> NoSession]
    /\ idOf = [s \in Session |-> NoId]
    /\ stopRequested = [s \in Session |-> FALSE]
    /\ running = [s \in Session |-> FALSE]
    /\ once = [s \in Session |-> "unused"]
    /\ wpc = [s \in Session |-> "none"]
    /\ last = [s \in Session |-> "none"]
    /\ pc = [t \in Thread |-> "idle"]
    /\ mine = [t \in Thread |-> NoSession]
    /\ removing = {}
    /\ present = TRUE
    /\ early = {}
    /\ aborted = FALSE

At(t, label) == ~aborted /\ pc[t] = label
Goto(t, label) == pc' = [pc EXCEPT ![t] = label]

\* The handler returns: its shared_ptr goes.
Return(t) ==
    /\ Goto(t, "idle")
    /\ mine' = [mine EXCEPT ![t] = NoSession]
    /\ removing' = removing \ {t}

-----------------------------------------------------------------------------
(* start() *)

\* The session is in the map before its thread exists.  Bound: a session
\* identity is free.
Start(t, i) ==
    /\ At(t, "idle")
    /\ sessions[i] = NoSession
    /\ \E s \in Session :
           /\ idOf[s] = NoId
           /\ sessions' = [sessions EXCEPT ![i] = s]
           /\ idOf' = [idOf EXCEPT ![s] = i]
           /\ running' = [running EXCEPT ![s] = TRUE]
           /\ mine' = [mine EXCEPT ![t] = s]
    /\ Goto(t, "spawn")
    /\ UNCHANGED <<file, stopRequested, once, wpc, last, removing, present,
                   early, aborted>>

Spawn(t) ==
    /\ At(t, "spawn")
    /\ wpc' = [wpc EXCEPT ![mine[t]] = "opening"]
    /\ Return(t)
    /\ UNCHANGED <<sessions, file, idOf, stopRequested, running, once, last,
                   present, early, aborted>>

-----------------------------------------------------------------------------
(* stop(), remove() and what they share, stop_session() *)

Stop(t, i) ==
    /\ At(t, "idle")
    /\ sessions[i] # NoSession
    /\ mine' = [mine EXCEPT ![t] = sessions[i]]
    /\ Goto(t, "request")
    /\ UNCHANGED <<sessions, file, session, removing, present, early, aborted>>

\* Mutant: the file goes before the worker does.
RemoveFileFirst(t, i) ==
    /\ At(t, "idle")
    /\ sessions[i] # NoSession
    /\ mine' = [mine EXCEPT ![t] = sessions[i]]
    /\ sessions' = [sessions EXCEPT ![i] = NoSession]
    /\ file' = [file EXCEPT ![i] = NoSession]
    /\ Goto(t, "request")
    /\ UNCHANGED <<session, removing, present, early, aborted>>

Remove(t, i) ==
    /\ At(t, "idle")
    /\ sessions[i] # NoSession
    /\ mine' = [mine EXCEPT ![t] = sessions[i]]
    /\ sessions' = [sessions EXCEPT ![i] = NoSession]
    /\ removing' = removing \cup {t}
    /\ Goto(t, "request")
    /\ UNCHANGED <<file, session, present, early, aborted>>

\* Mutant: the session is reported stopped when it is asked to stop.
RequestAndReport(t) ==
    /\ At(t, "request")
    /\ stopRequested' = [stopRequested EXCEPT ![mine[t]] = TRUE]
    /\ running' = [running EXCEPT ![mine[t]] = FALSE]
    /\ Goto(t, "once")
    /\ UNCHANGED <<sessions, file, idOf, once, wpc, last, mine, removing,
                   present, early, aborted>>

\* Mutant: the caller waits for a worker it has not told to stop.
RequestSilently(t) ==
    /\ At(t, "request")
    /\ Goto(t, "once")
    /\ UNCHANGED <<sessions, file, session, mine, removing, present, early,
                   aborted>>

Request(t) ==
    /\ At(t, "request")
    /\ stopRequested' = [stopRequested EXCEPT ![mine[t]] = TRUE]
    /\ Goto(t, "once")
    /\ UNCHANGED <<sessions, file, idOf, running, once, wpc, last, mine,
                   removing, present, early, aborted>>

\* Mutant: a session that has ended by itself needs no join.
OnceFirstIfRunning(t) ==
    /\ At(t, "once")
    /\ once[mine[t]] = "unused"
    /\ IF ~running[mine[t]]
       THEN /\ once' = [once EXCEPT ![mine[t]] = "used"]
            /\ Goto(t, "finish")
       ELSE /\ once' = [once EXCEPT ![mine[t]] = "busy"]
            /\ Goto(t, "joining")
    /\ UNCHANGED <<sessions, file, idOf, stopRequested, running, wpc, last,
                   mine, removing, present, early, aborted>>

\* The first caller runs the callable of call_once: it joins if there is a
\* thread to join, and uses the flag up either way.
OnceFirst(t) ==
    /\ At(t, "once")
    /\ once[mine[t]] = "unused"
    /\ IF wpc[mine[t]] = "none"
       THEN /\ once' = [once EXCEPT ![mine[t]] = "used"]
            /\ early' = early \cup {mine[t]}
            /\ Goto(t, "finish")
       ELSE /\ once' = [once EXCEPT ![mine[t]] = "busy"]
            /\ Goto(t, "joining")
            /\ UNCHANGED early
    /\ UNCHANGED <<sessions, file, idOf, stopRequested, running, wpc, last,
                   mine, removing, present, aborted>>

\* Every other caller waits until the callable has returned.
OnceNext(t) ==
    /\ At(t, "once")
    /\ once[mine[t]] = "used"
    /\ Goto(t, "finish")
    /\ UNCHANGED <<sessions, file, session, mine, removing, present, early,
                   aborted>>

Join(t) ==
    /\ At(t, "joining")
    /\ wpc[mine[t]] = "exited"
    /\ wpc' = [wpc EXCEPT ![mine[t]] = "joined"]
    /\ once' = [once EXCEPT ![mine[t]] = "used"]
    /\ Goto(t, "finish")
    /\ UNCHANGED <<sessions, file, idOf, stopRequested, running, last, mine,
                   removing, present, early, aborted>>

Finish(t) ==
    /\ At(t, "finish")
    /\ running' = [running EXCEPT ![mine[t]] = FALSE]
    /\ IF t \in removing
       THEN Goto(t, "unlink") /\ UNCHANGED <<mine, removing>>
       ELSE Return(t)
    /\ UNCHANGED <<sessions, file, idOf, stopRequested, once, wpc, last,
                   present, early, aborted>>

Unlink(t) ==
    /\ At(t, "unlink")
    /\ file' = [file EXCEPT ![idOf[mine[t]]] = NoSession]
    /\ Return(t)
    /\ UNCHANGED <<sessions, session, present, early, aborted>>

-----------------------------------------------------------------------------
(* worker_loop() of session s *)

\* std::ofstream truncates what is there.
Open(s) ==
    /\ ~aborted /\ wpc[s] = "opening"
    /\ file' = [file EXCEPT ![idOf[s]] = s]
    /\ wpc' = [wpc EXCEPT ![s] = "looping"]
    /\ UNCHANGED <<sessions, idOf, stopRequested, running, once, last, caller,
                   present, early, aborted>>

CheckStop(s) ==
    /\ ~aborted /\ wpc[s] = "looping"
    /\ wpc' = [wpc EXCEPT ![s] = IF stopRequested[s] THEN "closing"
                                 ELSE "sampling"]
    /\ UNCHANGED <<sessions, file, idOf, stopRequested, running, once, last,
                   caller, present, early, aborted>>

\* Mutant: a failed sample is recorded and the recording goes on.
SampleOn(s) ==
    /\ ~aborted /\ wpc[s] = "sampling"
    /\ wpc' = [wpc EXCEPT ![s] = "looping"]
    /\ last' = [last EXCEPT ![s] = IF present THEN "frame" ELSE "error"]
    /\ UNCHANGED <<sessions, file, idOf, stopRequested, running, once, caller,
                   present, early, aborted>>

\* A frame; or, when instances.state() throws, an error frame and the flag.
Sample(s) ==
    /\ ~aborted /\ wpc[s] = "sampling"
    /\ wpc' = [wpc EXCEPT ![s] = "looping"]
    /\ last' = [last EXCEPT ![s] = IF present THEN "frame" ELSE "error"]
    /\ stopRequested' = [stopRequested EXCEPT ![s] = @ \/ ~present]
    /\ UNCHANGED <<sessions, file, idOf, running, once, caller, present, early,
                   aborted>>

End(s) ==
    /\ ~aborted /\ wpc[s] = "closing"
    /\ running' = [running EXCEPT ![s] = FALSE]
    /\ wpc' = [wpc EXCEPT ![s] = "exited"]
    /\ UNCHANGED <<sessions, file, idOf, stopRequested, once, last, caller,
                   present, early, aborted>>

-----------------------------------------------------------------------------
(* The last shared_ptr<Session> goes: its members are destroyed, and a      *)
(* std::thread that is still joinable terminates the process.               *)

Referenced(s) ==
    \/ \E i \in Id : sessions[i] = s
    \/ \E t \in Thread : mine[t] = s
    \/ wpc[s] \in Live

DestroySession(s) ==
    /\ ~aborted /\ idOf[s] # NoId
    /\ ~Referenced(s)
    /\ aborted' = (wpc[s] = "exited")
    /\ idOf' = [idOf EXCEPT ![s] = NoId]
    /\ stopRequested' = [stopRequested EXCEPT ![s] = FALSE]
    /\ running' = [running EXCEPT ![s] = FALSE]
    /\ once' = [once EXCEPT ![s] = "unused"]
    /\ wpc' = [wpc EXCEPT ![s] = "none"]
    /\ last' = [last EXCEPT ![s] = "none"]
    /\ early' = early \ {s}
    /\ UNCHANGED <<sessions, file, caller, present>>

\* The recorded instance is destroyed, or recreated under its id.
InstanceComesAndGoes ==
    /\ ~aborted
    /\ present' = ~present
    /\ UNCHANGED <<sessions, file, session, caller, early, aborted>>

-----------------------------------------------------------------------------
Call(t) == \E i \in Id : Start(t, i) \/ Stop(t, i) \/ Remove(t, i)

Continue(t) ==
    \/ Spawn(t)
    \/ Request(t)
    \/ OnceFirst(t)
    \/ OnceNext(t)
    \/ Join(t)
    \/ Finish(t)
    \/ Unlink(t)

Worker(s) == Open(s) \/ CheckStop(s) \/ Sample(s) \/ End(s)

Dead == aborted /\ UNCHANGED vars

Next ==
    \/ \E t \in Thread : Call(t) \/ Continue(t)
    \/ \E s \in Session : Worker(s) \/ DestroySession(s)
    \/ InstanceComesAndGoes
    \/ Dead

\* A handler that has begun and a worker keep running.
Fairness ==
    /\ \A t \in Thread : WF_vars(Continue(t))
    /\ \A s \in Session : WF_vars(Worker(s))

Spec == Init /\ [][Next]_vars
FairSpec == Spec /\ Fairness

-----------------------------------------------------------------------------
(* Properties.  "early" names the one race they except: stop() or remove()  *)
(* of a session whose start() has not assigned the thread yet.              *)

\* A session that record.info reports stopped has written its last frame.
StoppedIsOver ==
    \A s \in Session :
        idOf[s] # NoId /\ ~running[s] =>
            wpc[s] \in {"exited", "joined"} \/ s \in early

\* A session that is destroyed has had its worker joined.
DestroyedIsJoined ==
    \A s \in Session :
        idOf[s] # NoId /\ ~Referenced(s) => wpc[s] = "joined" \/ s \in early

\* remove() leaves no file behind: a file belongs to a session in the map or
\* to one that remove() has still to finish with.
FileHasSession ==
    \A i \in Id : file[i] # NoSession =>
        \/ sessions[i] = file[i]
        \/ \E t \in removing : mine[t] = file[i]
        \/ file[i] \in early
        \/ idOf[file[i]] = NoId /\ aborted

\* stop() and remove() return, waiting for at most the sample in progress.
StopReturns ==
    \A t \in Thread : (pc[t] = "once") ~> (pc[t] = "idle" \/ aborted)

\* A recording whose instance cannot be found comes to its end by itself.
ErrorEnds ==
    \A s \in Session : (last[s] = "error") ~> (~running[s] \/ aborted)

=============================================================================
