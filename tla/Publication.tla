---------------------------- MODULE Publication ----------------------------
(***************************************************************************)
(* The WebSocket side of SimulationPlug (src/source/simulation_plug.cpp):  *)
(* what sessions subscribe to, and publish_state(), by which the handlers  *)
(* and the workers tell them what an instance has become.                  *)
(*                                                                         *)
(* A publisher is a thread that changes an instance, or samples it, and    *)
(* then publishes the snapshot it has taken: the change under the mutex of *)
(* the instance, the choice of receivers under ws_mutex_, each send under  *)
(* neither.  It holds the instance (a shared_ptr in a handler, the object  *)
(* whose loop a worker runs), which may since have lost its id to destroy  *)
(* or recreate: it publishes under that id all the same.                  *)
(*                                                                         *)
(* The callbacks of one session come one at a time.  The gateway refuses   *)
(* sends to a session from the moment it closes, calls handle_ws_close     *)
(* some time later, may still deliver messages it received before, and     *)
(* does not use a session id twice.  Instances are here only with the      *)
(* status that is published.                                               *)
(***************************************************************************)
EXTENDS Naturals, FiniteSets

CONSTANTS
    Publisher,  \* threads that publish: RPC handlers and workers
    Session,    \* WebSocket sessions
    InstanceId, \* ids of instances
    Name,       \* what a message may name: ids, existing or not
    All,        \* "*"
    NoSub,      \* no entry in ws_subscriptions_
    NoJob,
    MaxSubscriptions    \* kMaxSubscriptions

ASSUME ConstantsAssumption ==
    /\ InstanceId \subseteq Name
    /\ All \notin Name
    /\ MaxSubscriptions \in Nat \ {0}

VARIABLES
    conn,       \* each session: not yet open, open, closing (sends fail), or
                \* closed (handle_ws_close has run)
    subs,       \* ws_subscriptions_
    replying,   \* sessions of which a callback has its reply still to send
    status,     \* the status of each instance; "destroyed": not found
    holders,    \* of each id, the publishers that hold its instance
    orphans,    \* ... and those that hold one that had the id before
    throttle,   \* the ids in last_visual_publish_
    pc, job,    \* each publisher: where it is in publish_state(), with what
    told,       \* history: what a session was sent last of each instance
    receivers,  \* history: who was to receive the last publication of each id
    raced       \* history: ids whose last publication overlapped another one
                \* or was of an instance that had lost the id, or whose
                \* instance has changed since without any

held == <<holders, orphans>>
publisher == <<held, pc, job, receivers, raced>>
vars == <<conn, subs, replying, status, throttle, publisher, told>>

Nobody == [plain |-> {}, visual |-> {}]

Init ==
    /\ conn = [s \in Session |-> "new"]
    /\ subs = [s \in Session |-> NoSub]
    /\ replying = {}
    /\ status = [i \in InstanceId |-> "destroyed"]
    /\ holders = [i \in InstanceId |-> {}]
    /\ orphans = [i \in InstanceId |-> {}]
    /\ throttle = {}
    /\ pc = [p \in Publisher |-> "idle"]
    /\ job = [p \in Publisher |-> NoJob]
    /\ told = [s \in Session |-> [i \in InstanceId |-> "none"]]
    /\ receivers = [i \in InstanceId |-> Nobody]
    /\ raced = {}

-----------------------------------------------------------------------------
(* Callbacks of a session *)

\* A send that finds the session closed erases its entry.
SendFails(s) == conn[s] # "open"
Drop(s) == subs' = [subs EXCEPT ![s] = NoSub]

\* handle_ws_open: the hello is a reply like any other.
Open(s) ==
    /\ conn[s] = "new"
    /\ conn' = [conn EXCEPT ![s] = "open"]
    /\ replying' = replying \cup {s}
    /\ UNCHANGED <<subs, status, throttle, publisher, told>>

Close(s) ==
    /\ conn[s] = "open"
    /\ conn' = [conn EXCEPT ![s] = "closing"]
    /\ UNCHANGED <<subs, replying, status, throttle, publisher, told>>

HandleClose(s) ==
    /\ conn[s] = "closing"
    /\ s \notin replying
    /\ conn' = [conn EXCEPT ![s] = "closed"]
    /\ Drop(s)
    /\ UNCHANGED <<replying, status, throttle, publisher, told>>

\* The instances of a message; a longer list is refused.
Named == {names \in SUBSET (Name \cup {All}) :
             IsFiniteSet(names) /\ Cardinality(names) <= MaxSubscriptions}

Merged(old, names) ==
    IF All \in names THEN {All}
    ELSE IF All \in old THEN old
    ELSE old \cup names

HandleMessage(s) ==
    /\ conn[s] # "new"
    /\ s \notin replying
    /\ replying' = replying \cup {s}
    /\ UNCHANGED <<conn, status, throttle, publisher, told>>

\* visual: "keep" when the message has no such field.
Subscribe(s, names, visual) ==
    /\ HandleMessage(s)
    /\ names # {}
    /\ LET had  == IF subs[s] = NoSub THEN [instances |-> {}, visual |-> FALSE]
                   ELSE subs[s]
           next == [instances |-> Merged(had.instances, names),
                    visual |-> IF visual = "keep" THEN had.visual
                               ELSE visual = "on"]
       IN  IF Cardinality(next.instances) > MaxSubscriptions
           THEN UNCHANGED subs
           ELSE subs' = [subs EXCEPT ![s] = next]

\* Mutant: an entry that names nothing any more is kept.
UnsubscribeKeepsEntry(s, names) ==
    /\ HandleMessage(s)
    /\ names # {}
    /\ subs' = IF subs[s] = NoSub THEN subs
               ELSE IF All \in names THEN [subs EXCEPT ![s] = NoSub]
               ELSE [subs EXCEPT ![s].instances = @ \ names]

Unsubscribe(s, names) ==
    /\ HandleMessage(s)
    /\ names # {}
    /\ subs' = IF subs[s] = NoSub THEN subs
               ELSE IF All \in names \/ subs[s].instances \subseteq names
               THEN [subs EXCEPT ![s] = NoSub]
               ELSE [subs EXCEPT ![s].instances = @ \ names]

\* ping, and what is answered with an error.
OtherMessage(s) == HandleMessage(s) /\ UNCHANGED subs

\* Mutant: nobody looks at the result of a reply.
ReplyUnchecked(s) ==
    /\ s \in replying
    /\ replying' = replying \ {s}
    /\ UNCHANGED <<conn, subs, status, throttle, publisher, told>>

Reply(s) ==
    /\ s \in replying
    /\ replying' = replying \ {s}
    /\ IF SendFails(s) THEN Drop(s) ELSE UNCHANGED subs
    /\ UNCHANGED <<conn, status, throttle, publisher, told>>

-----------------------------------------------------------------------------
(* Publishers *)

Publishing(i) == {p \in Publisher : pc[p] # "idle" /\ job[p].id = i}

Begin(p, i, event) ==
    /\ pc[p] = "idle"
    /\ job' = [job EXCEPT ![p] = [id |-> i, event |-> event, to |-> Nobody]]
    /\ pc' = [pc EXCEPT ![p] = "collect"]
    /\ UNCHANGED <<conn, subs, replying, throttle, told, receivers>>

\* Whether the publication that begins is one that raced is not about.
Race(i, alone) == raced' = IF alone THEN raced \ {i} ELSE raced \cup {i}

Free(p) ==
    /\ pc[p] = "idle"
    /\ \A i \in InstanceId : p \notin holders[i] \cup orphans[i]

Existing(i) == status[i] # "destroyed"

\* find_or_throw(), or the worker that a start() of the instance creates.
Find(p, i) ==
    /\ Free(p)
    /\ Existing(i)
    /\ holders' = [holders EXCEPT ![i] = @ \cup {p}]
    /\ UNCHANGED <<conn, subs, replying, status, orphans, throttle, pc, job, told,
                   receivers, raced>>

\* The handler drops its reference, or has thrown; the worker has been joined.
Release(p, i) ==
    /\ p \in holders[i] \cup orphans[i]
    /\ holders' = [holders EXCEPT ![i] = @ \ {p}]
    /\ orphans' = [orphans EXCEPT ![i] = @ \ {p}]
    /\ UNCHANGED <<conn, subs, replying, status, throttle, pc, job, told,
                   receivers, raced>>

\* An operation of the instance that is held, or a sample by its worker: the
\* publisher has the status as it left it, of an instance which need not be
\* the id's any more.
Operate(p, i, event) ==
    /\ p \in holders[i] \cup orphans[i]
    /\ Begin(p, i, event)
    /\ status' = IF p \in holders[i] THEN [status EXCEPT ![i] = event] ELSE status
    /\ Race(i, p \in holders[i] /\ Publishing(i) = {})
    /\ UNCHANGED held

Create(p, i, event) ==
    /\ Free(p)
    /\ ~Existing(i)
    /\ Begin(p, i, event)
    /\ status' = [status EXCEPT ![i] = event]
    /\ Race(i, Publishing(i) = {})
    /\ UNCHANGED held

\* The instance leaves the map: whoever holds it may go on with it.
Orphan(i) ==
    /\ holders' = [holders EXCEPT ![i] = {}]
    /\ orphans' = [orphans EXCEPT ![i] = @ \cup holders[i]]

Destroy(p, i) ==
    /\ Free(p)
    /\ Existing(i)
    /\ Begin(p, i, "destroyed")
    /\ status' = [status EXCEPT ![i] = "destroyed"]
    /\ Race(i, Publishing(i) = {})
    /\ Orphan(i)

\* task.run operates instances and publishes nothing; a recreate takes the
\* instance out of the map, and publishes nothing when it fails after that.
ChangeSilently(i, new) ==
    /\ status[i] \notin {"destroyed", new}
    /\ status' = [status EXCEPT ![i] = new]
    /\ raced' = raced \cup {i}
    /\ IF new = "destroyed" THEN Orphan(i) ELSE UNCHANGED held
    /\ UNCHANGED <<conn, subs, replying, throttle, pc, job, told, receivers>>

Wanted(s, i) == subs[s] # NoSub /\ subs[s].instances \cap {All, i} # {}

\* Nothing more to do when nobody is subscribed.
Collect(p) ==
    /\ pc[p] = "collect"
    /\ LET i  == job[p].id
           to == [plain |-> {s \in Session : Wanted(s, i) /\ ~subs[s].visual},
                  visual |-> {s \in Session : Wanted(s, i) /\ subs[s].visual}]
       IN  /\ receivers' = [receivers EXCEPT ![i] = to]
           /\ IF to = Nobody
              THEN /\ job' = [job EXCEPT ![p] = NoJob]
                   /\ pc' = [pc EXCEPT ![p] = "idle"]
              ELSE /\ job' = [job EXCEPT ![p].to = to]
                   /\ pc' = [pc EXCEPT ![p] = "plain"]
    /\ UNCHANGED <<conn, subs, replying, status, held, throttle, told, raced>>

\* The gateway queues the text, of which only the latest of a topic is sent,
\* refuses it because the session is closed, or refuses it for another reason.
Send(p, s, i) ==
    /\ IF SendFails(s)
       THEN Drop(s) /\ UNCHANGED told
       ELSE /\ \E new \in {job[p].event, "lost"} :
                   told' = [told EXCEPT ![s][i] = new]
            /\ UNCHANGED subs
    /\ UNCHANGED <<conn, replying, status, held, throttle, receivers, raced>>

SendPlain(p) ==
    /\ pc[p] = "plain"
    /\ \E s \in job[p].to.plain :
           /\ Send(p, s, job[p].id)
           /\ job' = [job EXCEPT ![p].to.plain = @ \ {s}]
    /\ UNCHANGED pc

\* Mutant: the entry of a destroyed instance stays.
ThrottleKeepsEntry(p) ==
    /\ pc[p] = "plain"
    /\ job[p].to.plain = {}
    /\ job[p].to.visual # {}
    /\ throttle' = IF job[p].event = "destroyed" THEN throttle
                   ELSE throttle \cup {job[p].id}
    /\ pc' = [pc EXCEPT ![p] = "visual"]
    /\ UNCHANGED <<conn, subs, replying, status, held, job, told, receivers,
                   raced>>

\* Mutant: within the interval the whole event is left out, not its poses.
ThrottleDropsEvent(p) ==
    /\ pc[p] = "plain"
    /\ job[p].to.plain = {}
    /\ job[p].to.visual # {}
    /\ IF job[p].event = "destroyed" \/ job[p].id \notin throttle
       THEN pc' = [pc EXCEPT ![p] = "visual"] /\ UNCHANGED job
       ELSE /\ pc' = [pc EXCEPT ![p] = "idle"]
            /\ job' = [job EXCEPT ![p] = NoJob]
    /\ throttle' = IF job[p].event = "destroyed" THEN throttle \ {job[p].id}
                   ELSE throttle \cup {job[p].id}
    /\ UNCHANGED <<conn, subs, replying, status, held, told, receivers, raced>>

\* Whether the poses are rebuilt or the interval since the entry's time has
\* not passed, the event is sent; a destroyed instance loses its entry.
Throttle(p) ==
    /\ pc[p] = "plain"
    /\ job[p].to.plain = {}
    /\ job[p].to.visual # {}
    /\ throttle' = IF job[p].event = "destroyed" THEN throttle \ {job[p].id}
                   ELSE throttle \cup {job[p].id}
    /\ pc' = [pc EXCEPT ![p] = "visual"]
    /\ UNCHANGED <<conn, subs, replying, status, held, job, told, receivers,
                   raced>>

SendVisual(p) ==
    /\ pc[p] = "visual"
    /\ \E s \in job[p].to.visual :
           /\ Send(p, s, job[p].id)
           /\ job' = [job EXCEPT ![p].to.visual = @ \ {s}]
    /\ UNCHANGED pc

Published(p) ==
    /\ pc[p] \in {"plain", "visual"}
    /\ job[p].to = Nobody
    /\ job' = [job EXCEPT ![p] = NoJob]
    /\ pc' = [pc EXCEPT ![p] = "idle"]
    /\ UNCHANGED <<conn, subs, replying, status, held, throttle, told, receivers,
                   raced>>

-----------------------------------------------------------------------------
Callback(s) ==
    \/ Open(s) \/ Close(s) \/ HandleClose(s)
    \/ \E names \in Named :
           \/ \E visual \in {"keep", "on", "off"} : Subscribe(s, names, visual)
           \/ Unsubscribe(s, names)
    \/ OtherMessage(s) \/ Reply(s)

Publish(p) ==
    Collect(p) \/ SendPlain(p) \/ Throttle(p) \/ SendVisual(p) \/ Published(p)

Next ==
    \/ \E s \in Session : Callback(s)
    \/ \E p \in Publisher : Publish(p)
    \/ \E p \in Publisher, i \in InstanceId :
           \/ Find(p, i) \/ Release(p, i)
           \/ \E event \in {"running", "paused"} :
                  Operate(p, i, event) \/ Create(p, i, event)
           \/ Destroy(p, i)
    \/ \E i \in InstanceId, new \in {"running", "paused", "destroyed"} :
           ChangeSilently(i, new)

Spec == Init /\ [][Next]_vars

-----------------------------------------------------------------------------
(* Properties *)

Event == {"running", "paused", "destroyed"}
Subscription == [instances : SUBSET (Name \cup {All}), visual : BOOLEAN]
Receivers == [plain : SUBSET Session, visual : SUBSET Session]
Job == [id : InstanceId, event : Event, to : Receivers]

HeldOK ==
    /\ holders \in [InstanceId -> SUBSET Publisher]
    /\ orphans \in [InstanceId -> SUBSET Publisher]

\* What the plugin keeps of its sessions, and of a publication under way.
TypeOK ==
    /\ conn \in [Session -> {"new", "open", "closing", "closed"}]
    /\ subs \in [Session -> Subscription \cup {NoSub}]
    /\ replying \subseteq Session
    /\ status \in [InstanceId -> Event]
    /\ HeldOK
    /\ throttle \subseteq InstanceId
    /\ pc \in [Publisher -> {"idle", "collect", "plain", "visual"}]
    /\ job \in [Publisher -> Job \cup {NoJob}]
    /\ told \in [Session -> [InstanceId -> Event \cup {"none", "lost"}]]
    /\ receivers \in [InstanceId -> Receivers]
    /\ raced \subseteq InstanceId

\* An entry names something, no more than the limit, and nothing beside "*":
\* a session that unsubscribed from all it had subscribed to is forgotten.
EntryBounds ==
    \A s \in Session : subs[s] # NoSub =>
        /\ subs[s].instances # {}
        /\ Cardinality(subs[s].instances) <= MaxSubscriptions
        /\ All \in subs[s].instances => subs[s].instances = {All}

\* A session whose close the plugin has handled has no entry, whatever
\* message of it was handled late: the reply to that message fails, and takes
\* the entry with it.
NoGhost ==
    \A s \in Session :
        conn[s] = "closed" /\ s \notin replying => subs[s] = NoSub

\* What a session that is still open was sent last of an instance is what the
\* instance is, "destroyed" included, once the publication of its last change
\* is over, unless that overlapped another publication of the id, the change
\* was never published, or a former instance of the id was published since.
LastIsCurrent ==
    \A i \in InstanceId : Publishing(i) = {} /\ i \notin raced =>
        \A s \in receivers[i].plain \cup receivers[i].visual :
            conn[s] = "open" => told[s][i] \in {status[i], "lost"}

\* The entry that limits how often poses are rebuilt goes with the instance,
\* unless no visual session was to be told of its end, or a publication that
\* overlapped this, or came after it from one who held the instance, has put
\* the entry back.
ThrottleForgotten ==
    \A i \in throttle :
        Publishing(i) = {} /\ i \notin raced /\ status[i] = "destroyed"
            => receivers[i].visual = {}
=============================================================================
