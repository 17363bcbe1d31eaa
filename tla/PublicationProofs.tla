-------------------------- MODULE PublicationProofs --------------------------
(***************************************************************************)
(* Theorems about subscriptions and publish_state(), for every set of      *)
(* sessions, publishers, instance ids and names, and every limit.          *)
(***************************************************************************)
EXTENDS Publication, FiniteSetTheorems, TLAPS

-----------------------------------------------------------------------------
(* Subscriptions *)

\* A publisher in publish_state() has its arguments.
Employed == \A p \in Publisher : pc[p] # "idle" => job[p] \in Job

\* The set a session has subscribed to was built from finite messages.
FiniteEntries ==
    \A s \in Session : subs[s] # NoSub => IsFiniteSet(subs[s].instances)

\* Only a session that was opened has an entry.
KnownSubscribers == \A s \in Session : subs[s] # NoSub => conn[s] # "new"

SubscriptionInv ==
    /\ TypeOK
    /\ Employed
    /\ FiniteEntries
    /\ EntryBounds
    /\ NoGhost
    /\ KnownSubscribers

(* What the steps do to the variables they touch. *)

\* The set a subscription leads to is a set of names, finite, not empty, and
\* "*" alone when "*" is in it.
LEMMA MergedIsEntry ==
    ASSUME NEW old \in SUBSET (Name \cup {All}), IsFiniteSet(old),
           All \in old => old = {All},
           NEW names \in Named, names # {}
    PROVE  /\ Merged(old, names) \in SUBSET (Name \cup {All})
           /\ IsFiniteSet(Merged(old, names))
           /\ Merged(old, names) # {}
           /\ All \in Merged(old, names) => Merged(old, names) = {All}
<1>1. IsFiniteSet({All}) /\ IsFiniteSet(old \cup names)
  BY FS_Singleton, FS_Union DEF Named
<1> QED
  BY <1>1 DEF Merged, Named

\* One message of a publication: its receiver is off the list, and is either
\* gone, and forgotten, or has been sent the status, which may be lost.
Sent(p, s) ==
    /\ \/ /\ conn[s] # "open"
          /\ subs' = [subs EXCEPT ![s] = NoSub]
          /\ told' = told
       \/ /\ subs' = subs
          /\ \E new \in {job[p].event, "lost"} :
                 told' = [told EXCEPT ![s][job[p].id] = new]
    /\ job' \in [Publisher -> Job \cup {NoJob}]
    /\ job'[p] \in Job
    /\ job'[p].id = job[p].id
    /\ job'[p].event = job[p].event
    /\ \A u \in job[p].to.plain \cup job[p].to.visual :
           u # s => u \in job'[p].to.plain \cup job'[p].to.visual
    /\ pc[p] = "plain" => job'[p].to.visual = job[p].to.visual
    /\ \A q \in Publisher \ {p} : job'[q] = job[q]
    /\ job[p] \in Job
    /\ pc[p] \in {"plain", "visual"}
    /\ UNCHANGED <<conn, replying, status, held, throttle, pc, receivers, raced>>

\* Each message a publisher sends is such a step.
LEMMA OneSend ==
    ASSUME TypeOK, Employed, NEW p \in Publisher, SendPlain(p) \/ SendVisual(p)
    PROVE  \E s \in Session : Sent(p, s)
<1>1. job[p] \in Job /\ pc[p] \in {"plain", "visual"}
  BY DEF Employed, SendPlain, SendVisual
<1>2. CASE SendPlain(p)
  <2>1. PICK s \in job[p].to.plain :
            /\ Send(p, s, job[p].id)
            /\ job' = [job EXCEPT ![p].to.plain = @ \ {s}]
    BY <1>2 DEF SendPlain
  <2>2. /\ job' \in [Publisher -> Job \cup {NoJob}]
        /\ job'[p] \in Job
        /\ job'[p].id = job[p].id
        /\ job'[p].event = job[p].event
        /\ job'[p].to.plain = job[p].to.plain \ {s}
        /\ job'[p].to.visual = job[p].to.visual
        /\ \A q \in Publisher \ {p} : job'[q] = job[q]
    BY <1>1, <2>1 DEF TypeOK, Job, Receivers
  <2>3. s \in Session
    BY <1>1, <2>1 DEF Job, Receivers
  <2> QED
    BY <1>1, <1>2, <2>1, <2>2, <2>3 DEF Sent, SendPlain, Send, SendFails, Drop
<1>3. CASE SendVisual(p)
  <2>1. PICK s \in job[p].to.visual :
            /\ Send(p, s, job[p].id)
            /\ job' = [job EXCEPT ![p].to.visual = @ \ {s}]
    BY <1>3 DEF SendVisual
  <2>2. /\ job' \in [Publisher -> Job \cup {NoJob}]
        /\ job'[p] \in Job
        /\ job'[p].id = job[p].id
        /\ job'[p].event = job[p].event
        /\ job'[p].to.plain = job[p].to.plain
        /\ job'[p].to.visual = job[p].to.visual \ {s}
        /\ \A q \in Publisher \ {p} : job'[q] = job[q]
    BY <1>1, <2>1 DEF TypeOK, Job, Receivers
  <2>3. s \in Session
    BY <1>1, <2>1 DEF Job, Receivers
  <2> QED
    BY <1>1, <1>3, <2>1, <2>2, <2>3
       DEF Sent, SendVisual, Send, SendFails, Drop
<1> QED
  BY <1>2, <1>3

\* The initial state has it.
LEMMA InitSubscription == Init => SubscriptionInv
BY DEF Init, Nobody, SubscriptionInv, TypeOK, Employed, FiniteEntries,
       EntryBounds, NoGhost, KnownSubscribers, Event, Receivers, HeldOK

\* Every step keeps the types of who holds what.
LEMMA NextHeld == HeldOK /\ [Next]_vars => HeldOK'
<1> SUFFICES ASSUME HeldOK, [Next]_vars  PROVE HeldOK'
  OBVIOUS
<1> USE DEF HeldOK
<1>1. ASSUME UNCHANGED held  PROVE HeldOK'
  BY <1>1 DEF held
<1>2. ASSUME NEW s \in Session, Callback(s)  PROVE HeldOK'
  BY <1>2
     DEF Callback, Open, Close, HandleClose, Subscribe, Unsubscribe,
         OtherMessage, HandleMessage, Reply, publisher, held
<1>3. ASSUME NEW p \in Publisher, Publish(p)  PROVE HeldOK'
  BY <1>1, <1>3
     DEF Publish, Collect, SendPlain, Throttle, SendVisual, Published, Send
<1>4. ASSUME NEW p \in Publisher, NEW i \in InstanceId,
             Find(p, i) \/ Release(p, i)
      PROVE  HeldOK'
  BY <1>4 DEF Find, Release
<1>5. ASSUME NEW i \in InstanceId, Orphan(i)  PROVE HeldOK'
  BY <1>5 DEF Orphan
<1>6. CASE UNCHANGED vars
  BY <1>6 DEF vars, publisher, held
<1> QED
  BY <1>1, <1>2, <1>3, <1>4, <1>5, <1>6
     DEF Next, Operate, Create, Destroy, ChangeSilently

\* Every step keeps the types.
LEMMA NextTypes ==
    ASSUME SubscriptionInv, [Next]_vars
    PROVE  TypeOK' /\ Employed'
<1>0. TypeOK /\ Employed /\ HeldOK'
  BY NextHeld DEF SubscriptionInv, TypeOK
<1> USE <1>0 DEF TypeOK, Employed, Event, Receivers, Job
<1>1. ASSUME NEW s \in Session, Open(s)
      PROVE  TypeOK' /\ Employed'
  BY <1>1 DEF Open, publisher
<1>2. ASSUME NEW s \in Session, Close(s)
      PROVE  TypeOK' /\ Employed'
  BY <1>2 DEF Close, publisher
<1>3. ASSUME NEW s \in Session, HandleClose(s)
      PROVE  TypeOK' /\ Employed'
  BY <1>3 DEF HandleClose, Drop, publisher
<1>4. ASSUME NEW s \in Session, NEW names \in Named,
             NEW visual \in {"keep", "on", "off"}, Subscribe(s, names, visual)
      PROVE  TypeOK' /\ Employed'
  <2>1. subs' \in [Session -> Subscription \cup {NoSub}]
    <3> DEFINE had  == IF subs[s] = NoSub
                       THEN [instances |-> {}, visual |-> FALSE] ELSE subs[s]
               set == Merged(had.instances, names)
               next == [instances |-> set,
                        visual |-> IF visual = "keep" THEN had.visual
                                   ELSE visual = "on"]
    <3>1. had \in Subscription
      BY DEF Subscription
    <3>2. set \in SUBSET (Name \cup {All})
      BY <3>1 DEF Merged, Named, Subscription
    <3>3. next \in Subscription
      <4>1. had.visual \in BOOLEAN
        BY <3>1 DEF Subscription
      <4>2. next.visual \in BOOLEAN
        BY <4>1
      <4> QED
        BY <3>2, <4>2 DEF Subscription
    <3>4. subs' = subs \/ subs' = [subs EXCEPT ![s] = next]
      BY <1>4 DEF Subscribe
    <3> HIDE DEF next
    <3> QED
      BY <3>3, <3>4
  <2> QED
    BY <1>4, <2>1 DEF Subscribe, HandleMessage, publisher
<1>5. ASSUME NEW s \in Session, NEW names \in Named, Unsubscribe(s, names)
      PROVE  TypeOK' /\ Employed'
  <2>1. subs' \in [Session -> Subscription \cup {NoSub}]
    <3>1. CASE subs[s] = NoSub
      BY <1>5, <3>1 DEF Unsubscribe
    <3>2. CASE subs[s] # NoSub
      <4>1. /\ subs[s] \in Subscription
            /\ [subs[s] EXCEPT !.instances = @ \ names] \in Subscription
        BY <3>2 DEF Subscription
      <4>2. \/ subs' = [subs EXCEPT ![s] = NoSub]
            \/ subs' = [subs EXCEPT ![s] =
                             [subs[s] EXCEPT !.instances = @ \ names]]
        BY <1>5, <3>2 DEF Unsubscribe
      <4> QED
        BY <4>1, <4>2
    <3> QED
      BY <3>1, <3>2
  <2> QED
    BY <1>5, <2>1 DEF Unsubscribe, HandleMessage, publisher
<1>6. ASSUME NEW s \in Session, OtherMessage(s)
      PROVE  TypeOK' /\ Employed'
  BY <1>6 DEF OtherMessage, HandleMessage, publisher
<1>7. ASSUME NEW s \in Session, Reply(s)
      PROVE  TypeOK' /\ Employed'
  BY <1>7 DEF Reply, SendFails, Drop, publisher
<1>8. ASSUME NEW p \in Publisher, NEW i \in InstanceId,
             NEW event \in {"running", "paused"},
             Operate(p, i, event) \/ Create(p, i, event)
      PROVE  TypeOK' /\ Employed'
  <2>1. [id |-> i, event |-> event, to |-> Nobody] \in Job
    BY DEF Nobody
  <2>2. /\ Begin(p, i, event) /\ \E alone \in BOOLEAN : Race(i, alone)
        /\ status' = status \/ status' = [status EXCEPT ![i] = event]
    BY <1>8 DEF Operate, Create
  <2>3. raced' \subseteq InstanceId /\ status' \in [InstanceId -> Event]
    BY <2>2 DEF Race
  <2> QED
    BY <2>1, <2>2, <2>3 DEF Begin
<1>9. ASSUME NEW p \in Publisher, NEW i \in InstanceId, Destroy(p, i)
      PROVE  TypeOK' /\ Employed'
  <2>1. [id |-> i, event |-> "destroyed", to |-> Nobody] \in Job
    BY DEF Nobody
  <2> QED
    BY <1>9, <2>1 DEF Destroy, Begin, Race
<1>10. ASSUME NEW i \in InstanceId,
              NEW new \in {"running", "paused", "destroyed"},
              ChangeSilently(i, new)
      PROVE  TypeOK' /\ Employed'
  BY <1>10 DEF ChangeSilently
<1>11. ASSUME NEW p \in Publisher, Collect(p)
      PROVE  TypeOK' /\ Employed'
  <2>1. \E to \in Receivers :
            /\ receivers' = [receivers EXCEPT ![job[p].id] = to]
            /\ \/ /\ job' = [job EXCEPT ![p] = NoJob]
                  /\ pc' = [pc EXCEPT ![p] = "idle"]
               \/ /\ job' = [job EXCEPT ![p].to = to]
                  /\ pc' = [pc EXCEPT ![p] = "plain"]
    BY <1>11 DEF Collect
  <2>2. job[p] \in Job
    BY <1>11 DEF Collect
  <2>3. ASSUME NEW to \in Receivers, job' = [job EXCEPT ![p].to = to]
        PROVE  job' \in [Publisher -> Job \cup {NoJob}] /\ job'[p] \in Job
    BY <2>2, <2>3
  <2>4. job' \in [Publisher -> Job \cup {NoJob}] /\ Employed'
    <3>1. PICK to \in Receivers :
              \/ /\ job' = [job EXCEPT ![p] = NoJob]
                 /\ pc' = [pc EXCEPT ![p] = "idle"]
              \/ /\ job' = [job EXCEPT ![p].to = to]
                 /\ pc' = [pc EXCEPT ![p] = "plain"]
      BY <2>1
    <3>2. CASE /\ job' = [job EXCEPT ![p] = NoJob]
               /\ pc' = [pc EXCEPT ![p] = "idle"]
      BY <3>2
    <3>3. CASE /\ job' = [job EXCEPT ![p].to = to]
               /\ pc' = [pc EXCEPT ![p] = "plain"]
      <4>1. job' \in [Publisher -> Job \cup {NoJob}] /\ job'[p] \in Job
        BY <2>3, <3>3
      <4>2. \A q \in Publisher : q # p => job'[q] = job[q] /\ pc'[q] = pc[q]
        BY <3>3
      <4> QED
        BY <4>1, <4>2
    <3> QED
      BY <3>1, <3>2, <3>3
  <2>5. /\ receivers' \in [InstanceId -> Receivers]
        /\ pc' \in [Publisher -> {"idle", "collect", "plain", "visual"}]
    <3>1. PICK to \in Receivers :
              /\ receivers' = [receivers EXCEPT ![job[p].id] = to]
              /\ \/ pc' = [pc EXCEPT ![p] = "idle"]
                 \/ pc' = [pc EXCEPT ![p] = "plain"]
      BY <2>1
    <3> QED
      BY <3>1
  <2> QED
    BY <1>11, <2>4, <2>5 DEF Collect
<1>12. ASSUME NEW p \in Publisher, Throttle(p)
      PROVE  TypeOK' /\ Employed'
  BY <1>12 DEF Throttle
<1>13. ASSUME NEW p \in Publisher, Published(p)
      PROVE  TypeOK' /\ Employed'
  BY <1>13 DEF Published, Nobody
<1>14. ASSUME NEW p \in Publisher, SendPlain(p) \/ SendVisual(p)
      PROVE  TypeOK' /\ Employed'
  <2>1. PICK s \in Session : Sent(p, s)
    BY <1>0, <1>14, OneSend
  <2>3. told' \in [Session -> [InstanceId -> Event \cup {"none", "lost"}]]
    <3>1. ASSUME NEW new \in Event \cup {"lost"},
                 told' = [told EXCEPT ![s][job[p].id] = new]
          PROVE  told' \in [Session ->
                                [InstanceId -> Event \cup {"none", "lost"}]]
      <4>1. [told[s] EXCEPT ![job[p].id] = new]
                \in [InstanceId -> Event \cup {"none", "lost"}]
        OBVIOUS
      <4> QED
        BY <3>1, <4>1
    <3> QED
      BY <2>1, <3>1 DEF Sent
  <2>4. subs' \in [Session -> Subscription \cup {NoSub}]
    BY <2>1 DEF Sent
  <2>5. Employed'
    BY <2>1 DEF Sent
  <2> QED
    BY <2>1, <2>3, <2>4, <2>5 DEF Sent
<1>15. ASSUME NEW p \in Publisher, NEW i \in InstanceId,
              Find(p, i) \/ Release(p, i)
       PROVE  TypeOK' /\ Employed'
  BY <1>15 DEF Find, Release
<1>16. CASE UNCHANGED vars
  BY <1>16 DEF vars, publisher
<1> QED
  BY <1>1, <1>2, <1>3, <1>4, <1>5, <1>6, <1>7, <1>8, <1>9, <1>10, <1>11,
     <1>12, <1>13, <1>14, <1>15, <1>16
     DEF Next, Callback, Publish

\* Every step keeps what is said of the entries.
LEMMA NextSubscription ==
    ASSUME SubscriptionInv, [Next]_vars
    PROVE  SubscriptionInv'
<1>0. TypeOK' /\ Employed'
  BY NextTypes
<1> USE DEF SubscriptionInv, TypeOK, FiniteEntries, EntryBounds, NoGhost,
            KnownSubscribers
<1>1. ASSUME NEW s \in Session, Open(s)
      PROVE  FiniteEntries' /\ EntryBounds' /\ NoGhost' /\ KnownSubscribers'
  BY <1>1 DEF Open, publisher
<1>2. ASSUME NEW s \in Session, Close(s)
      PROVE  FiniteEntries' /\ EntryBounds' /\ NoGhost' /\ KnownSubscribers'
  BY <1>2 DEF Close, publisher
<1>3. ASSUME NEW s \in Session, HandleClose(s)
      PROVE  FiniteEntries' /\ EntryBounds' /\ NoGhost' /\ KnownSubscribers'
  BY <1>3 DEF HandleClose, Drop, publisher
<1>4. ASSUME NEW s \in Session, NEW names \in Named,
             NEW visual \in {"keep", "on", "off"}, Subscribe(s, names, visual)
      PROVE  FiniteEntries' /\ EntryBounds' /\ NoGhost' /\ KnownSubscribers'
  <2> DEFINE old  == IF subs[s] = NoSub THEN {} ELSE subs[s].instances
             next == Merged(old, names)
  <2>1. /\ IsFiniteSet(next) /\ next # {}
        /\ All \in next => next = {All}
    <3>1. /\ old \in SUBSET (Name \cup {All}) /\ IsFiniteSet(old)
          /\ All \in old => old = {All}
      BY FS_EmptySet DEF Subscription
    <3>2. names # {}
      BY <1>4 DEF Subscribe
    <3> HIDE DEF old
    <3> QED
      BY <3>1, <3>2, MergedIsEntry
  <2>2. Cardinality(next) \in Nat
    BY <2>1, FS_CardinalityType
  <2>3. \/ subs' = subs
        \/ /\ Cardinality(next) <= MaxSubscriptions
           /\ \E v : subs' = [subs EXCEPT ![s] =
                              [instances |-> next, visual |-> v]]
    <3> DEFINE had   == IF subs[s] = NoSub
                        THEN [instances |-> {}, visual |-> FALSE] ELSE subs[s]
               v     == IF visual = "keep" THEN had.visual ELSE visual = "on"
               entry == [instances |-> Merged(had.instances, names),
                         visual |-> v]
    <3>1. had.instances = old
      OBVIOUS
    <3>2. \/ subs' = subs
          \/ /\ ~(Cardinality(entry.instances) > MaxSubscriptions)
             /\ subs' = [subs EXCEPT ![s] = entry]
      BY <1>4 DEF Subscribe
    <3> HIDE DEF had, v, old
    <3>3. entry = [instances |-> next, visual |-> v] /\ entry.instances = next
      BY <3>1
    <3> HIDE DEF entry, next
    <3> QED
      BY <2>2, <3>2, <3>3, ConstantsAssumption
  <2>4. subs' \in [Session -> Subscription \cup {NoSub}]
    BY <1>0
  <2>5. conn[s] # "new" /\ conn' = conn /\ replying' = replying \cup {s}
    BY <1>4 DEF Subscribe, HandleMessage
  <2> HIDE DEF next
  <2>6. CASE subs' = subs
    BY <2>5, <2>6
  <2>7. ASSUME NEW v, Cardinality(next) <= MaxSubscriptions,
               subs' = [subs EXCEPT ![s] = [instances |-> next, visual |-> v]]
        PROVE  FiniteEntries' /\ EntryBounds' /\ NoGhost' /\ KnownSubscribers'
    <3>1. /\ subs'[s].instances = next
          /\ \A u \in Session : u # s => subs'[u] = subs[u]
      BY <2>7
    <3> QED
      BY <2>1, <2>5, <2>7, <3>1
  <2> QED
    BY <2>3, <2>6, <2>7
<1>5. ASSUME NEW s \in Session, NEW names \in Named, Unsubscribe(s, names)
      PROVE  FiniteEntries' /\ EntryBounds' /\ NoGhost' /\ KnownSubscribers'
  <2>1. conn[s] # "new" /\ conn' = conn /\ replying' = replying \cup {s}
    BY <1>5 DEF Unsubscribe, HandleMessage
  <2>2. CASE subs' = subs \/ subs' = [subs EXCEPT ![s] = NoSub]
    BY <2>1, <2>2
  <2>3. CASE /\ subs[s] # NoSub
             /\ ~(All \in names \/ subs[s].instances \subseteq names)
             /\ subs' = [subs EXCEPT ![s].instances = @ \ names]
    <3> DEFINE next == subs[s].instances \ names
    <3>1. /\ subs[s] \in Subscription
          /\ subs'[s].instances = next
          /\ \A u \in Session : u # s => subs'[u] = subs[u]
      BY <2>3 DEF Subscription
    <3>2. /\ IsFiniteSet(next)
          /\ Cardinality(next) <= Cardinality(subs[s].instances)
          /\ Cardinality(next) \in Nat
          /\ Cardinality(subs[s].instances) \in Nat
      BY <2>3, FS_Subset, FS_CardinalityType
    <3>3. next # {} /\ (All \in next => next = {All})
      BY <2>3
    <3>4. Cardinality(next) <= MaxSubscriptions
      BY <2>3, <3>2, ConstantsAssumption
    <3> HIDE DEF next
    <3> QED
      BY <2>1, <3>1, <3>2, <3>3, <3>4
  <2> QED
    BY <1>5, <2>2, <2>3 DEF Unsubscribe
<1>6. ASSUME NEW s \in Session, OtherMessage(s)
      PROVE  FiniteEntries' /\ EntryBounds' /\ NoGhost' /\ KnownSubscribers'
  BY <1>6 DEF OtherMessage, HandleMessage, publisher
<1>7. ASSUME NEW s \in Session, Reply(s)
      PROVE  FiniteEntries' /\ EntryBounds' /\ NoGhost' /\ KnownSubscribers'
  BY <1>7 DEF Reply, SendFails, Drop, publisher
<1>8. ASSUME NEW p \in Publisher, SendPlain(p) \/ SendVisual(p)
      PROVE  FiniteEntries' /\ EntryBounds' /\ NoGhost' /\ KnownSubscribers'
  <2>1. PICK s \in Session : Sent(p, s)
    BY <1>8, OneSend
  <2> QED
    BY <2>1 DEF Sent
<1>9. ASSUME UNCHANGED <<conn, subs, replying>>
      PROVE  FiniteEntries' /\ EntryBounds' /\ NoGhost' /\ KnownSubscribers'
  <2>1. FiniteEntries' /\ NoGhost' /\ KnownSubscribers'
    BY <1>9
  <2>2. EntryBounds'
    BY <1>9
  <2> QED
    BY <2>1, <2>2
<1>10. ASSUME NEW p \in Publisher,
              Collect(p) \/ Throttle(p) \/ Published(p)
       PROVE  UNCHANGED <<conn, subs, replying>>
  BY <1>10 DEF Collect, Throttle, Published
<1>11. ASSUME NEW p \in Publisher, NEW i \in InstanceId,
              \/ Find(p, i) \/ Release(p, i) \/ Destroy(p, i)
              \/ \E event \in {"running", "paused"} :
                     Operate(p, i, event) \/ Create(p, i, event)
       PROVE  UNCHANGED <<conn, subs, replying>>
  BY <1>11 DEF Find, Release, Operate, Create, Destroy, Begin
<1>12. ASSUME NEW i \in InstanceId, NEW new, ChangeSilently(i, new)
       PROVE  UNCHANGED <<conn, subs, replying>>
  BY <1>12 DEF ChangeSilently
<1>13. ASSUME UNCHANGED vars  PROVE UNCHANGED <<conn, subs, replying>>
  BY <1>13 DEF vars
<1> QED
  BY <1>0, <1>1, <1>2, <1>3, <1>4, <1>5, <1>6, <1>7, <1>8, <1>9, <1>10, <1>11,
     <1>12, <1>13
     DEF Next, Callback, Publish

\* What is said of the entries holds throughout.
LEMMA SubscriptionAlways == Spec => []SubscriptionInv
<1>1. SubscriptionInv /\ [Next]_vars => SubscriptionInv'
  BY NextSubscription
<1> QED
  BY <1>1, InitSubscription, PTL DEF Spec

-----------------------------------------------------------------------------
(* Publications *)

ReceiversOf(i) == receivers[i].plain \cup receivers[i].visual

\* Nobody is sent to who was never connected.
KnownReceivers ==
    \A i \in InstanceId : \A s \in ReceiversOf(i) : conn[s] # "new"

\* An id in order has at most one publication under way, of its status.
OnePublication ==
    \A p \in Publisher : pc[p] # "idle" /\ job[p].id \notin raced =>
        /\ job[p].event = status[job[p].id]
        /\ \A q \in Publisher :
               pc[q] # "idle" /\ job[q].id = job[p].id => q = p

\* A receiver of a publication under way has been served or is still to be.
SentOrPending ==
    \A p \in Publisher :
        pc[p] \in {"plain", "visual"} /\ job[p].id \notin raced =>
            \A s \in ReceiversOf(job[p].id) :
                \/ s \in job[p].to.plain \cup job[p].to.visual
                \/ conn[s] # "open"
                \/ told[s][job[p].id] \in {status[job[p].id], "lost"}

\* The publication of an end has its visual receivers before it, or has
\* erased the entry.
ThrottleInHand ==
    \A p \in Publisher :
        pc[p] # "idle" /\ job[p].id \notin raced
                       /\ job[p].event = "destroyed" =>
            /\ pc[p] = "plain" =>
                   job[p].to.visual = receivers[job[p].id].visual
            /\ pc[p] = "visual" => job[p].id \notin throttle

PublicationInv ==
    /\ SubscriptionInv
    /\ KnownReceivers
    /\ OnePublication
    /\ SentOrPending
    /\ LastIsCurrent
    /\ ThrottleInHand
    /\ ThrottleForgotten

\* The initial state has it.
LEMMA InitPublication == Init => PublicationInv
BY InitSubscription
   DEF Init, Nobody, PublicationInv, KnownReceivers, ReceiversOf,
       OnePublication, SentOrPending, LastIsCurrent, ThrottleInHand,
       ThrottleForgotten

\* What the types say of a publisher at work and of receivers.
Typed ==
    /\ \A p \in Publisher : pc[p] # "idle" =>
           /\ job[p].id \in InstanceId /\ job[p].event \in Event
           /\ job[p].to.plain \subseteq Session
           /\ job[p].to.visual \subseteq Session
    /\ \A i \in InstanceId :
           receivers[i].plain \cup receivers[i].visual \subseteq Session

\* It follows from the types.
LEMMA WellTyped == TypeOK /\ Employed => Typed
BY DEF TypeOK, Employed, Typed, Job, Receivers

\* The callbacks of a session leave every publication as it is.
LEMMA Callbacks ==
    ASSUME PublicationInv, SubscriptionInv',
           UNCHANGED <<status, throttle, pc, job, told, receivers, raced>>,
           \A s \in Session : conn[s] # "new" =>
               conn'[s] # "new" /\ (conn'[s] = "open" => conn[s] = "open")
    PROVE  PublicationInv'
<1> USE DEF PublicationInv, SubscriptionInv, TypeOK, Employed, ReceiversOf,
            Publishing
<1>a. Typed
  BY WellTyped
<1> USE <1>a DEF Typed
<1>1. KnownReceivers'
  BY DEF KnownReceivers
<1>2. OnePublication'
  BY DEF OnePublication
<1>3. SentOrPending'
  BY DEF SentOrPending, KnownReceivers
<1>4. LastIsCurrent'
  <2> SUFFICES ASSUME NEW i \in InstanceId, Publishing(i)' = {},
                      i \notin raced', NEW s \in ReceiversOf(i)',
                      conn'[s] = "open"
               PROVE  told'[s][i] \in {status'[i], "lost"}
    BY DEF LastIsCurrent
  <2>1. \A q \in Publisher : pc'[q] # "idle" => job'[q].id # i
    BY DEF Publishing
  <2>2. (\A q \in Publisher : pc[q] # "idle" => job[q].id # i)
            => Publishing(i) = {}
    BY DEF Publishing
  <2> QED
    BY <2>1, <2>2 DEF LastIsCurrent, KnownReceivers
<1>5. ThrottleInHand'
  BY DEF ThrottleInHand
<1>6. ThrottleForgotten'
  BY DEF ThrottleForgotten
<1> QED
  BY <1>1, <1>2, <1>3, <1>4, <1>5, <1>6 DEF PublicationInv

\* A publication begins with the change it is about, and alone, or it is on
\* record.
LEMMA Begins ==
    ASSUME PublicationInv, SubscriptionInv',
           NEW p \in Publisher, NEW i \in InstanceId, NEW event \in Event,
           Begin(p, i, event),
           \A k \in InstanceId : k # i => status'[k] = status[k],
           \A k \in InstanceId : k # i => (k \in raced' <=> k \in raced),
           i \notin raced' => status'[i] = event /\ Publishing(i) = {}
    PROVE  PublicationInv'
<1> USE DEF PublicationInv, SubscriptionInv, TypeOK, Employed, ReceiversOf,
            Publishing
<1>a. Typed
  BY WellTyped
<1> USE <1>a DEF Typed
<1>0. /\ job'[p].id = i /\ job'[p].event = event
      /\ pc'[p] = "collect"
      /\ \A q \in Publisher : q # p => job'[q] = job[q] /\ pc'[q] = pc[q]
  BY DEF Begin
<1>1. KnownReceivers'
  BY <1>0 DEF Begin, KnownReceivers, KnownSubscribers
<1>2. OnePublication'
  BY <1>0 DEF Begin, OnePublication
<1>3. SentOrPending'
  BY <1>0 DEF Begin, SentOrPending
<1>4. LastIsCurrent'
  BY <1>0 DEF Begin, LastIsCurrent
<1>5. ThrottleInHand'
  BY <1>0 DEF Begin, ThrottleInHand
<1>6. ThrottleForgotten'
  BY <1>0 DEF Begin, ThrottleForgotten
<1> QED
  BY <1>1, <1>2, <1>3, <1>4, <1>5, <1>6 DEF PublicationInv

\* A change nobody publishes is on record.
LEMMA Silent ==
    ASSUME PublicationInv, SubscriptionInv',
           NEW i \in InstanceId, NEW new \in Event, ChangeSilently(i, new)
    PROVE  PublicationInv'
<1> USE DEF PublicationInv, SubscriptionInv, TypeOK, Employed, ReceiversOf,
            Publishing
<1>a. Typed
  BY WellTyped
<1> USE <1>a DEF Typed
<1>1. KnownReceivers'
  BY DEF ChangeSilently, KnownReceivers, KnownSubscribers
<1>2. OnePublication'
  BY DEF ChangeSilently, OnePublication
<1>3. SentOrPending'
  BY DEF ChangeSilently, SentOrPending
<1>4. LastIsCurrent'
  BY DEF ChangeSilently, LastIsCurrent
<1>5. ThrottleInHand'
  BY DEF ChangeSilently, ThrottleInHand
<1>6. ThrottleForgotten'
  BY DEF ChangeSilently, ThrottleForgotten
<1> QED
  BY <1>1, <1>2, <1>3, <1>4, <1>5, <1>6 DEF PublicationInv

\* The receivers are those subscribed at that moment.
LEMMA Collects ==
    ASSUME PublicationInv, SubscriptionInv',
           NEW p \in Publisher, Collect(p)
    PROVE  PublicationInv'
<1> USE DEF PublicationInv, SubscriptionInv, TypeOK, Employed, ReceiversOf,
            Publishing
<1>a. Typed
  BY WellTyped
<1> USE <1>a DEF Typed
<1> DEFINE to == [plain |-> {s \in Session :
                                Wanted(s, job[p].id) /\ ~subs[s].visual},
                  visual |-> {s \in Session :
                                 Wanted(s, job[p].id) /\ subs[s].visual}]
<1>7. /\ to \in Receivers /\ to.plain \cup to.visual \subseteq Session
      /\ \A s \in to.plain \cup to.visual : subs[s] # NoSub
  BY DEF Receivers, Wanted
<1>8. /\ job[p] \in Job /\ pc[p] = "collect"
      /\ receivers' = [receivers EXCEPT ![job[p].id] = to]
      /\ \/ to = Nobody /\ pc' = [pc EXCEPT ![p] = "idle"]
            /\ job' = [job EXCEPT ![p] = NoJob]
         \/ /\ pc' = [pc EXCEPT ![p] = "plain"]
            /\ job' = [job EXCEPT ![p].to = to]
      /\ UNCHANGED <<conn, subs, replying, status, throttle, told, raced>>
  BY DEF Collect
<1> HIDE DEF to
<1>9. /\ receivers'[job[p].id] = to
      /\ \A i \in InstanceId : i # job[p].id => receivers'[i] = receivers[i]
      /\ \A q \in Publisher : q # p => job'[q] = job[q] /\ pc'[q] = pc[q]
      /\ \/ to.plain = {} /\ to.visual = {} /\ pc'[p] = "idle"
         \/ /\ pc'[p] = "plain" /\ job'[p].id = job[p].id
            /\ job'[p].event = job[p].event /\ job'[p].to = to
  BY <1>8 DEF Job, Nobody
<1>1. KnownReceivers'
  <2> SUFFICES ASSUME NEW i \in InstanceId, NEW s \in ReceiversOf(i)'
               PROVE  conn[s] # "new"
    BY <1>8 DEF KnownReceivers
  <2>1. CASE i = job[p].id
    BY <1>7, <1>9, <2>1 DEF KnownSubscribers
  <2>2. CASE i # job[p].id
    BY <1>9, <2>2 DEF KnownReceivers
  <2> QED
    BY <2>1, <2>2
<1>2. OnePublication'
  BY <1>7, <1>8, <1>9 DEF Job, OnePublication
<1>3. SentOrPending'
  BY <1>7, <1>8, <1>9 DEF Job, SentOrPending, OnePublication
<1>4. LastIsCurrent'
  <2> SUFFICES ASSUME NEW i \in InstanceId, Publishing(i)' = {},
                      i \notin raced', NEW s \in ReceiversOf(i)',
                      conn'[s] = "open"
               PROVE  told'[s][i] \in {status'[i], "lost"}
    BY DEF LastIsCurrent
  <2>1. \A q \in Publisher : pc'[q] # "idle" => job'[q].id # i
    BY DEF Publishing
  <2>2. (\A q \in Publisher : pc[q] # "idle" => job[q].id # i)
            => Publishing(i) = {}
    BY DEF Publishing
  <2>3. CASE i # job[p].id
    <3>1. Publishing(i) = {}
      BY <1>8, <1>9, <2>1, <2>2, <2>3
    <3> QED
      BY <1>8, <1>9, <2>3, <3>1 DEF LastIsCurrent
  <2>4. CASE i = job[p].id
    BY <1>8, <1>9, <2>1, <2>4 DEF ReceiversOf
  <2> QED
    BY <2>3, <2>4
<1>5. ThrottleInHand'
  BY <1>7, <1>8, <1>9 DEF Job, ThrottleInHand, OnePublication
<1>6. ThrottleForgotten'
  <2> SUFFICES ASSUME NEW i \in throttle', Publishing(i)' = {},
                      i \notin raced', status'[i] = "destroyed"
               PROVE  receivers'[i].visual = {}
    BY DEF ThrottleForgotten
  <2>1. \A q \in Publisher : pc'[q] # "idle" => job'[q].id # i
    BY DEF Publishing
  <2>2. (\A q \in Publisher : pc[q] # "idle" => job[q].id # i)
            => Publishing(i) = {}
    BY DEF Publishing
  <2>5. i \in InstanceId /\ i \in throttle
    BY <1>8
  <2>3. CASE i # job[p].id
    <3>1. Publishing(i) = {}
      BY <1>8, <1>9, <2>1, <2>2, <2>3
    <3> QED
      BY <1>8, <1>9, <2>5, <2>3, <3>1 DEF ThrottleForgotten
  <2>4. CASE i = job[p].id
    BY <1>8, <1>9, <2>1, <2>4 DEF ReceiversOf
  <2> QED
    BY <2>3, <2>4
<1> QED
  BY <1>1, <1>2, <1>3, <1>4, <1>5, <1>6 DEF PublicationInv

\* A message that is sent, or not, takes its receiver off the list.
LEMMA Sends ==
    ASSUME PublicationInv, SubscriptionInv',
           NEW p \in Publisher, NEW s \in Session, Sent(p, s)
    PROVE  PublicationInv'
<1> USE DEF PublicationInv, SubscriptionInv, TypeOK, Employed, ReceiversOf,
            Publishing
<1>a. Typed
  BY WellTyped
<1> USE <1>a DEF Typed
<1>0. \A u \in Session, i \in InstanceId :
          \/ told'[u][i] = told[u][i]
          \/ u = s /\ i = job[p].id /\ told'[u][i] \in {job[p].event, "lost"}
  BY DEF Sent
<1>8. \/ conn[s] # "open"
      \/ told'[s][job[p].id] \in {job[p].event, "lost"}
  BY DEF Sent
<1>9. \A q \in Publisher : pc[q] # "idle" =>
          job'[q].id = job[q].id /\ job'[q].event = job[q].event
  BY DEF Sent
<1>1. KnownReceivers'
  BY <1>0, <1>8, <1>9 DEF Sent, KnownReceivers, KnownSubscribers
<1>2. OnePublication'
  BY <1>0, <1>8, <1>9 DEF Sent, OnePublication
<1>3. SentOrPending'
  <2> SUFFICES ASSUME NEW q \in Publisher, pc'[q] \in {"plain", "visual"},
                      job'[q].id \notin raced',
                      NEW u \in receivers'[job'[q].id].plain
                                \cup receivers'[job'[q].id].visual,
                      u \notin job'[q].to.plain \cup job'[q].to.visual,
                      conn'[u] = "open"
               PROVE  told'[u][job'[q].id] \in {status'[job'[q].id], "lost"}
    BY DEF SentOrPending
  <2>1. /\ pc[q] \in {"plain", "visual"} /\ job[q].id \in InstanceId
        /\ job'[q].id = job[q].id /\ job[q].id \notin raced
        /\ u \in ReceiversOf(job[q].id) /\ u \in Session /\ conn[u] = "open"
        /\ status' = status
    BY <1>9 DEF Sent
  <2>2. CASE q = p
    <3>1. job[p].event = status[job[p].id]
      BY <2>1, <2>2 DEF OnePublication
    <3>2. CASE u = s
      BY <1>8, <2>1, <2>2, <3>1, <3>2
    <3>3. CASE u # s
      <4>1. u \notin job[p].to.plain \cup job[p].to.visual
        BY <2>2, <3>3 DEF Sent
      <4>2. told[u][job[p].id] \in {status[job[p].id], "lost"}
        BY <2>1, <2>2, <4>1 DEF SentOrPending
      <4> QED
        BY <1>0, <2>1, <2>2, <3>3, <4>2
    <3> QED
      BY <3>2, <3>3
  <2>3. CASE q # p
    <3>1. job'[q] = job[q] /\ job[q].id # job[p].id
      BY <2>1, <2>3 DEF Sent, OnePublication
    <3>2. told[u][job[q].id] \in {status[job[q].id], "lost"}
      BY <2>1, <3>1 DEF SentOrPending
    <3> QED
      BY <1>0, <2>1, <3>1, <3>2
  <2> QED
    BY <2>2, <2>3
<1>4. LastIsCurrent'
  <2> SUFFICES ASSUME NEW i \in InstanceId, Publishing(i)' = {},
                      i \notin raced', NEW u \in ReceiversOf(i)',
                      conn'[u] = "open"
               PROVE  told'[u][i] \in {status'[i], "lost"}
    BY DEF LastIsCurrent
  <2>1. \A q \in Publisher : pc'[q] # "idle" => job'[q].id # i
    BY DEF Publishing
  <2>2. (\A q \in Publisher : pc[q] # "idle" => job[q].id # i)
            => Publishing(i) = {}
    BY DEF Publishing
  <2>3. i # job[p].id /\ Publishing(i) = {}
    BY <1>9, <2>1, <2>2 DEF Sent
  <2>4. /\ u \in ReceiversOf(i) /\ u \in Session
        /\ i \notin raced /\ conn[u] = "open"
    BY DEF Sent
  <2> QED
    <3>1. told[u][i] \in {status[i], "lost"}
      BY <2>3, <2>4 DEF LastIsCurrent
    <3> QED
      BY <1>0, <2>3, <2>4, <3>1 DEF Sent
<1>5. ThrottleInHand'
  <2> SUFFICES ASSUME NEW q \in Publisher, pc'[q] # "idle",
                      job'[q].id \notin raced',
                      job'[q].event = "destroyed"
               PROVE  /\ pc'[q] = "plain" =>
                             job'[q].to.visual = receivers'[job'[q].id].visual
                      /\ pc'[q] = "visual" => job'[q].id \notin throttle'
    BY DEF ThrottleInHand
  <2>1. /\ pc[q] # "idle" /\ job[q].id \notin raced
        /\ job[q].event = "destroyed"
        /\ pc'[q] = pc[q] /\ job'[q].id = job[q].id
        /\ UNCHANGED <<receivers, throttle>>
        /\ pc[q] = "plain" => job'[q].to.visual = job[q].to.visual
    BY <1>9 DEF Sent
  <2> QED
    BY <2>1 DEF ThrottleInHand
<1>6. ThrottleForgotten'
  <2> SUFFICES ASSUME NEW i \in throttle', Publishing(i)' = {},
                      i \notin raced', status'[i] = "destroyed"
               PROVE  receivers'[i].visual = {}
    BY DEF ThrottleForgotten
  <2>1. \A q \in Publisher : pc'[q] # "idle" => job'[q].id # i
    BY DEF Publishing
  <2>2. (\A q \in Publisher : pc[q] # "idle" => job[q].id # i)
            => Publishing(i) = {}
    BY DEF Publishing
  <2> QED
    BY <1>0, <1>8, <1>9, <2>1, <2>2
       DEF Sent, Job, Receivers, ThrottleForgotten, ThrottleInHand,
           OnePublication
<1> QED
  BY <1>1, <1>2, <1>3, <1>4, <1>5, <1>6 DEF PublicationInv

\* The poses are due or not: the end of an instance erases its entry.
LEMMA Throttles ==
    ASSUME PublicationInv, SubscriptionInv',
           NEW p \in Publisher, Throttle(p)
    PROVE  PublicationInv'
<1> USE DEF PublicationInv, SubscriptionInv, TypeOK, Employed, ReceiversOf,
            Publishing
<1>a. Typed
  BY WellTyped
<1> USE <1>a DEF Typed
<1>1. KnownReceivers'
  BY DEF Throttle, KnownReceivers, KnownSubscribers
<1>2. OnePublication'
  BY DEF Throttle, OnePublication
<1>3. SentOrPending'
  BY DEF Throttle, SentOrPending
<1>4. LastIsCurrent'
  BY DEF Throttle, LastIsCurrent
<1>5. ThrottleInHand'
  BY DEF Throttle, Job, ThrottleInHand, OnePublication
<1>6. ThrottleForgotten'
  BY DEF Throttle, ThrottleForgotten
<1> QED
  BY <1>1, <1>2, <1>3, <1>4, <1>5, <1>6 DEF PublicationInv

\* A publication ends when nobody is left to be sent to.
LEMMA Ends ==
    ASSUME PublicationInv, SubscriptionInv',
           NEW p \in Publisher, Published(p)
    PROVE  PublicationInv'
<1> USE DEF PublicationInv, SubscriptionInv, TypeOK, Employed, ReceiversOf,
            Publishing
<1>a. Typed
  BY WellTyped
<1> USE <1>a DEF Typed
<1>0. /\ job[p].to.plain = {} /\ job[p].to.visual = {}
      /\ pc[p] \in {"plain", "visual"} /\ pc'[p] = "idle"
      /\ \A q \in Publisher : q # p => job'[q] = job[q] /\ pc'[q] = pc[q]
  BY DEF Published, Nobody
<1>1. KnownReceivers'
  BY <1>0 DEF Published, KnownReceivers, KnownSubscribers
<1>2. OnePublication'
  BY <1>0 DEF Published, OnePublication
<1>3. SentOrPending'
  BY <1>0 DEF Published, SentOrPending
<1>4. LastIsCurrent'
  <2> SUFFICES ASSUME NEW i \in InstanceId, Publishing(i)' = {},
                      i \notin raced', NEW s \in ReceiversOf(i)',
                      conn'[s] = "open"
               PROVE  told'[s][i] \in {status'[i], "lost"}
    BY DEF LastIsCurrent
  <2>1. \A q \in Publisher : pc'[q] # "idle" => job'[q].id # i
    BY DEF Publishing
  <2>2. (\A q \in Publisher : pc[q] # "idle" => job[q].id # i)
            => Publishing(i) = {}
    BY DEF Publishing
  <2>3. CASE i # job[p].id
    <3>1. Publishing(i) = {}
      BY <1>0, <2>1, <2>2, <2>3
    <3> QED
      BY <2>1, <2>3, <3>1 DEF Published, LastIsCurrent
  <2>4. CASE i = job[p].id
    BY <1>0, <2>1, <2>4 DEF Published, SentOrPending
  <2> QED
    BY <2>3, <2>4
<1>5. ThrottleInHand'
  BY <1>0 DEF Published, ThrottleInHand
<1>6. ThrottleForgotten'
  BY <1>0 DEF Published, Job, ThrottleForgotten, ThrottleInHand,
              OnePublication
<1> QED
  BY <1>1, <1>2, <1>3, <1>4, <1>5, <1>6 DEF PublicationInv

\* Every step keeps the invariant.
LEMMA NextPublication ==
    ASSUME PublicationInv, [Next]_vars
    PROVE  PublicationInv'
<1>1. SubscriptionInv'
  BY NextSubscription DEF PublicationInv
<1>2. ASSUME UNCHANGED <<status, throttle, pc, job, told, receivers, raced>>,
             \A s \in Session : conn[s] # "new" =>
                 conn'[s] # "new" /\ (conn'[s] = "open" => conn[s] = "open")
      PROVE  PublicationInv'
  BY <1>1, <1>2, Callbacks
<1>3. ASSUME NEW s \in Session, Callback(s)
      PROVE  PublicationInv'
  <2>1. UNCHANGED <<status, throttle, pc, job, told, receivers, raced>>
    BY <1>3
       DEF Callback, Open, Close, HandleClose, Subscribe, Unsubscribe,
           OtherMessage, HandleMessage, Reply, publisher
  <2>2. \/ conn' = conn
        \/ conn[s] = "new" /\ conn' = [conn EXCEPT ![s] = "open"]
        \/ conn' = [conn EXCEPT ![s] = "closing"]
        \/ conn' = [conn EXCEPT ![s] = "closed"]
    BY <1>3
       DEF Callback, Open, Close, HandleClose, Subscribe, Unsubscribe,
           OtherMessage, HandleMessage, Reply
  <2>3. \A u \in Session : conn[u] # "new" =>
            conn'[u] # "new" /\ (conn'[u] = "open" => conn[u] = "open")
    BY <2>2 DEF PublicationInv, SubscriptionInv, TypeOK
  <2> QED
    BY <1>2, <2>1, <2>3
<1>4. ASSUME NEW p \in Publisher, Publish(p)
      PROVE  PublicationInv'
  <2>1. TypeOK /\ Employed
    BY DEF PublicationInv, SubscriptionInv
  <2> QED
    BY <1>1, <1>4, <2>1, OneSend, Collects, Sends, Throttles, Ends DEF Publish
<1>5. ASSUME NEW p \in Publisher, NEW i \in InstanceId,
             \/ Destroy(p, i)
             \/ \E event \in {"running", "paused"} :
                    Operate(p, i, event) \/ Create(p, i, event)
      PROVE  PublicationInv'
  <2>1. PICK event \in Event :
            /\ Begin(p, i, event)
            /\ \/ status' = [status EXCEPT ![i] = event]
               \/ status' = status /\ Race(i, FALSE)
            /\ Race(i, FALSE) \/ Race(i, Publishing(i) = {})
    BY <1>5 DEF Operate, Create, Destroy, Event, Race
  <2>2. status \in [InstanceId -> Event]
    BY DEF PublicationInv, SubscriptionInv, TypeOK
  <2>3. /\ \A k \in InstanceId : k # i => status'[k] = status[k]
        /\ \A k \in InstanceId : k # i => (k \in raced' <=> k \in raced)
        /\ i \notin raced' => status'[i] = event /\ Publishing(i) = {}
    BY <2>1, <2>2 DEF Race
  <2> QED
    BY <1>1, <2>1, <2>3, Begins
<1>6. ASSUME NEW i \in InstanceId,
             NEW new \in {"running", "paused", "destroyed"},
             ChangeSilently(i, new)
      PROVE  PublicationInv'
  BY <1>1, <1>6, Silent DEF Event
<1>7. ASSUME NEW p \in Publisher, NEW i \in InstanceId,
             Find(p, i) \/ Release(p, i)
      PROVE  PublicationInv'
  BY <1>2, <1>7 DEF Find, Release
<1>8. CASE UNCHANGED vars
  BY <1>2, <1>8 DEF vars, publisher
<1> QED
  BY <1>3, <1>4, <1>5, <1>6, <1>7, <1>8 DEF Next

\* The invariant holds throughout.
LEMMA PublicationAlways == Spec => []PublicationInv
<1>1. PublicationInv /\ [Next]_vars => PublicationInv'
  BY NextPublication
<1> QED
  BY <1>1, InitPublication, PTL DEF Spec

-----------------------------------------------------------------------------
(* Theorems *)

\* What the WebSocket side of SimulationPlug keeps has its type.
THEOREM TypeCorrect == Spec => []TypeOK
<1>1. SubscriptionInv => TypeOK
  BY DEF SubscriptionInv
<1> QED
  BY <1>1, SubscriptionAlways, PTL

\* However a session subscribes and unsubscribes, its entry in
\* ws_subscriptions_ is not empty, keeps to kMaxSubscriptions, and holds "*"
\* alone.
THEOREM EntriesBounded == Spec => []EntryBounds
<1>1. SubscriptionInv => EntryBounds
  BY DEF SubscriptionInv
<1> QED
  BY <1>1, SubscriptionAlways, PTL

\* A message handled after handle_ws_close() leaves no entry behind once its
\* reply has failed.
THEOREM GhostFree == Spec => []NoGhost
<1>1. SubscriptionInv => NoGhost
  BY DEF SubscriptionInv
<1> QED
  BY <1>1, SubscriptionAlways, PTL

\* publish_state() takes no lock across its steps, and yet where publications
\* of an id do not overlap, and the last is of the instance that has the id,
\* every open receiver was told what the instance is.
THEOREM ToldCurrent == Spec => []LastIsCurrent
<1>1. PublicationInv => LastIsCurrent
  BY DEF PublicationInv
<1> QED
  BY <1>1, PublicationAlways, PTL

\* The publication of "destroyed" erases the entry in last_visual_publish_,
\* unless it had no visual receiver or one from the instance's last holders
\* overlaps or follows it.
THEOREM ThrottleErased == Spec => []ThrottleForgotten
<1>1. PublicationInv => ThrottleForgotten
  BY DEF PublicationInv
<1> QED
  BY <1>1, PublicationAlways, PTL
=============================================================================
