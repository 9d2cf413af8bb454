---------------------------- MODULE LocalPubSub ----------------------------
(***************************************************************************)
(* The in-process publish/subscribe client of pubsub/local_pubsub.go.      *)
(*                                                                         *)
(* A topic owns a map from subscription to buffered channel. One RWMutex   *)
(* guards the topics and their maps, and each subscription has a mutex of  *)
(* its own for its channel. Publish walks a map outside the first lock,    *)
(* and Unsubscribe closes a channel before it deletes the record, so the   *)
(* critical sections of different calls interleave: each is a step here.   *)
(* A read section is one step (nothing blocks inside), and so is a write   *)
(* section, except those of RemoveTopic and Close, which take the mutexes  *)
(* of the subscriptions one by one while they hold the first.              *)
(*                                                                         *)
(* A map is named by its topic and the order of its creation, because a    *)
(* map may be replaced while a publisher still walks the old one. Of a     *)
(* channel only the number of buffered messages is kept.                   *)
(***************************************************************************)
EXTENDS Naturals

CONSTANTS
  Topics,
  Subscriptions,  (* subscription ids, each drawn once                     *)
  Goroutines,     (* callers of the client                                 *)
  Recovering,     (* callers whose own caller recovers from a panic        *)
  BufferLength,   (* capacity of a subscription's channel                  *)
  Nobody,
  NoSubscription

ASSUME BufferAssumption == BufferLength \in Nat \ {0}
ASSUME RecoveringAssumption == Recovering \subseteq Goroutines
ASSUME NobodyAssumption == Nobody \notin Goroutines
ASSUME NoSubscriptionAssumption == NoSubscription \notin Subscriptions

VARIABLES
  topics,         (* the set of topics                                     *)
  subscriptions,  (* per topic the number of its current map, 0 for none   *)
  made,           (* per topic, how many maps were made for it             *)
  member,         (* per subscription the map its record is in             *)
  mutex,          (* writer that holds the client's mutex                  *)
  lock,           (* per subscription, who holds its mutex                 *)
  buffered,       (* per subscription, messages in its channel             *)
  shut,           (* subscriptions whose channel is closed                 *)
  closed,         (* the client is closed                                  *)
  status,         (* per subscription, what its subscriber has done        *)
  call,           (* per goroutine, the call it is in                      *)
  (* Observation only; no action reads them. *)
  orphaned,       (* subscriptions whose map was replaced by a new one     *)
  removed         (* a topic was removed, or the client closed             *)

tables   == <<topics, subscriptions, made, closed>>
channels == <<buffered, shut>>
watch    == <<orphaned, removed>>
vars     == <<tables, member, mutex, lock, channels, status, call, watch>>

NoMap     == [topic |-> Nobody, number |-> 0]
Idle      == [op |-> "none", pc |-> "idle", topic |-> Nobody, sub |-> NoSubscription,
              map |-> NoMap, left |-> {}]
MapOf(t)  == [topic |-> t, number |-> subscriptions[t]]
Members(m) == {s \in Subscriptions : member[s] = m}

(* The records a range over the topic's current map would visit; none in a nil map. *)
Records(t) == IF subscriptions[t] = 0 THEN {} ELSE Members(MapOf(t))

(* Publishers that are walking map m. *)
Walking(m) == {g \in Goroutines : call[g].map = m /\ call[g].pc \in {"walk", "drop", "send"}}

-----------------------------------------------------------------------------

Init ==
  /\ topics = {}
  /\ subscriptions = [t \in Topics |-> 0]
  /\ made = [t \in Topics |-> 0]
  /\ member = [s \in Subscriptions |-> NoMap]
  /\ mutex = Nobody
  /\ lock = [s \in Subscriptions |-> Nobody]
  /\ buffered = [s \in Subscriptions |-> 0]
  /\ shut = {}
  /\ closed = FALSE
  /\ status = [s \in Subscriptions |-> "unused"]
  /\ call = [g \in Goroutines |-> Idle]
  /\ orphaned = {}
  /\ removed = FALSE

Goto(g, pc) == call' = [call EXCEPT ![g].pc = pc]
Return(g)   == call' = [call EXCEPT ![g] = Idle]

(* The process ends. Nothing is persisted, so a restart is a behavior from Init. *)
Die == call' = [g \in Goroutines |-> [call[g] EXCEPT !.pc = "dead"]]

(* A panic ends the call with the locks it holds, or the process where nobody recovers. *)
Panic(g) == IF g \in Recovering THEN Goto(g, "panicked") ELSE Die

-----------------------------------------------------------------------------
(* What every call does first *)

(* The check of l.closed, made without the mutex. *)
Begin(g, op, t) ==
  /\ call[g] = Idle
  /\ ~closed
  /\ op \in {"create", "remove", "publish"}
  /\ call' = [call EXCEPT ![g] = [Idle EXCEPT !.op = op, !.pc = "check", !.topic = t]]
  /\ UNCHANGED <<tables, member, mutex, lock, channels, status, watch>>

BeginSubscribe(g, t, s) ==
  /\ call[g] = Idle
  /\ ~closed
  /\ status[s] = "unused"
  /\ status' = [status EXCEPT ![s] = "making"]
  /\ call' = [call EXCEPT ![g] =
                [Idle EXCEPT !.op = "subscribe", !.pc = "check", !.topic = t, !.sub = s]]
  /\ UNCHANGED <<tables, member, mutex, lock, channels, watch>>

(* A subscriber unsubscribes once, in a deferred call. *)
BeginUnsubscribe(g, s) ==
  /\ call[g] = Idle
  /\ ~closed
  /\ status[s] = "held"
  /\ status' = [status EXCEPT ![s] = "released"]
  /\ call' = [call EXCEPT ![g] =
                [Idle EXCEPT !.op = "unsubscribe", !.pc = "check",
                             !.topic = member[s].topic, !.sub = s]]
  /\ UNCHANGED <<tables, member, mutex, lock, channels, watch>>

(* topics.Contains under the read lock, and the branch on it. *)
CheckTopic(g) ==
  LET op == call[g].op IN
  /\ call[g].pc = "check"
  /\ mutex = Nobody
  /\ IF call[g].topic \in topics
     THEN CASE op = "create" -> Return(g)
            [] op = "remove" -> Goto(g, "lock")
            [] op = "subscribe" -> Goto(g, "record")
            [] op \in {"unsubscribe", "publish"} -> Goto(g, "fetch")
     ELSE IF op \in {"create", "subscribe", "publish"} THEN Goto(g, "insert") ELSE Return(g)
  /\ UNCHANGED <<tables, member, mutex, lock, channels, status, watch>>

(* Defect: the topic is inserted and the creation of its map forgotten. *)
InsertTopicOnly(g) ==
  /\ call[g].pc = "insert"
  /\ mutex = Nobody
  /\ topics' = topics \cup {call[g].topic}
  /\ CASE call[g].op = "create" -> Return(g)
       [] call[g].op = "subscribe" -> Goto(g, "record")
       [] call[g].op = "publish" -> Goto(g, "fetch")
  /\ UNCHANGED <<subscriptions, made, closed, member, mutex, lock, channels, status, watch>>

(* The insertion that follows a failed check. It does not check again: the   *)
(* map another caller made in between, and the records in it, are dropped.   *)
InsertTopic(g) ==
  LET t == call[g].topic
      op == call[g].op
  IN  /\ call[g].pc = "insert"
      /\ mutex = Nobody
      /\ topics' = topics \cup {t}
      /\ made' = [made EXCEPT ![t] = @ + 1]
      /\ subscriptions' = [subscriptions EXCEPT ![t] = made[t] + 1]
      /\ orphaned' = orphaned \cup Records(t)
      /\ CASE op = "create" -> Return(g)
           [] op = "subscribe" -> Goto(g, "record")
           [] op = "publish" -> Goto(g, "fetch")
      /\ UNCHANGED <<member, mutex, lock, channels, closed, status, removed>>

-----------------------------------------------------------------------------
(* Subscribe *)

(* The record is written into the topic's current map, under the mutex. A    *)
(* removed topic is still in topics but has no map: writing to it panics,    *)
(* and the mutex stays locked. A publisher that walks the map meets a        *)
(* concurrent write: it may see the new record or not, or the runtime stops. *)
WriteRecord(g) ==
  LET t == call[g].topic
      s == call[g].sub
      m == MapOf(t)
  IN  /\ call[g].pc = "record"
      /\ mutex = Nobody
      /\ IF subscriptions[t] = 0
         THEN Panic(g) /\ mutex' = g /\ UNCHANGED <<member, status>>
         ELSE /\ member' = [member EXCEPT ![s] = m]
              /\ status' = [status EXCEPT ![s] = "held"]
              /\ UNCHANGED mutex
              /\ \/ \E seeing \in SUBSET Walking(m) :
                       call' = [h \in Goroutines |->
                                  IF h = g THEN Idle
                                  ELSE IF h \in seeing THEN [call[h] EXCEPT !.left = @ \cup {s}]
                                  ELSE call[h]]
                 \/ Walking(m) # {} /\ Die
      /\ UNCHANGED <<tables, lock, channels, watch>>

-----------------------------------------------------------------------------
(* Unsubscribe *)

(* The record is read from the topic's current map, if it is still there. *)
FetchRecord(g) ==
  /\ call[g].op = "unsubscribe"
  /\ call[g].pc = "fetch"
  /\ mutex = Nobody
  /\ IF call[g].sub \in Records(call[g].topic) THEN Goto(g, "shut") ELSE Return(g)
  /\ UNCHANGED <<tables, member, mutex, lock, channels, status, watch>>

(* The close, under the mutex of the subscription alone. *)
CloseChannel(g) ==
  LET s == call[g].sub
  IN  /\ call[g].pc = "shut"
      /\ lock[s] = Nobody
      /\ IF s \in shut
         THEN Panic(g) /\ lock' = [lock EXCEPT ![s] = g] /\ UNCHANGED shut
         ELSE Goto(g, "delete") /\ shut' = shut \cup {s} /\ UNCHANGED lock
      /\ UNCHANGED <<tables, member, mutex, buffered, status, watch>>

(* delete on the topic's current map, which need not be the map of the record. *)
DeleteRecord(g) ==
  LET s == call[g].sub
      m == MapOf(call[g].topic)
  IN  /\ call[g].pc = "delete"
      /\ mutex = Nobody
      /\ member' = [member EXCEPT ![s] = IF s \in Records(call[g].topic) THEN NoMap ELSE @]
      /\ \/ Return(g)
         \/ m.number # 0 /\ Walking(m) # {} /\ Die
      /\ UNCHANGED <<tables, mutex, lock, channels, status, watch>>

-----------------------------------------------------------------------------
(* Publish *)

(* Defect: the fullness of the buffer is not checked before the lock is taken for the send. *)
VisitWithoutCheck(g, s) ==
  /\ call[g].pc = "walk"
  /\ s \in call[g].left \cap Members(call[g].map)
  /\ lock[s] = Nobody
  /\ lock' = [lock EXCEPT ![s] = g]
  /\ call' = [call EXCEPT ![g].pc = "send", ![g].sub = s, ![g].left = @ \ {s}]
  /\ UNCHANGED <<tables, member, mutex, channels, status, watch>>

(* The reference to the topic's map is read under the read lock. *)
FetchMap(g) ==
  LET t == call[g].topic
  IN  /\ call[g].op = "publish"
      /\ call[g].pc = "fetch"
      /\ mutex = Nobody
      /\ call' = [call EXCEPT ![g].pc = "walk", ![g].map = MapOf(t), ![g].left = Records(t)]
      /\ UNCHANGED <<tables, member, mutex, lock, channels, status, watch>>

(* The next record of the map, in any order; one deleted meanwhile is not visited. *)
Visit(g, s) ==
  /\ call[g].pc = "walk"
  /\ s \in call[g].left \cap Members(call[g].map)
  /\ lock[s] = Nobody
  /\ lock' = [lock EXCEPT ![s] = g]
  /\ call' = [call EXCEPT ![g].pc = IF buffered[s] = BufferLength THEN "drop" ELSE "send",
                          ![g].sub = s,
                          ![g].left = @ \ {s}]
  /\ UNCHANGED <<tables, member, mutex, channels, status, watch>>

(* A receive makes room. It waits if the subscriber took everything since the check. *)
DropOldest(g) ==
  LET s == call[g].sub
  IN  /\ call[g].pc = "drop"
      /\ buffered[s] > 0 \/ s \in shut
      /\ buffered' = [buffered EXCEPT ![s] = IF @ = 0 THEN 0 ELSE @ - 1]
      /\ Goto(g, "send")
      /\ UNCHANGED <<tables, member, mutex, lock, shut, status, watch>>

(* Sending on a closed channel panics, with the subscription's mutex held. *)
Send(g) ==
  LET s == call[g].sub
  IN  /\ call[g].pc = "send"
      /\ IF s \in shut
         THEN Panic(g) /\ UNCHANGED <<buffered, lock>>
         ELSE /\ buffered[s] < BufferLength
              /\ buffered' = [buffered EXCEPT ![s] = @ + 1]
              /\ lock' = [lock EXCEPT ![s] = Nobody]
              /\ Goto(g, "walk")
      /\ UNCHANGED <<tables, member, mutex, shut, status, watch>>

FinishPublish(g) ==
  /\ call[g].pc = "walk"
  /\ call[g].left \cap Members(call[g].map) = {}
  /\ Return(g)
  /\ UNCHANGED <<tables, member, mutex, lock, channels, status, watch>>

-----------------------------------------------------------------------------
(* RemoveTopic and Close *)

LockForRemoval(g) ==
  /\ call[g].op = "remove"
  /\ call[g].pc = "lock"
  /\ mutex = Nobody
  /\ mutex' = g
  /\ call' = [call EXCEPT ![g].pc = "closing", ![g].left = Records(call[g].topic)]
  /\ removed' = TRUE
  /\ UNCHANGED <<tables, member, lock, channels, status, orphaned>>

(* Close locks before it looks at closed. *)
LockForClose(g) ==
  /\ call[g] = Idle
  /\ mutex = Nobody
  /\ ~closed
  /\ mutex' = g
  /\ closed' = TRUE
  /\ call' = [call EXCEPT ![g] =
                [Idle EXCEPT !.op = "close", !.pc = "closing",
                             !.left = UNION {Records(t) : t \in Topics}]]
  /\ removed' = TRUE
  /\ UNCHANGED <<topics, subscriptions, made, member, lock, channels, status, orphaned>>

(* One channel after the other. Close recovers from the panic of a second    *)
(* close and unlocks the client, but not the subscription.                   *)
CloseNext(g, s) ==
  /\ call[g].pc = "closing"
  /\ s \in call[g].left
  /\ lock[s] = Nobody
  /\ IF s \notin shut
     THEN /\ shut' = shut \cup {s}
          /\ call' = [call EXCEPT ![g].left = @ \ {s}]
          /\ UNCHANGED <<lock, mutex>>
     ELSE /\ lock' = [lock EXCEPT ![s] = g]
          /\ IF call[g].op = "close"
             THEN Return(g) /\ mutex' = Nobody
             ELSE Panic(g) /\ UNCHANGED mutex
          /\ UNCHANGED shut
  /\ UNCHANGED <<tables, member, buffered, status, watch>>

(* Defect: RemoveTopic returns without the unlock. *)
DeleteTopicLocked(g) ==
  /\ call[g].op = "remove"
  /\ call[g].pc = "closing"
  /\ call[g].left = {}
  /\ subscriptions' = [subscriptions EXCEPT ![call[g].topic] = 0]
  /\ Return(g)
  /\ UNCHANGED <<topics, made, closed, member, mutex, lock, channels, status, watch>>

(* Defect: the map is dropped while channels of it are still to be closed. *)
DeleteTopicEarly(g) ==
  /\ call[g].op = "remove"
  /\ call[g].pc = "closing"
  /\ subscriptions' = [subscriptions EXCEPT ![call[g].topic] = 0]
  /\ mutex' = Nobody
  /\ Return(g)
  /\ UNCHANGED <<topics, made, closed, member, lock, channels, status, watch>>

(* RemoveTopic forgets the map of the topic; the topic stays in topics. *)
DeleteTopic(g) ==
  /\ call[g].op = "remove"
  /\ call[g].pc = "closing"
  /\ call[g].left = {}
  /\ subscriptions' = [subscriptions EXCEPT ![call[g].topic] = 0]
  /\ mutex' = Nobody
  /\ Return(g)
  /\ UNCHANGED <<topics, made, closed, member, lock, channels, status, watch>>

FinishClose(g) ==
  /\ call[g].op = "close"
  /\ call[g].pc = "closing"
  /\ call[g].left = {}
  /\ topics' = {}
  /\ subscriptions' = [t \in Topics |-> 0]
  /\ mutex' = Nobody
  /\ Return(g)
  /\ UNCHANGED <<made, closed, member, lock, channels, status, watch>>

-----------------------------------------------------------------------------

(* The subscriber receives a message, as long as it cares to. *)
Consume(s) ==
  /\ status[s] \in {"held", "released"}
  /\ \A g \in Goroutines : call[g].pc # "dead"
  /\ buffered[s] > 0
  /\ buffered' = [buffered EXCEPT ![s] = @ - 1]
  /\ UNCHANGED <<tables, member, mutex, lock, shut, status, call, watch>>

CallStep(g) ==
  \/ CheckTopic(g) \/ InsertTopic(g) \/ WriteRecord(g)
  \/ FetchRecord(g) \/ CloseChannel(g) \/ DeleteRecord(g)
  \/ FetchMap(g) \/ DropOldest(g) \/ Send(g) \/ FinishPublish(g)
  \/ LockForRemoval(g) \/ DeleteTopic(g) \/ FinishClose(g)
  \/ \E s \in Subscriptions : Visit(g, s) \/ CloseNext(g, s)

NewCall(g) ==
  \/ \E t \in Topics :
       \/ \E op \in {"create", "remove", "publish"} : Begin(g, op, t)
       \/ \E s \in Subscriptions : BeginSubscribe(g, t, s)
  \/ \E s \in Subscriptions : BeginUnsubscribe(g, s)
  \/ LockForClose(g)

Next ==
  \/ \E g \in Goroutines : CallStep(g) \/ NewCall(g)
  \/ \E s \in Subscriptions : Consume(s)

(* A goroutine in a call runs. Go's mutexes hand over to a waiter that has   *)
(* waited long enough, so a step that is enabled again and again is taken.   *)
Fairness == \A g \in Goroutines : SF_vars(CallStep(g))

Spec == Init /\ [][Next]_vars /\ Fairness

-----------------------------------------------------------------------------
(* Properties *)

(* The shape of the variables; a writer that holds the mutex is inside RemoveTopic   *)
(* or Close, or has panicked there or in Subscribe (local_pubsub.go:41-52, 84-88). *)
TypeOK ==
  /\ topics \subseteq Topics
  /\ subscriptions \in [Topics -> Nat]
  /\ made \in [Topics -> Nat]
  /\ \A s \in Subscriptions :
       /\ member[s] = NoMap \/ \E t \in Topics : member[s].topic = t /\ member[s].number \in 1..made[t]
       /\ lock[s] \in Goroutines \cup {Nobody}
       /\ buffered[s] \in 0..BufferLength
       /\ status[s] \in {"unused", "making", "held", "released"}
  /\ \A g \in Goroutines : call[g].pc = "closing" => mutex = g
  /\ mutex = Nobody \/ \E g \in Goroutines :
                        mutex = g /\ call[g].pc \in {"closing", "panicked", "dead"}
  /\ shut \subseteq Subscriptions
  /\ closed \in BOOLEAN
  /\ \A g \in Goroutines :
       /\ call[g].topic \in Topics \cup {Nobody}
       /\ call[g].sub \in Subscriptions \cup {NoSubscription}
       /\ call[g].left \subseteq Subscriptions
  /\ orphaned \subseteq Subscriptions
  /\ removed \in BOOLEAN

(* A subscription its subscriber still holds, and whose channel is open, is in *)
(* its topic's current map, so that the next Publish reaches it and RemoveTopic *)
(* or Close ends it: Subscribe, RemoveTopic, Close and every panic between them *)
(* keep this, except that the unchecked insertion (local_pubsub.go:68-72) may   *)
(* have replaced the map.                                                       *)
OpenIsReachable ==
  \A s \in Subscriptions \ orphaned :
    status[s] = "held" /\ s \notin shut => s \in Records(member[s].topic)

(* As long as no topic is removed, only Publish panics: Subscribe finds a map   *)
(* (local_pubsub.go:86) and no channel is closed twice (local_pubsub.go:119),   *)
(* whichever calls raced to insert the topic.                                   *)
OnlyPublishPanics ==
  ~removed => \A g \in Goroutines : call[g].pc = "panicked" => call[g].op = "publish"

(* A publisher waits to take the oldest message of a buffer the subscriber has  *)
(* emptied: it holds the subscription's mutex, so no other message can arrive.  *)
Stuck(g) == call[g].pc = "drop" /\ buffered[call[g].sub] = 0 /\ call[g].sub \notin shut

(* Every call returns, in spite of the nested locks of RemoveTopic and Close    *)
(* (local_pubsub.go:41-52, 174-191) and of subscribers that stop listening,     *)
(* unless a goroutine has ended in a panic or a publisher is stuck: either      *)
(* keeps a mutex for ever.                                                      *)
CallsReturn ==
  \A g \in Goroutines :
    call[g].pc # "idle" ~> \/ call[g].pc = "idle"
                           \/ \E h \in Goroutines : call[h].pc \in {"panicked", "dead"} \/ Stuck(h)
=============================================================================
