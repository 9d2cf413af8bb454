-------------------------- MODULE LocalPubSubProofs --------------------------
(***************************************************************************)
(* The safety invariants of LocalPubSub, for every set of topics,          *)
(* subscriptions and goroutines and every length of the buffers. What has  *)
(* to be known in every state is whose a subscription is, and that the     *)
(* mutex keeps the maps still while RemoveTopic or Close walks them.       *)
(***************************************************************************)
EXTENDS LocalPubSub, TLAPS

(* The points a call can be at, by its operation. *)
Points == ({"none"} \X {"idle"})
          \cup ({"create"} \X {"check", "insert"})
          \cup ({"subscribe"} \X {"check", "insert", "record"})
          \cup ({"unsubscribe"} \X {"check", "fetch", "shut", "delete"})
          \cup ({"publish"} \X {"check", "insert", "fetch", "walk", "drop", "send"})
          \cup ({"remove"} \X {"check", "lock", "closing"})
          \cup ({"close"} \X {"closing"})
Operations == {"none", "create", "subscribe", "unsubscribe", "publish", "remove", "close"}
Ended      == {"panicked", "dead"}
Places     == {"idle", "check", "insert", "record", "fetch", "shut", "delete", "walk", "drop",
               "send", "lock", "closing"} \cup Ended
Maps       == [topic : Topics \cup {Nobody}, number : Nat]
Calls      == [op : Operations, pc : Places, topic : Topics \cup {Nobody},
               sub : Subscriptions \cup {NoSubscription}, map : Maps,
               left : SUBSET Subscriptions]

Shape ==
  /\ topics \subseteq Topics
  /\ subscriptions \in [Topics -> Nat]
  /\ made \in [Topics -> Nat]
  /\ \A t \in Topics : subscriptions[t] <= made[t]
  /\ member \in [Subscriptions -> Maps]
  /\ \A s \in Subscriptions : \/ member[s] = NoMap
                              \/ /\ member[s].topic \in Topics
                                 /\ member[s].number \in 1..made[member[s].topic]
  /\ mutex \in Goroutines \cup {Nobody}
  /\ lock \in [Subscriptions -> Goroutines \cup {Nobody}]
  /\ buffered \in [Subscriptions -> 0..BufferLength]
  /\ shut \subseteq Subscriptions
  /\ closed \in BOOLEAN
  /\ status \in [Subscriptions -> {"unused", "making", "held", "released"}]
  /\ call \in [Goroutines -> Calls]
  /\ orphaned \subseteq Subscriptions
  /\ removed \in BOOLEAN

(* A call is at a point of its operation, about a topic and a subscription if *)
(* that has them.                                                            *)
Sound(c) ==
  /\ <<c.op, c.pc>> \in Points
  /\ c = Idle \/ c.op # "none"
  /\ c.op \notin {"none", "close"} => c.topic \in Topics
  /\ c.op \in {"subscribe", "unsubscribe"} \/ c.pc \in {"drop", "send"} => c.sub \in Subscriptions
InCall(g)     == call[g].pc \notin Ended
CallsAreSound == \A g \in Goroutines : InCall(g) => Sound(call[g])

(* The mutex is held by the call that closes channels, or by one that panicked. *)
MutexIsHeld ==
  /\ \A g \in Goroutines : call[g].pc = "closing" => mutex = g
  /\ mutex # Nobody => call[mutex].pc \in {"closing"} \cup Ended

(* A subscription is made by one call and given up by one call. *)
Makes(g, s)   == call[g].op = "subscribe" /\ InCall(g) /\ call[g].sub = s
GivesUp(g, s) == call[g].op = "unsubscribe" /\ InCall(g) /\ call[g].sub = s
OneOwner ==
  \A s \in Subscriptions :
    /\ \A g \in Goroutines : /\ Makes(g, s) => status[s] = "making"
                             /\ GivesUp(g, s) => status[s] = "released"
    /\ \A g, h \in Goroutines : /\ Makes(g, s) /\ Makes(h, s) => g = h
                                /\ GivesUp(g, s) /\ GivesUp(h, s) => g = h
    /\ status[s] = "held" => member[s] # NoMap

(* What is deleted is closed, and what RemoveTopic and Close do not have to  *)
(* close any more is closed.                                                 *)
ClosedFirst ==
  \A g \in Goroutines :
    /\ call[g].pc = "delete" => call[g].sub \in shut
    /\ call[g].pc = "closing" /\ call[g].op = "remove"
         => Records(call[g].topic) \subseteq call[g].left \cup shut
    /\ call[g].pc = "closing" /\ call[g].op = "close"
         => \A t \in Topics : Records(t) \subseteq call[g].left \cup shut

(* Until a topic is removed every topic has a map, and a channel is closed by *)
(* the one call that gives its subscription up.                              *)
NothingRemoved ==
  /\ \A g \in Goroutines : call[g].pc = "closing" => removed
  /\ ~removed => /\ \A t \in topics : subscriptions[t] # 0
                 /\ \A g \in Goroutines : call[g].pc = "record" => call[g].topic \in topics
                 /\ \A s \in shut : /\ status[s] = "released"
                                    /\ \A g \in Goroutines : GivesUp(g, s) => call[g].pc = "delete"

IInv == /\ Shape /\ CallsAreSound /\ MutexIsHeld /\ OneOwner /\ ClosedFirst
        /\ OpenIsReachable /\ NothingRemoved /\ OnlyPublishPanics

(* The client of NewClient (init.go:27-34) has no topic and no call. *)
LEMMA InitIInv == Init => IInv
<1> SUFFICES ASSUME Init PROVE IInv
  OBVIOUS
<1>1. Shape
  <2>1. Idle \in Calls /\ NoMap \in Maps
    BY DEF Idle, Calls, Operations, Places, Maps, NoMap
  <2>2. closed \in BOOLEAN /\ removed \in BOOLEAN
    BY Zenon DEF Init
  <2>3. QED
    BY <2>1, <2>2, BufferAssumption DEF Init, Shape
<1>2. \A t \in Topics : Records(t) = {}
  BY DEF Init, Records
<1>3. CallsAreSound
  BY DEF Init, CallsAreSound, Sound, Idle, Points
<1>4. MutexIsHeld /\ OneOwner
  BY DEF Init, MutexIsHeld, OneOwner, Idle, Makes, GivesUp
<1>5. ClosedFirst /\ OpenIsReachable /\ NothingRemoved /\ OnlyPublishPanics
  BY DEF Init, Idle, ClosedFirst, OpenIsReachable, NothingRemoved, OnlyPublishPanics
<1>6. QED
  BY <1>1, <1>3, <1>4, <1>5 DEF IInv

(* A call is a call again when some of its fields change. *)
LEMMA PlaceChanges ==
  ASSUME NEW c \in Calls, NEW p \in Places
  PROVE  [c EXCEPT !.pc = p] \in Calls
<1> DEFINE C(P) == [op : Operations, pc : P, topic : Topics \cup {Nobody},
                    sub : Subscriptions \cup {NoSubscription}, map : Maps,
                    left : SUBSET Subscriptions]
<1>1. PICK P : P = Places /\ C(P) = Calls
  BY DEF Calls
<1>2. [c EXCEPT !.pc = p] \in C(P)
  BY <1>1
<1>3. QED
  BY <1>1, <1>2

LEMMA LeftChanges ==
  ASSUME NEW c \in Calls,
         NEW left \in SUBSET Subscriptions
  PROVE  [c EXCEPT !.left = left] \in Calls
<1> DEFINE C(P) == [op : Operations, pc : P, topic : Topics \cup {Nobody},
                    sub : Subscriptions \cup {NoSubscription}, map : Maps,
                    left : SUBSET Subscriptions]
<1>1. PICK P : P = Places /\ C(P) = Calls
  BY DEF Calls
<1>2. [c EXCEPT !.left = left] \in C(P)
  BY <1>1
<1>3. QED
  BY <1>1, <1>2

LEMMA PointChanges ==
  ASSUME NEW c \in Calls,
         NEW p \in Places, NEW left \in SUBSET Subscriptions
  PROVE  [c EXCEPT !.pc = p, !.left = left] \in Calls
<1> DEFINE C(P) == [op : Operations, pc : P, topic : Topics \cup {Nobody},
                    sub : Subscriptions \cup {NoSubscription}, map : Maps,
                    left : SUBSET Subscriptions]
<1>1. PICK P : P = Places /\ C(P) = Calls
  BY DEF Calls
<1>2. [c EXCEPT !.pc = p, !.left = left] \in C(P)
  BY <1>1
<1>3. QED
  BY <1>1, <1>2

LEMMA MapChanges ==
  ASSUME NEW c \in Calls,
         NEW p \in Places, NEW m \in Maps, NEW left \in SUBSET Subscriptions
  PROVE  [c EXCEPT !.pc = p, !.map = m, !.left = left] \in Calls
<1> DEFINE C(P) == [op : Operations, pc : P, topic : Topics \cup {Nobody},
                    sub : Subscriptions \cup {NoSubscription}, map : Maps,
                    left : SUBSET Subscriptions]
<1>1. PICK P : P = Places /\ C(P) = Calls
  BY DEF Calls
<1>2. [c EXCEPT !.pc = p, !.map = m, !.left = left] \in C(P)
  BY <1>1
<1>3. QED
  BY <1>1, <1>2

LEMMA RecordChanges ==
  ASSUME NEW c \in Calls,
         NEW p \in Places, NEW n \in Subscriptions \cup {NoSubscription}, NEW left \in SUBSET Subscriptions
  PROVE  [c EXCEPT !.pc = p, !.sub = n, !.left = left] \in Calls
<1> DEFINE C(P) == [op : Operations, pc : P, topic : Topics \cup {Nobody},
                    sub : Subscriptions \cup {NoSubscription}, map : Maps,
                    left : SUBSET Subscriptions]
<1>1. PICK P : P = Places /\ C(P) = Calls
  BY DEF Calls
<1>2. [c EXCEPT !.pc = p, !.sub = n, !.left = left] \in C(P)
  BY <1>1
<1>3. QED
  BY <1>1, <1>2

(* What a step leaves of a call, and of the others. *)
LEMMA GotoFields ==
  ASSUME Shape, NEW g \in Goroutines, NEW p \in Places, Goto(g, p)
  PROVE  /\ call' \in [Goroutines -> Calls]
         /\ \A h \in Goroutines : h # g => call'[h] = call[h]
         /\ call'[g].pc = p /\ call'[g].op = call[g].op /\ call'[g].topic = call[g].topic
         /\ call'[g].sub = call[g].sub /\ call'[g].map = call[g].map /\ call'[g].left = call[g].left
<1>1. call[g] \in Calls /\ call \in [Goroutines -> Calls]
  BY DEF Shape
<1>2. call'[g] = [call[g] EXCEPT !.pc = p] /\ \A h \in Goroutines : h # g => call'[h] = call[h]
  BY <1>1 DEF Goto
<1>3. [call[g] EXCEPT !.pc = p] \in Calls
  BY <1>1 DEF Calls
<1>4. QED
  BY <1>1, <1>2, <1>3 DEF Goto, Calls

(* A call that returns. *)
LEMMA ReturnFields ==
  ASSUME Shape, NEW g \in Goroutines, Return(g)
  PROVE  /\ call' \in [Goroutines -> Calls]
         /\ \A h \in Goroutines : h # g => call'[h] = call[h]
         /\ call'[g] = Idle /\ Idle.pc = "idle" /\ Idle.op = "none" /\ Idle.left = {}
<1>1. Idle \in Calls
  BY DEF Idle, Calls, Operations, Places, Maps, NoMap
<1>2. QED
  BY <1>1 DEF Return, Shape, Idle

(* A panic ends a call, or all of them. *)
LEMMA PanicFields ==
  ASSUME Shape, NEW g \in Goroutines, Panic(g) \/ Die
  PROVE  /\ call' \in [Goroutines -> Calls]
         /\ \A h \in Goroutines :
              /\ call'[h].op = call[h].op /\ call'[h].topic = call[h].topic /\ call'[h].sub = call[h].sub
              /\ call'[h].pc = "dead" \/ call'[h] = call[h] \/ (h = g /\ call'[h].pc = "panicked" /\ Panic(g))
         /\ call'[g].pc \in Ended
<1>1. CASE Goto(g, "panicked") /\ Panic(g)
  BY <1>1, GotoFields DEF Places, Ended
<1>2. CASE Die
  <2>1. \A h \in Goroutines : /\ call'[h] = [call[h] EXCEPT !.pc = "dead"]
                              /\ call[h] \in Calls
    BY <1>2 DEF Die, Shape
  <2>2. \A h \in Goroutines : /\ call'[h].op = call[h].op /\ call'[h].topic = call[h].topic
                              /\ call'[h].sub = call[h].sub /\ call'[h].pc = "dead"
    BY <2>1 DEF Calls
  <2>3. \A h \in Goroutines : [call[h] EXCEPT !.pc = "dead"] \in Calls
    <3>1. "dead" \in Places
      BY DEF Places, Ended
    <3>2. TAKE h \in Goroutines
    <3>3. PICK c : c = call[h] /\ c \in Calls
      BY <2>1
    <3>4. [c EXCEPT !.pc = "dead"] \in Calls
      BY <3>1, <3>3, PlaceChanges
    <3>5. QED
      BY <3>3, <3>4
  <2>4. call' \in [Goroutines -> Calls]
    BY <1>2, <2>3 DEF Die
  <2>5. QED
    BY <2>2, <2>4 DEF Ended
<1>3. QED
  BY <1>1, <1>2 DEF Panic

(* A range over a topic's map visits subscriptions. *)
LEMMA RecordsAreSubscriptions ==
  ASSUME NEW t PROVE Records(t) \subseteq Subscriptions
  BY DEF Records, Members

(* Where a call is, it is a call of its operation. *)
LEMMA CallFields ==
  ASSUME Shape, CallsAreSound, NEW g \in Goroutines
  PROVE  /\ call[g].pc = "idle" <=> call[g] = Idle
         /\ call[g].pc \in {"insert", "record", "fetch", "shut", "delete"} => call[g].topic \in Topics
         /\ call[g].pc \in {"check", "lock"} => call[g].topic \in Topics
         /\ call[g].pc = "closing" /\ call[g].op = "remove" => call[g].topic \in Topics
         /\ call[g].pc = "closing" => call[g].op \in {"remove", "close"}
         /\ call[g].pc = "record" => call[g].op = "subscribe" /\ call[g].sub \in Subscriptions
         /\ call[g].pc = "insert" => call[g].op \in {"create", "subscribe", "publish"}
         /\ call[g].pc \in {"shut", "delete"} => call[g].op = "unsubscribe" /\ call[g].sub \in Subscriptions
         /\ call[g].pc = "fetch" /\ call[g].op = "unsubscribe" => call[g].sub \in Subscriptions
         /\ call[g].pc \in {"drop", "send"} => call[g].op = "publish" /\ call[g].sub \in Subscriptions
         /\ call[g].pc = "walk" => call[g].op = "publish"
         /\ call[g].pc = "check" => call[g].op \in Operations \ {"none", "close"}
         /\ call[g].pc = "idle" => call[g].op = "none" \/ call[g] = Idle
<1>1. call[g].pc \notin Ended => Sound(call[g])
  BY DEF CallsAreSound, InCall
<1>2. call[g] = Idle => call[g].pc = "idle" /\ call[g].op = "none"
  BY DEF Idle
<1>3. call[g].op \in Operations
  BY DEF Shape, Calls
<1>4. QED
  BY <1>1, <1>2, <1>3 DEF Sound, Points, Ended, Operations

(* Each step of a call (local_pubsub.go:11-192) leaves the shape of the state. *)
LEMMA CallStepShape ==
  ASSUME Shape, CallsAreSound, NEW g \in Goroutines, CallStep(g)
  PROVE  Shape'
<1> USE CallFields DEF tables, channels, watch
<1>a. /\ "idle" \in Places /\ "record" \in Places /\ "fetch" \in Places /\ "insert" \in Places /\ "lock" \in Places
      /\ "shut" \in Places /\ "delete" \in Places /\ "walk" \in Places /\ "send" \in Places /\ "drop" \in Places
      /\ "closing" \in Places
  BY DEF Places
<1>1. CASE CheckTopic(g)
  <2>1. call' \in [Goroutines -> Calls]
    BY <1>1, <1>a, GotoFields, ReturnFields DEF CheckTopic, Operations
  <2>2. QED
    BY <1>1, <2>1 DEF CheckTopic, Shape
<1>2. CASE InsertTopic(g)
  <2>1. call' \in [Goroutines -> Calls]
    BY <1>2, <1>a, GotoFields, ReturnFields DEF InsertTopic
  <2>2. call[g].topic \in Topics
    BY <1>2 DEF InsertTopic
  <2>3. orphaned' \subseteq Subscriptions
    BY <1>2, RecordsAreSubscriptions DEF InsertTopic, Shape
  <2>4. /\ made' \in [Topics -> Nat] /\ subscriptions' \in [Topics -> Nat]
        /\ \A t \in Topics : subscriptions'[t] <= made'[t] /\ made[t] <= made'[t]
    BY <1>2, <2>2 DEF InsertTopic, Shape
  <2>5. \A s \in Subscriptions : \/ member'[s] = NoMap
                                 \/ /\ member'[s].topic \in Topics
                                    /\ member'[s].number \in 1..made'[member'[s].topic]
    BY <1>2, <2>4 DEF InsertTopic, Shape
  <2>6. QED
    BY <1>2, <2>1, <2>2, <2>3, <2>4, <2>5 DEF InsertTopic, Shape
<1>3. CASE WriteRecord(g)
  <2> DEFINE t == call[g].topic
             s == call[g].sub
  <2>1. t \in Topics /\ s \in Subscriptions
    BY <1>3 DEF WriteRecord
  <2>2. CASE subscriptions[t] = 0
    BY <1>3, <2>2, PanicFields DEF WriteRecord, Shape
  <2>3. CASE subscriptions[t] # 0
    <3>1. MapOf(t) \in Maps /\ MapOf(t).topic = t /\ MapOf(t).number \in 1..made[t]
      BY <2>1, <2>3 DEF MapOf, Maps, Shape
    <3>2. call' \in [Goroutines -> Calls]
      <4>1. ASSUME NEW seeing \in SUBSET Walking(MapOf(t)),
                   call' = [h \in Goroutines |->
                                  IF h = g THEN Idle
                                  ELSE IF h \in seeing THEN [call[h] EXCEPT !.left = @ \cup {s}]
                                  ELSE call[h]]
            PROVE  call' \in [Goroutines -> Calls]
        <5>1. Idle \in Calls
          BY DEF Idle, Calls, Operations, Places, Maps, NoMap
        <5>2. \A h \in Goroutines : call[h] \in Calls
          BY DEF Shape
        <5>3. \A h \in Goroutines : [call[h] EXCEPT !.left = @ \cup {s}] \in Calls
          BY <5>2, <2>1 DEF Calls
        <5>4. QED
          BY <4>1, <5>1, <5>2, <5>3
      <4>2. QED
        BY <1>3, <2>3, <4>1, PanicFields DEF WriteRecord
    <3>3. member' = [member EXCEPT ![s] = MapOf(t)] /\ status' = [status EXCEPT ![s] = "held"]
      BY <1>3, <2>3 DEF WriteRecord
    <3>4. QED
      BY <1>3, <2>1, <2>3, <3>1, <3>2, <3>3 DEF WriteRecord, Shape
  <2>4. QED
    BY <2>2, <2>3
<1>4. CASE FetchRecord(g)
  BY <1>4, <1>a, GotoFields, ReturnFields DEF FetchRecord, Shape
<1>5. CASE CloseChannel(g)
  <2>1. call' \in [Goroutines -> Calls]
    BY <1>5, <1>a, GotoFields, PanicFields DEF CloseChannel
  <2>2. QED
    BY <1>5, <2>1 DEF CloseChannel, Shape
<1>6. CASE DeleteRecord(g)
  <2>1. call' \in [Goroutines -> Calls]
    BY <1>6, <1>a, ReturnFields, PanicFields DEF DeleteRecord
  <2>2. NoMap \in Maps /\ call[g].sub \in Subscriptions
    BY <1>6 DEF NoMap, Maps, DeleteRecord
  <2>3. QED
    BY <1>6, <2>1, <2>2 DEF DeleteRecord, Shape
<1>7. CASE FetchMap(g)
  <2>1. MapOf(call[g].topic) \in Maps
    BY <1>7 DEF FetchMap, MapOf, Maps, Shape
  <2>2. [call[g] EXCEPT !.pc = "walk", !.map = MapOf(call[g].topic), !.left = Records(call[g].topic)] \in Calls
    <3>1. call[g] \in Calls /\ Records(call[g].topic) \in SUBSET Subscriptions /\ "walk" \in Places
      BY <1>a, RecordsAreSubscriptions DEF Shape, Places
    <3>2. PICK m, left : m = MapOf(call[g].topic) /\ left = Records(call[g].topic)
      OBVIOUS
    <3>3. [call[g] EXCEPT !.pc = "walk", !.map = m, !.left = left] \in Calls
      BY <2>1, <3>1, <3>2, MapChanges
    <3>4. QED
      BY <3>2, <3>3
  <2>3. QED
    BY <1>7, <2>2 DEF FetchMap, Shape
<1>8. CASE DropOldest(g)
  <2>1. /\ call[g].sub \in Subscriptions
        /\ \A n \in 0..BufferLength : (IF n = 0 THEN 0 ELSE n - 1) \in 0..BufferLength
    BY <1>8, BufferAssumption DEF DropOldest
  <2>2. QED
    BY <1>8, <1>a, <2>1, GotoFields DEF DropOldest, Shape
<1>9. CASE Send(g)
  <2>1. call' \in [Goroutines -> Calls] /\ call[g].sub \in Subscriptions
    BY <1>9, <1>a, GotoFields, PanicFields DEF Send
  <2>2. \A n \in 0..BufferLength : n < BufferLength => n + 1 \in 0..BufferLength
    BY BufferAssumption
  <2>3. buffered' \in [Subscriptions -> 0..BufferLength]
    BY <1>9, <2>1, <2>2 DEF Send, Shape
  <2>4. QED
    BY <1>9, <2>1, <2>3 DEF Send, Shape
<1>10. CASE FinishPublish(g)
  BY <1>10, ReturnFields DEF FinishPublish, Shape
<1>11. CASE LockForRemoval(g)
  <2>1. [call[g] EXCEPT !.pc = "closing", !.left = Records(call[g].topic)] \in Calls
    <3>1. call[g] \in Calls /\ Records(call[g].topic) \in SUBSET Subscriptions /\ "closing" \in Places
      BY <1>a, RecordsAreSubscriptions DEF Shape, Places
    <3>2. PICK left : left = Records(call[g].topic)
      OBVIOUS
    <3>3. [call[g] EXCEPT !.pc = "closing", !.left = left] \in Calls
      BY <3>1, <3>2, PointChanges
    <3>4. QED
      BY <3>2, <3>3
  <2>2. QED
    BY <1>11, <2>1 DEF LockForRemoval, Shape
<1>12. CASE DeleteTopic(g)
  BY <1>12, ReturnFields DEF DeleteTopic, Shape
<1>13. CASE FinishClose(g)
  BY <1>13, ReturnFields DEF FinishClose, Shape
<1>14. ASSUME NEW s \in Subscriptions, Visit(g, s) PROVE Shape'
  <2>1. ASSUME NEW p \in {"drop", "send"}
        PROVE  [call[g] EXCEPT !.pc = p, !.sub = s, !.left = @ \ {s}] \in Calls
    <3>1. /\ call[g] \in Calls /\ p \in Places /\ s \in Subscriptions \cup {NoSubscription}
          /\ call[g].left \ {s} \in SUBSET Subscriptions
      BY <1>a, <2>1 DEF Shape, Places, Calls
    <3>2. PICK left : left = call[g].left \ {s}
      OBVIOUS
    <3>3. [call[g] EXCEPT !.pc = p, !.sub = s, !.left = left] \in Calls
      BY <3>1, <3>2, RecordChanges
    <3>4. QED
      BY <3>2, <3>3
  <2>2. call' \in [Goroutines -> Calls]
    <3>1. PICK p \in {"drop", "send"} :
            call' = [call EXCEPT ![g] = [call[g] EXCEPT !.pc = p, !.sub = s, !.left = @ \ {s}]]
      BY <1>14 DEF Visit
    <3>2. QED
      BY <1>a, <2>1, <3>1 DEF Shape
  <2>3. QED
    BY <1>14, <2>2 DEF Visit, Shape
<1>15. ASSUME NEW s \in Subscriptions, CloseNext(g, s) PROVE Shape'
  <2>1. [call[g] EXCEPT !.left = @ \ {s}] \in Calls
    <3>1. call[g] \in Calls /\ call[g].left \ {s} \in SUBSET Subscriptions
      BY <1>a DEF Shape, Calls
    <3>2. PICK left : left = call[g].left \ {s}
      OBVIOUS
    <3>3. [call[g] EXCEPT !.left = left] \in Calls
      BY <3>1, <3>2, LeftChanges
    <3>4. QED
      BY <3>2, <3>3
  <2>2. call' \in [Goroutines -> Calls]
    <3>1. CASE s \notin shut
      BY <1>15, <2>1, <3>1 DEF CloseNext, Shape
    <3>2. CASE s \in shut
      BY <1>15, <3>2, ReturnFields, PanicFields DEF CloseNext
    <3>3. QED
      BY <3>1, <3>2
  <2>3. QED
    BY <1>15, <2>2 DEF CloseNext, Shape
<1> QED
  BY <1>1, <1>2, <1>3, <1>4, <1>5, <1>6, <1>7, <1>8, <1>9, <1>10, <1>11, <1>12, <1>13, <1>14, <1>15 DEF CallStep

(* So does the beginning of a call, *)
LEMMA NewCallShape ==
  ASSUME Shape, CallsAreSound, OneOwner, NEW g \in Goroutines, NewCall(g)
  PROVE  Shape'
<1> USE DEF tables, channels, watch
<1>2. ASSUME NEW t \in Topics, NEW o \in {"create", "remove", "publish"}, Begin(g, o, t) PROVE Shape'
  <2>1. [Idle EXCEPT !.op = o, !.pc = "check", !.topic = t] \in Calls
    BY DEF Idle, Calls, Operations, Places, NoMap, Maps
  <2>2. QED
    BY <1>2, <2>1 DEF Begin, Shape
<1>3. ASSUME NEW t \in Topics, NEW s \in Subscriptions, BeginSubscribe(g, t, s) PROVE Shape'
  <2>1. [Idle EXCEPT !.op = "subscribe", !.pc = "check", !.topic = t, !.sub = s] \in Calls
    BY DEF Idle, Calls, Operations, Places, NoMap, Maps
  <2>2. QED
    BY <1>3, <2>1 DEF BeginSubscribe, Shape
<1>4. ASSUME NEW s \in Subscriptions, BeginUnsubscribe(g, s) PROVE Shape'
  <2>1. member[s].topic \in Topics
    BY <1>4 DEF BeginUnsubscribe, OneOwner, Shape
  <2>2. [Idle EXCEPT !.op = "unsubscribe", !.pc = "check", !.topic = member[s].topic, !.sub = s] \in Calls
    BY <2>1 DEF Idle, Calls, Operations, Places, NoMap, Maps
  <2>3. QED
    BY <1>4, <2>2 DEF BeginUnsubscribe, Shape
<1>5. CASE LockForClose(g)
  <2> DEFINE L == UNION {Records(t) : t \in Topics}
  <2>1. L \subseteq Subscriptions
    BY RecordsAreSubscriptions
  <2> HIDE DEF L
  <2>2. [Idle EXCEPT !.op = "close", !.pc = "closing", !.left = L] \in Calls
    BY <2>1 DEF Idle, Calls, Operations, Places, NoMap, Maps
  <2>3. call' = [call EXCEPT ![g] = [Idle EXCEPT !.op = "close", !.pc = "closing", !.left = L]]
    BY <1>5 DEF LockForClose, L
  <2>4. QED
    BY <1>5, <2>2, <2>3 DEF LockForClose, Shape
<1>6. QED
  BY <1>2, <1>3, <1>4, <1>5 DEF NewCall

(* and the subscriber's receive. *)
LEMMA ConsumeShape ==
  ASSUME Shape, NEW s \in Subscriptions, Consume(s)
  PROVE  Shape'
<1>1. \A n \in 0..BufferLength : n > 0 => n - 1 \in 0..BufferLength
  BY BufferAssumption
<1>2. QED
  BY <1>1 DEF Consume, Shape, tables, watch

(* A step of one call leaves the others where they are, except that a panic   *)
(* ends them all and a new record may be added to what a publisher has left.  *)
LEMMA StepOfOthers ==
  ASSUME Shape, CallsAreSound, NEW g \in Goroutines, CallStep(g) \/ NewCall(g), NEW h \in Goroutines, h # g
  PROVE  \/ call'[h] = call[h]
         \/ call'[h].pc = "dead" /\ call'[h].op = call[h].op
         \/ /\ call[h].pc \in {"walk", "drop", "send"}
            /\ call'[h] = [call[h] EXCEPT !.left = @ \cup {call[g].sub}]
<1> DEFINE Same == call'[h] = call[h]
           Dead == call'[h].pc = "dead" /\ call'[h].op = call[h].op
<1>1. Die \/ Panic(g) => Same \/ Dead
  BY PanicFields
<1>2. Return(g) => Same
  BY ReturnFields
<1>3. ASSUME NEW p \in Places, Goto(g, p) PROVE Same
  BY <1>3, GotoFields
<1>a. /\ "idle" \in Places /\ "record" \in Places /\ "fetch" \in Places /\ "insert" \in Places /\ "lock" \in Places
      /\ "shut" \in Places /\ "delete" \in Places /\ "walk" \in Places /\ "send" \in Places /\ "drop" \in Places
      /\ "closing" \in Places
  BY DEF Places
<1>b. call \in [Goroutines -> Calls]
  BY DEF Shape
<1>4. CASE CheckTopic(g) \/ InsertTopic(g) \/ FetchRecord(g) \/ CloseChannel(g)
  BY <1>4, <1>1, <1>2, <1>3, <1>a, CallFields DEF CheckTopic, InsertTopic, FetchRecord, CloseChannel, Operations
<1>5. CASE WriteRecord(g)
  <2> DEFINE s == call[g].sub
  <2>1. CASE subscriptions[call[g].topic] = 0
    BY <1>5, <2>1, <1>1 DEF WriteRecord
  <2>2. ASSUME NEW seeing \in SUBSET Walking(MapOf(call[g].topic)),
               call' = [k \in Goroutines |->
                                  IF k = g THEN Idle
                                  ELSE IF k \in seeing THEN [call[k] EXCEPT !.left = @ \cup {s}]
                                  ELSE call[k]]
        PROVE  \/ Same
               \/ /\ call[h].pc \in {"walk", "drop", "send"}
                  /\ call'[h] = [call[h] EXCEPT !.left = @ \cup {call[g].sub}]
    BY <2>2 DEF Walking
  <2>3. CASE subscriptions[call[g].topic] # 0
    BY <1>5, <2>2, <2>3, <1>1 DEF WriteRecord
  <2>4. QED
    BY <2>1, <2>3
<1>6. CASE DeleteRecord(g) \/ FetchMap(g) \/ DropOldest(g) \/ Send(g) \/ FinishPublish(g)
  BY <1>6, <1>1, <1>2, <1>3, <1>a, <1>b DEF DeleteRecord, FetchMap, DropOldest, Send, FinishPublish
<1>7. CASE LockForRemoval(g) \/ DeleteTopic(g) \/ FinishClose(g)
  BY <1>7, <1>1, <1>2, <1>3, <1>a, <1>b DEF LockForRemoval, DeleteTopic, FinishClose
<1>8. ASSUME NEW s \in Subscriptions, Visit(g, s) \/ CloseNext(g, s) PROVE Same \/ Dead
  BY <1>8, <1>1, <1>2, <1>3, <1>a, <1>b DEF Visit, CloseNext
<1>9. ASSUME NEW t \in Topics, NEW o \in {"create", "remove", "publish"}, Begin(g, o, t) PROVE Same
  BY <1>9, <1>b DEF Begin
<1>10. ASSUME NEW t \in Topics, NEW s \in Subscriptions, BeginSubscribe(g, t, s) PROVE Same
  BY <1>10, <1>b DEF BeginSubscribe
<1>11. ASSUME NEW s \in Subscriptions, BeginUnsubscribe(g, s) PROVE Same
  BY <1>11, <1>b DEF BeginUnsubscribe
<1>12. CASE LockForClose(g)
  BY <1>12, <1>b DEF LockForClose
<1>13. CASE CallStep(g)
  BY <1>4, <1>5, <1>6, <1>7, <1>8, <1>13 DEF CallStep
<1>14. CASE NewCall(g)
  BY <1>9, <1>10, <1>11, <1>12, <1>14 DEF NewCall
<1>15. QED
  BY <1>13, <1>14

(* The point the call that steps comes to. *)
LEMMA StepOfOwn ==
  ASSUME Shape, CallsAreSound, NEW g \in Goroutines, CallStep(g)
  PROVE  \/ call'[g].pc \in Ended /\ call'[g].op = call[g].op
         \/ call'[g] = Idle
         \/ /\ InCall(g)
            /\ call'[g].op = call[g].op /\ call'[g].topic = call[g].topic
            /\ <<call'[g].op, call'[g].pc>> \in Points
            /\ call'[g].sub = call[g].sub \/ (call'[g].sub \in Subscriptions /\ call[g].op = "publish")
            /\ \/ call[g].pc = "check" /\ call'[g].pc = "insert"
               \/ call[g].pc = "check" /\ call'[g].pc \in {"record", "fetch", "lock"} /\ call[g].topic \in topics
               \/ call[g].pc = "insert" /\ call'[g].pc \in {"record", "fetch"} /\ InsertTopic(g)
               \/ call[g].pc = "fetch" /\ call'[g].pc \in {"shut", "walk"}
               \/ call[g].pc = "shut" /\ call'[g].pc = "delete" /\ CloseChannel(g)
               \/ call[g].pc \in {"walk", "drop"} /\ call'[g].pc \in {"drop", "send"}
               \/ call[g].pc = "send" /\ call'[g].pc = "walk"
               \/ call[g].pc = "lock" /\ call'[g].pc = "closing" /\ LockForRemoval(g)
               \/ call[g].pc = "closing" /\ call'[g].pc = "closing" /\ \E s \in Subscriptions : CloseNext(g, s)
            /\ call[g].op \notin {"none", "close"} => call[g].topic \in Topics
            /\ call[g].op \in {"subscribe", "unsubscribe"} \/ call'[g].pc \in {"drop", "send"}
                 => call'[g].sub \in Subscriptions
<1> DEFINE Done == (call'[g].pc \in Ended /\ call'[g].op = call[g].op) \/ call'[g] = Idle
           Moved(p) == /\ call'[g].pc = p /\ call'[g].op = call[g].op /\ call'[g].topic = call[g].topic
                       /\ call'[g].sub = call[g].sub
<1>1. Die \/ Panic(g) => Done
  BY PanicFields
<1>2. Return(g) => Done
  BY ReturnFields
<1>3. ASSUME NEW p \in Places, Goto(g, p) PROVE Moved(p)
  BY <1>3, GotoFields
<1>a. /\ "idle" \in Places /\ "record" \in Places /\ "fetch" \in Places /\ "insert" \in Places /\ "lock" \in Places
      /\ "shut" \in Places /\ "delete" \in Places /\ "walk" \in Places /\ "send" \in Places /\ "drop" \in Places
      /\ "closing" \in Places
  BY DEF Places
<1>b. call \in [Goroutines -> Calls] /\ call[g] \in Calls
  BY DEF Shape
<1>c. InCall(g) => /\ call[g].op \notin {"none", "close"} => call[g].topic \in Topics
                   /\ call[g].op \in {"subscribe", "unsubscribe"} => call[g].sub \in Subscriptions
  BY DEF CallsAreSound, Sound
<1>p. /\ \A o \in {"create", "subscribe", "publish"} : <<o, "insert">> \in Points
      /\ <<"subscribe", "record">> \in Points /\ <<"remove", "lock">> \in Points
      /\ \A p \in {"fetch", "shut", "delete"} : <<"unsubscribe", p>> \in Points
      /\ \A p \in {"fetch", "walk", "drop", "send"} : <<"publish", p>> \in Points
      /\ \A o \in {"remove", "close"} : <<o, "closing">> \in Points
  BY DEF Points
<1>4. CASE CheckTopic(g)
  <2>1. /\ call[g].pc = "check"
        /\ \/ call[g].op = "create" /\ (Done \/ Moved("insert"))
           \/ call[g].op = "remove" /\ (Done \/ (Moved("lock") /\ call[g].topic \in topics))
           \/ call[g].op = "subscribe" /\ (Moved("insert") \/ (Moved("record") /\ call[g].topic \in topics))
           \/ call[g].op = "unsubscribe" /\ (Done \/ (Moved("fetch") /\ call[g].topic \in topics))
           \/ call[g].op = "publish" /\ (Moved("insert") \/ (Moved("fetch") /\ call[g].topic \in topics))
    BY <1>4, <1>1, <1>2, <1>3, <1>a, CallFields DEF CheckTopic, Operations
  <2>2. QED
    BY <1>c, <1>p, <2>1 DEF InCall, Ended
<1>5. CASE InsertTopic(g)
  <2>1. /\ call[g].pc = "insert"
        /\ \/ call[g].op = "create" /\ Done
           \/ call[g].op = "subscribe" /\ Moved("record")
           \/ call[g].op = "publish" /\ Moved("fetch")
    BY <1>5, <1>2, <1>3, <1>a, CallFields DEF InsertTopic
  <2>2. QED
    BY <1>5, <1>c, <1>p, <2>1 DEF InCall, Ended
<1>6. CASE WriteRecord(g)
  BY <1>6, <1>1, <1>b DEF WriteRecord
<1>7. CASE FetchRecord(g)
  <2>1. call[g].pc = "fetch" /\ call[g].op = "unsubscribe" /\ (Done \/ Moved("shut"))
    BY <1>7, <1>2, <1>3, <1>a DEF FetchRecord
  <2>2. QED
    BY <2>1, <1>c, <1>p DEF InCall, Ended
<1>8. CASE CloseChannel(g)
  <2>1. call[g].pc = "shut" /\ (Done \/ Moved("delete")) /\ call[g].op = "unsubscribe"
    BY <1>8, <1>1, <1>3, <1>a, CallFields DEF CloseChannel
  <2>2. QED
    BY <1>8, <2>1, <1>c, <1>p DEF InCall, Ended
<1>9. CASE DeleteRecord(g)
  BY <1>9, <1>1, <1>2 DEF DeleteRecord
<1>10. CASE FetchMap(g)
  <2>1. call[g].pc = "fetch" /\ call[g].op = "publish" /\ Moved("walk")
    BY <1>10, <1>b DEF FetchMap, Calls
  <2>2. QED
    BY <2>1, <1>c, <1>p DEF InCall, Ended
<1>11. CASE DropOldest(g)
  <2>1. call[g].pc = "drop" /\ Moved("send") /\ call[g].op = "publish" /\ call[g].sub \in Subscriptions
    BY <1>11, <1>3, <1>a, CallFields DEF DropOldest
  <2>2. QED
    BY <2>1, <1>c, <1>p DEF InCall, Ended
<1>12. CASE Send(g)
  <2>1. call[g].pc = "send" /\ (Done \/ Moved("walk")) /\ call[g].op = "publish"
    BY <1>12, <1>1, <1>3, <1>a, CallFields DEF Send
  <2>2. QED
    BY <2>1, <1>c, <1>p DEF InCall, Ended
<1>13. CASE FinishPublish(g) \/ DeleteTopic(g) \/ FinishClose(g)
  BY <1>13, <1>2 DEF FinishPublish, DeleteTopic, FinishClose
<1>14. CASE LockForRemoval(g)
  <2>1. call[g].pc = "lock" /\ call[g].op = "remove" /\ Moved("closing")
    BY <1>14, <1>b DEF LockForRemoval, Calls
  <2>2. QED
    BY <1>14, <2>1, <1>c, <1>p DEF InCall, Ended
<1>15. ASSUME NEW s \in Subscriptions, Visit(g, s)
       PROVE  /\ call[g].pc = "walk" /\ call'[g].pc \in {"drop", "send"} /\ call[g].op = "publish"
              /\ call'[g].op = call[g].op /\ call'[g].topic = call[g].topic
              /\ call'[g].sub \in Subscriptions
  BY <1>15, <1>b, CallFields DEF Visit, Calls
<1>16. CASE \E s \in Subscriptions : Visit(g, s)
  BY <1>16, <1>15, <1>c, <1>p DEF InCall, Ended
<1>17. ASSUME NEW s \in Subscriptions, CloseNext(g, s)
       PROVE  Done \/ (call[g].pc = "closing" /\ call[g].op \in {"remove", "close"} /\ Moved("closing"))
  <2>1. [call[g] EXCEPT !.left = @ \ {s}].pc = call[g].pc /\ call[g].pc = "closing" /\ call[g].op \in {"remove", "close"}
    BY <1>17, <1>b, CallFields DEF CloseNext, Calls
  <2>2. s \notin shut => Moved("closing")
    BY <1>17, <1>b, <2>1 DEF CloseNext, Calls
  <2>3. s \in shut => Done
    BY <1>17, <1>1, <1>2 DEF CloseNext
  <2>4. QED
    BY <2>1, <2>2, <2>3
<1>18. CASE \E s \in Subscriptions : CloseNext(g, s)
  <2>1. PICK s \in Subscriptions : CloseNext(g, s)
    BY <1>18
  <2>2. CASE Done
    BY <2>2
  <2>3. CASE call[g].pc = "closing" /\ call[g].op \in {"remove", "close"} /\ Moved("closing")
    BY <1>18, <2>3, <1>c, <1>p DEF InCall, Ended
  <2>4. QED
    BY <2>1, <2>2, <2>3, <1>17
<1>21. QED
  BY <1>4, <1>5, <1>6, <1>7, <1>8, <1>9, <1>10, <1>11, <1>12, <1>13, <1>14, <1>16, <1>18 DEF CallStep

(* A call that begins. *)
LEMMA StepOfNew ==
  ASSUME Shape, OneOwner, NEW g \in Goroutines, NewCall(g)
  PROVE  /\ call[g] = Idle
         /\ \/ /\ call'[g].pc = "check"
               /\ call'[g].topic \in Topics
               /\ \/ call'[g].op \in {"create", "remove", "publish"} /\ status' = status
                  \/ /\ call'[g].op \in {"subscribe", "unsubscribe"} /\ call'[g].sub \in Subscriptions
                     /\ status[call'[g].sub] = IF call'[g].op = "subscribe" THEN "unused" ELSE "held"
                     /\ status' = [status EXCEPT ![call'[g].sub] =
                                     IF call'[g].op = "subscribe" THEN "making" ELSE "released"]
               /\ UNCHANGED <<tables, member, mutex, lock, channels, watch>>
            \/ LockForClose(g) /\ call'[g].pc = "closing" /\ call'[g].op = "close"
               /\ call'[g].left = UNION {Records(t) : t \in Topics}
<1>1. call \in [Goroutines -> Calls]
  BY DEF Shape
<1>2. ASSUME NEW t \in Topics, NEW o \in {"create", "remove", "publish"}, Begin(g, o, t)
      PROVE  /\ call[g] = Idle /\ call'[g].pc = "check" /\ call'[g].topic = t /\ call'[g].op = o /\ status' = status
             /\ UNCHANGED <<tables, member, mutex, lock, channels, watch>>
  BY <1>2, <1>1 DEF Begin, Idle
<1>3. ASSUME NEW t \in Topics, NEW s \in Subscriptions, BeginSubscribe(g, t, s)
      PROVE  /\ call[g] = Idle /\ call'[g].pc = "check" /\ call'[g].topic = t /\ call'[g].op = "subscribe"
             /\ call'[g].sub = s /\ status[s] = "unused" /\ status' = [status EXCEPT ![s] = "making"]
             /\ UNCHANGED <<tables, member, mutex, lock, channels, watch>>
  BY <1>3, <1>1 DEF BeginSubscribe, Idle
<1>4. ASSUME NEW s \in Subscriptions, BeginUnsubscribe(g, s)
      PROVE  /\ call[g] = Idle /\ call'[g].pc = "check" /\ call'[g].topic \in Topics /\ call'[g].op = "unsubscribe"
             /\ call'[g].sub = s /\ status[s] = "held" /\ status' = [status EXCEPT ![s] = "released"]
             /\ UNCHANGED <<tables, member, mutex, lock, channels, watch>>
  <2>1. member[s].topic \in Topics
    BY <1>4 DEF BeginUnsubscribe, OneOwner, Shape
  <2>2. QED
    BY <1>4, <1>1, <2>1 DEF BeginUnsubscribe, Idle
<1>5. CASE LockForClose(g)
  <2>1. /\ call[g] = Idle /\ call'[g].pc = "closing" /\ call'[g].op = "close"
        /\ call'[g].left = UNION {Records(t) : t \in Topics}
    BY <1>5, <1>1 DEF LockForClose, Idle
  <2>2. QED
    BY <1>5, <2>1
<1>6. QED
  BY <1>2, <1>3, <1>4, <1>5 DEF NewCall

(* A goroutine between its calls. *)
LEMMA IdleFields == Idle.pc = "idle" /\ Idle.op = "none" /\ Idle.sub = NoSubscription /\ Idle.left = {}
  BY DEF Idle

(* A call goes from point to point of its own operation. *)
LEMMA CallsStaySound ==
  ASSUME Shape, CallsAreSound, OneOwner, NEW g \in Goroutines, CallStep(g) \/ NewCall(g)
  PROVE  CallsAreSound'
<1>1. ASSUME NEW h \in Goroutines, h # g, call'[h].pc \notin Ended PROVE Sound(call[h])' 
  <2>1. CASE call'[h] = call[h]
    BY <1>1, <2>1 DEF CallsAreSound, InCall, Sound
  <2>2. CASE call'[h].pc = "dead"
    BY <1>1, <2>2 DEF Ended
  <2>3. CASE /\ call[h].pc \in {"walk", "drop", "send"}
             /\ call'[h] = [call[h] EXCEPT !.left = @ \cup {call[g].sub}]
    <3>1. /\ call'[h].pc = call[h].pc /\ call'[h].op = call[h].op
          /\ call'[h].topic = call[h].topic /\ call'[h].sub = call[h].sub
      BY <2>3 DEF Shape, Calls
    <3>2. Sound(call[h]) /\ call[h].op = "publish"
      BY <2>3, CallFields DEF CallsAreSound, InCall, Ended
    <3>3. QED
      BY <3>1, <3>2 DEF Sound, Idle
  <2>4. QED
    BY <1>1, <2>1, <2>2, <2>3, StepOfOthers
<1>2. ASSUME CallStep(g), call'[g].pc \notin Ended PROVE Sound(call[g])'
  <2>1. CASE call'[g] = Idle
    BY <2>1 DEF Idle, Sound, Points
  <2>2. CASE InCall(g) /\ call'[g].op = call[g].op /\ call[g].pc # "idle"
    <3>1. call[g].op # "none"
      BY <2>2, CallFields DEF CallsAreSound, InCall, Sound
    <3>2. QED
      BY <1>2, <2>1, <2>2, <3>1, StepOfOwn DEF Sound
  <2>3. QED
    BY <1>2, <2>1, <2>2, StepOfOwn
<1>3. ASSUME NewCall(g) PROVE Sound(call[g])'
  <2>1. \A o \in {"create", "remove", "publish", "subscribe", "unsubscribe"} : <<o, "check">> \in Points
    BY DEF Points
  <2>2. <<"close", "closing">> \in Points
    BY DEF Points
  <2>3. QED
    BY <1>3, <2>1, <2>2, StepOfNew DEF Sound
<1>4. QED
  BY <1>1, <1>2, <1>3 DEF CallsAreSound, InCall

(* The mutex is taken and freed by the call that steps. *)
LEMMA MutexStaysHeld ==
  ASSUME Shape, CallsAreSound, OneOwner, MutexIsHeld, NEW g \in Goroutines, CallStep(g) \/ NewCall(g)
  PROVE  MutexIsHeld'
<1> USE DEF tables, channels, watch
<1>1. ASSUME NEW h \in Goroutines, h # g
      PROVE  /\ call'[h].pc = "closing" => call[h].pc = "closing"
             /\ call[h].pc = "closing" => call'[h].pc \in {"closing", "dead"}
             /\ call[h].pc \in Ended => call'[h].pc \in Ended
  <2>1. CASE call[h].pc \in {"walk", "drop", "send"} /\ call'[h] = [call[h] EXCEPT !.left = @ \cup {call[g].sub}]
    <3>1. call'[h].pc = call[h].pc
      BY <2>1 DEF Shape, Calls
    <3>2. QED
      BY <2>1, <3>1 DEF Ended
  <2>2. QED
    BY <1>1, <2>1, StepOfOthers DEF Ended
<1>2. CASE \/ CheckTopic(g) \/ InsertTopic(g) \/ FetchRecord(g) \/ CloseChannel(g) \/ DeleteRecord(g)
           \/ FetchMap(g) \/ DropOldest(g) \/ Send(g) \/ FinishPublish(g) \/ \E s \in Subscriptions : Visit(g, s)
  <2>1. mutex' = mutex /\ call[g].pc \notin {"closing"} \cup Ended /\ call[g].pc # "lock"
    BY <1>2 DEF CheckTopic, InsertTopic, FetchRecord, CloseChannel, DeleteRecord, FetchMap, DropOldest,
                Send, FinishPublish, Visit, Ended
  <2>2. mutex # g
    BY <2>1, NobodyAssumption DEF MutexIsHeld
  <2>3. call'[g].pc # "closing"
    <3>1. CallStep(g)
      BY <1>2 DEF CallStep
    <3>2. QED
      BY <2>1, <3>1, StepOfOwn, IdleFields DEF Ended
  <2>4. QED
    BY <1>1, <2>1, <2>2, <2>3 DEF MutexIsHeld, Shape, Ended
<1>3. CASE WriteRecord(g)
  <2>1. mutex = Nobody /\ \A h \in Goroutines : call[h].pc # "closing"
    BY <1>3, NobodyAssumption DEF WriteRecord, MutexIsHeld
  <2>2. CASE subscriptions[call[g].topic] = 0
    <3>1. mutex' = g /\ call'[g].pc \in Ended
      BY <1>3, <2>2, PanicFields DEF WriteRecord
    <3>2. QED
      BY <1>1, <2>1, <3>1 DEF MutexIsHeld, Ended
  <2>3. CASE subscriptions[call[g].topic] # 0
    <3>1. mutex' = mutex /\ call[g].pc = "record" /\ CallStep(g)
      BY <1>3, <2>3 DEF WriteRecord, CallStep
    <3>2. call'[g].pc # "closing"
      BY <3>1, StepOfOwn, IdleFields DEF Ended
    <3>3. QED
      BY <1>1, <2>1, <3>1, <3>2 DEF MutexIsHeld
  <2>4. QED
    BY <2>2, <2>3
<1>4. CASE LockForRemoval(g) \/ LockForClose(g)
  <2>1. mutex = Nobody /\ \A h \in Goroutines : call[h].pc # "closing"
    BY <1>4, NobodyAssumption DEF LockForRemoval, LockForClose, MutexIsHeld
  <2>2. mutex' = g /\ call'[g].pc = "closing"
    <3>1. call \in [Goroutines -> Calls]
      BY DEF Shape
    <3>2. ASSUME NEW left, call' = [call EXCEPT ![g] = [call[g] EXCEPT !.pc = "closing", !.left = left]]
          PROVE  call'[g].pc = "closing"
      BY <3>1, <3>2 DEF Calls
    <3>3. ASSUME NEW left,
                 call' = [call EXCEPT ![g] = [Idle EXCEPT !.op = "close", !.pc = "closing", !.left = left]]
          PROVE  call'[g].pc = "closing"
      BY <3>1, <3>3 DEF Idle
    <3>4. CASE LockForRemoval(g)
      BY <3>2, <3>4 DEF LockForRemoval
    <3>5. CASE LockForClose(g)
      BY <3>3, <3>5 DEF LockForClose
    <3>6. QED
      BY <1>4, <3>4, <3>5
  <2>3. QED
    BY <1>1, <2>1, <2>2 DEF MutexIsHeld
<1>5. CASE DeleteTopic(g) \/ FinishClose(g)
  <2>1. mutex = g /\ mutex' = Nobody /\ call'[g].pc = "idle"
    BY <1>5, ReturnFields DEF DeleteTopic, FinishClose, MutexIsHeld
  <2>2. QED
    BY <1>1, <2>1 DEF MutexIsHeld
<1>6. ASSUME NEW s \in Subscriptions, CloseNext(g, s) PROVE MutexIsHeld'
  <2>1. mutex = g
    BY <1>6 DEF CloseNext, MutexIsHeld
  <2>2. \/ mutex' = g /\ call'[g].pc \in {"closing"} \cup Ended
        \/ mutex' = Nobody /\ call'[g].pc = "idle"
    <3>1. [call[g] EXCEPT !.left = @ \ {s}].pc = call[g].pc
      BY DEF Shape, Calls
    <3>2. s \notin shut => call'[g].pc = call[g].pc
      BY <1>6, <3>1 DEF CloseNext, Shape
    <3>3. QED
      BY <1>6, <2>1, <3>2, ReturnFields, PanicFields DEF CloseNext
  <2>3. QED
    BY <1>1, <2>1, <2>2 DEF MutexIsHeld, Ended
<1>7. ASSUME NewCall(g), ~LockForClose(g) PROVE MutexIsHeld'
  <2>1. mutex' = mutex /\ call[g].pc = "idle" /\ call'[g].pc = "check"
    BY <1>7, StepOfNew DEF Idle
  <2>2. mutex # g
    BY <2>1, NobodyAssumption DEF MutexIsHeld, Ended
  <2>3. QED
    BY <1>1, <2>1, <2>2 DEF MutexIsHeld, Shape, Ended
<1>8. CASE CallStep(g)
  BY <1>2, <1>3, <1>4, <1>5, <1>6, <1>8 DEF CallStep
<1>9. QED
  BY <1>4, <1>7, <1>8

(* Whose a subscription is. *)
LEMMA OwnersStay ==
  ASSUME Shape, CallsAreSound, OneOwner, NEW g \in Goroutines, CallStep(g),
         NEW h \in Goroutines, NEW s \in Subscriptions
  PROVE  (Makes(h, s)' => Makes(h, s)) /\ (GivesUp(h, s)' => GivesUp(h, s))
<1>1. CASE h # g
  <2>1. CASE call[h].pc \in {"walk", "drop", "send"} /\ call'[h] = [call[h] EXCEPT !.left = @ \cup {call[g].sub}]
    <3>1. call'[h].op = call[h].op /\ call[h].op = "publish"
      BY <2>1, CallFields DEF Shape, Calls
    <3>2. QED
      BY <3>1 DEF Makes, GivesUp
  <2>2. QED
    BY <1>1, <2>1, StepOfOthers DEF Makes, GivesUp, InCall, Ended
<1>2. CASE h = g
  BY <1>2, StepOfOwn, IdleFields DEF Makes, GivesUp, InCall, Ended
<1>3. QED
  BY <1>1, <1>2

(* Which steps change whose a subscription is, and where its record is. *)
LEMMA WhatStays ==
  ASSUME NEW g \in Goroutines, CallStep(g)
  PROVE  /\ WriteRecord(g) \/ status' = status
         /\ WriteRecord(g) \/ DeleteRecord(g) \/ member' = member
         /\ shut \subseteq shut'
         /\ InsertTopic(g) \/ orphaned' = orphaned
         /\ InsertTopic(g) \/ DeleteTopic(g) \/ FinishClose(g) \/ subscriptions' = subscriptions
         /\ FinishClose(g) \/ topics \subseteq topics'
         /\ CloseChannel(g) \/ (\E s \in Subscriptions : CloseNext(g, s)) \/ shut' = shut
         /\ LockForRemoval(g) \/ removed' = removed
<1> USE DEF tables, channels, watch
<1>1. CASE CheckTopic(g) \/ InsertTopic(g) \/ FetchRecord(g) \/ CloseChannel(g)
  BY <1>1 DEF CheckTopic, InsertTopic, FetchRecord, CloseChannel
<1>2. CASE WriteRecord(g) \/ DeleteRecord(g) \/ FetchMap(g) \/ DropOldest(g) \/ Send(g) \/ FinishPublish(g)
  BY <1>2 DEF WriteRecord, DeleteRecord, FetchMap, DropOldest, Send, FinishPublish
<1>3. CASE LockForRemoval(g) \/ DeleteTopic(g) \/ FinishClose(g)
  BY <1>3 DEF LockForRemoval, DeleteTopic, FinishClose
<1>4. ASSUME NEW s \in Subscriptions, Visit(g, s)
      PROVE  /\ status' = status /\ member' = member /\ shut' = shut /\ orphaned' = orphaned
             /\ subscriptions' = subscriptions /\ topics' = topics /\ removed' = removed
  BY <1>4 DEF Visit
<1>5. ASSUME NEW s \in Subscriptions, CloseNext(g, s)
      PROVE  /\ status' = status /\ member' = member /\ shut \subseteq shut' /\ orphaned' = orphaned
             /\ subscriptions' = subscriptions /\ topics' = topics /\ removed' = removed
  BY <1>5 DEF CloseNext
<1>6. QED
  BY <1>1, <1>2, <1>3, <1>4, <1>5 DEF CallStep

(* A subscription id is drawn by one Subscribe (local_pubsub.go:76-88) and given up *)
(* by one Unsubscribe: nobody else makes its record, or deletes it.                  *)
LEMMA OneOwnerStays ==
  ASSUME Shape, CallsAreSound, OneOwner, NEW g \in Goroutines, CallStep(g) \/ NewCall(g)
  PROVE  OneOwner'
<1> USE DEF tables, channels, watch
<1>1. ASSUME WriteRecord(g), subscriptions[call[g].topic] # 0 PROVE OneOwner'
  <2>1. CallStep(g) /\ call[g].pc = "record"
    BY <1>1 DEF CallStep, WriteRecord
  <2>a. PICK w \in Subscriptions : w = call[g].sub
    BY <2>1, CallFields
  <2>2. /\ member' = [member EXCEPT ![w] = MapOf(call[g].topic)]
        /\ status' = [status EXCEPT ![w] = "held"]
        /\ call[g].pc = "record"
    BY <1>1, <2>a DEF WriteRecord
  <2>3. w \in Subscriptions /\ Makes(g, w) /\ MapOf(call[g].topic) # NoMap
    BY <1>1, <2>2, <2>a, CallFields DEF Makes, InCall, Ended, MapOf, NoMap
  <2>4. member'[w] # NoMap /\ \A s \in Subscriptions : s # w => member'[s] = member[s]
    BY <2>2, <2>3 DEF Shape
  <2>5. status'[w] = "held" /\ \A s \in Subscriptions : s # w => status'[s] = status[s]
    BY <2>2, <2>3 DEF Shape
  <2>6. status[w] = "making"
    BY <2>3 DEF OneOwner
  <2>7. ~Makes(g, w)'
    <3>1. call'[g].pc = "idle" \/ call'[g].pc \in Ended
      <4>1. CASE Die
        BY <4>1, PanicFields
      <4>2. CASE ~Die
        <5>1. call'[g] = Idle
          BY <1>1, <4>2 DEF WriteRecord
        <5>2. QED
          BY <5>1, IdleFields
      <4>3. QED
        BY <4>1, <4>2
    <3>2. call'[g].pc \notin Ended => call'[g] = Idle
      BY <1>1, <3>1, <2>1, StepOfOwn, IdleFields DEF Ended
    <3>3. QED
      BY <3>2, IdleFields DEF Makes, InCall
  <2>8. \A h \in Goroutines : ~Makes(h, w)' /\ ~GivesUp(h, w)'
    <3>1. \A h \in Goroutines : (Makes(h, w)' => Makes(h, w)) /\ (GivesUp(h, w)' => GivesUp(h, w))
      BY <2>1, <2>3, OwnersStay
    <3>2. ASSUME NEW h \in Goroutines PROVE ~GivesUp(h, w) /\ (Makes(h, w) => h = g)
      <4>1. /\ GivesUp(h, w) => status[w] = "released"
            /\ Makes(h, w) /\ Makes(g, w) => h = g
        BY <2>3 DEF OneOwner
      <4>2. QED
        BY <2>3, <2>6, <4>1
    <3>3. QED
      BY <3>1, <3>2, <2>7
  <2>9. \A s \in Subscriptions : \A h \in Goroutines :
          (Makes(h, s)' => Makes(h, s)) /\ (GivesUp(h, s)' => GivesUp(h, s))
    BY <2>1, OwnersStay
  <2>10. QED
    BY <2>3, <2>4, <2>5, <2>8, <2>9 DEF OneOwner
<1>2. ASSUME CallStep(g), status' = status,
             \A s \in Subscriptions : status[s] = "held" => member'[s] = member[s]
      PROVE  OneOwner'
  <2>1. \A s \in Subscriptions : \A h \in Goroutines :
          (Makes(h, s)' => Makes(h, s)) /\ (GivesUp(h, s)' => GivesUp(h, s))
    BY <1>2, OwnersStay
  <2>2. QED
    BY <1>2, <2>1 DEF OneOwner
<1>3. CASE WriteRecord(g) /\ subscriptions[call[g].topic] = 0
  <2>1. status' = status /\ member' = member /\ CallStep(g)
    BY <1>3 DEF WriteRecord, CallStep
  <2>2. QED
    BY <1>2, <2>1
<1>4. CASE DeleteRecord(g)
  <2> DEFINE w == call[g].sub
  <2>1. status' = status /\ CallStep(g) /\ call[g].pc = "delete"
    BY <1>4 DEF DeleteRecord, CallStep
  <2>2. w \in Subscriptions /\ GivesUp(g, w)
    BY <2>1, CallFields DEF GivesUp, InCall, Ended
  <2>3. status[w] = "released"
    BY <2>2 DEF OneOwner
  <2>4. \A s \in Subscriptions : s # w => member'[s] = member[s]
    BY <1>4 DEF DeleteRecord, Shape
  <2>5. QED
    BY <1>2, <2>1, <2>3, <2>4
<1>5. CASE CallStep(g) /\ ~WriteRecord(g) /\ ~DeleteRecord(g)
  BY <1>5, <1>2, WhatStays
<1>6. ASSUME NewCall(g) PROVE OneOwner'
  <2>1. \A h \in Goroutines : h # g => call'[h] = call[h]
    <3>1. ASSUME NEW h \in Goroutines, h # g PROVE call'[h] = call[h]
      <4>1. CASE LockForClose(g)
        BY <3>1, <4>1 DEF LockForClose, Shape
      <4>2. ASSUME NEW t \in Topics, NEW o, Begin(g, o, t) PROVE call'[h] = call[h]
        BY <3>1, <4>2 DEF Begin, Shape
      <4>3. ASSUME NEW t \in Topics, NEW s \in Subscriptions, BeginSubscribe(g, t, s) PROVE call'[h] = call[h]
        BY <3>1, <4>3 DEF BeginSubscribe, Shape
      <4>4. ASSUME NEW s \in Subscriptions, BeginUnsubscribe(g, s) PROVE call'[h] = call[h]
        BY <3>1, <4>4 DEF BeginUnsubscribe, Shape
      <4>5. QED
        BY <1>6, <4>1, <4>2, <4>3, <4>4 DEF NewCall
    <3>2. QED
      BY <3>1
  <2>2. member' = member
    BY <1>6, StepOfNew DEF LockForClose
  <2>3. \A h \in Goroutines, s \in Subscriptions : h # g => (Makes(h, s)' <=> Makes(h, s)) /\ (GivesUp(h, s)' <=> GivesUp(h, s))
    BY <2>1 DEF Makes, GivesUp, InCall
  <2>4. CASE call'[g].op \in {"create", "remove", "publish", "close"} /\ status' = status
    <3>1. \A s \in Subscriptions : ~Makes(g, s)' /\ ~GivesUp(g, s)'
      BY <2>4 DEF Makes, GivesUp
    <3>2. QED
      BY <2>2, <2>3, <2>4, <3>1 DEF OneOwner
  <2>5. CASE /\ call'[g].op \in {"subscribe", "unsubscribe"} /\ call'[g].sub \in Subscriptions
             /\ status[call'[g].sub] = IF call'[g].op = "subscribe" THEN "unused" ELSE "held"
             /\ status' = [status EXCEPT ![call'[g].sub] =
                                     IF call'[g].op = "subscribe" THEN "making" ELSE "released"]
    <3>a. PICK w \in Subscriptions : w = call'[g].sub
      BY <2>5
    <3>1. \A h \in Goroutines : ~Makes(h, w) /\ ~GivesUp(h, w)
      BY <2>5, <3>a DEF OneOwner
    <3>2. \A s \in Subscriptions : s # w => ~Makes(g, s)' /\ ~GivesUp(g, s)' /\ status'[s] = status[s]
      BY <2>5, <3>a DEF Makes, GivesUp, Shape
    <3>3. /\ Makes(g, w)' => status'[w] = "making"
          /\ GivesUp(g, w)' => status'[w] = "released"
          /\ status'[w] # "held"
      BY <2>5, <3>a DEF Makes, GivesUp, Shape
    <3>4. \A h \in Goroutines : h # g => ~Makes(h, w)' /\ ~GivesUp(h, w)'
      BY <3>1, <2>3
    <3>5. ASSUME NEW s \in Subscriptions, s # w
          PROVE  /\ \A h \in Goroutines : /\ Makes(h, s)' => status'[s] = "making"
                                          /\ GivesUp(h, s)' => status'[s] = "released"
                 /\ \A h, k \in Goroutines : /\ Makes(h, s)' /\ Makes(k, s)' => h = k
                                             /\ GivesUp(h, s)' /\ GivesUp(k, s)' => h = k
                 /\ status'[s] = "held" => member'[s] # NoMap
      BY <3>5, <3>2, <2>2, <2>3 DEF OneOwner
    <3>6. \A h \in Goroutines : (Makes(h, w)' => h = g) /\ (GivesUp(h, w)' => h = g)
      BY <3>4
    <3>7. /\ \A h \in Goroutines : /\ Makes(h, w)' => status'[w] = "making"
                                   /\ GivesUp(h, w)' => status'[w] = "released"
          /\ \A h, k \in Goroutines : /\ Makes(h, w)' /\ Makes(k, w)' => h = k
                                      /\ GivesUp(h, w)' /\ GivesUp(k, w)' => h = k
      BY <3>3, <3>6
    <3>8. QED
      BY <3>3, <3>5, <3>7 DEF OneOwner
  <2>6. LockForClose(g) => call'[g].op = "close" /\ status' = status
    BY <1>6 DEF LockForClose, Shape, Idle
  <2>7. QED
    BY <1>6, <2>4, <2>5, <2>6, StepOfNew
<1>7. QED
  BY <1>1, <1>3, <1>4, <1>5, <1>6

(* A map is still as long as neither its topic's map nor its records change. *)
LEMMA RecordsStay ==
  ASSUME subscriptions' = subscriptions, member' = member, NEW t
  PROVE  Records(t)' = Records(t)
  BY DEF Records, Members, MapOf

(* The mutex keeps maps and records still while RemoveTopic or Close closes the     *)
(* channels of what it found (local_pubsub.go:41-52, 174-191), and Unsubscribe      *)
(* closes before it deletes (local_pubsub.go:117-126).                               *)
LEMMA ClosedFirstStays ==
  ASSUME Shape, CallsAreSound, OneOwner, MutexIsHeld, ClosedFirst,
         NEW g \in Goroutines, CallStep(g) \/ NewCall(g)
  PROVE  ClosedFirst'
<1> USE DEF tables, channels, watch
<1> DEFINE Fine(h) ==
             /\ call'[h].pc = "delete" => call'[h].sub \in shut'
             /\ call'[h].pc = "closing" /\ call'[h].op = "remove"
                  => Records(call[h].topic)' \subseteq call'[h].left \cup shut'
             /\ call'[h].pc = "closing" /\ call'[h].op = "close"
                  => \A t \in Topics : Records(t)' \subseteq call'[h].left \cup shut'
<1>1. shut \subseteq shut'
  <2>1. CASE NewCall(g)
    BY <2>1, StepOfNew DEF LockForClose
  <2>2. QED
    BY <2>1, WhatStays
<1>2. ASSUME NEW h \in Goroutines, h # g,
             mutex = h => subscriptions' = subscriptions /\ member' = member
      PROVE  Fine(h)
  <2>1. CASE call'[h] = call[h]
    <3>1. CASE call[h].pc = "closing"
      <4>1. mutex = h
        BY <3>1 DEF MutexIsHeld
      <4>2. \A t \in Topics : Records(t)' = Records(t)
        BY <1>2, <4>1, RecordsStay
      <4>3. call[h].op = "remove" => call[h].topic \in Topics
        BY <3>1, CallFields
      <4>4. QED
        BY <1>1, <2>1, <3>1, <4>2, <4>3 DEF ClosedFirst
    <3>2. CASE call[h].pc # "closing"
      BY <1>1, <2>1, <3>2 DEF ClosedFirst
    <3>3. QED
      BY <3>1, <3>2
  <2>2. CASE call'[h].pc = "dead"
    BY <2>2
  <2>3. CASE /\ call[h].pc \in {"walk", "drop", "send"}
             /\ call'[h] = [call[h] EXCEPT !.left = @ \cup {call[g].sub}]
    <3>1. call'[h].pc = call[h].pc
      BY <2>3 DEF Shape, Calls
    <3>2. QED
      BY <2>3, <3>1
  <2>4. QED
    BY <1>2, <2>1, <2>2, <2>3, StepOfOthers
<1>3. ASSUME Fine(g), \A h \in Goroutines : mutex = h /\ h # g => subscriptions' = subscriptions /\ member' = member
      PROVE  ClosedFirst'
  <2>1. \A h \in Goroutines : Fine(h)
    BY <1>2, <1>3
  <2>2. QED
    BY <2>1 DEF ClosedFirst
<1>4. CASE CheckTopic(g) \/ FetchRecord(g) \/ FetchMap(g) \/ DropOldest(g) \/ Send(g) \/ FinishPublish(g)
           \/ \E s \in Subscriptions : Visit(g, s)
  <2>1. subscriptions' = subscriptions /\ member' = member
    BY <1>4 DEF CheckTopic, FetchRecord, FetchMap, DropOldest, Send, FinishPublish, Visit
  <2>2. CallStep(g) /\ call[g].pc \notin {"shut", "lock", "closing"}
    BY <1>4 DEF CallStep, CheckTopic, FetchRecord, FetchMap, DropOldest, Send, FinishPublish, Visit
  <2>3. call'[g].pc \notin {"delete", "closing"}
    BY <2>2, StepOfOwn, IdleFields DEF Ended
  <2>4. QED
    BY <1>3, <2>1, <2>3
<1>5. CASE InsertTopic(g) \/ WriteRecord(g) \/ DeleteRecord(g)
  <2>1. mutex = Nobody
    BY <1>5 DEF InsertTopic, WriteRecord, DeleteRecord
  <2>2. CallStep(g) /\ call[g].pc \notin {"shut", "lock", "closing"}
    BY <1>5 DEF CallStep, InsertTopic, WriteRecord, DeleteRecord
  <2>3. call'[g].pc \notin {"delete", "closing"}
    BY <2>2, StepOfOwn, IdleFields DEF Ended
  <2>4. QED
    BY <1>3, <2>1, <2>3, NobodyAssumption
<1>6. CASE CloseChannel(g)
  <2>1. subscriptions' = subscriptions /\ member' = member /\ call[g].pc = "shut"
    BY <1>6 DEF CloseChannel
  <2>2. (call'[g].pc = "delete" /\ call'[g].sub \in shut') \/ call'[g].pc \in Ended
    <3>1. "delete" \in Places
      BY DEF Places
    <3>2. CASE call[g].sub \in shut
      BY <1>6, <3>2, PanicFields DEF CloseChannel
    <3>3. CASE call[g].sub \notin shut
      BY <1>6, <3>1, <3>3, GotoFields DEF CloseChannel
    <3>4. QED
      BY <3>2, <3>3
  <2>3. QED
    BY <1>3, <2>1, <2>2 DEF Ended
<1>7. CASE LockForRemoval(g)
  <2>1. subscriptions' = subscriptions /\ member' = member /\ call[g].op = "remove"
    BY <1>7 DEF LockForRemoval
  <2>2. /\ call'[g].left = Records(call[g].topic) /\ call'[g].topic = call[g].topic
        /\ call'[g].op = "remove" /\ call'[g].pc = "closing"
    BY <1>7 DEF LockForRemoval, Shape, Calls
  <2>3. Records(call[g].topic)' = Records(call[g].topic)
    BY <2>1, <2>2 DEF Records, Members, MapOf
  <2>4. QED
    BY <1>3, <2>1, <2>2, <2>3
<1>8. CASE LockForClose(g)
  <2>1. subscriptions' = subscriptions /\ member' = member
    BY <1>8 DEF LockForClose
  <2>2. call'[g].pc = "closing" /\ call'[g].op = "close" /\ call'[g].left = UNION {Records(t) : t \in Topics}
    BY <1>8 DEF LockForClose, Shape, Idle
  <2>3. \A t \in Topics : Records(t)' = Records(t)
    BY <2>1, RecordsStay
  <2>4. QED
    BY <1>3, <2>1, <2>2, <2>3
<1>9. CASE DeleteTopic(g) \/ FinishClose(g)
  <2>1. mutex = g /\ call'[g].pc = "idle"
    BY <1>9, ReturnFields DEF DeleteTopic, FinishClose, MutexIsHeld
  <2>2. QED
    BY <1>3, <2>1
<1>10. ASSUME NEW s \in Subscriptions, CloseNext(g, s) PROVE ClosedFirst'
  <2>1. subscriptions' = subscriptions /\ member' = member /\ call[g].pc = "closing"
    BY <1>10 DEF CloseNext
  <2>2. CASE s \in shut
    <3>1. call'[g].pc \in {"idle"} \cup Ended
      BY <1>10, <2>2, ReturnFields, PanicFields DEF CloseNext
    <3>2. QED
      BY <1>3, <2>1, <3>1 DEF Ended
  <2>3. CASE s \notin shut
    <3>1. /\ call'[g].left = call[g].left \ {s} /\ shut' = shut \cup {s}
          /\ call'[g].pc = "closing" /\ call'[g].op = call[g].op /\ call'[g].topic = call[g].topic
      BY <1>10, <2>3 DEF CloseNext, Shape, Calls
    <3>2. \A t \in Topics : Records(t)' = Records(t)
      BY <2>1, RecordsStay
    <3>3. CASE call[g].op = "remove"
      <4>1. Records(call[g].topic)' = Records(call[g].topic)
        BY <2>1, <3>1 DEF Records, Members, MapOf
      <4>2. Records(call[g].topic) \subseteq call[g].left \cup shut
        BY <2>1, <3>3 DEF ClosedFirst
      <4>3. QED
        BY <1>3, <2>1, <3>1, <3>3, <4>1, <4>2
    <3>4. CASE call[g].op = "close"
      <4>1. \A t \in Topics : Records(t) \subseteq call[g].left \cup shut
        BY <2>1, <3>4 DEF ClosedFirst
      <4>2. \A t \in Topics : Records(t)' \subseteq call'[g].left \cup shut'
        BY <3>1, <3>2, <4>1
      <4>3. QED
        BY <1>3, <2>1, <3>1, <3>4, <4>2
    <3>5. QED
      BY <2>1, <3>3, <3>4, CallFields
  <2>4. QED
    BY <2>2, <2>3
<1>11. ASSUME NewCall(g), ~LockForClose(g) PROVE ClosedFirst'
  <2>1. subscriptions' = subscriptions /\ member' = member /\ call'[g].pc = "check"
    BY <1>11, StepOfNew
  <2>2. QED
    BY <1>3, <2>1
<1>12. CASE CallStep(g)
  BY <1>4, <1>5, <1>6, <1>7, <1>9, <1>10, <1>12 DEF CallStep
<1>13. QED
  BY <1>8, <1>11, <1>12

(* A panic is that of the call that steps, and only these steps panic. *)
LEMMA WhoPanics ==
  ASSUME Shape, CallsAreSound, OneOwner, NEW g \in Goroutines, CallStep(g) \/ NewCall(g),
         NEW h \in Goroutines, call'[h].pc = "panicked"
  PROVE  \/ call[h].pc = "panicked" /\ call'[h].op = call[h].op
         \/ /\ h = g /\ CallStep(g) /\ call'[h].op = call[h].op
            /\ \/ WriteRecord(g) /\ subscriptions[call[g].topic] = 0
               \/ CloseChannel(g) /\ call[g].sub \in shut
               \/ Send(g)
               \/ \E s \in Subscriptions : CloseNext(g, s)
<1>a. /\ "idle" \in Places /\ "record" \in Places /\ "fetch" \in Places /\ "insert" \in Places /\ "lock" \in Places
      /\ "shut" \in Places /\ "delete" \in Places /\ "walk" \in Places /\ "send" \in Places /\ "drop" \in Places
      /\ "closing" \in Places
  BY DEF Places
<1>1. CASE h # g
  <2>1. CASE /\ call[h].pc \in {"walk", "drop", "send"}
             /\ call'[h] = [call[h] EXCEPT !.left = @ \cup {call[g].sub}]
    BY <2>1 DEF Shape, Calls
  <2>2. QED
    BY <1>1, <2>1, StepOfOthers
<1>2. CASE h = g /\ NewCall(g)
  BY <1>2, StepOfNew
<1>3. CASE h = g /\ CallStep(g)
  <2>1. call'[g].op = call[g].op
    BY <1>3, StepOfOwn, IdleFields
  <2>2. Die => call'[g].pc = "dead"
    BY DEF Die, Shape, Calls
  <2>3. Return(g) => call'[g].pc = "idle"
    BY ReturnFields
  <2>4. ASSUME NEW p \in Places, Goto(g, p) PROVE call'[g].pc = p
    BY <2>4, GotoFields
  <2>5. CASE CheckTopic(g)
    BY <1>3, <2>3, <2>4, <2>5, <1>a, CallFields DEF CheckTopic, Operations
  <2>6. CASE InsertTopic(g)
    BY <1>3, <2>3, <2>4, <2>6, <1>a, CallFields DEF InsertTopic
  <2>7. CASE WriteRecord(g) /\ subscriptions[call[g].topic] # 0
    BY <1>3, <2>2, <2>7, IdleFields DEF WriteRecord
  <2>8. CASE FetchRecord(g) \/ DeleteRecord(g) \/ DropOldest(g) \/ FinishPublish(g) \/ DeleteTopic(g) \/ FinishClose(g)
    BY <1>3, <2>2, <2>3, <2>4, <2>8, <1>a DEF FetchRecord, DeleteRecord, DropOldest, FinishPublish, DeleteTopic, FinishClose
  <2>9. CASE CloseChannel(g) /\ call[g].sub \notin shut
    BY <1>3, <2>4, <2>9, <1>a DEF CloseChannel
  <2>10. CASE FetchMap(g) \/ LockForRemoval(g)
    BY <1>3, <2>10 DEF FetchMap, LockForRemoval, Shape, Calls
  <2>11. ASSUME NEW s \in Subscriptions, Visit(g, s) PROVE FALSE
    BY <1>3, <2>11 DEF Visit, Shape, Calls
  <2>12. QED
    BY <1>3, <2>1, <2>5, <2>6, <2>7, <2>8, <2>9, <2>10, <2>11 DEF CallStep
<1>4. QED
  BY <1>1, <1>2, <1>3

(* Whatever replaces, deletes or forgets a map or a record leaves those of the      *)
(* subscriptions that are held and open.                                            *)
LEMMA OpenStaysReachable ==
  ASSUME Shape, CallsAreSound, OneOwner, MutexIsHeld, ClosedFirst, OpenIsReachable,
         NEW g \in Goroutines, CallStep(g) \/ NewCall(g)
  PROVE  OpenIsReachable'
<1> USE DEF tables, channels, watch
<1> SUFFICES ASSUME NEW s \in Subscriptions, s \notin orphaned', status'[s] = "held", s \notin shut'
             PROVE  s \in Records(member[s].topic)'
  BY DEF OpenIsReachable
<1>1. s \notin shut
  <2>1. CASE NewCall(g)
    BY <2>1, StepOfNew DEF LockForClose
  <2>2. QED
    BY <2>1, WhatStays
<1>2. status[s] = "held" => /\ s \notin orphaned => s \in Records(member[s].topic)
                            /\ member[s].topic \in Topics
  BY <1>1 DEF OpenIsReachable, OneOwner, Shape
<1>3. ASSUME status[s] = "held", s \notin orphaned, member'[s] = member[s],
             subscriptions'[member[s].topic] = subscriptions[member[s].topic]
      PROVE  s \in Records(member[s].topic)'
  <2>1. s \in Records(member[s].topic)
    BY <1>2, <1>3
  <2>2. QED
    BY <1>3, <2>1 DEF Records, Members, MapOf
<1>4. CASE NewCall(g)
  <2>1. status[s] = "held" /\ member' = member /\ subscriptions' = subscriptions /\ orphaned' = orphaned
    <3>1. CASE LockForClose(g)
      BY <3>1 DEF LockForClose
    <3>2. CASE ~LockForClose(g)
      BY <1>4, <3>2, StepOfNew DEF Shape
    <3>3. QED
      BY <3>1, <3>2
  <2>2. QED
    BY <1>3, <2>1
<1>5. CASE InsertTopic(g)
  <2> DEFINE t == call[g].topic
  <2>1. /\ member' = member /\ status' = status /\ orphaned' = orphaned \cup Records(t)
        /\ subscriptions' = [subscriptions EXCEPT ![t] = made[t] + 1]
    BY <1>5 DEF InsertTopic
  <2>2. s \in Records(member[s].topic) /\ s \notin Records(t) /\ s \notin orphaned
    BY <1>2, <2>1
  <2>3. subscriptions'[member[s].topic] = subscriptions[member[s].topic]
    BY <1>2, <2>1, <2>2 DEF Shape
  <2>4. QED
    BY <1>3, <2>1, <2>2, <2>3
<1>6. CASE WriteRecord(g)
  <2> DEFINE t == call[g].topic
  <2>1. subscriptions' = subscriptions /\ orphaned' = orphaned
    BY <1>6 DEF WriteRecord
  <2>2. CASE subscriptions[t] = 0
    BY <1>3, <1>6, <2>1, <2>2 DEF WriteRecord
  <2>3. CASE subscriptions[t] # 0 /\ s = call[g].sub
    <3>1. member'[s] = MapOf(t)
      BY <1>6, <2>3 DEF WriteRecord, Shape
    <3>2. member'[s].topic = t
      BY <3>1 DEF MapOf
    <3>3. QED
      BY <2>1, <2>3, <3>1, <3>2 DEF Records, Members, MapOf
  <2>4. CASE subscriptions[t] # 0 /\ s # call[g].sub
    <3>1. member'[s] = member[s] /\ status'[s] = status[s]
      BY <1>6, <2>4 DEF WriteRecord, Shape
    <3>2. QED
      BY <1>3, <2>1, <3>1
  <2>5. QED
    BY <2>2, <2>3, <2>4
<1>7. CASE DeleteRecord(g)
  <2>1. subscriptions' = subscriptions /\ orphaned' = orphaned /\ status' = status /\ call[g].pc = "delete"
    BY <1>7 DEF DeleteRecord
  <2>2. GivesUp(g, call[g].sub) /\ call[g].sub \in Subscriptions
    BY <2>1, CallFields DEF GivesUp, InCall, Ended
  <2>3. status[call[g].sub] = "released"
    BY <2>2 DEF OneOwner
  <2>4. member'[s] = member[s]
    BY <1>7, <2>1, <2>3 DEF DeleteRecord, Shape
  <2>5. QED
    BY <1>3, <2>1, <2>4
<1>8. CASE DeleteTopic(g)
  <2> DEFINE t == call[g].topic
  <2>1. /\ member' = member /\ status' = status /\ orphaned' = orphaned
        /\ subscriptions' = [subscriptions EXCEPT ![t] = 0]
        /\ call[g].pc = "closing" /\ call[g].op = "remove" /\ call[g].left = {}
    BY <1>8 DEF DeleteTopic
  <2>2. Records(t) \subseteq shut
    BY <2>1 DEF ClosedFirst
  <2>3. member[s].topic # t
    BY <1>1, <1>2, <2>1, <2>2
  <2>4. QED
    BY <1>2, <1>3, <2>1, <2>3 DEF Shape
<1>9. CASE FinishClose(g)
  <2>1. /\ status' = status /\ orphaned' = orphaned
        /\ call[g].pc = "closing" /\ call[g].op = "close" /\ call[g].left = {}
    BY <1>9 DEF FinishClose
  <2>2. \A t \in Topics : Records(t) \subseteq shut
    BY <2>1 DEF ClosedFirst
  <2>3. QED
    BY <1>1, <1>2, <2>1, <2>2
<1>10. CASE CallStep(g) /\ ~InsertTopic(g) /\ ~WriteRecord(g) /\ ~DeleteRecord(g) /\ ~DeleteTopic(g) /\ ~FinishClose(g)
  BY <1>3, <1>10, WhatStays
<1>11. QED
  BY <1>4, <1>5, <1>6, <1>7, <1>8, <1>9, <1>10

(* Without RemoveTopic and Close a topic keeps a map, and a channel is closed once. *)
LEMMA NothingIsRemoved ==
  ASSUME Shape, CallsAreSound, OneOwner, MutexIsHeld, ClosedFirst, NothingRemoved, OnlyPublishPanics,
         NEW g \in Goroutines, CallStep(g) \/ NewCall(g)
  PROVE  NothingRemoved' /\ OnlyPublishPanics'
<1> USE DEF tables, channels, watch
<1>1. removed => removed'
  <2>1. CASE NewCall(g)
    BY <2>1, StepOfNew DEF LockForClose
  <2>2. CASE CallStep(g)
    BY <2>2, WhatStays DEF LockForRemoval
  <2>3. QED
    BY <2>1, <2>2
<1>2. \A h \in Goroutines : call'[h].pc = "closing" => removed'
  <2>1. ASSUME NEW h \in Goroutines, call'[h].pc = "closing" PROVE removed'
    <3>1. CASE call[h].pc = "closing"
      BY <1>1, <3>1 DEF NothingRemoved
    <3>2. CASE call[h].pc # "closing" /\ h # g
      <4>1. CASE call[h].pc \in {"walk", "drop", "send"} /\ call'[h] = [call[h] EXCEPT !.left = @ \cup {call[g].sub}]
        BY <2>1, <4>1 DEF Shape, Calls
      <4>2. QED
        BY <2>1, <3>2, <4>1, StepOfOthers
    <3>3. CASE call[h].pc # "closing" /\ h = g
      <4>1. CASE CallStep(g)
        BY <2>1, <3>3, <4>1, StepOfOwn, IdleFields DEF LockForRemoval, Ended
      <4>2. CASE NewCall(g)
        BY <2>1, <3>3, <4>2, StepOfNew DEF LockForClose
      <4>3. QED
        BY <4>1, <4>2
    <3>4. QED
      BY <3>1, <3>2, <3>3
  <2>2. QED
    BY <2>1
<1>3. CASE removed'
  BY <1>2, <1>3 DEF NothingRemoved, OnlyPublishPanics
<1>4. CASE ~removed'
  <2>1. ~removed /\ \A h \in Goroutines : call[h].pc # "closing"
    BY <1>1, <1>4 DEF NothingRemoved
  <2>2. ~LockForClose(g) /\ ~LockForRemoval(g) /\ ~DeleteTopic(g) /\ ~FinishClose(g)
        /\ \A s \in Subscriptions : ~CloseNext(g, s)
    BY <1>4, <2>1 DEF LockForClose, LockForRemoval, DeleteTopic, FinishClose, CloseNext
  <2>3. /\ \A t \in topics : subscriptions[t] # 0
        /\ \A h \in Goroutines : call[h].pc = "record" => call[h].topic \in topics
        /\ \A s \in shut : /\ status[s] = "released"
                           /\ \A h \in Goroutines : GivesUp(h, s) => call[h].pc = "delete"
    BY <2>1 DEF NothingRemoved
  <2>4. topics \subseteq topics' /\ topics \subseteq Topics
    BY <2>2, WhatStays, StepOfNew DEF Shape
  <2>5. \A t \in topics' : subscriptions'[t] # 0
    <3>1. CASE InsertTopic(g)
      BY <2>3, <2>4, <3>1, CallFields DEF InsertTopic, Shape
    <3>2. CASE ~InsertTopic(g)
      <4>1. subscriptions' = subscriptions
        BY <2>2, <3>2, WhatStays, StepOfNew
      <4>2. topics' = topics
        <5>1. CASE NewCall(g)
          BY <5>1, <2>2, StepOfNew
        <5>2. CASE CallStep(g)
          BY <5>2, <2>2, <3>2 DEF CallStep, CheckTopic, WriteRecord, FetchRecord, CloseChannel, DeleteRecord,
             FetchMap, DropOldest, Send, FinishPublish, Visit
        <5>3. QED
          BY <5>1, <5>2
      <4>3. QED
        BY <2>3, <4>1, <4>2
    <3>3. QED
      BY <3>1, <3>2
  <2>6. \A h \in Goroutines : call'[h].pc = "record" => call'[h].topic \in topics'
    <3>1. ASSUME NEW h \in Goroutines, h # g, call'[h].pc = "record" PROVE call'[h].topic \in topics'
      <4>1. CASE call[h].pc \in {"walk", "drop", "send"} /\ call'[h] = [call[h] EXCEPT !.left = @ \cup {call[g].sub}]
        BY <3>1, <4>1 DEF Shape, Calls
      <4>2. QED
        BY <3>1, <4>1, <2>3, <2>4, StepOfOthers
    <3>2. ASSUME call'[g].pc = "record" PROVE call'[g].topic \in topics'
      <4>1. CallStep(g) /\ call'[g].topic = call[g].topic /\ (call[g].topic \in topics \/ InsertTopic(g))
        BY <3>2, StepOfNew, StepOfOwn, IdleFields DEF Ended
      <4>2. QED
        BY <2>4, <4>1 DEF InsertTopic
    <3>3. QED
      BY <3>1, <3>2
  <2>7. ASSUME NEW s \in shut' PROVE /\ status'[s] = "released"
                                     /\ \A h \in Goroutines : GivesUp(h, s)' => call'[h].pc = "delete"
    <3>1. CASE CloseChannel(g) /\ s \notin shut
      <4>1. s = call[g].sub /\ status' = status /\ call[g].pc = "shut" /\ CallStep(g) /\ Goto(g, "delete")
        BY <2>7, <3>1 DEF CloseChannel, CallStep
      <4>2. s \in Subscriptions /\ GivesUp(g, s)
        BY <4>1, CallFields DEF GivesUp, InCall, Ended
      <4>3. status[s] = "released" /\ \A h \in Goroutines : GivesUp(h, s) => h = g
        BY <4>2 DEF OneOwner
      <4>4. \A h \in Goroutines : GivesUp(h, s)' => h = g
        BY <4>1, <4>2, <4>3, OwnersStay
      <4>5. call'[g].pc = "delete"
        BY <4>1, GotoFields DEF Places
      <4>6. QED
        BY <4>1, <4>3, <4>4, <4>5
    <3>2. CASE s \in shut
      <4>1. s \in Subscriptions /\ status[s] = "released"
        BY <2>3, <3>2 DEF Shape
      <4>2. status'[s] = "released"
        <5>1. CASE CallStep(g)
          <6>1. CASE WriteRecord(g)
            <7>1. Makes(g, call[g].sub) /\ call[g].sub \in Subscriptions
              BY <6>1, CallFields DEF WriteRecord, Makes, InCall, Ended
            <7>2. call[g].sub # s
              BY <4>1, <7>1 DEF OneOwner
            <7>3. QED
              BY <4>1, <6>1, <7>2 DEF WriteRecord, Shape
          <6>2. QED
            BY <4>1, <5>1, <6>1, WhatStays
        <5>2. CASE NewCall(g)
          BY <2>2, <4>1, <5>2, StepOfNew DEF Shape
        <5>3. QED
          BY <5>1, <5>2
      <4>3. ASSUME NEW h \in Goroutines, GivesUp(h, s)' PROVE call'[h].pc = "delete"
        <5>1. CASE CallStep(g)
          <6>1. GivesUp(h, s) /\ call[h].pc = "delete"
            BY <2>3, <3>2, <4>1, <4>3, <5>1, OwnersStay
          <6>2. CASE h # g
            BY <5>1, <6>1, <6>2, <4>3, StepOfOthers DEF GivesUp, InCall, Ended
          <6>3. CASE h = g
            BY <5>1, <6>1, <6>3, <4>3, StepOfOwn, IdleFields DEF GivesUp, InCall, Ended
          <6>4. QED
            BY <6>2, <6>3
        <5>2. CASE NewCall(g)
          <6>1. h # g
            <7>1. GivesUp(g, s)' => status[s] = "held"
              BY <5>2, <2>2, StepOfNew DEF GivesUp
            <7>2. QED
              BY <4>1, <4>3, <7>1
          <6>2. call'[h] = call[h]
            <7>1. CASE call[h].pc \in {"walk", "drop", "send"} /\ call'[h] = [call[h] EXCEPT !.left = @ \cup {call[g].sub}]
              <8>1. call[h].op = "publish" /\ call'[h].op = call[h].op
                BY <7>1, CallFields DEF Shape, Calls
              <8>2. QED
                BY <4>3, <8>1 DEF GivesUp
            <7>2. QED
              BY <4>3, <5>2, <6>1, <7>1, StepOfOthers DEF GivesUp, InCall, Ended
          <6>3. QED
            BY <2>3, <3>2, <4>3, <6>2 DEF GivesUp, InCall
        <5>3. QED
          BY <5>1, <5>2
      <4>4. QED
        BY <4>2, <4>3
    <3>3. s \in shut \/ CloseChannel(g)
      BY <2>2, <2>7, WhatStays, StepOfNew
    <3>4. QED
      BY <3>1, <3>2, <3>3
  <2>8. NothingRemoved'
    BY <1>2, <2>5, <2>6, <2>7 DEF NothingRemoved
  <2>9. ASSUME NEW h \in Goroutines, call'[h].pc = "panicked" PROVE call'[h].op = "publish"
    <3>1. CASE call[h].pc = "panicked" /\ call'[h].op = call[h].op
      BY <2>1, <3>1 DEF OnlyPublishPanics
    <3>2. CASE WriteRecord(g) /\ subscriptions[call[g].topic] = 0
      BY <2>3, <3>2 DEF WriteRecord
    <3>3. CASE CloseChannel(g) /\ call[g].sub \in shut
      <4>1. GivesUp(g, call[g].sub) /\ call[g].pc = "shut"
        BY <3>3, CallFields DEF CloseChannel, GivesUp, InCall, Ended
      <4>2. QED
        BY <2>3, <3>3, <4>1
    <3>4. CASE Send(g) /\ h = g /\ call'[h].op = call[h].op
      BY <3>4, CallFields DEF Send
    <3>5. QED
      BY <2>2, <2>9, <3>1, <3>2, <3>3, <3>4, WhoPanics
  <2>10. QED
    BY <2>8, <2>9 DEF OnlyPublishPanics
<1>5. QED
  BY <1>3, <1>4

(* The receive of a message touches the buffer alone. *)
LEMMA ConsumeKeeps ==
  ASSUME IInv, NEW s \in Subscriptions, Consume(s)
  PROVE  IInv'
<1>1. /\ topics' = topics /\ subscriptions' = subscriptions /\ made' = made /\ closed' = closed
      /\ member' = member /\ mutex' = mutex /\ lock' = lock /\ shut' = shut /\ status' = status
      /\ call' = call /\ orphaned' = orphaned /\ removed' = removed
  BY DEF Consume, tables, watch
<1>2. Shape'
  BY ConsumeShape DEF IInv
<1>3. \A t : Records(t)' = Records(t)
  BY <1>1 DEF Records, Members, MapOf
<1>4. CallsAreSound' /\ MutexIsHeld' /\ OneOwner'
  BY <1>1 DEF IInv, CallsAreSound, Sound, MutexIsHeld, OneOwner, Makes, GivesUp, InCall
<1>5. ClosedFirst' /\ OpenIsReachable' /\ NothingRemoved' /\ OnlyPublishPanics'
  <2>1. ClosedFirst'
    <3>1. \A g \in Goroutines : Records(call[g].topic)' = Records(call[g].topic)
      BY <1>1 DEF Records, Members, MapOf
    <3>2. QED
      BY <1>1, <1>3, <3>1 DEF IInv, ClosedFirst
  <2>2. OpenIsReachable'
    BY <1>1 DEF IInv, OpenIsReachable, Records, Members, MapOf
  <2>3. QED
    BY <1>1, <2>1, <2>2 DEF IInv, NothingRemoved, OnlyPublishPanics, GivesUp, InCall
<1>6. QED
  BY <1>2, <1>4, <1>5 DEF IInv

(* Nor does a step of somebody else. *)
LEMMA StutterKeeps ==
  ASSUME IInv, UNCHANGED vars
  PROVE  IInv'
<1>1. /\ topics' = topics /\ subscriptions' = subscriptions /\ made' = made /\ closed' = closed
      /\ member' = member /\ mutex' = mutex /\ lock' = lock /\ shut' = shut /\ status' = status
      /\ call' = call /\ orphaned' = orphaned /\ removed' = removed /\ buffered' = buffered
  BY DEF vars, tables, channels, watch
<1>2. Shape'
  BY <1>1 DEF IInv, Shape
<1>3. \A t : Records(t)' = Records(t)
  BY <1>1 DEF Records, Members, MapOf
<1>4. CallsAreSound' /\ MutexIsHeld' /\ OneOwner'
  BY <1>1 DEF IInv, CallsAreSound, Sound, MutexIsHeld, OneOwner, Makes, GivesUp, InCall
<1>5. ClosedFirst'
  <2>1. \A g \in Goroutines : Records(call[g].topic)' = Records(call[g].topic)
    BY <1>1 DEF Records, Members, MapOf
  <2>2. QED
    BY <1>1, <1>3, <2>1 DEF IInv, ClosedFirst
<1>6. OpenIsReachable'
  BY <1>1 DEF IInv, OpenIsReachable, Records, Members, MapOf
<1>7. NothingRemoved' /\ OnlyPublishPanics'
  BY <1>1 DEF IInv, NothingRemoved, OnlyPublishPanics, GivesUp, InCall
<1>8. QED
  BY <1>2, <1>4, <1>5, <1>6, <1>7 DEF IInv

(* The invariant is inductive. *)
LEMMA NextKeeps == IInv /\ [Next]_vars => IInv'
<1> SUFFICES ASSUME IInv, [Next]_vars PROVE IInv'
  OBVIOUS
<1>1. ASSUME NEW g \in Goroutines, CallStep(g) \/ NewCall(g) PROVE IInv'
  <2>1. Shape'
    BY <1>1, CallStepShape, NewCallShape DEF IInv
  <2>2. CallsAreSound' /\ MutexIsHeld' /\ OneOwner'
    BY <1>1, CallsStaySound, MutexStaysHeld, OneOwnerStays DEF IInv
  <2>3. ClosedFirst' /\ OpenIsReachable'
    BY <1>1, ClosedFirstStays, OpenStaysReachable DEF IInv
  <2>4. NothingRemoved' /\ OnlyPublishPanics'
    BY <1>1, NothingIsRemoved DEF IInv
  <2>5. QED
    BY <2>1, <2>2, <2>3, <2>4 DEF IInv
<1>2. QED
  BY <1>1, ConsumeKeeps, StutterKeeps DEF Next

(* IInv holds in every state the client reaches, for every choice of the constants. *)
THEOREM Inductive == Spec => []IInv
<1>1. Init => IInv
  BY InitIInv
<1>2. IInv /\ [Next]_vars => IInv'
  BY NextKeeps
<1>3. QED
  BY <1>1, <1>2, PTL DEF Spec

(* The variables keep their shape, and who holds the client's mutex is inside        *)
(* RemoveTopic or Close or has panicked there or in Subscribe.                       *)
THEOREM TypeCorrect == Spec => []TypeOK
<1>1. IInv => TypeOK
  <2> SUFFICES ASSUME IInv PROVE TypeOK
    OBVIOUS
  <2>1. Shape /\ MutexIsHeld
    BY DEF IInv
  <2>2. \A s \in Subscriptions :
       /\ member[s] = NoMap \/ \E t \in Topics : member[s].topic = t /\ member[s].number \in 1..made[t]
       /\ lock[s] \in Goroutines \cup {Nobody}
       /\ buffered[s] \in 0..BufferLength
       /\ status[s] \in {"unused", "making", "held", "released"}
    BY <2>1 DEF Shape
  <2>3. /\ \A g \in Goroutines : call[g].pc = "closing" => mutex = g
        /\ mutex = Nobody \/ \E g \in Goroutines :
                        mutex = g /\ call[g].pc \in {"closing", "panicked", "dead"}
    BY <2>1 DEF Shape, MutexIsHeld, Ended
  <2>4. \A g \in Goroutines :
       /\ call[g].topic \in Topics \cup {Nobody}
       /\ call[g].sub \in Subscriptions \cup {NoSubscription}
       /\ call[g].left \subseteq Subscriptions
    BY <2>1 DEF Shape, Calls
  <2>5. QED
    BY <2>1, <2>2, <2>3, <2>4 DEF TypeOK, Shape
<1>2. QED
  BY <1>1, Inductive, PTL

(* A held and open subscription whose map was not replaced is in its topic's current *)
(* map, where the next Publish, RemoveTopic and Close (local_pubsub.go:133-169,      *)
(* 41-52, 174-191) find it, for any number of callers and topics.                   *)
THEOREM PublishReachesTheOpen == Spec => []OpenIsReachable
<1>1. IInv => OpenIsReachable
  BY DEF IInv
<1>2. QED
  BY <1>1, Inductive, PTL

(* Until a topic is removed, Subscribe, Unsubscribe and the others never write to a  *)
(* nil map or close a channel twice (local_pubsub.go:86, 119), for any number of     *)
(* callers.                                                                          *)
THEOREM OthersDoNotPanic == Spec => []OnlyPublishPanics
<1>1. IInv => OnlyPublishPanics
  BY DEF IInv
<1>2. QED
  BY <1>1, Inductive, PTL
=============================================================================
