------------------------- MODULE IngressRulesProofs -------------------------
(***************************************************************************)
(* The safety invariants of IngressRules, for every set of proxies,        *)
(* workers, requests and rules and every bound on the troubles. What has   *)
(* to be known in every state is what the tasks that run have done to      *)
(* each proxy so far, and that a transaction which can be committed is an  *)
(* edit of what the proxy runs. The redirect, of which a proxy has one for *)
(* all rules, has an invariant of its own at the end.                      *)
(***************************************************************************)
EXTENDS IngressRules, FiniteSetTheorems, TLAPS

(* The rows, configurations, transactions and calls there can be. *)
Rules        == [input : Inputs, status : {"pending", "applied", "failed", "deleting", "gone"},
                 redirect : BOOLEAN]
Links        == {Link(i) : i \in Inputs}
Confs        == [links : SUBSET Links, backends : SUBSET {Backend(l) : l \in Links},
                 redirect : BOOLEAN]
Transactions == UNION {[opened -> [conf : Confs, stale : BOOLEAN]] : opened \in SUBSET Proxies}
Requests     == [pc : {"idle", "valid", "ask"}, input : Inputs \cup {NoInput},
                 task : Tasks \cup {NoTask}]
States       == [pc : {"idle", "begin", "mark", "commit"}, task : Tasks \cup {NoTask},
                 redirect : BOOLEAN, tx : Transactions, failed : BOOLEAN]

Valid == {r \in Resolvers : request[r].pc = "valid"}

Shape ==
  /\ rules \in Seq(Rules)
  /\ IsFiniteSet(Valid)
  /\ Len(rules) + Cardinality(Valid) <= MaxRules
  /\ conf \in [Proxies -> Confs]
  /\ queued \subseteq Tasks
  /\ request \in [Resolvers -> Requests]
  /\ worker \in [Workers -> States]

(* A request has a task while it asks for it, and a rule while it inserts it. *)
RequestsAreSound ==
  \A r \in Resolvers : /\ request[r].pc = "ask" => request[r].task \in Tasks
                       /\ request[r].pc # "ask" => request[r].task = NoTask
                       /\ request[r].pc = "valid" => request[r].input \in Inputs

(* A worker that is not idle has a task about a row; only https redirects. *)
Busy(w) == worker[w].pc # "idle"
WorkersAreSound ==
  \A w \in Workers :
    /\ ~Busy(w) => worker[w] = Idle
    /\ Busy(w) => /\ worker[w].task \in Tasks
                  /\ worker[w].task.rule \in DOMAIN rules
                  /\ worker[w].task.kind = "redirect"
                       => rules[worker[w].task.rule].input.protocol = "https"
    /\ worker[w].failed => worker[w].pc = "commit" /\ Opened(w) = {}
    /\ worker[w].pc = "mark" => worker[w].task.kind = "redirect"

(* Without overlap the rule of a task is there while the task runs, and is the *)
(* task's alone; one that is being deleted stays so.                           *)
NoOverlap ==
  "overlap" \notin trouble =>
    \A w \in Workers : Busy(w) =>
      /\ Live(worker[w].task.rule)
      /\ worker[w].task.kind = "delete" => Deleting(worker[w].task.rule)
      /\ \A v \in Workers : Busy(v) /\ worker[v].task.rule = worker[w].task.rule => v = w

(* Rows that passed the validation have ports of their own, in their mode. *)
PortsAreDistinct ==
  "race" \notin trouble =>
    \A id, other \in Rows :
      (/\ rules[id].input.port = rules[other].input.port
       /\ Mode(rules[id].input) = Mode(rules[other].input)) => id = other

(* A task has reached the configuration of a proxy. *)
DoneAt(w, p) ==
  /\ Busy(w) /\ ~worker[w].failed
  /\ IF Direct(w) THEN p \in Opened(w) \/ worker[w].pc = "commit"
                  ELSE p \notin Opened(w) /\ worker[w].pc = "commit"
RemovedAt(id, p) == \E w \in Workers : /\ DoneAt(w, p)
                                       /\ worker[w].task.kind = "delete"
                                       /\ worker[w].task.rule = id

(* A copy whose transaction can be committed. *)
Current(w, p) == Busy(w) /\ ~Direct(w) /\ p \in Opened(w) /\ ~worker[w].tx[p].stale

(* What the task of worker w makes of a set of links. *)
Takes(l, k) == k = l \/ (l.mode = "tcp" /\ k.mode = "tcp" /\ k.port = l.port)
Keeps(w, k, links) ==
  LET t == worker[w].task
      l == Link(rules[t.rule].input)
  IN  CASE t.kind = "apply"    -> k \in links \/ k = l
        [] t.kind = "delete"   -> k \in links /\ ~Takes(l, k)
        [] t.kind = "redirect" -> k \in links

(* The version: a copy that can be committed is the edit of what the proxy runs, *)
(* apart from the links of the other proxy.                                      *)
CopiesAreCurrent ==
  \A w \in Workers, p \in Proxies : Current(w, p) =>
    \A k \in Links : k.mode # "udp" =>
      (k \in worker[w].tx[p].conf.links <=> Keeps(w, k, conf[p].links))

(* Every link is that of a row whose link has not been removed from the proxy. *)
LinkHasStayingRule ==
  "overlap" \notin trouble =>
    \A p \in Proxies : \A l \in conf[p].links :
      \E id \in Rows : Link(rules[id].input) = l /\ ~RemovedAt(id, p)

Backed(c) == \A l \in c.links : l.mode # "udp" /\ l.target \notin External => Backend(l) \in c.backends
CopiesAreBacked ==
  "overlap" \notin trouble =>
    /\ \A p \in Proxies : Backed(conf[p])
    /\ \A w \in Workers, p \in Proxies : Current(w, p) => Backed(worker[w].tx[p].conf)

(* What a task has applied is linked before its row says so. *)
AppliedAtIsLinked ==
  trouble \cap {"overlap", "race"} = {} =>
    \A w \in Workers, p \in Proxies :
      DoneAt(w, p) /\ worker[w].task.kind = "apply"
        => Link(rules[worker[w].task.rule].input) \in conf[p].links

IInv == /\ Shape /\ RequestsAreSound /\ WorkersAreSound /\ NoOverlap /\ PortsAreDistinct
        /\ CopiesAreCurrent /\ LinkHasStayingRule /\ CopiesAreBacked
        /\ AppliedIsLinked /\ AppliedAtIsLinked /\ DeletingIsAttended

(* The link of a rule. *)
LEMMA LinkFacts ==
  ASSUME NEW i \in Inputs
  PROVE  /\ Link(i) \in Links
         /\ Link(i).port = i.port /\ Link(i).mode = Mode(i) /\ Link(i).target = i.target
         /\ Mode(i) \in {"http", "tcp", "udp"}
         /\ Mode(i) = "udp" <=> i.protocol = "udp"
         /\ Mode(i) = "tcp" <=> i.protocol = "tcp"
         /\ Link(i) = [port |-> i.port, mode |-> Mode(i), target |-> i.target]
  BY InputAssumption DEF Link, Links, Mode

(* A link is a frontend of a port in a mode, and the backend it leads to. *)
LEMMA LinkIsRecord ==
  ASSUME NEW l \in Links
  PROVE  /\ l = [port |-> l.port, mode |-> l.mode, target |-> l.target]
         /\ l.mode \in {"http", "tcp", "udp"}
<1>1. PICK i \in Inputs : l = Link(i)
  BY DEF Links
<1>2. QED
  BY <1>1, LinkFacts

(* What RemoveLink takes away with a link. *)
LEMMA TakesIs ==
  ASSUME NEW l \in Links, NEW k \in Links, l.mode = "tcp"
  PROVE  [k EXCEPT !.target = l.target] # l <=> ~Takes(l, k)
<1>1. /\ l = [port |-> l.port, mode |-> l.mode, target |-> l.target]
      /\ k = [port |-> k.port, mode |-> k.mode, target |-> k.target]
  BY LinkIsRecord
<1>2. [k EXCEPT !.target = l.target] = [port |-> k.port, mode |-> k.mode, target |-> l.target]
  BY <1>1
<1>3. [port |-> k.port, mode |-> k.mode, target |-> l.target] = l <=> k.port = l.port /\ k.mode = l.mode
  BY <1>1
<1>4. QED
  BY <1>2, <1>3 DEF Takes

(* A row of the database, and the link it asks for. *)
LEMMA RowFacts ==
  ASSUME Shape, NEW id \in DOMAIN rules
  PROVE  /\ rules[id] \in Rules /\ rules[id].input \in Inputs
         /\ rules[id].status \in {"pending", "applied", "failed", "deleting", "gone"}
         /\ rules[id].redirect \in BOOLEAN
         /\ id \in 1..Len(rules) /\ id \in Ids
         /\ Link(rules[id].input) \in Links
<1>1. rules \in Seq(Rules) /\ Len(rules) \in Nat /\ DOMAIN rules = 1..Len(rules)
  BY DEF Shape
<1>2. Cardinality(Valid) \in Nat
  BY FS_CardinalityType DEF Shape
<1>3. Len(rules) <= MaxRules /\ MaxRules \in Nat
  BY <1>1, <1>2, BoundAssumption DEF Shape
<1>4. rules[id] \in Rules
  BY <1>1
<1>5. QED
  BY <1>1, <1>3, <1>4, LinkFacts DEF Rules, Ids

(* The transactions a worker has open: transactionIdMap of the handlers. *)
LEMMA TransactionFacts ==
  ASSUME Shape, NEW w \in Workers
  PROVE  /\ worker[w] \in States
         /\ Opened(w) \subseteq Proxies
         /\ \A p \in Opened(w) : /\ worker[w].tx[p] \in [conf : Confs, stale : BOOLEAN]
                                 /\ worker[w].tx[p].conf \in Confs
                                 /\ worker[w].tx[p].stale \in BOOLEAN
         /\ worker[w].tx \in Transactions
<1>1. worker[w] \in States /\ worker[w].tx \in Transactions
  BY DEF Shape, States
<1>2. PICK opened \in SUBSET Proxies : worker[w].tx \in [opened -> [conf : Confs, stale : BOOLEAN]]
  BY <1>1 DEF Transactions
<1>3. Opened(w) = opened
  BY <1>2 DEF Opened
<1>4. QED
  BY <1>1, <1>2, <1>3

(* A busy worker's task. *)
LEMMA TaskFacts ==
  ASSUME Shape, WorkersAreSound, NEW w \in Workers, Busy(w)
  PROVE  /\ worker[w].task \in Tasks
         /\ worker[w].task.kind \in {"apply", "delete", "redirect"}
         /\ worker[w].task.on \in BOOLEAN
         /\ worker[w].task.rule \in DOMAIN rules
         /\ rules[worker[w].task.rule].input \in Inputs
         /\ Link(rules[worker[w].task.rule].input) \in Links
         /\ worker[w].task.kind = "redirect"
              => rules[worker[w].task.rule].input.protocol = "https" /\ ~Direct(w)
         /\ Direct(w) <=> Link(rules[worker[w].task.rule].input).mode = "udp"
<1>1. worker[w].task \in Tasks /\ worker[w].task.rule \in DOMAIN rules
  BY DEF WorkersAreSound
<1>2. rules[worker[w].task.rule].input \in Inputs
  BY <1>1, RowFacts
<1>3. worker[w].task.kind \in {"apply", "delete", "redirect"} /\ worker[w].task.on \in BOOLEAN
  BY <1>1 DEF Tasks
<1>4. QED
  BY <1>1, <1>2, <1>3, LinkFacts DEF WorkersAreSound, Direct

(* A configuration with other links and backends. *)
LEMMA OtherLinks ==
  ASSUME NEW X, NEW Y, NEW c \in [links : SUBSET X, backends : SUBSET Y, redirect : BOOLEAN],
         NEW A \in SUBSET X, NEW B \in SUBSET Y,
         NEW d, d = [c EXCEPT !.links = A, !.backends = B]
  PROVE  /\ d \in [links : SUBSET X, backends : SUBSET Y, redirect : BOOLEAN]
         /\ d.links = A
         /\ d.backends = B
  OBVIOUS

(* The backends that are left when the link of a rule goes. *)
LEMMA RemoveLinkBackends ==
  ASSUME NEW c, NEW id, NEW redirected, NEW l, l = Link(rules[id].input)
  PROVE  /\ l.mode = "udp" \/ UsedByOther(id)
              => RemoveLink(c, id, redirected).backends = c.backends
         /\ ~(l.mode = "udp" \/ UsedByOther(id))
              => RemoveLink(c, id, redirected).backends = c.backends \ {Backend(l)}
  BY DEF RemoveLink

(* ... and the links. *)
LEMMA RemoveLinkLinks ==
  ASSUME NEW c, NEW id, NEW redirected, NEW l, l = Link(rules[id].input)
  PROVE  \A k : k \in RemoveLink(c, id, redirected).links <=>
                  /\ k \in c.links
                  /\ l.mode = "tcp" => [k EXCEPT !.target = l.target] # l
                  /\ l.mode # "tcp" => k # l
  BY DEF RemoveLink

(* What is left is a configuration. *)
LEMMA RemoveLinkIsConf ==
  ASSUME NEW c \in Confs, NEW id, NEW redirected
  PROVE  RemoveLink(c, id, redirected) \in Confs
<1>1. /\ c.links \subseteq Links /\ c.backends \subseteq {Backend(k) : k \in Links}
      /\ c.redirect \in BOOLEAN
  BY DEF Confs
<1>2. QED
  BY <1>1 DEF RemoveLink, Confs

(* What an edit makes of a configuration. *)
LEMMA EditedIs ==
  ASSUME Shape, WorkersAreSound, NEW w \in Workers, Busy(w), NEW c \in Confs
  PROVE  /\ Edited(c, w) \in Confs
         /\ \A k \in Links : k \in Edited(c, w).links <=> Keeps(w, k, c.links)
         /\ Direct(w) => Edited(c, w).backends = c.backends
<1> DEFINE id == worker[w].task.rule
           l == Link(rules[id].input)
<1>1. /\ id \in DOMAIN rules /\ rules[id].input \in Inputs /\ l \in Links
      /\ worker[w].task.kind \in {"apply", "delete", "redirect"} /\ worker[w].task.on \in BOOLEAN
      /\ Direct(w) <=> l.mode = "udp"
      /\ l.mode = Mode(rules[id].input)
      /\ worker[w].task.kind = "redirect" => ~Direct(w)
  BY TaskFacts, LinkFacts
<1>2. c = [links |-> c.links, backends |-> c.backends, redirect |-> c.redirect]
      /\ c.links \subseteq Links /\ c.backends \subseteq {Backend(k) : k \in Links} /\ c.redirect \in BOOLEAN
  BY DEF Confs
<1>3. CASE worker[w].task.kind = "apply"
  <2>1. Edited(c, w) = AddLink(c, rules[id].input)
    BY <1>3 DEF Edited
  <2> DEFINE i == rules[id].input
             B == IF Mode(i) = "udp" THEN c.backends ELSE c.backends \cup {Backend(l)}
  <2>2. AddLink(c, i) = [c EXCEPT !.links = c.links \cup {l}, !.backends = B]
    BY DEF AddLink
  <2>3. B \in SUBSET {Backend(k) : k \in Links} /\ (Direct(w) => B = c.backends)
    BY <1>1, <1>2
  <2> HIDE DEF B
  <2>4. /\ AddLink(c, i) \in Confs
        /\ AddLink(c, i).links = c.links \cup {l}
        /\ AddLink(c, i).backends = B
    <3> DEFINE A == c.links \cup {l}
               Y == {Backend(k) : k \in Links}
    <3>1. A \in SUBSET Links /\ B \in SUBSET Y
      BY <1>1, <1>2, <2>3
    <3>2. Confs = [links : SUBSET Links, backends : SUBSET Y, redirect : BOOLEAN]
      BY DEF Confs
    <3>3. AddLink(c, i) = [c EXCEPT !.links = A, !.backends = B]
      BY <2>2
    <3>a. c \in [links : SUBSET Links, backends : SUBSET Y, redirect : BOOLEAN]
      BY <3>2
    <3> HIDE DEF A, Y, i
    <3>b. PICK d : d = [c EXCEPT !.links = A, !.backends = B]
      OBVIOUS
    <3>c. /\ d \in [links : SUBSET Links, backends : SUBSET Y, redirect : BOOLEAN]
          /\ d.links = A /\ d.backends = B
      BY <3>a, <3>b, <3>1, OtherLinks
    <3>4. AddLink(c, i) \in Confs /\ AddLink(c, i).links = A /\ AddLink(c, i).backends = B
      BY <3>b, <3>c, <3>2, <3>3
    <3>5. QED
      BY <3>4 DEF A
  <2>5. \A k \in Links : k \in AddLink(c, i).links <=> Keeps(w, k, c.links)
    BY <1>1, <1>3, <2>4 DEF Keeps
  <2>6. Direct(w) => AddLink(c, i).backends = c.backends
    BY <2>3, <2>4
  <2>7. QED
    BY <2>1, <2>4, <2>5, <2>6
<1>4. CASE worker[w].task.kind = "delete"
  <2>1. Edited(c, w) = RemoveLink(c, id, worker[w].redirect)
    BY <1>4 DEF Edited
  <2> DEFINE on == worker[w].redirect
             d  == RemoveLink(c, id, on)
  <2>a. PICK m : m = l
    OBVIOUS
  <2>b. \A k : k \in d.links <=>
                 /\ k \in c.links
                 /\ m.mode = "tcp" => [k EXCEPT !.target = m.target] # m
                 /\ m.mode # "tcp" => k # m
    BY <2>a, RemoveLinkLinks
  <2>2. /\ d.backends \subseteq c.backends
        /\ m.mode = "udp" => d.backends = c.backends
    BY <2>a, RemoveLinkBackends
  <2>3. d \in Confs
    BY RemoveLinkIsConf
  <2> HIDE DEF d
  <2>4. \A k \in c.links : m.mode = "tcp" => ([k EXCEPT !.target = m.target] # m <=> ~Takes(m, k))
    BY <1>1, <1>2, <2>a, TakesIs
  <2>5. \A k \in c.links : m.mode # "tcp" => (k # m <=> ~Takes(m, k))
    BY DEF Takes
  <2>6. \A k \in Links : k \in d.links <=> k \in c.links /\ ~Takes(m, k)
    BY <2>b, <2>4, <2>5
  <2>7. \A k \in Links : k \in d.links <=> Keeps(w, k, c.links)
    BY <1>4, <2>a, <2>6 DEF Keeps
  <2>8. Edited(c, w) = d
    BY <2>1 DEF d
  <2>9. QED
    BY <1>1, <2>a, <2>2, <2>3, <2>7, <2>8
<1>5. CASE worker[w].task.kind = "redirect"
  <2>1. Edited(c, w) = [c EXCEPT !.redirect = worker[w].task.on]
    BY <1>5 DEF Edited
  <2>2. QED
    BY <1>1, <1>2, <1>5, <2>1 DEF Keeps, Confs
<1>6. QED
  BY <1>1, <1>3, <1>4, <1>5

(* The part of the links HAProxy does not have is left alone. *)
LEMMA CommittedIs ==
  ASSUME NEW c \in Confs, NEW copy \in Confs
  PROVE  /\ Committed(c, copy) \in Confs
         /\ Committed(c, copy).backends = copy.backends
         /\ Committed(c, copy).redirect = copy.redirect
         /\ \A k \in Links : k \in Committed(c, copy).links <=>
                               IF k.mode = "udp" THEN k \in c.links ELSE k \in copy.links
<1>1. c.links \subseteq Links /\ copy.links \subseteq Links
      /\ copy = [links |-> copy.links, backends |-> copy.backends, redirect |-> copy.redirect]
  BY DEF Confs
<1>2. Committed(c, copy) = [links |-> {l \in copy.links : l.mode # "udp"} \cup {l \in c.links : l.mode = "udp"},
                            backends |-> copy.backends, redirect |-> copy.redirect]
  BY <1>1 DEF Committed
<1>3. QED
  BY <1>1, <1>2 DEF Confs

(* A worker between its tasks. *)
LEMMA IdleFacts ==
  /\ Idle \in States /\ Idle.pc = "idle" /\ Idle.task = NoTask /\ ~Idle.failed
  /\ Idle.tx = <<>> /\ DOMAIN Idle.tx = {} /\ <<>> \in Transactions
  /\ NoTask.rule = 0 /\ NoTask.kind = "none" /\ NoTask \notin Tasks
<1>1. <<>> \in [{} -> [conf : Confs, stale : BOOLEAN]] /\ DOMAIN <<>> = {}
  OBVIOUS
<1>2. <<>> \in Transactions
  BY <1>1 DEF Transactions
<1>3. NoTask.rule = 0 /\ NoTask.kind = "none" /\ NoTask \notin Tasks
  BY DEF NoTask, Tasks, Ids
<1>4. QED
  BY <1>1, <1>2, <1>3 DEF Idle, States

(* A transaction is opened on one more proxy. *)
LEMMA OpenEffect ==
  ASSUME Shape, NEW w \in Workers, NEW p \in Proxies, NEW tr \in [conf : Confs, stale : BOOLEAN],
         Open(w, p, tr)
  PROVE  /\ worker' \in [Workers -> States]
         /\ \A v \in Workers : v # w => worker'[v] = worker[v]
         /\ worker'[w].task = worker[w].task /\ worker'[w].failed = worker[w].failed
         /\ worker'[w].redirect = worker[w].redirect
         /\ DOMAIN worker'[w].tx = Opened(w) \cup {p}
         /\ worker'[w].tx[p] = tr
         /\ \A q \in Opened(w) : q # p => worker'[w].tx[q] = worker[w].tx[q]
         /\ worker'[w].pc = IF Opened(w) \cup {p} = Proxies THEN After(w) ELSE worker[w].pc
<1> DEFINE tx == [q \in Opened(w) \cup {p} |-> IF q = p THEN tr ELSE worker[w].tx[q]]
           pc == IF Opened(w) \cup {p} = Proxies THEN After(w) ELSE worker[w].pc
           s  == [worker[w] EXCEPT !.tx = tx, !.pc = pc]
<1>1. worker[w] \in States /\ Opened(w) \subseteq Proxies
      /\ \A q \in Opened(w) : worker[w].tx[q] \in [conf : Confs, stale : BOOLEAN]
  BY TransactionFacts
<1>2. tx \in [Opened(w) \cup {p} -> [conf : Confs, stale : BOOLEAN]]
  BY <1>1
<1>3. tx \in Transactions
  <2>1. Opened(w) \cup {p} \in SUBSET Proxies
    BY <1>1
  <2> HIDE DEF tx
  <2>2. QED
    BY <1>2, <2>1 DEF Transactions
<1>4. pc \in {"idle", "begin", "mark", "commit"}
  BY <1>1 DEF After, States
<1>5. worker' = [worker EXCEPT ![w] = s]
  BY DEF Open
<1>6. /\ DOMAIN tx = Opened(w) \cup {p} /\ tx[p] = tr
      /\ \A q \in Opened(w) : q # p => tx[q] = worker[w].tx[q]
  OBVIOUS
<1> HIDE DEF tx, pc
<1>7. s \in States /\ s.task = worker[w].task /\ s.failed = worker[w].failed
      /\ s.redirect = worker[w].redirect /\ s.tx = tx /\ s.pc = pc
  BY <1>1, <1>3, <1>4 DEF States
<1> HIDE DEF s
<1>8. worker' \in [Workers -> States] /\ worker'[w] = s /\ \A v \in Workers : v # w => worker'[v] = worker[v]
  BY <1>5, <1>7 DEF Shape
<1>9. QED
  BY <1>6, <1>7, <1>8 DEF pc

(* A transaction is committed, and the others on that proxy are out of date. *)
LEMMA CommitEffect ==
  ASSUME Shape, NEW w \in Workers, NEW p \in Proxies, CommitTransaction(w, p)
  PROVE  /\ worker' \in [Workers -> States]
         /\ \A v \in Workers : /\ worker'[v].task = worker[v].task /\ worker'[v].pc = worker[v].pc
                               /\ worker'[v].failed = worker[v].failed
                               /\ worker'[v].redirect = worker[v].redirect
         /\ DOMAIN worker'[w].tx = Opened(w) \ {p}
         /\ \A q \in Opened(w) \ {p} : worker'[w].tx[q] = worker[w].tx[q]
         /\ \A v \in Workers : v # w =>
              /\ DOMAIN worker'[v].tx = Opened(v)
              /\ \A q \in Opened(v) : q # p => worker'[v].tx[q] = worker[v].tx[q]
              /\ p \in Opened(v) /\ ~Direct(v) /\ ~Direct(w) => worker'[v].tx[p].stale
              /\ Direct(v) \/ Direct(w) => worker'[v] = worker[v]
<1>1. worker' = [v \in Workers |->
                  IF v = w THEN [worker[w] EXCEPT !.tx = [q \in Opened(w) \ {p} |-> @[q]]]
                  ELSE IF p \in Opened(v) /\ ~Direct(v) /\ ~Direct(w)
                       THEN [worker[v] EXCEPT !.tx[p].stale = TRUE]
                  ELSE worker[v]]
  BY DEF CommitTransaction
<1>2. /\ worker'[w] \in States
      /\ worker'[w].task = worker[w].task /\ worker'[w].pc = worker[w].pc
      /\ worker'[w].failed = worker[w].failed /\ worker'[w].redirect = worker[w].redirect
      /\ DOMAIN worker'[w].tx = Opened(w) \ {p}
      /\ \A q \in Opened(w) \ {p} : worker'[w].tx[q] = worker[w].tx[q]
  <2> DEFINE tx == [q \in Opened(w) \ {p} |-> worker[w].tx[q]]
  <2>1. worker[w] \in States /\ tx \in [Opened(w) \ {p} -> [conf : Confs, stale : BOOLEAN]]
        /\ Opened(w) \subseteq Proxies
    BY TransactionFacts
  <2>2. tx \in Transactions
    BY <2>1 DEF Transactions
  <2>3. DOMAIN tx = Opened(w) \ {p} /\ \A q \in Opened(w) \ {p} : tx[q] = worker[w].tx[q]
    OBVIOUS
  <2>4. worker'[w] = [worker[w] EXCEPT !.tx = tx]
    BY <1>1
  <2> HIDE DEF tx
  <2>5. QED
    BY <2>1, <2>2, <2>3, <2>4 DEF States
<1>3. ASSUME NEW v \in Workers, v # w
      PROVE  /\ worker'[v] \in States
             /\ worker'[v].task = worker[v].task /\ worker'[v].pc = worker[v].pc
             /\ worker'[v].failed = worker[v].failed /\ worker'[v].redirect = worker[v].redirect
             /\ DOMAIN worker'[v].tx = Opened(v)
             /\ \A q \in Opened(v) : q # p => worker'[v].tx[q] = worker[v].tx[q]
             /\ p \in Opened(v) /\ ~Direct(v) /\ ~Direct(w) => worker'[v].tx[p].stale
             /\ Direct(v) \/ Direct(w) => worker'[v] = worker[v]
  <2>1. /\ worker[v] \in States /\ worker[v].tx \in Transactions
        /\ \A q \in Opened(v) : worker[v].tx[q] \in [conf : Confs, stale : BOOLEAN]
    BY TransactionFacts
  <2>2. CASE p \in Opened(v) /\ ~Direct(v) /\ ~Direct(w)
    <3> DEFINE e  == [worker[v].tx[p] EXCEPT !.stale = TRUE]
               tx == [worker[v].tx EXCEPT ![p] = e]
    <3>1. worker'[v] = [worker[v] EXCEPT !.tx = tx]
      BY <1>1, <1>3, <2>2
    <3>2. e \in [conf : Confs, stale : BOOLEAN] /\ e.stale
      BY <2>1, <2>2
    <3> HIDE DEF e
    <3>3. PICK opened \in SUBSET Proxies : worker[v].tx \in [opened -> [conf : Confs, stale : BOOLEAN]]
      BY <2>1 DEF Transactions
    <3>4. opened = Opened(v)
      BY <3>3 DEF Opened
    <3>5. /\ tx \in [opened -> [conf : Confs, stale : BOOLEAN]]
          /\ DOMAIN tx = Opened(v) /\ tx[p] = e /\ \A q \in Opened(v) : q # p => tx[q] = worker[v].tx[q]
      BY <2>2, <3>2, <3>3, <3>4
    <3> HIDE DEF tx
    <3>6. tx \in Transactions
      BY <3>5 DEF Transactions
    <3>7. worker'[v] \in States /\ worker'[v].tx = tx
             /\ worker'[v].task = worker[v].task /\ worker'[v].pc = worker[v].pc
             /\ worker'[v].failed = worker[v].failed /\ worker'[v].redirect = worker[v].redirect
      BY <2>1, <3>1, <3>6 DEF States
    <3>8. QED
      BY <2>2, <3>2, <3>5, <3>7
  <2>3. CASE ~(p \in Opened(v) /\ ~Direct(v) /\ ~Direct(w))
    <3>1. worker'[v] = worker[v]
      BY <1>1, <1>3, <2>3
    <3>2. QED
      BY <2>1, <2>3, <3>1 DEF Opened
  <2>4. QED
    BY <2>2, <2>3
<1>4. worker' \in [Workers -> States]
  <2>1. \A v \in Workers : worker'[v] \in States
    BY <1>2, <1>3
  <2>2. QED
    BY <1>1, <2>1
<1>5. QED
  BY <1>2, <1>3, <1>4

(* A task fails before or in its commits. *)
LEMMA FailEffect ==
  ASSUME Shape, NEW w \in Workers,
         BeginFails(w) \/ \E p \in Proxies : CommitFails(w, p)
  PROVE  /\ worker' \in [Workers -> States]
         /\ \A v \in Workers : v # w => worker'[v] = worker[v]
         /\ worker'[w].task = worker[w].task /\ worker'[w].failed /\ worker'[w].pc = "commit"
         /\ worker'[w].redirect = worker[w].redirect
         /\ worker'[w].tx = <<>> /\ DOMAIN worker'[w].tx = {} /\ Busy(w)
         /\ rules' = rules /\ conf' = conf /\ queued' = queued /\ request' = request
         /\ trouble' = trouble \cup {"failure"}
<1>1. worker[w] \in States
  BY TransactionFacts
<1>2. CASE BeginFails(w)
  <2> DEFINE s == [worker[w] EXCEPT !.pc = "commit", !.failed = TRUE, !.tx = <<>>]
  <2>1. /\ s \in States /\ s.pc = "commit" /\ s.failed /\ s.tx = <<>> /\ s.task = worker[w].task
        /\ s.redirect = worker[w].redirect
    BY <1>1, IdleFacts DEF States
  <2>2. worker' = [worker EXCEPT ![w] = s] /\ worker[w].pc \in {"begin", "mark"}
    BY <1>2 DEF BeginFails
  <2> HIDE DEF s
  <2>3. /\ worker' \in [Workers -> States] /\ worker'[w] = s
        /\ \A v \in Workers : v # w => worker'[v] = worker[v]
    BY <2>1, <2>2 DEF Shape
  <2>4. /\ rules' = rules /\ conf' = conf /\ queued' = queued /\ request' = request
        /\ trouble' = trouble \cup {"failure"}
    BY <1>2 DEF BeginFails
  <2>5. QED
    BY <2>1, <2>2, <2>3, <2>4, IdleFacts DEF Busy
<1>3. CASE \E p \in Proxies : CommitFails(w, p)
  <2> DEFINE s == [worker[w] EXCEPT !.tx = <<>>, !.failed = TRUE]
  <2>1. /\ s \in States /\ s.pc = worker[w].pc /\ s.failed /\ s.tx = <<>> /\ s.task = worker[w].task
        /\ s.redirect = worker[w].redirect
    BY <1>1, IdleFacts DEF States
  <2>2. worker' = [worker EXCEPT ![w] = s] /\ worker[w].pc = "commit"
    BY <1>3 DEF CommitFails
  <2> HIDE DEF s
  <2>3. /\ worker' \in [Workers -> States] /\ worker'[w] = s
        /\ \A v \in Workers : v # w => worker'[v] = worker[v]
    BY <2>1, <2>2 DEF Shape
  <2>4. /\ rules' = rules /\ conf' = conf /\ queued' = queued /\ request' = request
        /\ trouble' = trouble \cup {"failure"}
    BY <1>3 DEF CommitFails
  <2>5. QED
    BY <2>1, <2>2, <2>3, <2>4, IdleFacts DEF Busy
<1>4. QED
  BY <1>2, <1>3

(* A worker is idle again. *)
LEMMA EndEffect ==
  ASSUME Shape, NEW w \in Workers,
         FinishApply(w) \/ FinishDelete(w) \/ FinishRedirect(w) \/ SaveFails(w)
  PROVE  /\ worker' \in [Workers -> States]
         /\ \A v \in Workers : v # w => worker'[v] = worker[v]
         /\ worker'[w] = Idle /\ conf' = conf /\ request' = request
         /\ Done(w) /\ Busy(w)
<1>1. worker' = [worker EXCEPT ![w] = Idle] /\ conf' = conf /\ request' = request /\ Done(w)
  BY DEF FinishApply, FinishDelete, FinishRedirect, SaveFails, Finish
<1>2. QED
  BY <1>1, IdleFacts DEF Shape, Done, Busy

(* UpdateHttpsRedirectStatus takes the row's lock, and nothing else. *)
LEMMA MarkEffect ==
  ASSUME Shape, NEW w \in Workers, MarkRedirect(w)
  PROVE  /\ worker' \in [Workers -> States]
         /\ \A v \in Workers : v # w => worker'[v] = worker[v]
         /\ worker'[w].task = worker[w].task /\ worker'[w].failed = worker[w].failed
         /\ worker'[w].tx = worker[w].tx /\ worker'[w].pc = "commit" /\ Busy(w)
         /\ worker'[w].redirect = worker[w].redirect
<1>1. worker[w] \in States
  BY TransactionFacts
<1> DEFINE s == [worker[w] EXCEPT !.pc = "commit"]
<1>2. /\ s \in States /\ s.task = worker[w].task /\ s.failed = worker[w].failed /\ s.tx = worker[w].tx
      /\ s.pc = "commit" /\ s.redirect = worker[w].redirect
  BY <1>1 DEF States
<1>3. worker' = [worker EXCEPT ![w] = s] /\ worker[w].pc = "mark"
  BY DEF MarkRedirect
<1> HIDE DEF s
<1>4. QED
  BY <1>2, <1>3 DEF Shape, Busy

(* A task that is out of date is done (process_ingress_rule_apply_request.go:25-32, *)
(* process_ingress_rule_delete_request.go:20-30); any other one runs.               *)
LEMMA StartEffect ==
  ASSUME Shape, NEW w \in Workers, NEW t \in Tasks, Start(w, t)
  PROVE  /\ worker[w] = Idle /\ ~Busy(w)
         /\ worker' \in [Workers -> States]
         /\ \A v \in Workers : v # w => worker'[v] = worker[v]
         /\ \/ ~Wanted(t) /\ worker' = worker /\ trouble' = trouble
            \/ /\ Wanted(t)
               /\ worker'[w].task = t /\ worker'[w].pc = "begin" /\ ~worker'[w].failed
               /\ DOMAIN worker'[w].tx = {}
               /\ worker'[w].redirect = rules[t.rule].redirect
               /\ trouble' = IF \E v \in Workers : worker[v].task.rule = t.rule
                        THEN trouble \cup {"overlap"} ELSE trouble
<1>1. worker[w] = Idle /\ ~Busy(w)
  BY IdleFacts DEF Start, Busy
<1>2. CASE ~Wanted(t)
  BY <1>1, <1>2 DEF Start, Shape
<1>3. CASE Wanted(t)
  <2> DEFINE s == [Idle EXCEPT !.pc = "begin", !.task = t, !.redirect = rules[t.rule].redirect]
  <2>1. rules[t.rule].redirect \in BOOLEAN
    BY <1>3, RowFacts DEF Wanted, Live
  <2>2. /\ s \in States /\ s.task = t /\ s.pc = "begin" /\ ~s.failed /\ DOMAIN s.tx = {}
        /\ s.redirect = rules[t.rule].redirect
    BY <2>1, IdleFacts DEF States
  <2>3. worker' = [worker EXCEPT ![w] = s]
    BY <1>3 DEF Start
  <2> HIDE DEF s
  <2>4. QED
    BY <1>1, <1>3, <2>2, <2>3 DEF Start, Shape
<1>4. QED
  BY <1>2, <1>3

(* The status of a row. *)
Statuses == {"pending", "applied", "failed", "deleting", "gone"}

(* One row has another status, or another redirect. *)
LEMMA RowChanges ==
  ASSUME Shape, NEW id \in DOMAIN rules, NEW row \in Rules, row.input = rules[id].input,
         rules' = [rules EXCEPT ![id] = row]
  PROVE  /\ rules' \in Seq(Rules) /\ DOMAIN rules' = DOMAIN rules /\ Len(rules') = Len(rules)
         /\ rules'[id] = row
         /\ \A other \in DOMAIN rules : other # id => rules'[other] = rules[other]
<1>1. rules \in Seq(Rules)
  BY DEF Shape
<1>2. QED
  BY <1>1

(* UpdateStatus writes the status alone. *)
LEMMA StatusChanges ==
  ASSUME Shape, NEW id \in DOMAIN rules, NEW s \in Statuses,
         rules' = [rules EXCEPT ![id].status = s]
  PROVE  /\ rules' \in Seq(Rules) /\ DOMAIN rules' = DOMAIN rules /\ Len(rules') = Len(rules)
         /\ rules'[id].input = rules[id].input /\ rules'[id].status = s
         /\ rules'[id].redirect = rules[id].redirect
         /\ \A other \in DOMAIN rules : other # id => rules'[other] = rules[other]
<1> DEFINE row == [rules[id] EXCEPT !.status = s]
<1>1. row \in Rules /\ row.input = rules[id].input /\ row.status = s /\ row.redirect = rules[id].redirect
  BY RowFacts DEF Rules, Statuses
<1>2. rules' = [rules EXCEPT ![id] = row]
  OBVIOUS
<1> HIDE DEF row
<1>3. QED
  BY <1>1, <1>2, RowChanges

(* The redirect task writes the redirect alone. *)
LEMMA RedirectChanges ==
  ASSUME Shape, NEW id \in DOMAIN rules, NEW on \in BOOLEAN,
         rules' = [rules EXCEPT ![id].redirect = on]
  PROVE  /\ rules' \in Seq(Rules) /\ DOMAIN rules' = DOMAIN rules /\ Len(rules') = Len(rules)
         /\ rules'[id].input = rules[id].input /\ rules'[id].status = rules[id].status
         /\ rules'[id].redirect = on
         /\ \A other \in DOMAIN rules : other # id => rules'[other] = rules[other]
<1> DEFINE row == [rules[id] EXCEPT !.redirect = on]
<1>1. /\ row \in Rules /\ row.input = rules[id].input /\ row.status = rules[id].status
      /\ row.redirect = on
  BY RowFacts DEF Rules
<1>2. rules' = [rules EXCEPT ![id] = row]
  OBVIOUS
<1> HIDE DEF row
<1>3. QED
  BY <1>1, <1>2, RowChanges

(* Create adds one row, pending, under an id of its own. *)
LEMMA RowIsInserted ==
  ASSUME Shape, RequestsAreSound, NEW r \in Resolvers, Insert(r)
  PROVE  /\ rules' \in Seq(Rules) /\ Len(rules') = Len(rules) + 1
         /\ DOMAIN rules' = DOMAIN rules \cup {Len(rules) + 1} /\ Len(rules) + 1 \notin DOMAIN rules
         /\ \A id \in DOMAIN rules : rules'[id] = rules[id]
         /\ rules'[Len(rules) + 1].input = request[r].input
         /\ rules'[Len(rules) + 1].status = "pending" /\ ~rules'[Len(rules) + 1].redirect
         /\ request[r].input \in Inputs
<1> DEFINE row == [input |-> request[r].input, status |-> "pending", redirect |-> FALSE]
<1>1. request[r].input \in Inputs
  BY DEF Insert, RequestsAreSound
<1>2. row \in Rules /\ row.input = request[r].input /\ row.status = "pending" /\ ~row.redirect
  BY <1>1 DEF Rules
<1>3. rules \in Seq(Rules) /\ rules' = Append(rules, row)
  BY DEF Insert, Shape
<1> HIDE DEF row
<1>4. QED
  BY <1>1, <1>2, <1>3

(* What a step does to a row. *)
LEMMA RowsStep ==
  ASSUME Shape, RequestsAreSound, WorkersAreSound, Next \/ UNCHANGED vars
  PROVE  /\ rules' \in Seq(Rules)
         /\ \A id \in DOMAIN rules :
              /\ id \in DOMAIN rules'
              /\ rules'[id].input = rules[id].input
              /\ ~Live(id) => ~Live(id)'
              /\ \/ Live(id) <=> Live(id)'
                 \/ \E w \in Workers : /\ FinishDelete(w) /\ ~worker[w].failed
                                       /\ worker[w].task.rule = id
              /\ \/ Deleting(id) => Deleting(id)'
                 \/ \E w \in Workers : /\ FinishApply(w) \/ FinishDelete(w)
                                       /\ worker[w].task.rule = id
              /\ \/ rules'[id].status = "applied" => rules[id].status = "applied"
                 \/ \E w \in Workers : /\ FinishApply(w) /\ ~worker[w].failed
                                       /\ worker[w].task.rule = id
              /\ \/ Deleting(id)' => Deleting(id)
                 \/ \E r \in Resolvers : DeleteIngressRule(r, id)
              /\ \/ rules'[id].redirect = rules[id].redirect
                 \/ \E w \in Workers : /\ FinishRedirect(w) /\ ~worker[w].failed
                                       /\ worker[w].task.rule = id
                                       /\ rules'[id].redirect = worker[w].task.on
         /\ \/ DOMAIN rules' = DOMAIN rules /\ Len(rules') = Len(rules)
            \/ \E r \in Resolvers : Insert(r)
<1> DEFINE Kept(id) ==
             /\ id \in DOMAIN rules'
             /\ rules'[id].input = rules[id].input
             /\ ~Live(id) => ~Live(id)'
             /\ \/ Live(id) <=> Live(id)'
                \/ \E w \in Workers : /\ FinishDelete(w) /\ ~worker[w].failed
                                      /\ worker[w].task.rule = id
             /\ \/ Deleting(id) => Deleting(id)'
                \/ \E w \in Workers : /\ FinishApply(w) \/ FinishDelete(w)
                                      /\ worker[w].task.rule = id
             /\ \/ rules'[id].status = "applied" => rules[id].status = "applied"
                \/ \E w \in Workers : /\ FinishApply(w) /\ ~worker[w].failed
                                      /\ worker[w].task.rule = id
             /\ \/ Deleting(id)' => Deleting(id)
                \/ \E r \in Resolvers : DeleteIngressRule(r, id)
             /\ \/ rules'[id].redirect = rules[id].redirect
                \/ \E w \in Workers : /\ FinishRedirect(w) /\ ~worker[w].failed
                                      /\ worker[w].task.rule = id
                                      /\ rules'[id].redirect = worker[w].task.on
           Goal == /\ rules' \in Seq(Rules)
                   /\ \A id \in DOMAIN rules : Kept(id)
                   /\ \/ DOMAIN rules' = DOMAIN rules /\ Len(rules') = Len(rules)
                      \/ \E r \in Resolvers : Insert(r)
<1>1. CASE rules' = rules
  BY <1>1 DEF Shape, Live, Deleting
<1>2. ASSUME NEW r \in Resolvers, Insert(r) PROVE Goal
  BY <1>2, RowIsInserted DEF Live, Deleting
<1>3. ASSUME NEW r \in Resolvers, NEW id \in Ids, DeleteIngressRule(r, id) PROVE Goal
  <2>1. id \in DOMAIN rules /\ Live(id)
    BY <1>3 DEF DeleteIngressRule, Live
  <2>2. /\ rules' \in Seq(Rules) /\ DOMAIN rules' = DOMAIN rules /\ Len(rules') = Len(rules)
         /\ rules'[id].input = rules[id].input /\ rules'[id].status = "deleting"
         /\ rules'[id].redirect = rules[id].redirect
         /\ \A other \in DOMAIN rules : other # id => rules'[other] = rules[other]
    BY <1>3, <2>1, StatusChanges DEF DeleteIngressRule, Statuses
  <2>3. \A other \in DOMAIN rules : Kept(other)
    BY <1>3, <2>1, <2>2 DEF Live, Deleting
  <2>4. QED
    BY <2>2, <2>3
<1>4. ASSUME NEW w \in Workers, FinishApply(w) \/ FinishDelete(w) PROVE Goal
  <2> DEFINE t == worker[w].task.rule
             s == IF FinishApply(w) THEN (IF worker[w].failed THEN "failed" ELSE "applied")
                                    ELSE (IF worker[w].failed THEN "failed" ELSE "gone")
  <2>1. CASE rules' = rules
    BY <1>1, <2>1
  <2>2. CASE rules' # rules
    <3>1. FinishApply(w) => ~FinishDelete(w)
      BY DEF FinishApply, FinishDelete
    <3>2. t \in DOMAIN rules /\ Live(t) /\ rules' = [rules EXCEPT ![t].status = s] /\ s \in Statuses
      BY <1>4, <2>2, <3>1 DEF FinishApply, FinishDelete, SetStatus, Statuses, Live
    <3> HIDE DEF s
    <3>a. PICK i, u : i = t /\ u = s
      OBVIOUS
    <3>b. i \in DOMAIN rules /\ u \in Statuses /\ rules' = [rules EXCEPT ![i].status = u]
      BY <3>2, <3>a
    <3>c. /\ rules' \in Seq(Rules) /\ DOMAIN rules' = DOMAIN rules /\ Len(rules') = Len(rules)
          /\ rules'[i].input = rules[i].input /\ rules'[i].status = u
          /\ rules'[i].redirect = rules[i].redirect
          /\ \A other \in DOMAIN rules : other # i => rules'[other] = rules[other]
      BY <3>b, StatusChanges
    <3>3. /\ rules' \in Seq(Rules) /\ DOMAIN rules' = DOMAIN rules /\ Len(rules') = Len(rules)
          /\ rules'[t].input = rules[t].input /\ rules'[t].status = s
          /\ rules'[t].redirect = rules[t].redirect
          /\ \A other \in DOMAIN rules : other # t => rules'[other] = rules[other]
      BY <3>a, <3>c
    <3>4. \A other \in DOMAIN rules : other # t => Kept(other)
      BY <3>3 DEF Live, Deleting
    <3>5. \A id \in DOMAIN rules : Kept(id)
      <4>1. PICK k \in DOMAIN rules : k = t
        BY <3>2
      <4>2. Live(k) /\ (Live(k)' <=> s # "gone") /\ ~Deleting(k)'
        BY <3>2, <3>3, <4>1, <1>4 DEF Live, Deleting, s
      <4>3. /\ s = "gone" => FinishDelete(w) /\ ~worker[w].failed
            /\ s = "applied" => FinishApply(w) /\ ~worker[w].failed
        BY <1>4 DEF s
      <4>4. Kept(k)
        BY <1>4, <3>3, <4>1, <4>2, <4>3
      <4>5. QED
        BY <3>4, <4>1, <4>4
    <3>6. QED
      BY <3>3, <3>5
  <2>3. QED
    BY <2>1, <2>2
<1>5. ASSUME NEW w \in Workers, FinishRedirect(w) PROVE Goal
  <2>1. CASE rules' = rules
    BY <1>1, <2>1
  <2>2. CASE rules' # rules
    <3>1. PICK id \in DOMAIN rules : id = worker[w].task.rule
      BY <1>5, <2>2 DEF FinishRedirect, Live
    <3>2. worker[w].task.on \in BOOLEAN
      BY <1>5, TaskFacts DEF FinishRedirect, Done, Busy
    <3>3. rules' = [rules EXCEPT ![id].redirect = worker[w].task.on] /\ ~worker[w].failed
      BY <1>5, <2>2, <3>1 DEF FinishRedirect
    <3>4. /\ rules' \in Seq(Rules) /\ DOMAIN rules' = DOMAIN rules /\ Len(rules') = Len(rules)
          /\ rules'[id].input = rules[id].input /\ rules'[id].status = rules[id].status
          /\ rules'[id].redirect = worker[w].task.on
          /\ \A other \in DOMAIN rules : other # id => rules'[other] = rules[other]
      BY <3>2, <3>3, RedirectChanges
    <3>5. \A other \in DOMAIN rules : other # id => Kept(other)
      BY <3>4 DEF Live, Deleting
    <3>6. Kept(id)
      BY <1>5, <3>1, <3>3, <3>4 DEF Live, Deleting
    <3>7. QED
      BY <3>4, <3>5, <3>6
  <2>3. QED
    BY <2>1, <2>2
<1>6. UNCHANGED vars => rules' = rules
  BY DEF vars
<1>7. Crash => rules' = rules
  BY DEF Crash
<1>8. \A w \in Workers : Redeliver(w) \/ (\E t \in Tasks : Start(w, t)) => rules' = rules
  BY DEF Redeliver, Start
<1>9. ASSUME NEW r \in Resolvers, Resolve(r) PROVE Goal
  <2>1. ASSUME NEW i \in Inputs, ValidateNew(r, i) PROVE rules' = rules
    BY <2>1 DEF ValidateNew
  <2>2. Enqueue(r) => rules' = rules
    BY DEF Enqueue
  <2>3. ASSUME NEW id \in Ids, RecreateIngressRule(r, id) \/ EnableHTTPSRedirect(r, id) \/ DisableHTTPSRedirect(r, id)
        PROVE  rules' = rules
    BY <2>3 DEF RecreateIngressRule, EnableHTTPSRedirect, DisableHTTPSRedirect
  <2>4. QED
    BY <1>1, <1>2, <1>3, <1>9, <2>1, <2>2, <2>3 DEF Resolve
<1>10. ASSUME NEW w \in Workers, Work(w) PROVE Goal
  <2>1. ASSUME NEW p \in Proxies, Begin(w, p) \/ BeginWithoutId(w, p) \/ CommitTransaction(w, p) \/ CommitFails(w, p)
        PROVE  rules' = rules
    BY <2>1 DEF Begin, BeginWithoutId, CommitTransaction, CommitFails
  <2>2. BeginFails(w) \/ MarkRedirect(w) \/ SaveFails(w) => rules' = rules
    BY DEF BeginFails, MarkRedirect, SaveFails
  <2>3. QED
    BY <1>1, <1>4, <1>5, <1>10, <2>1, <2>2 DEF Work
<1>11. QED
  BY <1>1, <1>6, <1>7, <1>8, <1>9, <1>10 DEF Next

(* What a step does to a worker v: it goes on with its task, begins one, or has its   *)
(* task reach the configuration of proxy p.                                           *)
Same(v)       == /\ Busy(v) /\ Busy(v)' /\ worker'[v].task = worker[v].task
                 /\ worker'[v].redirect = worker[v].redirect
InputsStay    == \A id \in DOMAIN rules : id \in DOMAIN rules' /\ rules'[id].input = rules[id].input
Started(v)    == \E t \in Tasks : Start(v, t) /\ Wanted(t) /\ worker'[v].task = t
Reaches(w, p) == (CommitTransaction(w, p) /\ ~Direct(w)) \/ (Begin(w, p) /\ Direct(w))

(* What a step may do to the workers and the proxies. *)
Moves ==
  /\ worker' \in [Workers -> States]
  /\ conf' \in [Proxies -> Confs]
  /\ \A v \in Workers :
       /\ ~Busy(v)' => worker'[v] = Idle
       /\ Busy(v)' => Same(v) \/ Started(v)
       /\ worker'[v].failed => worker'[v].pc = "commit" /\ DOMAIN worker'[v].tx = {}
       /\ worker'[v].pc = "mark" => worker'[v].task.kind = "redirect"
  /\ \A p \in Proxies : conf'[p] = conf[p] \/ \E w \in Workers : Reaches(w, p)
  /\ \A v \in Workers, p \in Proxies :
       /\ DoneAt(v, p)' =>
            Same(v) /\ (DoneAt(v, p) \/ Reaches(v, p) \/ worker[v].task.kind = "redirect")
       /\ Current(v, p)' =>
            \/ /\ Same(v) /\ Current(v, p)
               /\ worker'[v].tx[p].conf = worker[v].tx[p].conf
               /\ conf'[p] = conf[p] \/ \E w \in Workers : Begin(w, p) /\ Direct(w)
            \/ /\ Begin(v, p) /\ ~Direct(v) /\ Same(v) /\ conf' = conf
               /\ worker'[v].tx[p].conf = Edited(conf[p], v)

(* Nothing changes what a running task is about: protocol and port of a row are fixed. *)
LEMMA DirectStays ==
  ASSUME WorkersAreSound, InputsStay, NEW v \in Workers, Same(v)
  PROVE  /\ Direct(v)' <=> Direct(v)
         /\ worker[v].task.rule \in DOMAIN rules
         /\ rules'[worker'[v].task.rule].input = rules[worker[v].task.rule].input
<1>1. worker[v].task.rule \in DOMAIN rules /\ worker'[v].task = worker[v].task
  BY DEF WorkersAreSound, Same
<1>2. rules'[worker'[v].task.rule].input = rules[worker[v].task.rule].input
  BY <1>1 DEF InputsStay
<1>3. QED
  BY <1>1, <1>2 DEF Direct

(* Steps of the requests, ends of tasks and crashes move the workers in this way. *)
LEMMA QuietMoves ==
  ASSUME Shape, WorkersAreSound, InputsStay, conf' = conf, worker' \in [Workers -> States],
         \A v \in Workers : worker'[v] = worker[v] \/ worker'[v] = Idle
  PROVE  Moves
<1>1. conf' \in [Proxies -> Confs]
  BY DEF Shape
<1>2. ASSUME NEW v \in Workers, worker'[v] = Idle
      PROVE  /\ ~Busy(v)' /\ ~worker'[v].failed /\ worker'[v].pc # "mark"
             /\ \A p \in Proxies : ~DoneAt(v, p)' /\ ~Current(v, p)'
  <2>1. ~Busy(v)' /\ ~worker'[v].failed /\ worker'[v].pc = "idle"
    BY <1>2, IdleFacts DEF Busy
  <2>2. QED
    BY <2>1 DEF DoneAt, Current
<1>3. ASSUME NEW v \in Workers, worker'[v] = worker[v]
      PROVE  /\ ~Busy(v)' => worker'[v] = Idle
             /\ Busy(v)' => Same(v)
             /\ worker'[v].failed => worker'[v].pc = "commit" /\ DOMAIN worker'[v].tx = {}
             /\ worker'[v].pc = "mark" => worker'[v].task.kind = "redirect"
             /\ \A p \in Proxies : /\ DoneAt(v, p)' => Same(v) /\ DoneAt(v, p)
                                   /\ Current(v, p)' => Same(v) /\ Current(v, p)
  <2>1. Busy(v)' <=> Busy(v)
    BY <1>3 DEF Busy
  <2>2. Busy(v) => Same(v) /\ (Direct(v)' <=> Direct(v))
    <3>1. Busy(v) => Same(v)
      BY <1>3, <2>1 DEF Same
    <3>2. QED
      BY <3>1, DirectStays
  <2>3. Opened(v)' = Opened(v)
    BY <1>3 DEF Opened
  <2>4. \A p \in Proxies : DoneAt(v, p)' => Same(v) /\ DoneAt(v, p)
    BY <1>3, <2>1, <2>2, <2>3 DEF DoneAt
  <2>5. \A p \in Proxies : Current(v, p)' => Same(v) /\ Current(v, p)
    BY <1>3, <2>1, <2>2, <2>3 DEF Current
  <2>6. QED
    BY <1>3, <2>1, <2>2, <2>4, <2>5 DEF WorkersAreSound, Opened
<1>4. QED
  <2>1. ASSUME NEW v \in Workers
        PROVE  /\ ~Busy(v)' => worker'[v] = Idle
               /\ Busy(v)' => Same(v) \/ Started(v)
               /\ worker'[v].failed => worker'[v].pc = "commit" /\ DOMAIN worker'[v].tx = {}
               /\ worker'[v].pc = "mark" => worker'[v].task.kind = "redirect"
               /\ \A p \in Proxies : /\ DoneAt(v, p)' => Same(v) /\ DoneAt(v, p)
                                     /\ Current(v, p)' => /\ Same(v) /\ Current(v, p)
                                                          /\ worker'[v].tx[p].conf = worker[v].tx[p].conf
    <3>1. CASE worker'[v] = Idle
      BY <1>2, <3>1
    <3>2. CASE worker'[v] = worker[v]
      BY <1>3, <3>2
    <3>3. QED
      BY <3>1, <3>2
  <2>2. QED
    BY <1>1, <2>1 DEF Moves

(* The rest of the workers when one of them steps. *)
LEMMA OthersMove ==
  ASSUME Shape, WorkersAreSound, InputsStay, NEW v \in Workers, worker'[v] = worker[v]
  PROVE  /\ ~Busy(v)' => worker'[v] = Idle
         /\ Busy(v)' => Same(v)
         /\ worker'[v].failed => worker'[v].pc = "commit" /\ DOMAIN worker'[v].tx = {}
         /\ worker'[v].pc = "mark" => worker'[v].task.kind = "redirect"
         /\ \A p \in Proxies : /\ DoneAt(v, p)' => Same(v) /\ DoneAt(v, p)
                               /\ Current(v, p)' => /\ Same(v) /\ Current(v, p)
                                                    /\ worker'[v].tx[p].conf = worker[v].tx[p].conf
<1>1. Busy(v)' <=> Busy(v)
  BY DEF Busy
<1>2. Busy(v) => Same(v) /\ (Direct(v)' <=> Direct(v))
  <2>1. Busy(v) => Same(v)
    BY <1>1 DEF Same
  <2>2. QED
    BY <2>1, DirectStays
<1>3. Opened(v)' = Opened(v)
  BY DEF Opened
<1>4. \A p \in Proxies : DoneAt(v, p)' => Same(v) /\ DoneAt(v, p)
  BY <1>1, <1>2, <1>3 DEF DoneAt
<1>5. \A p \in Proxies : Current(v, p)' => Same(v) /\ Current(v, p)
  BY <1>1, <1>2, <1>3 DEF Current
<1>6. QED
  BY <1>1, <1>2, <1>4, <1>5 DEF WorkersAreSound, Opened

(* So do the beginning of a task, *)
LEMMA StartMoves ==
  ASSUME Shape, WorkersAreSound, InputsStay, NEW w \in Workers, NEW t \in Tasks, Start(w, t)
  PROVE  Moves
<1>1. conf' = conf /\ conf' \in [Proxies -> Confs]
  BY DEF Start, Shape
<1>2. CASE ~Wanted(t)
  <2>1. worker' = worker
    BY <1>2, StartEffect
  <2>2. QED
    BY <1>1, <2>1, QuietMoves DEF Shape
<1>3. CASE Wanted(t)
  <2>1. /\ worker' \in [Workers -> States]
        /\ \A v \in Workers : v # w => worker'[v] = worker[v]
        /\ worker'[w].task = t /\ worker'[w].pc = "begin" /\ ~worker'[w].failed
        /\ DOMAIN worker'[w].tx = {}
    BY <1>3, StartEffect
  <2>2. Started(w) /\ Busy(w)'
    BY <1>3, <2>1 DEF Started, Busy
  <2>3. \A p \in Proxies : ~DoneAt(w, p)' /\ ~Current(w, p)'
    BY <2>1 DEF DoneAt, Current, Opened
  <2>4. \A v \in Workers : v # w => worker'[v] = worker[v]
    BY <2>1
  <2>5. QED
    BY <1>1, <2>1, <2>2, <2>3, <2>4, OthersMove DEF Moves
<1>4. QED
  BY <1>2, <1>3

(* a failure, after which nothing is committed any more, *)
LEMMA FailMoves ==
  ASSUME Shape, WorkersAreSound, InputsStay, NEW w \in Workers,
         BeginFails(w) \/ \E p \in Proxies : CommitFails(w, p)
  PROVE  Moves
<1>1. /\ worker' \in [Workers -> States]
      /\ \A v \in Workers : v # w => worker'[v] = worker[v]
      /\ worker'[w].task = worker[w].task /\ worker'[w].failed /\ worker'[w].pc = "commit"
      /\ DOMAIN worker'[w].tx = {} /\ Busy(w) /\ conf' = conf
      /\ worker'[w].redirect = worker[w].redirect
  BY FailEffect
<1>2. Same(w) /\ Busy(w)'
  BY <1>1 DEF Same, Busy
<1>3. \A p \in Proxies : ~DoneAt(w, p)' /\ ~Current(w, p)'
  BY <1>1 DEF DoneAt, Current, Opened
<1>4. conf' \in [Proxies -> Confs]
  BY <1>1 DEF Shape
<1>5. QED
  BY <1>1, <1>2, <1>3, <1>4, OthersMove DEF Moves

(* the redirect's write to the database, *)
LEMMA MarkMoves ==
  ASSUME Shape, WorkersAreSound, InputsStay, NEW w \in Workers, MarkRedirect(w)
  PROVE  Moves
<1>1. /\ worker' \in [Workers -> States]
      /\ \A v \in Workers : v # w => worker'[v] = worker[v]
      /\ worker'[w].task = worker[w].task /\ worker'[w].failed = worker[w].failed
      /\ worker'[w].tx = worker[w].tx /\ worker'[w].pc = "commit" /\ Busy(w)
      /\ worker'[w].redirect = worker[w].redirect
  BY MarkEffect
<1>2. conf' = conf /\ conf' \in [Proxies -> Confs] /\ worker[w].pc = "mark"
  BY DEF MarkRedirect, Shape
<1>3. Same(w) /\ worker[w].task.kind = "redirect" /\ Busy(w)' /\ ~worker'[w].failed
  BY <1>1, <1>2 DEF Same, Busy, WorkersAreSound
<1>4. \A p \in Proxies : Current(w, p)' => Current(w, p) /\ worker'[w].tx[p].conf = worker[w].tx[p].conf
  BY <1>1, <1>3, DirectStays DEF Current, Opened
<1>5. QED
  BY <1>1, <1>2, <1>3, <1>4, OthersMove DEF Moves

(* a new transaction with its edit, *)
LEMMA BeginMoves ==
  ASSUME Shape, WorkersAreSound, InputsStay, NEW w \in Workers, NEW p \in Proxies, Begin(w, p)
  PROVE  Moves
<1> DEFINE tr == [conf |-> Edited(conf[p], w), stale |-> FALSE]
<1>1. Busy(w) /\ worker[w].pc = "begin" /\ p \notin Opened(w) /\ Open(w, p, tr)
  BY DEF Begin, Busy
<1>2. conf[p] \in Confs /\ Edited(conf[p], w) \in Confs
  BY <1>1, EditedIs DEF Shape
<1>3. tr \in [conf : Confs, stale : BOOLEAN] /\ tr.conf = Edited(conf[p], w) /\ ~tr.stale
  BY <1>2
<1> HIDE DEF tr
<1>4. /\ worker' \in [Workers -> States]
      /\ \A v \in Workers : v # w => worker'[v] = worker[v]
      /\ worker'[w].task = worker[w].task /\ worker'[w].failed = worker[w].failed
      /\ worker'[w].redirect = worker[w].redirect
      /\ DOMAIN worker'[w].tx = Opened(w) \cup {p}
      /\ worker'[w].tx[p] = tr
      /\ \A q \in Opened(w) : q # p => worker'[w].tx[q] = worker[w].tx[q]
      /\ worker'[w].pc = IF Opened(w) \cup {p} = Proxies THEN After(w) ELSE worker[w].pc
  BY <1>1, <1>3, OpenEffect
<1>5. conf' = IF Direct(w) THEN [conf EXCEPT ![p] = Edited(conf[p], w)] ELSE conf
  BY DEF Begin
<1>6. /\ conf' \in [Proxies -> Confs]
      /\ \A q \in Proxies : q # p => conf'[q] = conf[q]
      /\ ~Direct(w) => conf' = conf
  BY <1>2, <1>5 DEF Shape
<1>7. /\ worker'[w].pc \in {"begin", "mark", "commit"} /\ Same(w)
      /\ worker'[w].pc = "mark" => worker'[w].task.kind = "redirect"
      /\ ~worker'[w].failed
  BY <1>1, <1>4 DEF After, Same, Busy, WorkersAreSound
<1>8. Opened(w)' = Opened(w) \cup {p} /\ (Direct(w)' <=> Direct(w))
  BY <1>4, <1>7, DirectStays DEF Opened
<1>9. ASSUME NEW q \in Proxies
      PROVE  /\ DoneAt(w, q)' => DoneAt(w, q) \/ Reaches(w, q)
             /\ Current(w, q)' =>
                  \/ /\ Current(w, q) /\ worker'[w].tx[q].conf = worker[w].tx[q].conf
                     /\ conf'[q] = conf[q]
                  \/ /\ Begin(w, q) /\ ~Direct(w) /\ conf' = conf
                     /\ worker'[w].tx[q].conf = Edited(conf[q], w)
  <2>1. CASE q = p
    <3>1. DoneAt(w, q)' => Reaches(w, q)
      <4>1. DoneAt(w, q)' => Direct(w)
        BY <1>8, <2>1 DEF DoneAt
      <4>2. QED
        BY <2>1, <4>1 DEF Reaches
    <3>2. Current(w, q)' => ~Direct(w)
      BY <1>8 DEF Current
    <3>3. QED
      BY <1>3, <1>4, <1>6, <2>1, <3>1, <3>2
  <2>2. CASE q # p
    <3>1. q \in Opened(w)' <=> q \in Opened(w)
      BY <1>8, <2>2
    <3>2. Current(w, q)' => Current(w, q) /\ worker'[w].tx[q].conf = worker[w].tx[q].conf
      BY <1>1, <1>4, <1>8, <2>2, <3>1 DEF Current
    <3>3. DoneAt(w, q)' => DoneAt(w, q)
      <4>1. CASE worker'[w].pc = "commit"
        <5>1. Opened(w) \cup {p} = Proxies
          BY <1>1, <1>4, <4>1
        <5>2. q \in Opened(w)
          BY <2>2, <5>1
        <5>3. QED
          BY <1>1, <1>4, <1>8, <3>1, <5>2 DEF DoneAt
      <4>2. CASE worker'[w].pc # "commit"
        BY <1>1, <1>4, <1>8, <3>1, <4>2 DEF DoneAt
      <4>3. QED
        BY <4>1, <4>2
    <3>4. QED
      BY <1>6, <2>2, <3>2, <3>3
  <2>3. QED
    BY <2>1, <2>2
<1>10. \A q \in Proxies : conf'[q] = conf[q] \/ (Begin(w, q) /\ Direct(w))
  BY <1>6
<1>11. ASSUME NEW v \in Workers
       PROVE  /\ ~Busy(v)' => worker'[v] = Idle
              /\ Busy(v)' => Same(v) \/ Started(v)
              /\ worker'[v].failed => worker'[v].pc = "commit" /\ DOMAIN worker'[v].tx = {}
              /\ worker'[v].pc = "mark" => worker'[v].task.kind = "redirect"
              /\ \A q \in Proxies :
                   /\ DoneAt(v, q)' => Same(v) /\ (DoneAt(v, q) \/ Reaches(v, q))
                   /\ Current(v, q)' =>
                        \/ /\ Same(v) /\ Current(v, q) /\ worker'[v].tx[q].conf = worker[v].tx[q].conf
                        \/ /\ Begin(v, q) /\ ~Direct(v) /\ Same(v) /\ conf' = conf
                           /\ worker'[v].tx[q].conf = Edited(conf[q], v)
  <2>1. CASE v = w
    BY <1>7, <1>9, <2>1 DEF Busy, Same
  <2>2. CASE v # w
    BY <1>4, <2>2, OthersMove
  <2>3. QED
    BY <2>1, <2>2
<1>12. \A q \in Proxies : conf'[q] = conf[q] \/ \E v \in Workers : Begin(v, q) /\ Direct(v)
  BY <1>10
<1>13. \A q \in Proxies : conf'[q] = conf[q] \/ \E v \in Workers : Reaches(v, q)
  BY <1>12 DEF Reaches
<1>14. QED
  BY <1>4, <1>6, <1>11, <1>12, <1>13 DEF Moves

(* a deletion without a transaction id (process_ingress_rule_delete_request.go:116-121), *)
LEMMA BeginWithoutIdMoves ==
  ASSUME Shape, WorkersAreSound, InputsStay, NEW w \in Workers, NEW p \in Proxies, BeginWithoutId(w, p)
  PROVE  Moves
<1> DEFINE tr == [conf |-> conf[p], stale |-> TRUE]
<1>1. /\ Busy(w) /\ worker[w].pc = "begin" /\ p \notin Opened(w) /\ Open(w, p, tr) /\ ~Direct(w)
      /\ conf' = conf
  BY DEF BeginWithoutId, Busy
<1>2. conf[p] \in Confs /\ conf' \in [Proxies -> Confs]
  BY <1>1 DEF Shape
<1>3. tr \in [conf : Confs, stale : BOOLEAN] /\ tr.stale
  BY <1>2
<1> HIDE DEF tr
<1>4. /\ worker' \in [Workers -> States]
      /\ \A v \in Workers : v # w => worker'[v] = worker[v]
      /\ worker'[w].task = worker[w].task /\ worker'[w].failed = worker[w].failed
      /\ worker'[w].redirect = worker[w].redirect
      /\ DOMAIN worker'[w].tx = Opened(w) \cup {p}
      /\ worker'[w].tx[p] = tr
      /\ \A q \in Opened(w) : q # p => worker'[w].tx[q] = worker[w].tx[q]
      /\ worker'[w].pc = IF Opened(w) \cup {p} = Proxies THEN After(w) ELSE worker[w].pc
  BY <1>1, <1>3, OpenEffect
<1>5. /\ worker'[w].pc \in {"begin", "mark", "commit"} /\ Same(w) /\ Busy(w)'
      /\ worker'[w].pc = "mark" => worker'[w].task.kind = "redirect"
      /\ ~worker'[w].failed
  BY <1>1, <1>4 DEF After, Same, Busy, WorkersAreSound
<1>6. Opened(w)' = Opened(w) \cup {p} /\ ~Direct(w)'
  BY <1>1, <1>4, <1>5, DirectStays DEF Opened
<1>7. ASSUME NEW q \in Proxies
      PROVE  /\ ~DoneAt(w, q)'
             /\ Current(w, q)' => Current(w, q) /\ worker'[w].tx[q].conf = worker[w].tx[q].conf
  <2>1. ~DoneAt(w, q)'
    <3>1. worker'[w].pc = "commit" => Opened(w)' = Proxies
      BY <1>1, <1>4, <1>6
    <3>2. QED
      BY <1>6, <3>1 DEF DoneAt
  <2>2. Current(w, q)' => Current(w, q) /\ worker'[w].tx[q].conf = worker[w].tx[q].conf
    BY <1>1, <1>3, <1>4, <1>6 DEF Current
  <2>3. QED
    BY <2>1, <2>2
<1>8. QED
  BY <1>1, <1>2, <1>4, <1>5, <1>7, OthersMove DEF Moves

(* and a commit, which makes the other transactions of the proxy stale. *)
LEMMA CommitMoves ==
  ASSUME Shape, WorkersAreSound, InputsStay, NEW w \in Workers, NEW p \in Proxies, CommitTransaction(w, p)
  PROVE  Moves
<1>1. /\ worker[w].pc = "commit" /\ p \in Opened(w) /\ ~worker[w].tx[p].stale /\ Busy(w)
      /\ conf' = IF Direct(w) THEN conf ELSE [conf EXCEPT ![p] = Committed(conf[p], worker[w].tx[p].conf)]
  BY DEF CommitTransaction, Busy
<1>2. /\ worker' \in [Workers -> States]
      /\ \A v \in Workers : /\ worker'[v].task = worker[v].task /\ worker'[v].pc = worker[v].pc
                            /\ worker'[v].failed = worker[v].failed
                            /\ worker'[v].redirect = worker[v].redirect
      /\ DOMAIN worker'[w].tx = Opened(w) \ {p}
      /\ \A q \in Opened(w) \ {p} : worker'[w].tx[q] = worker[w].tx[q]
      /\ \A v \in Workers : v # w =>
           /\ DOMAIN worker'[v].tx = Opened(v)
           /\ \A q \in Opened(v) : q # p => worker'[v].tx[q] = worker[v].tx[q]
           /\ p \in Opened(v) /\ ~Direct(v) /\ ~Direct(w) => worker'[v].tx[p].stale
           /\ Direct(v) \/ Direct(w) => worker'[v] = worker[v]
  BY CommitEffect
<1>3. conf[p] \in Confs /\ worker[w].tx[p].conf \in Confs
  BY <1>1, TransactionFacts DEF Shape
<1>4. /\ conf' \in [Proxies -> Confs]
      /\ \A q \in Proxies : q # p => conf'[q] = conf[q]
      /\ Direct(w) => conf' = conf
  BY <1>1, <1>3, CommittedIs DEF Shape
<1>5. \A v \in Workers : Busy(v) => Same(v) /\ (Direct(v)' <=> Direct(v))
  <2>1. \A v \in Workers : Busy(v) => Same(v)
    BY <1>2 DEF Busy, Same
  <2>2. QED
    BY <2>1, DirectStays
<1>6. ASSUME NEW v \in Workers, v # w, ~Busy(v)
      PROVE  worker'[v] = worker[v]
  <2>1. worker[v] = Idle /\ Opened(v) = {}
    BY <1>6, IdleFacts DEF WorkersAreSound, Opened
  <2>2. worker' = [u \in Workers |->
                  IF u = w THEN [worker[w] EXCEPT !.tx = [q \in Opened(w) \ {p} |-> @[q]]]
                  ELSE IF p \in Opened(u) /\ ~Direct(u) /\ ~Direct(w)
                       THEN [worker[u] EXCEPT !.tx[p].stale = TRUE]
                  ELSE worker[u]]
    BY DEF CommitTransaction
  <2>3. QED
    BY <1>6, <2>1, <2>2
<1>7. ASSUME NEW v \in Workers
      PROVE  /\ ~Busy(v)' => worker'[v] = Idle
             /\ Busy(v)' => Same(v)
             /\ worker'[v].failed => worker'[v].pc = "commit" /\ DOMAIN worker'[v].tx = {}
             /\ worker'[v].pc = "mark" => worker'[v].task.kind = "redirect"
  <2>1. Busy(v)' <=> Busy(v)
    BY <1>2 DEF Busy
  <2>2. ~worker[w].failed
    BY <1>1 DEF WorkersAreSound
  <2>3. worker[v].failed => worker[v].pc = "commit" /\ Opened(v) = {}
    BY DEF WorkersAreSound
  <2>4. worker[v].failed => v # w /\ DOMAIN worker'[v].tx = {}
    BY <1>2, <2>2, <2>3
  <2>5. ~Busy(v)' => worker'[v] = Idle
    <3>1. ~Busy(v)' => v # w
      BY <1>1, <2>1
    <3>2. QED
      BY <1>6, <2>1, <3>1 DEF WorkersAreSound
  <2>6. QED
    BY <1>2, <1>5, <2>1, <2>3, <2>4, <2>5 DEF WorkersAreSound
<1>8. \A v \in Workers : Opened(v)' = IF v = w THEN Opened(w) \ {p} ELSE Opened(v)
  BY <1>2 DEF Opened
<1>9. ASSUME NEW v \in Workers, NEW q \in Proxies, DoneAt(v, q)'
      PROVE  Same(v) /\ (DoneAt(v, q) \/ Reaches(v, q))
  <2>1. Busy(v) /\ Same(v) /\ (Direct(v)' <=> Direct(v)) /\ worker'[v].pc = worker[v].pc
        /\ worker'[v].failed = worker[v].failed
    BY <1>2, <1>5, <1>9 DEF DoneAt, Busy
  <2>2. CASE v = w /\ q = p
    BY <1>1, <2>1, <2>2, <1>9 DEF Reaches, DoneAt
  <2>3. CASE v = w /\ q # p
    BY <1>1, <1>8, <1>9, <2>1, <2>3 DEF DoneAt
  <2>4. CASE v # w
    BY <1>8, <1>9, <2>1, <2>4 DEF DoneAt
  <2>5. QED
    BY <2>2, <2>3, <2>4
<1>10. ASSUME NEW v \in Workers, NEW q \in Proxies, Current(v, q)'
       PROVE  /\ Same(v) /\ Current(v, q)
              /\ worker'[v].tx[q].conf = worker[v].tx[q].conf
              /\ conf'[q] = conf[q]
  <2>1. Busy(v) /\ Same(v) /\ ~Direct(v) /\ q \in Opened(v)' /\ ~worker'[v].tx[q].stale
    BY <1>2, <1>5, <1>10 DEF Current, Busy
  <2>2. CASE v = w
    <3>1. q # p /\ q \in Opened(v) /\ worker'[v].tx[q] = worker[v].tx[q]
      BY <1>2, <1>8, <2>1, <2>2
    <3>2. QED
      BY <1>4, <2>1, <3>1 DEF Current
  <2>3. CASE v # w
    <3>1. q \in Opened(v)
      BY <1>8, <2>1, <2>3
    <3>2. CASE q # p
      BY <1>2, <1>4, <2>1, <2>3, <3>1, <3>2 DEF Current
    <3>3. CASE q = p
      <4>1. Direct(w)
        BY <1>2, <2>1, <2>3, <3>1, <3>3
      <4>2. QED
        BY <1>2, <1>4, <2>1, <2>3, <3>1, <4>1 DEF Current
    <3>4. QED
      BY <3>2, <3>3
  <2>4. QED
    BY <2>2, <2>3
<1>11. \A q \in Proxies : conf'[q] = conf[q] \/ \E v \in Workers : Reaches(v, q)
  BY <1>4 DEF Reaches
<1>12. QED
  BY <1>2, <1>4, <1>7, <1>9, <1>10, <1>11 DEF Moves

(* Every step moves the workers and the proxies in this way. *)
LEMMA NextMoves ==
  ASSUME Shape, WorkersAreSound, InputsStay, Next \/ UNCHANGED vars
  PROVE  Moves
<1>1. worker' = worker /\ conf' = conf => Moves
  BY QuietMoves DEF Shape
<1>2. UNCHANGED vars => Moves
  BY <1>1 DEF vars
<1>3. ASSUME NEW r \in Resolvers, Resolve(r) PROVE Moves
  <2>1. ASSUME NEW i \in Inputs, ValidateNew(r, i) PROVE worker' = worker /\ conf' = conf
    BY <2>1 DEF ValidateNew
  <2>2. Enqueue(r) \/ Insert(r) => worker' = worker /\ conf' = conf
    BY DEF Enqueue, Insert
  <2>3. ASSUME NEW id \in Ids, \/ RecreateIngressRule(r, id) \/ DeleteIngressRule(r, id)
                               \/ EnableHTTPSRedirect(r, id) \/ DisableHTTPSRedirect(r, id)
        PROVE  worker' = worker /\ conf' = conf
    BY <2>3 DEF RecreateIngressRule, DeleteIngressRule, EnableHTTPSRedirect, DisableHTTPSRedirect
  <2>4. QED
    BY <1>1, <1>3, <2>1, <2>2, <2>3 DEF Resolve
<1>4. ASSUME Crash PROVE Moves
  <2>1. worker' = [w \in Workers |-> Idle] /\ conf' = conf
    BY <1>4 DEF Crash
  <2>2. worker' \in [Workers -> States] /\ \A v \in Workers : worker'[v] = Idle
    BY <2>1, IdleFacts
  <2>3. QED
    BY <2>1, <2>2, QuietMoves
<1>5. ASSUME NEW w \in Workers, Redeliver(w) PROVE Moves
  BY <1>1, <1>5 DEF Redeliver
<1>6. ASSUME NEW w \in Workers, NEW t \in Tasks, Start(w, t) PROVE Moves
  BY <1>6, StartMoves
<1>7. ASSUME NEW w \in Workers, FinishApply(w) \/ FinishDelete(w) \/ FinishRedirect(w) \/ SaveFails(w) PROVE Moves
  <2>1. /\ worker' \in [Workers -> States] /\ conf' = conf
        /\ \A v \in Workers : worker'[v] = worker[v] \/ worker'[v] = Idle
    BY <1>7, EndEffect
  <2>2. QED
    BY <2>1, QuietMoves
<1>8. ASSUME NEW w \in Workers, Work(w) PROVE Moves
  BY <1>7, <1>8, BeginMoves, BeginWithoutIdMoves, CommitMoves, FailMoves, MarkMoves DEF Work
<1>9. QED
  BY <1>2, <1>3, <1>4, <1>5, <1>6, <1>8 DEF Next

(* What has gone wrong has gone wrong. *)
LEMMA TroubleGrows ==
  ASSUME Next \/ UNCHANGED vars
  PROVE  trouble \subseteq trouble'
<1>1. UNCHANGED vars => trouble' = trouble
  BY DEF vars
<1>2. ASSUME NEW r \in Resolvers, Resolve(r) PROVE trouble \subseteq trouble'
  <2>1. ASSUME NEW i \in Inputs, ValidateNew(r, i) PROVE trouble' = trouble
    BY <2>1 DEF ValidateNew
  <2>2. Enqueue(r) \/ Insert(r) => trouble \subseteq trouble'
    BY DEF Enqueue, Insert
  <2>3. ASSUME NEW id \in Ids, \/ RecreateIngressRule(r, id) \/ DeleteIngressRule(r, id)
                               \/ EnableHTTPSRedirect(r, id) \/ DisableHTTPSRedirect(r, id)
        PROVE  trouble' = trouble
    BY <2>3 DEF RecreateIngressRule, DeleteIngressRule, EnableHTTPSRedirect, DisableHTTPSRedirect
  <2>4. QED
    BY <1>2, <2>1, <2>2, <2>3 DEF Resolve
<1>3. Crash => trouble \subseteq trouble'
  BY DEF Crash
<1>4. ASSUME NEW w \in Workers, Redeliver(w) \/ \E t \in Tasks : Start(w, t)
      PROVE  trouble \subseteq trouble'
  BY <1>4 DEF Redeliver, Start
<1>5. ASSUME NEW w \in Workers, Work(w) PROVE trouble \subseteq trouble'
  <2>1. ASSUME NEW p \in Proxies, Begin(w, p) \/ BeginWithoutId(w, p) \/ CommitTransaction(w, p) \/ CommitFails(w, p)
        PROVE  trouble \subseteq trouble'
    BY <2>1 DEF Begin, BeginWithoutId, CommitTransaction, CommitFails
  <2>2. BeginFails(w) \/ MarkRedirect(w) \/ SaveFails(w) => trouble \subseteq trouble'
    BY DEF BeginFails, MarkRedirect, SaveFails
  <2>3. FinishApply(w) \/ FinishDelete(w) \/ FinishRedirect(w) => trouble' = trouble
    BY DEF FinishApply, FinishDelete, FinishRedirect, Finish
  <2>4. QED
    BY <1>5, <2>1, <2>2, <2>3 DEF Work
<1>6. QED
  BY <1>1, <1>2, <1>3, <1>4, <1>5 DEF Next

(* An edit at once. *)
LEMMA DirectEdit ==
  ASSUME Shape, WorkersAreSound, NEW w \in Workers, NEW p \in Proxies, Begin(w, p), Direct(w)
  PROVE  /\ rules' = rules /\ trouble' = trouble /\ Busy(w)
         /\ conf'[p] = Edited(conf[p], w)
         /\ conf'[p].backends = conf[p].backends
         /\ \A k \in Links : k \in conf'[p].links <=> Keeps(w, k, conf[p].links)
         /\ \A k \in Links : k.mode # "udp" => (k \in conf'[p].links <=> k \in conf[p].links)
<1>1. /\ Busy(w) /\ rules' = rules /\ trouble' = trouble
      /\ conf' = [conf EXCEPT ![p] = Edited(conf[p], w)]
  BY DEF Begin, Busy
<1>2. conf[p] \in Confs /\ conf'[p] = Edited(conf[p], w)
  BY <1>1 DEF Shape
<1>3. /\ conf'[p].backends = conf[p].backends
      /\ \A k \in Links : k \in conf'[p].links <=> Keeps(w, k, conf[p].links)
  BY <1>1, <1>2, EditedIs
<1>4. /\ worker[w].task.kind \in {"apply", "delete", "redirect"}
      /\ Link(rules[worker[w].task.rule].input).mode = "udp"
  BY <1>1, TaskFacts
<1>5. \A k \in Links : k.mode # "udp" => (Keeps(w, k, conf[p].links) <=> k \in conf[p].links)
  BY <1>4 DEF Keeps, Takes
<1>6. QED
  BY <1>1, <1>2, <1>3, <1>5

(* A task reaches a proxy: its links are now what the task makes of them. *)
LEMMA ReachEffect ==
  ASSUME Shape, WorkersAreSound, CopiesAreCurrent,
         NEW w \in Workers, NEW p \in Proxies, Reaches(w, p)
  PROVE  /\ rules' = rules /\ trouble' = trouble /\ Busy(w)
         /\ \A k \in Links : k \in conf'[p].links <=> Keeps(w, k, conf[p].links)
<1>1. CASE Begin(w, p) /\ Direct(w)
  BY <1>1, DirectEdit
<1>2. CASE CommitTransaction(w, p) /\ ~Direct(w)
  <2>1. /\ worker[w].pc = "commit" /\ p \in Opened(w) /\ ~worker[w].tx[p].stale /\ Busy(w)
        /\ conf' = [conf EXCEPT ![p] = Committed(conf[p], worker[w].tx[p].conf)]
        /\ rules' = rules /\ trouble' = trouble
    BY <1>2 DEF CommitTransaction, Busy
  <2>2. conf[p] \in Confs /\ worker[w].tx[p].conf \in Confs
        /\ conf'[p] = Committed(conf[p], worker[w].tx[p].conf)
    BY <2>1, TransactionFacts DEF Shape
  <2>3. \A k \in Links : k \in conf'[p].links <=>
                           IF k.mode = "udp" THEN k \in conf[p].links ELSE k \in worker[w].tx[p].conf.links
    BY <2>2, CommittedIs
  <2>4. Current(w, p)
    BY <1>2, <2>1 DEF Current
  <2>5. \A k \in Links : k.mode # "udp" => (k \in conf'[p].links <=> Keeps(w, k, conf[p].links))
    BY <2>3, <2>4 DEF CopiesAreCurrent
  <2>6. \A k \in Links : k.mode = "udp" => (k \in conf'[p].links <=> Keeps(w, k, conf[p].links))
    <3>1. /\ worker[w].task.kind \in {"apply", "delete", "redirect"}
          /\ Link(rules[worker[w].task.rule].input).mode # "udp"
      BY <1>2, <2>1, TaskFacts
    <3>2. \A k \in Links : k.mode = "udp" => (Keeps(w, k, conf[p].links) <=> k \in conf[p].links)
      BY <3>1 DEF Keeps, Takes
    <3>3. QED
      BY <2>3, <3>2
  <2>7. QED
    BY <2>1, <2>5, <2>6
<1>3. QED
  BY <1>1, <1>2 DEF Reaches

(* The links of a proxy are links. *)
LEMMA LinksAreLinks ==
  ASSUME Shape, NEW p \in Proxies
  PROVE  conf[p].links \subseteq Links /\ conf[p] \in Confs
  BY DEF Shape, Confs

(* The version of a configuration: whoever commits makes every other copy stale, and *)
(* what the UDP proxy does beside HAProxy is not in the copies.                     *)
LEMMA CopiesAreCurrentStep ==
  ASSUME Shape, WorkersAreSound, CopiesAreCurrent, InputsStay, Moves
  PROVE  CopiesAreCurrent'
<1> SUFFICES ASSUME NEW w \in Workers, NEW p \in Proxies, Current(w, p)',
                    NEW k \in Links, k.mode # "udp"
             PROVE  k \in worker'[w].tx[p].conf.links <=> Keeps(w, k, conf[p].links)'
  BY DEF CopiesAreCurrent
<1>1. \/ /\ Same(w) /\ Current(w, p)
         /\ worker'[w].tx[p].conf = worker[w].tx[p].conf
         /\ conf'[p] = conf[p] \/ \E v \in Workers : Begin(v, p) /\ Direct(v)
      \/ /\ Begin(w, p) /\ ~Direct(w) /\ Same(w) /\ conf' = conf
         /\ worker'[w].tx[p].conf = Edited(conf[p], w)
  BY DEF Moves
<1>2. rules'[worker'[w].task.rule].input = rules[worker[w].task.rule].input
      /\ worker'[w].task = worker[w].task /\ Busy(w)
  BY <1>1, DirectStays DEF Same
<1>3. worker[w].task.kind \in {"apply", "delete", "redirect"} /\ conf[p] \in Confs
  BY <1>2, TaskFacts DEF Shape
<1>4. CASE /\ Same(w) /\ Current(w, p)
           /\ worker'[w].tx[p].conf = worker[w].tx[p].conf
           /\ conf'[p] = conf[p] \/ \E v \in Workers : Begin(v, p) /\ Direct(v)
  <2>1. k \in conf'[p].links <=> k \in conf[p].links
    BY <1>4, DirectEdit
  <2>2. Keeps(w, k, conf[p].links)' <=> Keeps(w, k, conf[p].links)
    BY <1>2, <1>3, <2>1 DEF Keeps
  <2>3. QED
    BY <1>4, <2>2 DEF CopiesAreCurrent
<1>5. CASE /\ Begin(w, p) /\ ~Direct(w) /\ Same(w) /\ conf' = conf
           /\ worker'[w].tx[p].conf = Edited(conf[p], w)
  <2>1. Keeps(w, k, conf[p].links)' <=> Keeps(w, k, conf[p].links)
    BY <1>2, <1>3, <1>5 DEF Keeps
  <2>2. QED
    BY <1>2, <1>3, <1>5, <2>1, EditedIs
<1>6. QED
  BY <1>1, <1>4, <1>5

(* Only the task of a rule takes its row away, and no second one begins. *)
LEMMA NoOverlapStep ==
  ASSUME Shape, RequestsAreSound, WorkersAreSound, NoOverlap, Moves, Next \/ UNCHANGED vars
  PROVE  NoOverlap'
<1> SUFFICES ASSUME "overlap" \notin trouble', NEW w \in Workers, Busy(w)'
             PROVE  /\ Live(worker[w].task.rule)'
                    /\ worker'[w].task.kind = "delete" => Deleting(worker[w].task.rule)'
                    /\ \A v \in Workers :
                         Busy(v)' /\ worker'[v].task.rule = worker'[w].task.rule => v = w
  BY DEF NoOverlap
<1>1. "overlap" \notin trouble
  BY TroubleGrows
<1>2. ASSUME NEW v \in Workers, NEW u \in Workers, v # u, Busy(v)', Busy(u)', Started(v)
      PROVE  worker'[u].task.rule # worker'[v].task.rule
  <2>1. PICK t \in Tasks : Start(v, t) /\ Wanted(t) /\ worker'[v].task = t
    BY <1>2 DEF Started
  <2>2. /\ worker'[u] = worker[u]
        /\ trouble' = IF \E x \in Workers : worker[x].task.rule = t.rule THEN trouble \cup {"overlap"} ELSE trouble
    BY <1>2, <2>1, StartEffect
  <2>3. QED
    BY <2>1, <2>2
<1>3. \A v \in Workers : Busy(v)' /\ worker'[v].task.rule = worker'[w].task.rule => v = w
  <2> SUFFICES ASSUME NEW v \in Workers, Busy(v)', worker'[v].task.rule = worker'[w].task.rule, v # w
               PROVE  FALSE
    OBVIOUS
  <2>1. Same(v) /\ Same(w)
    BY <1>2 DEF Moves
  <2>2. QED
    BY <1>1, <2>1 DEF NoOverlap, Same
<1>4. CASE Started(w)
  <2>1. PICK t \in Tasks : Start(w, t) /\ Wanted(t) /\ worker'[w].task = t
    BY <1>4 DEF Started
  <2>2. rules' = rules
    BY <2>1 DEF Start
  <2>3. Live(t.rule) /\ (t.kind = "delete" => Deleting(t.rule))
    BY <2>1 DEF Wanted
  <2>4. QED
    BY <1>3, <2>1, <2>2, <2>3 DEF Live, Deleting
<1>5. CASE Same(w)
  <2>1. PICK id \in DOMAIN rules : id = worker[w].task.rule
    BY <1>5 DEF Same, WorkersAreSound
  <2>2. worker'[w].task.rule = id /\ worker'[w].task = worker[w].task /\ Busy(w)
    BY <1>5, <2>1 DEF Same
  <2>3. Live(id) /\ (worker[w].task.kind = "delete" => Deleting(id))
    BY <1>1, <2>1, <2>2 DEF NoOverlap
  <2>4. ASSUME NEW v \in Workers, FinishApply(v) \/ FinishDelete(v), worker[v].task.rule = id
        PROVE  FALSE
    <3>1. Busy(v) /\ worker'[v] = Idle
      BY <2>4, EndEffect
    <3>2. v = w
      BY <1>1, <2>1, <2>2, <2>4, <3>1 DEF NoOverlap
    <3>3. QED
      BY <3>1, <3>2, IdleFacts DEF Busy
  <2>5. Live(id)' /\ (Deleting(id) => Deleting(id)')
    BY <2>3, <2>4, RowsStep
  <2>6. QED
    BY <1>3, <2>2, <2>3, <2>5
<1>6. QED
  BY <1>4, <1>5 DEF Moves

(* Create looks for a rule of the same port before it inserts one. *)
LEMMA PortsAreDistinctStep ==
  ASSUME Shape, RequestsAreSound, WorkersAreSound, PortsAreDistinct, Next \/ UNCHANGED vars
  PROVE  PortsAreDistinct'
<1> SUFFICES ASSUME "race" \notin trouble', NEW id \in DOMAIN rules', NEW other \in DOMAIN rules',
                    Live(id)', Live(other)',
                    rules'[id].input.port = rules'[other].input.port,
                    Mode(rules'[id].input) = Mode(rules'[other].input),
                    id # other
             PROVE  FALSE
  BY DEF PortsAreDistinct, Rows
<1>1. "race" \notin trouble
  BY TroubleGrows
<1>2. \A k \in DOMAIN rules : Live(k)' => k \in Rows /\ rules'[k].input = rules[k].input
  BY RowsStep DEF Rows
<1>3. CASE id \in DOMAIN rules /\ other \in DOMAIN rules
  BY <1>1, <1>2, <1>3 DEF PortsAreDistinct
<1>4. ASSUME NEW a \in DOMAIN rules', a \notin DOMAIN rules, NEW b \in DOMAIN rules', b # a, Live(b)',
             rules'[a].input.port = rules'[b].input.port,
             Mode(rules'[a].input) = Mode(rules'[b].input)
      PROVE  FALSE
  <2>1. PICK r \in Resolvers : Insert(r)
    BY <1>4, RowsStep
  <2>2. /\ a = Len(rules) + 1 /\ b \in DOMAIN rules
        /\ rules'[a].input = request[r].input /\ request[r].input \in Inputs
        /\ rules'[b] = rules[b]
    BY <1>4, <2>1, RowIsInserted
  <2>3. IsValidNewIngressRule(request[r].input)
    BY <2>1, <1>1 DEF Insert
  <2>4. b \in Rows /\ rules[b].input \in Inputs
    BY <1>2, <1>4, <2>2, RowFacts
  <2> DEFINE i == request[r].input
             j == rules[b].input
  <2>5. i.port = j.port /\ Mode(i) = Mode(j)
    BY <1>4, <2>2
  <2>6. /\ Mode(j) = "http" => j.protocol \in {"http", "https"}
        /\ Mode(j) = "tcp" => j.protocol = "tcp"
        /\ Mode(j) = "udp" => j.protocol = "udp"
        /\ Mode(i) \in {"http", "tcp", "udp"}
    BY <2>2, <2>4, LinkFacts, InputAssumption DEF Mode
  <2>7. /\ Mode(i) = "http" => ~(j.protocol \in {"http", "https"} /\ j.port = i.port)
        /\ Mode(i) = "tcp" => ~(j.protocol \in {"http", "https", "tcp"} /\ j.port = i.port)
        /\ Mode(i) = "udp" => ~(j.protocol \in {"udp"} /\ j.port = i.port)
    BY <2>3, <2>4 DEF IsValidNewIngressRule
  <2>8. QED
    BY <2>5, <2>6, <2>7
<1>5. QED
  BY <1>3, <1>4

(* A task that has removed a link, or is about to. *)
LEMMA DoneStep ==
  ASSUME Shape, WorkersAreSound, Moves, NEW v \in Workers, NEW p \in Proxies, DoneAt(v, p)',
         worker'[v].task.kind # "redirect"
  PROVE  /\ Busy(v) /\ Same(v) /\ worker'[v].task = worker[v].task
         /\ DoneAt(v, p) \/ Reaches(v, p)
<1>1. Same(v) /\ (DoneAt(v, p) \/ Reaches(v, p) \/ worker[v].task.kind = "redirect")
  BY DEF Moves
<1>2. QED
  BY <1>1 DEF Same

(* The row is deleted when every commit has succeeded, and not before                *)
(* (process_ingress_rule_delete_request.go:218-241): each proxy has lost its link.   *)
LEMMA LinkHasStayingRuleStep ==
  ASSUME Shape, RequestsAreSound, WorkersAreSound, NoOverlap, CopiesAreCurrent, LinkHasStayingRule,
         Moves, Next \/ UNCHANGED vars
  PROVE  LinkHasStayingRule'
<1> SUFFICES ASSUME "overlap" \notin trouble', NEW p \in Proxies, NEW l \in conf'[p].links
             PROVE  (\E id \in Rows : Link(rules[id].input) = l /\ ~RemovedAt(id, p))'
  BY DEF LinkHasStayingRule
<1>1. "overlap" \notin trouble
  BY TroubleGrows
<1>2. l \in Links
  BY DEF Moves, Confs
<1>3. CASE l \in conf[p].links
  <2>1. PICK id \in Rows : Link(rules[id].input) = l /\ ~RemovedAt(id, p)
    BY <1>1, <1>3 DEF LinkHasStayingRule
  <2>2. id \in DOMAIN rules /\ Live(id)
    BY DEF Rows
  <2>3. ASSUME NEW w \in Workers, FinishDelete(w), ~worker[w].failed, worker[w].task.rule = id
        PROVE  FALSE
    <3>1. DoneAt(w, p) /\ worker[w].task.kind = "delete"
      BY <2>3 DEF FinishDelete, Done, DoneAt, Busy
    <3>2. QED
      BY <2>1, <2>3, <3>1 DEF RemovedAt
  <2>4. id \in DOMAIN rules' /\ rules'[id].input = rules[id].input /\ Live(id)'
    BY <2>2, <2>3, RowsStep
  <2>5. ASSUME NEW v \in Workers, DoneAt(v, p)', worker'[v].task.kind = "delete", worker'[v].task.rule = id
        PROVE  FALSE
    <3>1. /\ Busy(v) /\ worker[v].task.kind = "delete" /\ worker[v].task.rule = id
          /\ DoneAt(v, p) \/ Reaches(v, p)
      BY <2>5, DoneStep
    <3>2. Reaches(v, p)
      BY <2>1, <3>1 DEF RemovedAt
    <3>3. ~Keeps(v, l, conf[p].links)
      BY <2>1, <3>1 DEF Keeps, Takes
    <3>4. QED
      BY <1>2, <3>2, <3>3, ReachEffect
  <2>6. ~RemovedAt(id, p)'
    BY <2>5 DEF RemovedAt
  <2>7. QED
    BY <2>1, <2>4, <2>6 DEF Rows
<1>4. CASE l \notin conf[p].links
  <2>1. PICK w \in Workers : Reaches(w, p)
    BY <1>4 DEF Moves
  <2>2. rules' = rules /\ Busy(w) /\ Keeps(w, l, conf[p].links)
    BY <1>2, <2>1, ReachEffect
  <2>3. PICK id \in DOMAIN rules : id = worker[w].task.rule
    BY <2>2 DEF WorkersAreSound
  <2>4. worker[w].task.kind = "apply" /\ l = Link(rules[id].input)
    BY <1>4, <2>2, <2>3, TaskFacts DEF Keeps
  <2>5. Live(id)
    BY <1>1, <2>2, <2>3 DEF NoOverlap
  <2>6. ASSUME NEW v \in Workers, DoneAt(v, p)', worker'[v].task.kind = "delete", worker'[v].task.rule = id
        PROVE  FALSE
    <3>1. Busy(v) /\ worker[v].task.kind = "delete" /\ worker[v].task.rule = id
      BY <2>6, DoneStep
    <3>2. v = w
      BY <1>1, <2>2, <2>3, <3>1 DEF NoOverlap
    <3>3. QED
      BY <2>4, <3>1, <3>2
  <2>7. ~RemovedAt(id, p)'
    BY <2>6 DEF RemovedAt
  <2>8. QED
    BY <2>2, <2>4, <2>5, <2>7 DEF Rows, Live
<1>5. QED
  BY <1>3, <1>4

(* A task of another rule does not take the link of an applied rule. *)
LEMMA LinkIsKept ==
  ASSUME Shape, WorkersAreSound, NoOverlap, PortsAreDistinct, CopiesAreCurrent,
         trouble \cap {"overlap", "race"} = {},
         NEW w \in Workers, NEW p \in Proxies, Reaches(w, p),
         NEW id \in Rows, Link(rules[id].input) \in conf[p].links,
         worker[w].task.kind = "delete" => worker[w].task.rule # id
  PROVE  Link(rules[id].input) \in conf'[p].links
<1> DEFINE l == Link(rules[id].input)
<1>1. id \in DOMAIN rules /\ rules[id].input \in Inputs /\ l \in Links
  BY RowFacts DEF Rows
<1>2. Busy(w) /\ (l \in conf'[p].links <=> Keeps(w, l, conf[p].links))
  BY <1>1, ReachEffect
<1>3. worker[w].task.kind \in {"apply", "delete", "redirect"}
  BY <1>2, TaskFacts
<1>4. CASE worker[w].task.kind = "delete"
  <2>1. PICK other \in DOMAIN rules : other = worker[w].task.rule
    BY <1>2 DEF WorkersAreSound
  <2>2. other \in Rows /\ rules[other].input \in Inputs
    BY <1>2, <2>1, RowFacts DEF NoOverlap, Rows
  <2>3. Takes(Link(rules[other].input), l) =>
          /\ rules[other].input.port = rules[id].input.port
          /\ Mode(rules[other].input) = Mode(rules[id].input)
    BY <1>1, <2>2, LinkFacts DEF Takes
  <2>4. ~Takes(Link(rules[other].input), l)
    BY <1>4, <2>1, <2>2, <2>3 DEF PortsAreDistinct
  <2>5. QED
    BY <1>2, <1>4, <2>1, <2>4 DEF Keeps
<1>5. QED
  BY <1>2, <1>3, <1>4 DEF Keeps

(* A row becomes applied when every commit has succeeded                             *)
(* (process_ingress_rule_apply_request.go:166-186), and its link stays.              *)
LEMMA AppliedIsLinkedStep ==
  ASSUME Shape, RequestsAreSound, WorkersAreSound, NoOverlap, PortsAreDistinct, CopiesAreCurrent,
         AppliedIsLinked, AppliedAtIsLinked, Moves, Next \/ UNCHANGED vars
  PROVE  AppliedIsLinked'
<1> SUFFICES ASSUME trouble' \cap {"overlap", "race"} = {}, NEW id \in DOMAIN rules', NEW p \in Proxies,
                    rules'[id].status = "applied"
             PROVE  Link(rules'[id].input) \in conf'[p].links
  BY DEF AppliedIsLinked
<1>1. trouble \cap {"overlap", "race"} = {}
  BY TroubleGrows
<1>2. id \in DOMAIN rules
  <2>1. ASSUME NEW r \in Resolvers, Insert(r), id \notin DOMAIN rules PROVE FALSE
    BY <2>1, RowIsInserted
  <2>2. QED
    BY <2>1, RowsStep
<1>3. rules'[id].input = rules[id].input
  BY <1>2, RowsStep
<1>4. CASE rules[id].status = "applied"
  <2>1. Link(rules[id].input) \in conf[p].links /\ id \in Rows /\ ~Deleting(id)
    BY <1>1, <1>2, <1>4 DEF AppliedIsLinked, Rows, Live, Deleting
  <2>2. ASSUME NEW w \in Workers, Reaches(w, p)
        PROVE  Link(rules[id].input) \in conf'[p].links
    <3>1. Busy(w)
      BY <2>2, ReachEffect
    <3>2. worker[w].task.kind = "delete" => worker[w].task.rule # id
      BY <1>1, <2>1, <3>1 DEF NoOverlap
    <3>3. QED
      BY <1>1, <2>1, <2>2, <3>2, LinkIsKept
  <2>3. QED
    BY <1>3, <2>1, <2>2 DEF Moves
<1>5. CASE rules[id].status # "applied"
  <2>1. PICK w \in Workers : FinishApply(w) /\ ~worker[w].failed /\ worker[w].task.rule = id
    BY <1>2, <1>5, RowsStep
  <2>2. DoneAt(w, p) /\ worker[w].task.kind = "apply" /\ conf' = conf
    BY <2>1 DEF FinishApply, Finish, Done, DoneAt, Busy
  <2>3. QED
    BY <1>1, <1>3, <2>1, <2>2 DEF AppliedAtIsLinked
<1>6. QED
  BY <1>4, <1>5

(* What an apply task has committed to one proxy stays while it goes on to the next. *)
LEMMA AppliedAtIsLinkedStep ==
  ASSUME Shape, RequestsAreSound, WorkersAreSound, NoOverlap, PortsAreDistinct, CopiesAreCurrent,
         AppliedAtIsLinked, InputsStay, Moves, Next \/ UNCHANGED vars
  PROVE  AppliedAtIsLinked'
<1> SUFFICES ASSUME trouble' \cap {"overlap", "race"} = {}, NEW v \in Workers, NEW p \in Proxies,
                    DoneAt(v, p)', worker'[v].task.kind = "apply"
             PROVE  Link(rules'[worker'[v].task.rule].input) \in conf'[p].links
  BY DEF AppliedAtIsLinked
<1>1. trouble \cap {"overlap", "race"} = {}
  BY TroubleGrows
<1>2. /\ Busy(v) /\ Same(v) /\ worker'[v].task = worker[v].task
      /\ DoneAt(v, p) \/ Reaches(v, p)
  BY DoneStep
<1>3. PICK id \in DOMAIN rules : id = worker[v].task.rule
  BY <1>2 DEF WorkersAreSound
<1>4. id \in Rows /\ rules'[worker'[v].task.rule].input = rules[id].input /\ Link(rules[id].input) \in Links
  BY <1>1, <1>2, <1>3, DirectStays, RowFacts DEF NoOverlap, Rows
<1>5. CASE Reaches(v, p)
  <2>1. Keeps(v, Link(rules[id].input), conf[p].links)
    BY <1>2, <1>3 DEF Keeps
  <2>2. QED
    BY <1>4, <1>5, <2>1, ReachEffect
<1>6. CASE DoneAt(v, p)
  <2>1. Link(rules[id].input) \in conf[p].links
    BY <1>1, <1>2, <1>3, <1>6 DEF AppliedAtIsLinked
  <2>2. ASSUME NEW w \in Workers, Reaches(w, p)
        PROVE  Link(rules[id].input) \in conf'[p].links
    <3>1. Busy(w)
      BY <2>2, ReachEffect
    <3>2. worker[w].task.kind = "delete" => worker[w].task.rule # id
      BY <1>1, <1>2, <1>3, <3>1 DEF NoOverlap
    <3>3. QED
      BY <1>1, <1>4, <2>1, <2>2, <3>2, LinkIsKept
  <2>3. QED
    BY <1>4, <2>1, <2>2 DEF Moves
<1>7. QED
  BY <1>2, <1>5, <1>6

(* The edit of a backed configuration is backed. *)
LEMMA EditedIsBacked ==
  ASSUME Shape, WorkersAreSound, LinkHasStayingRule, "overlap" \notin trouble,
         NEW w \in Workers, Busy(w), NEW p \in Proxies, Backed(conf[p])
  PROVE  Backed(Edited(conf[p], w))
<1> DEFINE c == conf[p]
           id == worker[w].task.rule
           l == Link(rules[id].input)
<1>1. /\ id \in DOMAIN rules /\ rules[id].input \in Inputs /\ l \in Links
      /\ worker[w].task.kind \in {"apply", "delete", "redirect"}
  BY TaskFacts
<1>2. c \in Confs /\ c.links \subseteq Links /\ Edited(c, w) \in Confs
  BY LinksAreLinks, EditedIs
<1>3. \A k \in Edited(c, w).links : k \in Links /\ Keeps(w, k, c.links)
  <2>1. Edited(c, w).links \subseteq Links
    BY <1>2 DEF Confs
  <2>2. QED
    BY <1>2, <2>1, EditedIs
<1>4. SUFFICES ASSUME NEW k \in Edited(c, w).links, k.mode # "udp", k.target \notin External
               PROVE  Backend(k) \in Edited(c, w).backends
  BY DEF Backed
<1>5. k \in Links /\ Keeps(w, k, c.links)
  BY <1>3
<1>6. CASE worker[w].task.kind = "apply"
  <2>1. Edited(c, w) = AddLink(c, rules[id].input)
    BY <1>6 DEF Edited
  <2>2. c = [links |-> c.links, backends |-> c.backends, redirect |-> c.redirect]
    BY <1>2 DEF Confs
  <2>3. Edited(c, w).backends = IF Mode(rules[id].input) = "udp" THEN c.backends
                                ELSE c.backends \cup {Backend(l)}
    BY <2>1, <2>2 DEF AddLink
  <2>4. k \in c.links \/ k = l
    BY <1>5, <1>6 DEF Keeps
  <2>5. k \in c.links => Backend(k) \in c.backends
    BY <1>4 DEF Backed
  <2>6. k = l => Mode(rules[id].input) # "udp"
    BY <1>1, <1>4, LinkFacts
  <2>7. QED
    BY <2>3, <2>4, <2>5, <2>6
<1>7. CASE worker[w].task.kind = "delete"
  <2>1. Edited(c, w) = RemoveLink(c, id, worker[w].redirect)
    BY <1>7 DEF Edited
  <2>2. /\ l.mode = "udp" \/ UsedByOther(id) => Edited(c, w).backends = c.backends
        /\ ~(l.mode = "udp" \/ UsedByOther(id)) => Edited(c, w).backends = c.backends \ {Backend(l)}
    BY <2>1, RemoveLinkBackends
  <2>3. k \in c.links /\ ~Takes(l, k)
    BY <1>5, <1>7 DEF Keeps
  <2>4. Backend(k) \in c.backends
    BY <1>4, <2>3 DEF Backed
  <2>5. ASSUME Backend(k) = Backend(l), ~UsedByOther(id) PROVE FALSE
    <3>1. k.target = l.target
      BY <2>5 DEF Backend
    <3>2. PICK other \in Rows : Link(rules[other].input) = k
      BY <2>3 DEF LinkHasStayingRule
    <3>3. rules[other].input \in Inputs
      BY RowFacts DEF Rows
    <3>4. rules[other].input.target = rules[id].input.target /\ rules[id].input.target \notin External
      BY <1>1, <1>4, <3>1, <3>2, <3>3, LinkFacts
    <3>5. other = id
      BY <2>5, <3>4 DEF UsedByOther
    <3>6. QED
      BY <2>3, <3>2, <3>5 DEF Takes
  <2>6. QED
    BY <2>2, <2>4, <2>5
<1>8. CASE worker[w].task.kind = "redirect"
  <2>1. Edited(c, w) = [c EXCEPT !.redirect = worker[w].task.on]
    BY <1>8 DEF Edited
  <2>2. Edited(c, w).backends = c.backends
    BY <2>1 DEF Confs
  <2>3. QED
    BY <1>4, <1>5, <1>8, <2>2 DEF Keeps, Backed
<1>9. QED
  BY <1>1, <1>6, <1>7, <1>8

(* A commit replaces links and backends together. *)
LEMMA CopiesAreBackedStep ==
  ASSUME Shape, WorkersAreSound, LinkHasStayingRule, CopiesAreCurrent, CopiesAreBacked, Moves,
         Next \/ UNCHANGED vars
  PROVE  CopiesAreBacked'
<1> SUFFICES ASSUME "overlap" \notin trouble'
             PROVE  /\ \A p \in Proxies : Backed(conf'[p])
                    /\ \A w \in Workers, p \in Proxies : Current(w, p)' => Backed(worker'[w].tx[p].conf)
  BY DEF CopiesAreBacked, Backed
<1>1. "overlap" \notin trouble
  BY TroubleGrows
<1>2. ASSUME NEW p \in Proxies PROVE Backed(conf'[p])
  <2>1. Backed(conf[p])
    BY <1>1 DEF CopiesAreBacked
  <2>2. ASSUME NEW w \in Workers, Begin(w, p), Direct(w) PROVE Backed(conf'[p])
    <3>1. Busy(w) /\ conf'[p] = Edited(conf[p], w)
      BY <2>2, DirectEdit
    <3>2. QED
      BY <1>1, <2>1, <3>1, EditedIsBacked
  <2>3. ASSUME NEW w \in Workers, CommitTransaction(w, p), ~Direct(w) PROVE Backed(conf'[p])
    <3>1. /\ Current(w, p)
          /\ conf' = [conf EXCEPT ![p] = Committed(conf[p], worker[w].tx[p].conf)]
      BY <2>3 DEF CommitTransaction, Current, Busy
    <3>2. /\ conf[p] \in Confs /\ worker[w].tx[p].conf \in Confs
          /\ conf'[p] = Committed(conf[p], worker[w].tx[p].conf)
      BY <3>1, TransactionFacts DEF Shape, Current
    <3>3. /\ conf'[p].backends = worker[w].tx[p].conf.backends /\ conf'[p].links \subseteq Links
          /\ \A k \in Links : k.mode # "udp" => (k \in conf'[p].links <=> k \in worker[w].tx[p].conf.links)
      BY <3>2, CommittedIs DEF Confs
    <3>4. Backed(worker[w].tx[p].conf)
      BY <1>1, <3>1 DEF CopiesAreBacked
    <3>5. QED
      BY <3>3, <3>4 DEF Backed
  <2>4. QED
    BY <2>1, <2>2, <2>3 DEF Moves, Reaches
<1>3. ASSUME NEW w \in Workers, NEW p \in Proxies, Current(w, p)'
      PROVE  Backed(worker'[w].tx[p].conf)
  <2>1. CASE Current(w, p) /\ worker'[w].tx[p].conf = worker[w].tx[p].conf
    BY <1>1, <2>1 DEF CopiesAreBacked
  <2>2. CASE Begin(w, p) /\ worker'[w].tx[p].conf = Edited(conf[p], w)
    <3>1. Busy(w) /\ Backed(conf[p])
      BY <1>1, <2>2 DEF Begin, Busy, CopiesAreBacked
    <3>2. QED
      BY <1>1, <2>2, <3>1, EditedIsBacked
  <2>3. QED
    BY <1>3, <2>1, <2>2 DEF Moves
<1>4. QED
  BY <1>2, <1>3

(* A request of the API before, in and after its validation. *)
LEMMA NoInputFacts ==
  /\ Ready \in Requests /\ Ready.pc = "idle" /\ Ready.task = NoTask
  /\ \A i \in Inputs : /\ [Ready EXCEPT !.pc = "valid", !.input = i] \in Requests
                       /\ [Ready EXCEPT !.pc = "valid", !.input = i].task = NoTask
                       /\ [Ready EXCEPT !.pc = "valid", !.input = i].pc = "valid"
                       /\ [Ready EXCEPT !.pc = "valid", !.input = i].input = i
  /\ \A t \in Tasks : /\ [Ready EXCEPT !.pc = "ask", !.task = t] \in Requests
                      /\ [Ready EXCEPT !.pc = "ask", !.task = t].pc = "ask"
                      /\ [Ready EXCEPT !.pc = "ask", !.task = t].task = t
  BY DEF Ready, Requests

(* One request is somewhere else. *)
LEMMA RequestChanges ==
  ASSUME Shape, RequestsAreSound, NEW r \in Resolvers, NEW q \in Requests,
         request' = [request EXCEPT ![r] = q],
         q.pc = "ask" => q.task \in Tasks, q.pc # "ask" => q.task = NoTask,
         q.pc = "valid" => q.input \in Inputs
  PROVE  /\ request' \in [Resolvers -> Requests] /\ RequestsAreSound'
         /\ request'[r] = q
         /\ \A s \in Resolvers : s # r => request'[s] = request[s]
         /\ IsFiniteSet(Valid')
         /\ Cardinality(Valid') \in Nat /\ Cardinality(Valid) \in Nat
         /\ q.pc # "valid" => Cardinality(Valid') <= Cardinality(Valid)
         /\ q.pc # "valid" /\ r \in Valid => Cardinality(Valid') = Cardinality(Valid) - 1
         /\ Cardinality(Valid') <= Cardinality(Valid) + 1
<1>1. /\ request' \in [Resolvers -> Requests]
      /\ request'[r] = q
      /\ \A s \in Resolvers : s # r => request'[s] = request[s]
  BY DEF Shape
<1>2. RequestsAreSound'
  BY <1>1 DEF RequestsAreSound
<1>3. Valid' = IF q.pc = "valid" THEN Valid \cup {r} ELSE Valid \ {r}
  BY <1>1 DEF Valid
<1>4. IsFiniteSet(Valid) /\ Cardinality(Valid) \in Nat
  BY FS_CardinalityType DEF Shape
<1>5. CASE q.pc = "valid"
  <2>1. /\ IsFiniteSet(Valid \cup {r})
        /\ Cardinality(Valid \cup {r}) = IF r \in Valid THEN Cardinality(Valid) ELSE Cardinality(Valid) + 1
    BY <1>4, FS_AddElement
  <2>2. QED
    BY <1>1, <1>2, <1>3, <1>4, <1>5, <2>1
<1>6. CASE q.pc # "valid"
  <2>1. /\ IsFiniteSet(Valid \ {r})
        /\ Cardinality(Valid \ {r}) = IF r \in Valid THEN Cardinality(Valid) - 1 ELSE Cardinality(Valid)
        /\ Cardinality(Valid \ {r}) \in Nat
    BY <1>4, FS_RemoveElement, FS_CardinalityType
  <2>2. QED
    BY <1>1, <1>2, <1>3, <1>4, <1>6, <2>1
<1>7. QED
  BY <1>5, <1>6

(* A resolver that wrote the row goes on to enqueue its task. *)
LEMMA AskEffect ==
  ASSUME Shape, RequestsAreSound, NEW r \in Resolvers,
         NEW kind, NEW id, NEW on, [kind |-> kind, rule |-> id, on |-> on] \in Tasks, Ask(r, kind, id, on)
  PROVE  /\ request' \in [Resolvers -> Requests] /\ RequestsAreSound'
         /\ request'[r].task = [kind |-> kind, rule |-> id, on |-> on]
         /\ \A s \in Resolvers : s # r => request'[s] = request[s]
         /\ IsFiniteSet(Valid')
         /\ Cardinality(Valid') \in Nat /\ Cardinality(Valid) \in Nat
         /\ Cardinality(Valid') <= Cardinality(Valid)
         /\ r \in Valid => Cardinality(Valid') = Cardinality(Valid) - 1
<1> DEFINE t == [kind |-> kind, rule |-> id, on |-> on]
           q == [Ready EXCEPT !.pc = "ask", !.task = t]
<1>1. q \in Requests /\ q.pc = "ask" /\ q.task = t /\ t \in Tasks
  BY NoInputFacts
<1>2. request' = [request EXCEPT ![r] = q]
  BY DEF Ask
<1> HIDE DEF q
<1>3. QED
  BY <1>1, <1>2, RequestChanges

(* The requests, the queue and the bound after a step. *)
Registered == /\ request' \in [Resolvers -> Requests] /\ RequestsAreSound'
              /\ IsFiniteSet(Valid') /\ Len(rules') + Cardinality(Valid') <= MaxRules
              /\ queued' \subseteq Tasks

(* Of the ids that remain, each validated request has one to insert. *)
LEMMA ResolveRegisters ==
  ASSUME Shape, RequestsAreSound, NEW r \in Resolvers, Resolve(r)
  PROVE  Registered
<1>1. /\ Len(rules) \in Nat /\ MaxRules \in Nat /\ Cardinality(Valid) \in Nat
      /\ Len(rules) + Cardinality(Valid) <= MaxRules /\ queued \subseteq Tasks
  BY FS_CardinalityType, BoundAssumption DEF Shape
<1>2. ASSUME NEW i \in Inputs, ValidateNew(r, i) PROVE Registered
  <2> DEFINE q == [Ready EXCEPT !.pc = "valid", !.input = i]
  <2>1. q \in Requests /\ q.pc = "valid" /\ q.task = NoTask /\ q.input = i
    BY NoInputFacts
  <2>2. /\ request' = [request EXCEPT ![r] = q] /\ rules' = rules /\ queued' = queued
        /\ Len(rules) + Cardinality(Valid) < MaxRules
    BY <1>2 DEF ValidateNew, Valid
  <2> HIDE DEF q
  <2>3. /\ request' \in [Resolvers -> Requests] /\ RequestsAreSound'
        /\ IsFiniteSet(Valid') /\ Cardinality(Valid') \in Nat /\ Cardinality(Valid') <= Cardinality(Valid) + 1
    BY <2>1, <2>2, RequestChanges
  <2>4. QED
    BY <1>1, <2>2, <2>3 DEF Registered
<1>3. ASSUME Insert(r) PROVE Registered
  <2>1. r \in Valid /\ Ask(r, "apply", Len(rules) + 1, FALSE) /\ queued' = queued
    BY <1>3 DEF Insert, Valid
  <2>2. Cardinality(Valid) # 0
    BY <2>1, FS_EmptySet DEF Shape
  <2>3. Len(rules) + 1 \in Ids
    BY <1>1, <2>2 DEF Ids
  <2>4. [kind |-> "apply", rule |-> Len(rules) + 1, on |-> FALSE] \in Tasks
    BY <2>3 DEF Tasks
  <2>5. /\ request' \in [Resolvers -> Requests] /\ RequestsAreSound'
        /\ IsFiniteSet(Valid') /\ Cardinality(Valid') \in Nat /\ Cardinality(Valid') = Cardinality(Valid) - 1
    BY <2>1, <2>4, AskEffect
  <2>6. Len(rules') = Len(rules) + 1
    BY <1>3, RowIsInserted
  <2>7. QED
    BY <1>1, <2>1, <2>5, <2>6 DEF Registered
<1>4. ASSUME Enqueue(r) PROVE Registered
  <2>1. request' = [request EXCEPT ![r] = Ready] /\ rules' = rules /\ queued' \subseteq queued \cup {request[r].task}
        /\ request[r].task \in Tasks
    BY <1>4 DEF Enqueue, RequestsAreSound
  <2>2. /\ request' \in [Resolvers -> Requests] /\ RequestsAreSound'
        /\ IsFiniteSet(Valid') /\ Cardinality(Valid') \in Nat /\ Cardinality(Valid') <= Cardinality(Valid)
    BY <2>1, RequestChanges, NoInputFacts
  <2>3. QED
    BY <1>1, <2>1, <2>2 DEF Registered
<1>5. ASSUME NEW id \in Ids, \/ RecreateIngressRule(r, id) \/ DeleteIngressRule(r, id)
                             \/ EnableHTTPSRedirect(r, id) \/ DisableHTTPSRedirect(r, id)
      PROVE  Registered
  <2>1. PICK kind \in {"apply", "delete", "redirect"}, on \in BOOLEAN :
          Ask(r, kind, id, on) /\ (kind # "redirect" => on = FALSE)
    BY <1>5 DEF RecreateIngressRule, DeleteIngressRule, EnableHTTPSRedirect, DisableHTTPSRedirect
  <2>2. [kind |-> kind, rule |-> id, on |-> on] \in Tasks
    BY <2>1 DEF Tasks
  <2>3. /\ request' \in [Resolvers -> Requests] /\ RequestsAreSound'
        /\ IsFiniteSet(Valid') /\ Cardinality(Valid') \in Nat /\ Cardinality(Valid') <= Cardinality(Valid)
    BY <2>1, <2>2, AskEffect
  <2>4. queued' = queued /\ Len(rules') = Len(rules)
    <3>1. queued' = queued
      BY <1>5 DEF RecreateIngressRule, DeleteIngressRule, EnableHTTPSRedirect, DisableHTTPSRedirect
    <3>2. CASE DeleteIngressRule(r, id)
      <4>1. id \in DOMAIN rules /\ rules' = [rules EXCEPT ![id].status = "deleting"]
        BY <3>2 DEF DeleteIngressRule, Live
      <4>2. QED
        BY <3>1, <4>1, StatusChanges DEF Statuses
    <3>3. CASE RecreateIngressRule(r, id) \/ EnableHTTPSRedirect(r, id) \/ DisableHTTPSRedirect(r, id)
      BY <3>1, <3>3 DEF RecreateIngressRule, EnableHTTPSRedirect, DisableHTTPSRedirect
    <3>4. QED
      BY <1>5, <3>2, <3>3
  <2>5. QED
    BY <1>1, <2>3, <2>4 DEF Registered
<1>6. QED
  BY <1>2, <1>3, <1>4, <1>5 DEF Resolve

(* Tasks of rules that exist: the workers put back only what they took. *)
LEMMA NextRegisters ==
  ASSUME Shape, RequestsAreSound, WorkersAreSound, Next \/ UNCHANGED vars
  PROVE  Registered
<1>1. /\ Len(rules) \in Nat /\ MaxRules \in Nat /\ Cardinality(Valid) \in Nat
      /\ Len(rules) + Cardinality(Valid) <= MaxRules /\ queued \subseteq Tasks
  BY FS_CardinalityType, BoundAssumption DEF Shape
<1>2. \A w \in Workers : worker[w] # Idle => worker[w].task \in Tasks
  BY DEF WorkersAreSound
<1>3. ASSUME request' = request, Len(rules') = Len(rules), queued' \subseteq Tasks PROVE Registered
  <2>1. Valid' = Valid /\ RequestsAreSound'
    BY <1>3 DEF Valid, RequestsAreSound
  <2>2. QED
    BY <1>1, <1>3, <2>1 DEF Registered, Shape
<1>4. UNCHANGED vars => Registered
  BY <1>1, <1>3 DEF vars
<1>5. ASSUME Crash PROVE Registered
  <2>1. /\ request' = [r \in Resolvers |-> Ready] /\ rules' = rules
        /\ queued' = queued \cup {worker[w].task : w \in {v \in Workers : worker[v] # Idle}}
    BY <1>5 DEF Crash
  <2>2. Valid' = {} /\ RequestsAreSound' /\ request' \in [Resolvers -> Requests]
    BY <2>1, NoInputFacts DEF Valid, RequestsAreSound
  <2>3. IsFiniteSet(Valid') /\ Cardinality(Valid') = 0
    BY <2>2, FS_EmptySet
  <2>4. queued' \subseteq Tasks
    BY <1>1, <1>2, <2>1
  <2>5. QED
    BY <1>1, <2>1, <2>2, <2>3, <2>4 DEF Registered
<1>6. ASSUME NEW w \in Workers, Redeliver(w) PROVE Registered
  <2>1. request' = request /\ rules' = rules /\ queued' \subseteq Tasks
    BY <1>1, <1>2, <1>6 DEF Redeliver
  <2>2. QED
    BY <1>3, <2>1
<1>7. ASSUME NEW w \in Workers, NEW t \in Tasks, Start(w, t) PROVE Registered
  <2>1. request' = request /\ rules' = rules /\ queued' \subseteq Tasks
    BY <1>1, <1>7 DEF Start
  <2>2. QED
    BY <1>3, <2>1
<1>8. ASSUME NEW w \in Workers, Work(w) PROVE Registered
  <2>1. ASSUME NEW p \in Proxies, Begin(w, p) \/ BeginWithoutId(w, p) \/ CommitTransaction(w, p) \/ CommitFails(w, p)
        PROVE  request' = request /\ rules' = rules /\ queued' \subseteq Tasks
    BY <1>1, <2>1 DEF Begin, BeginWithoutId, CommitTransaction, CommitFails
  <2>2. BeginFails(w) \/ MarkRedirect(w) => request' = request /\ rules' = rules /\ queued' \subseteq Tasks
    BY <1>1 DEF BeginFails, MarkRedirect
  <2>3. ASSUME FinishApply(w) \/ FinishDelete(w) \/ FinishRedirect(w) \/ SaveFails(w)
        PROVE  request' = request /\ Len(rules') = Len(rules) /\ queued' \subseteq Tasks
    <3>1. Busy(w) /\ request' = request
      BY <2>3, EndEffect
    <3>2. queued' \subseteq queued \cup {worker[w].task}
      BY <2>3 DEF FinishApply, FinishDelete, FinishRedirect, SaveFails, Finish
    <3>3. worker[w].task \in Tasks
      BY <3>1, TaskFacts
    <3>4. ASSUME NEW r \in Resolvers, Insert(r) PROVE FALSE
      BY <3>1, <3>4 DEF Insert, Ask, RequestsAreSound, Shape, Ready
    <3>5. Len(rules') = Len(rules)
      BY <3>4, RowsStep
    <3>6. QED
      BY <1>1, <3>1, <3>2, <3>3, <3>5
  <2>4. QED
    BY <1>3, <1>8, <2>1, <2>2, <2>3 DEF Work
<1>9. QED
  BY <1>4, <1>5, <1>6, <1>7, <1>8, ResolveRegisters DEF Next

(* A handler has read the row of its task, and rows are not removed from the model. *)
LEMMA WorkersAreSoundStep ==
  ASSUME Shape, RequestsAreSound, WorkersAreSound, Moves, Next \/ UNCHANGED vars
  PROVE  WorkersAreSound'
<1> SUFFICES ASSUME NEW w \in Workers
             PROVE  /\ ~Busy(w)' => worker'[w] = Idle
                    /\ Busy(w)' => /\ worker'[w].task \in Tasks
                                   /\ worker'[w].task.rule \in DOMAIN rules'
                                   /\ worker'[w].task.kind = "redirect"
                                        => rules'[worker'[w].task.rule].input.protocol = "https"
                    /\ worker'[w].failed => worker'[w].pc = "commit" /\ DOMAIN worker'[w].tx = {}
                    /\ worker'[w].pc = "mark" => worker'[w].task.kind = "redirect"
  BY DEF WorkersAreSound, Opened
<1>1. \A id \in DOMAIN rules : id \in DOMAIN rules' /\ rules'[id].input = rules[id].input
  BY RowsStep
<1>2. CASE Same(w)
  BY <1>1, <1>2 DEF Same, WorkersAreSound, Moves
<1>3. CASE Started(w)
  <2>1. PICK t \in Tasks : Start(w, t) /\ Wanted(t) /\ worker'[w].task = t
    BY <1>3 DEF Started
  <2>2. t.rule \in DOMAIN rules /\ (t.kind = "redirect" => rules[t.rule].input.protocol = "https")
    BY <2>1 DEF Wanted, Live
  <2>3. QED
    BY <1>1, <2>1, <2>2 DEF Moves
<1>4. QED
  BY <1>2, <1>3 DEF Moves

(* The tasks of the workers when one opens a transaction. *)
LEMMA BeginTask ==
  ASSUME Shape, WorkersAreSound, NEW v \in Workers, NEW p \in Proxies,
         Begin(v, p) \/ BeginWithoutId(v, p)
  PROVE  \A w \in Workers : worker'[w].task = worker[w].task
<1>1. conf[p] \in Confs /\ (Begin(v, p) => Edited(conf[p], v) \in Confs)
  BY EditedIs DEF Shape, Begin, Busy
<1>2. \A c \in Confs, b \in BOOLEAN : [conf |-> c, stale |-> b] \in [conf : Confs, stale : BOOLEAN]
  OBVIOUS
<1>3. PICK tr \in [conf : Confs, stale : BOOLEAN] : Open(v, p, tr)
  BY <1>1, <1>2 DEF Begin, BeginWithoutId
<1>4. QED
  BY <1>3, OpenEffect

(* The task of a rule that is being deleted, wherever it is. *)
Attended(id) ==
  \E t \in queued \cup {worker[w].task : w \in Workers} \cup {request[r].task : r \in Resolvers} :
    t.kind = "delete" /\ t.rule = id

(* From the request to the queue (ingress_rule.resolvers.go:149-161), from the queue to *)
(* a worker, from the worker to the end of the row or back to the queue.               *)
LEMMA AttendedStays ==
  ASSUME Shape, RequestsAreSound, WorkersAreSound, Moves, Next \/ UNCHANGED vars,
         "refused" \notin trouble', NEW id \in Ids, Deleting(id), Deleting(id)', Attended(id)
  PROVE  Attended(id)'
<1>1. PICK t \in queued \cup {worker[w].task : w \in Workers} \cup {request[r].task : r \in Resolvers} :
        t.kind = "delete" /\ t.rule = id
  BY DEF Attended
<1>2. t \in queued' \/ (\E w \in Workers : worker'[w].task = t) \/ (\E r \in Resolvers : request'[r].task = t)
        => Attended(id)'
  BY <1>1 DEF Attended
<1>3. t # NoTask /\ Wanted(t)
  BY <1>1, IdleFacts DEF Wanted, Live, Deleting
<1>4. CASE t \in queued
  <2>1. ASSUME NEW w \in Workers, NEW u \in Tasks, Start(w, u) PROVE Attended(id)'
    <3>1. CASE u = t
      BY <1>2, <1>3, <2>1, <3>1, StartEffect, IdleFacts
    <3>2. CASE u # t
      BY <1>2, <1>4, <2>1, <3>2 DEF Start
    <3>3. QED
      BY <3>1, <3>2
  <2>2. ASSUME ~\E w \in Workers, u \in Tasks : Start(w, u) PROVE queued \subseteq queued'
    <3>1. UNCHANGED vars => queued' = queued
      BY DEF vars
    <3>2. ASSUME NEW r \in Resolvers, Resolve(r) PROVE queued \subseteq queued'
      <4>1. ASSUME NEW i \in Inputs, ValidateNew(r, i) PROVE queued' = queued
        BY <4>1 DEF ValidateNew
      <4>2. Insert(r) \/ Enqueue(r) => queued \subseteq queued'
        BY DEF Insert, Enqueue
      <4>3. ASSUME NEW i \in Ids, \/ RecreateIngressRule(r, i) \/ DeleteIngressRule(r, i)
                                  \/ EnableHTTPSRedirect(r, i) \/ DisableHTTPSRedirect(r, i)
            PROVE  queued' = queued
        BY <4>3 DEF RecreateIngressRule, DeleteIngressRule, EnableHTTPSRedirect, DisableHTTPSRedirect
      <4>4. QED
        BY <3>2, <4>1, <4>2, <4>3 DEF Resolve
    <3>3. ASSUME NEW w \in Workers, Work(w) PROVE queued \subseteq queued'
      <4>1. ASSUME NEW p \in Proxies, Begin(w, p) \/ BeginWithoutId(w, p) \/ CommitTransaction(w, p) \/ CommitFails(w, p)
            PROVE  queued' = queued
        BY <4>1 DEF Begin, BeginWithoutId, CommitTransaction, CommitFails
      <4>2. BeginFails(w) \/ MarkRedirect(w) => queued' = queued
        BY DEF BeginFails, MarkRedirect
      <4>3. FinishApply(w) \/ FinishDelete(w) \/ FinishRedirect(w) \/ SaveFails(w) => queued \subseteq queued'
        BY DEF FinishApply, FinishDelete, FinishRedirect, SaveFails, Finish
      <4>4. QED
        BY <3>3, <4>1, <4>2, <4>3 DEF Work
    <3>4. Crash => queued \subseteq queued'
      BY DEF Crash
    <3>5. ASSUME NEW w \in Workers, Redeliver(w) PROVE queued \subseteq queued'
      BY <3>5 DEF Redeliver
    <3>6. QED
      BY <2>2, <3>1, <3>2, <3>3, <3>4, <3>5 DEF Next
  <2>3. QED
    BY <1>2, <1>4, <2>1, <2>2
<1>5. CASE \E w \in Workers : worker[w].task = t
  <2>1. PICK w \in Workers : worker[w].task = t
    BY <1>5
  <2>2. Busy(w) /\ worker[w] # Idle
    BY <1>3, <2>1, IdleFacts DEF WorkersAreSound
  <2>3. CASE Same(w)
    BY <1>2, <2>1, <2>3 DEF Same
  <2>4. ASSUME NEW v \in Workers, NEW u \in Tasks, Start(v, u) PROVE worker'[w] = worker[w]
    BY <2>2, <2>4, StartEffect
  <2>5. CASE ~Same(w)
    <3>1. worker'[w] # worker[w]
      BY <2>2, <2>5 DEF Same, Busy
    <3>2. ~Started(w)
      BY <2>4, <3>1 DEF Started
    <3>3. worker'[w] = Idle
      BY <2>5, <3>2 DEF Moves
    <3>4. ASSUME Crash PROVE t \in queued'
      BY <2>1, <2>2, <3>4 DEF Crash
    <3>5. ASSUME NEW v \in Workers, FinishApply(v) \/ FinishDelete(v) \/ FinishRedirect(v) \/ SaveFails(v)
          PROVE  t \in queued'
      <4>1. v = w
        BY <3>1, <3>5, EndEffect
      <4>2. ~FinishApply(v) /\ ~FinishRedirect(v)
        BY <1>1, <2>1, <4>1 DEF FinishApply, FinishRedirect
      <4>3. ASSUME FinishDelete(v) PROVE FALSE
        <5> DEFINE s == IF worker[v].failed THEN "failed" ELSE "gone"
        <5>1. id \in DOMAIN rules /\ Live(id) /\ worker[v].task.rule = id
          BY <1>1, <2>1, <4>1 DEF Deleting, Live
        <5>2. rules' = [rules EXCEPT ![id].status = s] /\ s \in Statuses /\ s # "deleting"
          BY <4>3, <5>1 DEF FinishDelete, SetStatus, Statuses
        <5> HIDE DEF s
        <5>3. rules'[id].status = s
          BY <5>1, <5>2, StatusChanges
        <5>4. QED
          BY <5>2, <5>3 DEF Deleting
      <4>4. QED
        BY <2>1, <3>5, <4>1, <4>2, <4>3 DEF SaveFails
    <3>6. ASSUME NEW r \in Resolvers, Resolve(r) PROVE FALSE
      <4>1. ASSUME NEW i \in Inputs, ValidateNew(r, i) PROVE worker' = worker
        BY <4>1 DEF ValidateNew
      <4>2. Insert(r) \/ Enqueue(r) => worker' = worker
        BY DEF Insert, Enqueue
      <4>3. ASSUME NEW i \in Ids, \/ RecreateIngressRule(r, i) \/ DeleteIngressRule(r, i)
                                  \/ EnableHTTPSRedirect(r, i) \/ DisableHTTPSRedirect(r, i)
            PROVE  worker' = worker
        BY <4>3 DEF RecreateIngressRule, DeleteIngressRule, EnableHTTPSRedirect, DisableHTTPSRedirect
      <4>4. QED
        BY <3>1, <3>6, <4>1, <4>2, <4>3 DEF Resolve
    <3>7. ASSUME NEW v \in Workers, NEW p \in Proxies,
                 Begin(v, p) \/ BeginWithoutId(v, p) \/ CommitTransaction(v, p) \/ CommitFails(v, p)
          PROVE  FALSE
      <4>1. CASE Begin(v, p)
        <5>1. worker'[w].task = worker[w].task
          BY <4>1, BeginTask
        <5>2. QED
          BY <1>3, <2>1, <3>3, <5>1, IdleFacts
      <4>2. CASE BeginWithoutId(v, p)
        <5>1. worker'[w].task = worker[w].task
          BY <4>2, BeginTask
        <5>2. QED
          BY <1>3, <2>1, <3>3, <5>1, IdleFacts
      <4>3. CASE CommitTransaction(v, p)
        BY <1>3, <2>1, <3>3, <4>3, CommitEffect, IdleFacts
      <4>4. CASE CommitFails(v, p)
        BY <1>3, <2>1, <3>3, <4>4, FailEffect, IdleFacts
      <4>5. QED
        BY <3>7, <4>1, <4>2, <4>3, <4>4
    <3>8. ASSUME NEW v \in Workers, BeginFails(v) \/ MarkRedirect(v) PROVE FALSE
      BY <1>3, <2>1, <3>3, <3>8, FailEffect, MarkEffect, IdleFacts
    <3>9. ASSUME NEW v \in Workers, Work(v) PROVE t \in queued'
      BY <3>5, <3>7, <3>8, <3>9 DEF Work
    <3>10. \A v \in Workers : ~Redeliver(v) /\ \A u \in Tasks : ~Start(v, u)
      BY <2>4, <3>1 DEF Redeliver
    <3>11. ~UNCHANGED vars
      BY <3>1 DEF vars
    <3>12. QED
      BY <1>2, <3>4, <3>6, <3>9, <3>10, <3>11 DEF Next
  <2>6. QED
    BY <2>3, <2>5
<1>6. CASE \E r \in Resolvers : request[r].task = t
  <2>1. PICK r \in Resolvers : request[r].task = t
    BY <1>6
  <2>2. request[r].pc = "ask" /\ request[r] # Ready
    BY <1>3, <2>1, NoInputFacts DEF RequestsAreSound
  <2>3. request' = request => Attended(id)'
    BY <1>2, <2>1
  <2>4. UNCHANGED vars => Attended(id)'
    BY <2>3 DEF vars
  <2>5. ~Crash
    BY <2>2 DEF Crash
  <2>6. ASSUME NEW s \in Resolvers, NEW q, s # r, request' = [request EXCEPT ![s] = q]
        PROVE  Attended(id)'
    BY <1>2, <2>1, <2>6 DEF Shape
  <2>7. ASSUME NEW s \in Resolvers, Resolve(s) PROVE Attended(id)'
    <3>1. ASSUME NEW i \in Inputs, ValidateNew(s, i) PROVE Attended(id)'
      BY <2>2, <2>6, <3>1 DEF ValidateNew
    <3>2. ASSUME Insert(s) PROVE Attended(id)'
      BY <2>2, <2>6, <3>2 DEF Insert, Ask
    <3>3. ASSUME Enqueue(s) PROVE Attended(id)'
      <4>1. CASE s = r
        BY <1>2, <2>1, <3>3, <4>1 DEF Enqueue
      <4>2. CASE s # r
        BY <2>6, <3>3, <4>2 DEF Enqueue
      <4>3. QED
        BY <4>1, <4>2
    <3>4. ASSUME NEW i \in Ids, \/ RecreateIngressRule(s, i) \/ DeleteIngressRule(s, i)
                                \/ EnableHTTPSRedirect(s, i) \/ DisableHTTPSRedirect(s, i)
          PROVE  Attended(id)'
      <4>1. request[s] = Ready /\ \E kind \in {"apply", "delete", "redirect"}, on \in BOOLEAN : Ask(s, kind, i, on)
        BY <3>4 DEF RecreateIngressRule, DeleteIngressRule, EnableHTTPSRedirect, DisableHTTPSRedirect
      <4>2. QED
        BY <2>2, <2>6, <4>1 DEF Ask
    <3>5. QED
      BY <2>7, <3>1, <3>2, <3>3, <3>4 DEF Resolve
  <2>8. ASSUME NEW w \in Workers, Work(w) PROVE request' = request
    <3>1. ASSUME NEW p \in Proxies, Begin(w, p) \/ BeginWithoutId(w, p) \/ CommitTransaction(w, p) \/ CommitFails(w, p)
          PROVE  request' = request
      BY <3>1 DEF Begin, BeginWithoutId, CommitTransaction, CommitFails
    <3>2. BeginFails(w) \/ MarkRedirect(w) => request' = request
      BY DEF BeginFails, MarkRedirect
    <3>3. FinishApply(w) \/ FinishDelete(w) \/ FinishRedirect(w) \/ SaveFails(w) => request' = request
      BY DEF FinishApply, FinishDelete, FinishRedirect, SaveFails, Finish
    <3>4. QED
      BY <2>8, <3>1, <3>2, <3>3 DEF Work
  <2>9. ASSUME NEW w \in Workers, Redeliver(w) \/ \E u \in Tasks : Start(w, u) PROVE request' = request
    BY <2>9 DEF Redeliver, Start
  <2>10. QED
    BY <2>3, <2>4, <2>5, <2>7, <2>8, <2>9 DEF Next
<1>7. QED
  BY <1>1, <1>4, <1>5, <1>6

(* Only DeleteIngressRule makes a rule deleting, and it has the task to enqueue. *)
LEMMA DeletingIsAttendedStep ==
  ASSUME Shape, RequestsAreSound, WorkersAreSound, DeletingIsAttended, Moves, Next \/ UNCHANGED vars
  PROVE  DeletingIsAttended'
<1> SUFFICES ASSUME "refused" \notin trouble', NEW id \in Ids, Deleting(id)'
             PROVE  Attended(id)'
  BY DEF DeletingIsAttended, Attended
<1>1. "refused" \notin trouble
  BY TroubleGrows
<1>2. id \in DOMAIN rules
  <2>1. ASSUME NEW r \in Resolvers, Insert(r), id \notin DOMAIN rules PROVE FALSE
    BY <2>1, RowIsInserted DEF Deleting
  <2>2. QED
    BY <2>1, RowsStep DEF Deleting
<1>3. CASE Deleting(id)
  BY <1>1, <1>3, AttendedStays DEF DeletingIsAttended, Attended
<1>4. CASE ~Deleting(id)
  <2>1. PICK r \in Resolvers : DeleteIngressRule(r, id)
    BY <1>2, <1>4, RowsStep
  <2>2. [kind |-> "delete", rule |-> id, on |-> FALSE] \in Tasks
    BY DEF Tasks
  <2>3. request'[r].task = [kind |-> "delete", rule |-> id, on |-> FALSE]
    <3> DEFINE t == [kind |-> "delete", rule |-> id, on |-> FALSE]
    <3>1. request' = [request EXCEPT ![r] = [Ready EXCEPT !.pc = "ask", !.task = t]]
      BY <2>1 DEF DeleteIngressRule, Ask
    <3>2. [Ready EXCEPT !.pc = "ask", !.task = t].task = t
      BY <2>2, NoInputFacts
    <3> HIDE DEF t
    <3>3. request'[r].task = t
      BY <3>1, <3>2 DEF Shape
    <3>4. QED
      BY <3>3 DEF t
  <2>4. QED
    BY <2>3 DEF Attended
<1>5. QED
  BY <1>3, <1>4

(* No rule, no task, and proxies without a link. *)
LEMMA InitSound == Init => IInv
<1> SUFFICES ASSUME Init PROVE IInv
  OBVIOUS
<1>1. /\ rules = <<>> /\ queued = {} /\ trouble = {}
      /\ conf = [p \in Proxies |-> [links |-> {}, backends |-> {}, redirect |-> FALSE]]
      /\ request = [r \in Resolvers |-> Ready]
      /\ worker = [w \in Workers |-> Idle]
  BY DEF Init
<1>2. Valid = {} /\ IsFiniteSet(Valid) /\ Cardinality(Valid) = 0
  <2>1. Valid = {}
    BY <1>1, NoInputFacts DEF Valid
  <2>2. QED
    BY <2>1, FS_EmptySet
<1>3. rules \in Seq(Rules) /\ Len(rules) = 0 /\ DOMAIN rules = {} /\ MaxRules \in Nat
  BY <1>1, BoundAssumption
<1>4. conf \in [Proxies -> Confs]
  BY <1>1 DEF Confs
<1>5. request \in [Resolvers -> Requests] /\ worker \in [Workers -> States]
  BY <1>1, NoInputFacts, IdleFacts
<1>6. Shape
  BY <1>1, <1>2, <1>3, <1>4, <1>5 DEF Shape
<1>7. \A w \in Workers : worker[w] = Idle /\ ~Busy(w) /\ ~worker[w].failed /\ worker[w].pc = "idle"
  BY <1>1, IdleFacts DEF Busy
<1>8. \A w \in Workers, p \in Proxies : ~DoneAt(w, p) /\ ~Current(w, p)
  BY <1>7 DEF DoneAt, Current
<1>9. RequestsAreSound
  BY <1>1, NoInputFacts DEF RequestsAreSound
<1>10. WorkersAreSound /\ NoOverlap
  BY <1>7 DEF WorkersAreSound, NoOverlap
<1>11. PortsAreDistinct /\ AppliedIsLinked
  BY <1>3 DEF PortsAreDistinct, Rows, AppliedIsLinked
<1>12. CopiesAreCurrent /\ AppliedAtIsLinked
  BY <1>8 DEF CopiesAreCurrent, AppliedAtIsLinked
<1>13. LinkHasStayingRule /\ CopiesAreBacked
  BY <1>1, <1>8 DEF LinkHasStayingRule, CopiesAreBacked, Backed
<1>14. DeletingIsAttended
  BY <1>3 DEF DeletingIsAttended, Deleting
<1>15. QED
  BY <1>6, <1>9, <1>10, <1>11, <1>12, <1>13, <1>14 DEF IInv

(* The invariant is inductive. *)
LEMMA StepSound == IInv /\ [Next]_vars => IInv'
<1> SUFFICES ASSUME IInv, Next \/ UNCHANGED vars PROVE IInv'
  OBVIOUS
<1>1. /\ Shape /\ RequestsAreSound /\ WorkersAreSound /\ NoOverlap /\ PortsAreDistinct
      /\ CopiesAreCurrent /\ LinkHasStayingRule /\ CopiesAreBacked
      /\ AppliedIsLinked /\ AppliedAtIsLinked /\ DeletingIsAttended
  BY DEF IInv
<1>2. InputsStay /\ rules' \in Seq(Rules)
  BY <1>1, RowsStep DEF InputsStay
<1>3. Moves
  BY <1>1, <1>2, NextMoves
<1>4. Registered
  BY <1>1, NextRegisters
<1>5. Shape' /\ RequestsAreSound'
  BY <1>2, <1>3, <1>4 DEF Shape, Moves, Registered
<1>6. WorkersAreSound' /\ NoOverlap' /\ PortsAreDistinct'
  BY <1>1, <1>3, WorkersAreSoundStep, NoOverlapStep, PortsAreDistinctStep
<1>7. CopiesAreCurrent' /\ LinkHasStayingRule' /\ CopiesAreBacked'
  BY <1>1, <1>2, <1>3, CopiesAreCurrentStep, LinkHasStayingRuleStep, CopiesAreBackedStep
<1>8. AppliedIsLinked' /\ AppliedAtIsLinked' /\ DeletingIsAttended'
  BY <1>1, <1>2, <1>3, AppliedIsLinkedStep, AppliedAtIsLinkedStep, DeletingIsAttendedStep
<1>9. QED
  BY <1>5, <1>6, <1>7, <1>8 DEF IInv

(* IInv holds in every state the tasks of a domain reach, for every choice of proxies, *)
(* workers, requests and rules.                                                        *)
THEOREM Inductive == Spec => []IInv
<1>1. QED
  BY InitSound, StepSound, PTL DEF Spec

(* The type invariant is part of it. *)
LEMMA SoundIsTyped == IInv => TypeOK
<1> SUFFICES ASSUME IInv PROVE TypeOK
  OBVIOUS
<1>1. Shape /\ WorkersAreSound /\ Len(rules) \in Nat /\ MaxRules \in Nat /\ Cardinality(Valid) \in Nat
      /\ Len(rules) + Cardinality(Valid) <= MaxRules
  BY FS_CardinalityType, BoundAssumption DEF IInv, Shape
<1>2. Len(rules) <= MaxRules
  BY <1>1
<1>3. \A id \in DOMAIN rules :
        /\ rules[id].input \in Inputs /\ rules[id].redirect \in BOOLEAN
        /\ rules[id].status \in {"pending", "applied", "failed", "deleting", "gone"}
  BY <1>1, RowFacts
<1>4. \A r \in Resolvers : /\ request[r].task \in Tasks \cup {NoTask}
                           /\ request[r].input \in Inputs \cup {NoInput}
  BY <1>1 DEF Shape, Requests
<1>5. ASSUME NEW w \in Workers
      PROVE  /\ worker[w].task \in Tasks \cup {NoTask}
             /\ Opened(w) \subseteq Proxies
             /\ (worker[w].pc = "idle" \/ worker[w].task = NoTask) => worker[w] = Idle
  <2>1. worker[w] \in States /\ Opened(w) \subseteq Proxies
    BY <1>1, TransactionFacts
  <2>2. Busy(w) => worker[w].task # NoTask
    BY <1>1, IdleFacts DEF WorkersAreSound
  <2>3. ~Busy(w) => worker[w] = Idle
    BY <1>1 DEF WorkersAreSound
  <2>4. QED
    BY <2>1, <2>2, <2>3 DEF States, Busy
<1>6. QED
  BY <1>1, <1>2, <1>3, <1>4, <1>5 DEF TypeOK, Shape

(* The variables keep their shape; no more rules are created than the validation let *)
(* through, and transactions are open only while a task runs.                         *)
THEOREM TypeCorrect == Spec => []TypeOK
<1>1. QED
  BY Inductive, SoundIsTyped, PTL

(* A rule whose status is applied is linked on every proxy, for any number of proxies, *)
(* rules and concurrent tasks: the version of a configuration keeps a late commit from *)
(* undoing it (process_ingress_rule_apply_request.go:166-186), unless two tasks of one  *)
(* rule ran at once or two requests passed the validation for one port.                *)
THEOREM AppliedStaysLinked == Spec => []AppliedIsLinked
<1>1. IInv => AppliedIsLinked
  BY DEF IInv
<1>2. QED
  BY <1>1, Inductive, PTL

(* A link to an application never leads nowhere: the backend that several rules share *)
(* goes with the last of them (process_ingress_rule_delete_request.go:182-199).       *)
THEOREM BackendsOutliveLinks == Spec => []LinkedBackendExists
<1>1. IInv => LinkedBackendExists
  BY DEF IInv, CopiesAreBacked, Backed, LinkedBackendExists
<1>2. QED
  BY <1>1, Inductive, PTL

(* Every link a proxy has is that of a rule: the row is deleted after the link is gone *)
(* from each proxy, whatever failed before (process_ingress_rule_delete_request.go:218-241). *)
THEOREM RulesOutliveLinks == Spec => []LinkHasRule
<1>1. IInv => LinkHasRule
  BY DEF IInv, LinkHasStayingRule, LinkHasRule
<1>2. QED
  BY <1>1, Inductive, PTL

(* The task of a rule that is deleting is never lost: it waits, runs, or is about to be *)
(* enqueued, through failures, redeliveries and crashes (ingress_rule.resolvers.go:149-161). *)
THEOREM DeletionsAreAttended == Spec => []DeletingIsAttended
<1>1. IInv => DeletingIsAttended
  BY DEF IInv
<1>2. QED
  BY <1>1, Inductive, PTL

-----------------------------------------------------------------------------
(* The redirect to https. *)

(* What the task of worker w, a deletion or a redirect, has done to the redirect of rule id. *)
Changed(w, id, p) == DoneAt(w, p) /\ worker[w].task.rule = id /\ worker[w].task.kind # "apply"

(* A proxy redirects for a rule: the task that runs says so where it has reached the *)
(* proxy, and the row does where none has.                                           *)
Redirecting(id, p) ==
  \/ \E w \in Workers : Changed(w, id, p) /\ worker[w].task.kind = "redirect" /\ worker[w].task.on
  \/ rules[id].redirect /\ ~\E w \in Workers : Changed(w, id, p)

(* What the task of worker w makes of the redirect of a proxy. *)
Redirected(w, on) ==
  LET t == worker[w].task
  IN  CASE t.kind = "apply"    -> on
        [] t.kind = "delete"   -> on /\ ~(rules[t.rule].input.protocol = "https" /\ worker[w].redirect)
        [] t.kind = "redirect" -> t.on

(* Only https redirects (ingress_rule.operations.go:172-175), *)
RedirectsAreHttps ==
  \A id \in DOMAIN rules : rules[id].redirect => rules[id].input.protocol = "https"

(* and while nothing goes wrong no task fails, the row is written when every proxy has *)
(* its transaction, a deletion knows whether its rule redirects,                      *)
Undisturbed ==
  trouble = {} =>
    \A w \in Workers : ~worker[w].failed /\ (worker[w].pc = "mark" => Opened(w) = Proxies)
RedirectIsRead ==
  trouble = {} =>
    \A w \in Workers : Busy(w) /\ worker[w].task.kind = "delete" =>
      (worker[w].redirect <=> rules[worker[w].task.rule].redirect)

(* a copy that can be committed is the edit of what the proxy runs, *)
CopiesRedirect ==
  \A w \in Workers, p \in Proxies :
    Current(w, p) => (worker[w].tx[p].conf.redirect <=> Redirected(w, conf[p].redirect))

(* and a proxy redirects if it does so for a rule. *)
RedirectAgrees ==
  trouble = {} =>
    \A p \in Proxies : conf[p].redirect <=> \E id \in Rows : Redirecting(id, p)

(* The invariant of the redirect. *)
RInv == RedirectsAreHttps /\ Undisturbed /\ RedirectIsRead /\ CopiesRedirect /\ RedirectAgrees

(* The edits, as far as the redirect is concerned. *)
LEMMA EditedRedirect ==
  ASSUME Shape, WorkersAreSound, NEW w \in Workers, Busy(w), NEW c \in Confs
  PROVE  /\ Edited(c, w).redirect <=> Redirected(w, c.redirect)
         /\ Direct(w) => (Redirected(w, c.redirect) <=> c.redirect)
<1> DEFINE id == worker[w].task.rule
           l == Link(rules[id].input)
<1>1. /\ worker[w].task.kind \in {"apply", "delete", "redirect"}
      /\ worker[w].task.kind = "redirect" => ~Direct(w)
      /\ rules[id].input \in Inputs /\ (Direct(w) <=> l.mode = "udp")
  BY TaskFacts
<1>2. Direct(w) => rules[id].input.protocol # "https"
  BY <1>1, LinkFacts
<1>3. c = [links |-> c.links, backends |-> c.backends, redirect |-> c.redirect] /\ c.redirect \in BOOLEAN
  BY DEF Confs
<1>4. CASE worker[w].task.kind = "apply"
  <2>1. Edited(c, w) = AddLink(c, rules[id].input)
    BY <1>4 DEF Edited
  <2>2. \A L, B : [c EXCEPT !.links = L, !.backends = B].redirect = c.redirect
    BY <1>3
  <2>3. AddLink(c, rules[id].input).redirect = c.redirect
    BY <2>2 DEF AddLink
  <2>4. Redirected(w, c.redirect) = c.redirect
    BY <1>4 DEF Redirected
  <2>5. QED
    BY <2>1, <2>3, <2>4
<1>5. CASE worker[w].task.kind = "delete"
  <2>1. Edited(c, w) = RemoveLink(c, id, worker[w].redirect)
    BY <1>5 DEF Edited
  <2>2. RemoveLink(c, id, worker[w].redirect).redirect
          = (c.redirect /\ ~(rules[id].input.protocol = "https" /\ worker[w].redirect))
    BY DEF RemoveLink
  <2>3. Redirected(w, c.redirect)
          = (c.redirect /\ ~(rules[id].input.protocol = "https" /\ worker[w].redirect))
    BY <1>5 DEF Redirected
  <2>4. QED
    BY <1>2, <2>1, <2>2, <2>3
<1>6. CASE worker[w].task.kind = "redirect"
  <2>1. Edited(c, w) = [c EXCEPT !.redirect = worker[w].task.on]
    BY <1>6 DEF Edited
  <2>2. Edited(c, w).redirect = worker[w].task.on
    BY <1>3, <2>1
  <2>3. Redirected(w, c.redirect) = worker[w].task.on
    BY <1>6 DEF Redirected
  <2>4. QED
    BY <1>1, <1>6, <2>2, <2>3
<1>7. QED
  BY <1>1, <1>4, <1>5, <1>6

(* There is one rule of https, *)
SoleHttps ==
  \A id, other \in Rows :
    rules[id].input.protocol = "https" /\ rules[other].input.protocol = "https" => id = other

(* no other redirects, *)
OnlyHttps ==
  \A id \in DOMAIN rules, p \in Proxies : Redirecting(id, p) => rules[id].input.protocol = "https"

(* and the task that runs of a rule is the only one. *)
RowsAt ==
  \A w \in Workers, p \in Proxies : Busy(w) =>
    /\ worker[w].task.rule \in Rows
    /\ Redirecting(worker[w].task.rule, p) <=>
         IF DoneAt(w, p) /\ worker[w].task.kind # "apply"
         THEN worker[w].task.kind = "redirect" /\ worker[w].task.on
         ELSE rules[worker[w].task.rule].redirect

(* So it is while nothing goes wrong. *)
LEMMA Calm ==
  Shape /\ WorkersAreSound /\ NoOverlap /\ PortsAreDistinct /\ RedirectsAreHttps /\ trouble = {}
    => SoleHttps /\ OnlyHttps /\ RowsAt
<1> SUFFICES ASSUME Shape, WorkersAreSound, NoOverlap, PortsAreDistinct, RedirectsAreHttps, trouble = {}
             PROVE  SoleHttps /\ OnlyHttps /\ RowsAt
  OBVIOUS
<1>1. ASSUME NEW id \in Rows, NEW other \in Rows,
             rules[id].input.protocol = "https", rules[other].input.protocol = "https"
      PROVE  id = other
  <2>1. rules[id].input \in Inputs /\ rules[other].input \in Inputs
    BY RowFacts DEF Rows
  <2>2. rules[id].input.port = 443 /\ rules[other].input.port = 443
    BY <1>1, <2>1, InputAssumption
  <2>3. Mode(rules[id].input) = "http" /\ Mode(rules[other].input) = "http"
    BY <1>1 DEF Mode
  <2>4. QED
    BY <2>2, <2>3 DEF PortsAreDistinct
<1>2. OnlyHttps
  BY DEF OnlyHttps, WorkersAreSound, RedirectsAreHttps, Redirecting, Changed, DoneAt
<1>3. ASSUME NEW w \in Workers, NEW p \in Proxies, Busy(w)
      PROVE  /\ worker[w].task.rule \in Rows
             /\ Redirecting(worker[w].task.rule, p) <=>
                  IF DoneAt(w, p) /\ worker[w].task.kind # "apply"
                  THEN worker[w].task.kind = "redirect" /\ worker[w].task.on
                  ELSE rules[worker[w].task.rule].redirect
  <2>1. \A v \in Workers : Changed(v, worker[w].task.rule, p) => v = w
    BY <1>3 DEF NoOverlap, Changed, DoneAt
  <2>2. Changed(w, worker[w].task.rule, p) <=> DoneAt(w, p) /\ worker[w].task.kind # "apply"
    BY DEF Changed
  <2>3. worker[w].task.rule \in Rows
    BY <1>3 DEF NoOverlap, Rows, Live
  <2>4. QED
    BY <2>1, <2>2, <2>3 DEF Redirecting
<1>4. QED
  BY <1>1, <1>2, <1>3 DEF SoleHttps, RowsAt

(* A step that leaves what worker v has done to proxy p. *)
Leaves(v, p) == /\ DoneAt(v, p)' <=> DoneAt(v, p)
                /\ DoneAt(v, p)' => worker'[v].task = worker[v].task

(* A worker that goes nowhere. *)
LEMMA AlikeIsLeft ==
  ASSUME WorkersAreSound, InputsStay, NEW v \in Workers, NEW p \in Proxies,
         worker'[v].task = worker[v].task, worker'[v].pc = worker[v].pc,
         worker'[v].failed = worker[v].failed,
         p \in DOMAIN worker'[v].tx <=> p \in Opened(v)
  PROVE  Leaves(v, p)
<1>1. Busy(v)' <=> Busy(v)
  BY DEF Busy
<1>2. CASE Busy(v)
  <2>1. Direct(v)' <=> Direct(v)
    BY <1>2 DEF WorkersAreSound, InputsStay, Direct
  <2>2. p \in Opened(v)' <=> p \in Opened(v)
    BY DEF Opened
  <2>3. DoneAt(v, p)' <=> DoneAt(v, p)
    BY <1>1, <2>1, <2>2 DEF DoneAt
  <2>4. QED
    BY <2>3 DEF Leaves
<1>3. CASE ~Busy(v)
  BY <1>1, <1>3 DEF Leaves, DoneAt
<1>4. QED
  BY <1>2, <1>3

(* The rules that a step is not about. *)
LEMMA OtherRowsStay ==
  ASSUME NEW p \in Proxies, NEW id, rules'[id].redirect = rules[id].redirect,
         \A v \in Workers : Leaves(v, p) \/ (~Changed(v, id, p) /\ ~Changed(v, id, p)')
  PROVE  Redirecting(id, p)' <=> Redirecting(id, p)
<1>1. \A v \in Workers : Changed(v, id, p)' <=> Changed(v, id, p)
  BY DEF Leaves, Changed
<1>2. \A v \in Workers : Changed(v, id, p)' => Changed(v, id, p) /\ worker'[v].task = worker[v].task
  <2>1. \A v \in Workers : Changed(v, id, p)' => Changed(v, id, p) /\ DoneAt(v, p)'
    BY <1>1 DEF Changed
  <2>2. QED
    BY <2>1 DEF Leaves
<1>3. (\E v \in Workers : Changed(v, id, p))' <=> \E v \in Workers : Changed(v, id, p)
  BY <1>1
<1>4. (\E v \in Workers : Changed(v, id, p) /\ worker[v].task.kind = "redirect" /\ worker[v].task.on)'
        <=> \E v \in Workers : Changed(v, id, p) /\ worker[v].task.kind = "redirect" /\ worker[v].task.on
  BY <1>1, <1>2
<1>5. QED
  BY <1>3, <1>4 DEF Redirecting

(* A row that redirects is one of https, whatever wrote it last. *)
LEMMA RedirectsAreHttpsStep ==
  ASSUME Shape, RequestsAreSound, WorkersAreSound, RedirectsAreHttps, Next \/ UNCHANGED vars
  PROVE  RedirectsAreHttps'
<1> SUFFICES ASSUME NEW id \in DOMAIN rules', rules'[id].redirect
             PROVE  rules'[id].input.protocol = "https"
  BY DEF RedirectsAreHttps
<1>1. CASE id \in DOMAIN rules
  <2>1. /\ rules'[id].input = rules[id].input
        /\ \/ rules'[id].redirect = rules[id].redirect
           \/ \E w \in Workers : FinishRedirect(w) /\ worker[w].task.rule = id
    BY <1>1, RowsStep
  <2>2. ASSUME NEW w \in Workers, FinishRedirect(w), worker[w].task.rule = id
        PROVE  rules[id].input.protocol = "https"
    BY <2>2 DEF FinishRedirect, Done, WorkersAreSound, Busy
  <2>3. QED
    BY <1>1, <2>1, <2>2 DEF RedirectsAreHttps
<1>2. CASE id \notin DOMAIN rules
  <2>1. PICK r \in Resolvers : Insert(r)
    BY <1>2, RowsStep
  <2>2. QED
    BY <1>2, <2>1, RowIsInserted
<1>3. QED
  BY <1>1, <1>2

(* A deletion reads the redirect of its row, which only a redirect task writes          *)
(* (process_ingress_rule_delete_request.go:132).                                       *)
LEMMA RedirectIsReadStep ==
  ASSUME Shape, RequestsAreSound, WorkersAreSound, NoOverlap, RedirectIsRead, Moves,
         Next \/ UNCHANGED vars
  PROVE  RedirectIsRead'
<1> SUFFICES ASSUME trouble' = {}, NEW v \in Workers, Busy(v)', worker'[v].task.kind = "delete"
             PROVE  worker'[v].redirect <=> rules'[worker'[v].task.rule].redirect
  BY DEF RedirectIsRead
<1>1. trouble = {}
  BY TroubleGrows
<1>2. CASE Same(v)
  <2>1. PICK id \in DOMAIN rules : id = worker[v].task.rule
    BY <1>2 DEF Same, WorkersAreSound
  <2>2. /\ worker'[v].task.rule = id /\ worker[v].task.kind = "delete" /\ Busy(v)
        /\ worker'[v].redirect = worker[v].redirect
    BY <1>2, <2>1 DEF Same
  <2>3. worker[v].redirect <=> rules[id].redirect
    BY <1>1, <2>1, <2>2 DEF RedirectIsRead
  <2>4. ASSUME NEW u \in Workers, FinishRedirect(u), worker[u].task.rule = id PROVE FALSE
    <3>1. Busy(u) /\ worker[u].task.kind = "redirect"
      BY <2>4 DEF FinishRedirect, Done, Busy
    <3>2. u = v
      BY <1>1, <2>1, <2>2, <2>4, <3>1 DEF NoOverlap
    <3>3. QED
      BY <2>2, <3>1, <3>2
  <2>5. rules'[id].redirect = rules[id].redirect
    <3>1. \/ rules'[id].redirect = rules[id].redirect
          \/ \E u \in Workers : FinishRedirect(u) /\ worker[u].task.rule = id
      BY RowsStep
    <3>2. QED
      BY <2>4, <3>1
  <2>6. QED
    BY <2>2, <2>3, <2>5
<1>3. CASE Started(v)
  <2>1. PICK t \in Tasks : Start(v, t) /\ Wanted(t) /\ worker'[v].task = t
    BY <1>3 DEF Started
  <2>2. worker'[v].redirect = rules[t.rule].redirect /\ rules' = rules
    <3>1. rules' = rules
      BY <2>1 DEF Start
    <3>2. QED
      BY <2>1, <3>1, StartEffect
  <2>3. QED
    BY <2>1, <2>2
<1>4. QED
  BY <1>2, <1>3 DEF Moves

(* The copies: what the UDP proxy does beside HAProxy redirects nothing. *)
LEMMA CopiesRedirectStep ==
  ASSUME Shape, WorkersAreSound, CopiesRedirect, InputsStay, Moves
  PROVE  CopiesRedirect'
<1> SUFFICES ASSUME NEW w \in Workers, NEW p \in Proxies, Current(w, p)'
             PROVE  worker'[w].tx[p].conf.redirect <=> Redirected(w, conf[p].redirect)'
  BY DEF CopiesRedirect
<1>1. \/ /\ Same(w) /\ Current(w, p)
         /\ worker'[w].tx[p].conf = worker[w].tx[p].conf
         /\ conf'[p] = conf[p] \/ \E v \in Workers : Begin(v, p) /\ Direct(v)
      \/ /\ Begin(w, p) /\ ~Direct(w) /\ Same(w) /\ conf' = conf
         /\ worker'[w].tx[p].conf = Edited(conf[p], w)
  BY DEF Moves
<1>2. /\ rules'[worker'[w].task.rule].input = rules[worker[w].task.rule].input
      /\ worker'[w].task = worker[w].task /\ Busy(w) /\ worker'[w].redirect = worker[w].redirect
  BY <1>1, DirectStays DEF Same
<1>3. /\ worker[w].task.kind \in {"apply", "delete", "redirect"} /\ conf[p] \in Confs
  BY <1>2, TaskFacts DEF Shape
<1>4. ASSUME conf'[p].redirect <=> conf[p].redirect
      PROVE  Redirected(w, conf[p].redirect)' <=> Redirected(w, conf[p].redirect)
  <2>1. CASE worker[w].task.kind = "apply"
    <3>1. Redirected(w, conf[p].redirect)' = conf'[p].redirect
      BY <1>2, <2>1 DEF Redirected
    <3>2. Redirected(w, conf[p].redirect) = conf[p].redirect
      BY <2>1 DEF Redirected
    <3>3. QED
      BY <1>4, <3>1, <3>2
  <2>2. CASE worker[w].task.kind = "delete"
    <3>1. Redirected(w, conf[p].redirect)'
            = (conf'[p].redirect /\ ~(rules[worker[w].task.rule].input.protocol = "https" /\ worker[w].redirect))
      BY <1>2, <2>2 DEF Redirected
    <3>2. Redirected(w, conf[p].redirect)
            = (conf[p].redirect /\ ~(rules[worker[w].task.rule].input.protocol = "https" /\ worker[w].redirect))
      BY <2>2 DEF Redirected
    <3>3. QED
      BY <1>4, <3>1, <3>2
  <2>3. CASE worker[w].task.kind = "redirect"
    <3>1. Redirected(w, conf[p].redirect)' = worker[w].task.on
      BY <1>2, <2>3 DEF Redirected
    <3>2. Redirected(w, conf[p].redirect) = worker[w].task.on
      BY <2>3 DEF Redirected
    <3>3. QED
      BY <3>1, <3>2
  <2>4. QED
    BY <1>3, <2>1, <2>2, <2>3
<1>5. ASSUME NEW v \in Workers, Begin(v, p), Direct(v)
      PROVE  conf'[p].redirect <=> conf[p].redirect
  <2>1. Busy(v) /\ conf'[p] = Edited(conf[p], v)
    BY <1>5, DirectEdit
  <2>2. QED
    BY <1>3, <1>5, <2>1, EditedRedirect
<1>6. CASE /\ Same(w) /\ Current(w, p)
           /\ worker'[w].tx[p].conf = worker[w].tx[p].conf
           /\ conf'[p] = conf[p] \/ \E v \in Workers : Begin(v, p) /\ Direct(v)
  <2>1. conf'[p].redirect <=> conf[p].redirect
    BY <1>5, <1>6
  <2>2. QED
    BY <1>4, <1>6, <2>1 DEF CopiesRedirect
<1>7. CASE /\ Begin(w, p) /\ ~Direct(w) /\ Same(w) /\ conf' = conf
           /\ worker'[w].tx[p].conf = Edited(conf[p], w)
  <2>1. Edited(conf[p], w).redirect <=> Redirected(w, conf[p].redirect)
    BY <1>2, <1>3, EditedRedirect
  <2>2. QED
    BY <1>4, <1>7, <2>1
<1>8. QED
  BY <1>1, <1>6, <1>7

(* The steps after which nothing has gone wrong. *)
Waits(w) == MarkRedirect(w) \/ \E t \in Tasks : Start(w, t) /\ Wanted(t)
Ends(w)  == FinishApply(w) \/ FinishDelete(w) \/ FinishRedirect(w)

(* All other steps touch no task and no proxy. *)
LEMMA CalmSteps ==
  ASSUME Shape, WorkersAreSound, Next \/ UNCHANGED vars, trouble' = {}
  PROVE  \/ worker' = worker /\ conf' = conf
         \/ \E w \in Workers : \/ Waits(w) \/ Ends(w)
                              \/ \E p \in Proxies : Begin(w, p) \/ CommitTransaction(w, p)
<1>1. UNCHANGED vars => worker' = worker /\ conf' = conf
  BY DEF vars
<1>2. ASSUME NEW r \in Resolvers, Resolve(r) PROVE worker' = worker /\ conf' = conf
  <2>1. ASSUME NEW i \in Inputs, ValidateNew(r, i) PROVE worker' = worker /\ conf' = conf
    BY <2>1 DEF ValidateNew
  <2>2. Enqueue(r) \/ Insert(r) => worker' = worker /\ conf' = conf
    BY DEF Enqueue, Insert
  <2>3. ASSUME NEW id \in Ids, \/ RecreateIngressRule(r, id) \/ DeleteIngressRule(r, id)
                               \/ EnableHTTPSRedirect(r, id) \/ DisableHTTPSRedirect(r, id)
        PROVE  worker' = worker /\ conf' = conf
    BY <2>3 DEF RecreateIngressRule, DeleteIngressRule, EnableHTTPSRedirect, DisableHTTPSRedirect
  <2>4. QED
    BY <1>2, <2>1, <2>2, <2>3 DEF Resolve
<1>3. ASSUME Crash PROVE worker' = worker /\ conf' = conf
  <2>1. worker' = [w \in Workers |-> Idle] /\ conf' = conf
    BY <1>3 DEF Crash
  <2>2. \A w \in Workers : worker[w] = Idle
    BY <1>3 DEF Crash
  <2>3. QED
    BY <2>1, <2>2 DEF Shape
<1>4. ASSUME NEW w \in Workers, Redeliver(w) PROVE worker' = worker /\ conf' = conf
  BY <1>4 DEF Redeliver
<1>5. ASSUME NEW w \in Workers, NEW t \in Tasks, Start(w, t), ~Wanted(t)
      PROVE  worker' = worker /\ conf' = conf
  BY <1>5 DEF Start
<1>6. ASSUME NEW w \in Workers, Work(w)
      PROVE  Waits(w) \/ Ends(w) \/ \E p \in Proxies : Begin(w, p) \/ CommitTransaction(w, p)
  <2>1. ~BeginFails(w) /\ ~SaveFails(w) /\ \A p \in Proxies : ~BeginWithoutId(w, p) /\ ~CommitFails(w, p)
    BY DEF BeginFails, SaveFails, BeginWithoutId, CommitFails
  <2>2. QED
    BY <1>6, <2>1 DEF Work, Waits, Ends
<1>7. QED
  BY <1>1, <1>2, <1>3, <1>4, <1>5, <1>6 DEF Next, Waits

(* A transaction and its edit: the effect on the workers. *)
LEMMA BeginEffect ==
  ASSUME Shape, WorkersAreSound, NEW w \in Workers, NEW p \in Proxies, Begin(w, p)
  PROVE  /\ Busy(w) /\ worker[w].pc = "begin" /\ p \notin Opened(w)
         /\ \A v \in Workers : v # w => worker'[v] = worker[v]
         /\ worker'[w].task = worker[w].task /\ worker'[w].failed = worker[w].failed
         /\ DOMAIN worker'[w].tx = Opened(w) \cup {p}
         /\ worker'[w].pc = IF Opened(w) \cup {p} = Proxies THEN After(w) ELSE "begin"
         /\ rules' = rules /\ \A q \in Proxies : q # p \/ ~Direct(w) => conf'[q] = conf[q]
<1> DEFINE tr == [conf |-> Edited(conf[p], w), stale |-> FALSE]
<1>1. /\ Busy(w) /\ worker[w].pc = "begin" /\ p \notin Opened(w) /\ Open(w, p, tr) /\ rules' = rules
      /\ conf' = IF Direct(w) THEN [conf EXCEPT ![p] = Edited(conf[p], w)] ELSE conf
  BY DEF Begin, Busy
<1>2. conf[p] \in Confs /\ Edited(conf[p], w) \in Confs
  BY <1>1, EditedIs DEF Shape
<1>3. tr \in [conf : Confs, stale : BOOLEAN]
  BY <1>2
<1> HIDE DEF tr
<1>4. \A q \in Proxies : q # p \/ ~Direct(w) => conf'[q] = conf[q]
  BY <1>1 DEF Shape
<1>5. QED
  BY <1>1, <1>3, <1>4, OpenEffect

(* No task has failed, and each has its transactions before it writes the row. *)
LEMMA UndisturbedStep ==
  ASSUME Shape, WorkersAreSound, Undisturbed, Next \/ UNCHANGED vars
  PROVE  Undisturbed'
<1> SUFFICES ASSUME trouble' = {}, NEW v \in Workers
             PROVE  ~worker'[v].failed /\ (worker'[v].pc = "mark" => DOMAIN worker'[v].tx = Proxies)
  BY DEF Undisturbed, Opened
<1>1. trouble = {}
  BY TroubleGrows
<1>2. ~worker[v].failed /\ (worker[v].pc = "mark" => DOMAIN worker[v].tx = Proxies)
  BY <1>1 DEF Undisturbed, Opened
<1>3. CASE worker'[v] = worker[v] \/ worker'[v] = Idle
  BY <1>2, <1>3, IdleFacts
<1>4. ASSUME NEW w \in Workers, Waits(w)
      PROVE  worker'[v] = worker[v] \/ (~worker'[v].failed /\ worker'[v].pc # "mark")
  <2>1. CASE MarkRedirect(w)
    BY <1>2, <2>1, MarkEffect
  <2>2. ASSUME NEW t \in Tasks, Start(w, t)
        PROVE  worker'[v] = worker[v] \/ (~worker'[v].failed /\ worker'[v].pc # "mark")
    BY <2>2, StartEffect
  <2>3. QED
    BY <1>4, <2>1, <2>2 DEF Waits
<1>5. ASSUME NEW w \in Workers, Ends(w)
      PROVE  worker'[v] = worker[v] \/ worker'[v] = Idle
  BY <1>5, EndEffect DEF Ends
<1>6. ASSUME NEW w \in Workers, NEW p \in Proxies, Begin(w, p)
      PROVE  \/ worker'[v] = worker[v]
             \/ ~worker'[v].failed /\ (worker'[v].pc = "mark" => DOMAIN worker'[v].tx = Proxies)
  BY <1>2, <1>6, BeginEffect
<1>7. ASSUME NEW w \in Workers, NEW p \in Proxies, CommitTransaction(w, p)
      PROVE  ~worker'[v].failed /\ (worker'[v].pc = "mark" => DOMAIN worker'[v].tx = Proxies)
  <2>1. /\ worker'[v].failed = worker[v].failed /\ worker'[v].pc = worker[v].pc
        /\ v # w => DOMAIN worker'[v].tx = DOMAIN worker[v].tx
    BY <1>7, CommitEffect DEF Opened
  <2>2. worker[w].pc = "commit"
    BY <1>7 DEF CommitTransaction
  <2>3. QED
    BY <1>2, <2>1, <2>2
<1>8. QED
  BY <1>3, <1>4, <1>5, <1>6, <1>7, CalmSteps

(* The rows that are there, and what they say, when a task ends. *)
LEMMA EndOfTask ==
  ASSUME Shape, RequestsAreSound, WorkersAreSound, NEW w \in Workers, Ends(w), Next \/ UNCHANGED vars
  PROVE  /\ DOMAIN rules' = DOMAIN rules
         /\ \A id \in DOMAIN rules : id # worker[w].task.rule =>
              rules'[id].redirect = rules[id].redirect /\ (Live(id)' <=> Live(id))
<1>1. /\ worker'[w] = Idle /\ Busy(w) /\ worker'[w] # worker[w]
      /\ \A v \in Workers : v # w => worker'[v] = worker[v]
  BY EndEffect, IdleFacts DEF Ends, Busy
<1>2. ASSUME NEW u \in Workers, Ends(u) PROVE u = w
  <2>1. worker'[u] = Idle /\ Busy(u)
    BY <1>2, EndEffect DEF Ends
  <2>2. worker'[u] # worker[u]
    BY <2>1, IdleFacts DEF Busy
  <2>3. QED
    BY <1>1, <2>2
<1>3. DOMAIN rules' = DOMAIN rules
  <2>1. ASSUME NEW r \in Resolvers, Insert(r) PROVE FALSE
    BY <1>1, <2>1 DEF Insert
  <2>2. QED
    BY <2>1, RowsStep
<1>4. ASSUME NEW id \in DOMAIN rules, id # worker[w].task.rule
      PROVE  rules'[id].redirect = rules[id].redirect /\ (Live(id)' <=> Live(id))
  BY <1>2, <1>4, RowsStep DEF Ends
<1>5. QED
  BY <1>3, <1>4

(* and its own row. *)
LEMMA OwnRowEnds ==
  ASSUME Shape, WorkersAreSound, NEW w \in Workers, Ends(w), ~worker[w].failed,
         NEW id \in Rows, id = worker[w].task.rule
  PROVE  /\ worker[w].task.kind = "apply"    => Live(id)' /\ rules'[id].redirect = rules[id].redirect
         /\ worker[w].task.kind = "delete"   => ~Live(id)'
         /\ worker[w].task.kind = "redirect" => Live(id)' /\ rules'[id].redirect = worker[w].task.on
<1>1. id \in DOMAIN rules /\ Live(id)
  BY DEF Rows
<1>2. CASE FinishApply(w) \/ FinishDelete(w)
  <2>1. PICK s \in Statuses : /\ rules' = [rules EXCEPT ![id].status = s]
                             /\ \/ worker[w].task.kind = "apply" /\ s # "gone"
                                \/ worker[w].task.kind = "delete" /\ s = "gone"
    BY <1>1, <1>2 DEF FinishApply, FinishDelete, SetStatus, Statuses
  <2>2. /\ DOMAIN rules' = DOMAIN rules /\ rules'[id].status = s
        /\ rules'[id].redirect = rules[id].redirect
    BY <1>1, <2>1, StatusChanges
  <2>3. QED
    BY <1>1, <2>1, <2>2 DEF Live
<1>3. CASE FinishRedirect(w)
  <2>1. /\ worker[w].task.kind = "redirect" /\ worker[w].task.on \in BOOLEAN
        /\ rules' = [rules EXCEPT ![id].redirect = worker[w].task.on]
    BY <1>1, <1>3, TaskFacts DEF FinishRedirect, Done, Busy
  <2>2. /\ DOMAIN rules' = DOMAIN rules /\ rules'[id].status = rules[id].status
        /\ rules'[id].redirect = worker[w].task.on
    BY <1>1, <2>1, RedirectChanges
  <2>3. QED
    BY <1>1, <2>1, <2>2 DEF Live
<1>4. QED
  BY <1>2, <1>3 DEF Ends

(* No task is touched, and a row that comes or is to go redirects as before. *)
LEMMA StillAgrees ==
  ASSUME Shape, RequestsAreSound, WorkersAreSound, InputsStay, Next \/ UNCHANGED vars,
         worker' = worker, NEW p \in Proxies
  PROVE  (\E id \in Rows : Redirecting(id, p))' <=> \E id \in Rows : Redirecting(id, p)
<1>1. \A w \in Workers : ~Ends(w)
  BY EndEffect, IdleFacts DEF Ends, Busy
<1>2. \A id \in DOMAIN rules : /\ id \in DOMAIN rules' /\ rules'[id].redirect = rules[id].redirect
                               /\ Live(id)' <=> Live(id)
  BY <1>1, RowsStep DEF Ends
<1>3. \A v \in Workers : Leaves(v, p)
  BY AlikeIsLeft DEF Opened
<1>4. \A id \in DOMAIN rules : Redirecting(id, p)' <=> Redirecting(id, p)
  BY <1>2, <1>3, OtherRowsStay
<1>5. ASSUME NEW id \in DOMAIN rules', id \notin DOMAIN rules PROVE ~Redirecting(id, p)'
  <2>1. PICK r \in Resolvers : Insert(r)
    BY <1>5, RowsStep
  <2>2. ~rules'[id].redirect
    BY <1>5, <2>1, RowIsInserted
  <2>3. \A v \in Workers : ~Changed(v, id, p)'
    <3>1. \A v \in Workers : Busy(v) => worker[v].task.rule # id
      BY <1>5 DEF WorkersAreSound
    <3>2. QED
      BY <3>1 DEF Changed, DoneAt, Busy
  <2>4. QED
    BY <2>2, <2>3 DEF Redirecting
<1>6. QED
  BY <1>2, <1>4, <1>5 DEF Rows

(* A step that leaves every task where it was. *)
LEMMA LeftAgrees ==
  ASSUME rules' = rules, NEW p \in Proxies, \A v \in Workers : Leaves(v, p)
  PROVE  (\E id \in Rows : Redirecting(id, p))' <=> \E id \in Rows : Redirecting(id, p)
<1>1. Rows' = Rows
  BY DEF Rows, Live
<1>2. \A id \in Rows : Redirecting(id, p)' <=> Redirecting(id, p)
  BY OtherRowsStay
<1>3. QED
  BY <1>1, <1>2

(* A task ends: its row says what it has done, or is gone. *)
LEMMA EndAgrees ==
  ASSUME Shape, RequestsAreSound, WorkersAreSound, InputsStay, NoOverlap, Undisturbed, RowsAt,
         trouble = {}, Next \/ UNCHANGED vars, NEW w \in Workers, Ends(w), NEW p \in Proxies
  PROVE  /\ conf'[p] = conf[p]
         /\ (\E id \in Rows : Redirecting(id, p))' <=> \E id \in Rows : Redirecting(id, p)
<1>i. PICK i \in DOMAIN rules : i = worker[w].task.rule
  BY EndEffect DEF Ends, WorkersAreSound
<1>1. /\ worker'[w] = Idle /\ conf' = conf /\ Busy(w) /\ Done(w) /\ ~worker[w].failed
      /\ \A v \in Workers : v # w => worker'[v] = worker[v]
  BY EndEffect DEF Ends, Undisturbed
<1>2. DoneAt(w, p) /\ ~DoneAt(w, p)' /\ i \in Rows
  BY <1>i, <1>1, IdleFacts DEF Done, DoneAt, Busy, RowsAt
<1>3. \A v \in Workers : v # w => Leaves(v, p)
  BY <1>1, AlikeIsLeft DEF Opened
<1>4. DOMAIN rules' = DOMAIN rules
      /\ \A id \in DOMAIN rules : id # i =>
           rules'[id].redirect = rules[id].redirect /\ (Live(id)' <=> Live(id))
  BY <1>i, EndOfTask
<1>5. \A id \in DOMAIN rules : id # i => (Redirecting(id, p)' <=> Redirecting(id, p))
  <2>1. \A id \in DOMAIN rules : id # i => ~Changed(w, id, p) /\ ~Changed(w, id, p)'
    BY <1>i, <1>2 DEF Changed
  <2>2. QED
    BY <1>3, <1>4, <2>1, OtherRowsStay
<1>6. Redirecting(i, p)' <=> rules'[i].redirect
  <2>1. \A v \in Workers : v # w /\ Busy(v) => worker[v].task.rule # i
    BY <1>i, <1>1 DEF NoOverlap
  <2>2. \A v \in Workers : ~Changed(v, i, p)'
    BY <1>1, <1>2, <2>1 DEF Changed, DoneAt, Busy
  <2>3. QED
    BY <2>2 DEF Redirecting
<1>7. Redirecting(i, p) <=> IF worker[w].task.kind # "apply"
                            THEN worker[w].task.kind = "redirect" /\ worker[w].task.on
                            ELSE rules[i].redirect
  BY <1>i, <1>1, <1>2 DEF RowsAt
<1>8. /\ worker[w].task.kind = "apply"    => Live(i)' /\ rules'[i].redirect = rules[i].redirect
      /\ worker[w].task.kind = "delete"   => ~Live(i)'
      /\ worker[w].task.kind = "redirect" => Live(i)' /\ rules'[i].redirect = worker[w].task.on
  BY <1>i, <1>1, <1>2, OwnRowEnds
<1>9. worker[w].task.kind \in {"apply", "delete", "redirect"} /\ Live(i)
  BY <1>1, <1>2, TaskFacts DEF Rows
<1>10. (i \in Rows' /\ Redirecting(i, p)') <=> Redirecting(i, p)
  BY <1>4, <1>6, <1>7, <1>8, <1>9 DEF Rows
<1>11. \A id : id # i => (id \in Rows' /\ Redirecting(id, p)' <=> id \in Rows /\ Redirecting(id, p))
  BY <1>4, <1>5 DEF Rows
<1>12. QED
  BY <1>1, <1>2, <1>10, <1>11

(* A task reaches a proxy, which redirects as the task has it. *)
LEMMA ReachAgrees ==
  ASSUME Shape, WorkersAreSound, SoleHttps, OnlyHttps, RowsAt, RowsAt', OnlyHttps', RedirectIsRead,
         trouble = {}, rules' = rules, NEW w \in Workers, NEW p \in Proxies, Same(w),
         ~DoneAt(w, p), DoneAt(w, p)', \A v \in Workers : v # w => Leaves(v, p),
         conf'[p].redirect <=> Redirected(w, conf[p].redirect),
         conf[p].redirect <=> \E id \in Rows : Redirecting(id, p)
  PROVE  conf'[p].redirect <=> (\E id \in Rows : Redirecting(id, p))'
<1>i. PICK i \in DOMAIN rules : i = worker[w].task.rule
  BY DEF Same, WorkersAreSound
<1>1. /\ Busy(w) /\ Busy(w)' /\ worker'[w].task = worker[w].task /\ i \in Rows
      /\ worker[w].task.kind \in {"apply", "delete", "redirect"} /\ Rows' = Rows
      /\ worker[w].task.kind = "redirect" => rules[i].input.protocol = "https"
  BY <1>i, TaskFacts DEF Same, RowsAt, Rows, Live, WorkersAreSound
<1>2. Redirecting(i, p) <=> rules[i].redirect
  BY <1>i, <1>1 DEF RowsAt
<1>3. Redirecting(i, p)' <=> IF worker[w].task.kind # "apply"
                             THEN worker[w].task.kind = "redirect" /\ worker[w].task.on
                             ELSE rules[i].redirect
  BY <1>i, <1>1 DEF RowsAt
<1>4. \A id \in Rows : id # i => (Redirecting(id, p)' <=> Redirecting(id, p))
  <2>1. \A id : id # i => ~Changed(w, id, p) /\ ~Changed(w, id, p)'
    BY <1>i, <1>1 DEF Changed
  <2>2. QED
    BY <2>1, OtherRowsStay
<1>5. CASE rules[i].input.protocol = "https"
  <2>1. (\E id \in Rows : Redirecting(id, p)) <=> Redirecting(i, p)
    BY <1>1, <1>5 DEF SoleHttps, OnlyHttps, Rows
  <2>2. (\E id \in Rows : Redirecting(id, p))' <=> Redirecting(i, p)'
    <3>1. \A id \in Rows : id # i => rules[id].input.protocol # "https"
      BY <1>1, <1>5 DEF SoleHttps
    <3>2. \A id \in Rows : id # i => ~Redirecting(id, p)
      BY <3>1 DEF OnlyHttps, Rows
    <3>3. QED
      BY <1>1, <1>4, <3>2
  <2>3. CASE worker[w].task.kind = "apply"
    <3>1. Redirected(w, conf[p].redirect) = conf[p].redirect
      BY <2>3 DEF Redirected
    <3>2. QED
      BY <1>2, <1>3, <2>1, <2>2, <2>3, <3>1
  <2>4. CASE worker[w].task.kind = "delete"
    <3>1. Redirected(w, conf[p].redirect)
            = (conf[p].redirect /\ ~(rules[i].input.protocol = "https" /\ worker[w].redirect))
      BY <1>i, <2>4 DEF Redirected
    <3>2. worker[w].redirect <=> rules[i].redirect
      BY <1>i, <1>1, <2>4 DEF RedirectIsRead
    <3>3. QED
      BY <1>2, <1>3, <1>5, <2>1, <2>2, <2>4, <3>1, <3>2
  <2>5. CASE worker[w].task.kind = "redirect"
    <3>1. Redirected(w, conf[p].redirect) = worker[w].task.on
      BY <2>5 DEF Redirected
    <3>2. QED
      BY <1>3, <2>2, <2>5, <3>1
  <2>6. QED
    BY <1>1, <2>3, <2>4, <2>5
<1>6. CASE rules[i].input.protocol # "https"
  <2>1. ~Redirecting(i, p) /\ ~Redirecting(i, p)'
    BY <1>1, <1>6 DEF OnlyHttps
  <2>2. (\E id \in Rows : Redirecting(id, p))' <=> \E id \in Rows : Redirecting(id, p)
    BY <1>1, <1>4, <2>1
  <2>3. Redirected(w, conf[p].redirect) <=> conf[p].redirect
    <3>1. CASE worker[w].task.kind = "apply"
      <4>1. Redirected(w, conf[p].redirect) = conf[p].redirect
        BY <3>1 DEF Redirected
      <4>2. QED
        BY <4>1
    <3>2. CASE worker[w].task.kind = "delete"
      <4>1. Redirected(w, conf[p].redirect)
              = (conf[p].redirect /\ ~(rules[i].input.protocol = "https" /\ worker[w].redirect))
        BY <1>i, <3>2 DEF Redirected
      <4>2. QED
        BY <1>6, <4>1
    <3>3. QED
      BY <1>1, <1>6, <3>1, <3>2
  <2>4. QED
    BY <2>2, <2>3
<1>7. QED
  BY <1>5, <1>6

(* Whichever step it is, a proxy redirects for the rules that say so, or whose task does. *)
LEMMA RedirectAgreesStep ==
  ASSUME Shape, RequestsAreSound, WorkersAreSound, NoOverlap, PortsAreDistinct, InputsStay, Moves,
         RedirectsAreHttps, Undisturbed, RedirectIsRead, CopiesRedirect, RedirectAgrees,
         Shape', WorkersAreSound', NoOverlap', PortsAreDistinct', RedirectsAreHttps',
         Next \/ UNCHANGED vars
  PROVE  RedirectAgrees'
<1> SUFFICES ASSUME trouble' = {}, NEW p \in Proxies
             PROVE  conf'[p].redirect <=> (\E id \in Rows : Redirecting(id, p))'
  BY DEF RedirectAgrees
<1>1. trouble = {}
  BY TroubleGrows
<1>2. SoleHttps /\ OnlyHttps /\ RowsAt
  BY <1>1, Calm
<1>3. (SoleHttps /\ OnlyHttps /\ RowsAt)'
  <2>1. (Shape /\ WorkersAreSound /\ NoOverlap /\ PortsAreDistinct /\ RedirectsAreHttps /\ trouble = {}
          => SoleHttps /\ OnlyHttps /\ RowsAt)'
    BY Calm, PTL
  <2>2. QED
    BY <2>1
<1>4. conf[p].redirect <=> \E id \in Rows : Redirecting(id, p)
  BY <1>1 DEF RedirectAgrees
<1>5. CASE worker' = worker /\ conf' = conf
  BY <1>4, <1>5, StillAgrees
<1>6. ASSUME rules' = rules, conf'[p] = conf[p], \A v \in Workers : Leaves(v, p)
      PROVE  conf'[p].redirect <=> (\E id \in Rows : Redirecting(id, p))'
  BY <1>4, <1>6, LeftAgrees
<1>7. \A v \in Workers : worker'[v] = worker[v] => Leaves(v, p)
  BY AlikeIsLeft DEF Opened
<1>8. ASSUME NEW w \in Workers, Waits(w)
      PROVE  conf'[p].redirect <=> (\E id \in Rows : Redirecting(id, p))'
  <2>1. CASE MarkRedirect(w)
    <3>1. /\ \A v \in Workers : v # w => worker'[v] = worker[v]
          /\ worker'[w].task = worker[w].task /\ worker'[w].tx = worker[w].tx /\ Busy(w)
      BY <2>1, MarkEffect
    <3>2. rules' = rules /\ conf' = conf /\ worker[w].pc = "mark"
      BY <2>1 DEF MarkRedirect
    <3>3. worker[w].task.kind = "redirect" /\ ~Direct(w) /\ ~Direct(w)'
      <4>1. worker[w].task.kind = "redirect"
        BY <3>2 DEF WorkersAreSound
      <4>2. ~Direct(w)
        BY <3>1, <4>1, TaskFacts
      <4>3. QED
        BY <3>1, <3>2, <4>1, <4>2 DEF Direct
    <3>4. p \in Opened(w) /\ p \in Opened(w)'
      BY <1>1, <3>1, <3>2 DEF Undisturbed, Opened
    <3>5. Leaves(w, p)
      BY <3>3, <3>4 DEF Leaves, DoneAt
    <3>6. QED
      BY <1>6, <1>7, <3>1, <3>2, <3>5
  <2>2. ASSUME NEW t \in Tasks, Start(w, t), Wanted(t)
        PROVE  conf'[p].redirect <=> (\E id \in Rows : Redirecting(id, p))'
    <3>1. /\ ~Busy(w) /\ worker'[w].pc = "begin" /\ DOMAIN worker'[w].tx = {}
          /\ \A v \in Workers : v # w => worker'[v] = worker[v]
      BY <2>2, StartEffect
    <3>2. rules' = rules /\ conf' = conf
      BY <2>2 DEF Start
    <3>3. Leaves(w, p)
      BY <3>1 DEF Leaves, DoneAt, Opened
    <3>4. QED
      BY <1>6, <1>7, <3>1, <3>2, <3>3
  <2>3. QED
    BY <1>8, <2>1, <2>2 DEF Waits
<1>9. ASSUME NEW w \in Workers, Ends(w)
      PROVE  conf'[p].redirect <=> (\E id \in Rows : Redirecting(id, p))'
  BY <1>1, <1>2, <1>4, <1>9, EndAgrees
<1>10. ASSUME NEW w \in Workers, NEW q \in Proxies, Begin(w, q)
       PROVE  conf'[p].redirect <=> (\E id \in Rows : Redirecting(id, p))'
  <2>1. /\ Busy(w) /\ worker[w].pc = "begin" /\ q \notin Opened(w)
        /\ \A v \in Workers : v # w => worker'[v] = worker[v]
        /\ worker'[w].task = worker[w].task /\ worker'[w].failed = worker[w].failed
        /\ DOMAIN worker'[w].tx = Opened(w) \cup {q}
        /\ worker'[w].pc = IF Opened(w) \cup {q} = Proxies THEN After(w) ELSE "begin"
        /\ rules' = rules /\ \A x \in Proxies : x # q \/ ~Direct(w) => conf'[x] = conf[x]
    BY <1>10, BeginEffect
  <2>2. /\ worker'[w].pc \in {"begin", "mark", "commit"} /\ ~worker[w].failed
        /\ worker'[w].pc = "commit" => Opened(w) \cup {q} = Proxies
        /\ Direct(w)' <=> Direct(w)
        /\ Opened(w)' = Opened(w) \cup {q}
    BY <1>1, <2>1 DEF After, Undisturbed, Direct, Opened
  <2>3. CASE p # q \/ ~Direct(w)
    <3>1. Leaves(w, p)
      <4>1. CASE Direct(w)
        BY <2>1, <2>2, <2>3, <4>1 DEF Leaves, DoneAt, Busy
      <4>2. CASE ~Direct(w)
        BY <2>1, <2>2, <4>2 DEF Leaves, DoneAt, Busy
      <4>3. QED
        BY <4>1, <4>2
    <3>2. QED
      BY <1>6, <1>7, <2>1, <2>3, <3>1
  <2>4. CASE p = q /\ Direct(w)
    <3>1. conf[p] \in Confs /\ conf'[p] = Edited(conf[p], w)
      BY <1>10, <2>4, DirectEdit DEF Shape
    <3>2. conf'[p].redirect <=> Redirected(w, conf[p].redirect)
      BY <2>1, <3>1, EditedRedirect
    <3>3. ~DoneAt(w, p) /\ DoneAt(w, p)'
      BY <2>1, <2>2, <2>4 DEF DoneAt, Busy
    <3>4. Same(w)
      BY <1>10, <2>1, <3>3 DEF Moves
    <3>5. QED
      BY <1>1, <1>2, <1>3, <1>4, <1>7, <2>1, <3>2, <3>3, <3>4, ReachAgrees
  <2>5. QED
    BY <2>3, <2>4
<1>11. ASSUME NEW w \in Workers, NEW q \in Proxies, CommitTransaction(w, q)
       PROVE  conf'[p].redirect <=> (\E id \in Rows : Redirecting(id, p))'
  <2>1. /\ worker[w].pc = "commit" /\ q \in Opened(w) /\ ~worker[w].tx[q].stale /\ Busy(w)
        /\ conf' = IF Direct(w) THEN conf ELSE [conf EXCEPT ![q] = Committed(conf[q], worker[w].tx[q].conf)]
        /\ rules' = rules
    BY <1>11 DEF CommitTransaction, Busy
  <2>2. /\ \A v \in Workers : /\ worker'[v].task = worker[v].task /\ worker'[v].pc = worker[v].pc
                              /\ worker'[v].failed = worker[v].failed
        /\ DOMAIN worker'[w].tx = Opened(w) \ {q}
        /\ \A v \in Workers : v # w => DOMAIN worker'[v].tx = Opened(v)
    BY <1>11, CommitEffect
  <2>3. \A v \in Workers : v # w => Leaves(v, p)
    BY <2>2, AlikeIsLeft
  <2>4. /\ Direct(w)' <=> Direct(w)
        /\ Opened(w)' = Opened(w) \ {q}
    BY <2>1, <2>2 DEF Direct, Opened
  <2>5. CASE p # q \/ Direct(w)
    <3>1. Leaves(w, p)
      <4>1. CASE Direct(w)
        BY <2>1, <2>2, <2>4, <4>1 DEF Leaves, DoneAt, Busy
      <4>2. CASE ~Direct(w)
        BY <2>2, <2>4, <2>5, <4>2 DEF Leaves, DoneAt, Busy
      <4>3. QED
        BY <4>1, <4>2
    <3>2. conf'[p] = conf[p]
      BY <2>1, <2>5 DEF Shape
    <3>3. QED
      BY <1>6, <2>1, <2>3, <3>1, <3>2
  <2>6. CASE p = q /\ ~Direct(w)
    <3>1. /\ conf[p] \in Confs /\ worker[w].tx[p].conf \in Confs
          /\ conf'[p] = Committed(conf[p], worker[w].tx[p].conf)
      BY <2>1, <2>6, TransactionFacts DEF Shape
    <3>2. worker[w].tx[p].conf.redirect <=> Redirected(w, conf[p].redirect)
      BY <2>1, <2>6 DEF CopiesRedirect, Current
    <3>3. conf'[p].redirect <=> Redirected(w, conf[p].redirect)
      BY <3>1, <3>2, CommittedIs
    <3>4. ~DoneAt(w, p) /\ DoneAt(w, p)'
      BY <1>1, <2>1, <2>2, <2>4, <2>6 DEF DoneAt, Busy, Undisturbed
    <3>5. Same(w)
      BY <1>11, <2>1, <2>2, CommitEffect DEF Same, Busy
    <3>6. QED
      BY <1>1, <1>2, <1>3, <1>4, <2>1, <2>3, <3>3, <3>4, <3>5, ReachAgrees
  <2>7. QED
    BY <2>5, <2>6
<1>12. QED
  BY <1>1, <1>5, <1>8, <1>9, <1>10, <1>11, CalmSteps

(* No proxy redirects before a rule does. *)
LEMMA RedirectInit == Init => RInv
<1> SUFFICES ASSUME Init PROVE RInv
  OBVIOUS
<1>1. /\ rules = <<>> /\ DOMAIN rules = {}
      /\ conf = [p \in Proxies |-> [links |-> {}, backends |-> {}, redirect |-> FALSE]]
      /\ worker = [w \in Workers |-> Idle]
  BY DEF Init
<1>2. \A w \in Workers : ~Busy(w) /\ ~worker[w].failed /\ worker[w].pc = "idle"
  BY <1>1, IdleFacts DEF Busy
<1>3. RedirectsAreHttps /\ Undisturbed /\ RedirectIsRead
  BY <1>1, <1>2 DEF RedirectsAreHttps, Undisturbed, RedirectIsRead
<1>4. CopiesRedirect
  BY <1>2 DEF CopiesRedirect, Current
<1>5. RedirectAgrees
  BY <1>1 DEF RedirectAgrees, Rows
<1>6. QED
  BY <1>3, <1>4, <1>5 DEF RInv

(* With IInv, this invariant is inductive. *)
LEMMA RedirectStep == IInv /\ RInv /\ [Next]_vars => RInv'
<1> SUFFICES ASSUME IInv, RInv, Next \/ UNCHANGED vars PROVE RInv'
  OBVIOUS
<1>1. /\ Shape /\ RequestsAreSound /\ WorkersAreSound /\ NoOverlap /\ PortsAreDistinct
      /\ RedirectsAreHttps /\ Undisturbed /\ RedirectIsRead /\ CopiesRedirect /\ RedirectAgrees
  BY DEF IInv, RInv
<1>2. InputsStay
  BY <1>1, RowsStep DEF InputsStay
<1>3. Moves
  BY <1>1, <1>2, NextMoves
<1>4. Shape' /\ WorkersAreSound' /\ NoOverlap' /\ PortsAreDistinct'
  BY StepSound DEF IInv
<1>5. RedirectsAreHttps' /\ Undisturbed' /\ RedirectIsRead' /\ CopiesRedirect'
  BY <1>1, <1>2, <1>3, RedirectsAreHttpsStep, UndisturbedStep, RedirectIsReadStep, CopiesRedirectStep
<1>6. RedirectAgrees'
  BY <1>1, <1>2, <1>3, <1>4, <1>5, RedirectAgreesStep
<1>7. QED
  BY <1>5, <1>6 DEF RInv

(* When nothing is left to do and nothing went wrong, the proxies redirect the domain    *)
(* exactly if its rule of https says so, however the tasks of its rules were interleaved *)
(* on however many proxies (process_ingress_rule_https_redirect.go:86-116,               *)
(* process_ingress_rule_delete_request.go:131-138).                                      *)
THEOREM RedirectsFollow == Spec => []RedirectFollowsRule
<1>1. IInv /\ RInv /\ [Next]_vars => (IInv /\ RInv)'
  BY StepSound, RedirectStep
<1>2. Init => IInv /\ RInv
  BY InitSound, RedirectInit
<1>3. RInv => RedirectFollowsRule
  <2> SUFFICES ASSUME RInv, Quiet, trouble = {}, NEW p \in Proxies
               PROVE  conf[p].redirect <=> \E id \in Rows : rules[id].redirect
    BY DEF RedirectFollowsRule
  <2>1. \A w \in Workers : ~Busy(w)
    BY IdleFacts DEF Quiet, Busy
  <2>2. \A id \in Rows : Redirecting(id, p) <=> rules[id].redirect
    BY <2>1 DEF Redirecting, Changed, DoneAt
  <2>3. QED
    BY <2>2 DEF RInv, RedirectAgrees
<1>4. QED
  BY <1>1, <1>2, <1>3, PTL DEF Spec
=============================================================================
