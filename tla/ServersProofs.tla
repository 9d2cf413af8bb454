--------------------------- MODULE ServersProofs ----------------------------
(***************************************************************************)
(* The safety invariants of Servers, for every set of servers, resolvers   *)
(* and workers and all bounds. What has to be known in every state: what   *)
(* became of a row since a copy of it was read, who is between a call of   *)
(* docker and the save of the row, and which servers the next one can join.*)
(***************************************************************************)
EXTENDS Servers, TLAPS

(* What a goroutine is doing, and with what. *)
ResolverPcs == {"count", "choose", "hostname", "call", "save", "enqueue", "leave", "delete"}
SetupPcs    == {"choose", "init", "leave", "joining", "succeeded", "failed", "store"}
Places      == Servers \cup {NoServer}
ResolverStates ==
  {Idle} \cup [pc : ResolverPcs, op : Requests, server : Servers, copy : Rows, via : Places]
WorkerStates ==
  {Idle} \cup [pc : SetupPcs, op : {"setup"}, server : Servers, copy : Rows, via : Places]
         \cup [pc : {"copy", "store"}, op : {"proxy"}, server : Servers, copy : Rows, via : Places]
RowUpdates == {"promote", "demote", "drain", "activate"}

TableShape == /\ row \in [Servers -> Rows \cup {NoRow, Deleted}]
              /\ node \in [Servers -> Nodes \cup {NoNode}]
              /\ up \in [Servers -> BOOLEAN] /\ probe \in [Servers -> BOOLEAN]
              /\ queue \in [Kinds \X Servers -> 0..MaxQueued] /\ extras \in 0..MaxExtras
NoteShape  == disturbed \subseteq Servers /\ split \subseteq Servers
ProcShape  == /\ proc = [p \in Processes |-> proc[p]]
              /\ \A r \in Resolvers : proc[r] \in ResolverStates
              /\ \A w \in Workers : proc[w] \in WorkerStates
(* A request takes its own way, and a server that it needs was chosen. *)
ResolverWay(r) ==
  /\ proc[r].pc = "call" => proc[r].op \in SwarmCalls /\ proc[r].via \in Servers
  /\ proc[r].pc \in {"count", "delete"} => proc[r].op = "delete"
  /\ proc[r].pc = "count" => proc[r].via = NoServer
  /\ proc[r].pc = "leave" => proc[r].op = "remove"
  /\ proc[r].pc = "choose" => proc[r].op \in Setups \cup SwarmCalls
  /\ proc[r].pc = "hostname" => proc[r].op \in Setups
  /\ proc[r].pc = "save" => proc[r].op # "delete"
  /\ proc[r].op \in RowUpdates => proc[r].copy.status = "online"
WorkerWay(w) ==
  /\ proc[w].pc = "init" => WantsManager(w)
  /\ proc[w].pc \in {"leave", "joining"} => proc[w].via \in Servers
  /\ proc[w].pc = "store" /\ proc[w].op = "setup"
       => proc[w].copy.status \in {"online", "needs_setup"}
WayIsKept == (\A r \in Resolvers : ResolverWay(r)) /\ (\A w \in Workers : WorkerWay(w))
Shape == TableShape /\ NoteShape /\ ProcShape /\ WayIsKept

(* The row of a server is inserted once, and deleted for good; it is named,  *)
(* and is preparing only while its one setup is to be done. A copy is not of *)
(* a later stage than the row.                                               *)
Regular(r)  == /\ ~r.named => r.status = "needs_setup" /\ ~r.drained
               /\ r.status = "preparing" => ~r.drained /\ r.mode # "none"
Later(r, c) == /\ c.named => r.named
               /\ c.named /\ c.status # "preparing" => r.status # "preparing"
               /\ c.status = "preparing" /\ r.status = "preparing" => r.mode = c.mode
Rereads(p)  == proc[p].pc = "store" /\ proc[p].op = "setup"
RowsAreRegular ==
  /\ \A s \in Servers \ disturbed : Exists(s) => Regular(row[s])
  /\ \A p \in Processes : proc[p] # Idle =>
       /\ row[proc[p].server] # NoRow
       /\ proc[p].server \notin disturbed => Regular(proc[p].copy)
CopiesAreEarlier ==
  \A p \in Processes :
    LET s == proc[p].server  c == proc[p].copy IN
    proc[p] # Idle /\ s \notin disturbed /\ Exists(s) =>
      /\ ~Rereads(p) => Later(row[s], c)
      /\ proc[p].pc = "save" /\ proc[p].op \in Setups => ~c.named

(* Who has called docker for a server and not saved its row. *)
Called(r, s)  == /\ proc[r].server = s
                 /\ \/ proc[r].pc = "save" /\ proc[r].op \in SwarmCalls
                    \/ proc[r].pc = "delete" /\ proc[r].via # NoServer
                    \/ proc[r].pc = "leave"
Joining(w, s) == /\ proc[w].server = s /\ proc[w].op = "setup"
                 /\ \/ proc[w].pc \in {"joining", "succeeded"}
                    \/ proc[w].pc = "store" /\ proc[w].copy.status = "online"
CallsAreAlone ==
  \A s \in Servers \ disturbed :
    /\ \A r, q \in Resolvers : Called(r, s) /\ Called(q, s) => r = q
    /\ \A w, v \in Workers : Joining(w, s) /\ Joining(v, s) => w = v
    /\ \A r \in Resolvers, w \in Workers : ~(Called(r, s) /\ Joining(w, s))

(* The first setup of a server makes what the row says, ... *)
Matches(n, r) == n # NoNode /\ n.role = r.mode /\ n.drained = r.drained
SetupsMatch ==
  \A w \in Workers :
    LET s == proc[w].server IN
    Joining(w, s) /\ s \notin disturbed =>
      /\ proc[w].pc # "store" => proc[w].copy.status = "preparing"
      /\ Exists(s) => row[s].named
      /\ proc[w].pc # "joining" /\ row[s].status = "preparing" => Matches(node[s], row[s])

(* ... and so does whoever changes it afterwards. *)
Expected(op, r) ==
  CASE op = "promote"  -> [r EXCEPT !.mode = "manager"]
    [] op = "demote"   -> [r EXCEPT !.mode = "worker"]
    [] op = "drain"    -> [r EXCEPT !.drained = TRUE]
    [] op = "activate" -> [r EXCEPT !.drained = FALSE]
Ending(w, s) == /\ proc[w].server = s /\ proc[w].op = "setup"
                /\ proc[w].pc \in {"joining", "succeeded", "failed", "store"}
RowsMatch ==
  \A s \in Servers \ disturbed :
    row[s].status \in Prepared /\ (\A w \in Workers : ~Ending(w, s)) =>
      /\ (\A r \in Resolvers : ~Called(r, s)) => Matches(node[s], row[s])
      /\ \A r \in Resolvers : Called(r, s) /\ proc[r].op \in RowUpdates =>
           Matches(node[s], Expected(proc[r].op, row[s]))

(* The servers that the swarm has, or that others are about to join or to    *)
(* become: they are of one swarm.                                            *)
Sound     == Servers \ (disturbed \cup split)
Member(s) == /\ s \in Sound
             /\ \/ row[s].status \in Prepared
                \/ \E w \in Workers : /\ UnderWay(w) /\ proc[w].server \in Sound
                                      /\ \/ /\ proc[w].pc \in {"leave", "joining"}
                                            /\ s = proc[w].via
                                         \/ /\ proc[w].pc \in {"succeeded", "store"}
                                            /\ s = proc[w].server
MembersAreTogether ==
  \A s, t \in Servers : Member(s) /\ Member(t) /\ HasNode(s) /\ HasNode(t)
                          => node[s].swarm = node[t].swarm
FirstIsAlone ==
  \A w \in Workers : proc[w].pc = "init" /\ proc[w].server \in Sound =>
    /\ \A s \in Servers : ~Member(s)
    /\ \A v \in Workers : proc[v].pc = "init" /\ proc[v].server \in Sound => v = w

IInv == /\ Shape /\ RowsAreRegular /\ CopiesAreEarlier /\ CallsAreAlone /\ SetupsMatch
        /\ RowsMatch /\ MembersAreTogether /\ FirstIsAlone

-----------------------------------------------------------------------------
(* What a goroutine is doing decides the form of its state. *)
LEMMA ResolverFields ==
  ASSUME ProcShape, NEW r \in Resolvers
  PROVE  /\ proc[r].pc = "idle" <=> proc[r] = Idle
         /\ proc[r] # Idle => /\ proc[r].pc \in ResolverPcs /\ proc[r].op \in Requests
                              /\ proc[r].server \in Servers /\ proc[r].copy \in Rows
                              /\ proc[r].via \in Places
         /\ proc[r].pc \in ResolverPcs \cup {"idle"} /\ proc[r].op \in Requests \cup {"none"}
<1>1. proc[r] \in ResolverStates
  BY DEF ProcShape
<1>2. CASE proc[r] = Idle
  BY <1>2 DEF Idle
<1>3. CASE proc[r] # Idle
  BY <1>1, <1>3 DEF ResolverStates, ResolverPcs
<1>4. QED
  BY <1>2, <1>3

LEMMA WorkerFields ==
  ASSUME ProcShape, NEW w \in Workers
  PROVE  /\ proc[w].pc = "idle" <=> proc[w] = Idle
         /\ proc[w] # Idle => /\ proc[w].op \in Kinds
                              /\ proc[w].op = "setup" => proc[w].pc \in SetupPcs
                              /\ proc[w].op = "proxy" => proc[w].pc \in {"copy", "store"}
                              /\ proc[w].server \in Servers /\ proc[w].copy \in Rows
                              /\ proc[w].via \in Places
         /\ proc[w].op \in Kinds \cup {"none"}
<1>1. proc[w] \in WorkerStates
  BY DEF ProcShape
<1>2. CASE proc[w] = Idle
  BY <1>2 DEF Idle
<1>3. CASE proc[w] # Idle
  BY <1>1, <1>3 DEF WorkerStates, SetupPcs, Kinds
<1>4. QED
  BY <1>2, <1>3

(* The ways to change one's state. *)
LEMMA ProcEffect ==
  ASSUME ProcShape, NEW p \in Processes, NEW v, proc' = [proc EXCEPT ![p] = v]
  PROVE  /\ proc'[p] = v
         /\ \A q \in Processes : q # p => proc'[q] = proc[q]
         /\ (p \in Resolvers /\ v \in ResolverStates) \/ (p \in Workers /\ v \in WorkerStates)
              => ProcShape'
<1>1. proc = [q \in Processes |-> proc[q]]
  BY DEF ProcShape
<1>2. proc'[p] = v /\ \A q \in Processes : q # p => proc'[q] = proc[q]
  BY <1>1
<1>3. proc' = [q \in Processes |-> proc'[q]]
  BY <1>1
<1>4. Resolvers \subseteq Processes /\ Workers \subseteq Processes /\ Resolvers \cap Workers = {}
  BY ServersAssumption DEF Processes
<1>5. QED
  BY <1>2, <1>3, <1>4 DEF ProcShape

LEMMA GotoEffect ==
  ASSUME ProcShape, NEW p \in Processes, NEW pc, Goto(p, pc)
  PROVE  /\ proc'[p].pc = pc /\ proc'[p].op = proc[p].op /\ proc'[p].server = proc[p].server
         /\ proc'[p].copy = proc[p].copy /\ proc'[p].via = proc[p].via
         /\ \A q \in Processes : q # p => proc'[q] = proc[q]
         /\ proc' = [proc EXCEPT ![p] = [proc[p] EXCEPT !.pc = pc]]
<1>1. proc = [q \in Processes |-> proc[q]]
  BY DEF ProcShape
<1>2. proc[p] \in ResolverStates \cup WorkerStates
  BY DEF ProcShape, Processes
<1>3. DOMAIN proc[p] = {"pc", "op", "server", "copy", "via"}
      /\ proc[p] = [f \in DOMAIN proc[p] |-> proc[p][f]]
  BY <1>2 DEF ResolverStates, WorkerStates, Idle
<1>4. proc' = [proc EXCEPT ![p] = [proc[p] EXCEPT !.pc = pc]]
  BY DEF Goto
<1>5. proc'[p] = [proc[p] EXCEPT !.pc = pc] /\ \A q \in Processes : q # p => proc'[q] = proc[q]
  BY <1>1, <1>4
<1>6. QED
  BY <1>3, <1>4, <1>5

LEMMA GotoViaEffect ==
  ASSUME ProcShape, NEW p \in Processes, NEW m, NEW pc, GotoVia(p, m, pc)
  PROVE  /\ proc'[p].pc = pc /\ proc'[p].op = proc[p].op /\ proc'[p].server = proc[p].server
         /\ proc'[p].copy = proc[p].copy /\ proc'[p].via = m
         /\ \A q \in Processes : q # p => proc'[q] = proc[q]
         /\ proc' = [q \in Processes |-> proc'[q]]
         /\ DOMAIN proc'[p] = {"pc", "op", "server", "copy", "via"}
         /\ proc'[p] = [f \in DOMAIN proc'[p] |-> proc'[p][f]]
<1>1. proc = [q \in Processes |-> proc[q]]
  BY DEF ProcShape
<1>2. proc[p] \in ResolverStates \cup WorkerStates
  BY DEF ProcShape, Processes
<1>3. DOMAIN proc[p] = {"pc", "op", "server", "copy", "via"}
      /\ proc[p] = [f \in DOMAIN proc[p] |-> proc[p][f]]
  BY <1>2 DEF ResolverStates, WorkerStates, Idle
<1>4. proc' = [proc EXCEPT ![p] = [proc[p] EXCEPT !.pc = pc, !.via = m]]
  BY <1>1 DEF GotoVia
<1>5. proc'[p] = [proc[p] EXCEPT !.pc = pc, !.via = m]
      /\ \A q \in Processes : q # p => proc'[q] = proc[q]
  BY <1>1, <1>4
<1>6. /\ proc'[p].pc = pc /\ proc'[p].op = proc[p].op /\ proc'[p].server = proc[p].server
      /\ proc'[p].copy = proc[p].copy /\ proc'[p].via = m
  BY <1>3, <1>5
<1>7. proc' = [q \in Processes |-> proc'[q]]
  BY <1>1, <1>4
<1>8. DOMAIN proc'[p] = {"pc", "op", "server", "copy", "via"}
      /\ proc'[p] = [f \in DOMAIN proc'[p] |-> proc'[p][f]]
  BY <1>3, <1>5
<1>9. QED
  BY <1>5, <1>6, <1>7, <1>8

LEMMA ReturnEffect ==
  ASSUME ProcShape, NEW p \in Processes, Return(p)
  PROVE  /\ proc'[p] = Idle /\ \A q \in Processes : q # p => proc'[q] = proc[q]
         /\ ProcShape'
BY ProcEffect DEF Return, ResolverStates, WorkerStates, Processes

(* What is recorded is never forgotten. *)
LEMMA NotesGrow ==
  ASSUME Next
  PROVE  disturbed \subseteq disturbed' /\ split \subseteq split'
<1>1. ASSUME NEW s, CreateServer(s) \/ Probe(s) \/ EndProbe(s) \/ Reachable(s)
      PROVE  disturbed \subseteq disturbed' /\ split \subseteq split'
  BY <1>1 DEF CreateServer, Probe, EndProbe, Reachable, Disturb
<1>2. ASSUME NEW p, Step(p)
      PROVE  disturbed \subseteq disturbed' /\ split \subseteq split'
  BY <1>2 DEF Step, ChooseFirst, ChooseManager, GiveUp
<1>3. ASSUME NEW r, ResolverStep(r)
      PROVE  disturbed \subseteq disturbed' /\ split \subseteq split'
  BY <1>3 DEF ResolverStep, CountServers, CheckHostName, CallSwarm, Save, SaveFails, Enqueue,
     EnqueueFails, LeaveAfterRemoval, DeleteRow, DeleteRefused, Disturb
<1>4. ASSUME NEW w, WorkerStep(w)
      PROVE  disturbed \subseteq disturbed' /\ split \subseteq split'
  BY <1>4 DEF WorkerStep, InitializeAsManager, LeaveSwarm, JoinSwarm, FetchForResult,
     CopyConfiguration, Store, StoreFails, Disturb
<1>5. ASSUME NEW w, NEW kind, NEW s, Take(w, kind, s)
      PROVE  disturbed \subseteq disturbed' /\ split \subseteq split'
  BY <1>5 DEF Take
<1>6. ASSUME NEW r, NEW op, NEW s, Begin(r, op, s)
      PROVE  disturbed \subseteq disturbed' /\ split \subseteq split'
  BY <1>6 DEF Begin
<1>7. CASE Crash
  BY <1>7 DEF Crash
<1>8. QED
  BY <1>1, <1>2, <1>3, <1>4, <1>5, <1>6, <1>7 DEF Next, Proceed, SomeBegin, SomeOutage

(* Every step is that of the servers, of a goroutine, or a crash. *)
ServerStep == \E s \in Servers : CreateServer(s) \/ Probe(s) \/ EndProbe(s) \/ Reachable(s)
OfResolver(r) == \/ ChooseFirst(r) \/ ChooseManager(r) \/ GiveUp(r) \/ CountServers(r)
                 \/ CheckHostName(r) \/ CallSwarm(r) \/ Save(r) \/ SaveFails(r) \/ Enqueue(r)
                 \/ EnqueueFails(r) \/ LeaveAfterRemoval(r) \/ DeleteRow(r) \/ DeleteRefused(r)
                 \/ \E op \in Requests, s \in Servers : Begin(r, op, s)
OfWorker(w) == \/ ChooseFirst(w) \/ ChooseManager(w) \/ GiveUp(w) \/ InitializeAsManager(w)
               \/ LeaveSwarm(w) \/ JoinSwarm(w) \/ FetchForResult(w) \/ CopyConfiguration(w)
               \/ Store(w) \/ StoreFails(w)
               \/ \E kind \in Kinds, s \in Servers : Take(w, kind, s)

LEMMA NextIs ==
  Next <=> \/ ServerStep \/ Crash
           \/ \E r \in Resolvers : OfResolver(r)
           \/ \E w \in Workers : OfWorker(w)
BY DEF Next, Proceed, SomeBegin, SomeOutage, ServerStep, OfResolver, OfWorker, Step, ResolverStep,
   WorkerStep

-----------------------------------------------------------------------------
(* A goroutine takes a step alone, and keeps to its way. *)

LEMMA ResolverGoes ==
  ASSUME ProcShape, NEW r \in Resolvers, proc[r] # Idle, NEW pc \in ResolverPcs, Goto(r, pc)
  PROVE  ProcShape'
<1>1. [proc[r] EXCEPT !.pc = pc] \in ResolverStates
  BY DEF ProcShape, ResolverStates
<1>2. QED
  BY <1>1, GotoEffect, ProcEffect DEF Processes

LEMMA WorkerGoes ==
  ASSUME ProcShape, NEW w \in Workers, proc[w] # Idle, proc[w].op = "setup", NEW pc \in SetupPcs,
         Goto(w, pc)
  PROVE  ProcShape'
<1>1. [proc[w] EXCEPT !.pc = pc] \in WorkerStates
  BY DEF ProcShape, WorkerStates
<1>2. QED
  BY <1>1, GotoEffect, ProcEffect DEF Processes

LEMMA OthersStay ==
  ASSUME ProcShape, NEW p \in Processes, OfResolver(p) \/ OfWorker(p)
  PROVE  \A q \in Processes : q # p => proc'[q] = proc[q]
<1>p. proc = [q \in Processes |-> proc[q]]
  BY DEF ProcShape
<1>1. ASSUME NEW pc, Goto(p, pc) PROVE \A q \in Processes : q # p => proc'[q] = proc[q]
  BY <1>1, <1>p DEF Goto
<1>2. ASSUME NEW pc, NEW m, GotoVia(p, m, pc) PROVE \A q \in Processes : q # p => proc'[q] = proc[q]
  BY <1>2, <1>p DEF GotoVia
<1>3. ASSUME Return(p) PROVE \A q \in Processes : q # p => proc'[q] = proc[q]
  BY <1>3, <1>p DEF Return
<1>4. CASE ChooseFirst(p) \/ ChooseManager(p) \/ GiveUp(p)
  BY <1>4, <1>1, <1>2, <1>3 DEF ChooseFirst, ChooseManager, GiveUp
<1>5. CASE CountServers(p) \/ CheckHostName(p) \/ CallSwarm(p) \/ Save(p) \/ SaveFails(p)
  BY <1>5, <1>1, <1>3 DEF CountServers, CheckHostName, CallSwarm, Save, SaveFails
<1>6. CASE Enqueue(p) \/ EnqueueFails(p) \/ LeaveAfterRemoval(p) \/ DeleteRow(p) \/ DeleteRefused(p)
  BY <1>6, <1>3 DEF Enqueue, EnqueueFails, LeaveAfterRemoval, DeleteRow, DeleteRefused
<1>7. CASE \E op \in Requests, s \in Servers : Begin(p, op, s)
  BY <1>7, <1>p DEF Begin
<1>8. CASE InitializeAsManager(p) \/ LeaveSwarm(p) \/ JoinSwarm(p) \/ StoreFails(p) \/ Store(p)
  BY <1>8, <1>1, <1>3 DEF InitializeAsManager, LeaveSwarm, JoinSwarm, StoreFails, Store
<1>9. CASE FetchForResult(p)
  BY <1>9, <1>3, <1>p DEF FetchForResult
<1>10. CASE CopyConfiguration(p)
  BY <1>10, <1>3, <1>p DEF CopyConfiguration
<1>11. CASE \E kind \in Kinds, s \in Servers : Take(p, kind, s)
  BY <1>11, <1>p DEF Take
<1>12. QED
  BY <1>4, <1>5, <1>6, <1>7, <1>8, <1>9, <1>10, <1>11 DEF OfResolver, OfWorker

(* The forms of the rows that actions make. *)
LEMMA SavedIsRow ==
  ASSUME NEW op \in Requests, NEW c \in Rows
  PROVE  Saved(op, c) \in Rows
BY DEF Saved, Rows, Requests, Setups, SwarmCalls, Modes, Prepared

LEMMA FetchEffect ==
  ASSUME Shape, NEW w \in Workers, FetchForResult(w)
  PROVE  /\ proc[w] # Idle /\ proc[w].op = "setup" /\ proc[w].server \in Servers
         /\ ProcShape'
         /\ ~Exists(proc[w].server) => proc'[w] = Idle
         /\ Exists(proc[w].server) =>
              /\ proc'[w].pc = "store" /\ proc'[w].op = "setup"
              /\ proc'[w].server = proc[w].server /\ proc'[w].via = proc[w].via
              /\ proc'[w].copy \in Rows
              /\ proc'[w].copy.status = IF proc[w].pc = "succeeded" THEN "online" ELSE "needs_setup"
              /\ proc'[w].copy.mode = row[proc[w].server].mode
              /\ proc'[w].copy.drained = row[proc[w].server].drained
              /\ proc'[w].copy.named = row[proc[w].server].named
<1>p. ProcShape /\ w \in Processes
  BY DEF Shape, Processes
<1>1. proc[w].pc \in {"succeeded", "failed"}
  BY DEF FetchForResult
<1>2. proc[w] # Idle /\ proc[w].op = "setup" /\ proc[w].server \in Servers
  BY <1>1, <1>p, WorkerFields DEF Kinds, Idle
<1>3. CASE ~Exists(proc[w].server)
  BY <1>2, <1>3, <1>p, ReturnEffect DEF FetchForResult
<1>4. CASE Exists(proc[w].server)
  <2> DEFINE status == IF proc[w].pc = "succeeded" THEN "online" ELSE "needs_setup"
  <2>1. PICK c \in Rows : c = row[proc[w].server]
    BY <1>4 DEF Exists
  <2>2. PICK d : d = [c EXCEPT !.status = status]
    OBVIOUS
  <2>3. /\ d \in Rows /\ d.status = status
        /\ d.mode = c.mode /\ d.drained = c.drained /\ d.named = c.named
    BY <2>2 DEF Rows, Prepared
  <2>4. proc' = [proc EXCEPT ![w].pc = "store", ![w].copy = d]
    BY <1>4, <2>1, <2>2 DEF FetchForResult
  <2>5. PICK q : q = [proc[w] EXCEPT !.pc = "store", !.copy = d]
    OBVIOUS
  <2>6. proc[w] \in [pc : SetupPcs, op : {"setup"}, server : Servers, copy : Rows, via : Places]
    BY <1>2, <1>p DEF ProcShape, WorkerStates
  <2>7. /\ q \in WorkerStates /\ q.pc = "store" /\ q.op = "setup" /\ q.server = proc[w].server
        /\ q.via = proc[w].via /\ q.copy = d
    BY <2>3, <2>5, <2>6 DEF WorkerStates, SetupPcs
  <2>8. proc' = [proc EXCEPT ![w] = q]
    BY <2>4, <2>5, <2>6, <1>p DEF ProcShape
  <2>9. proc'[w] = q /\ ProcShape'
    BY <2>7, <2>8, <1>p, ProcEffect
  <2>10. QED
    BY <1>2, <1>4, <2>1, <2>3, <2>7, <2>9
<1>5. QED
  BY <1>3, <1>4

LEMMA CopyEffect ==
  ASSUME Shape, NEW w \in Workers, CopyConfiguration(w)
  PROVE  /\ proc[w] # Idle /\ proc[w].op = "proxy"
         /\ ProcShape'
         /\ \/ proc'[w] = Idle
            \/ /\ proc'[w].pc = "store" /\ proc'[w].op = "proxy" /\ proc'[w].server = proc[w].server
               /\ proc'[w].copy.status = proc[w].copy.status
               /\ proc'[w].copy.mode = proc[w].copy.mode
               /\ proc'[w].copy.drained = proc[w].copy.drained
               /\ proc'[w].copy.named = proc[w].copy.named
<1>p. ProcShape /\ w \in Processes
  BY DEF Shape, Processes
<1>1. proc[w].pc = "copy"
  BY DEF CopyConfiguration
<1>2. proc[w] # Idle /\ proc[w].op = "proxy" /\ proc[w].copy \in Rows
  BY <1>1, <1>p, WorkerFields DEF Kinds, Idle, SetupPcs
<1>3. CASE Return(w)
  BY <1>2, <1>3, <1>p, ReturnEffect
<1>4. CASE proc' = [proc EXCEPT ![w].pc = "store", ![w].copy.proxy = "on"]
  <2>1. PICK c \in Rows : c = proc[w].copy
    BY <1>2
  <2>2. PICK d : d = [c EXCEPT !.proxy = "on"]
    OBVIOUS
  <2>3. /\ d \in Rows /\ d.status = c.status
        /\ d.mode = c.mode /\ d.drained = c.drained /\ d.named = c.named
    BY <2>2 DEF Rows
  <2>5. PICK q : q = [proc[w] EXCEPT !.pc = "store", !.copy = d]
    OBVIOUS
  <2>6. proc[w] \in [pc : {"copy", "store"}, op : {"proxy"}, server : Servers, copy : Rows,
                     via : Places]
    BY <1>2, <1>p DEF ProcShape, WorkerStates
  <2>7. /\ q \in WorkerStates /\ q.pc = "store" /\ q.op = "proxy" /\ q.server = proc[w].server
        /\ q.copy = d
    BY <2>3, <2>5, <2>6 DEF WorkerStates
  <2>8. proc' = [proc EXCEPT ![w] = q]
    BY <1>4, <2>1, <2>2, <2>5, <2>6, <1>p DEF ProcShape
  <2>9. proc'[w] = q /\ ProcShape'
    BY <2>7, <2>8, <1>p, ProcEffect
  <2>10. QED
    BY <1>2, <2>1, <2>3, <2>7, <2>9
<1>5. QED
  BY <1>3, <1>4 DEF CopyConfiguration

LEMMA ResolverProceeds ==
  ASSUME Shape, NEW r \in Resolvers, OfResolver(r)
  PROVE  ProcShape' /\ ResolverWay(r)'
<1>p. ProcShape /\ TableShape /\ ResolverWay(r) /\ r \in Processes /\ r \notin Workers
  BY ServersAssumption DEF Shape, WayIsKept, Processes
<1>0. Idle.pc = "idle" /\ Idle.op = "none"
  BY DEF Idle
<1>r. ASSUME Return(r) PROVE ProcShape' /\ ResolverWay(r)'
  BY <1>r, <1>0, <1>p, ReturnEffect DEF ResolverWay, RowUpdates
<1>s. ~IsSetup(r) <=> proc[r].op \notin Setups
  BY <1>p, ResolverFields DEF IsSetup, Requests, Setups, SwarmCalls
<1>1. CASE ChooseFirst(r)
  <2>1. proc[r] # Idle /\ proc[r].op \in Setups /\ Goto(r, "hostname")
    BY <1>1, <1>0, <1>s, <1>p DEF ChooseFirst
  <2>2. QED
    BY <2>1, <1>p, ResolverGoes, GotoEffect DEF ResolverWay, ResolverPcs
<1>2. CASE ChooseManager(r)
  <2>1. PICK m \in ManagersFor(proc[r].op, proc[r].server) :
          /\ proc[r].op \in Setups => Goto(r, "hostname")
          /\ proc[r].op \notin Setups /\ proc[r].op # "setup" => GotoVia(r, m, "call")
    <3>1. PICK m \in ManagersFor(proc[r].op, proc[r].server) :
            CASE proc[r].op \in Setups -> Goto(r, "hostname")
              [] proc[r].op = "setup" -> GotoVia(r, m, "leave")
              [] OTHER -> GotoVia(r, m, "call")
      BY <1>2 DEF ChooseManager
    <3>2. proc[r].op \in Setups => Goto(r, "hostname")
      BY <3>1 DEF Setups
    <3>3. proc[r].op \notin Setups /\ proc[r].op # "setup" => GotoVia(r, m, "call")
      BY <3>1
    <3>4. QED
      BY <3>2, <3>3
  <2>2. proc[r] # Idle /\ m \in Servers /\ proc[r].op # "setup" /\ proc[r].pc = "choose"
    BY <1>2, <1>0, <2>1, <1>p, ResolverFields DEF ChooseManager, ManagersFor, Requests, Setups,
       SwarmCalls
  <2>3. CASE proc[r].op \in Setups
    <3>1. Goto(r, "hostname")
      BY <2>1, <2>3
    <3>2. QED
      BY <2>2, <2>3, <3>1, <1>p, ResolverGoes, GotoEffect DEF ResolverWay, ResolverPcs
  <2>4. CASE proc[r].op \notin Setups
    <3>1. GotoVia(r, m, "call")
      BY <2>1, <2>2, <2>4
    <3>2. proc' = [q \in Processes |-> proc'[q]] /\ \A q \in Processes : q # r => proc'[q] = proc[q]
      BY <3>1, <1>p, GotoViaEffect
    <3>3. proc'[r] \in ResolverStates
      <4>1. /\ proc[r].op \in Requests /\ proc[r].server \in Servers /\ proc[r].copy \in Rows
        BY <2>2, <1>p, ResolverFields
      <4>2. /\ proc'[r].pc = "call" /\ proc'[r].op = proc[r].op /\ proc'[r].via = m
            /\ proc'[r].server = proc[r].server /\ proc'[r].copy = proc[r].copy
            /\ DOMAIN proc'[r] = {"pc", "op", "server", "copy", "via"}
            /\ proc'[r] = [f \in DOMAIN proc'[r] |-> proc'[r][f]]
        BY <3>1, <1>p, GotoViaEffect
      <4>3. QED
        BY <2>2, <4>1, <4>2 DEF ResolverStates, ResolverPcs, Places
    <3>4. ProcShape'
      BY <3>2, <3>3, <1>p, ServersAssumption DEF ProcShape, Processes
    <3>5. proc[r].op \in SwarmCalls
      BY <2>2, <2>4, <1>p DEF ResolverWay
    <3>6. /\ proc'[r].pc = "call" /\ proc'[r].op = proc[r].op /\ proc'[r].via = m
          /\ proc'[r].server = proc[r].server /\ proc'[r].copy = proc[r].copy
          /\ DOMAIN proc'[r] = {"pc", "op", "server", "copy", "via"}
          /\ proc'[r] = [f \in DOMAIN proc'[r] |-> proc'[r][f]]
      BY <3>1, <1>p, GotoViaEffect
    <3>7. proc[r].op \in RowUpdates => proc[r].copy.status = "online"
      BY <1>p DEF ResolverWay
    <3>8. QED
      BY <2>2, <3>4, <3>5, <3>6, <3>7 DEF ResolverWay
  <2>5. QED
    BY <2>3, <2>4
<1>3. CASE GiveUp(r)
  BY <1>3, <1>r, <1>p DEF GiveUp
<1>4. CASE CountServers(r)
  <2>1. proc[r] # Idle /\ proc[r].op = "delete" /\ proc[r].pc = "count"
    BY <1>4, <1>0, <1>p DEF CountServers, ResolverWay
  <2>2. Goto(r, "delete") \/ Return(r) \/ Goto(r, "choose")
    BY <1>4 DEF CountServers
  <2>3. QED
    BY <2>1, <2>2, <1>r, <1>p, ResolverGoes, GotoEffect DEF ResolverWay, ResolverPcs, RowUpdates,
       SwarmCalls
<1>5. CASE CheckHostName(r)
  <2>1. proc[r] # Idle /\ proc[r].op \in Setups /\ (Return(r) \/ Goto(r, "save"))
    BY <1>5, <1>0, <1>p DEF CheckHostName, ResolverWay
  <2>2. QED
    BY <2>1, <1>r, <1>p, ResolverGoes, GotoEffect DEF ResolverWay, ResolverPcs, Setups, RowUpdates
<1>6. CASE CallSwarm(r)
  <2>1. proc[r] # Idle /\ proc[r].pc = "call" /\ Goto(r, IF proc[r].op = "delete" THEN "delete" ELSE "save")
    BY <1>6, <1>0 DEF CallSwarm
  <2>2. QED
    BY <2>1, <1>p, ResolverGoes, GotoEffect DEF ResolverWay, ResolverPcs
<1>7. CASE Save(r)
  <2>1. proc[r] # Idle
    BY <1>7, <1>0 DEF Save
  <2>2. CASE AfterSave(proc[r].op) = "idle"
    BY <1>7, <2>2, <1>r DEF Save
  <2>3. CASE AfterSave(proc[r].op) # "idle"
    <3>1. Goto(r, AfterSave(proc[r].op))
      BY <1>7, <2>3 DEF Save
    <3>2. \/ AfterSave(proc[r].op) = "enqueue"
          \/ AfterSave(proc[r].op) = "leave" /\ proc[r].op = "remove"
      BY <2>3 DEF AfterSave
    <3>3. QED
      BY <2>1, <3>1, <3>2, <1>p, ResolverGoes, GotoEffect DEF ResolverWay, ResolverPcs
  <2>4. QED
    BY <2>2, <2>3
<1>8. CASE SaveFails(r) \/ Enqueue(r) \/ EnqueueFails(r) \/ LeaveAfterRemoval(r) \/ DeleteRow(r)
           \/ DeleteRefused(r)
  BY <1>8, <1>r DEF SaveFails, Enqueue, EnqueueFails, LeaveAfterRemoval, DeleteRow, DeleteRefused
<1>9. CASE \E op \in Requests, s \in Servers : Begin(r, op, s)
  <2>1. PICK op \in Requests, s \in Servers : Begin(r, op, s)
    BY <1>9
  <2>2. PICK c \in Rows : c = row[s]
    BY <2>1 DEF Begin, Exists
  <2>3. PICK pc : pc = FirstStep(op, c)
    OBVIOUS
  <2>4. PICK q : q = [pc |-> pc, op |-> op, server |-> s, copy |-> c, via |-> NoServer]
    OBVIOUS
  <2>5. /\ pc \in {"save", "delete", "count", "choose"}
        /\ pc \in {"delete", "count"} => op = "delete"
        /\ pc = "save" => op # "delete"
    BY <2>3 DEF FirstStep
  <2>6. q \in ResolverStates
    BY <2>4, <2>5 DEF ResolverStates, ResolverPcs, Places
  <2>7. proc' = [proc EXCEPT ![r] = q]
    BY <2>1, <2>2, <2>3, <2>4 DEF Begin
  <2>8. proc'[r] = q /\ ProcShape'
    BY <2>6, <2>7, <1>p, ProcEffect
  <2>9. op \in RowUpdates => c.status = "online"
    BY <2>1, <2>2 DEF Begin, Admitted, RowUpdates
  <2>10. pc = "choose" => op \in Setups \cup SwarmCalls
    BY <2>3 DEF FirstStep, Requests
  <2>11. QED
    BY <2>4, <2>5, <2>8, <2>9, <2>10 DEF ResolverWay
<1>10. QED
  BY <1>1, <1>2, <1>3, <1>4, <1>5, <1>6, <1>7, <1>8, <1>9 DEF OfResolver

LEMMA WorkerProceeds ==
  ASSUME Shape, NEW w \in Workers, OfWorker(w)
  PROVE  ProcShape' /\ WorkerWay(w)'
<1>p. ProcShape /\ TableShape /\ WorkerWay(w) /\ w \in Processes
  BY DEF Shape, WayIsKept, Processes
<1>0. Idle.pc = "idle" /\ Idle.op = "none"
  BY DEF Idle
<1>r. ASSUME Return(w) PROVE ProcShape' /\ WorkerWay(w)'
  BY <1>r, <1>0, <1>p, ReturnEffect DEF WorkerWay
<1>g. ASSUME proc[w].pc \in {"choose", "init", "leave", "joining"} PROVE proc[w] # Idle /\ proc[w].op = "setup"
  BY <1>g, <1>0, <1>p, WorkerFields DEF Kinds
<1>1. CASE ChooseFirst(w)
  <2>1. proc[w].pc = "choose" /\ Goto(w, "init") /\ WantsManager(w)
    BY <1>1 DEF ChooseFirst
  <2>2. ProcShape'
    BY <2>1, <1>g, <1>p, WorkerGoes DEF SetupPcs
  <2>3. QED
    BY <2>1, <2>2, <1>p, GotoEffect DEF WorkerWay, WantsManager
<1>2. CASE ChooseManager(w)
  <2>1. proc[w].pc = "choose" /\ proc[w] # Idle /\ proc[w].op = "setup"
    BY <1>2, <1>g DEF ChooseManager
  <2>2. PICK m \in Servers : GotoVia(w, m, "leave")
    BY <1>2, <2>1 DEF ChooseManager, ManagersFor, Setups
  <2>3. proc' = [q \in Processes |-> proc'[q]] /\ \A q \in Processes : q # w => proc'[q] = proc[q]
    BY <2>2, <1>p, GotoViaEffect
  <2>4. proc'[w] \in WorkerStates
    <3>1. proc[w].server \in Servers /\ proc[w].copy \in Rows
      BY <2>1, <1>p, WorkerFields
    <3>2. /\ proc'[w].pc = "leave" /\ proc'[w].op = proc[w].op /\ proc'[w].via = m
          /\ proc'[w].server = proc[w].server /\ proc'[w].copy = proc[w].copy
          /\ DOMAIN proc'[w] = {"pc", "op", "server", "copy", "via"}
          /\ proc'[w] = [f \in DOMAIN proc'[w] |-> proc'[w][f]]
      BY <2>2, <1>p, GotoViaEffect
    <3>3. QED
      BY <2>1, <3>1, <3>2 DEF WorkerStates, SetupPcs, Places
  <2>5. ProcShape'
    BY <2>3, <2>4, <1>p, ServersAssumption DEF ProcShape, Processes
  <2>6. /\ proc'[w].pc = "leave" /\ proc'[w].op = proc[w].op /\ proc'[w].via = m
        /\ proc'[w].server = proc[w].server /\ proc'[w].copy = proc[w].copy
        /\ DOMAIN proc'[w] = {"pc", "op", "server", "copy", "via"}
        /\ proc'[w] = [f \in DOMAIN proc'[w] |-> proc'[w][f]]
    BY <2>2, <1>p, GotoViaEffect
  <2>7. QED
    BY <2>5, <2>6 DEF WorkerWay
<1>3. CASE GiveUp(w)
  <2>1. proc[w].pc \in {"choose", "hostname", "call", "init", "leave"} /\ Goto(w, "failed")
    BY <1>3 DEF GiveUp
  <2>2. proc[w] # Idle /\ proc[w].op = "setup"
    BY <2>1, <1>0, <1>p, WorkerFields DEF Kinds
  <2>3. QED
    BY <2>1, <2>2, <1>p, WorkerGoes, GotoEffect DEF WorkerWay, SetupPcs
<1>4. CASE InitializeAsManager(w)
  BY <1>4, <1>g, <1>p, WorkerGoes, GotoEffect DEF InitializeAsManager, WorkerWay, SetupPcs
<1>5. CASE LeaveSwarm(w)
  BY <1>5, <1>g, <1>p, WorkerGoes, GotoEffect DEF LeaveSwarm, WorkerWay, SetupPcs
<1>6. CASE JoinSwarm(w)
  <2>1. proc[w].pc = "joining" /\ (Goto(w, "succeeded") \/ Goto(w, "failed"))
    BY <1>6 DEF JoinSwarm
  <2>2. QED
    BY <2>1, <1>g, <1>p, WorkerGoes, GotoEffect DEF WorkerWay, SetupPcs
<1>7. CASE FetchForResult(w)
  BY <1>7, <1>0, <1>p, FetchEffect DEF WorkerWay
<1>8. CASE CopyConfiguration(w)
  BY <1>8, <1>0, <1>p, CopyEffect DEF WorkerWay
<1>9. CASE Store(w) \/ StoreFails(w)
  BY <1>9, <1>r DEF Store, StoreFails
<1>10. CASE \E kind \in Kinds, s \in Servers : Take(w, kind, s)
  <2>1. PICK kind \in Kinds, s \in Servers : Take(w, kind, s)
    BY <1>10
  <2>2. CASE ~Exists(s)
    BY <2>1, <2>2, <1>p DEF Take, ProcShape, WorkerWay, WantsManager
  <2>3. CASE Exists(s)
    <3>1. PICK c \in Rows : c = row[s]
      BY <2>3 DEF Exists
    <3>2. PICK q : q = [pc |-> IF kind = "setup" THEN "choose" ELSE "copy", op |-> kind, server |-> s,
                        copy |-> c, via |-> NoServer]
      OBVIOUS
    <3>3. q \in WorkerStates /\ q.pc \in {"choose", "copy"}
      BY <3>2 DEF WorkerStates, SetupPcs, Places, Kinds
    <3>4. proc' = [proc EXCEPT ![w] = q]
      BY <2>1, <2>3, <3>1, <3>2 DEF Take
    <3>5. proc'[w] = q /\ ProcShape'
      BY <3>3, <3>4, <1>p, ProcEffect
    <3>6. QED
      BY <3>3, <3>5 DEF WorkerWay
  <2>4. QED
    BY <2>2, <2>3
<1>11. QED
  BY <1>1, <1>2, <1>3, <1>4, <1>5, <1>6, <1>7, <1>8, <1>9, <1>10 DEF OfWorker

LEMMA ProcStep ==
  ASSUME Shape, Next
  PROVE  ProcShape' /\ WayIsKept'
<1>p. ProcShape /\ WayIsKept /\ Resolvers \subseteq Processes /\ Workers \subseteq Processes
      /\ Resolvers \cap Workers = {}
  BY ServersAssumption DEF Shape, Processes
<1>1. ASSUME NEW r \in Resolvers, proc'[r] = proc[r] PROVE ResolverWay(r)'
  BY <1>1, <1>p DEF ResolverWay, WayIsKept
<1>2. ASSUME NEW w \in Workers, proc'[w] = proc[w] PROVE WorkerWay(w)'
  BY <1>2, <1>p DEF WorkerWay, WayIsKept, WantsManager
<1>3. CASE ServerStep
  <2>1. proc' = proc
    BY <1>3 DEF ServerStep, CreateServer, Probe, EndProbe, Reachable
  <2>2. QED
    BY <2>1, <1>1, <1>2, <1>p DEF ProcShape, WayIsKept
<1>4. CASE Crash
  <2>1. proc' = [p \in Processes |-> Idle]
    BY <1>4 DEF Crash
  <2>2. QED
    BY <2>1, <1>p DEF ProcShape, WayIsKept, ResolverWay, WorkerWay, ResolverStates, WorkerStates, Idle,
       RowUpdates
<1>5. ASSUME NEW r \in Resolvers, OfResolver(r) PROVE ProcShape' /\ WayIsKept'
  BY <1>5, <1>1, <1>2, <1>p, ResolverProceeds, OthersStay DEF WayIsKept
<1>6. ASSUME NEW w \in Workers, OfWorker(w) PROVE ProcShape' /\ WayIsKept'
  BY <1>6, <1>1, <1>2, <1>p, WorkerProceeds, OthersStay DEF WayIsKept
<1>7. QED
  BY <1>3, <1>4, <1>5, <1>6, NextIs

-----------------------------------------------------------------------------
(* The rows, the nodes and the queue keep their form. *)
LEMMA ServerTable ==
  ASSUME Shape, ServerStep
  PROVE  TableShape'
<1>p. TableShape
  BY DEF Shape
<1>1. ASSUME NEW s \in Servers, CreateServer(s) PROVE TableShape'
  BY <1>1, <1>p DEF CreateServer, TableShape, Rows, Modes
<1>2. ASSUME NEW s \in Servers, Probe(s) PROVE TableShape'
  BY <1>2, <1>p DEF Probe, TableShape
<1>3. ASSUME NEW s \in Servers, EndProbe(s) PROVE TableShape'
  <2>1. CASE ~Exists(s)
    BY <1>3, <2>1, <1>p DEF EndProbe, TableShape
  <2>2. CASE Exists(s)
    <3>1. PICK c \in Rows : c = row[s]
      BY <2>2 DEF Exists
    <3>2. PICK d : d = [c EXCEPT !.status = IF up[s] THEN "online" ELSE "offline"]
      OBVIOUS
    <3>3. d \in Rows
      BY <3>2 DEF Rows, Prepared
    <3>4. row' = [row EXCEPT ![s] = d]
      BY <1>3, <2>2, <3>1, <3>2, <1>p DEF EndProbe, TableShape
    <3>5. row' \in [Servers -> Rows \cup {NoRow, Deleted}]
      BY <3>3, <3>4, <1>p DEF TableShape
    <3>6. QED
      BY <1>3, <3>5, <1>p DEF EndProbe, TableShape
  <2>3. QED
    BY <2>1, <2>2
<1>4. ASSUME NEW s \in Servers, Reachable(s) PROVE TableShape'
  BY <1>4, <1>p DEF Reachable, TableShape
<1>5. QED
  BY <1>1, <1>2, <1>3, <1>4 DEF ServerStep

LEMMA NodeUpdates ==
  ASSUME NEW op \in SwarmCalls, NEW s, node[s] \in Nodes
  PROVE  /\ SwarmUpdate(op, s) \in Nodes \cup {NoNode}
         /\ op \notin {"remove", "delete"} =>
              SwarmUpdate(op, s) \in Nodes /\ SwarmUpdate(op, s).swarm = node[s].swarm
         /\ op \in {"remove", "delete"} => SwarmUpdate(op, s) = NoNode
<1>1. CASE op = "promote"
  BY <1>1 DEF SwarmUpdate, Nodes
<1>2. CASE op = "demote"
  BY <1>2 DEF SwarmUpdate, Nodes
<1>3. CASE op = "drain"
  BY <1>3 DEF SwarmUpdate, Nodes
<1>4. CASE op = "activate"
  BY <1>4 DEF SwarmUpdate, Nodes
<1>5. CASE op \in {"remove", "delete"}
  BY <1>5 DEF SwarmUpdate
<1>6. QED
  BY <1>1, <1>2, <1>3, <1>4, <1>5 DEF SwarmCalls

(* A goroutine that is at work has a server. *)
LEMMA AtWork ==
  ASSUME Shape, NEW p \in Processes, proc[p].pc # "idle"
  PROVE  proc[p] # Idle /\ proc[p].server \in Servers /\ proc[p].copy \in Rows
         /\ (proc[p].op \in Requests \/ proc[p].op \in Kinds)
         /\ (p \in Resolvers => proc[p].op \in Requests)
         /\ (p \in Workers => proc[p].op \in Kinds)
<1>1. proc[p] # Idle
  BY DEF Idle
<1>2. QED
  BY <1>1, ResolverFields, WorkerFields DEF Shape, Processes

LEMMA NodeIs ==
  ASSUME TableShape, NEW s \in Servers
  PROVE  /\ HasNode(s) <=> node[s] \in Nodes
         /\ node[s] = NoNode \/ node[s] \in Nodes
<1>1. node[s] \in Nodes \cup {NoNode}
  BY DEF TableShape
<1>2. NoNode \notin Nodes
  BY DEF NoNode, Nodes
<1>3. QED
  BY <1>1, <1>2 DEF HasNode

LEMMA RowIs ==
  ASSUME TableShape, NEW s \in Servers
  PROVE  /\ Exists(s) \/ row[s] = NoRow \/ row[s] = Deleted
         /\ row[s].status \in Prepared \cup {"needs_setup", "preparing"} <=> Exists(s)
         /\ row[s] = NoRow \/ row[s] = Deleted => ~Exists(s)
         /\ NoRow # Deleted
<1>1. row[s] \in Rows \cup {NoRow, Deleted}
  BY DEF TableShape
<1>2. NoRow.status = "absent" /\ Deleted.status = "deleted"
  BY DEF NoRow, Deleted
<1>3. \A c \in Rows : c.status \in Prepared \cup {"needs_setup", "preparing"}
  BY DEF Rows
<1>4. QED
  BY <1>1, <1>2, <1>3 DEF Exists, Prepared

LEMMA ResolverTable ==
  ASSUME Shape, NEW r \in Resolvers, OfResolver(r)
  PROVE  TableShape'
<1>p. TableShape /\ r \in Processes /\ ProcShape /\ ResolverWay(r)
  BY DEF Shape, Processes, WayIsKept
<1>1. CASE ChooseFirst(r) \/ ChooseManager(r) \/ GiveUp(r) \/ CountServers(r) \/ CheckHostName(r)
  BY <1>1, <1>p DEF ChooseFirst, ChooseManager, GiveUp, CountServers, CheckHostName, TableShape
<1>2. CASE CallSwarm(r)
  <2>1. proc[r].op \in SwarmCalls /\ proc[r].server \in Servers /\ proc[r].via \in Servers
    BY <1>2, <1>p, AtWork DEF CallSwarm, ResolverWay
  <2>2. CASE SameSwarm(proc[r].server, proc[r].via)
    <3>1. node[proc[r].server] \in Nodes
      BY <2>1, <2>2, <1>p, NodeIs DEF SameSwarm
    <3>2. node' = [node EXCEPT ![proc[r].server] = SwarmUpdate(proc[r].op, proc[r].server)]
      BY <1>2, <2>2 DEF CallSwarm
    <3>3. SwarmUpdate(proc[r].op, proc[r].server) \in Nodes \cup {NoNode}
      BY <2>1, <3>1, NodeUpdates
    <3>4. node' \in [Servers -> Nodes \cup {NoNode}]
      BY <3>2, <3>3, <1>p DEF TableShape
    <3>5. QED
      BY <1>2, <3>4, <1>p DEF CallSwarm, TableShape
  <2>3. CASE ~SameSwarm(proc[r].server, proc[r].via)
    BY <1>2, <2>3, <1>p DEF CallSwarm, TableShape
  <2>4. QED
    BY <2>2, <2>3
<1>3. CASE Save(r)
  <2>1. proc[r].op \in Requests /\ proc[r].copy \in Rows
    BY <1>3, <1>p, AtWork DEF Save
  <2>2. Saved(proc[r].op, proc[r].copy) \in Rows
    BY <2>1, SavedIsRow
  <2>3. QED
    BY <1>3, <2>2, <1>p DEF Save, TableShape
<1>4. CASE Enqueue(r)
  <2>1. PICK task : /\ task = <<IF proc[r].op \in Setups THEN "setup" ELSE "proxy", proc[r].server>>
                    /\ queue[task] < MaxQueued /\ queue' = [queue EXCEPT ![task] = @ + 1]
    BY <1>4 DEF Enqueue
  <2>2. task \in Kinds \X Servers
    BY <1>4, <2>1, <1>p, AtWork DEF Enqueue, Kinds
  <2>3. queue' \in [Kinds \X Servers -> 0..MaxQueued]
    BY <2>1, <2>2, <1>p, ServersAssumption DEF TableShape
  <2>4. QED
    BY <1>4, <2>3, <1>p DEF Enqueue, TableShape
<1>5. CASE LeaveAfterRemoval(r)
  <2>1. node' \in [Servers -> Nodes \cup {NoNode}]
    BY <1>5, <1>p DEF LeaveAfterRemoval, TableShape
  <2>2. QED
    BY <1>5, <2>1, <1>p DEF LeaveAfterRemoval, TableShape
<1>6. CASE DeleteRow(r)
  BY <1>6, <1>p DEF DeleteRow, TableShape
<1>7. CASE SaveFails(r) \/ EnqueueFails(r) \/ DeleteRefused(r)
  BY <1>7, <1>p DEF SaveFails, EnqueueFails, DeleteRefused, TableShape
<1>8. CASE \E op \in Requests, s \in Servers : Begin(r, op, s)
  BY <1>8, <1>p DEF Begin, TableShape
<1>9. QED
  BY <1>1, <1>2, <1>3, <1>4, <1>5, <1>6, <1>7, <1>8 DEF OfResolver

LEMMA WorkerTable ==
  ASSUME Shape, NEW w \in Workers, OfWorker(w)
  PROVE  TableShape'
<1>p. TableShape /\ w \in Processes /\ ProcShape /\ WorkerWay(w)
  BY DEF Shape, Processes, WayIsKept
<1>1. CASE ChooseFirst(w) \/ ChooseManager(w) \/ GiveUp(w) \/ FetchForResult(w)
           \/ CopyConfiguration(w) \/ StoreFails(w)
  BY <1>1, <1>p DEF ChooseFirst, ChooseManager, GiveUp, FetchForResult, CopyConfiguration, StoreFails,
     TableShape
<1>2. CASE InitializeAsManager(w)
  <2>1. PICK n \in 1..Cardinality(Servers) :
          node' = [node EXCEPT ![proc[w].server] = [swarm |-> n, role |-> "manager", drained |-> FALSE]]
    BY <1>2 DEF InitializeAsManager
  <2>2. [swarm |-> n, role |-> "manager", drained |-> FALSE] \in Nodes
    BY DEF Nodes
  <2>3. node' \in [Servers -> Nodes \cup {NoNode}]
    BY <2>1, <2>2, <1>p DEF TableShape
  <2>4. QED
    BY <1>2, <2>3, <1>p DEF InitializeAsManager, TableShape
<1>3. CASE LeaveSwarm(w)
  BY <1>3, <1>p DEF LeaveSwarm, TableShape
<1>4. CASE JoinSwarm(w)
  <2>1. CASE UNCHANGED node
    BY <1>4, <2>1, <1>p DEF JoinSwarm, TableShape
  <2>2. CASE node' # node
    <3>1. proc[w].via \in Servers
      BY <1>4, <1>p DEF JoinSwarm, WorkerWay
    <3>2. PICK d : d = [swarm |-> node[proc[w].via].swarm, drained |-> FALSE,
                        role |-> IF WantsManager(w) THEN "manager" ELSE "worker"]
      OBVIOUS
    <3>3. IsManager(proc[w].via) /\ node' = [node EXCEPT ![proc[w].server] = d]
      BY <1>4, <2>2, <3>2 DEF JoinSwarm
    <3>4. node[proc[w].via] \in Nodes
      BY <3>1, <3>3, <1>p, NodeIs DEF IsManager
    <3>5. d \in Nodes
      BY <3>2, <3>4 DEF Nodes
    <3>6. node' \in [Servers -> Nodes \cup {NoNode}]
      BY <3>3, <3>5, <1>p DEF TableShape
    <3>7. QED
      BY <1>4, <3>6, <1>p DEF JoinSwarm, TableShape
  <2>3. QED
    BY <2>1, <2>2
<1>5. CASE Store(w)
  <2>1. proc[w].copy \in Rows
    BY <1>5, <1>p, AtWork DEF Store
  <2>2. QED
    BY <1>5, <2>1, <1>p DEF Store, TableShape
<1>6. CASE \E kind \in Kinds, s \in Servers : Take(w, kind, s)
  <2>1. PICK kind \in Kinds, s \in Servers : Take(w, kind, s)
    BY <1>6
  <2>2. PICK t \in Kinds \X Servers : t = <<kind, s>>
    OBVIOUS
  <2>3. queue[t] \in 0..MaxQueued /\ queue[t] > 0 /\ extras \in 0..MaxExtras
    BY <2>1, <2>2, <1>p DEF Take, TableShape
  <2>4. queue[t] - 1 \in 0..MaxQueued
    BY <2>3, ServersAssumption
  <2>5. queue' \in [Kinds \X Servers -> 0..MaxQueued]
    BY <2>1, <2>2, <2>4, <1>p DEF Take, TableShape
  <2>6. extras' \in 0..MaxExtras
    BY <2>1, <2>3, ServersAssumption DEF Take
  <2>7. QED
    BY <2>1, <2>5, <2>6, <1>p DEF Take, TableShape
<1>7. QED
  BY <1>1, <1>2, <1>3, <1>4, <1>5, <1>6 DEF OfWorker

LEMMA CrashTable ==
  ASSUME Shape, Crash
  PROVE  TableShape'
<1>p. TableShape
  BY DEF Shape
<1>1. \A t \in Kinds \X Servers : queue'[t] \in 0..MaxQueued
  <2> TAKE t \in Kinds \X Servers
  <2>1. queue[t] \in 0..MaxQueued
    BY <1>p DEF TableShape
  <2> DEFINE again(u) == /\ queue[u] < MaxQueued
                         /\ \E w \in Workers : proc[w].op = u[1] /\ proc[w].server = u[2]
  <2>2. queue' = [u \in Kinds \X Servers |-> IF again(u) THEN queue[u] + 1 ELSE queue[u]]
    BY DEF Crash
  <2>3. again(t) => queue[t] < MaxQueued
    OBVIOUS
  <2> HIDE DEF again
  <2>4. CASE again(t)
    BY <2>1, <2>2, <2>3, <2>4, ServersAssumption
  <2>5. CASE ~again(t)
    BY <2>1, <2>2, <2>5
  <2>6. QED
    BY <2>4, <2>5
<1>2. queue' \in [Kinds \X Servers -> 0..MaxQueued]
  <2>1. queue' = [t \in Kinds \X Servers |-> queue'[t]]
    BY DEF Crash
  <2>2. QED
    BY <1>1, <2>1
<1>3. extras' \in 0..MaxExtras
  BY <1>p, ServersAssumption DEF Crash, TableShape
<1>4. probe' \in [Servers -> BOOLEAN]
  BY DEF Crash
<1>5. QED
  BY <1>2, <1>3, <1>4, <1>p DEF Crash, TableShape

(* Only servers are recorded. *)
LEMMA NoteStep ==
  ASSUME Shape, Next
  PROVE  NoteShape'
<1>p. NoteShape
  BY DEF Shape
<1>1. CASE ServerStep
  BY <1>1, <1>p DEF ServerStep, CreateServer, Probe, EndProbe, Reachable, Disturb, NoteShape
<1>2. CASE Crash
  BY <1>2, <1>p DEF Crash, NoteShape
<1>3. ASSUME NEW r \in Resolvers, OfResolver(r) PROVE NoteShape'
  <2>1. r \in Processes
    BY DEF Processes
  <2>2. CASE ChooseFirst(r)
    BY <2>1, <2>2, <1>p, AtWork DEF ChooseFirst, NoteShape
  <2>3. CASE CallSwarm(r) \/ Save(r) \/ SaveFails(r) \/ EnqueueFails(r) \/ LeaveAfterRemoval(r)
             \/ DeleteRefused(r)
    BY <2>1, <2>3, <1>p, AtWork DEF CallSwarm, Save, SaveFails, EnqueueFails, LeaveAfterRemoval,
       DeleteRefused, Disturb, NoteShape
  <2>4. CASE ChooseManager(r) \/ GiveUp(r) \/ CountServers(r) \/ CheckHostName(r) \/ Enqueue(r)
             \/ DeleteRow(r) \/ \E op \in Requests, s \in Servers : Begin(r, op, s)
    BY <2>4, <1>p DEF ChooseManager, GiveUp, CountServers, CheckHostName, Enqueue, DeleteRow, Begin,
       NoteShape
  <2>5. QED
    BY <1>3, <2>2, <2>3, <2>4 DEF OfResolver
<1>4. ASSUME NEW w \in Workers, OfWorker(w) PROVE NoteShape'
  <2>1. w \in Processes
    BY DEF Processes
  <2>2. CASE ChooseFirst(w) \/ JoinSwarm(w)
    BY <2>1, <2>2, <1>p, AtWork DEF ChooseFirst, JoinSwarm, NoteShape
  <2>3. CASE InitializeAsManager(w) \/ LeaveSwarm(w) \/ Store(w) \/ StoreFails(w)
    BY <2>1, <2>3, <1>p, AtWork DEF InitializeAsManager, LeaveSwarm, Store, StoreFails, Disturb,
       NoteShape
  <2>4. CASE ChooseManager(w) \/ GiveUp(w) \/ FetchForResult(w) \/ CopyConfiguration(w)
             \/ \E kind \in Kinds, s \in Servers : Take(w, kind, s)
    BY <2>4, <1>p DEF ChooseManager, GiveUp, FetchForResult, CopyConfiguration, Take, NoteShape
  <2>5. QED
    BY <1>4, <2>2, <2>3, <2>4 DEF OfWorker
<1>5. QED
  BY <1>1, <1>2, <1>3, <1>4, NextIs

LEMMA ShapeStep ==
  ASSUME Shape, Next
  PROVE  Shape'
<1>1. TableShape'
  BY NextIs, ServerTable, ResolverTable, WorkerTable, CrashTable
<1>2. QED
  BY <1>1, NoteStep, ProcStep DEF Shape

-----------------------------------------------------------------------------
(* Who writes what. *)
LEMMA RowWriters ==
  ASSUME Shape, Next, NEW s \in Servers
  PROVE  \/ row'[s] = row[s]
         \/ CreateServer(s) \/ EndProbe(s)
         \/ \E r \in Resolvers : proc[r].server = s /\ (Save(r) \/ DeleteRow(r))
         \/ \E w \in Workers : proc[w].server = s /\ Store(w)
<1>p. TableShape
  BY DEF Shape
<1>1. CASE ServerStep
  <2>1. PICK t \in Servers : CreateServer(t) \/ Probe(t) \/ EndProbe(t) \/ Reachable(t)
    BY <1>1 DEF ServerStep
  <2>2. t # s => row'[s] = row[s]
    BY <2>1, <1>p DEF CreateServer, Probe, EndProbe, Reachable, TableShape
  <2>3. Probe(t) \/ Reachable(t) => row' = row
    BY DEF Probe, Reachable
  <2>4. QED
    BY <2>1, <2>2, <2>3
<1>2. CASE Crash
  BY <1>2 DEF Crash
<1>3. CASE \E r \in Resolvers : OfResolver(r)
  <2>1. PICK r \in Resolvers : OfResolver(r)
    BY <1>3
  <2>2. row' = row \/ Save(r) \/ DeleteRow(r)
    BY <2>1 DEF OfResolver, ChooseFirst, ChooseManager, GiveUp, CountServers, CheckHostName, CallSwarm,
       SaveFails, Enqueue, EnqueueFails, LeaveAfterRemoval, DeleteRefused, Begin
  <2>3. (Save(r) \/ DeleteRow(r)) /\ proc[r].server # s => row'[s] = row[s]
    BY <1>p DEF Save, DeleteRow, TableShape
  <2>4. QED
    BY <2>2, <2>3
<1>4. CASE \E w \in Workers : OfWorker(w)
  <2>1. PICK w \in Workers : OfWorker(w)
    BY <1>4
  <2>2. row' = row \/ Store(w)
    BY <2>1 DEF OfWorker, ChooseFirst, ChooseManager, GiveUp, InitializeAsManager, LeaveSwarm,
       JoinSwarm, FetchForResult, CopyConfiguration, StoreFails, Take
  <2>3. Store(w) /\ proc[w].server # s => row'[s] = row[s]
    BY <1>p DEF Store, TableShape
  <2>4. QED
    BY <2>2, <2>3
<1>5. QED
  BY <1>1, <1>2, <1>3, <1>4, NextIs

LEMMA NodeWriters ==
  ASSUME Shape, Next, NEW s \in Servers
  PROVE  \/ node'[s] = node[s]
         \/ \E r \in Resolvers : proc[r].server = s /\ (CallSwarm(r) \/ LeaveAfterRemoval(r))
         \/ \E w \in Workers : /\ proc[w].server = s
                               /\ \/ InitializeAsManager(w) \/ LeaveSwarm(w)
                                  \/ JoinSwarm(w) /\ Goto(w, "succeeded")
<1>p. TableShape
  BY DEF Shape
<1>1. CASE ServerStep \/ Crash
  BY <1>1 DEF ServerStep, CreateServer, Probe, EndProbe, Reachable, Crash
<1>2. CASE \E r \in Resolvers : OfResolver(r)
  <2>1. PICK r \in Resolvers : OfResolver(r)
    BY <1>2
  <2>2. node' = node \/ CallSwarm(r) \/ LeaveAfterRemoval(r)
    BY <2>1 DEF OfResolver, ChooseFirst, ChooseManager, GiveUp, CountServers, CheckHostName, Save,
       SaveFails, Enqueue, EnqueueFails, DeleteRow, DeleteRefused, Begin
  <2>3. (CallSwarm(r) \/ LeaveAfterRemoval(r)) /\ proc[r].server # s => node'[s] = node[s]
    BY <1>p DEF CallSwarm, LeaveAfterRemoval, TableShape
  <2>4. QED
    BY <2>2, <2>3
<1>3. CASE \E w \in Workers : OfWorker(w)
  <2>1. PICK w \in Workers : OfWorker(w)
    BY <1>3
  <2>2. node' = node \/ InitializeAsManager(w) \/ LeaveSwarm(w) \/ (JoinSwarm(w) /\ Goto(w, "succeeded"))
    BY <2>1 DEF OfWorker, ChooseFirst, ChooseManager, GiveUp, Store,
       JoinSwarm, FetchForResult, CopyConfiguration, StoreFails, Take
  <2>3. (InitializeAsManager(w) \/ LeaveSwarm(w) \/ JoinSwarm(w)) /\ proc[w].server # s
          => node'[s] = node[s]
    BY <1>p DEF InitializeAsManager, LeaveSwarm, JoinSwarm, TableShape
  <2>4. QED
    BY <2>2, <2>3
<1>4. QED
  BY <1>1, <1>2, <1>3, NextIs

(* Who takes the step. *)
LEMMA Actors ==
  ASSUME Shape, Next, NEW p \in Processes
  PROVE  \/ proc'[p] = proc[p] \/ (p \in Resolvers /\ OfResolver(p)) \/ (p \in Workers /\ OfWorker(p))
         \/ Crash
<1>1. CASE ServerStep
  BY <1>1 DEF ServerStep, CreateServer, Probe, EndProbe, Reachable
<1>2. ASSUME NEW r \in Resolvers, OfResolver(r), p # r PROVE proc'[p] = proc[p]
  BY <1>2, OthersStay DEF Shape, Processes
<1>3. ASSUME NEW w \in Workers, OfWorker(w), p # w PROVE proc'[p] = proc[p]
  BY <1>3, OthersStay DEF Shape, Processes
<1>4. QED
  BY <1>1, <1>2, <1>3, NextIs

(* After a crash nobody is at work. *)
LEMMA CrashIdles ==
  ASSUME Crash, NEW p \in Processes
  PROVE  proc'[p] = Idle /\ row' = row /\ node' = node
BY DEF Crash

(* The rows of the servers that are not disturbed. *)
Alike(r, c) == r.mode = c.mode /\ r.drained = c.drained /\ r.named = c.named

LEMMA UpToDate ==
  ASSUME NEW s \in Servers, NEW c \in Rows, ~OutOfDate(s, c)
  PROVE  Exists(s) /\ Alike(row[s], c) /\ Status(row[s]) = Status(c)
<1>1. Exists(s) /\ Status(row[s]) = Status(c)
  BY DEF OutOfDate
<1>2. PICK d \in Rows : d = row[s]
  BY <1>1 DEF Exists
<1>3. [d EXCEPT !.status = c.status, !.proxy = c.proxy] = c
  BY <1>2 DEF OutOfDate
<1>4. /\ [d EXCEPT !.status = c.status, !.proxy = c.proxy].mode = d.mode
      /\ [d EXCEPT !.status = c.status, !.proxy = c.proxy].drained = d.drained
      /\ [d EXCEPT !.status = c.status, !.proxy = c.proxy].named = d.named
  BY DEF Rows
<1>5. QED
  BY <1>1, <1>2, <1>3, <1>4 DEF Alike

LEMMA SavedFields ==
  ASSUME NEW op \in Requests, NEW c \in Rows
  PROVE  /\ op \in Setups => /\ Saved(op, c).status = "preparing" /\ Saved(op, c).named
                             /\ Saved(op, c).mode \in {"manager", "worker"}
                             /\ Saved(op, c).drained = c.drained
         /\ op \notin Setups => Saved(op, c).named = c.named
         /\ op = "remove" => Saved(op, c).status = "needs_setup"
         /\ op \notin Setups \cup {"remove"} => Saved(op, c).status = c.status
         /\ op \notin Setups \cup RowUpdates => Alike(Saved(op, c), c)
         /\ op \in RowUpdates => /\ Saved(op, c).mode = Expected(op, c).mode
                                 /\ Saved(op, c).drained = Expected(op, c).drained
BY DEF Saved, Rows, Requests, Setups, SwarmCalls, RowUpdates, Alike, Expected

(* What may become of the row of a server that is not disturbed. *)
Inserted(s)  == /\ row[s] = NoRow /\ row'[s] \in Rows /\ row'[s].status = "needs_setup"
                /\ ~row'[s].named /\ ~row'[s].drained
Kept(s)      == /\ Exists(s) /\ row'[s] \in Rows /\ Alike(row'[s], row[s])
                /\ Status(row'[s]) = Status(row[s])
SetupSaved(s)   == /\ Exists(s) /\ row'[s] \in Rows /\ ~row[s].named
                   /\ row'[s].named /\ row'[s].status = "preparing"
                   /\ row'[s].mode # "none" /\ row'[s].drained = row[s].drained
RemovalSaved(s) == /\ Exists(s) /\ row'[s] \in Rows /\ Alike(row'[s], row[s])
                   /\ row'[s].status = "needs_setup"
UpdateSaved(r, s) == /\ proc[r].server = s /\ Save(r) /\ proc[r].op \in RowUpdates
                     /\ Exists(s) /\ row'[s] \in Rows
                     /\ row[s].status \in Prepared /\ row'[s].status \in Prepared
                     /\ row'[s].named = row[s].named
                     /\ row'[s].mode = Expected(proc[r].op, row[s]).mode
                     /\ row'[s].drained = Expected(proc[r].op, row[s]).drained
ResultStored(w, s) == /\ proc[w].server = s /\ Store(w) /\ proc[w].op = "setup"
                      /\ Exists(s) /\ row'[s] \in Rows /\ Alike(row'[s], row[s])
                      /\ row[s].status = "preparing" /\ row'[s].status = proc[w].copy.status
                      /\ row'[s].status \in {"online", "needs_setup"}

LEMMA SaveEffect ==
  ASSUME Shape, RowsAreRegular, CopiesAreEarlier, NEW r \in Resolvers, Save(r),
         proc[r].server \notin disturbed'
  PROVE  LET s == proc[r].server IN
         /\ proc[r].op \in Setups => SetupSaved(s)
         /\ proc[r].op = "remove" => RemovalSaved(s)
         /\ proc[r].op \in RowUpdates => UpdateSaved(r, s)
         /\ proc[r].op \notin Setups \cup RowUpdates \cup {"remove"} => Kept(s)
<1> DEFINE s == proc[r].server  c == proc[r].copy  op == proc[r].op
<1>p. TableShape /\ r \in Processes /\ ResolverWay(r)
  BY DEF Shape, Processes, WayIsKept
<1>1. proc[r] # Idle /\ s \in Servers /\ c \in Rows /\ op \in Requests /\ proc[r].pc = "save"
  BY <1>p, AtWork DEF Save
<1>2. ~OutOfDate(s, c) /\ s \notin disturbed
  BY <1>1 DEF Save, Disturb
<1>3. Exists(s) /\ Alike(row[s], c) /\ Status(row[s]) = Status(c)
  BY <1>1, <1>2, UpToDate
<1>4. row'[s] = Saved(op, c) /\ Saved(op, c) \in Rows
  BY <1>1, <1>p, SavedIsRow DEF Save, TableShape
<1>5. PICK d \in Rows : d = Saved(op, c)
  BY <1>4
<1>6. /\ op \in Setups => d.status = "preparing" /\ d.named /\ d.mode # "none" /\ d.drained = c.drained
      /\ op \notin Setups => d.named = c.named
      /\ op = "remove" => d.status = "needs_setup"
      /\ op \notin Setups \cup {"remove"} => d.status = c.status
      /\ op \notin Setups \cup RowUpdates => Alike(d, c)
      /\ op \in RowUpdates => d.mode = Expected(op, c).mode /\ d.drained = Expected(op, c).drained
  BY <1>1, <1>5, SavedFields
<1>d. row'[s] = d
  BY <1>4, <1>5
<1>7. CASE op \in Setups
  <2>1. ~c.named
    BY <1>1, <1>2, <1>3, <1>7, <1>p DEF CopiesAreEarlier
  <2>2. SetupSaved(s)
    BY <1>3, <1>6, <1>7, <1>d, <2>1 DEF SetupSaved, Alike
  <2>3. op \notin RowUpdates /\ op # "remove"
    BY <1>7 DEF Setups, RowUpdates
  <2>4. QED
    BY <2>2, <2>3, <1>7
<1>8. CASE op = "remove"
  BY <1>3, <1>6, <1>8, <1>d DEF RemovalSaved, Alike, Setups, RowUpdates
<1>9. CASE op \in RowUpdates
  <2>1. c.status = "online" /\ op \notin Setups /\ op # "remove"
    BY <1>9, <1>p DEF ResolverWay, RowUpdates, Setups
  <2>2. row[s].status \in Prepared
    <3>1. row[s].status \in Prepared \cup {"needs_setup", "preparing"}
      BY <1>1, <1>3, <1>p, RowIs
    <3>2. Status(row[s]) = "prepared"
      BY <1>3, <2>1 DEF Status, Prepared
    <3>3. QED
      BY <3>1, <3>2 DEF Status, Prepared
  <2>3. d.status = "online" /\ d.named = row[s].named
    BY <1>3, <1>6, <2>1 DEF Alike
  <2>4. PICK e \in Rows : e = row[s]
    BY <1>3 DEF Exists
  <2>5. Expected(op, c).mode = Expected(op, e).mode /\ Expected(op, c).drained = Expected(op, e).drained
    BY <1>1, <1>3, <1>9, <2>4 DEF Alike, Expected, RowUpdates, Rows
  <2>6. UpdateSaved(r, s)
    BY <1>3, <1>6, <1>9, <1>d, <2>2, <2>3, <2>4, <2>5 DEF UpdateSaved, Prepared
  <2>7. QED
    BY <2>1, <2>6, <1>9
<1>10. CASE op \notin Setups \cup RowUpdates \cup {"remove"}
  <2>1. d.status = c.status /\ Alike(d, c)
    BY <1>6, <1>10
  <2>2. QED
    BY <1>3, <1>d, <1>10, <2>1 DEF Kept, Alike, Status
<1>11. QED
  BY <1>7, <1>8, <1>9, <1>10

LEMMA StoreEffect ==
  ASSUME Shape, NEW w \in Workers, Store(w), proc[w].server \notin disturbed'
  PROVE  LET s == proc[w].server IN
         IF proc[w].op = "setup" THEN ResultStored(w, s) ELSE Kept(s)
<1> DEFINE s == proc[w].server  c == proc[w].copy
<1>p. TableShape /\ w \in Processes /\ WorkerWay(w)
  BY DEF Shape, Processes, WayIsKept
<1>1. s \in Servers /\ c \in Rows /\ proc[w].pc = "store"
  BY <1>p, AtWork DEF Store
<1>2. ~StoreIsStale(w)
  BY DEF Store, Disturb
<1>3. row'[s] = c
  BY <1>1, <1>p DEF Store, TableShape
<1>4. CASE proc[w].op = "setup"
  <2>1. PICK d : d = [c EXCEPT !.status = "preparing"]
    OBVIOUS
  <2>2. d \in Rows /\ d.status = "preparing" /\ Alike(d, c)
    BY <1>1, <2>1 DEF Rows, Alike
  <2>3. ~OutOfDate(s, d)
    BY <1>2, <1>4, <2>1 DEF StoreIsStale
  <2>4. Exists(s) /\ Alike(row[s], d) /\ Status(row[s]) = Status(d)
    BY <1>1, <2>2, <2>3, UpToDate
  <2>5. row[s].status = "preparing"
    BY <2>2, <2>4 DEF Status, Prepared
  <2>6. c.status \in {"online", "needs_setup"}
    BY <1>1, <1>4, <1>p DEF WorkerWay
  <2>7. QED
    BY <1>1, <1>3, <1>4, <2>2, <2>4, <2>5, <2>6 DEF ResultStored, Alike
<1>5. CASE proc[w].op # "setup"
  <2>1. ~OutOfDate(s, c)
    BY <1>2, <1>5 DEF StoreIsStale
  <2>2. Exists(s) /\ Alike(row[s], c) /\ Status(row[s]) = Status(c)
    BY <1>1, <2>1, UpToDate
  <2>3. QED
    BY <1>1, <1>3, <1>5, <2>2 DEF Kept, Alike
<1>6. QED
  BY <1>4, <1>5

LEMMA ProbeEffect ==
  ASSUME Shape, NEW s \in Servers, EndProbe(s), s \notin disturbed'
  PROVE  row'[s] = row[s] \/ Kept(s)
<1>p. TableShape
  BY DEF Shape
<1>1. CASE ~Exists(s)
  BY <1>1 DEF EndProbe
<1>2. CASE Exists(s)
  <2>1. PICK c \in Rows : c = row[s]
    BY <1>2 DEF Exists
  <2>2. PICK d : d = [c EXCEPT !.status = IF up[s] THEN "online" ELSE "offline"]
    OBVIOUS
  <2>3. d \in Rows /\ d.status \in Prepared /\ Alike(d, c)
    BY <2>2 DEF Rows, Prepared, Alike
  <2>4. row'[s] = d
    BY <1>2, <1>p, <2>1, <2>2 DEF EndProbe, TableShape
  <2>5. c.status \in Prepared
    BY <1>2, <2>1 DEF EndProbe, Disturb
  <2>6. QED
    BY <1>2, <2>1, <2>3, <2>4, <2>5 DEF Kept, Status
<1>3. QED
  BY <1>1, <1>2

LEMMA RowEffect ==
  ASSUME Shape, RowsAreRegular, CopiesAreEarlier, Next, NEW s \in Servers, s \notin disturbed'
  PROVE  \/ row'[s] = row[s] \/ Inserted(s) \/ Kept(s) \/ SetupSaved(s) \/ RemovalSaved(s)
         \/ row'[s] = Deleted
         \/ \E r \in Resolvers : UpdateSaved(r, s)
         \/ \E w \in Workers : ResultStored(w, s)
<1>p. TableShape
  BY DEF Shape
<1>1. CASE CreateServer(s)
  <2>1. row[s] = NoRow /\ row'[s] = [status |-> "needs_setup", mode |-> "none",
                                     drained |-> FALSE, proxy |-> "off", named |-> FALSE]
    BY <1>1, <1>p DEF CreateServer, TableShape
  <2>2. QED
    BY <2>1 DEF Inserted, Rows, Modes
<1>2. CASE EndProbe(s)
  BY <1>2, ProbeEffect
<1>3. ASSUME NEW r \in Resolvers, proc[r].server = s, Save(r)
      PROVE  SetupSaved(s) \/ RemovalSaved(s) \/ UpdateSaved(r, s) \/ Kept(s)
  BY <1>3, SaveEffect
<1>4. ASSUME NEW r \in Resolvers, proc[r].server = s, DeleteRow(r)
      PROVE  row'[s] = Deleted
  BY <1>4, <1>p DEF DeleteRow, TableShape
<1>5. ASSUME NEW w \in Workers, proc[w].server = s, Store(w)
      PROVE  ResultStored(w, s) \/ Kept(s)
  BY <1>5, StoreEffect
<1>6. QED
  BY <1>1, <1>2, <1>3, <1>4, <1>5, RowWriters

(* A row is inserted once, and goes on. *)
LEMMA RowsRemain ==
  ASSUME Shape, Next, NEW s \in Servers, row'[s] = NoRow
  PROVE  row[s] = NoRow
<1>p. TableShape
  BY DEF Shape
<1>n. NoRow \notin Rows /\ NoRow # Deleted
  BY DEF NoRow, Deleted, Rows, Prepared
<1>1. ~CreateServer(s)
  <2>1. [status |-> "needs_setup", mode |-> "none", drained |-> FALSE, proxy |-> "off",
         named |-> FALSE] # NoRow
    BY DEF NoRow
  <2>2. QED
    BY <2>1, <1>p DEF CreateServer, TableShape
<1>2. CASE EndProbe(s)
  <2>1. ASSUME Exists(s) PROVE FALSE
    <3>1. PICK c \in Rows : c = row[s]
      BY <2>1 DEF Exists
    <3>2. PICK d : d = [c EXCEPT !.status = IF up[s] THEN "online" ELSE "offline"]
      OBVIOUS
    <3>3. d \in Rows
      BY <3>2 DEF Rows, Prepared
    <3>4. row'[s] = d
      BY <1>2, <2>1, <3>1, <3>2, <1>p DEF EndProbe, TableShape
    <3>5. QED
      BY <3>3, <3>4, <1>n
  <2>2. QED
    BY <1>2, <2>1 DEF EndProbe
<1>3. ASSUME NEW r \in Resolvers, proc[r].server = s, Save(r) \/ DeleteRow(r) PROVE FALSE
  <2>1. r \in Processes
    BY DEF Processes
  <2>2. CASE Save(r)
    <3>1. proc[r].op \in Requests /\ proc[r].copy \in Rows
      BY <2>1, <2>2, AtWork DEF Save
    <3>2. Saved(proc[r].op, proc[r].copy) \in Rows
      BY <3>1, SavedIsRow
    <3>3. QED
      BY <1>3, <2>2, <3>2, <1>p, <1>n DEF Save, TableShape
  <2>3. CASE DeleteRow(r)
    BY <1>3, <2>3, <1>p, <1>n DEF DeleteRow, TableShape
  <2>4. QED
    BY <1>3, <2>2, <2>3
<1>4. ASSUME NEW w \in Workers, proc[w].server = s, Store(w) PROVE FALSE
  <2>1. w \in Processes
    BY DEF Processes
  <2>2. proc[w].copy \in Rows
    BY <1>4, <2>1, AtWork DEF Store
  <2>3. QED
    BY <1>4, <2>2, <1>p, <1>n DEF Store, TableShape
<1>5. QED
  BY <1>1, <1>2, <1>3, <1>4, RowWriters

LEMMA RowStays ==
  ASSUME Shape, RowsAreRegular, CopiesAreEarlier, Next, NEW s \in Servers, s \notin disturbed',
         row'[s] \in Rows
  PROVE  /\ Inserted(s) \/ (Exists(s) /\ Later(row'[s], row[s]))
         /\ Regular(row'[s])
<1>1. s \notin disturbed /\ (Exists(s) => Regular(row[s]))
  BY NotesGrow DEF RowsAreRegular
<1>2. Deleted \notin Rows
  BY DEF Deleted, Rows, Prepared
<1>3. CASE row'[s] = row[s]
  BY <1>1, <1>3 DEF Exists, Later
<1>4. CASE Inserted(s)
  BY <1>4 DEF Inserted, Regular
<1>5. CASE Kept(s)
  <2>1. row[s].status \in Prepared \cup {"needs_setup", "preparing"}
    BY <1>5, RowIs DEF Kept, Shape
  <2>2. row'[s].status \in Prepared \cup {"needs_setup", "preparing"}
    BY <1>5 DEF Kept, Rows
  <2>3. /\ row[s].status = "preparing" <=> row'[s].status = "preparing"
        /\ row[s].status = "needs_setup" <=> row'[s].status = "needs_setup"
    BY <1>5, <2>1, <2>2 DEF Kept, Status, Prepared
  <2>4. QED
    BY <1>1, <1>5, <2>3 DEF Kept, Alike, Regular, Later
<1>6. CASE SetupSaved(s)
  BY <1>1, <1>6 DEF SetupSaved, Regular, Later
<1>7. CASE RemovalSaved(s)
  BY <1>1, <1>7 DEF RemovalSaved, Alike, Regular, Later
<1>8. ASSUME NEW r \in Resolvers, UpdateSaved(r, s)
      PROVE  Exists(s) /\ Later(row'[s], row[s]) /\ Regular(row'[s])
  BY <1>1, <1>8 DEF UpdateSaved, Regular, Later, Prepared
<1>9. ASSUME NEW w \in Workers, ResultStored(w, s)
      PROVE  Exists(s) /\ Later(row'[s], row[s]) /\ Regular(row'[s])
  BY <1>1, <1>9 DEF ResultStored, Alike, Regular, Later
<1>10. QED
  BY <1>2, <1>3, <1>4, <1>5, <1>6, <1>7, <1>8, <1>9, RowEffect

(* A goroutine begins with the row as it is, goes on with it, or reads it again. *)
Begins(p) == /\ proc[p] = Idle /\ proc'[p].server \in Servers /\ Exists(proc'[p].server)
             /\ proc'[p].copy = row[proc'[p].server] /\ proc'[p].via = NoServer
             /\ proc'[p].pc \in {"save", "delete", "count", "choose", "copy"}
             /\ proc'[p].pc = "save" => proc'[p].op \in {"restrict", "enable_proxy", "disable_proxy"}
             /\ row' = row /\ node' = node /\ disturbed' = disturbed
GoesOn(p) == /\ proc[p] # Idle /\ proc'[p].server = proc[p].server /\ proc'[p].op = proc[p].op
             /\ Alike(proc'[p].copy, proc[p].copy) /\ proc'[p].copy.status = proc[p].copy.status
             /\ Rereads(p) => proc'[p] = proc[p]
RereadBy(w) == /\ FetchForResult(w) /\ Exists(proc[w].server)

LEMMA ResolverOrigin ==
  ASSUME Shape, NEW r \in Resolvers, OfResolver(r), proc'[r] # Idle
  PROVE  Begins(r) \/ GoesOn(r)
<1>p. ProcShape /\ r \in Processes /\ ~Return(r) /\ proc[r].op # "setup"
  <2>1. ProcShape /\ r \in Processes
    BY DEF Shape, Processes
  <2>2. QED
    BY <2>1, ResolverFields, ReturnEffect DEF Requests, Setups, SwarmCalls
<1>1. ASSUME NEW pc, Goto(r, pc), proc[r].pc # "idle" PROVE GoesOn(r)
  BY <1>1, <1>p, GotoEffect DEF GoesOn, Alike, Rereads, Idle
<1>2. ASSUME NEW m, NEW pc, GotoVia(r, m, pc), proc[r].pc # "idle" PROVE GoesOn(r)
  <2>1. /\ proc'[r].pc = pc /\ proc'[r].op = proc[r].op /\ proc'[r].server = proc[r].server
        /\ proc'[r].copy = proc[r].copy /\ proc'[r].via = m
        /\ DOMAIN proc'[r] = {"pc", "op", "server", "copy", "via"}
        /\ proc'[r] = [f \in DOMAIN proc'[r] |-> proc'[r][f]]
    BY <1>2, <1>p, GotoViaEffect
  <2>2. QED
    BY <1>2, <1>p, <2>1 DEF GoesOn, Alike, Rereads, Idle
<1>3. CASE ChooseFirst(r)
  BY <1>3, <1>1 DEF ChooseFirst
<1>4. CASE ChooseManager(r)
  <2>1. PICK m : CASE proc[r].op \in Setups -> Goto(r, "hostname")
                   [] proc[r].op = "setup" -> GotoVia(r, m, "leave")
                   [] OTHER -> GotoVia(r, m, "call")
    BY <1>4 DEF ChooseManager
  <2>2. proc[r].op \in Setups => Goto(r, "hostname")
    BY <2>1 DEF Setups
  <2>3. proc[r].op \notin Setups => GotoVia(r, m, "call")
    BY <2>1, <1>p
  <2>4. proc[r].pc # "idle"
    BY <1>4 DEF ChooseManager
  <2>5. QED
    BY <2>2, <2>3, <2>4, <1>1, <1>2
<1>5. CASE GiveUp(r)
  BY <1>5, <1>1, <1>p DEF GiveUp
<1>6. CASE CountServers(r) \/ CheckHostName(r) \/ CallSwarm(r) \/ Save(r)
  BY <1>6, <1>1, <1>p DEF CountServers, CheckHostName, CallSwarm, Save
<1>7. ~(SaveFails(r) \/ Enqueue(r) \/ EnqueueFails(r) \/ LeaveAfterRemoval(r) \/ DeleteRow(r)
        \/ DeleteRefused(r))
  BY <1>p DEF SaveFails, Enqueue, EnqueueFails, LeaveAfterRemoval, DeleteRow, DeleteRefused
<1>8. CASE \E op \in Requests, s \in Servers : Begin(r, op, s)
  <2>1. PICK op \in Requests, s \in Servers : Begin(r, op, s)
    BY <1>8
  <2>2. PICK pc : pc = FirstStep(op, row[s])
    OBVIOUS
  <2>3. PICK q : q = [pc |-> pc, op |-> op, server |-> s, copy |-> row[s], via |-> NoServer]
    OBVIOUS
  <2>4. /\ pc \in {"save", "delete", "count", "choose"}
        /\ pc = "save" => op \in {"restrict", "enable_proxy", "disable_proxy"}
    BY <2>2 DEF FirstStep
  <2>5. proc' = [proc EXCEPT ![r] = q]
    BY <2>1, <2>2, <2>3 DEF Begin
  <2>6. proc'[r] = q
    BY <2>5, <1>p, ProcEffect
  <2>7. /\ q.pc = pc /\ q.op = op /\ q.server = s /\ q.copy = row[s] /\ q.via = NoServer
    BY <2>3
  <2>8. QED
    BY <2>1, <2>4, <2>6, <2>7 DEF Begin, Begins
<1>9. QED
  BY <1>3, <1>4, <1>5, <1>6, <1>7, <1>8 DEF OfResolver

LEMMA WorkerOrigin ==
  ASSUME Shape, NEW w \in Workers, OfWorker(w), proc'[w] # Idle
  PROVE  Begins(w) \/ GoesOn(w) \/ RereadBy(w)
<1>p. ProcShape /\ w \in Processes /\ ~Return(w)
  <2>1. ProcShape /\ w \in Processes
    BY DEF Shape, Processes
  <2>2. QED
    BY <2>1, ReturnEffect
<1>1. ASSUME NEW pc, Goto(w, pc), proc[w].pc \notin {"idle", "store"} PROVE GoesOn(w)
  BY <1>1, <1>p, GotoEffect DEF GoesOn, Alike, Rereads, Idle
<1>2. ASSUME NEW m, NEW pc, GotoVia(w, m, pc), proc[w].pc \notin {"idle", "store"} PROVE GoesOn(w)
  <2>1. /\ proc'[w].pc = pc /\ proc'[w].op = proc[w].op /\ proc'[w].server = proc[w].server
        /\ proc'[w].copy = proc[w].copy /\ proc'[w].via = m
        /\ DOMAIN proc'[w] = {"pc", "op", "server", "copy", "via"}
        /\ proc'[w] = [f \in DOMAIN proc'[w] |-> proc'[w][f]]
    BY <1>2, <1>p, GotoViaEffect
  <2>2. QED
    BY <1>2, <1>p, <2>1 DEF GoesOn, Alike, Rereads, Idle
<1>3. CASE ChooseFirst(w)
  BY <1>3, <1>1 DEF ChooseFirst
<1>4. CASE ChooseManager(w)
  <2>1. proc[w].pc = "choose" /\ proc[w].op = "setup"
    <3>1. proc[w].pc = "choose"
      BY <1>4 DEF ChooseManager
    <3>2. QED
      BY <3>1, <1>p, WorkerFields DEF Kinds, Idle
  <2>2. PICK m : GotoVia(w, m, "leave")
    BY <1>4, <2>1 DEF ChooseManager, Setups
  <2>3. QED
    BY <2>1, <2>2, <1>2
<1>5. CASE GiveUp(w)
  BY <1>5, <1>1, <1>p DEF GiveUp
<1>6. CASE InitializeAsManager(w) \/ LeaveSwarm(w) \/ JoinSwarm(w)
  BY <1>6, <1>1 DEF InitializeAsManager, LeaveSwarm, JoinSwarm
<1>7. CASE FetchForResult(w)
  BY <1>7, <1>p DEF FetchForResult, RereadBy
<1>8. CASE CopyConfiguration(w)
  <2>1. proc[w].pc = "copy"
    BY <1>8 DEF CopyConfiguration
  <2>2. QED
    BY <1>8, <2>1, CopyEffect DEF GoesOn, Alike, Rereads
<1>9. ~(Store(w) \/ StoreFails(w))
  BY <1>p DEF Store, StoreFails
<1>10. CASE \E kind \in Kinds, s \in Servers : Take(w, kind, s)
  <2>1. PICK kind \in Kinds, s \in Servers : Take(w, kind, s)
    BY <1>10
  <2>2. Exists(s) /\ proc[w] = Idle
    BY <2>1 DEF Take
  <2>3. PICK pc \in {"choose", "copy"} : pc = IF kind = "setup" THEN "choose" ELSE "copy"
    OBVIOUS
  <2>4. PICK q : q = [pc |-> pc, op |-> kind, server |-> s, copy |-> row[s], via |-> NoServer]
    OBVIOUS
  <2>5. proc' = [proc EXCEPT ![w] = q]
    BY <2>1, <2>2, <2>3, <2>4 DEF Take
  <2>6. proc'[w] = q
    BY <2>5, <1>p, ProcEffect
  <2>7. /\ q.pc = pc /\ q.op = kind /\ q.server = s /\ q.copy = row[s] /\ q.via = NoServer
    BY <2>4
  <2>8. QED
    BY <2>1, <2>2, <2>3, <2>6, <2>7 DEF Take, Begins
<1>11. QED
  BY <1>3, <1>4, <1>5, <1>6, <1>7, <1>8, <1>9, <1>10 DEF OfWorker

LEMMA Origins ==
  ASSUME Shape, Next, NEW p \in Processes, proc'[p] # Idle
  PROVE  Begins(p) \/ GoesOn(p) \/ (p \in Workers /\ RereadBy(p))
<1>1. CASE proc'[p] = proc[p]
  BY <1>1 DEF GoesOn, Alike
<1>2. QED
  BY <1>1, Actors, CrashIdles, ResolverOrigin, WorkerOrigin

(* How a resolver and a worker come where they are. *)
LEMMA ResolverCame ==
  ASSUME Shape, Next, NEW r \in Resolvers, proc'[r] # proc[r]
  PROVE  /\ proc'[r].pc = "save" => \/ CheckHostName(r) /\ proc'[r].op \in Setups
                                    \/ CallSwarm(r) /\ proc'[r].op \in SwarmCalls
                                    \/ proc'[r].op \in {"restrict", "enable_proxy", "disable_proxy"}
         /\ proc'[r].pc = "delete" => CallSwarm(r) \/ proc'[r].via = NoServer
         /\ proc'[r].pc = "leave"  => Save(r) /\ proc[r].op = "remove"
<1>p. ProcShape /\ r \in Processes /\ ResolverWay(r) /\ Idle.pc = "idle"
  BY DEF Shape, Processes, WayIsKept, Idle
<1>1. CASE proc'[r].pc = "idle"
  BY <1>1
<1>2. CASE proc'[r].pc # "idle"
  <2>1. ~Return(r) /\ ~Crash
    BY <1>2, <1>p, ReturnEffect, CrashIdles
  <2>2. OfResolver(r)
    BY <2>1, Actors, ServersAssumption, <1>p
  <2>3. CASE ChooseFirst(r)
    <3>1. Goto(r, "hostname")
      BY <2>3, <1>p, ResolverFields, ServersAssumption DEF ChooseFirst
    <3>2. QED
      BY <3>1, <1>p, GotoEffect
  <2>4. CASE ChooseManager(r)
    <3>1. PICK m : CASE proc[r].op \in Setups -> Goto(r, "hostname")
                     [] proc[r].op = "setup" -> GotoVia(r, m, "leave")
                     [] OTHER -> GotoVia(r, m, "call")
      BY <2>4 DEF ChooseManager
    <3>2. proc[r].op \in Setups => Goto(r, "hostname")
      BY <3>1 DEF Setups
    <3>3. proc[r].op \notin Setups => GotoVia(r, m, "call")
      BY <3>1, <1>p, ResolverFields DEF Requests, Setups, SwarmCalls
    <3>4. CASE proc[r].op \in Setups
      BY <3>2, <3>4, <1>p, GotoEffect
    <3>5. CASE proc[r].op \notin Setups
      <4>1. /\ proc'[r].pc = "call" /\ proc'[r].op = proc[r].op /\ proc'[r].server = proc[r].server
            /\ proc'[r].copy = proc[r].copy /\ proc'[r].via = m
            /\ DOMAIN proc'[r] = {"pc", "op", "server", "copy", "via"}
            /\ proc'[r] = [f \in DOMAIN proc'[r] |-> proc'[r][f]]
        BY <3>3, <3>5, <1>p, GotoViaEffect
      <4>2. QED
        BY <4>1
    <3>6. QED
      BY <3>4, <3>5
  <2>5. CASE GiveUp(r)
    BY <2>5, <2>1, <1>p, ServersAssumption DEF GiveUp
  <2>6. CASE CountServers(r)
    <3>1. proc[r].via = NoServer /\ (Goto(r, "delete") \/ Goto(r, "choose"))
      BY <2>6, <2>1, <1>p DEF CountServers, ResolverWay
    <3>2. QED
      BY <3>1, <1>p, GotoEffect
  <2>7. CASE CheckHostName(r)
    <3>1. proc[r].op \in Setups /\ Goto(r, "save")
      BY <2>7, <2>1, <1>p DEF CheckHostName, ResolverWay
    <3>2. QED
      BY <2>7, <3>1, <1>p, GotoEffect
  <2>8. CASE CallSwarm(r)
    <3>1. proc[r].op \in SwarmCalls /\ Goto(r, IF proc[r].op = "delete" THEN "delete" ELSE "save")
      BY <2>8, <1>p DEF CallSwarm, ResolverWay
    <3>2. QED
      BY <2>8, <3>1, <1>p, GotoEffect
  <2>9. CASE Save(r)
    <3>1. AfterSave(proc[r].op) # "idle" /\ Goto(r, AfterSave(proc[r].op))
      BY <2>9, <2>1 DEF Save
    <3>2. \/ AfterSave(proc[r].op) = "enqueue"
          \/ AfterSave(proc[r].op) = "leave" /\ proc[r].op = "remove"
      BY <3>1 DEF AfterSave
    <3>3. QED
      BY <2>9, <3>1, <3>2, <1>p, GotoEffect
  <2>10. ~(SaveFails(r) \/ Enqueue(r) \/ EnqueueFails(r) \/ LeaveAfterRemoval(r) \/ DeleteRow(r)
          \/ DeleteRefused(r))
    BY <2>1 DEF SaveFails, Enqueue, EnqueueFails, LeaveAfterRemoval, DeleteRow, DeleteRefused
  <2>11. CASE \E op \in Requests, s \in Servers : Begin(r, op, s)
    <3>1. proc[r] = Idle /\ proc'[r] # Idle
      BY <2>11, <1>2, <1>p DEF Begin
    <3>2. Begins(r)
      BY <2>2, <3>1, ResolverOrigin DEF GoesOn
    <3>3. QED
      BY <3>2 DEF Begins
  <2>12. QED
    BY <2>2, <2>3, <2>4, <2>5, <2>6, <2>7, <2>8, <2>9, <2>10, <2>11 DEF OfResolver
<1>3. QED
  BY <1>1, <1>2

LEMMA WorkerCame ==
  ASSUME Shape, Next, NEW w \in Workers, proc'[w] # proc[w]
  PROVE  /\ proc'[w].pc = "init"      => ChooseFirst(w)
         /\ proc'[w].pc = "leave"     => ChooseManager(w) /\ proc'[w].via \in ManagersFor("setup", proc[w].server)
         /\ proc'[w].pc = "joining"   => LeaveSwarm(w)
         /\ proc'[w].pc = "succeeded" => InitializeAsManager(w) \/ JoinSwarm(w)
         /\ proc'[w].pc = "failed"    => GiveUp(w) \/ JoinSwarm(w)
         /\ proc'[w].pc = "store" /\ proc'[w].op = "setup" => RereadBy(w)
<1>p. ProcShape /\ w \in Processes /\ Idle.pc = "idle"
  BY DEF Shape, Processes, Idle
<1>1. CASE proc'[w].pc = "idle"
  BY <1>1
<1>2. CASE proc'[w].pc # "idle"
  <2>1. ~Return(w) /\ ~Crash
    BY <1>2, <1>p, ReturnEffect, CrashIdles
  <2>2. OfWorker(w)
    BY <2>1, Actors, ServersAssumption, <1>p
  <2>3. CASE ChooseFirst(w)
    BY <2>3, <1>p, GotoEffect DEF ChooseFirst
  <2>4. CASE ChooseManager(w)
    <3>1. proc[w].pc = "choose"
      BY <2>4 DEF ChooseManager
    <3>2. proc[w].op = "setup"
      BY <3>1, <1>p, WorkerFields DEF Kinds, Idle
    <3>3. PICK m \in ManagersFor("setup", proc[w].server) : GotoVia(w, m, "leave")
      BY <2>4, <3>2 DEF ChooseManager, Setups
    <3>4. /\ proc'[w].pc = "leave" /\ proc'[w].op = proc[w].op /\ proc'[w].via = m
          /\ proc'[w].server = proc[w].server /\ proc'[w].copy = proc[w].copy
          /\ DOMAIN proc'[w] = {"pc", "op", "server", "copy", "via"}
          /\ proc'[w] = [f \in DOMAIN proc'[w] |-> proc'[w][f]]
      BY <3>3, <1>p, GotoViaEffect
    <3>5. QED
      BY <2>4, <3>3, <3>4
  <2>5. CASE GiveUp(w)
    BY <2>5, <1>p, GotoEffect DEF GiveUp
  <2>6. CASE InitializeAsManager(w)
    <3>1. Goto(w, "succeeded")
      BY <2>6 DEF InitializeAsManager
    <3>2. QED
      BY <2>6, <3>1, <1>p, GotoEffect
  <2>7. CASE LeaveSwarm(w)
    BY <2>7, <1>p, GotoEffect DEF LeaveSwarm
  <2>8. CASE JoinSwarm(w)
    BY <2>8, <1>p, GotoEffect DEF JoinSwarm
  <2>9. CASE FetchForResult(w)
    BY <2>9, <2>1, FetchEffect DEF FetchForResult, RereadBy
  <2>10. CASE CopyConfiguration(w)
    BY <2>10, <1>2, <1>p, CopyEffect
  <2>11. ~(Store(w) \/ StoreFails(w))
    BY <2>1 DEF Store, StoreFails
  <2>12. CASE \E kind \in Kinds, s \in Servers : Take(w, kind, s)
    <3>1. proc[w] = Idle /\ proc'[w] # Idle
      BY <2>12, <1>2, <1>p DEF Take
    <3>2. Begins(w)
      <4>1. proc[w].pc = "idle"
        BY <3>1, <1>p
      <4>2. QED
        BY <2>2, <3>1, <4>1, WorkerOrigin DEF GoesOn, RereadBy, FetchForResult
    <3>3. QED
      BY <3>2 DEF Begins
  <2>13. QED
    BY <2>2, <2>3, <2>4, <2>5, <2>6, <2>7, <2>8, <2>9, <2>10, <2>11, <2>12 DEF OfWorker
<1>3. QED
  BY <1>1, <1>2

LEMMA RowsAreRegularStep ==
  ASSUME Shape, RowsAreRegular, CopiesAreEarlier, SetupsMatch, Next
  PROVE  RowsAreRegular'
<1>1. ASSUME NEW s \in Servers, s \notin disturbed', row'[s] \in Rows PROVE Regular(row'[s])
  BY <1>1, RowStays
<1>2. ASSUME NEW p \in Processes, proc'[p] # Idle
      PROVE  /\ row'[proc'[p].server] # NoRow
             /\ proc'[p].server \notin disturbed' => Regular(proc'[p].copy)
  <2>1. CASE Begins(p)
    <3>1. row[proc'[p].server] # NoRow
      BY <2>1, RowIs DEF Begins, Shape
    <3>2. QED
      BY <2>1, <3>1 DEF Begins, RowsAreRegular
  <2>2. CASE GoesOn(p)
    <3>1. proc[p].server \in Servers
      BY <2>2, ResolverFields, WorkerFields DEF GoesOn, Shape, Processes
    <3>2. row'[proc[p].server] # NoRow
      BY <2>2, <3>1, RowsRemain DEF GoesOn, RowsAreRegular
    <3>3. proc[p].server \notin disturbed' => Regular(proc[p].copy)
      BY <2>2, NotesGrow DEF GoesOn, RowsAreRegular
    <3>4. QED
      BY <2>2, <3>2, <3>3 DEF GoesOn, Alike, Regular
  <2>3. CASE p \in Workers /\ RereadBy(p)
    <3>1. FetchForResult(p) /\ Exists(proc[p].server) /\ p \in Workers
      BY <2>3 DEF RereadBy
    <3>2. /\ proc[p] # Idle /\ proc[p].op = "setup" /\ proc[p].server \in Servers
          /\ proc'[p].server = proc[p].server
          /\ proc'[p].copy.status = IF proc[p].pc = "succeeded" THEN "online" ELSE "needs_setup"
          /\ proc'[p].copy.drained = row[proc[p].server].drained
          /\ proc'[p].copy.named = row[proc[p].server].named
      BY <3>1, FetchEffect
    <3>3. row'[proc[p].server] # NoRow
      BY <3>1, <3>2, RowsRemain DEF RowsAreRegular
    <3>4. ASSUME proc[p].server \notin disturbed' PROVE Regular(proc'[p].copy)
      <4>1. proc[p].server \notin disturbed /\ Regular(row[proc[p].server])
        BY <3>1, <3>2, <3>4, NotesGrow DEF RowsAreRegular
      <4>2. proc[p].pc = "succeeded" => row[proc[p].server].named
        BY <3>1, <3>2, <4>1 DEF SetupsMatch, Joining
      <4>3. QED
        BY <3>2, <4>1, <4>2 DEF Regular
    <3>5. QED
      BY <3>2, <3>3, <3>4
  <2>4. QED
    BY <1>2, <2>1, <2>2, <2>3, Origins
<1>3. QED
  BY <1>1, <1>2 DEF RowsAreRegular, Exists

LEMMA LaterGoesOn ==
  ASSUME NEW c, NEW r, NEW q, Regular(c), Later(r, c), Later(q, r)
  PROVE  Later(q, c)
BY DEF Regular, Later

LEMMA CopiesAreEarlierStep ==
  ASSUME Shape, RowsAreRegular, CopiesAreEarlier, Next
  PROVE  CopiesAreEarlier'
<1> SUFFICES ASSUME NEW p \in Processes, proc'[p] # Idle, proc'[p].server \notin disturbed',
                    row'[proc'[p].server] \in Rows
             PROVE  /\ ~Rereads(p)' => Later(row'[proc'[p].server], proc'[p].copy)
                    /\ proc'[p].pc = "save" /\ proc'[p].op \in Setups => ~proc'[p].copy.named
  BY DEF CopiesAreEarlier, Exists
<1>1. CASE Begins(p)
  <2>1. proc'[p].copy = row'[proc'[p].server] /\ (proc'[p].pc = "save" => proc'[p].op \notin Setups)
    BY <1>1 DEF Begins, Setups
  <2>2. QED
    BY <2>1 DEF Later
<1>2. CASE GoesOn(p)
  <2> DEFINE s == proc[p].server
  <2>1. s \in Servers /\ s = proc'[p].server /\ s \notin disturbed /\ row[s] # NoRow /\ Regular(proc[p].copy)
    BY <1>2, ResolverFields, WorkerFields, NotesGrow DEF GoesOn, Shape, Processes, RowsAreRegular
  <2>2. Exists(s) /\ Later(row'[s], row[s])
    BY <2>1, RowStays DEF Inserted
  <2>3. ~Rereads(p) => Later(row[s], proc[p].copy)
    BY <1>2, <2>1, <2>2 DEF CopiesAreEarlier, GoesOn
  <2>4. Rereads(p) => Rereads(p)'
    BY <1>2 DEF GoesOn, Rereads
  <2>5. ~Rereads(p) => Later(row'[s], proc[p].copy)
    BY <2>1, <2>2, <2>3, LaterGoesOn
  <2>6. Later(row'[s], proc[p].copy) => Later(row'[s], proc'[p].copy)
    BY <1>2 DEF GoesOn, Alike, Later
  <2>7. ASSUME proc'[p].pc = "save", proc'[p].op \in Setups PROVE ~proc'[p].copy.named
    <3>1. CASE proc'[p] = proc[p]
      BY <1>2, <2>1, <2>2, <2>7, <3>1 DEF CopiesAreEarlier, GoesOn
    <3>2. CASE proc'[p] # proc[p]
      <4>1. p \in Resolvers
        <5>1. proc[p].op \in Setups
          BY <1>2, <2>7 DEF GoesOn
        <5>2. QED
          BY <5>1, WorkerFields DEF Shape, Processes, Setups, Kinds
      <4>2. CheckHostName(p)
        BY <2>7, <3>2, <4>1, ResolverCame DEF Setups, SwarmCalls
      <4>3. Goto(p, "save")
        <5>1. proc'[p] # Idle
          OBVIOUS
        <5>2. ~Return(p)
          BY <5>1, ReturnEffect DEF Shape
        <5>3. QED
          BY <4>2, <5>2 DEF CheckHostName
      <4>4. ~row[s].named
        <5>1. ~(row[s] \in Rows /\ row[s].named)
          <6>1. CASE row[s] \in Rows /\ row[s].named
            <7>1. Return(p)
              BY <4>2, <6>1 DEF CheckHostName
            <7>2. QED
              BY <7>1, ReturnEffect DEF Shape
          <6>2. QED
            BY <6>1
        <5>2. QED
          BY <2>2, <5>1 DEF Exists
      <4>5. ~Rereads(p)
        BY <4>2 DEF CheckHostName, Rereads
      <4>6. ~proc[p].copy.named
        BY <2>3, <4>4, <4>5 DEF Later
      <4>7. QED
        BY <4>6, <1>2 DEF GoesOn, Alike
    <3>3. QED
      BY <3>1, <3>2
  <2>8. QED
    BY <2>1, <2>4, <2>5, <2>6, <2>7
<1>3. CASE p \in Workers /\ RereadBy(p)
  <2>1. proc'[p].pc = "store" /\ proc'[p].op = "setup"
    BY <1>3, FetchEffect DEF RereadBy
  <2>2. QED
    BY <2>1 DEF Rereads
<1>4. QED
  BY <1>1, <1>2, <1>3, Origins

-----------------------------------------------------------------------------
(* Calls of docker about one server do not cross, unless it is disturbed. *)
LEMMA CalledTouches ==
  ASSUME Shape, NEW r \in Resolvers, NEW s \in Servers, Called(r, s)
  PROVE  Touches(r, s) /\ r \in Processes
<1>1. ResolverWay(r)
  BY DEF Shape, WayIsKept
<1>2. QED
  BY <1>1 DEF ResolverWay, Called, Touches, Pending, SwarmCalls, Processes

LEMMA EndingTouches ==
  ASSUME NEW w \in Workers, NEW s \in Servers, Joining(w, s) \/ Ending(w, s)
  PROVE  Touches(w, s) /\ w \in Processes
BY DEF Joining, Ending, Touches, Pending, Processes

LEMMA CalledCame ==
  ASSUME Shape, Next, NEW r \in Resolvers, NEW s \in Servers, s \notin disturbed',
         Called(r, s)', ~Called(r, s)
  PROVE  CallSwarm(r) /\ proc[r].server = s /\ \A p \in Processes \ {r} : ~Touches(p, s)
<1>p. ProcShape /\ r \in Processes /\ proc'[r] # Idle
  BY DEF Shape, Processes, Idle, Called
<1>1. proc'[r] # proc[r] /\ proc'[r].server = s
  BY DEF Called
<1>2. CallSwarm(r) \/ (Save(r) /\ proc[r].op = "remove")
  BY <1>1, ResolverCame DEF Called, Setups, SwarmCalls
<1>3. proc[r].pc \in {"call", "save"}
  BY <1>2 DEF CallSwarm, Save
<1>4. proc[r].server = s
  <2>1. ~Begins(r)
    BY <1>3 DEF Begins, Idle
  <2>2. ~RereadBy(r)
    BY <1>3 DEF RereadBy, FetchForResult
  <2>3. QED
    BY <1>1, <2>1, <2>2, <1>p, Origins DEF GoesOn
<1>5. CallSwarm(r)
  BY <1>2, <1>4 DEF Save, Called, SwarmCalls
<1>6. QED
  BY <1>4, <1>5 DEF CallSwarm, Disturb

LEMMA JoiningCame ==
  ASSUME Shape, Next, NEW w \in Workers, NEW s \in Servers, s \notin disturbed',
         Joining(w, s)', ~Joining(w, s)
  PROVE  /\ LeaveSwarm(w) \/ InitializeAsManager(w)
         /\ proc[w].server = s /\ ~Rejoins(w)
<1>p. ProcShape /\ w \in Processes /\ proc'[w] # Idle
  BY DEF Shape, Processes, Idle, Joining
<1>1. proc'[w] # proc[w] /\ proc'[w].server = s
  BY DEF Joining
<1>2. ASSUME JoinSwarm(w) PROVE FALSE
  <2>1. Goto(w, "succeeded") \/ Goto(w, "failed")
    BY <1>2 DEF JoinSwarm
  <2>2. proc[w].pc = "joining" /\ proc[w].server = s /\ proc[w].op = "setup"
    BY <1>1, <1>2, <2>1, <1>p, GotoEffect DEF JoinSwarm, Joining
  <2>3. QED
    BY <2>2 DEF Joining
<1>3. ASSUME RereadBy(w), proc'[w].copy.status = "online" PROVE FALSE
  <2>1. proc[w].pc = "succeeded" /\ proc[w].server = s /\ proc[w].op = "setup"
    BY <1>1, <1>3, FetchEffect DEF RereadBy
  <2>2. QED
    BY <2>1 DEF Joining
<1>4. LeaveSwarm(w) \/ InitializeAsManager(w)
  BY <1>1, <1>2, <1>3, WorkerCame DEF Joining
<1>5. proc[w].server = s
  <2>1. Goto(w, "joining") \/ Goto(w, "succeeded")
    BY <1>4 DEF LeaveSwarm, InitializeAsManager
  <2>2. QED
    BY <1>1, <2>1, <1>p, GotoEffect
<1>6. Disturb(s, Rejoins(w))
  BY <1>4, <1>5 DEF LeaveSwarm, InitializeAsManager
<1>7. QED
  BY <1>4, <1>5, <1>6 DEF Disturb

LEMMA CallsAreAloneStep ==
  ASSUME Shape, CallsAreAlone, Next
  PROVE  CallsAreAlone'
<1> SUFFICES ASSUME NEW s \in Servers, s \notin disturbed'
             PROVE  /\ \A r, q \in Resolvers : Called(r, s)' /\ Called(q, s)' => r = q
                    /\ \A w, v \in Workers : Joining(w, s)' /\ Joining(v, s)' => w = v
                    /\ \A r \in Resolvers, w \in Workers : ~(Called(r, s)' /\ Joining(w, s)')
  BY DEF CallsAreAlone
<1>0. s \notin disturbed /\ Resolvers \cap Workers = {}
  BY NotesGrow, ServersAssumption
<1>1. ASSUME NEW r \in Resolvers, NEW q \in Resolvers, Called(r, s)', Called(q, s)', r # q PROVE FALSE
  <2>1. Called(r, s) \/ \A p \in Processes \ {r} : ~Touches(p, s)
    BY <1>1, CalledCame
  <2>2. Called(q, s) \/ \A p \in Processes \ {q} : ~Touches(p, s)
    BY <1>1, CalledCame
  <2>3. CASE Called(r, s)
    BY <1>0, <1>1, <2>2, <2>3, CalledTouches DEF CallsAreAlone
  <2>4. CASE ~Called(r, s)
    <3>1. CallSwarm(r) /\ ~Called(q, s)
      BY <1>1, <2>1, <2>4, CalledTouches, CalledCame
    <3>2. CallSwarm(q)
      BY <1>1, <3>1, CalledCame
    <3>3. proc'[q] = proc[q]
      BY <1>1, <3>1, OthersStay DEF OfResolver, Processes, Shape
    <3>4. QED
      BY <1>1, <3>1, <3>3 DEF Called
  <2>5. QED
    BY <2>3, <2>4
<1>2. ASSUME NEW w \in Workers, NEW v \in Workers, Joining(w, s)', Joining(v, s)', w # v PROVE FALSE
  <2>1. CASE Joining(w, s)
    <3>1. Joining(v, s)
      BY <1>2, <2>1, JoiningCame, EndingTouches DEF Rejoins
    <3>2. QED
      BY <1>0, <1>2, <2>1, <3>1 DEF CallsAreAlone
  <2>2. CASE ~Joining(w, s)
    <3>1. OfWorker(w) /\ proc[w].server = s /\ ~Rejoins(w)
      BY <1>2, <2>2, JoiningCame DEF OfWorker
    <3>2. proc'[v] = proc[v]
      BY <1>2, <3>1, OthersStay DEF Processes, Shape
    <3>3. Joining(v, s)
      BY <1>2, <3>2 DEF Joining
    <3>4. QED
      BY <1>2, <3>1, <3>3, EndingTouches DEF Rejoins
  <2>3. QED
    BY <2>1, <2>2
<1>3. ASSUME NEW r \in Resolvers, NEW w \in Workers, Called(r, s)', Joining(w, s)' PROVE FALSE
  <2>0. r # w /\ r \in Processes /\ w \in Processes
    BY <1>0 DEF Processes
  <2>1. CASE Called(r, s)
    <3>1. Joining(w, s)
      BY <1>3, <2>0, <2>1, JoiningCame, CalledTouches DEF Rejoins
    <3>2. QED
      BY <1>0, <2>1, <3>1 DEF CallsAreAlone
  <2>2. CASE ~Called(r, s)
    <3>1. OfResolver(r) /\ \A p \in Processes \ {r} : ~Touches(p, s)
      BY <1>3, <2>2, CalledCame DEF OfResolver
    <3>2. proc'[w] = proc[w]
      BY <2>0, <3>1, OthersStay DEF Shape
    <3>3. Joining(w, s)
      BY <1>3, <3>2 DEF Joining
    <3>4. QED
      BY <2>0, <3>1, <3>3, EndingTouches
  <2>3. QED
    BY <2>1, <2>2
<1>4. QED
  BY <1>1, <1>2, <1>3

(* What the calls do. *)
LEMMA InitEffect ==
  ASSUME Shape, NEW w \in Workers, InitializeAsManager(w)
  PROVE  LET s == proc[w].server IN
         /\ s \in Servers /\ proc[w].op = "setup" /\ WantsManager(w)
         /\ node'[s] \in Nodes /\ node'[s].role = "manager" /\ ~node'[s].drained
         /\ \A t \in Servers \ {s} : node'[t] = node[t]
         /\ Goto(w, "succeeded") /\ row' = row
<1> DEFINE s == proc[w].server
<1>p. TableShape /\ w \in Processes /\ WorkerWay(w) /\ proc[w].pc = "init" /\ ProcShape
  BY DEF Shape, Processes, WayIsKept, InitializeAsManager
<1>1. s \in Servers /\ WantsManager(w) /\ proc[w].op = "setup"
  BY <1>p, AtWork, WorkerFields DEF WorkerWay, Kinds
<1>2. PICK n \in 1..Cardinality(Servers) :
        node' = [node EXCEPT ![s] = [swarm |-> n, role |-> "manager", drained |-> FALSE]]
  BY DEF InitializeAsManager
<1>3. PICK d : d = [swarm |-> n, role |-> "manager", drained |-> FALSE]
  OBVIOUS
<1>4. d \in Nodes /\ d.role = "manager" /\ ~d.drained
  BY <1>3 DEF Nodes
<1>5. node'[s] = d /\ \A t \in Servers \ {s} : node'[t] = node[t]
  BY <1>1, <1>2, <1>3, <1>p DEF TableShape
<1>6. Goto(w, "succeeded") /\ row' = row
  BY DEF InitializeAsManager
<1>7. QED
  BY <1>1, <1>4, <1>5, <1>6

LEMMA JoinEffect ==
  ASSUME Shape, NEW w \in Workers, JoinSwarm(w), Goto(w, "succeeded")
  PROVE  LET s == proc[w].server  m == proc[w].via IN
         /\ s \in Servers /\ m \in Servers /\ proc[w].op = "setup" /\ HasNode(m)
         /\ node'[s] \in Nodes /\ ~node'[s].drained /\ node'[s].swarm = node[m].swarm
         /\ node'[s].role = IF proc[w].copy.mode = "manager" THEN "manager" ELSE "worker"
         /\ \A t \in Servers \ {s} : node'[t] = node[t]
         /\ m \in disturbed \cup split => s \in split'
         /\ row' = row /\ disturbed' = disturbed
<1> DEFINE s == proc[w].server  m == proc[w].via
<1>p. TableShape /\ w \in Processes /\ WorkerWay(w) /\ proc[w].pc = "joining" /\ ProcShape
  BY DEF Shape, Processes, WayIsKept, JoinSwarm
<1>1. s \in Servers /\ m \in Servers /\ proc[w].op = "setup"
  BY <1>p, AtWork, WorkerFields DEF WorkerWay, Kinds
<1>2. ~Goto(w, "failed")
  <2>1. proc'[w].pc = "succeeded"
    BY <1>p, GotoEffect
  <2>2. Goto(w, "failed") => proc'[w].pc = "failed"
    BY <1>p, GotoEffect
  <2>3. QED
    BY <2>1, <2>2
<1>3. PICK d : d = [swarm |-> node[m].swarm, drained |-> FALSE,
                    role |-> IF WantsManager(w) THEN "manager" ELSE "worker"]
  OBVIOUS
<1>4. /\ IsManager(m) /\ node' = [node EXCEPT ![s] = d]
      /\ split' = IF m \in disturbed \cup split THEN split \cup {s} ELSE split
  BY <1>2, <1>3 DEF JoinSwarm
<1>5. node[m] \in Nodes /\ HasNode(m)
  BY <1>1, <1>4, <1>p, NodeIs DEF IsManager
<1>6. /\ d \in Nodes /\ ~d.drained /\ d.swarm = node[m].swarm
      /\ d.role = IF proc[w].copy.mode = "manager" THEN "manager" ELSE "worker"
  BY <1>3, <1>5 DEF Nodes, WantsManager
<1>7. node'[s] = d /\ \A t \in Servers \ {s} : node'[t] = node[t]
  BY <1>1, <1>4, <1>p DEF TableShape
<1>8. row' = row /\ disturbed' = disturbed
  BY DEF JoinSwarm
<1>9. QED
  BY <1>1, <1>4, <1>5, <1>6, <1>7, <1>8

(* Nobody else changes the node of a server that is being set up. *)
LEMMA SetupKeepsNode ==
  ASSUME Shape, CallsAreAlone, Next, NEW w \in Workers, NEW s \in Servers, s \notin disturbed',
         Joining(w, s), node'[s] # node[s]
  PROVE  JoinSwarm(w) /\ Goto(w, "succeeded")
<1>0. s \notin disturbed /\ Touches(w, s) /\ w \in Processes /\ Resolvers \cap Workers = {}
  BY NotesGrow, EndingTouches, ServersAssumption
<1>1. ASSUME NEW r \in Resolvers, proc[r].server = s, CallSwarm(r) PROVE FALSE
  BY <1>0, <1>1 DEF CallSwarm, Disturb
<1>2. ASSUME NEW r \in Resolvers, proc[r].server = s, LeaveAfterRemoval(r) PROVE FALSE
  <2>1. Called(r, s)
    BY <1>2 DEF LeaveAfterRemoval, Called
  <2>2. QED
    BY <1>0, <2>1 DEF CallsAreAlone
<1>3. ASSUME NEW v \in Workers, proc[v].server = s, InitializeAsManager(v) \/ LeaveSwarm(v) PROVE FALSE
  <2>1. ~Rejoins(v) /\ proc[v].pc \in {"init", "leave"}
    BY <1>3 DEF InitializeAsManager, LeaveSwarm, Disturb
  <2>2. v # w
    BY <2>1 DEF Joining
  <2>3. QED
    BY <1>0, <1>3, <2>1, <2>2 DEF Rejoins
<1>4. ASSUME NEW v \in Workers, proc[v].server = s, JoinSwarm(v) PROVE v = w
  <2>1. proc[v].pc = "joining" /\ v \in Processes
    BY <1>4 DEF JoinSwarm, Processes
  <2>2. proc[v].op = "setup"
    BY <2>1, WorkerFields DEF Shape, Kinds, Idle
  <2>3. Joining(v, s)
    BY <1>4, <2>1, <2>2 DEF Joining
  <2>4. QED
    BY <1>0, <2>3 DEF CallsAreAlone
<1>5. QED
  BY <1>1, <1>2, <1>3, <1>4, NodeWriters

LEMMA SetupsMatchStep ==
  ASSUME Shape, RowsAreRegular, CopiesAreEarlier, CallsAreAlone, SetupsMatch, Next
  PROVE  SetupsMatch'
<1> SUFFICES ASSUME NEW w \in Workers, NEW s \in Servers, Joining(w, s)', s \notin disturbed'
             PROVE  /\ proc'[w].pc # "store" => proc'[w].copy.status = "preparing"
                    /\ row'[s] \in Rows => row'[s].named
                    /\ proc'[w].pc # "joining" /\ row'[s].status = "preparing"
                         => Matches(node'[s], row'[s])
  <2>1. ASSUME NEW w \in Workers, Joining(w, proc[w].server)' PROVE proc'[w].server \in Servers
    <3>1. Shape'
      BY ShapeStep
    <3>2. proc'[w].op = "setup" /\ ProcShape'
      BY <2>1, <3>1 DEF Joining, Shape
    <3>3. proc'[w] \in WorkerStates
      BY <3>2 DEF ProcShape
    <3>4. QED
      BY <3>2, <3>3 DEF WorkerStates, Idle
  <2>2. QED
    BY <2>1 DEF SetupsMatch, Exists
<1>p. /\ TableShape /\ ProcShape /\ w \in Processes /\ s \notin disturbed
      /\ proc'[w].server = s /\ proc'[w] # Idle
  BY NotesGrow DEF Shape, Processes, Joining, Idle
<1>r. row'[s] \in Rows \cup {NoRow, Deleted}
  BY ShapeStep DEF Shape, TableShape
<1>t. row'[s].status = "preparing" => row'[s] \in Rows
  BY <1>r DEF NoRow, Deleted
<1>1. CASE ~Joining(w, s)
  <2>1. (LeaveSwarm(w) \/ InitializeAsManager(w)) /\ proc[w].server = s /\ ~Rejoins(w)
    BY <1>1, JoiningCame
  <2>2. row' = row
        /\ ((Goto(w, "joining") /\ LeaveSwarm(w)) \/ (Goto(w, "succeeded") /\ InitializeAsManager(w)))
    BY <2>1 DEF LeaveSwarm, InitializeAsManager
  <2>3. /\ proc'[w].copy = proc[w].copy /\ proc[w].copy.status = "preparing"
        /\ proc'[w].pc # "joining" => InitializeAsManager(w)
    <3>1. proc[w].copy.status = "preparing"
      BY <2>1 DEF Rejoins
    <3>2. CASE Goto(w, "joining") /\ LeaveSwarm(w)
      BY <3>1, <3>2, <1>p, GotoEffect
    <3>3. CASE Goto(w, "succeeded") /\ InitializeAsManager(w)
      BY <3>1, <3>3, <1>p, GotoEffect
    <3>4. QED
      BY <2>2, <3>2, <3>3
  <2>4. proc[w] # Idle /\ proc[w].pc \in {"leave", "init"} /\ ~Rereads(w)
    BY <2>1 DEF LeaveSwarm, InitializeAsManager, Idle, Rereads
  <2>5. Regular(proc[w].copy)
    BY <1>p, <2>1, <2>4 DEF RowsAreRegular
  <2>6. ASSUME row[s] \in Rows PROVE Later(row[s], proc[w].copy) /\ Regular(row[s]) /\ row[s].named
    <3>1. Exists(s)
      BY <2>6 DEF Exists
    <3>2. Later(row[s], proc[w].copy)
      BY <1>p, <2>1, <2>4, <3>1 DEF CopiesAreEarlier
    <3>3. QED
      BY <1>p, <2>3, <2>5, <3>1, <3>2 DEF RowsAreRegular, Regular, Later
  <2>7. ASSUME proc'[w].pc # "joining", row'[s].status = "preparing"
        PROVE  Matches(node'[s], row'[s])
    <3>1. InitializeAsManager(w)
      BY <2>3, <2>7
    <3>2. /\ WantsManager(w) /\ node'[s] \in Nodes /\ node'[s].role = "manager" /\ ~node'[s].drained
      BY <3>1, <2>1, InitEffect
    <3>3. row[s] \in Rows /\ row[s].status = "preparing"
      BY <2>2, <2>7, <1>t
    <3>4. proc[w].copy.mode = "manager"
      BY <3>2 DEF WantsManager
    <3>5. row[s].mode = "manager" /\ ~row[s].drained
      BY <2>3, <2>6, <3>3, <3>4 DEF Later, Regular
    <3>6. node'[s] # NoNode /\ row[s].drained \in BOOLEAN /\ node'[s].drained \in BOOLEAN
      BY <3>2, <3>3 DEF Nodes, NoNode, Rows
    <3>7. QED
      BY <2>2, <3>2, <3>5, <3>6 DEF Matches
  <2>8. QED
    BY <2>2, <2>3, <2>6, <2>7
<1>2. CASE Joining(w, s)
  <2>0. proc[w].server = s /\ proc[w].op = "setup" /\ proc[w] # Idle
    BY <1>2 DEF Joining, Idle
  <2>o. GoesOn(w) \/ RereadBy(w)
    BY <1>p, <2>0, Origins DEF Begins
  <2>1. ASSUME proc'[w].pc # "store" PROVE proc'[w].copy.status = "preparing" /\ proc[w].pc # "store"
    <3>1. GoesOn(w)
      BY <2>o, <2>1, FetchEffect DEF RereadBy
    <3>2. proc[w].pc # "store"
      BY <2>0, <2>1, <3>1 DEF GoesOn, Rereads
    <3>3. proc[w].copy.status = "preparing"
      BY <1>2, <1>p, <2>0, <3>2 DEF SetupsMatch
    <3>4. QED
      BY <3>1, <3>2, <3>3 DEF GoesOn
  <2>2. ASSUME row'[s] \in Rows
        PROVE  /\ Exists(s) /\ Later(row'[s], row[s]) /\ row'[s].named /\ row[s].named
               /\ Regular(row'[s]) /\ Regular(row[s])
    <3>1. row[s] # NoRow
      BY <1>p, <2>0 DEF RowsAreRegular
    <3>2. Exists(s) /\ Later(row'[s], row[s]) /\ Regular(row'[s])
      BY <1>p, <2>2, <3>1, RowStays DEF Inserted
    <3>3. row[s].named
      BY <1>2, <1>p, <2>0, <3>2 DEF SetupsMatch
    <3>4. QED
      BY <1>p, <3>2, <3>3 DEF Later, RowsAreRegular
  <2>3. ASSUME proc'[w].pc # "joining", row'[s].status = "preparing"
        PROVE  Matches(node'[s], row'[s])
    <3>1. /\ row'[s] \in Rows /\ row[s] \in Rows /\ row[s].status = "preparing"
          /\ row'[s].mode = row[s].mode /\ ~row'[s].drained /\ ~row[s].drained
          /\ row[s].mode # "none"
      BY <2>2, <2>3, <1>t DEF Later, Regular, Exists
    <3>2. row'[s].drained = row[s].drained
      BY <3>1 DEF Rows
    <3>3. CASE node'[s] = node[s] /\ proc[w].pc # "joining"
      <4>1. Matches(node[s], row[s])
        BY <1>2, <1>p, <2>0, <3>1, <3>3 DEF SetupsMatch
      <4>2. QED
        BY <3>1, <3>2, <3>3, <4>1 DEF Matches
    <3>4. ASSUME node'[s] # node[s] \/ proc[w].pc = "joining" PROVE JoinSwarm(w) /\ Goto(w, "succeeded")
      <4>1. CASE node'[s] # node[s]
        BY <1>2, <1>p, <4>1, SetupKeepsNode
      <4>2. CASE proc[w].pc = "joining"
        <5>1. proc'[w] # proc[w]
          BY <2>3, <4>2
        <5>2. proc'[w].pc \in {"succeeded", "store"} /\ proc'[w].op = "setup"
          BY <2>3 DEF Joining
        <5>3. JoinSwarm(w)
          BY <4>2, <5>1, <5>2, WorkerCame DEF RereadBy, FetchForResult, InitializeAsManager
        <5>4. ~Goto(w, "failed")
          BY <1>p, <5>2, GotoEffect
        <5>5. QED
          BY <5>3, <5>4 DEF JoinSwarm
      <4>3. QED
        BY <3>4, <4>1, <4>2
    <3>5. CASE JoinSwarm(w) /\ Goto(w, "succeeded")
      <4>1. /\ node'[s] \in Nodes /\ ~node'[s].drained
            /\ node'[s].role = IF proc[w].copy.mode = "manager" THEN "manager" ELSE "worker"
        BY <2>0, <3>5, JoinEffect
      <4>2. proc[w].pc = "joining" /\ ~Rereads(w)
        BY <3>5 DEF JoinSwarm, Rereads
      <4>3. proc[w].copy.status = "preparing"
        BY <1>2, <1>p, <2>0, <4>2 DEF SetupsMatch
      <4>4. Later(row[s], proc[w].copy)
        BY <1>p, <2>0, <3>1, <4>2 DEF CopiesAreEarlier, Exists
      <4>5. row[s].mode = proc[w].copy.mode
        BY <3>1, <4>3, <4>4 DEF Later
      <4>6. row[s].mode \in {"manager", "worker"}
        BY <3>1 DEF Rows, Modes
      <4>7. node'[s].role = row'[s].mode
        BY <3>1, <4>1, <4>5, <4>6
      <4>8. node'[s] # NoNode /\ node'[s].drained = row'[s].drained
        BY <3>1, <4>1 DEF Nodes, NoNode, Rows
      <4>9. QED
        BY <4>7, <4>8 DEF Matches
    <3>6. QED
      BY <3>3, <3>4, <3>5
  <2>4. QED
    BY <2>1, <2>2, <2>3
<1>3. QED
  BY <1>1, <1>2

(* How the calls end. *)
LEMMA CalledGoes ==
  ASSUME Shape, Next, NEW r \in Resolvers, NEW s \in Servers, s \notin disturbed',
         Called(r, s), ~Called(r, s)'
  PROVE  \/ Save(r) \/ DeleteRow(r)
         \/ LeaveAfterRemoval(r) /\ (~Exists(s) \/ row[s].status = "needs_setup")
<1>p. /\ Touches(r, s) /\ r \in Processes /\ r \notin Workers /\ ResolverWay(r)
      /\ proc[r].server = s /\ proc[r].pc \in {"save", "delete", "leave"}
      /\ proc[r] # Idle
  BY CalledTouches, ServersAssumption DEF Shape, WayIsKept, Called, Idle
<1>1. ~Crash
  BY <1>p DEF Crash, Unfinished
<1>2. OfResolver(r)
  BY <1>1, <1>p, Actors DEF Called
<1>3. ~(ChooseFirst(r) \/ ChooseManager(r) \/ CountServers(r) \/ CheckHostName(r) \/ CallSwarm(r)
        \/ Enqueue(r) \/ EnqueueFails(r))
  BY <1>p DEF ChooseFirst, ChooseManager, CountServers, CheckHostName, CallSwarm, Enqueue, EnqueueFails
<1>4. ~GiveUp(r)
  BY <1>p DEF GiveUp, ResolverWay
<1>5. ~SaveFails(r)
  BY <1>p DEF SaveFails, Disturb, Called
<1>6. ~DeleteRefused(r)
  BY <1>p DEF DeleteRefused, Disturb, Called
<1>7. ~\E op \in Requests, t \in Servers : Begin(r, op, t)
  BY <1>p DEF Begin
<1>8. LeaveAfterRemoval(r) => ~Exists(s) \/ row[s].status = "needs_setup"
  BY <1>p DEF LeaveAfterRemoval, Disturb
<1>9. QED
  BY <1>2, <1>3, <1>4, <1>5, <1>6, <1>7, <1>8 DEF OfResolver

LEMMA EndingGoes ==
  ASSUME Shape, Next, NEW w \in Workers, NEW s \in Servers, s \notin disturbed',
         Ending(w, s), ~Ending(w, s)'
  PROVE  Store(w) \/ (~Exists(s) /\ row' = row)
<1>p. /\ Touches(w, s) /\ w \in Processes /\ w \notin Resolvers /\ ProcShape
      /\ proc[w].server = s /\ proc[w].op = "setup" /\ proc[w] # Idle
      /\ proc[w].pc \in {"joining", "succeeded", "failed", "store"}
  BY EndingTouches, ServersAssumption DEF Shape, Ending, Idle
<1>1. ~Crash
  BY <1>p DEF Crash, Unfinished
<1>2. OfWorker(w)
  BY <1>1, <1>p, Actors DEF Ending
<1>3. ~(ChooseFirst(w) \/ ChooseManager(w) \/ GiveUp(w) \/ InitializeAsManager(w) \/ LeaveSwarm(w)
        \/ CopyConfiguration(w))
  BY <1>p DEF ChooseFirst, ChooseManager, GiveUp, InitializeAsManager, LeaveSwarm, CopyConfiguration
<1>4. ~JoinSwarm(w)
  <2>1. ASSUME NEW pc \in {"succeeded", "failed"}, Goto(w, pc) PROVE FALSE
    BY <2>1, <1>p, GotoEffect DEF Ending
  <2>2. QED
    BY <2>1 DEF JoinSwarm
<1>5. FetchForResult(w) => ~Exists(s) /\ row' = row
  <2>1. FetchForResult(w) => ~Exists(s)
    BY <1>p, FetchEffect DEF Ending
  <2>2. QED
    BY <2>1 DEF FetchForResult
<1>6. ~StoreFails(w)
  BY <1>p DEF StoreFails, Disturb
<1>7. ~\E kind \in Kinds, t \in Servers : Take(w, kind, t)
  BY <1>p DEF Take
<1>8. QED
  BY <1>2, <1>3, <1>4, <1>5, <1>6, <1>7 DEF OfWorker

LEMMA CallEffect ==
  ASSUME Shape, NEW r \in Resolvers, CallSwarm(r), Matches(node[proc[r].server], row[proc[r].server]),
         Exists(proc[r].server), proc[r].op \in RowUpdates
  PROVE  Matches(node'[proc[r].server], Expected(proc[r].op, row[proc[r].server]))
<1>p. TableShape /\ r \in Processes
  BY DEF Shape, Processes
<1>1. PICK s \in Servers, op \in RowUpdates : s = proc[r].server /\ op = proc[r].op
  BY <1>p, AtWork DEF CallSwarm
<1>2. op \notin {"remove", "delete"}
  BY DEF RowUpdates
<1>3. PICK n \in Nodes : n = node[s]
  BY <1>p, <1>1, NodeIs DEF Matches
<1>4. node' = [node EXCEPT ![s] = SwarmUpdate(op, s)]
  BY <1>1, <1>2 DEF CallSwarm
<1>5. node'[s] = SwarmUpdate(op, s)
  BY <1>4, <1>p DEF TableShape
<1>6. PICK c \in Rows : c = row[s]
  BY <1>1 DEF Exists
<1>7. n.role = c.mode /\ n.drained = c.drained
  BY <1>1, <1>3, <1>6 DEF Matches
<1>8. Matches(SwarmUpdate(op, s), Expected(op, c))
  <2>1. CASE op = "promote"
    BY <1>3, <1>7, <2>1 DEF SwarmUpdate, Expected, Matches, Nodes, Rows, NoNode
  <2>2. CASE op = "demote"
    BY <1>3, <1>7, <2>2 DEF SwarmUpdate, Expected, Matches, Nodes, Rows, NoNode
  <2>3. CASE op = "drain"
    BY <1>3, <1>7, <2>3 DEF SwarmUpdate, Expected, Matches, Nodes, Rows, NoNode
  <2>4. CASE op = "activate"
    BY <1>3, <1>7, <2>4 DEF SwarmUpdate, Expected, Matches, Nodes, Rows, NoNode
  <2>5. QED
    BY <2>1, <2>2, <2>3, <2>4 DEF RowUpdates
<1>9. QED
  BY <1>1, <1>5, <1>6, <1>8

(* A server gets prepared by the result of its setup. *)
LEMMA PreparedCame ==
  ASSUME Shape, RowsAreRegular, CopiesAreEarlier, Next, NEW s \in Servers, s \notin disturbed',
         row'[s].status \in Prepared
  PROVE  row[s].status \in Prepared \/ \E w \in Workers : ResultStored(w, s)
<1>1. CASE row'[s] = row[s]
  BY <1>1
<1>2. CASE Kept(s)
  <2>1. row[s].status \in Prepared \cup {"needs_setup", "preparing"}
    BY <1>2, RowIs DEF Kept, Shape
  <2>2. Status(row[s]) = "prepared"
    BY <1>2 DEF Kept, Status
  <2>3. QED
    BY <2>1, <2>2 DEF Status
<1>3. ~Inserted(s) /\ ~SetupSaved(s) /\ ~RemovalSaved(s) /\ row'[s] # Deleted
  BY DEF Inserted, SetupSaved, RemovalSaved, Deleted, Prepared
<1>4. ASSUME NEW r \in Resolvers, UpdateSaved(r, s) PROVE row[s].status \in Prepared
  BY <1>4 DEF UpdateSaved
<1>5. QED
  BY <1>1, <1>2, <1>3, <1>4, RowEffect

LEMMA RowsMatchStep ==
  ASSUME Shape, RowsAreRegular, CopiesAreEarlier, CallsAreAlone, SetupsMatch, RowsMatch, Next
  PROVE  RowsMatch'
<1> SUFFICES ASSUME NEW s \in Servers, s \notin disturbed', row'[s].status \in Prepared,
                    \A w \in Workers : ~Ending(w, s)'
             PROVE  /\ (\A r \in Resolvers : ~Called(r, s)') => Matches(node'[s], row'[s])
                    /\ \A r \in Resolvers : Called(r, s)' /\ proc'[r].op \in RowUpdates =>
                         Matches(node'[s], Expected(proc'[r].op, row'[s]))
  BY DEF RowsMatch
<1>p. TableShape /\ s \notin disturbed /\ ProcShape
  BY NotesGrow DEF Shape
<1>n. ASSUME node'[s] # node[s]
      PROVE  \E r \in Resolvers : proc[r].server = s /\ CallSwarm(r)
  <2>1. ASSUME NEW r \in Resolvers, proc[r].server = s, LeaveAfterRemoval(r) PROVE FALSE
    <3>1. row' = row /\ ~(Exists(s) /\ row[s].status # "needs_setup")
      BY <1>p, <2>1 DEF LeaveAfterRemoval, Disturb
    <3>2. QED
      BY <1>p, <3>1, RowIs DEF Prepared
  <2>2. ASSUME NEW w \in Workers, proc[w].server = s, Goto(w, "succeeded") \/ Goto(w, "joining"),
               proc[w].op = "setup"
        PROVE  FALSE
    BY <1>p, <2>2, GotoEffect DEF Ending, Processes
  <2>3. ASSUME NEW w \in Workers, proc[w].server = s, JoinSwarm(w), Goto(w, "succeeded") PROVE FALSE
    BY <2>2, <2>3, JoinEffect
  <2>4. ASSUME NEW w \in Workers, proc[w].server = s, InitializeAsManager(w) PROVE FALSE
    BY <2>2, <2>4, InitEffect
  <2>5. ASSUME NEW w \in Workers, proc[w].server = s, LeaveSwarm(w) PROVE FALSE
    BY <2>2, <2>5 DEF LeaveSwarm
  <2>6. QED
    BY <1>n, <2>1, <2>3, <2>4, <2>5, NodeWriters
<1>1. CASE \E w \in Workers : Ending(w, s)
  <2>1. PICK w \in Workers : Ending(w, s)
    BY <1>1
  <2>2. Store(w) /\ proc[w].server = s /\ proc[w].op = "setup"
    <3>1. ~(~Exists(s) /\ row' = row)
      BY <1>p, RowIs DEF Prepared
    <3>2. QED
      BY <2>1, <3>1, EndingGoes DEF Ending
  <2>3. ResultStored(w, s)
    BY <2>2, StoreEffect
  <2>4. proc[w].pc = "store" /\ proc[w].copy.status = "online"
    BY <2>3 DEF ResultStored, Store, Prepared
  <2>5. Joining(w, s)
    BY <2>2, <2>4 DEF Joining
  <2>6. Matches(node[s], row[s])
    BY <1>p, <2>2, <2>3, <2>4, <2>5 DEF SetupsMatch, ResultStored
  <2>7. Matches(node'[s], row'[s])
    BY <2>2, <2>3, <2>6 DEF Store, ResultStored, Alike, Matches
  <2>8. ASSUME NEW r \in Resolvers, Called(r, s)' PROVE FALSE
    <3>1. proc'[r] = proc[r]
      BY <1>p, <2>2, OthersStay, ServersAssumption DEF OfWorker, Processes
    <3>2. Called(r, s)
      BY <2>8, <3>1 DEF Called
    <3>3. QED
      BY <1>p, <2>5, <3>2 DEF CallsAreAlone
  <2>9. QED
    BY <2>7, <2>8
<1>2. CASE \A w \in Workers : ~Ending(w, s)
  <2>0. row[s].status \in Prepared
    BY <1>2, PreparedCame DEF ResultStored, Store, Ending
  <2>e. Exists(s)
    BY <1>p, <2>0, RowIs
  <2>i. /\ (\A r \in Resolvers : ~Called(r, s)) => Matches(node[s], row[s])
        /\ \A r \in Resolvers : Called(r, s) /\ proc[r].op \in RowUpdates =>
             Matches(node[s], Expected(proc[r].op, row[s]))
    BY <1>2, <1>p, <2>0 DEF RowsMatch
  <2>1. CASE \E r \in Resolvers : proc[r].server = s /\ CallSwarm(r)
    <3>1. PICK r \in Resolvers : proc[r].server = s /\ CallSwarm(r)
      BY <2>1
    <3>2. r \in Processes /\ proc[r].op \in SwarmCalls /\ proc[r].via \in Servers /\ proc[r].pc = "call"
          /\ row' = row /\ Goto(r, IF proc[r].op = "delete" THEN "delete" ELSE "save")
      BY <3>1 DEF CallSwarm, Shape, WayIsKept, ResolverWay, Processes
    <3>3. \A p \in Processes \ {r} : ~Touches(p, s)
      BY <3>1 DEF CallSwarm, Disturb
    <3>4. \A q \in Resolvers : ~Called(q, s)
      BY <3>2, <3>3, CalledTouches DEF Called
    <3>5. Matches(node[s], row[s])
      BY <2>i, <3>4
    <3>6. Called(r, s)' /\ proc'[r].op = proc[r].op
      <4>1. /\ proc'[r].server = s /\ proc'[r].op = proc[r].op /\ proc'[r].via = proc[r].via
            /\ proc'[r].pc = IF proc[r].op = "delete" THEN "delete" ELSE "save"
        BY <1>p, <3>1, <3>2, GotoEffect
      <4>2. QED
        BY <3>2, <4>1, ServersAssumption DEF Called
    <3>7. ASSUME NEW q \in Resolvers, Called(q, s)' PROVE q = r
      <4>1. CASE q # r
        <5>1. proc'[q] = proc[q]
          BY <1>p, <3>1, <3>2, <4>1, OthersStay DEF OfResolver, Processes
        <5>2. QED
          BY <3>4, <3>7, <5>1 DEF Called
      <4>2. QED
        BY <4>1
    <3>8. proc[r].op \in RowUpdates => Matches(node'[s], Expected(proc[r].op, row[s]))
      BY <2>e, <3>1, <3>5, CallEffect
    <3>9. QED
      BY <3>2, <3>6, <3>7, <3>8
  <2>2. CASE ~\E r \in Resolvers : proc[r].server = s /\ CallSwarm(r)
    <3>1. node'[s] = node[s]
      BY <1>n, <2>2
    <3>2. \A r \in Resolvers : Called(r, s)' => Called(r, s)
      BY <2>2, CalledCame
    <3>3. CASE \E r \in Resolvers : UpdateSaved(r, s)
      <4>1. PICK r \in Resolvers : UpdateSaved(r, s)
        BY <3>3
      <4>2. Called(r, s) /\ Save(r) /\ proc[r].op \in RowUpdates
        BY <4>1 DEF UpdateSaved, Save, Called, RowUpdates, SwarmCalls
      <4>3. Matches(node[s], Expected(proc[r].op, row[s]))
        BY <2>i, <4>2
      <4>4. Matches(node'[s], row'[s])
        BY <3>1, <4>1, <4>3 DEF Matches, UpdateSaved
      <4>5. proc'[r] = Idle
        <5>1. Return(r)
          BY <4>2 DEF Save, AfterSave, RowUpdates, Setups
        <5>2. QED
          BY <1>p, <5>1, ReturnEffect DEF Processes
      <4>6. ASSUME NEW q \in Resolvers, Called(q, s)' PROVE FALSE
        <5>1. q = r
          BY <1>p, <3>2, <4>2, <4>6 DEF CallsAreAlone
        <5>2. QED
          BY <4>5, <4>6, <5>1 DEF Called, Idle
      <4>7. QED
        BY <4>4, <4>6
    <3>4. CASE ~\E r \in Resolvers : UpdateSaved(r, s)
      <4>1. row'[s] = row[s] \/ Kept(s)
        <5>1. ~Inserted(s) /\ ~SetupSaved(s) /\ ~RemovalSaved(s) /\ row'[s] # Deleted
          BY DEF Inserted, SetupSaved, RemovalSaved, Deleted, Prepared
        <5>2. ASSUME NEW w \in Workers, ResultStored(w, s) PROVE FALSE
          BY <1>2, <5>2 DEF ResultStored, Store, Ending
        <5>3. QED
          BY <3>4, <5>1, <5>2, RowEffect
      <4>2. row'[s] \in Rows /\ row[s] \in Rows /\ Alike(row'[s], row[s])
        BY <2>e, <4>1 DEF Kept, Exists, Alike
      <4>3. ASSUME \A r \in Resolvers : ~Called(r, s)' PROVE Matches(node'[s], row'[s])
        <5>1. ASSUME NEW r \in Resolvers, Called(r, s) PROVE FALSE
          <6>1. Save(r) \/ DeleteRow(r)
            BY <2>0, <2>e, <4>3, <5>1, CalledGoes DEF Prepared
          <6>2. proc[r].server = s /\ r \in Processes /\ ResolverWay(r)
            BY <5>1 DEF Called, Processes, Shape, WayIsKept
          <6>3. CASE Save(r)
            <7>1. proc[r].op \in RowUpdates \cup {"remove"}
              BY <5>1, <6>2, <6>3 DEF Called, Save, ResolverWay, SwarmCalls, RowUpdates
            <7>2. UpdateSaved(r, s) \/ RemovalSaved(s)
              BY <6>2, <6>3, <7>1, SaveEffect
            <7>3. QED
              BY <3>4, <7>2 DEF RemovalSaved, Prepared
          <6>4. CASE DeleteRow(r)
            <7>1. row'[s] = Deleted
              BY <1>p, <6>2, <6>4 DEF DeleteRow, TableShape
            <7>2. QED
              BY <7>1 DEF Deleted, Prepared
          <6>5. QED
            BY <6>1, <6>3, <6>4
        <5>2. Matches(node[s], row[s])
          BY <2>i, <5>1
        <5>3. QED
          BY <3>1, <4>2, <5>2 DEF Matches, Alike
      <4>4. ASSUME NEW r \in Resolvers, Called(r, s)', proc'[r].op \in RowUpdates
            PROVE  Matches(node'[s], Expected(proc'[r].op, row'[s]))
        <5>1. Called(r, s) /\ proc[r].op = proc'[r].op
          <6>1. Called(r, s)
            BY <3>2, <4>4
          <6>2. proc[r] # Idle /\ proc'[r] # Idle /\ r \in Processes /\ r \notin Workers
            BY <4>4, <6>1, ServersAssumption DEF Called, Idle, Processes
          <6>3. QED
            BY <6>1, <6>2, Origins DEF Begins, GoesOn
        <5>2. Matches(node[s], Expected(proc[r].op, row[s]))
          BY <2>i, <4>4, <5>1
        <5>3. PICK op \in RowUpdates : op = proc[r].op
          BY <4>4, <5>1
        <5>4. PICK c \in Rows, d \in Rows : /\ c = row[s] /\ d = row'[s]
                                            /\ c.mode = d.mode /\ c.drained = d.drained
          BY <4>2 DEF Alike
        <5>5. /\ Expected(op, c).mode = Expected(op, d).mode
              /\ Expected(op, c).drained = Expected(op, d).drained
          BY <5>4 DEF Expected, RowUpdates, Rows
        <5>6. QED
          BY <3>1, <5>1, <5>2, <5>3, <5>4, <5>5 DEF Matches
      <4>5. QED
        BY <4>3, <4>4
    <3>5. QED
      BY <3>3, <3>4
  <2>3. QED
    BY <2>1, <2>2
<1>3. QED
  BY <1>1, <1>2

-----------------------------------------------------------------------------
(* How a server becomes a member of the swarm. *)
Joins(w) == InitializeAsManager(w) \/ (JoinSwarm(w) /\ Goto(w, "succeeded"))

LEMMA JoinsEffect ==
  ASSUME Shape, NEW w \in Workers, Joins(w)
  PROVE  /\ proc[w].op = "setup" /\ proc[w].pc \in {"init", "joining"} /\ proc[w].server \in Servers
         /\ proc'[w].pc = "succeeded" /\ proc'[w] # proc[w]
         /\ \A v \in Workers : v # w => proc'[v] = proc[v]
<1>p. ProcShape /\ w \in Processes /\ Workers \subseteq Processes
  BY DEF Shape, Processes
<1>1. proc[w].pc \in {"init", "joining"} /\ Goto(w, "succeeded")
  BY DEF Joins, InitializeAsManager, JoinSwarm
<1>2. proc[w].op = "setup" /\ proc[w].server \in Servers
  BY InitEffect, JoinEffect DEF Joins
<1>3. proc'[w].pc = "succeeded" /\ \A v \in Processes : v # w => proc'[v] = proc[v]
  BY <1>p, <1>1, GotoEffect
<1>4. QED
  BY <1>p, <1>1, <1>2, <1>3

LEMMA MemberCame ==
  ASSUME Shape, RowsAreRegular, CopiesAreEarlier, Next, NEW s \in Servers, Member(s)'
  PROVE  Member(s) \/ \E w \in Workers : proc[w].server = s /\ Joins(w)
<1>p. ProcShape /\ Sound' \subseteq Sound /\ s \in Sound' /\ s \in Sound
  BY NotesGrow DEF Shape, Sound, Member
<1>1. CASE row'[s].status \in Prepared
  <2>1. row[s].status \in Prepared \/ \E w \in Workers : ResultStored(w, s)
    BY <1>1, <1>p, PreparedCame DEF Sound
  <2>2. ASSUME NEW w \in Workers, ResultStored(w, s) PROVE Member(s)
    <3>1. proc[w].server = s /\ proc[w].pc = "store" /\ proc[w].op = "setup" /\ proc[w].copy.status = "online"
      BY <1>1, <2>2 DEF ResultStored, Store, Prepared
    <3>2. QED
      BY <1>p, <3>1 DEF Member, UnderWay
  <2>3. QED
    BY <1>p, <2>1, <2>2 DEF Member
<1>2. CASE row'[s].status \notin Prepared
  <2>1. PICK w \in Workers : /\ UnderWay(w)' /\ proc'[w].server \in Sound'
                             /\ \/ proc'[w].pc \in {"leave", "joining"} /\ s = proc'[w].via
                                \/ proc'[w].pc \in {"succeeded", "store"} /\ s = proc'[w].server
    BY <1>2 DEF Member
  <2>p. w \in Processes
    BY DEF Processes
  <2>2. CASE proc'[w] = proc[w]
    BY <1>p, <2>1, <2>2 DEF Member, UnderWay
  <2>3. CASE proc'[w] # proc[w]
    <3>1. CASE proc'[w].pc = "leave"
      <4>1. s \in ManagersFor("setup", proc[w].server)
        BY <2>1, <2>3, <3>1, WorkerCame
      <4>2. QED
        BY <1>p, <4>1 DEF Member, ManagersFor, Prepared
    <3>2. CASE proc'[w].pc = "joining"
      <4>1. LeaveSwarm(w)
        BY <2>3, <3>2, WorkerCame
      <4>2. proc[w].pc = "leave" /\ proc[w].op = "setup" /\ proc[w].via = s /\ proc[w].server \in Sound
        BY <1>p, <2>p, <2>1, <3>2, <4>1, GotoEffect DEF LeaveSwarm
      <4>3. QED
        BY <1>p, <4>2 DEF Member, UnderWay
    <3>3. CASE proc'[w].pc = "succeeded"
      <4>1. InitializeAsManager(w) \/ JoinSwarm(w)
        BY <2>3, <3>3, WorkerCame
      <4>2. Goto(w, "succeeded")
        <5>1. ~Goto(w, "failed")
          BY <1>p, <2>p, <3>3, GotoEffect
        <5>2. QED
          BY <4>1, <5>1 DEF InitializeAsManager, JoinSwarm
      <4>3. proc[w].server = s
        BY <1>p, <2>p, <2>1, <3>3, <4>2, GotoEffect
      <4>4. QED
        BY <4>1, <4>2, <4>3 DEF Joins
    <3>4. CASE proc'[w].pc = "store"
      <4>1. proc'[w].op = "setup" /\ proc'[w].copy.status = "online"
        BY <2>1, <3>4 DEF UnderWay
      <4>2. RereadBy(w)
        BY <2>3, <3>4, <4>1, WorkerCame
      <4>3. proc[w].pc = "succeeded" /\ proc[w].op = "setup" /\ proc[w].server = s
        BY <2>1, <3>4, <4>1, <4>2, FetchEffect DEF RereadBy
      <4>4. QED
        BY <1>p, <4>3 DEF Member, UnderWay
    <3>5. QED
      BY <2>1, <3>1, <3>2, <3>3, <3>4
  <2>4. QED
    BY <2>2, <2>3
<1>3. QED
  BY <1>1, <1>2

LEMMA NodeStays ==
  ASSUME Shape, Next, NEW s \in Servers, node'[s] # NoNode
  PROVE  \/ HasNode(s) /\ node'[s].swarm = node[s].swarm
         \/ \E w \in Workers : proc[w].server = s /\ Joins(w)
<1>p. TableShape
  BY DEF Shape
<1>1. CASE node'[s] = node[s]
  BY <1>1 DEF HasNode
<1>2. ASSUME NEW r \in Resolvers, proc[r].server = s, CallSwarm(r), node'[s] # node[s]
      PROVE  HasNode(s) /\ node'[s].swarm = node[s].swarm
  <2>1. proc[r].op \in SwarmCalls
    BY <1>2 DEF CallSwarm, Shape, WayIsKept, ResolverWay
  <2>2. HasNode(s) /\ node' = [node EXCEPT ![s] = SwarmUpdate(proc[r].op, s)]
    BY <1>2 DEF CallSwarm, SameSwarm
  <2>3. node'[s] = SwarmUpdate(proc[r].op, s)
    BY <1>p, <2>2 DEF TableShape
  <2>4. node[s] \in Nodes
    BY <1>p, <2>2, NodeIs
  <2>5. PICK op \in SwarmCalls : op = proc[r].op
    BY <2>1
  <2>6. op \notin {"remove", "delete"}
    BY <2>3, <2>5 DEF SwarmUpdate
  <2>7. SwarmUpdate(op, s).swarm = node[s].swarm
    BY <2>4, <2>6, NodeUpdates
  <2>8. QED
    BY <2>2, <2>3, <2>5, <2>7
<1>3. ASSUME NEW r \in Resolvers, proc[r].server = s, LeaveAfterRemoval(r)
      PROVE  node'[s] = node[s]
  BY <1>3, <1>p DEF LeaveAfterRemoval, TableShape
<1>4. ASSUME NEW w \in Workers, proc[w].server = s, LeaveSwarm(w)
      PROVE  FALSE
  BY <1>4, <1>p DEF LeaveSwarm, TableShape
<1>5. QED
  BY <1>1, <1>2, <1>3, <1>4, NodeWriters DEF Joins

LEMMA JoinsMember ==
  ASSUME Shape, Next, NEW w \in Workers, JoinSwarm(w), Goto(w, "succeeded"), proc[w].server \in Sound'
  PROVE  Member(proc[w].via) /\ HasNode(proc[w].via) /\ proc[w].via \in Servers
<1>1. /\ proc[w].via \in Servers /\ proc[w].op = "setup" /\ HasNode(proc[w].via)
      /\ proc[w].via \in disturbed \cup split => proc[w].server \in split'
  BY JoinEffect
<1>2. proc[w].via \in Sound /\ proc[w].server \in Sound /\ proc[w].pc = "joining"
  BY <1>1, NotesGrow DEF Sound, JoinSwarm
<1>3. QED
  BY <1>1, <1>2 DEF Member, UnderWay

LEMMA JoinedIsTogether ==
  ASSUME Shape, RowsAreRegular, CopiesAreEarlier, MembersAreTogether, FirstIsAlone, Next,
         NEW s \in Servers, NEW t \in Servers, Member(s)', Member(t)', node'[t] # NoNode,
         NEW w \in Workers, proc[w].server = s, Joins(w)
  PROVE  node'[s].swarm = node'[t].swarm
<1>1. CASE s = t
  BY <1>1
<1>2. CASE s # t
  <2>1. ASSUME NEW v \in Workers, proc[v].server = t, Joins(v) PROVE FALSE
    <3>1. v # w
      BY <1>2, <2>1
    <3>2. QED
      BY <2>1, <3>1, JoinsEffect
  <2>2. Member(t) /\ HasNode(t) /\ node'[t].swarm = node[t].swarm
    BY <2>1, MemberCame, NodeStays
  <2>3. s \in Sound' /\ s \in Sound
    BY NotesGrow DEF Member, Sound
  <2>4. CASE InitializeAsManager(w)
    BY <2>2, <2>3, <2>4 DEF FirstIsAlone, InitializeAsManager
  <2>5. CASE JoinSwarm(w) /\ Goto(w, "succeeded")
    <3>1. Member(proc[w].via) /\ HasNode(proc[w].via) /\ proc[w].via \in Servers
      BY <2>3, <2>5, JoinsMember
    <3>2. node'[s].swarm = node[proc[w].via].swarm
      BY <2>5, JoinEffect
    <3>3. QED
      BY <2>2, <3>1, <3>2 DEF MembersAreTogether
  <2>6. QED
    BY <2>4, <2>5 DEF Joins
<1>3. QED
  BY <1>1, <1>2

LEMMA MembersAreTogetherStep ==
  ASSUME Shape, RowsAreRegular, CopiesAreEarlier, MembersAreTogether, FirstIsAlone, Next
  PROVE  MembersAreTogether'
<1> SUFFICES ASSUME NEW s \in Servers, NEW t \in Servers, Member(s)', Member(t)',
                    node'[s] # NoNode, node'[t] # NoNode
             PROVE  node'[s].swarm = node'[t].swarm
  BY DEF MembersAreTogether, HasNode
<1>1. CASE \E w \in Workers : proc[w].server = s /\ Joins(w)
  BY <1>1, JoinedIsTogether
<1>2. CASE \E w \in Workers : proc[w].server = t /\ Joins(w)
  BY <1>2, JoinedIsTogether
<1>3. CASE /\ ~\E w \in Workers : proc[w].server = s /\ Joins(w)
           /\ ~\E w \in Workers : proc[w].server = t /\ Joins(w)
  <2>1. Member(s) /\ HasNode(s) /\ node'[s].swarm = node[s].swarm
    BY <1>3, MemberCame, NodeStays
  <2>2. Member(t) /\ HasNode(t) /\ node'[t].swarm = node[t].swarm
    BY <1>3, MemberCame, NodeStays
  <2>3. QED
    BY <2>1, <2>2 DEF MembersAreTogether
<1>4. QED
  BY <1>1, <1>2, <1>3

LEMMA FirstIsAloneStep ==
  ASSUME Shape, RowsAreRegular, CopiesAreEarlier, MembersAreTogether, FirstIsAlone, Next
  PROVE  FirstIsAlone'
<1> SUFFICES ASSUME NEW w \in Workers, proc'[w].pc = "init", proc'[w].server \in Sound'
             PROVE  /\ \A s \in Servers : ~Member(s)'
                    /\ \A v \in Workers : proc'[v].pc = "init" /\ proc'[v].server \in Sound' => v = w
  BY DEF FirstIsAlone
<1>p. ProcShape /\ w \in Processes /\ Workers \subseteq Processes /\ Sound' \subseteq Sound
  BY NotesGrow DEF Shape, Processes, Sound
<1>u. ASSUME NEW v \in Workers, proc[v].pc = "init" PROVE UnderWay(v)
  BY <1>u, <1>p, WorkerFields DEF UnderWay, Kinds, Idle
<1>c. ASSUME NEW v \in Workers, ChooseFirst(v), proc'[v].server \in Sound'
      PROVE  /\ \A q \in Workers : q # v => proc'[q] = proc[q] /\ ~UnderWay(q)
             /\ row' = row /\ ~IsPreparedServerExists
  <2>1. proc'[v].server = proc[v].server /\ \A q \in Workers : q # v => proc'[q] = proc[q]
    BY <1>c, <1>p, GotoEffect DEF ChooseFirst
  <2>2. proc[v].server \notin split'
    BY <1>c, <2>1 DEF Sound
  <2>3. QED
    BY <1>c, <2>1, <2>2 DEF ChooseFirst
<1>1. CASE proc'[w] = proc[w]
  <2>1. /\ \A s \in Servers : ~Member(s)
        /\ \A v \in Workers : proc[v].pc = "init" /\ proc[v].server \in Sound => v = w
    BY <1>p, <1>1 DEF FirstIsAlone
  <2>2. ASSUME NEW s \in Servers, Member(s)' PROVE FALSE
    <3>1. PICK v \in Workers : proc[v].server = s /\ Joins(v)
      BY <2>1, <2>2, MemberCame
    <3>2. v # w /\ s \in Sound' /\ s \in Sound
      BY <1>1, <1>p, <2>2, <3>1, JoinsEffect DEF Member
    <3>3. CASE InitializeAsManager(v)
      BY <2>1, <3>1, <3>2, <3>3 DEF InitializeAsManager
    <3>4. CASE JoinSwarm(v) /\ Goto(v, "succeeded")
      BY <2>1, <3>1, <3>2, <3>4, JoinsMember
    <3>5. QED
      BY <3>1, <3>3, <3>4 DEF Joins
  <2>3. ASSUME NEW v \in Workers, proc'[v].pc = "init", proc'[v].server \in Sound', v # w PROVE FALSE
    <3>1. CASE proc'[v] = proc[v]
      BY <1>p, <2>1, <2>3, <3>1
    <3>2. CASE proc'[v] # proc[v]
      BY <1>1, <1>c, <1>u, <2>3, <3>2, WorkerCame
    <3>3. QED
      BY <3>1, <3>2
  <2>4. QED
    BY <2>2, <2>3
<1>2. CASE proc'[w] # proc[w]
  <2>1. ChooseFirst(w)
    BY <1>2, WorkerCame
  <2>2. /\ \A q \in Workers : q # w => proc'[q] = proc[q] /\ ~UnderWay(q)
        /\ row' = row /\ ~IsPreparedServerExists
    BY <1>c, <2>1
  <2>3. ASSUME NEW s \in Servers, Member(s)' PROVE FALSE
    <3>1. row'[s].status \notin Prepared
      BY <2>2 DEF IsPreparedServerExists
    <3>2. PICK v \in Workers : UnderWay(v)' /\ proc'[v].pc # "init"
      BY <2>3, <3>1 DEF Member
    <3>3. v # w
      BY <3>2
    <3>4. QED
      BY <2>2, <3>2, <3>3 DEF UnderWay
  <2>4. ASSUME NEW v \in Workers, proc'[v].pc = "init", v # w PROVE FALSE
    BY <1>u, <2>2, <2>4
  <2>5. QED
    BY <2>3, <2>4
<1>3. QED
  BY <1>1, <1>2

-----------------------------------------------------------------------------
(* At the start there is no server, and nobody is at work. *)
LEMMA InitIInv ==
  Init => IInv
<1> SUFFICES ASSUME Init PROVE IInv
  OBVIOUS
<1>0. /\ Idle.pc = "idle" /\ Idle.op = "none" /\ Idle.server = NoServer
      /\ NoRow.status \notin Prepared /\ NoRow \notin Rows
  BY DEF Idle, NoRow, Prepared, Rows
<1>p. /\ \A p \in Processes : proc[p] = Idle
      /\ Resolvers \subseteq Processes /\ Workers \subseteq Processes
      /\ \A s \in Servers : row[s] = NoRow
      /\ NoServer \notin Servers
  BY ServersAssumption DEF Init, Processes
<1>1. Shape
  <2>1. TableShape
    BY ServersAssumption DEF Init, TableShape
  <2>2. NoteShape
    BY DEF Init, NoteShape
  <2>3. ProcShape
    BY <1>p DEF Init, ProcShape, ResolverStates, WorkerStates
  <2>4. WayIsKept
    BY <1>0, <1>p DEF WayIsKept, ResolverWay, WorkerWay, RowUpdates
  <2>5. QED
    BY <2>1, <2>2, <2>3, <2>4 DEF Shape
<1>2. RowsAreRegular /\ CopiesAreEarlier
  BY <1>0, <1>p DEF RowsAreRegular, CopiesAreEarlier, Exists
<1>3. CallsAreAlone /\ SetupsMatch /\ RowsMatch
  BY <1>0, <1>p DEF CallsAreAlone, SetupsMatch, RowsMatch, Called, Joining
<1>4. MembersAreTogether /\ FirstIsAlone
  <2>1. \A s \in Servers : ~Member(s)
    BY <1>0, <1>p DEF Member, UnderWay
  <2>2. QED
    BY <1>0, <1>p, <2>1 DEF MembersAreTogether, FirstIsAlone
<1>5. QED
  BY <1>1, <1>2, <1>3, <1>4 DEF IInv

LEMMA StepIInv ==
  IInv /\ [Next]_vars => IInv'
<1> SUFFICES ASSUME IInv, [Next]_vars PROVE IInv'
  OBVIOUS
<1>1. CASE Next
  BY <1>1, ShapeStep, RowsAreRegularStep, CopiesAreEarlierStep, CallsAreAloneStep, SetupsMatchStep,
     RowsMatchStep, MembersAreTogetherStep, FirstIsAloneStep DEF IInv
<1>2. CASE UNCHANGED vars
  <2>1. /\ row' = row /\ node' = node /\ up' = up /\ probe' = probe /\ queue' = queue
        /\ proc' = proc /\ extras' = extras /\ disturbed' = disturbed /\ split' = split
    BY <1>2 DEF vars
  <2>2. Shape'
    BY <2>1 DEF IInv, Shape, TableShape, NoteShape, ProcShape, WayIsKept, ResolverWay, WorkerWay,
       WantsManager
  <2>3. RowsAreRegular' /\ CopiesAreEarlier' /\ CallsAreAlone' /\ SetupsMatch'
    BY <2>1 DEF IInv, RowsAreRegular, CopiesAreEarlier, CallsAreAlone, SetupsMatch, Exists, Rereads,
       Called, Joining
  <2>4. RowsMatch'
    BY <2>1 DEF IInv, RowsMatch, Called, Ending
  <2>5. MembersAreTogether' /\ FirstIsAlone'
    BY <2>1 DEF IInv, MembersAreTogether, FirstIsAlone, Member, Sound, UnderWay, HasNode
  <2>6. QED
    BY <2>2, <2>3, <2>4, <2>5 DEF IInv
<1>3. QED
  BY <1>1, <1>2

(* IInv holds in every state. *)
THEOREM Inductive == Spec => []IInv
BY InitIInv, StepIInv, PTL DEF Spec

(* Every variable keeps its form: in particular a queue and the extras do    *)
(* not pass their bounds, and a goroutine at work has a row it has read.     *)
THEOREM TypeCorrect == Spec => []TypeOK
<1>1. IInv => TypeOK
  <2> SUFFICES ASSUME IInv PROVE TypeOK
    OBVIOUS
  <2>1. TableShape /\ NoteShape /\ ProcShape
    BY DEF IInv, Shape
  <2>2. ASSUME NEW p \in Processes
        PROVE  \/ proc[p] = Idle
               \/ /\ proc[p].server \in Servers /\ proc[p].copy \in Rows
                  /\ proc[p].via \in Servers \cup {NoServer}
                  /\ proc[p].op \in (IF p \in Workers THEN Kinds ELSE Requests)
    BY <2>1, ResolverFields, WorkerFields, ServersAssumption DEF Processes, Places
  <2>3. QED
    BY <2>1, <2>2 DEF TypeOK, TableShape, NoteShape
<1>2. QED
  BY <1>1, Inductive, PTL

(* The row of a prepared server that is not disturbed says what docker has,  *)
(* unless a request or a setup is between its call of docker and its save.   *)
THEOREM RowsFollowTheSwarm == Spec => []RowFollowsSwarm
<1>1. IInv => RowFollowsSwarm
  <2> SUFFICES ASSUME IInv, NEW s \in Servers \ disturbed, row[s].status \in Prepared,
                      ~(\E p \in Processes : Touches(p, s))
               PROVE  HasNode(s) /\ node[s].role = row[s].mode /\ node[s].drained = row[s].drained
    BY DEF RowFollowsSwarm
  <2>1. Shape /\ RowsMatch
    BY DEF IInv
  <2>2. \A r \in Resolvers : ~Called(r, s)
    BY <2>1, CalledTouches
  <2>3. \A w \in Workers : ~Ending(w, s)
    BY EndingTouches
  <2>4. Matches(node[s], row[s])
    BY <2>1, <2>2, <2>3 DEF RowsMatch
  <2>5. QED
    BY <2>4 DEF Matches, HasNode
<1>2. QED
  BY <1>1, Inductive, PTL

(* The prepared servers that met no window are in one swarm, however many    *)
(* are set up, promoted, demoted, removed and deleted at once.               *)
THEOREM SwarmIsOne == Spec => []OneSwarm
<1>1. IInv => OneSwarm
  <2>1. ASSUME NEW s \in Sound, row[s].status \in Prepared PROVE Member(s)
    BY <2>1 DEF Member
  <2>2. QED
    BY <2>1 DEF IInv, OneSwarm, MembersAreTogether, Sound
<1>2. QED
  BY <1>1, Inductive, PTL
=============================================================================
