------------------------------ MODULE Servers ------------------------------
(***************************************************************************)
(* The servers of a cluster: their rows, the docker swarm they form, and   *)
(* the three parties that write a row without a lock between them: the     *)
(* resolvers of graphql/server.resolvers.go, the workers that set a server *)
(* or its proxy up (worker/process_setup_*.go), and the status monitor     *)
(* (cronjob/server_status_monitor.go). Resolvers and workers read a row,   *)
(* work for seconds or minutes on other machines, and save the whole row   *)
(* as they read it; the monitor updates the status only.                   *)
(*                                                                         *)
(* A server is the id of a row, and is created once. Every machine has a   *)
(* hostname of its own, which its row has from the first setup on.         *)
(***************************************************************************)
EXTENDS FiniteSets, Integers

CONSTANTS Servers, Resolvers, Workers, NoServer,
          MaxQueued, \* bound of the model: equal tasks in the queue at once
          MaxExtras  \* bound of the model: crashes and tasks delivered again

ASSUME ServersAssumption ==
  /\ IsFiniteSet(Servers) /\ NoServer \notin Servers
  /\ Resolvers \cap Workers = {}
  /\ MaxQueued \in Nat /\ MaxExtras \in Nat

VARIABLES row,     \* servers
          node,    \* the swarm, by what docker knows of each machine (external)
          up,      \* whether the machine answers
          probe,   \* the monitor's goroutine of a server is at work
          queue,   \* tasks of the queues setup_server and setup_and_enable_proxy
          proc,    \* what resolvers and workers do
          extras

(* Observation only. disturbed: the row of a server met a window of the      *)
(* code: it was saved from a copy that was out of date, two swarm calls      *)
(* about one server crossed, the monitor wrote over a server that is not     *)
(* set up, a setup was delivered again, or a statement, the queue or the     *)
(* process failed after the step before. split: servers that were to be the  *)
(* first while another setup was under way, or that joined the swarm of a    *)
(* manager which is split or disturbed.                                      *)
VARIABLES disturbed, split

vars == <<row, node, up, probe, queue, proc, extras, disturbed, split>>

Processes == Resolvers \cup Workers
Prepared == {"online", "offline"}
Modes == {"none", "manager", "worker"}
Rows == [status : Prepared \cup {"needs_setup", "preparing"}, mode : Modes,
         drained : BOOLEAN, proxy : {"off", "setup", "on"}, named : BOOLEAN]
NoRow == [status |-> "absent"]
Deleted == [status |-> "deleted"]
Nodes == [swarm : 1..Cardinality(Servers), role : {"manager", "worker"}, drained : BOOLEAN]
NoNode == [swarm |-> 0]
Kinds == {"setup", "proxy"}

Setups == {"setup_manager", "setup_worker"}
SwarmCalls == {"promote", "demote", "drain", "activate", "remove", "delete"}
Requests == Setups \cup SwarmCalls \cup {"restrict", "enable_proxy", "disable_proxy"}

Exists(s) == row[s] \in Rows
HasNode(s) == node[s] # NoNode
IsManager(s) == HasNode(s) /\ node[s].role = "manager"

Idle == [pc |-> "idle", op |-> "none", server |-> NoServer, copy |-> NoRow, via |-> NoServer]
Goto(p, pc) == proc' = [proc EXCEPT ![p].pc = pc]
GotoVia(p, m, pc) == proc' = [proc EXCEPT ![p].pc = pc, ![p].via = m]
Return(p) == proc' = [proc EXCEPT ![p] = Idle]
Disturb(s, isSo) == disturbed' = IF isSo THEN disturbed \cup {s} ELSE disturbed

(* A process is past its swarm call and has not yet saved the row.           *)
Pending == {"save", "delete", "leave", "leaving", "joining", "succeeded", "failed", "store"}
Touches(p, s) == /\ proc[p].server = s /\ proc[p].pc \in Pending
                 /\ proc[p].op \in SwarmCalls \cup {"setup"}

TypeOK ==
  /\ row \in [Servers -> Rows \cup {NoRow, Deleted}]
  /\ node \in [Servers -> Nodes \cup {NoNode}]
  /\ up \in [Servers -> BOOLEAN] /\ probe \in [Servers -> BOOLEAN]
  /\ queue \in [Kinds \X Servers -> 0..MaxQueued]
  /\ \A p \in Processes :
       \/ proc[p] = Idle
       \/ /\ proc[p].server \in Servers /\ proc[p].copy \in Rows
          /\ proc[p].via \in Servers \cup {NoServer}
          /\ proc[p].op \in (IF p \in Workers THEN Kinds ELSE Requests)
  /\ extras \in 0..MaxExtras
  /\ disturbed \subseteq Servers /\ split \subseteq Servers

Init ==
  /\ row = [s \in Servers |-> NoRow]
  /\ node = [s \in Servers |-> NoNode]
  /\ up = [s \in Servers |-> TRUE]
  /\ probe = [s \in Servers |-> FALSE]
  /\ queue = [t \in Kinds \X Servers |-> 0]
  /\ proc = [p \in Processes |-> Idle]
  /\ extras = 0 /\ disturbed = {} /\ split = {}

-----------------------------------------------------------------------------
(* What resolvers and setup workers share: the row, the swarm manager.       *)

CreateServer(s) ==
  /\ row[s] = NoRow
  /\ row' = [row EXCEPT ![s] = [status |-> "needs_setup", mode |-> "none",
                                drained |-> FALSE, proxy |-> "off", named |-> FALSE]]
  /\ UNCHANGED <<node, up, probe, queue, proc, extras, disturbed, split>>

(* FetchServerByID and the checks of the row.                                *)
Admitted(op, r) ==
  /\ op \in {"promote", "demote", "drain", "activate"} => r.status = "online"
  /\ op = "enable_proxy" => r.proxy # "on"
  /\ op = "delete" => r.status # "preparing"

FirstStep(op, r) ==
  CASE op \in {"restrict", "enable_proxy", "disable_proxy"} -> "save"
    [] op = "delete" -> IF r.status = "needs_setup" THEN "delete" ELSE "count"
    [] OTHER -> "choose"

Begin(r, op, s) ==
  /\ proc[r] = Idle
  /\ Exists(s) /\ Admitted(op, row[s])
  /\ proc' = [proc EXCEPT ![r] = [pc |-> FirstStep(op, row[s]), op |-> op, server |-> s,
                                  copy |-> row[s], via |-> NoServer]]
  /\ UNCHANGED <<row, node, up, probe, queue, extras, disturbed, split>>

(* DeleteServer: the last server goes without further ado.                   *)
CountServers(r) ==
  /\ proc[r].pc = "count"
  /\ LET copy == proc[r].copy IN
       CASE Cardinality({s \in Servers : Exists(s)}) = 1 -> Goto(r, "delete")
         [] copy.mode = "manager" \/ copy.proxy = "on" -> Return(r)
         [] OTHER -> Goto(r, "choose")
  /\ UNCHANGED <<row, node, up, probe, queue, extras, disturbed, split>>

(* FetchSwarmManager and FetchSwarmManagerExceptServer.                      *)
ManagersFor(op, s) ==
  {m \in Servers : /\ row[m].status = "online" /\ row[m].mode = "manager"
                   /\ m = s => op \notin {"promote", "demote", "remove", "delete"}}

IsPreparedServerExists == \E s \in Servers : row[s].status \in Prepared

(* The first manager needs no other. Both the resolver and the worker check. *)
WantsManager(p) == IF p \in Workers THEN proc[p].copy.mode = "manager"
                                    ELSE proc[p].op = "setup_manager"
IsSetup(p) == proc[p].op \in Setups \cup {"setup"}

(* A setup that has chosen its swarm, and has not failed.                    *)
UnderWay(w) == proc[w].op = "setup" /\ \/ proc[w].pc \in {"init", "leave", "joining", "succeeded"}
                                       \/ proc[w].pc = "store" /\ proc[w].copy.status = "online"

(* Defect: the worker relies on what the resolver has seen.                  *)
ChooseFirstBlindly(p) ==
  /\ proc[p].pc = "choose" /\ IsSetup(p) /\ WantsManager(p)
  /\ p \in Workers \/ ~IsPreparedServerExists
  /\ Goto(p, IF p \in Workers THEN "init" ELSE "hostname")
  /\ UNCHANGED <<row, node, up, probe, queue, extras, disturbed, split>>

ChooseFirst(p) ==
  /\ proc[p].pc = "choose" /\ IsSetup(p) /\ WantsManager(p)
  /\ ~IsPreparedServerExists
  /\ Goto(p, IF p \in Workers THEN "init" ELSE "hostname")
  /\ split' = IF p \in Workers /\ \E w \in Workers \ {p} : UnderWay(w)
                THEN split \cup {proc[p].server} ELSE split
  /\ UNCHANGED <<row, node, up, probe, queue, extras, disturbed>>

ChooseManager(p) ==
  /\ proc[p].pc = "choose"
  /\ IsSetup(p) /\ WantsManager(p) => IsPreparedServerExists
  /\ \E m \in ManagersFor(proc[p].op, proc[p].server) :
       CASE proc[p].op \in Setups -> Goto(p, "hostname")
         [] proc[p].op = "setup" -> GotoVia(p, m, "leave")
         [] OTHER -> GotoVia(p, m, "call")
  /\ UNCHANGED <<row, node, up, probe, queue, extras, disturbed, split>>

(* No manager, or an error of ssh, of docker or of a query before the swarm  *)
(* changes: the resolver returns, the setup fails.                           *)
GiveUp(p) ==
  /\ proc[p].pc \in {"choose", "hostname", "call", "init", "leave"}
  /\ proc[p].op # "remove" \/ proc[p].pc # "leave"
  /\ IF p \in Workers THEN Goto(p, "failed") ELSE Return(p)
  /\ UNCHANGED <<row, node, up, probe, queue, extras, disturbed, split>>

-----------------------------------------------------------------------------
(* The resolvers *)

(* SetupServer refuses a hostname that some row has, the server's own row    *)
(* included: a server is set up once.                                        *)
CheckHostName(r) ==
  /\ proc[r].pc = "hostname"
  /\ IF row[proc[r].server] \in Rows /\ row[proc[r].server].named
       THEN Return(r) ELSE Goto(r, "save")
  /\ UNCHANGED <<row, node, up, probe, queue, extras, disturbed, split>>

(* The call of docker at the manager. A node is found in its own swarm only; *)
(* docker does not demote the last manager, nor remove a manager.            *)
SameSwarm(s, m) == HasNode(s) /\ HasNode(m) /\ node[s].swarm = node[m].swarm
OtherManager(s) == \E t \in Servers \ {s} : IsManager(t) /\ SameSwarm(s, t)

SwarmUpdate(op, s) ==
  CASE op = "promote" -> [node[s] EXCEPT !.role = "manager"]
    [] op = "demote" -> [node[s] EXCEPT !.role = "worker"]
    [] op = "drain" -> [node[s] EXCEPT !.drained = TRUE]
    [] op = "activate" -> [node[s] EXCEPT !.drained = FALSE]
    [] OTHER -> NoNode

(* RemoveNode returns nil for a node that is not in the list.                *)
CallSwarm(r) ==
  LET op == proc[r].op  s == proc[r].server  m == proc[r].via IN
  /\ proc[r].pc = "call"
  /\ up[m] /\ IsManager(m)
  /\ IF SameSwarm(s, m)
       THEN /\ op = "demote" => OtherManager(s) \/ node[s].role = "worker"
            /\ op \in {"remove", "delete"} => node[s].role = "worker"
            /\ node' = [node EXCEPT ![s] = SwarmUpdate(op, s)]
       ELSE /\ op \in {"remove", "delete"}
            /\ UNCHANGED node
  /\ Goto(r, IF op = "delete" THEN "delete" ELSE "save")
  /\ Disturb(s, \E p \in Processes \ {r} : Touches(p, s))
  /\ UNCHANGED <<row, up, probe, queue, extras, split>>

(* Defect: a server that is removed from the swarm keeps its status.         *)
SavedButStatus(op, copy) ==
  CASE op \in Setups -> [copy EXCEPT !.status = "preparing", !.named = TRUE,
                           !.mode = IF op = "setup_manager" THEN "manager" ELSE "worker"]
    [] op = "promote" -> [copy EXCEPT !.mode = "manager"]
    [] op = "demote" -> [copy EXCEPT !.mode = "worker"]
    [] OTHER -> copy

(* The row as the request saves it: what it read, but for its own columns.   *)
Saved(op, copy) ==
  CASE op \in Setups -> [copy EXCEPT !.status = "preparing", !.named = TRUE,
                           !.mode = IF op = "setup_manager" THEN "manager" ELSE "worker"]
    [] op = "promote" -> [copy EXCEPT !.mode = "manager"]
    [] op = "demote" -> [copy EXCEPT !.mode = "worker"]
    [] op = "drain" -> [copy EXCEPT !.drained = TRUE]
    [] op = "activate" -> [copy EXCEPT !.drained = FALSE]
    [] op = "remove" -> [copy EXCEPT !.status = "needs_setup"]
    [] op = "enable_proxy" -> [copy EXCEPT !.proxy = "setup"]
    [] op = "disable_proxy" -> [copy EXCEPT !.proxy = "off"]
    [] OTHER -> copy

AfterSave(op) == CASE op \in Setups \cup {"enable_proxy"} -> "enqueue"
                   [] op = "remove" -> "leave"
                   [] OTHER -> "idle"

(* Another writer has changed the row since it was read; that the monitor    *)
(* has flipped online and offline does not count, it will again.             *)
Status(r) == IF r.status \in Prepared THEN "prepared" ELSE r.status
OutOfDate(s, copy) ==
  \/ ~Exists(s)
  \/ Status(row[s]) # Status(copy)
  \/ [row[s] EXCEPT !.status = copy.status, !.proxy = copy.proxy] # copy

(* UpdateServer saves every column, and inserts the row when it is gone.     *)
Save(r) ==
  LET op == proc[r].op  s == proc[r].server IN
  /\ proc[r].pc = "save"
  /\ row' = [row EXCEPT ![s] = Saved(op, proc[r].copy)]
  /\ IF AfterSave(op) = "idle" THEN Return(r) ELSE Goto(r, AfterSave(op))
  /\ Disturb(s, OutOfDate(s, proc[r].copy))
  /\ UNCHANGED <<node, up, probe, queue, extras, split>>

SaveFails(r) ==
  /\ proc[r].pc = "save"
  /\ Return(r)
  /\ Disturb(proc[r].server, proc[r].op \in SwarmCalls)
  /\ UNCHANGED <<row, node, up, probe, queue, extras, split>>

(* The log of the server and the task; an error leaves the row as it is.     *)
Enqueue(r) ==
  LET task == <<IF proc[r].op \in Setups THEN "setup" ELSE "proxy", proc[r].server>> IN
  /\ proc[r].pc = "enqueue"
  /\ queue[task] < MaxQueued
  /\ queue' = [queue EXCEPT ![task] = @ + 1]
  /\ Return(r)
  /\ UNCHANGED <<row, node, up, probe, extras, disturbed, split>>

EnqueueFails(r) ==
  /\ proc[r].pc = "enqueue"
  /\ Return(r)
  /\ Disturb(proc[r].server, TRUE)
  /\ UNCHANGED <<row, node, up, probe, queue, extras, split>>

(* RemoveServerFromSwarmCluster: the machine leaves, if it answers.          *)
LeaveAfterRemoval(r) ==
  LET s == proc[r].server IN
  /\ proc[r].pc = "leave" /\ proc[r].op = "remove"
  /\ node' = [node EXCEPT ![s] = IF up[s] THEN NoNode ELSE @]
  /\ Return(r)
  /\ Disturb(s, Exists(s) /\ row[s].status # "needs_setup")
  /\ UNCHANGED <<row, up, probe, queue, extras, split>>

DeleteRow(r) ==
  /\ proc[r].pc = "delete"
  /\ row' = [row EXCEPT ![proc[r].server] = Deleted]
  /\ Return(r)
  /\ UNCHANGED <<node, up, probe, queue, extras, disturbed, split>>

(* An application prefers the server, which is seen after the node is gone.  *)
DeleteRefused(r) ==
  /\ proc[r].pc = "delete"
  /\ Return(r)
  /\ Disturb(proc[r].server, proc[r].via # NoServer)
  /\ UNCHANGED <<row, node, up, probe, queue, extras, split>>

-----------------------------------------------------------------------------
(* The workers *)

(* A task is taken, and its server read. A task that was delivered may be    *)
(* delivered again.                                                          *)
Take(w, kind, s) ==
  /\ proc[w] = Idle
  /\ queue[<<kind, s>>] > 0
  /\ \/ queue' = [queue EXCEPT ![<<kind, s>>] = @ - 1] /\ UNCHANGED extras
     \/ extras < MaxExtras /\ extras' = extras + 1 /\ UNCHANGED queue
  /\ IF Exists(s)
       THEN proc' = [proc EXCEPT ![w] = [pc |-> IF kind = "setup" THEN "choose" ELSE "copy",
                                         op |-> kind, server |-> s,
                                         copy |-> row[s], via |-> NoServer]]
       ELSE UNCHANGED proc
  /\ UNCHANGED <<row, node, up, probe, disturbed, split>>

(* A setup of a server that is set up already joins anew.                    *)
Rejoins(w) == proc[w].copy.status # "preparing"
              \/ \E p \in Processes \ {w} : Touches(p, proc[w].server)

InitializeAsManager(w) ==
  LET s == proc[w].server IN
  /\ proc[w].pc = "init"
  /\ up[s]
  /\ \E n \in 1..Cardinality(Servers) :
       /\ \A t \in Servers \ {s} : node[t].swarm # n
       /\ node' = [node EXCEPT ![s] = [swarm |-> n, role |-> "manager", drained |-> FALSE]]
  /\ Goto(w, "succeeded")
  /\ Disturb(s, Rejoins(w))
  /\ UNCHANGED <<row, up, probe, queue, extras, split>>

(* The token of the manager; then the machine leaves what it is in,          *)
LeaveSwarm(w) ==
  LET s == proc[w].server IN
  /\ proc[w].pc = "leave" /\ proc[w].op = "setup"
  /\ up[s] /\ up[proc[w].via] /\ IsManager(proc[w].via)
  /\ node' = [node EXCEPT ![s] = NoNode]
  /\ Goto(w, "joining")
  /\ Disturb(s, Rejoins(w))
  /\ UNCHANGED <<row, up, probe, queue, extras, split>>

(* and joins, through the same manager.                                      *)
JoinSwarm(w) ==
  LET s == proc[w].server  m == proc[w].via IN
  /\ proc[w].pc = "joining"
  /\ \/ /\ IsManager(m)
        /\ node' = [node EXCEPT ![s] = [swarm |-> node[m].swarm, drained |-> FALSE,
             role |-> IF WantsManager(w) THEN "manager" ELSE "worker"]]
        /\ split' = IF m \in disturbed \cup split THEN split \cup {s} ELSE split
        /\ Goto(w, "succeeded")
     \/ Goto(w, "failed") /\ UNCHANGED <<node, split>>
  /\ UNCHANGED <<row, up, probe, queue, extras, disturbed>>

(* Defect: the error of that read is passed over.                            *)
FetchUnchecked(w) ==
  /\ proc[w].pc \in {"succeeded", "failed"}
  /\ proc' = [proc EXCEPT ![w].pc = "store", ![w].copy =
       [status |-> IF proc[w].pc = "succeeded" THEN "online" ELSE "needs_setup"]]
  /\ UNCHANGED <<row, node, up, probe, queue, extras, disturbed, split>>

(* SetupServer reads the row again for the result.                           *)
FetchForResult(w) ==
  LET s == proc[w].server IN
  /\ proc[w].pc \in {"succeeded", "failed"}
  /\ IF Exists(s)
       THEN proc' = [proc EXCEPT ![w].pc = "store", ![w].copy =
              [row[s] EXCEPT !.status = IF proc[w].pc = "succeeded" THEN "online"
                                                                    ELSE "needs_setup"]]
       ELSE Return(w)
  /\ UNCHANGED <<row, node, up, probe, queue, extras, disturbed, split>>

(* SetupAndEnableProxy copies the configuration of another proxy to the      *)
(* server. On an error the row says for ever that a setup is running.        *)
CopyConfiguration(w) ==
  /\ proc[w].pc = "copy"
  /\ \/ proc' = [proc EXCEPT ![w].pc = "store", ![w].copy.proxy = "on"]
     \/ Return(w)
  /\ UNCHANGED <<row, node, up, probe, queue, extras, disturbed, split>>

(* The row that a setup saves was read an instant ago, and that of a proxy   *)
(* before the copying began.                                                 *)
StoreIsStale(w) ==
  LET s == proc[w].server  copy == proc[w].copy IN
  IF proc[w].op = "setup" THEN OutOfDate(s, [copy EXCEPT !.status = "preparing"])
                          ELSE OutOfDate(s, copy)

(* Defect: a setup that failed leaves the row.                               *)
StoreSuccess(w) ==
  /\ proc[w].pc = "store"
  /\ row' = [row EXCEPT ![proc[w].server] = IF proc[w].copy.status = "needs_setup"
                                              THEN @ ELSE proc[w].copy]
  /\ Return(w)
  /\ Disturb(proc[w].server, StoreIsStale(w))
  /\ UNCHANGED <<node, up, probe, queue, extras, split>>

Store(w) ==
  /\ proc[w].pc = "store"
  /\ row' = [row EXCEPT ![proc[w].server] = proc[w].copy]
  /\ Return(w)
  /\ Disturb(proc[w].server, StoreIsStale(w))
  /\ UNCHANGED <<node, up, probe, queue, extras, split>>

StoreFails(w) ==
  /\ proc[w].pc = "store"
  /\ Return(w)
  /\ Disturb(proc[w].server, TRUE)
  /\ UNCHANGED <<row, node, up, probe, queue, extras, split>>

-----------------------------------------------------------------------------
(* The monitor, the machines and the process *)

(* Defect: servers that are offline are skipped as well.                     *)
ProbeOnline(s) ==
  /\ row[s].status = "online" /\ ~probe[s]
  /\ probe' = [probe EXCEPT ![s] = TRUE]
  /\ UNCHANGED <<row, node, up, queue, proc, extras, disturbed, split>>

(* A goroutine for every server that was online or offline when the rows     *)
(* were read.                                                                *)
Probe(s) ==
  /\ row[s].status \in Prepared /\ ~probe[s]
  /\ probe' = [probe EXCEPT ![s] = TRUE]
  /\ UNCHANGED <<row, node, up, queue, proc, extras, disturbed, split>>

(* MarkServerAsOnline and MarkServerAsOffline do not look at the row.        *)
EndProbe(s) ==
  /\ probe[s]
  /\ probe' = [probe EXCEPT ![s] = FALSE]
  /\ row' = IF Exists(s)
              THEN [row EXCEPT ![s].status = IF up[s] THEN "online" ELSE "offline"]
              ELSE row
  /\ Disturb(s, Exists(s) /\ row[s].status \notin Prepared)
  /\ UNCHANGED <<node, up, queue, proc, extras, split>>

Reachable(s) ==
  /\ up' = [up EXCEPT ![s] = ~@]
  /\ UNCHANGED <<row, node, probe, queue, proc, extras, disturbed, split>>

(* The process starts again: what it did is forgotten, tasks come back.      *)
Unfinished(s) == \E p \in Processes : proc[p].server = s
                   /\ (proc[p].pc = "enqueue" \/ Touches(p, s))
Crash ==
  /\ extras < MaxExtras /\ extras' = extras + 1
  /\ queue' = [t \in Kinds \X Servers |->
       IF queue[t] < MaxQueued /\ \E w \in Workers : proc[w].op = t[1] /\ proc[w].server = t[2]
         THEN queue[t] + 1 ELSE queue[t]]
  /\ proc' = [p \in Processes |-> Idle]
  /\ probe' = [s \in Servers |-> FALSE]
  /\ disturbed' = disturbed \cup {s \in Servers : Unfinished(s)}
  /\ UNCHANGED <<row, node, up, split>>

ResolverStep(r) ==
  \/ CountServers(r) \/ CheckHostName(r) \/ CallSwarm(r) \/ Save(r) \/ SaveFails(r)
  \/ Enqueue(r) \/ EnqueueFails(r) \/ LeaveAfterRemoval(r) \/ DeleteRow(r) \/ DeleteRefused(r)

WorkerStep(w) ==
  \/ InitializeAsManager(w) \/ LeaveSwarm(w) \/ JoinSwarm(w) \/ FetchForResult(w)
  \/ CopyConfiguration(w) \/ Store(w) \/ StoreFails(w)

Step(p) == ChooseFirst(p) \/ ChooseManager(p) \/ GiveUp(p)

SomeBegin == \E r \in Resolvers, op \in Requests, s \in Servers : Begin(r, op, s)
SomeOutage == \E s \in Servers : Reachable(s)

Proceed ==
  \/ \E s \in Servers : CreateServer(s) \/ Probe(s) \/ EndProbe(s)
  \/ \E r \in Resolvers : Step(r) \/ ResolverStep(r)
  \/ \E w \in Workers, kind \in Kinds, s \in Servers : Take(w, kind, s)
  \/ \E w \in Workers : Step(w) \/ WorkerStep(w)
  \/ Crash

Next == Proceed \/ SomeBegin \/ SomeOutage

(* A worker that can go on does, a task in the queue is taken in the end,    *)
(* and the monitor never stops.                                              *)
Fairness ==
  /\ \A w \in Workers : WF_vars(Step(w) \/ WorkerStep(w))
  /\ \A r \in Resolvers : WF_vars(Step(r) \/ ResolverStep(r))
  /\ \A s \in Servers : SF_vars(\E w \in Workers : Take(w, "setup", s))
  /\ \A s \in Servers : WF_vars(Probe(s)) /\ WF_vars(EndProbe(s))

Spec == Init /\ [][Next]_vars /\ Fairness

-----------------------------------------------------------------------------

(* What the row of a prepared server says of the swarm is so: the server is  *)
(* in it, as manager or worker and drained or not, as the row has it. Other  *)
(* components choose managers and place replicas by the rows.                *)
RowFollowsSwarm ==
  \A s \in Servers \ disturbed :
    row[s].status \in Prepared /\ ~(\E p \in Processes : Touches(p, s)) =>
      HasNode(s) /\ node[s].role = row[s].mode /\ node[s].drained = row[s].drained

(* There is one swarm: a server is made the first manager only while no      *)
(* other is prepared (IsPreparedServerExists), unless two setups overlap. A  *)
(* stale save may bring the row of a deleted manager back, and servers may   *)
(* then join its swarm.                                                      *)
OneSwarm ==
  \A s, t \in Servers \ (disturbed \cup split) :
    row[s].status \in Prepared /\ row[t].status \in Prepared /\ HasNode(s) /\ HasNode(t)
      => node[s].swarm = node[t].swarm

(* A server whose setup was asked for gets a result: "preparing" ends, also  *)
(* when a step of the setup fails or the process starts again.               *)
SetupSettles ==
  \A s \in Servers : row[s].status = "preparing"
                       ~> (row[s].status # "preparing" \/ s \in disturbed)

(* The monitor tells the truth: a machine that stays reachable is seen       *)
(* online again and again, one that stays unreachable offline.               *)
StatusSettles ==
  \A s \in Servers :
    /\ <>[]up[s] => []<>(row[s].status # "offline")
    /\ <>[]~up[s] => []<>(row[s].status # "online")
=============================================================================
