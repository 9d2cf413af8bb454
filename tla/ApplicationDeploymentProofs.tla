--------------------- MODULE ApplicationDeploymentProofs ---------------------
(***************************************************************************)
(* The safety invariants of ApplicationDeployment, for every set of        *)
(* workers, resolvers and sources and all bounds. What has to be known in  *)
(* every state: which tasks are on their way, that deploys which do not    *)
(* overlap own the service, and that whatever is not as it should be is    *)
(* attended by a task that will put it right.                              *)
(***************************************************************************)
EXTENDS ApplicationDeployment, FiniteSetTheorems, WellFoundedInduction, TLAPS

(* The values of the variables, a worker's by the kind of its task. *)
Deployments == [source : Sources, status : Statuses]
Specs       == [dep : Ids, settings : Nat]
Builds      == [pc : {"building", "built", "enqueue", "failing"},
                task : [kind : {"build"}, dep : Ids],
                settings : Nat, current : {0}, cancel : BOOLEAN]
Deploys     == [pc : {"deploying", "found", "marked", "served", "failing"},
                task : [kind : {"deploy"}, dep : Ids],
                settings : Nat, current : Ids \cup {0}, cancel : {FALSE}]
Removals    == [pc : {"removing"}, task : [kind : {"delete"}, dep : {0}],
                settings : Nat, current : {0}, cancel : {FALSE}]
Busy        == Builds \cup Deploys \cup Removals
Found       == {"found", "marked", "served"}
Troubles    == {"refused", "failure", "lost", "overlap"}

Shape ==
  /\ app \in {"absent", "live", "deleting", "gone"}
  /\ settings \in 0..MaxSettings
  /\ ledger \in Seq(Deployments)
  /\ Len(ledger) <= MaxDeployments
  /\ app \in {"absent", "gone"} <=> ledger = <<>>
  /\ service \in Seq(Specs)
  /\ Len(service) <= 2
  /\ queued \subseteq Tasks
  /\ request \in [Resolvers -> Tasks \cup {NoTask}]
  /\ worker \in [Workers -> {Idle} \cup Builds \cup Deploys \cup Removals]
  /\ trouble \subseteq Troubles

(* A task on its way is about a deployment that exists, until the application  *)
(* is gone; only then is its service removed.                                  *)
Known(t) == t.kind \in {"build", "deploy"} => Exists(t.dep)
TasksAreKnown ==
  app # "gone" => /\ \A t \in queued : Known(t)
                  /\ \A r \in Resolvers : Known(request[r])
                  /\ \A w \in Workers : Known(worker[w].task) /\ worker[w].pc # "removing"

(* A deploy that does not overlap another, or a deletion, is alone, and the   *)
(* application outlives it.                                                   *)
Alone ==
  "overlap" \notin trouble =>
    \A v \in Workers : worker[v].task.kind = "deploy" =>
      /\ app # "gone"
      /\ \A w \in Workers : worker[w].task.kind \in {"deploy", "delete"} => v = w

(* It has found whatever is deployed, and will stall it. *)
FoundAll ==
  "overlap" \notin trouble =>
    \A w \in Workers : worker[w].pc \in {"found", "marked", "served"}
                         => Deployed \subseteq {worker[w].current}

(* So it never leaves two of them deployed. *)
AtMostOne == "overlap" \notin trouble => \A d, e \in Deployed : d = e

(* Until it commits, the service is what it made. *)
Serving ==
  "overlap" \notin trouble =>
    \A w \in Workers : worker[w].pc = "served"
                         => service # <<>> /\ service[1].dep = worker[w].task.dep

(* A task that will make d the deployed one is on its way. *)
OnItsWay(t)  == t \in queued \/ \E w \in Workers : worker[w].task = t
Attended(d)  == \/ OnItsWay([kind |-> "deploy", dep |-> d])
                \/ /\ OnItsWay([kind |-> "build", dep |-> d])
                   /\ ledger[d].status # "failed"
(* What is served is deployed, or such a task is on its way, or a removal. *)
ServedIsAttended ==
  trouble \subseteq {"failure"} /\ service # <<>> =>
    \/ \E w \in Workers : worker[w].pc = "removing"
    \/ /\ Exists(service[1].dep)
       /\ ledger[service[1].dep].status = "deployed" \/ Attended(service[1].dep)

(* Without trouble no build fails, unless its application is gone. *)
NothingFails ==
  trouble = {} => /\ \A d \in DOMAIN ledger : ledger[d].status # "failed"
                  /\ \A w \in Workers : worker[w].pc = "failing" => app = "gone"

(* A deploy that has not yet read the settings is on its way. *)
DeployToCome ==
  \/ \E t \in queued : t.kind \in {"build", "deploy"}
  \/ \E r \in Resolvers : request[r].kind \in {"build", "deploy"}
  \/ \E w \in Workers : worker[w].task.kind = "build"

(* One that has read them has read the latest, or is followed by one that will. *)
Deploying(w) == worker[w].pc \in {"deploying", "found", "marked"}
SettingsAreAttended ==
  trouble = {} /\ app \in {"live", "deleting"} =>
    /\ \/ DeployToCome
       \/ \E w \in Workers : Deploying(w) /\ worker[w].settings = settings
       \/ service # <<>> /\ service[1].settings = settings
    /\ \A w \in Workers : Deploying(w) /\ worker[w].settings # settings => DeployToCome

(* The inductive invariant. *)
IInv == /\ Shape /\ TasksAreKnown /\ Alone /\ FoundAll /\ AtMostOne /\ Serving
        /\ ServedIsAttended /\ NothingFails /\ SettingsAreAttended

-----------------------------------------------------------------------------
(* What the operators of the model compute. *)

(* A nonempty set of small numbers has a newest element. *)
LEMMA NewestIsMember ==
  ASSUME NEW n \in Nat, NEW S \in SUBSET (1..n), S # {}
  PROVE  Newest(S) \in S
<1> DEFINE T == {m \in Nat : n - m \in S}
<1>1. T \subseteq Nat /\ T # {}
  <2>1. PICK d \in S : TRUE
    OBVIOUS
  <2>2. n - d \in T
    BY <2>1
  <2>3. QED
    BY <2>2
<1>2. PICK m \in T : \A k \in T : ~(<<k, m>> \in OpToRel(<, Nat))
  BY <1>1, NatLessThanWellFounded, WFMin, Zenon
<1>3. \A e \in S : e <= n - m
  <2> SUFFICES ASSUME NEW e \in S PROVE e <= n - m
    OBVIOUS
  <2>1. n - e \in T
    OBVIOUS
  <2>2. ~(n - e < m)
    BY <1>2, <2>1 DEF OpToRel
  <2>3. QED
    BY <2>2
<1>4. QED
  BY <1>3 DEF Newest

(* A function on 1..n is a sequence. *)
LEMMA FunctionIsSeq ==
  ASSUME NEW S, NEW n \in Nat, NEW f \in [1..n -> S]
  PROVE  f \in Seq(S) /\ Len(f) = n /\ (f = <<>> <=> n = 0)
  OBVIOUS

(* The program starts with no application: the invariant holds. *)
LEMMA InitIInv == Init => IInv
<1> SUFFICES ASSUME Init PROVE IInv
  OBVIOUS
<1>0. ~Exists(0) /\ Deployed = {}
  BY DEF Init, Exists, Deployed
<1>1. Shape
  BY BoundAssumption DEF Init, Shape, Idle, NoTask
<1>2. TasksAreKnown /\ Alone /\ FoundAll /\ AtMostOne /\ Serving
  BY <1>0 DEF Init, Idle, NoTask, TasksAreKnown, Known, Alone, FoundAll, AtMostOne, Serving
<1>3. ServedIsAttended /\ NothingFails /\ SettingsAreAttended
  BY DEF Init, Idle, NoTask, ServedIsAttended, NothingFails, SettingsAreAttended
<1>4. QED
  BY <1>1, <1>2, <1>3 DEF IInv

(* What a worker's phase says of its task. *)
LEMMA WorkerFields ==
  ASSUME Shape, NEW w \in Workers
  PROVE  /\ worker[w] \in {Idle} \cup Busy
         /\ worker[w].pc \in {"building", "built", "enqueue"} => worker[w] \in Builds
         /\ worker[w].pc \in {"deploying", "found", "marked", "served"} => worker[w] \in Deploys
         /\ worker[w].pc = "failing" => worker[w] \in Builds \cup Deploys
         /\ worker[w].pc = "removing" => worker[w] \in Removals
         /\ worker[w].pc = "idle" <=> worker[w] = Idle
<1>1. worker[w] \in {Idle} \cup Busy
  BY DEF Shape, Busy
<1>2. worker[w] = Idle => worker[w].pc = "idle"
  BY DEF Idle
<1>3. worker[w] \in Builds => worker[w].pc \in {"building", "built", "enqueue", "failing"}
  BY DEF Builds
<1>4. worker[w] \in Deploys => worker[w].pc \in {"deploying", "found", "marked", "served", "failing"}
  BY DEF Deploys
<1>5. worker[w] \in Removals => worker[w].pc = "removing"
  BY DEF Removals
<1>6. QED
  BY <1>1, <1>2, <1>3, <1>4, <1>5 DEF Busy

(* What a worker carries is the task of its kind, about a deployment the     *)
(* model numbers.                                                            *)
LEMMA TaskFields ==
  ASSUME Shape, NEW w \in Workers
  PROVE  /\ worker[w] = Idle => worker[w].task = NoTask
         /\ worker[w] # Idle => worker[w].task \in Tasks
         /\ worker[w] \in Builds => worker[w].task.kind = "build" /\ worker[w].task.dep \in Ids
         /\ worker[w] \in Deploys => /\ worker[w].task.kind = "deploy" /\ worker[w].task.dep \in Ids
                                     /\ worker[w].settings \in Nat /\ worker[w].current \in Ids \cup {0}
         /\ worker[w] \in Removals => worker[w].task.kind = "delete"
<1>1. worker[w] = Idle => worker[w].task = NoTask
  BY DEF Idle
<1>2. worker[w] \in Builds => /\ worker[w].task.kind = "build" /\ worker[w].task.dep \in Ids
                              /\ worker[w].task \in Tasks
  BY DEF Builds, Tasks
<1>3. worker[w] \in Deploys => /\ worker[w].task.kind = "deploy" /\ worker[w].task.dep \in Ids
                               /\ worker[w].settings \in Nat /\ worker[w].current \in Ids \cup {0}
                               /\ worker[w].task \in Tasks
  BY DEF Deploys, Tasks
<1>4. worker[w] \in Removals => worker[w].task.kind = "delete" /\ worker[w].task \in Tasks
  BY DEF Removals, Tasks
<1>5. worker[w] \in {Idle} \cup Builds \cup Deploys \cup Removals
  BY DEF Shape
<1>6. QED
  BY <1>1, <1>2, <1>3, <1>4, <1>5

(* A worker goes on to pc p, if that is a phase of its task. *)
LEMMA WorkerGoesOn ==
  ASSUME Shape, NEW w \in Workers, NEW p, worker' = [worker EXCEPT ![w].pc = p],
         \/ worker[w].pc \in {"building", "built"} /\ p \in {"built", "enqueue", "failing"}
         \/ worker[w].pc = "enqueue" /\ p = "failing"
         \/ worker[w].pc \in {"deploying", "found", "marked"} /\ p \in {"marked", "served", "failing"}
  PROVE  worker' \in [Workers -> {Idle} \cup Busy]
<1>1. worker \in [Workers -> {Idle} \cup Busy]
  BY DEF Shape, Busy
<1>2. worker[w] \in Builds \cup Deploys
  BY WorkerFields
<1>3. [worker[w] EXCEPT !.pc = p] \in Builds \cup Deploys
  <2>1. CASE worker[w] \in Builds
    BY <2>1 DEF Builds
  <2>2. CASE worker[w] \in Deploys
    BY <2>2 DEF Deploys
  <2>3. QED
    BY <1>2, <2>1, <2>2
<1>4. QED
  BY <1>1, <1>3 DEF Busy

(* The ledger as a function, for the provers. *)
LEMMA LedgerIsFunction ==
  ASSUME Shape
  PROVE  /\ DOMAIN ledger = 1..Len(ledger) /\ Len(ledger) \in Nat
         /\ ledger \in [1..Len(ledger) -> Deployments]
  BY DEF Shape

(* UpdateStatus keeps the ledger a ledger. *)
LEMMA StatusShape ==
  ASSUME Shape, NEW d, NEW s \in Statuses, ledger' = Status(d, s)
  PROVE  /\ ledger' \in Seq(Deployments) /\ Len(ledger') = Len(ledger)
         /\ ledger' = <<>> <=> ledger = <<>>
<1>1. DOMAIN ledger = 1..Len(ledger) /\ Len(ledger) \in Nat /\ ledger \in [1..Len(ledger) -> Deployments]
  BY DEF Shape
<1>2. CASE Exists(d)
  <2>1. [ledger[d] EXCEPT !.status = s] \in Deployments
    BY <1>1, <1>2 DEF Exists, Deployments
  <2>2. ledger' \in [1..Len(ledger) -> Deployments]
    BY <1>1, <1>2, <2>1 DEF Status, Exists
  <2>3. QED
    BY <1>1, <2>2, FunctionIsSeq
<1>3. CASE ~Exists(d)
  BY <1>3 DEF Status, Shape
<1>4. QED
  BY <1>2, <1>3

(* An application that exists has a current deployment, or a latest one. *)
LEMMA CurrentIsKnown ==
  ASSUME Shape, ledger # <<>>
  PROVE  CurrentOrLatest \in DOMAIN ledger /\ CurrentOrLatest \in Ids
<1>1. /\ Len(ledger) \in Nat /\ DOMAIN ledger = 1..Len(ledger) /\ Len(ledger) > 0
      /\ Len(ledger) <= MaxDeployments /\ MaxDeployments \in Nat
  BY BoundAssumption DEF Shape
<1>2. Deployed # {} => Newest(Deployed) \in Deployed
  BY <1>1, NewestIsMember DEF Deployed
<1>3. QED
  BY <1>1, <1>2 DEF CurrentOrLatest, Ids, Deployed

(* The resolvers keep the shape of the variables. *)
LEMMA ResolveShape ==
  ASSUME Shape, NEW r \in Resolvers, Resolve(r)
  PROVE  Shape'
<1> USE BoundAssumption DEF Shape, Ask, Pending, Tasks, Ids, Deployments, Statuses, data
<1>0. app \in {"live", "deleting"} => ledger # <<>> /\ Len(ledger) \in Ids
  OBVIOUS
<1>1. ASSUME NEW src \in Sources, CreateApplication(r, src) PROVE Shape'
  BY <1>1 DEF CreateApplication
<1>2. ASSUME NEW src \in Sources, NEW reload \in BOOLEAN, UpdateApplication(r, src, reload)
      PROVE  Shape'
  BY <1>0, <1>2, CurrentIsKnown DEF UpdateApplication
<1>3. CASE RebuildApplication(r)
  <2>1. Pending(ledger[CurrentOrLatest].source) \in Deployments
    <3>1. CurrentOrLatest \in DOMAIN ledger
      BY <1>0, <1>3, CurrentIsKnown DEF RebuildApplication
    <3>2. ledger \in [1..Len(ledger) -> Deployments] /\ DOMAIN ledger = 1..Len(ledger)
      BY LedgerIsFunction
    <3>3. QED
      BY <3>1, <3>2
  <2>2. QED
    BY <1>3, <2>1 DEF RebuildApplication
<1>4. CASE SleepOrWake(r)
  BY <1>0, <1>4 DEF SleepOrWake
<1>5. CASE DeleteApplication(r)
  BY <1>5 DEF DeleteApplication
<1>6. ASSUME NEW d \in Ids, ForceUpdate(r, d) PROVE Shape'
  BY <1>6 DEF ForceUpdate
<1> HIDE DEF Shape
<1>7. QED
  BY <1>1, <1>2, <1>3, <1>4, <1>5, <1>6 DEF Resolve, redeployApp

(* So does EnqueueTask, whatever it answers. *)
LEMMA EnqueueShape ==
  ASSUME Shape, NEW r \in Resolvers, Enqueue(r)
  PROVE  Shape'
  BY DEF Shape, Enqueue, data, Troubles

(* So does a cancellation, which flags a build only. *)
LEMMA CancelShape ==
  ASSUME Shape, NEW d \in Ids, CancelDeployment(d)
  PROVE  Shape'
<1>1. ASSUME NEW w \in Workers
      PROVE  [worker[w] EXCEPT !.cancel =
                \/ @
                \/ /\ worker[w].task = [kind |-> "build", dep |-> d]
                   /\ ledger[d].source \notin Images] \in {Idle} \cup Busy
  <2>1. CASE worker[w] = Idle
    <3>1. worker[w].cancel = FALSE /\ worker[w].task # [kind |-> "build", dep |-> d]
      BY <2>1 DEF Idle, NoTask
    <3>2. QED
      BY <2>1, <3>1 DEF Idle
  <2>2. CASE worker[w] \in Builds
    BY <2>2 DEF Busy, Builds
  <2>3. CASE worker[w] \in Deploys
    <3>1. worker[w].cancel = FALSE /\ worker[w].task.kind # "build"
      BY <2>3 DEF Deploys
    <3>2. worker[w].task # [kind |-> "build", dep |-> d]
      BY <3>1
    <3>3. QED
      BY <2>3, <3>1, <3>2 DEF Busy, Deploys
  <2>4. CASE worker[w] \in Removals
    <3>1. worker[w].cancel = FALSE /\ worker[w].task.kind # "build"
      BY <2>4 DEF Removals
    <3>2. worker[w].task # [kind |-> "build", dep |-> d]
      BY <3>1
    <3>3. QED
      BY <2>4, <3>1, <3>2 DEF Busy, Removals
  <2>5. QED
    BY <2>1, <2>2, <2>3, <2>4, WorkerFields DEF Busy
<1>2. QED
  BY <1>1 DEF Shape, Busy, CancelDeployment, data

(* So does a worker that takes a task, each kind with the record of its own. *)
LEMMA StartShape ==
  ASSUME Shape, NEW w \in Workers, NEW t \in Tasks, Start(w, t)
  PROVE  Shape'
<1> USE DEF Shape, data
<1>0. settings \in Nat
  BY BoundAssumption
<1>1. ASSUME NEW d \in Ids, NEW pc \in {"building", "failing"},
             Take(w, [kind |-> "build", dep |-> d], pc)
      PROVE  worker' \in [Workers -> {Idle} \cup Builds \cup Deploys \cup Removals] /\ queued' \subseteq Tasks
  BY <1>0, <1>1 DEF Take, Idle, Builds
<1>2. ASSUME NEW d \in Ids, Take(w, [kind |-> "deploy", dep |-> d], "deploying")
      PROVE  worker' \in [Workers -> {Idle} \cup Builds \cup Deploys \cup Removals] /\ queued' \subseteq Tasks
  BY <1>0, <1>2 DEF Take, Idle, Deploys
<1>3. ASSUME Take(w, [kind |-> "delete", dep |-> 0], "removing")
      PROVE  worker' \in [Workers -> {Idle} \cup Builds \cup Deploys \cup Removals] /\ queued' \subseteq Tasks
  BY <1>0, <1>3 DEF Take, Idle, Removals
<1>4. ASSUME NEW d \in Ids, StartBuild(w, d) PROVE Shape'
  BY <1>1, <1>4 DEF StartBuild
<1>5. ASSUME NEW d \in Ids, StartDeploy(w, d) PROVE Shape'
  BY <1>2, <1>5 DEF StartDeploy, Troubles
<1>6. CASE HardDelete(w)
  BY <1>3, <1>6, BoundAssumption DEF HardDelete, Troubles
<1>7. CASE SkipTask(w, t)
  BY <1>7 DEF SkipTask
<1> HIDE DEF Shape
<1>8. QED
  BY <1>4, <1>5, <1>6, <1>7 DEF Start, Tasks

(* So does each step of the three handlers. *)
LEMMA WorkShape ==
  ASSUME Shape, NEW w \in Workers, Work(w)
  PROVE  Shape'
<1>0. /\ worker[w] \in {Idle} \cup Builds \cup Deploys \cup Removals
      /\ [worker EXCEPT ![w] = Idle] \in [Workers -> {Idle} \cup Builds \cup Deploys \cup Removals]
  BY DEF Shape
<1>1. CASE BuildSucceeds(w)
  BY <1>1, WorkerGoesOn DEF Shape, Busy, BuildSucceeds, Goto, data
<1>2. CASE BuildFails(w)
  BY <1>2, WorkerGoesOn DEF Shape, Busy, BuildFails, Goto, data, Troubles
<1>3. CASE CommitBuilt(w)
  BY <1>3, WorkerGoesOn, StatusShape DEF Shape, Busy, CommitBuilt, Goto, Statuses
<1>4. CASE EnqueueDeploy(w)
  <2>1. [kind |-> "deploy", dep |-> worker[w].task.dep] \in Tasks
    BY <1>4, WorkerFields, TaskFields DEF EnqueueDeploy, Tasks
  <2>2. worker' \in [Workers -> {Idle} \cup Builds \cup Deploys \cup Removals]
    BY <1>0, <1>4, WorkerGoesOn DEF EnqueueDeploy, Goto, Finish, Busy
  <2>3. QED
    BY <1>4, <2>1, <2>2 DEF Shape, EnqueueDeploy, data, Troubles
<1>5. CASE MarkFailed(w)
  BY <1>0, <1>5, StatusShape DEF Shape, MarkFailed, Finish, Statuses, Troubles
<1>6. CASE FindCurrent(w)
  <2>1. [worker[w] EXCEPT !.pc = "found",
                          !.current = IF Deployed # {} THEN Newest(Deployed) ELSE 0] \in Deploys
    <3>1. worker[w] \in Deploys
      BY <1>6, WorkerFields DEF FindCurrent
    <3>2. Deployed # {} => Newest(Deployed) \in Ids
      BY BoundAssumption, CurrentIsKnown DEF CurrentOrLatest, Deployed, Shape
    <3>3. QED
      BY <3>1, <3>2 DEF Deploys
  <2>2. QED
    BY <1>6, <2>1 DEF FindCurrent, Shape, data
<1>7. CASE MarkDeployed(w)
  BY <1>7, WorkerGoesOn DEF Shape, Busy, MarkDeployed, Goto, data
<1>8. CASE UpdateService(w)
  <2>1. [dep |-> worker[w].task.dep, settings |-> worker[w].settings] \in Specs
    BY <1>8, WorkerFields, TaskFields DEF UpdateService, Specs
  <2>2. worker' \in [Workers -> {Idle} \cup Builds \cup Deploys \cup Removals]
    BY <1>8, WorkerGoesOn DEF UpdateService, Goto, Busy
  <2>3. QED
    BY <1>8, <2>1, <2>2 DEF Shape, UpdateService, data
<1>9. CASE DeployFails(w)
  BY <1>9, WorkerGoesOn DEF Shape, Busy, DeployFails, Goto, data, Troubles
<1>10. CASE CommitDeploy(w)
  <2>1. /\ ledger' \in [1..Len(ledger) -> Deployments] /\ Len(ledger) \in Nat
    <3>1. ledger \in [1..Len(ledger) -> Deployments] /\ DOMAIN ledger = 1..Len(ledger)
          /\ Len(ledger) \in Nat
      BY DEF Shape
    <3>2. \A e \in DOMAIN ledger, s \in Statuses : [ledger[e] EXCEPT !.status = s] \in Deployments
      BY <3>1 DEF Deployments
    <3>3. \A e \in DOMAIN ledger :
            (IF e = worker[w].task.dep THEN "deployed"
             ELSE IF e = worker[w].current THEN "stalled" ELSE ledger[e].status) \in Statuses
      BY <3>1 DEF Deployments, Statuses
    <3>4. QED
      BY <1>10, <3>1, <3>2, <3>3 DEF CommitDeploy
  <2>2. QED
    BY <1>0, <1>10, <2>1, FunctionIsSeq DEF Shape, CommitDeploy, Finish
<1>11. CASE CommitFails(w)
  BY <1>0, <1>11 DEF Shape, CommitFails, Finish, data, Troubles
<1>12. CASE RemoveService(w)
  <2>1. <<>> \in Seq(Specs) /\ Len(<<>>) = 0
    OBVIOUS
  <2>2. service' \in Seq(Specs) /\ Len(service') <= 2
    <3>1. service' = <<>> \/ service' = service
      BY <1>12 DEF RemoveService
    <3>2. service \in Seq(Specs) /\ Len(service) <= 2
      BY DEF Shape
    <3>3. CASE service' = <<>>
      BY <2>1, <3>3
    <3>4. QED
      BY <3>1, <3>2, <3>3
  <2>3. QED
    BY <1>0, <1>12, <2>2 DEF Shape, RemoveService, Finish, data, Troubles
<1>13. QED
  BY <1>1, <1>2, <1>3, <1>4, <1>5, <1>6, <1>7, <1>8, <1>9, <1>10, <1>11, <1>12 DEF Work

(* So does the sweep of the queue. *)
LEMMA RedeliverShape ==
  ASSUME Shape, NEW w \in Workers, Redeliver(w)
  PROVE  Shape'
  BY TaskFields DEF Shape, Redeliver, data

(* So does a crash: what is put back are tasks. *)
LEMMA CrashShape ==
  ASSUME Shape, Crash
  PROVE  Shape'
<1>1. \A w \in Workers : worker[w] # Idle => worker[w].task \in Tasks
  BY DEF Shape, Builds, Deploys, Removals, Tasks
<1>2. QED
  BY <1>1 DEF Shape, Crash, data, Troubles

(* The shape of the variables is inductive on its own. *)
LEMMA NextShape ==
  ASSUME Shape, [Next]_vars
  PROVE  Shape'
<1>1. CASE Next
  BY <1>1, ResolveShape, EnqueueShape, CancelShape, StartShape, WorkShape, RedeliverShape, CrashShape
     DEF Next
<1>2. CASE UNCHANGED vars
  BY <1>2 DEF Shape, vars, data
<1>3. QED
  BY <1>1, <1>2

(* What a step of a worker leaves of it, and of the others. *)
LEMMA GotoFields ==
  ASSUME Shape, NEW w \in Workers, NEW p, Goto(w, p)
  PROVE  /\ \A v \in Workers : /\ worker'[v].task = worker[v].task
                               /\ worker'[v].settings = worker[v].settings
                               /\ worker'[v].current = worker[v].current
                               /\ v # w => worker'[v] = worker[v]
         /\ worker'[w].pc = p
<1>1. worker[w] \in {Idle} \cup Builds \cup Deploys \cup Removals
  BY DEF Shape
<1>2. worker[w] = Idle => "pc" \in DOMAIN worker[w]
  BY DEF Idle
<1>3. worker[w] \in Builds => "pc" \in DOMAIN worker[w]
  BY DEF Builds
<1>4. worker[w] \in Deploys => "pc" \in DOMAIN worker[w]
  BY DEF Deploys
<1>5. worker[w] \in Removals => "pc" \in DOMAIN worker[w]
  BY DEF Removals
<1>6. QED
  BY <1>1, <1>2, <1>3, <1>4, <1>5 DEF Goto, Shape

(* A worker that ends is idle, with no task. *)
LEMMA FinishFields ==
  ASSUME Shape, NEW w \in Workers, Finish(w)
  PROVE  /\ \A v \in Workers : v # w => worker'[v] = worker[v]
         /\ worker'[w] = Idle /\ Idle.pc = "idle" /\ Idle.task = NoTask /\ NoTask.kind = "none"
  BY DEF Finish, Shape, Idle, NoTask

(* A worker that takes a task was idle, and the task is no longer queued. *)
LEMMA TakeFields ==
  ASSUME Shape, NEW w \in Workers, NEW t, NEW p, Take(w, t, p)
  PROVE  /\ \A v \in Workers : v # w => worker'[v] = worker[v]
         /\ worker'[w].pc = p /\ worker'[w].task = t /\ worker'[w].settings = settings
         /\ worker[w].pc = "idle" /\ worker[w].task = NoTask /\ NoTask.kind = "none"
         /\ t \in queued /\ queued' = queued \ {t}
<1>1. worker'[w] = [Idle EXCEPT !.pc = p, !.task = t, !.settings = settings]
  BY DEF Take, Shape
<1>2. worker'[w].pc = p /\ worker'[w].task = t /\ worker'[w].settings = settings
  BY <1>1 DEF Idle
<1>3. worker[w].pc = "idle" /\ worker[w].task = NoTask /\ NoTask.kind = "none"
  BY DEF Take, Idle, NoTask
<1>4. QED
  BY <1>2, <1>3 DEF Take, Shape

(* A cancellation changes nothing but the flag. *)
LEMMA CancelFields ==
  ASSUME Shape, NEW d \in Ids, CancelDeployment(d)
  PROVE  \A v \in Workers : /\ worker'[v].pc = worker[v].pc
                            /\ worker'[v].task = worker[v].task
                            /\ worker'[v].settings = worker[v].settings
                            /\ worker'[v].current = worker[v].current
<1> SUFFICES ASSUME NEW v \in Workers
             PROVE  /\ worker'[v].pc = worker[v].pc
                    /\ worker'[v].task = worker[v].task
                    /\ worker'[v].settings = worker[v].settings
                    /\ worker'[v].current = worker[v].current
  OBVIOUS
<1>1. PICK c : worker'[v] = [worker[v] EXCEPT !.cancel = c]
  BY DEF CancelDeployment
<1>2. QED
  BY <1>1

(* FindCurrentDeployedDeployment changes only what the worker has found. *)
LEMMA FindFields ==
  ASSUME Shape, NEW w \in Workers, FindCurrent(w)
  PROVE  /\ \A v \in Workers : /\ worker'[v].task = worker[v].task
                               /\ worker'[v].settings = worker[v].settings
                               /\ v # w => worker'[v] = worker[v]
         /\ worker'[w].pc = "found"
         /\ Deployed # {} => worker'[w].current = Newest(Deployed)
<1>1. worker[w] \in Deploys
  BY WorkerFields DEF FindCurrent
<1>2. "pc" \in DOMAIN worker[w] /\ "current" \in DOMAIN worker[w]
  BY <1>1 DEF Deploys
<1>3. /\ worker'[w].task = worker[w].task /\ worker'[w].settings = worker[w].settings
      /\ worker'[w].pc = "found"
      /\ worker'[w].current = IF Deployed # {} THEN Newest(Deployed) ELSE 0
  <2> DEFINE c == IF Deployed # {} THEN Newest(Deployed) ELSE 0
  <2>1. worker'[w] = [worker[w] EXCEPT !.pc = "found", !.current = c]
    BY DEF FindCurrent, Shape
  <2> HIDE DEF c
  <2>2. /\ worker'[w].task = worker[w].task /\ worker'[w].settings = worker[w].settings
        /\ worker'[w].pc = "found" /\ worker'[w].current = c
    BY <1>2, <2>1
  <2>3. QED
    BY <2>2 DEF c
<1>4. \A v \in Workers : v # w => worker'[v] = worker[v]
  BY DEF FindCurrent, Shape
<1>5. QED
  BY <1>3, <1>4

(* After a crash nobody runs or asks. *)
LEMMA CrashFields ==
  ASSUME Shape, Crash
  PROVE  /\ \A v \in Workers : worker'[v].pc = "idle" /\ worker'[v].task = NoTask
         /\ \A r \in Resolvers : request'[r] = NoTask
         /\ NoTask.kind = "none"
  BY DEF Crash, Idle, NoTask

(* Trouble is never forgotten, and what is gone does not come back. *)
LEMMA TroubleGrows ==
  ASSUME [Next]_vars
  PROVE  trouble \subseteq trouble' /\ (app = "gone" => app' = "gone")
<1>1. ASSUME NEW r \in Resolvers, Resolve(r) PROVE trouble \subseteq trouble' /\ (app = "gone" => app' = "gone")
  BY <1>1 DEF Resolve, CreateApplication, UpdateApplication, RebuildApplication, redeployApp, SleepOrWake,
     DeleteApplication, ForceUpdate, data
<1>2. ASSUME NEW r \in Resolvers, Enqueue(r) PROVE trouble \subseteq trouble' /\ (app = "gone" => app' = "gone")
  BY <1>2 DEF Enqueue, data
<1>3. ASSUME NEW w \in Workers, Work(w) PROVE trouble \subseteq trouble' /\ (app = "gone" => app' = "gone")
  BY <1>3 DEF Work, BuildSucceeds, BuildFails, CommitBuilt, EnqueueDeploy, MarkFailed, FindCurrent,
     MarkDeployed, UpdateService, DeployFails, CommitDeploy, CommitFails, RemoveService, data
<1>4. ASSUME NEW w \in Workers, NEW t \in Tasks, Start(w, t) PROVE trouble \subseteq trouble' /\ (app = "gone" => app' = "gone")
  BY <1>4 DEF Start, StartBuild, StartDeploy, HardDelete, SkipTask, data
<1>5. QED
  BY <1>1, <1>2, <1>3, <1>4 DEF Next, CancelDeployment, Redeliver, Crash, vars, data

-----------------------------------------------------------------------------
(* What one step changes. *)

(* What a resolver leaves of the ledger, and asks for. *)
LEMMA ResolveFields ==
  ASSUME Shape, NEW r \in Resolvers, Resolve(r)
  PROVE  /\ UNCHANGED <<service, queued, worker, trouble>>
         /\ \A d \in DOMAIN ledger : d \in DOMAIN ledger' /\ ledger'[d] = ledger[d]
         /\ \A d \in DOMAIN ledger' : d \in DOMAIN ledger \/ ledger'[d].status = "pending"
         /\ \A q \in Resolvers : q # r => request'[q] = request[q]
         /\ request'[r].kind \in {"build", "deploy"} => request'[r].dep \in DOMAIN ledger'
         /\ \/ request'[r].kind \in {"build", "deploy"}
            \/ settings' = settings /\ app # "absent" /\ request[r].kind = "none"
<1> DEFINE Kept == /\ \A d \in DOMAIN ledger : d \in DOMAIN ledger' /\ ledger'[d] = ledger[d]
                   /\ \A d \in DOMAIN ledger' : d \in DOMAIN ledger \/ ledger'[d].status = "pending"
           Asked(kind, d) == /\ \A q \in Resolvers : q # r => request'[q] = request[q]
                             /\ request'[r].kind = kind /\ request'[r].dep = d
<1>0. /\ DOMAIN ledger = 1..Len(ledger) /\ Len(ledger) \in Nat /\ ledger \in Seq(Deployments)
      /\ NoTask.kind = "none"
  BY DEF Shape, NoTask
<1>a. ASSUME NEW src, ledger' = Append(ledger, Pending(src)) 
      PROVE  Kept /\ Len(ledger) + 1 \in DOMAIN ledger'
  BY <1>0, <1>a DEF Pending
<1>b. ASSUME NEW kind, NEW d, Ask(r, kind, d)
      PROVE  Asked(kind, d)
  BY <1>b DEF Ask, Shape
<1>1. ASSUME NEW src \in Sources, CreateApplication(r, src)
      PROVE  Kept /\ Asked("build", 1) /\ 1 \in DOMAIN ledger' /\ UNCHANGED <<service, queued, worker, trouble>>
  <2>1. ledger = <<>>
    BY <1>1 DEF CreateApplication, Shape
  <2>2. ledger' = <<Pending(src)>>
    BY <1>1 DEF CreateApplication
  <2>3. Kept /\ 1 \in DOMAIN ledger'
    BY <2>1, <2>2 DEF Pending
  <2>4. QED
    BY <1>1, <1>b, <2>3 DEF CreateApplication
<1>2. ASSUME NEW src \in Sources, NEW reload \in BOOLEAN, UpdateApplication(r, src, reload)
      PROVE  /\ Kept /\ UNCHANGED <<service, queued, worker, trouble>>
             /\ \/ Asked("build", Len(ledger) + 1) /\ Len(ledger) + 1 \in DOMAIN ledger'
                \/ Asked("deploy", CurrentOrLatest) /\ CurrentOrLatest \in DOMAIN ledger'
                \/ settings' = settings /\ request' = request /\ app # "absent" /\ request[r].kind = "none"
  <2>1. CurrentOrLatest \in DOMAIN ledger
    BY <1>2, CurrentIsKnown DEF UpdateApplication, Shape
  <2>2. CASE ~SameParameters(src, ledger[CurrentOrLatest].source)
    BY <1>2, <1>a, <1>b, <2>2 DEF UpdateApplication
  <2>3. CASE SameParameters(src, ledger[CurrentOrLatest].source)
    <3>1. ledger' = ledger
      BY <1>2, <2>3 DEF UpdateApplication
    <3>2. QED
      BY <1>0, <1>2, <1>b, <2>1, <2>3, <3>1 DEF UpdateApplication
  <2>4. QED
    BY <2>2, <2>3
<1>3. ASSUME RebuildApplication(r)
      PROVE  Kept /\ Asked("build", Len(ledger) + 1) /\ Len(ledger) + 1 \in DOMAIN ledger' /\ UNCHANGED <<service, queued, worker, trouble>>
  BY <1>3, <1>a, <1>b DEF RebuildApplication
<1>4. ASSUME SleepOrWake(r)
      PROVE  Kept /\ Asked("deploy", Len(ledger)) /\ Len(ledger) \in DOMAIN ledger' /\ UNCHANGED <<service, queued, worker, trouble>>
  BY <1>4, <1>b DEF SleepOrWake, Shape
<1>5. ASSUME DeleteApplication(r)
      PROVE  Kept /\ Asked("delete", 0) /\ UNCHANGED <<service, queued, worker, trouble>> /\ settings' = settings
             /\ app # "absent" /\ request[r].kind = "none"
  BY <1>5, <1>b, <1>0 DEF DeleteApplication
<1>6. ASSUME NEW d \in Ids, ForceUpdate(r, d)
      PROVE  Kept /\ Asked("deploy", d) /\ d \in DOMAIN ledger' /\ UNCHANGED <<service, queued, worker, trouble>>
  BY <1>6, <1>b DEF ForceUpdate, Deployed, data
<1>7. QED
  BY <1>1, <1>2, <1>3, <1>4, <1>5, <1>6 DEF Resolve, redeployApp

(* UpdateStatus changes one status. *)
LEMMA StatusFields ==
  ASSUME Shape, NEW d, NEW s, ledger' = Status(d, s)
  PROVE  /\ DOMAIN ledger' = DOMAIN ledger
         /\ \A e \in DOMAIN ledger : /\ e # d => ledger'[e] = ledger[e]
                                     /\ e = d => ledger'[e].status = s
<1>1. DOMAIN ledger = 1..Len(ledger) /\ ledger \in [1..Len(ledger) -> Deployments]
  BY DEF Shape
<1>2. \A e \in DOMAIN ledger : "status" \in DOMAIN ledger[e]
  BY <1>1 DEF Deployments
<1>3. QED
  BY <1>1, <1>2 DEF Status, Exists

(* The commit of a deploy changes two, its own last. *)
LEMMA CommitFields ==
  ASSUME Shape, NEW w \in Workers, CommitDeploy(w)
  PROVE  /\ DOMAIN ledger' = DOMAIN ledger
         /\ \A e \in DOMAIN ledger :
              ledger'[e].status = IF e = worker[w].task.dep THEN "deployed"
                                  ELSE IF e = worker[w].current THEN "stalled"
                                  ELSE ledger[e].status
<1>1. DOMAIN ledger = 1..Len(ledger) /\ ledger \in [1..Len(ledger) -> Deployments]
  BY DEF Shape
<1>2. \A e \in DOMAIN ledger : "status" \in DOMAIN ledger[e]
  BY <1>1 DEF Deployments
<1>3. QED
  BY <1>1, <1>2 DEF CommitDeploy

(* Deployments go with their application only. *)
LEMMA DomainGrows ==
  ASSUME Shape, [Next]_vars, app' # "gone"
  PROVE  DOMAIN ledger \subseteq DOMAIN ledger'
<1>1. ASSUME NEW r \in Resolvers, Resolve(r) PROVE DOMAIN ledger \subseteq DOMAIN ledger'
  BY <1>1, ResolveFields
<1>2. ASSUME NEW w \in Workers, Work(w) PROVE DOMAIN ledger \subseteq DOMAIN ledger'
  <2>1. CASE CommitBuilt(w)
    BY <2>1, StatusFields DEF CommitBuilt
  <2>2. CASE MarkFailed(w)
    BY <2>2, StatusFields DEF MarkFailed
  <2>3. CASE CommitDeploy(w)
    BY <2>3, CommitFields
  <2>4. QED
    BY <1>2, <2>1, <2>2, <2>3 DEF Work, BuildSucceeds, BuildFails, EnqueueDeploy, FindCurrent,
       MarkDeployed, UpdateService, DeployFails, CommitFails, RemoveService, data
<1>3. ASSUME NEW w \in Workers, NEW t \in Tasks, Start(w, t) PROVE DOMAIN ledger \subseteq DOMAIN ledger'
  BY <1>3 DEF Start, StartBuild, StartDeploy, HardDelete, SkipTask, data
<1>4. QED
  BY <1>1, <1>2, <1>3 DEF Next, Enqueue, CancelDeployment, Redeliver, Crash, vars, data

(* What a worker does next it does to its own task. *)
LEMMA WorkFields ==
  ASSUME Shape, NEW w \in Workers, Work(w)
  PROVE  /\ \A v \in Workers : v # w => worker'[v] = worker[v]
         /\ worker'[w].task \in {worker[w].task, NoTask}
         /\ NoTask.kind = "none"
         /\ worker'[w].pc # "removing"
         /\ app' = app /\ settings' = settings /\ request' = request
<1>1. CASE FindCurrent(w)
  BY <1>1, FindFields, FinishFields DEF FindCurrent, data, NoTask
<1>2. ASSUME NEW p, p # "removing", Goto(w, p)
      PROVE  /\ \A v \in Workers : v # w => worker'[v] = worker[v]
             /\ worker'[w].task = worker[w].task
             /\ worker'[w].pc # "removing"
  BY <1>2, GotoFields
<1>3. ASSUME Finish(w)
      PROVE  /\ \A v \in Workers : v # w => worker'[v] = worker[v]
             /\ worker'[w].task = NoTask
             /\ worker'[w].pc # "removing"
  BY <1>3, FinishFields
<1>4. QED
  BY <1>1, <1>2, <1>3 DEF Work, BuildSucceeds, BuildFails, CommitBuilt, EnqueueDeploy, MarkFailed,
     MarkDeployed, UpdateService, DeployFails, CommitDeploy, CommitFails, RemoveService, data, NoTask

-----------------------------------------------------------------------------
(* The parts of the invariant, one after the other. *)

(* Only a request about an existing deployment is enqueued, and deployments  *)
(* stay.                                                                     *)
LEMMA TasksStayKnown ==
  ASSUME Shape, TasksAreKnown, [Next]_vars
  PROVE  TasksAreKnown'
<1> DEFINE Fine(t) == t.kind \in {"build", "deploy"} => t.dep \in DOMAIN ledger'
<1> SUFFICES ASSUME app' # "gone"
             PROVE  /\ \A t \in queued' : Fine(t)
                    /\ \A r \in Resolvers : Fine(request'[r])
                    /\ \A w \in Workers : Fine(worker'[w].task) /\ worker'[w].pc # "removing"
  BY DEF TasksAreKnown, Known, Exists
<1>0. /\ app # "gone"
      /\ \A t \in queued : Fine(t)
      /\ \A r \in Resolvers : Fine(request[r])
      /\ \A w \in Workers : Fine(worker[w].task) /\ worker[w].pc # "removing"
  BY DomainGrows, TroubleGrows DEF TasksAreKnown, Known, Exists
<1>a. Fine(NoTask) /\ Fine([kind |-> "delete", dep |-> 0])
  BY DEF Known, NoTask
<1>1. ASSUME NEW r \in Resolvers, Resolve(r)
      PROVE  \A q \in Resolvers : Fine(request'[q])
  BY <1>0, <1>1, ResolveFields DEF Known, Exists
<1>2. ASSUME NEW r \in Resolvers, Enqueue(r)
      PROVE  (\A t \in queued' : Fine(t)) /\ \A q \in Resolvers : Fine(request'[q])
  BY <1>0, <1>a, <1>2 DEF Enqueue, Shape
<1>3. ASSUME NEW d \in Ids, CancelDeployment(d)
      PROVE  \A w \in Workers : Fine(worker'[w].task) /\ worker'[w].pc # "removing"
  BY <1>0, <1>3, CancelFields
<1>4. ASSUME NEW w \in Workers, NEW t \in Tasks, Start(w, t)
      PROVE  /\ \A u \in queued' : Fine(u)
             /\ \A v \in Workers : Fine(worker'[v].task) /\ worker'[v].pc # "removing"
  <2>1. ASSUME NEW u, NEW p, p # "removing", Take(w, u, p)
        PROVE  /\ \A v \in Workers : Fine(worker'[v].task) /\ worker'[v].pc # "removing"
               /\ queued' \subseteq queued
    BY <1>0, <2>1, TakeFields
  <2>2. ~HardDelete(w)
    BY DEF HardDelete
  <2>3. CASE StartBuild(w, t.dep)
    BY <1>0, <2>1, <2>3 DEF StartBuild
  <2>4. CASE StartDeploy(w, t.dep)
    BY <1>0, <2>1, <2>4 DEF StartDeploy
  <2>5. CASE SkipTask(w, t)
    BY <1>0, <2>5 DEF SkipTask
  <2>6. QED
    BY <1>4, <2>2, <2>3, <2>4, <2>5 DEF Start
<1>5. ASSUME NEW w \in Workers, Work(w)
      PROVE  /\ \A u \in queued' : Fine(u)
             /\ \A v \in Workers : Fine(worker'[v].task) /\ worker'[v].pc # "removing"
  <2>1. \A v \in Workers : Fine(worker'[v].task) /\ worker'[v].pc # "removing"
    BY <1>0, <1>a, <1>5, WorkFields
  <2>2. CASE EnqueueDeploy(w)
    <3>1. worker[w].task.kind = "build"
      BY <2>2, WorkerFields, TaskFields DEF EnqueueDeploy
    <3>2. Fine([kind |-> "deploy", dep |-> worker[w].task.dep])
      BY <1>0, <3>1 DEF Known
    <3>3. QED
      BY <1>0, <2>1, <2>2, <3>2 DEF EnqueueDeploy
  <2>3. QED
    BY <1>0, <1>5, <2>1, <2>2 DEF Work, BuildSucceeds, BuildFails, CommitBuilt, MarkFailed,
       FindCurrent, MarkDeployed, UpdateService, DeployFails, CommitDeploy, CommitFails,
       RemoveService, data
<1>6. ASSUME NEW w \in Workers, Redeliver(w)
      PROVE  \A u \in queued' : Fine(u)
  BY <1>0, <1>6 DEF Redeliver
<1>7. CASE Crash
  BY <1>0, <1>a, <1>7, CrashFields DEF Crash
<1>8. CASE UNCHANGED vars
  BY <1>0, <1>8 DEF vars, data
<1>9. CASE Next
  <2>1. ASSUME NEW r \in Resolvers, Resolve(r) PROVE UNCHANGED <<queued, worker>>
    BY <2>1, ResolveFields
  <2>2. ASSUME NEW r \in Resolvers, Enqueue(r) PROVE UNCHANGED worker
    BY <2>2 DEF Enqueue
  <2>3. ASSUME NEW d \in Ids, CancelDeployment(d) PROVE UNCHANGED <<queued, request>>
    BY <2>3 DEF CancelDeployment
  <2>4. ASSUME NEW w \in Workers, NEW t \in Tasks, Start(w, t) PROVE UNCHANGED request
    BY <2>4 DEF Start, StartBuild, StartDeploy, HardDelete, SkipTask
  <2>5. ASSUME NEW w \in Workers, Work(w) PROVE UNCHANGED request
    BY <2>5, WorkFields
  <2>6. ASSUME NEW w \in Workers, Redeliver(w) PROVE UNCHANGED <<worker, request>>
    BY <2>6 DEF Redeliver
  <2>7. QED
    BY <1>0, <1>1, <1>2, <1>3, <1>4, <1>5, <1>6, <1>7, <1>9,
       <2>1, <2>2, <2>3, <2>4, <2>5, <2>6 DEF Next
<1>10. QED
  BY <1>8, <1>9

(* What happens to the workers' tasks in a step other than a start. *)
LEMMA TasksOfWorkers ==
  ASSUME Shape, [Next]_vars,
         \A w \in Workers, t \in Tasks : ~Start(w, t)
  PROVE  \A v \in Workers : worker'[v].task \in {worker[v].task, NoTask}
<1>1. ASSUME NEW w \in Workers, Work(w) PROVE \A v \in Workers : worker'[v].task \in {worker[v].task, NoTask}
  BY <1>1, WorkFields
<1>2. ASSUME NEW r \in Resolvers, Resolve(r) PROVE worker' = worker
  BY <1>2, ResolveFields
<1>3. QED
  BY <1>1, <1>2, CancelFields, CrashFields DEF Next, Enqueue, Redeliver, vars

(* A deploy that starts next to another, or next to a deletion, is an overlap. *)
LEMMA StaysAlone ==
  ASSUME Shape, TasksAreKnown, Alone, [Next]_vars
  PROVE  Alone'
<1> SUFFICES ASSUME "overlap" \notin trouble'
             PROVE  \A v \in Workers : worker'[v].task.kind = "deploy" =>
                      /\ app' # "gone"
                      /\ \A w \in Workers : worker'[w].task.kind \in {"deploy", "delete"} => v = w
  BY DEF Alone
<1>0. \A v \in Workers : worker[v].task.kind = "deploy" =>
        /\ app # "gone"
        /\ \A w \in Workers : worker[w].task.kind \in {"deploy", "delete"} => v = w
  BY TroubleGrows DEF Alone
<1>1. CASE \A w \in Workers, t \in Tasks : ~Start(w, t)
  <2>1. \A v \in Workers : worker'[v].task.kind \in {"deploy", "delete"}
                             => worker'[v].task.kind = worker[v].task.kind
    BY <1>1, TasksOfWorkers DEF NoTask
  <2>2. app' = "gone" => app = "gone"
    <3>1. ASSUME NEW r \in Resolvers, Resolve(r) PROVE app' # "gone" \/ app' = app
      BY <3>1 DEF Resolve, CreateApplication, UpdateApplication, RebuildApplication, redeployApp,
         SleepOrWake, DeleteApplication, ForceUpdate, data
    <3>2. QED
      BY <1>1, <3>1, WorkFields DEF Next, Enqueue, CancelDeployment, Redeliver, Crash, vars, data
  <2>3. QED
    BY <1>0, <2>1, <2>2
<1>2. ASSUME NEW w \in Workers, NEW t \in Tasks, Start(w, t)
      PROVE  \A v \in Workers : worker'[v].task.kind = "deploy" =>
               /\ app' # "gone"
               /\ \A u \in Workers : worker'[u].task.kind \in {"deploy", "delete"} => v = u
  <2>1. CASE StartBuild(w, t.dep)
    <3>1. \A v \in Workers : worker'[v].task.kind \in {"deploy", "delete"}
                             => worker'[v].task.kind = worker[v].task.kind
      BY <2>1, TakeFields DEF StartBuild
    <3>2. QED
      BY <1>0, <2>1, <3>1 DEF StartBuild, data
  <2>2. CASE StartDeploy(w, t.dep)
    <3>1. Running("deploy") \cup Running("delete") = {}
      BY <2>2 DEF StartDeploy
    <3>2. \A v \in Workers : worker[v].task.kind \notin {"deploy", "delete"}
      BY <3>1 DEF Running
    <3>3. \A v \in Workers : v # w => worker'[v] = worker[v]
      BY <2>2, TakeFields DEF StartDeploy
    <3>4. app' # "gone"
      BY <2>2 DEF StartDeploy, Exists, Shape, data
    <3>5. QED
      BY <3>2, <3>3, <3>4
  <2>3. CASE HardDelete(w)
    <3>1. Running("deploy") = {}
      BY <2>3 DEF HardDelete
    <3>2. \A v \in Workers : worker'[v].task.kind # "deploy"
      BY <2>3, <3>1, TakeFields DEF HardDelete, Running
    <3>3. QED
      BY <3>2
  <2>4. CASE SkipTask(w, t)
    BY <1>0, <2>4 DEF SkipTask, data
  <2>5. QED
    BY <1>2, <2>1, <2>2, <2>3, <2>4 DEF Start
<1>3. QED
  BY <1>1, <1>2

(* Only the commit of a deploy marks a deployment deployed. *)
LEMMA DeployedStep ==
  ASSUME Shape, [Next]_vars
  PROVE  \/ Deployed' \subseteq Deployed
         \/ \E w \in Workers : /\ CommitDeploy(w)
                               /\ \A e \in Deployed' : \/ e = worker[w].task.dep
                                                       \/ e \in Deployed /\ e # worker[w].current
<1>1. ASSUME NEW r \in Resolvers, Resolve(r) PROVE Deployed' \subseteq Deployed
  BY <1>1, ResolveFields DEF Deployed
<1>2. ASSUME NEW w \in Workers, Work(w)
      PROVE  \/ Deployed' \subseteq Deployed
             \/ /\ CommitDeploy(w)
                /\ \A e \in Deployed' : \/ e = worker[w].task.dep
                                        \/ e \in Deployed /\ e # worker[w].current
  <2>1. CASE CommitBuilt(w)
    BY <2>1, StatusFields DEF CommitBuilt, Deployed
  <2>2. CASE MarkFailed(w)
    BY <2>2, StatusFields DEF MarkFailed, Deployed
  <2>3. CASE CommitDeploy(w)
    BY <2>3, CommitFields DEF Deployed
  <2>4. QED
    BY <1>2, <2>1, <2>2, <2>3 DEF Work, BuildSucceeds, BuildFails, EnqueueDeploy, FindCurrent,
       MarkDeployed, UpdateService, DeployFails, CommitFails, RemoveService, data, Deployed
<1>3. ASSUME NEW w \in Workers, NEW t \in Tasks, Start(w, t) PROVE Deployed' \subseteq Deployed
  BY <1>3 DEF Start, StartBuild, StartDeploy, HardDelete, SkipTask, data, Deployed
<1>4. QED
  BY <1>1, <1>2, <1>3 DEF Next, Enqueue, CancelDeployment, Redeliver, Crash, vars, data, Deployed

(* The phases of a deploy are its worker's own. *)
LEMMA PhasesOfWorkers ==
  ASSUME Shape, [Next]_vars, NEW v \in Workers, worker'[v].pc \in Found
  PROVE  \/ FindCurrent(v)
         \/ /\ worker[v].pc \in Found /\ worker'[v].current = worker[v].current
            /\ worker'[v].task = worker[v].task
            /\ \/ worker'[v].pc = worker[v].pc
               \/ MarkDeployed(v) \/ UpdateService(v)
<1> DEFINE Same == worker[v].pc \in Found /\ worker'[v].current = worker[v].current
                   /\ worker'[v].task = worker[v].task
<1> DEFINE Goal == FindCurrent(v) \/ (Same /\ (worker'[v].pc = worker[v].pc \/ MarkDeployed(v) \/ UpdateService(v)))
<1>0. "idle" \notin Found /\ "building" \notin Found /\ "failing" \notin Found /\ "deploying" \notin Found
      /\ "removing" \notin Found /\ "built" \notin Found /\ "enqueue" \notin Found
      /\ "found" \in Found /\ "marked" \in Found
  BY DEF Found
<1>1. worker'[v] = worker[v] => Goal
  OBVIOUS
<1>2. ASSUME NEW r \in Resolvers, Resolve(r) PROVE worker' = worker
  BY <1>2, ResolveFields
<1>3. ASSUME NEW d \in Ids, CancelDeployment(d) PROVE Goal
  BY <1>3, CancelFields
<1>4. ASSUME NEW w \in Workers, NEW t \in Tasks, Start(w, t) PROVE (v # w /\ worker'[v] = worker[v]) \/ worker' = worker
  <2>1. ASSUME NEW u, NEW p, p \notin Found, Take(w, u, p)
        PROVE  v # w /\ worker'[v] = worker[v]
    BY <2>1, TakeFields
  <2>2. QED
    BY <1>0, <1>4, <2>1 DEF Start, StartBuild, StartDeploy, HardDelete, SkipTask
<1>5. ASSUME NEW w \in Workers, Work(w) PROVE Goal
  <2>1. CASE v # w
    BY <1>5, <2>1, WorkFields
  <2>2. CASE v = w
    <3>1. ASSUME NEW p, p \notin Found, Goto(w, p) PROVE FALSE
      BY <2>2, <3>1, GotoFields
    <3>2. ASSUME Finish(w) PROVE FALSE
      BY <1>0, <2>2, <3>2, FinishFields
    <3>3. CASE MarkDeployed(w)
      BY <1>0, <2>2, <3>3, GotoFields DEF MarkDeployed
    <3>4. CASE UpdateService(w)
      BY <1>0, <2>2, <3>4, GotoFields DEF UpdateService
    <3>5. QED
      BY <1>0, <1>5, <2>2, <3>1, <3>2, <3>3, <3>4 DEF Work, BuildSucceeds, BuildFails, CommitBuilt, EnqueueDeploy,
       MarkFailed, DeployFails, CommitDeploy, CommitFails, RemoveService
  <2>3. QED
    BY <2>1, <2>2
<1>6. CASE Crash
  BY <1>0, <1>6, CrashFields
<1>7. QED
  BY <1>1, <1>2, <1>3, <1>4, <1>5, <1>6 DEF Next, Enqueue, Redeliver, vars

(* What FindCurrent finds is all there is. *)
LEMMA StaysFound ==
  ASSUME Shape, Alone, FoundAll, AtMostOne, [Next]_vars
  PROVE  FoundAll' /\ AtMostOne'
<1> SUFFICES ASSUME "overlap" \notin trouble'
             PROVE  /\ \A v \in Workers : worker'[v].pc \in Found => Deployed' \subseteq {worker'[v].current}
                    /\ \A d, e \in Deployed' : d = e
  BY DEF FoundAll, AtMostOne, Found
<1>0. /\ \A v \in Workers : worker[v].pc \in Found => Deployed \subseteq {worker[v].current}
      /\ \A d, e \in Deployed : d = e
      /\ \A v, w \in Workers : worker[v].task.kind = "deploy" /\ worker[w].task.kind = "deploy" => v = w
  BY TroubleGrows DEF FoundAll, AtMostOne, Alone, Found
<1>a. \A v \in Workers : worker[v].pc \in Found \cup {"deploying"} => worker[v].task.kind = "deploy"
  BY WorkerFields, TaskFields DEF Found
<1>1. CASE Deployed' \subseteq Deployed
  <2>1. ASSUME NEW v \in Workers, worker'[v].pc \in Found
        PROVE  Deployed' \subseteq {worker'[v].current}
    <3>1. CASE FindCurrent(v)
      <4>1. Deployed # {} => Newest(Deployed) \in Deployed
        <5>1. Deployed \in SUBSET (1..Len(ledger)) /\ Len(ledger) \in Nat
          BY DEF Deployed, Shape
        <5>2. QED
          BY <5>1, NewestIsMember
      <4>2. QED
        BY <1>0, <1>1, <3>1, <4>1, FindFields
    <3>2. CASE worker[v].pc \in Found /\ worker'[v].current = worker[v].current
      BY <1>0, <1>1, <3>2
    <3>3. QED
      BY <2>1, <3>1, <3>2, PhasesOfWorkers
  <2>2. QED
    BY <1>0, <1>1, <2>1
<1>2. ASSUME NEW w \in Workers, CommitDeploy(w),
             \A e \in Deployed' : \/ e = worker[w].task.dep
                                  \/ e \in Deployed /\ e # worker[w].current
      PROVE  /\ \A v \in Workers : worker'[v].pc \in Found => Deployed' \subseteq {worker'[v].current}
             /\ \A d, e \in Deployed' : d = e
  <2>1. worker[w].pc \in Found
    BY <1>2 DEF CommitDeploy, Found
  <2>2. Deployed' \subseteq {worker[w].task.dep}
    BY <1>0, <1>2, <2>1
  <2>3. ASSUME NEW v \in Workers, worker'[v].pc \in Found PROVE FALSE
    <3>1. v # w /\ worker'[v] = worker[v]
      BY <1>2, <2>3, FinishFields DEF CommitDeploy, Found
    <3>2. QED
      BY <1>0, <1>a, <2>1, <2>3, <3>1
  <2>4. QED
    BY <2>2, <2>3
<1>3. QED
  BY <1>1, <1>2, DeployedStep

(* Three steps touch the service. *)
LEMMA ServiceStep ==
  ASSUME Shape, [Next]_vars
  PROVE  \/ service' = service
         \/ \E w \in Workers : UpdateService(w) \/ CommitFails(w) \/ RemoveService(w)
<1>1. ASSUME NEW r \in Resolvers, Resolve(r) PROVE service' = service
  BY <1>1, ResolveFields
<1>2. QED
  BY <1>1 DEF Next, Work, BuildSucceeds, BuildFails, CommitBuilt, EnqueueDeploy, MarkFailed, FindCurrent,
     MarkDeployed, DeployFails, CommitDeploy, Start, StartBuild, StartDeploy, HardDelete, SkipTask,
     Enqueue, CancelDeployment, Redeliver, Crash, vars, data

(* Between its docker call and its commit nobody else touches the service. *)
LEMMA StaysServing ==
  ASSUME Shape, Alone, Serving, [Next]_vars
  PROVE  Serving'
<1> SUFFICES ASSUME "overlap" \notin trouble', NEW v \in Workers, worker'[v].pc = "served"
             PROVE  service' # <<>> /\ service'[1].dep = worker'[v].task.dep
  BY DEF Serving
<1>0. /\ \A w \in Workers : worker[w].pc = "served" => service # <<>> /\ service[1].dep = worker[w].task.dep
      /\ \A u, w \in Workers : worker[u].task.kind = "deploy" /\ worker[w].task.kind \in {"deploy", "delete"} => u = w
  BY TroubleGrows DEF Serving, Alone
<1>a. \A w \in Workers : /\ worker[w].pc \in {"deploying", "found", "marked", "served"} => worker[w].task.kind = "deploy"
                         /\ worker[w].pc = "removing" => worker[w].task.kind = "delete"
  BY WorkerFields, TaskFields
<1>b. ASSUME NEW w \in Workers, UpdateService(w)
      PROVE  service' # <<>> /\ service'[1].dep = worker[w].task.dep /\ worker'[w].task = worker[w].task
  BY <1>b, GotoFields DEF UpdateService
<1>1. CASE UpdateService(v)
  BY <1>1, <1>b
<1>2. CASE worker[v].pc = "served" /\ worker'[v].task = worker[v].task
  <2>1. CASE service' = service
    BY <1>0, <1>2, <2>1
  <2>2. ASSUME NEW w \in Workers, UpdateService(w) \/ CommitFails(w) \/ RemoveService(w)
        PROVE  FALSE
    <3>1. w = v
      BY <1>0, <1>2, <1>a, <2>2 DEF UpdateService, CommitFails, RemoveService
    <3>2. CASE UpdateService(w)
      BY <1>2, <3>1, <3>2 DEF UpdateService
    <3>3. CASE RemoveService(w)
      BY <1>2, <3>1, <3>3 DEF RemoveService
    <3>4. CASE CommitFails(w)
      BY <3>1, <3>4, FinishFields DEF CommitFails
    <3>5. QED
      BY <2>2, <3>2, <3>3, <3>4
  <2>3. QED
    BY <2>1, <2>2, ServiceStep
<1>3. CASE FindCurrent(v)
  BY <1>3, FindFields
<1>4. CASE MarkDeployed(v)
  BY <1>4, GotoFields DEF MarkDeployed
<1>5. QED
  BY <1>1, <1>2, <1>3, <1>4, PhasesOfWorkers DEF Found

(* A worker that fails, or has failed: what it took was about nothing any more. *)
LEMMA StillNothingFails ==
  ASSUME Shape, TasksAreKnown, NothingFails, [Next]_vars
  PROVE  NothingFails'
<1> SUFFICES ASSUME trouble' = {}
             PROVE  /\ \A d \in DOMAIN ledger' : ledger'[d].status # "failed"
                    /\ \A w \in Workers : worker'[w].pc = "failing" => app' = "gone"
  BY DEF NothingFails
<1> DEFINE Unfailed == \A d \in DOMAIN ledger' : ledger'[d].status # "failed"
           Failing  == \A v \in Workers : worker'[v].pc = "failing" => app' = "gone"
<1>0. /\ trouble = {}
      /\ \A d \in DOMAIN ledger : ledger[d].status # "failed"
      /\ \A w \in Workers : worker[w].pc = "failing" => app' = "gone"
  BY TroubleGrows DEF NothingFails
<1>1. ASSUME NEW r \in Resolvers, Resolve(r) PROVE Unfailed /\ Failing
  <2>1. Unfailed
    BY <1>0, <1>1, ResolveFields
  <2>2. QED
    BY <1>0, <1>1, <2>1, ResolveFields
<1>2. ASSUME NEW d \in Ids, CancelDeployment(d) PROVE Unfailed /\ Failing
  BY <1>0, <1>2, CancelFields DEF CancelDeployment, data
<1>3. ASSUME NEW w \in Workers, NEW t \in Tasks, Start(w, t) PROVE Unfailed /\ Failing
  <2>1. Unfailed
    BY <1>0, <1>3 DEF Start, StartBuild, StartDeploy, HardDelete, SkipTask, data
  <2>2. ASSUME NEW u, NEW p, p # "failing", Take(w, u, p) PROVE Failing
    BY <1>0, <2>2, TakeFields
  <2>3. CASE StartBuild(w, t.dep)
    <3>1. CASE Exists(t.dep)
      BY <1>0, <2>1, <2>2, <2>3, <3>1 DEF StartBuild, Exists
    <3>2. CASE ~Exists(t.dep)
      <4>1. Take(w, [kind |-> "build", dep |-> t.dep], "failing")
        BY <2>3, <3>2 DEF StartBuild
      <4>2. [kind |-> "build", dep |-> t.dep] \in queued
        BY <4>1 DEF Take
      <4>3. app = "gone"
        BY <3>2, <4>2 DEF TasksAreKnown, Known
      <4>4. app' = "gone"
        BY <4>3, TroubleGrows
      <4>5. QED
        BY <2>1, <4>4
    <3>3. QED
      BY <3>1, <3>2
  <2>4. CASE StartDeploy(w, t.dep)
    BY <2>1, <2>2, <2>4 DEF StartDeploy
  <2>5. CASE HardDelete(w)
    BY <2>1, <2>2, <2>5 DEF HardDelete
  <2>6. CASE SkipTask(w, t)
    BY <1>0, <2>1, <2>6 DEF SkipTask, data
  <2>7. Failing
    BY <1>3, <2>3, <2>4, <2>5, <2>6 DEF Start
  <2>8. QED
    BY <2>1, <2>7
<1>4. ASSUME NEW w \in Workers, Work(w) PROVE Unfailed /\ Failing
  <2>1. Failing
    <3>1. ASSUME NEW p, p # "failing", Goto(w, p) PROVE Failing
      BY <1>0, <3>1, GotoFields
    <3>2. CASE Finish(w)
      BY <1>0, <3>2, FinishFields
    <3>3. CASE FindCurrent(w)
      BY <1>0, <3>3, FindFields
    <3>4. ASSUME NEW x, trouble' = trouble \cup {x} PROVE FALSE
      BY <3>4
    <3>5. QED
      BY <1>4, <3>1, <3>2, <3>3, <3>4 DEF Work, BuildSucceeds, BuildFails, CommitBuilt, EnqueueDeploy,
         MarkFailed, MarkDeployed, UpdateService, DeployFails, CommitDeploy, CommitFails, RemoveService
  <2>2. CASE CommitBuilt(w)
    BY <1>0, <2>1, <2>2, StatusFields DEF CommitBuilt
  <2>3. CASE MarkFailed(w)
    <3>1. app' = "gone"
      BY <1>0, <2>3 DEF MarkFailed
    <3>2. ledger' = <<>>
      BY <3>1, NextShape DEF Shape
    <3>3. QED
      BY <2>1, <3>2
  <2>4. CASE CommitDeploy(w)
    BY <1>0, <2>1, <2>4, CommitFields
  <2>5. QED
    BY <1>0, <1>4, <2>1, <2>2, <2>3, <2>4 DEF Work, BuildSucceeds, BuildFails, EnqueueDeploy,
       FindCurrent, MarkDeployed, UpdateService, DeployFails, CommitFails, RemoveService, data
<1>5. CASE Crash
  BY <1>0, <1>5, CrashFields DEF Crash, data
<1>6. QED
  BY <1>0, <1>1, <1>2, <1>3, <1>4, <1>5 DEF Next, Enqueue, Redeliver, vars, data

(* A removal that has begun goes on, to its end or to a crash. *)
LEMMA RemovalGoesOn ==
  ASSUME Shape, [Next]_vars, NEW v \in Workers, worker[v].pc = "removing"
  PROVE  worker'[v].pc = "removing" \/ RemoveService(v) \/ Crash
<1>0. worker[v].pc # "idle"
  OBVIOUS
<1>1. ASSUME NEW r \in Resolvers, Resolve(r) PROVE worker' = worker
  BY <1>1, ResolveFields
<1>2. ASSUME NEW d \in Ids, CancelDeployment(d) PROVE worker'[v].pc = worker[v].pc
  BY <1>2, CancelFields
<1>3. ASSUME NEW w \in Workers, NEW t \in Tasks, Start(w, t) PROVE worker'[v] = worker[v]
  BY <1>0, <1>3, TakeFields DEF Start, StartBuild, StartDeploy, HardDelete, SkipTask
<1>4. ASSUME NEW w \in Workers, Work(w) PROVE worker'[v] = worker[v] \/ RemoveService(v)
  <2>1. CASE v # w
    BY <1>4, <2>1, WorkFields
  <2>2. CASE v = w
    BY <1>4, <2>2 DEF Work, BuildSucceeds, BuildFails, CommitBuilt, EnqueueDeploy, MarkFailed, FindCurrent,
       MarkDeployed, UpdateService, DeployFails, CommitDeploy, CommitFails
  <2>3. QED
    BY <2>1, <2>2
<1>5. QED
  BY <1>1, <1>2, <1>3, <1>4 DEF Next, Enqueue, Redeliver, vars

(* A task on its way stays on its way until it is done. *)
LEMMA TaskStays ==
  ASSUME Shape, TasksAreKnown, [Next]_vars, NEW t \in Tasks, OnItsWay(t)
  PROVE  \/ t \in queued' \/ \E w \in Workers : worker'[w].task = t
         \/ \E w \in Workers : worker[w].task = t /\ Finish(w) /\ Work(w)
         \/ \E w \in Workers : SkipTask(w, t)
         \/ t.kind = "build" /\ ledger[t.dep].status = "failed"
<1> DEFINE Stays == t \in queued' \/ \E w \in Workers : worker'[w].task = t
<1>0. t # NoTask
  BY DEF Tasks, NoTask
<1>1. ASSUME queued \subseteq queued', \A w \in Workers : worker'[w].task = worker[w].task
      PROVE  Stays
  BY <1>1 DEF OnItsWay
<1>2. ASSUME NEW r \in Resolvers, Resolve(r) PROVE Stays
  BY <1>1, <1>2, ResolveFields
<1>3. ASSUME NEW r \in Resolvers, Enqueue(r) PROVE Stays
  BY <1>1, <1>3 DEF Enqueue
<1>4. ASSUME NEW d \in Ids, CancelDeployment(d) PROVE Stays
  BY <1>1, <1>4, CancelFields DEF CancelDeployment
<1>5. ASSUME NEW w \in Workers, NEW u \in Tasks, Start(w, u)
      PROVE  \/ Stays
             \/ SkipTask(w, t)
             \/ t.kind = "build" /\ ledger[t.dep].status = "failed"
  <2>1. ASSUME NEW x, NEW p, Take(w, x, p) PROVE Stays
    BY <1>0, <2>1, TakeFields DEF OnItsWay
  <2>2. CASE StartBuild(w, u.dep)
    <3> DEFINE b == [kind |-> "build", dep |-> u.dep]
    <3>1. CASE queued' = queued \ {b} /\ worker' = worker /\ ledger[u.dep].status = "failed"
      <4>1. CASE t = b
        BY <3>1, <4>1
      <4>2. CASE t # b
        BY <3>1, <4>2 DEF OnItsWay
      <4>3. QED
        BY <4>1, <4>2
    <3>2. QED
      BY <2>1, <2>2, <3>1 DEF StartBuild
  <2>3. CASE SkipTask(w, u)
    BY <2>3 DEF SkipTask, OnItsWay
  <2>4. QED
    BY <1>5, <2>1, <2>2, <2>3 DEF Start, StartDeploy, HardDelete
<1>6. ASSUME NEW w \in Workers, Work(w) PROVE Stays \/ (worker[w].task = t /\ Finish(w))
  <2>1. queued \subseteq queued'
    BY <1>6 DEF Work, BuildSucceeds, BuildFails, CommitBuilt, EnqueueDeploy, MarkFailed, FindCurrent,
       MarkDeployed, UpdateService, DeployFails, CommitDeploy, CommitFails, RemoveService
  <2>2. ASSUME NEW p, Goto(w, p) PROVE Stays
    BY <1>1, <2>1, <2>2, GotoFields
  <2>3. ASSUME FindCurrent(w) PROVE Stays
    BY <1>1, <2>1, <2>3, FindFields
  <2>4. ASSUME Finish(w), worker[w].task # t PROVE Stays
    BY <2>1, <2>4, FinishFields DEF OnItsWay
  <2>5. FindCurrent(w) \/ Finish(w) \/ \E p : Goto(w, p)
    BY <1>6 DEF Work, BuildSucceeds, BuildFails, CommitBuilt, EnqueueDeploy, MarkFailed,
       MarkDeployed, UpdateService, DeployFails, CommitDeploy, CommitFails, RemoveService
  <2>6. QED
    BY <2>2, <2>3, <2>4, <2>5
<1>7. ASSUME NEW w \in Workers, Redeliver(w) PROVE Stays
  BY <1>1, <1>7 DEF Redeliver
<1>8. CASE Crash
  <2>1. queued' = queued \cup {worker[w].task : w \in {v \in Workers : worker[v] # Idle}}
    BY <1>8 DEF Crash
  <2>2. \A w \in Workers : worker[w].task = t => worker[w] # Idle
    BY <1>0, TaskFields
  <2>3. QED
    BY <2>1, <2>2 DEF OnItsWay
<1>9. CASE UNCHANGED vars
  BY <1>1, <1>9 DEF vars
<1>10. QED
  BY <1>2, <1>3, <1>4, <1>5, <1>6, <1>7, <1>8, <1>9 DEF Next

(* How the status of a deployment changes. *)
LEMMA StatusStep ==
  ASSUME Shape, [Next]_vars, app' # "gone", NEW d \in DOMAIN ledger
  PROVE  /\ d \in DOMAIN ledger'
         /\ \/ ledger'[d].status = ledger[d].status
            \/ \E w \in Workers : /\ CommitBuilt(w) \/ MarkFailed(w)
                                  /\ worker[w].task.dep = d
                                  /\ MarkFailed(w) \/ ledger'[d].status = "deployPending"
            \/ \E w \in Workers : CommitDeploy(w)
<1>1. ASSUME NEW r \in Resolvers, Resolve(r) PROVE ledger'[d].status = ledger[d].status
  BY <1>1, ResolveFields
<1>2. ASSUME NEW w \in Workers, Work(w)
      PROVE  \/ ledger'[d].status = ledger[d].status
             \/ /\ CommitBuilt(w) \/ MarkFailed(w)
                /\ worker[w].task.dep = d
                /\ MarkFailed(w) \/ ledger'[d].status = "deployPending"
             \/ CommitDeploy(w)
  <2>1. CASE CommitBuilt(w)
    BY <2>1, StatusFields DEF CommitBuilt
  <2>2. CASE MarkFailed(w)
    BY <2>2, StatusFields DEF MarkFailed
  <2>4. QED
    BY <1>2, <2>1, <2>2 DEF Work, BuildSucceeds, BuildFails, EnqueueDeploy, FindCurrent,
       MarkDeployed, UpdateService, DeployFails, CommitFails, RemoveService, data
<1>3. ASSUME NEW w \in Workers, NEW t \in Tasks, Start(w, t) PROVE ledger' = ledger
  BY <1>3 DEF Start, StartBuild, StartDeploy, HardDelete, SkipTask, data
<1>4. d \in DOMAIN ledger'
  BY DomainGrows
<1>5. QED
  BY <1>1, <1>2, <1>3, <1>4 DEF Next, Enqueue, CancelDeployment, Redeliver, Crash, vars, data

(* Whatever is served is deployed, or will be. *)
LEMMA StaysAttended ==
  ASSUME Shape, TasksAreKnown, Alone, Serving, ServedIsAttended, [Next]_vars
  PROVE  ServedIsAttended'
<1> SUFFICES ASSUME trouble' \subseteq {"failure"}, service' # <<>>,
                    \A w \in Workers : worker'[w].pc # "removing"
             PROVE  /\ service'[1].dep \in DOMAIN ledger'
                    /\ \/ ledger'[service'[1].dep].status = "deployed"
                       \/ Attended(service[1].dep)'
  BY DEF ServedIsAttended, Exists
<1>0. /\ trouble \subseteq {"failure"} /\ "overlap" \notin trouble /\ "lost" \notin trouble'
      /\ "refused" \notin trouble'
  BY TroubleGrows
<1> DEFINE Way(t) == t \in queued' \/ \E w \in Workers : worker'[w].task = t
           B(d) == [kind |-> "build", dep |-> d]
           D(d) == [kind |-> "deploy", dep |-> d]
           Fine(d) == /\ d \in DOMAIN ledger'
                      /\ \/ ledger'[d].status = "deployed"
                         \/ Way(D(d)) \/ (Way(B(d)) /\ ledger'[d].status # "failed")
<1> SUFFICES Fine(service'[1].dep)
  BY DEF Attended, OnItsWay
<1>a. ~Crash \/ \A w \in Workers : worker[w].pc # "removing"
  BY <1>0 DEF Crash
<1>b. \A w \in Workers : worker[w].pc # "removing"
  BY <1>0, <1>a, RemovalGoesOn DEF RemoveService
<1>1. ASSUME NEW w \in Workers, UpdateService(w)
      PROVE  Fine(service'[1].dep)
  <2>1. worker[w].task = D(worker[w].task.dep) /\ worker[w].task.dep \in Ids
    BY <1>1, WorkerFields, TaskFields DEF UpdateService, Deploys
  <2>2. app # "gone" /\ Exists(worker[w].task.dep)
    BY <1>0, <2>1 DEF Alone, TasksAreKnown, Known
  <2>3. service'[1].dep = worker[w].task.dep /\ worker'[w].task = worker[w].task
    BY <1>1, GotoFields DEF UpdateService
  <2>4. service'[1].dep \in DOMAIN ledger'
    BY <1>1, <2>2, <2>3 DEF UpdateService, Exists, data
  <2>5. QED
    BY <2>1, <2>3, <2>4
<1>2. ASSUME service' = service
      PROVE  Fine(service'[1].dep)
  <2>1. PICK s : s = service[1].dep
    OBVIOUS
  <2>2. /\ s \in DOMAIN ledger
        /\ \/ ledger[s].status = "deployed"
           \/ OnItsWay(D(s))
           \/ OnItsWay(B(s)) /\ ledger[s].status # "failed"
    BY <1>0, <1>2, <1>b, <2>1 DEF ServedIsAttended, Attended, Exists
  <2>3. s \in Ids /\ B(s) \in Tasks /\ D(s) \in Tasks /\ service # <<>>
    BY <1>2, <2>1, <2>2, BoundAssumption DEF Shape, Ids, Tasks
  <2>4. app' # "gone"
    <3>1. ledger # <<>>
      BY <2>2
    <3>2. ASSUME NEW w \in Workers, HardDelete(w) PROVE FALSE
      BY <3>2, TakeFields DEF HardDelete
    <3>3. ASSUME NEW r \in Resolvers, Resolve(r) PROVE app' # "gone" \/ app' = app
      BY <3>3 DEF Resolve, CreateApplication, UpdateApplication, RebuildApplication, redeployApp,
         SleepOrWake, DeleteApplication, ForceUpdate, data
    <3>4. app' = "gone" => app = "gone"
      BY <3>2, <3>3, WorkFields DEF Next, Start, StartBuild, StartDeploy, SkipTask,
         Enqueue, CancelDeployment, Redeliver, Crash, vars, data
    <3>5. QED
      BY <3>1, <3>4 DEF Shape
  <2>5. s \in DOMAIN ledger'
    BY <2>2, <2>4, StatusStep
  <2>6. ASSUME NEW w \in Workers, CommitDeploy(w)
        PROVE  Fine(s)
    <3>1. worker[w].task.dep = s
      BY <1>0, <2>1, <2>6 DEF CommitDeploy, Serving
    <3>2. QED
      BY <2>2, <2>6, <3>1, CommitFields
  <2>7. ASSUME NEW w \in Workers, MarkFailed(w)
        PROVE  worker[w].task.dep # s
    BY <1>0, <2>1, <2>3, <2>7 DEF MarkFailed
  <2>8. ASSUME NEW w \in Workers, CommitBuilt(w), worker[w].task.dep = s,
               ledger'[s].status = "deployPending"
        PROVE  Fine(s)
    <3>1. worker[w].task = B(s)
      BY <2>8, WorkerFields, TaskFields DEF CommitBuilt, Builds
    <3>2. worker'[w].task = B(s)
      BY <2>8, <3>1, GotoFields DEF CommitBuilt
    <3>3. QED
      BY <2>5, <2>8, <3>2
  <2>9. ASSUME ledger'[s].status = ledger[s].status, \A w \in Workers : ~CommitDeploy(w)
        PROVE  Fine(s)
    <3>1. ASSUME NEW t \in Tasks, t.dep = s, t.kind \in {"build", "deploy"}, OnItsWay(t)
          PROVE  \/ Way(t)
                 \/ t.kind = "build" /\ (Way(D(s)) \/ ledger[s].status = "failed")
      <4>1. ASSUME NEW w \in Workers, worker[w].task = t, Finish(w), Work(w)
            PROVE  t.kind = "build" /\ Way(D(s))
        <5>1. ~MarkFailed(w)
          BY <2>7, <3>1, <4>1
        <5>2. ~CommitFails(w) /\ ~RemoveService(w)
          BY <1>0, <1>b DEF CommitFails, RemoveService
        <5>3. worker'[w].pc = "idle"
          BY <4>1, FinishFields
        <5>4. ASSUME NEW p, p # "idle" PROVE ~Goto(w, p)
          BY <5>3, <5>4, GotoFields
        <5>5. ~FindCurrent(w)
          BY <5>3, FindFields
        <5>6. EnqueueDeploy(w)
          BY <2>9, <4>1, <5>1, <5>2, <5>4, <5>5 DEF Work, BuildSucceeds, BuildFails, CommitBuilt,
             MarkDeployed, UpdateService, DeployFails
        <5>7. t.kind = "build"
          BY <4>1, <5>6, WorkerFields, TaskFields DEF EnqueueDeploy
        <5>8. D(s) \in queued'
          BY <1>0, <3>1, <4>1, <5>6 DEF EnqueueDeploy
        <5>9. QED
          BY <5>7, <5>8
      <4>2. ASSUME NEW w \in Workers, SkipTask(w, t)
            PROVE  t.kind = "build"  /\ FALSE
        BY <2>2, <3>1, <4>2 DEF SkipTask, Exists
      <4>3. QED
        BY <3>1, <4>1, <4>2, TaskStays
    <3>2. CASE ledger[s].status = "deployed"
      BY <2>5, <2>9, <3>2
    <3>3. CASE OnItsWay(D(s))
      BY <2>3, <2>5, <3>1, <3>3
    <3>4. CASE OnItsWay(B(s)) /\ ledger[s].status # "failed"
      BY <2>3, <2>5, <2>9, <3>1, <3>4
    <3>5. QED
      BY <2>2, <3>2, <3>3, <3>4
  <2>10. QED
    <3>1. Fine(s)
      BY <2>2, <2>4, <2>6, <2>7, <2>8, <2>9, StatusStep
    <3>2. QED
      BY <1>2, <2>1, <3>1
<1>3. ASSUME NEW w \in Workers, CommitFails(w) \/ RemoveService(w)
      PROVE  FALSE
  BY <1>0, <1>3 DEF CommitFails, RemoveService
<1>4. QED
  BY <1>1, <1>2, <1>3, ServiceStep

(* Settings that changed are read by a deploy that is still to come. *)
LEMMA SettingsStayAttended ==
  ASSUME Shape, TasksAreKnown, Alone, NothingFails, SettingsAreAttended, [Next]_vars
  PROVE  SettingsAreAttended'
<1> DEFINE Reads(v) == worker'[v].pc \in {"deploying", "found", "marked"}
           Goal == /\ \/ \E v \in Workers : Reads(v) /\ worker'[v].settings = settings'
                      \/ service' # <<>> /\ service'[1].settings = settings'
                   /\ \A v \in Workers : Reads(v) => worker'[v].settings = settings'
<1> SUFFICES ASSUME trouble' = {}, app' \in {"live", "deleting"}, ~DeployToCome'
             PROVE  Goal
  BY DEF SettingsAreAttended, Deploying
<1>0. trouble = {} /\ app # "gone"
  BY TroubleGrows
<1>a. ASSUME app # "absent", ~DeployToCome, settings' = settings, service' = service,
             \A v \in Workers : /\ worker'[v].settings = worker[v].settings
                                /\ Reads(v) <=> Deploying(v)
      PROVE  Goal
  <2>1. app \in {"live", "deleting"}
    BY <1>0, <1>a DEF Shape
  <2>2. QED
    BY <1>0, <1>a, <2>1 DEF SettingsAreAttended
<1>b. /\ \A t \in queued' : t.kind \notin {"build", "deploy"}
      /\ \A r \in Resolvers : request'[r].kind \notin {"build", "deploy"}
      /\ \A w \in Workers : worker'[w].task.kind # "build"
  BY DEF DeployToCome
<1>1. ASSUME NEW r \in Resolvers, Resolve(r) PROVE Goal
  <2>1. ~DeployToCome
    BY <1>b, <1>1, ResolveFields DEF DeployToCome
  <2>2. QED
    BY <1>a, <1>b, <1>1, <2>1, ResolveFields DEF Deploying
<1>2. ASSUME NEW r \in Resolvers, Enqueue(r) PROVE Goal
  <2>1. queued' = queued \cup {request[r]} /\ \A q \in Resolvers : q # r => request'[q] = request[q]
    BY <1>2 DEF Enqueue, Shape
  <2>2. ~DeployToCome
    BY <1>b, <1>2, <2>1 DEF DeployToCome, Enqueue, data
  <2>3. QED
    BY <1>a, <1>2, <2>2 DEF Enqueue, data, Deploying
<1>3. ASSUME NEW d \in Ids, CancelDeployment(d) PROVE Goal
  <2>1. ~DeployToCome
    BY <1>b, <1>3, CancelFields DEF DeployToCome, CancelDeployment
  <2>2. QED
    BY <1>a, <1>3, <2>1, CancelFields DEF CancelDeployment, data, Deploying
<1>4. ASSUME NEW w \in Workers, NEW t \in Tasks, Start(w, t) PROVE Goal
  <2>1. ~HardDelete(w)
    BY DEF HardDelete
  <2>2. CASE StartBuild(w, t.dep)
    <3>1. ~(Exists(t.dep) /\ ledger[t.dep].status = "failed")
      BY <1>0 DEF NothingFails, Exists
    <3>2. \E p : Take(w, [kind |-> "build", dep |-> t.dep], p)
      BY <2>2, <3>1 DEF StartBuild
    <3>3. worker'[w].task = [kind |-> "build", dep |-> t.dep]
      BY <3>2, TakeFields
    <3>4. QED
      BY <1>b, <3>3
  <2>3. CASE StartDeploy(w, t.dep)
    <3>1. Running("deploy") = {}
      BY <2>3 DEF StartDeploy
    <3>2. \A v \in Workers : worker[v].pc \notin {"deploying", "found", "marked"}
      BY <3>1, WorkerFields, TaskFields DEF Running
    <3>3. /\ \A v \in Workers : v # w => worker'[v] = worker[v]
          /\ worker'[w].pc = "deploying" /\ worker'[w].settings = settings
      BY <2>3, TakeFields DEF StartDeploy
    <3>4. settings' = settings
      BY <2>3 DEF StartDeploy, data
    <3>5. QED
      BY <3>2, <3>3, <3>4
  <2>4. CASE SkipTask(w, t)
    <3>1. t.kind \notin {"build", "deploy"}
      BY <1>0, <2>4 DEF SkipTask, TasksAreKnown, Known
    <3>2. ~DeployToCome
      BY <1>b, <2>4, <3>1 DEF SkipTask, DeployToCome
    <3>3. QED
      BY <1>a, <2>4, <3>2 DEF SkipTask, data, Deploying
  <2>5. QED
    BY <1>4, <2>1, <2>2, <2>3, <2>4 DEF Start
<1>5. ASSUME NEW w \in Workers, Work(w) PROVE Goal
  <2>0. app # "absent" /\ request' = request /\ settings' = settings
    BY <1>5, WorkFields
  <2>1. worker[w].pc \notin {"failing", "removing"}
    BY <1>0 DEF NothingFails, TasksAreKnown
  <2>2. ASSUME NEW x, trouble' = trouble \cup {x} PROVE FALSE
    BY <2>2
  <2>3. ASSUME NEW p, Goto(w, p), queued' = queued PROVE ~DeployToCome
    BY <1>b, <2>0, <2>3, GotoFields DEF DeployToCome
  <2>4. ASSUME NEW p, Goto(w, p), queued' = queued, service' = service,
               p \in {"deploying", "found", "marked"} <=> worker[w].pc \in {"deploying", "found", "marked"}
        PROVE  Goal
    BY <1>a, <2>0, <2>3, <2>4, GotoFields DEF Deploying
  <2>5. CASE BuildSucceeds(w)
    BY <2>4, <2>5 DEF BuildSucceeds
  <2>6. CASE CommitBuilt(w)
    BY <2>4, <2>6 DEF CommitBuilt
  <2>7. CASE EnqueueDeploy(w)
    <3>1. queued' = queued \cup {[kind |-> "deploy", dep |-> worker[w].task.dep]}
      BY <2>2, <2>7 DEF EnqueueDeploy
    <3>2. FALSE
      <4>1. [kind |-> "deploy", dep |-> worker[w].task.dep] \in queued'
        BY <3>1
      <4>2. QED
        BY <1>b, <4>1
    <3>3. QED
      BY <3>2
  <2>8. CASE FindCurrent(w)
    <3>1. ~DeployToCome
      BY <1>b, <2>0, <2>8, FindFields DEF DeployToCome, FindCurrent
    <3>2. QED
      BY <1>a, <2>0, <2>8, <3>1, FindFields DEF FindCurrent, data, Deploying
  <2>9. CASE MarkDeployed(w)
    BY <2>4, <2>9 DEF MarkDeployed
  <2>10. CASE UpdateService(w)
    <3>1. app \in {"live", "deleting"} /\ ~DeployToCome
      BY <1>0, <2>0, <2>3, <2>10 DEF UpdateService, Shape
    <3>2. \A v \in Workers : Deploying(v) => worker[v].settings = settings
      BY <1>0, <3>1 DEF SettingsAreAttended
    <3>3. service' # <<>> /\ service'[1].settings = worker[w].settings
      BY <2>10 DEF UpdateService
    <3>4. worker[w].settings = settings
      BY <2>10, <3>2 DEF UpdateService, Deploying
    <3>5. \A v \in Workers : Reads(v) => Deploying(v) /\ worker'[v].settings = worker[v].settings
      BY <2>10, GotoFields DEF UpdateService, Deploying
    <3>6. QED
      BY <2>0, <3>2, <3>3, <3>4, <3>5
  <2>11. CASE CommitDeploy(w)
    <3>1. worker[w].task.kind = "deploy"
      BY <2>11, WorkerFields, TaskFields DEF CommitDeploy
    <3>2. ~DeployToCome
      BY <1>b, <2>0, <2>11, <3>1, FinishFields DEF DeployToCome, CommitDeploy
    <3>3. \A v \in Workers : v # w => worker'[v] = worker[v]
      BY <2>11, FinishFields DEF CommitDeploy
    <3>4. ~Reads(w) /\ ~Deploying(w)
      BY <2>11, FinishFields DEF CommitDeploy, Deploying
    <3>5. service' = service
      BY <2>11 DEF CommitDeploy
    <3>6. \A v \in Workers : Reads(v) <=> Deploying(v)
      BY <3>3, <3>4 DEF Deploying
    <3>7. app \in {"live", "deleting"}
      BY <1>0, <2>0 DEF Shape
    <3>8. QED
      BY <1>0, <2>0, <3>2, <3>3, <3>4, <3>5, <3>6, <3>7 DEF SettingsAreAttended
  <2>12. QED
    BY <1>5, <2>1, <2>2, <2>5, <2>6, <2>7, <2>8, <2>9, <2>10, <2>11 DEF Work, BuildFails, DeployFails,
       CommitFails, MarkFailed, RemoveService
<1>6. ASSUME NEW w \in Workers, Redeliver(w) PROVE Goal
  <2>1. ~DeployToCome
    BY <1>b, <1>6 DEF DeployToCome, Redeliver
  <2>2. QED
    BY <1>a, <1>6, <2>1 DEF Redeliver, data, Deploying
<1>7. CASE Crash
  <2>1. /\ \A r \in Resolvers : request[r] = NoTask
        /\ queued' = queued \cup {worker[w].task : w \in {v \in Workers : worker[v] # Idle}}
    BY <1>7 DEF Crash
  <2>2. \A w \in Workers : worker[w].task.kind \notin {"build", "deploy"}
    BY <1>b, <2>1, TaskFields DEF NoTask
  <2>3. ~DeployToCome
    <3>1. \A r \in Resolvers : request[r].kind = "none"
      BY <2>1, CrashFields, <1>7
    <3>2. queued \subseteq queued'
      BY <2>1
    <3>3. QED
      BY <1>b, <2>2, <3>1, <3>2 DEF DeployToCome
  <2>4. \A w \in Workers : ~Deploying(w)
    BY <2>2, WorkerFields, TaskFields DEF Deploying
  <2>5. app \in {"live", "deleting"} /\ UNCHANGED <<settings, service>>
    BY <1>7 DEF Crash, data
  <2>6. QED
    BY <1>0, <1>7, <2>3, <2>4, <2>5, CrashFields DEF SettingsAreAttended
<1>8. CASE UNCHANGED vars
  BY <1>a, <1>8 DEF vars, data, DeployToCome, Deploying
<1>9. QED
  BY <1>1, <1>2, <1>3, <1>4, <1>5, <1>6, <1>7, <1>8 DEF Next

-----------------------------------------------------------------------------
(* The theorems. *)

(* One step keeps the invariant. *)
LEMMA StepIInv == IInv /\ [Next]_vars => IInv'
<1> SUFFICES ASSUME IInv, [Next]_vars PROVE IInv'
  OBVIOUS
<1> USE DEF IInv
<1>1. Shape'
  BY NextShape
<1>2. TasksAreKnown' /\ Alone'
  BY TasksStayKnown, StaysAlone
<1>3. FoundAll' /\ AtMostOne' /\ Serving'
  BY StaysFound, StaysServing
<1>4. ServedIsAttended'
  BY StaysAttended
<1>5. NothingFails' /\ SettingsAreAttended'
  BY StillNothingFails, SettingsStayAttended
<1>6. QED
  BY <1>1, <1>2, <1>3, <1>4, <1>5

(* The invariant holds in every state the resolvers and workers reach. *)
THEOREM Inductive == Spec => []IInv
  BY InitIInv, StepIInv, PTL DEF Spec

(* The variables keep their shape, and the code stores the statuses it knows, *)
(* through every handler, redelivery and crash.                              *)
THEOREM TypeCorrect == Spec => []TypeOK
<1>1. IInv => TypeOK
  <2> SUFFICES ASSUME Shape PROVE TypeOK
    BY DEF IInv
  <2>1. \A w \in Workers : /\ worker[w].task \in Tasks \cup {NoTask}
                           /\ worker[w] = Idle <=> worker[w].task = NoTask
                           /\ worker[w].current \in Ids \cup {0}
    <3> SUFFICES ASSUME NEW w \in Workers
                 PROVE  /\ worker[w].task \in Tasks \cup {NoTask}
                        /\ worker[w] = Idle <=> worker[w].task = NoTask
                        /\ worker[w].current \in Ids \cup {0}
      OBVIOUS
    <3>1. NoTask \notin Tasks
      BY DEF NoTask, Tasks
    <3>2. worker[w].current \in Ids \cup {0}
      <4>1. worker[w] = Idle => worker[w].current = 0
        BY DEF Idle
      <4>2. worker[w] \in Builds => worker[w].current = 0
        BY DEF Builds
      <4>3. worker[w] \in Removals => worker[w].current = 0
        BY DEF Removals
      <4>4. QED
        BY <4>1, <4>2, <4>3, WorkerFields, TaskFields DEF Busy
    <3>3. QED
      BY <3>1, <3>2, TaskFields
  <2>2. \A d \in DOMAIN ledger : ledger[d].source \in Sources /\ ledger[d].status \in Statuses
    BY LedgerIsFunction DEF Deployments
  <2>3. QED
    BY <2>1, <2>2 DEF TypeOK, Shape
<1>2. QED
  BY <1>1, Inductive, PTL

(* The transaction of DeployApplication marks one deployment and stalls the one  *)
(* it found, so unless two deploys overlapped at most one is marked deployed.    *)
THEOREM DeploysExcludeEachOther == Spec => []OneDeployed
<1>1. IInv => OneDeployed
  <2> SUFFICES ASSUME IInv, "overlap" \notin trouble PROVE Cardinality(Deployed) <= 1
    BY DEF OneDeployed
  <2>1. \A d, e \in Deployed : d = e
    BY DEF IInv, AtMostOne
  <2>2. CASE Deployed = {}
    BY <2>2, FS_EmptySet
  <2>3. CASE Deployed # {}
    <3>1. PICK d \in Deployed : TRUE
      BY <2>3
    <3>2. Deployed = {d}
      BY <2>1, <3>1
    <3>3. QED
      BY <3>2, FS_Singleton
  <2>4. QED
    BY <2>2, <2>3
<1>2. QED
  BY <1>1, Inductive, PTL

(* When nothing is left to do, no task is on its way. *)
LEMMA QuietIsUnattended ==
  ASSUME Quiet
  PROVE  /\ \A t \in Tasks : ~OnItsWay(t)
         /\ \A w \in Workers : worker[w].pc = "idle"
         /\ ~DeployToCome
<1>1. NoTask \notin Tasks /\ NoTask.kind = "none"
  BY DEF NoTask, Tasks
<1>2. \A w \in Workers : worker[w].pc = "idle" /\ worker[w].task = NoTask
  BY DEF Quiet, Idle
<1>3. QED
  BY <1>1, <1>2 DEF Quiet, OnItsWay, DeployToCome

(* Then what is served is deployed, since nobody is there to deploy it later. *)
LEMMA QuietServesDeployed ==
  ASSUME IInv, Quiet, service # <<>>, trouble \subseteq {"failure"}
  PROVE  Exists(service[1].dep) /\ ledger[service[1].dep].status = "deployed"
<1>1. Exists(service[1].dep) => service[1].dep \in Ids
  BY BoundAssumption DEF IInv, Shape, Exists, Ids
<1>2. ~Attended(service[1].dep) \/ ~Exists(service[1].dep)
  BY <1>1, QuietIsUnattended DEF Attended, Tasks
<1>3. \A w \in Workers : worker[w].pc # "removing"
  BY QuietIsUnattended
<1>4. QED
  BY <1>2, <1>3 DEF IInv, ServedIsAttended

(* Once the queues are drained, the service runs the deployment that is marked   *)
(* deployed, although docker is updated before the commit.                       *)
THEOREM QuietServiceIsDeployed == Spec => []ServedIsDeployed
<1>1. IInv => ServedIsDeployed
  BY QuietServesDeployed DEF ServedIsDeployed
<1>2. QED
  BY <1>1, Inductive, PTL

(* And the service has the latest settings: every change of them, by an update,  *)
(* a sleep or a wake, is followed by a deploy that reads them.                    *)
THEOREM QuietServiceHasSettings == Spec => []SettingsReachService
<1>1. IInv => SettingsReachService
  <2> SUFFICES ASSUME IInv, Quiet, service # <<>>, trouble = {}
               PROVE  service[1].settings = settings
    BY DEF SettingsReachService
  <2>1. app \in {"live", "deleting"}
    BY QuietServesDeployed DEF Exists, IInv, Shape
  <2>2. QED
    BY <2>1, QuietIsUnattended DEF IInv, SettingsAreAttended, Deploying
<1>2. QED
  BY <1>1, Inductive, PTL

(* And a deleted application is not served, since HardDelete and RemoveService   *)
(* are one task that no deploy overlapped.                                        *)
THEOREM QuietDeletionIsComplete == Spec => []DeletedIsNotServed
<1>1. IInv => DeletedIsNotServed
  <2> SUFFICES ASSUME IInv, Quiet, app = "gone", trouble \subseteq {"failure"}, service # <<>>
               PROVE  FALSE
    BY DEF DeletedIsNotServed
  <2>1. ledger = <<>>
    BY DEF IInv, Shape
  <2>2. QED
    BY <2>1, QuietServesDeployed DEF Exists
<1>2. QED
  BY <1>1, Inductive, PTL
=============================================================================
