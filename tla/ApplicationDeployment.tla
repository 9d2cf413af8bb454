----------------------- MODULE ApplicationDeployment -----------------------
(***************************************************************************)
(* The life of one application and of its deployments: the resolvers that  *)
(* record what is wanted, and the workers that build, deploy and delete.   *)
(*                                                                         *)
(* A resolver commits to the database and then enqueues a task; a worker   *)
(* takes a task, works for minutes and writes a status. Nothing holds a    *)
(* lock in between except the rows a deploy transaction has updated, so    *)
(* resolvers, and the workers of the three queues, interleave here at      *)
(* every database statement, queue call and docker call.                   *)
(*                                                                         *)
(* The task queue is what LocalTaskQueue shows it to be: an accepted task  *)
(* is delivered at least once and in any order, a refused one may be       *)
(* delivered too, and a sweep may deliver again a task that still runs.    *)
(***************************************************************************)
EXTENDS Naturals, Sequences, FiniteSets

CONSTANTS
  Workers,         (* consumer goroutines of the build, deploy, delete queues *)
  Resolvers,       (* requests of the API                                  *)
  Sources,         (* what a deployment is built from: upstream parameters *)
  Images,          (* the sources with UpstreamType image                  *)
  Credentialed,    (* the sources that name a credential record            *)
  MaxDeployments,  (* bound on the deployments of the application          *)
  MaxSettings,     (* bound on the changes of its settings                 *)
  MaxRepeats       (* bound on forced deploys, redeliveries and crashes    *)

ASSUME SourceAssumption == Images \subseteq Sources /\ Credentialed \subseteq Sources
ASSUME BoundAssumption == {MaxDeployments, MaxSettings, MaxRepeats} \subseteq Nat

VARIABLES
  app,       (* the row: none, live, is_deleted set, or deleted            *)
  settings,  (* version of the application's fields, is_sleeping included  *)
  ledger,    (* the deployments, by created_at                             *)
  service,   (* the swarm service: its spec and the previous one           *)
  queued,    (* tasks a worker may take                                    *)
  request,   (* per resolver, the task it is about to enqueue              *)
  worker,    (* per worker, the task it runs and how far it is             *)
  repeats,   (* forced deploys, redeliveries and crashes so far            *)
  (* Observation only; no action reads them. *)
  trouble    (* what has gone wrong so far                                 *)

data  == <<app, settings, ledger>>
vars  == <<data, service, queued, request, worker, repeats, trouble>>

Statuses == {"pending", "deployPending", "deployed", "failed", "stalled"}
Ids      == 1..MaxDeployments
Tasks    == [kind : {"build", "deploy"}, dep : Ids] \cup [kind : {"delete"}, dep : {0}]
NoTask   == [kind |-> "none", dep |-> 0]
Idle     == [pc |-> "idle", task |-> NoTask, settings |-> 0, current |-> 0, cancel |-> FALSE]

Exists(d)    == d \in DOMAIN ledger
Status(d, s) == IF Exists(d) THEN [ledger EXCEPT ![d].status = s] ELSE ledger
Deployed     == {d \in DOMAIN ledger : ledger[d].status = "deployed"}
Newest(S)    == CHOOSE d \in S : \A e \in S : e <= d
Running(kind) == {w \in Workers : worker[w].task.kind = kind}

(* FindCurrentDeployedDeployment, and FindLatestDeployment where there is none. *)
CurrentOrLatest == IF Deployed # {} THEN Newest(Deployed) ELSE Len(ledger)

(* Rows that an open deploy transaction has updated: other writers wait. *)
Locked(d) == \E w \in Workers : /\ d # 0
                                /\ worker[w].pc \in {"marked", "served"}
                                /\ d \in {worker[w].task.dep, worker[w].current}

-----------------------------------------------------------------------------

Init ==
  /\ app = "absent"
  /\ settings = 0
  /\ ledger = <<>>
  /\ service = <<>>
  /\ queued = {}
  /\ request = [r \in Resolvers |-> NoTask]
  /\ worker = [w \in Workers |-> Idle]
  /\ repeats = 0
  /\ trouble = {}

Repeat == repeats < MaxRepeats /\ repeats' = repeats + 1
Pending(src) == [source |-> src, status |-> "pending"]
Ask(r, kind, d) == request' = [request EXCEPT ![r] = [kind |-> kind, dep |-> d]]

-----------------------------------------------------------------------------
(* The resolvers. Each ends by enqueueing a task, in a step of its own. *)

(* One transaction writes the application and its first deployment. *)
CreateApplication(r, src) ==
  /\ app = "absent"
  /\ MaxDeployments > 0
  /\ app' = "live"
  /\ ledger' = <<Pending(src)>>
  /\ Ask(r, "build", 1)
  /\ UNCHANGED <<settings, service, queued, worker, repeats, trouble>>

(* Credentials are compared by the address of a pointer: only two absent ones are equal. *)
SameParameters(new, old) == new = old /\ new \notin Credentialed

(* Defect: a changed field is saved and isReloadRequired stays false. *)
UpdateWithoutReload(r, src, reload) ==
  LET recreate == ~SameParameters(src, ledger[CurrentOrLatest].source)
  IN  /\ app = "live"
      /\ request[r] = NoTask
      /\ reload => settings < MaxSettings
      /\ recreate => Len(ledger) < MaxDeployments
      /\ settings' = IF reload THEN settings + 1 ELSE settings
      /\ ledger' = IF recreate THEN Append(ledger, Pending(src)) ELSE ledger
      /\ IF recreate THEN Ask(r, "build", Len(ledger) + 1) ELSE UNCHANGED request
      /\ UNCHANGED <<app, service, queued, worker, repeats, trouble>>

(* Application.Update writes without a transaction. A changed source is a    *)
(* new deployment; changed settings deploy the current deployment again.     *)
UpdateApplication(r, src, reload) ==
  LET d == CurrentOrLatest
      recreate == ~SameParameters(src, ledger[d].source)
  IN  /\ app = "live"
      /\ request[r] = NoTask
      /\ reload => settings < MaxSettings
      /\ recreate => Len(ledger) < MaxDeployments
      /\ settings' = IF reload THEN settings + 1 ELSE settings
      /\ ledger' = IF recreate THEN Append(ledger, Pending(src)) ELSE ledger
      /\ IF recreate THEN Ask(r, "build", Len(ledger) + 1)
         ELSE IF reload THEN Ask(r, "deploy", d)
         ELSE UNCHANGED request
      /\ UNCHANGED <<app, service, queued, worker, repeats, trouble>>

(* A copy of the current deployment, or of the latest one. A soft-deleted     *)
(* application is rebuilt as well.                                           *)
RebuildApplication(r) ==
  /\ app \in {"live", "deleting"}
  /\ request[r] = NoTask
  /\ Len(ledger) < MaxDeployments
  /\ ledger' = Append(ledger, Pending(ledger[CurrentOrLatest].source))
  /\ Ask(r, "build", Len(ledger) + 1)
  /\ UNCHANGED <<app, settings, service, queued, worker, repeats, trouble>>

(* The webhook rebuilds only what has been deployed. *)
redeployApp(r) == Deployed # {} /\ RebuildApplication(r)

(* SleepApplication and WakeApplication change the settings and deploy the   *)
(* latest deployment, whatever its status.                                   *)
SleepOrWake(r) ==
  /\ app \in {"live", "deleting"}
  /\ request[r] = NoTask
  /\ settings < MaxSettings
  /\ settings' = settings + 1
  /\ Ask(r, "deploy", Len(ledger))
  /\ UNCHANGED <<app, ledger, service, queued, worker, repeats, trouble>>

(* After a change of the servers every deployed deployment is deployed again. *)
ForceUpdate(r, d) ==
  /\ request[r] = NoTask
  /\ d \in Deployed
  /\ Repeat
  /\ Ask(r, "deploy", d)
  /\ UNCHANGED <<data, service, queued, worker, trouble>>

(* SoftDelete *)
DeleteApplication(r) ==
  /\ app = "live"
  /\ request[r] = NoTask
  /\ app' = "deleting"
  /\ Ask(r, "delete", 0)
  /\ UNCHANGED <<settings, ledger, service, queued, worker, repeats, trouble>>

(* The id of a pending deployment is published: the builds that have          *)
(* subscribed by now cancel their context, and nobody else learns of it. The  *)
(* build of an image upstream does not look at its context.                  *)
CancelDeployment(d) ==
  /\ Exists(d)
  /\ ledger[d].status = "pending"
  /\ worker' = [w \in Workers |->
                  [worker[w] EXCEPT !.cancel = \/ @
                                               \/ /\ worker[w].task = [kind |-> "build", dep |-> d]
                                                  /\ ledger[d].source \notin Images]]
  /\ UNCHANGED <<data, service, queued, request, repeats, trouble>>

(* EnqueueTask accepts, or answers with an error before or after it wrote the row. *)
Enqueue(r) ==
  /\ request[r] # NoTask
  /\ request' = [request EXCEPT ![r] = NoTask]
  /\ \/ queued' = queued \cup {request[r]} /\ UNCHANGED trouble
     \/ queued' \in {queued, queued \cup {request[r]}} /\ trouble' = trouble \cup {"refused"}
  /\ UNCHANGED <<data, service, worker, repeats>>

-----------------------------------------------------------------------------
(* The workers *)

Goto(w, pc) == worker' = [worker EXCEPT ![w].pc = pc]
Finish(w)   == worker' = [worker EXCEPT ![w] = Idle]
Take(w, t, pc) ==
  /\ worker[w] = Idle
  /\ t \in queued
  /\ queued' = queued \ {t}
  /\ worker' = [worker EXCEPT ![w] = [Idle EXCEPT !.pc = pc, !.task = t, !.settings = settings]]

(* BuildApplication: a failed deployment is not built again. The subscription *)
(* to cancellations begins here. A deployment that is gone fails in the build. *)
StartBuild(w, d) ==
  LET t == [kind |-> "build", dep |-> d] IN
  /\ IF Exists(d) /\ ledger[d].status = "failed"
     THEN worker[w] = Idle /\ t \in queued /\ queued' = queued \ {t} /\ UNCHANGED worker
     ELSE Take(w, t, IF Exists(d) THEN "building" ELSE "failing")
  /\ UNCHANGED <<data, service, request, repeats, trouble>>

(* The image is built and pushed; an image upstream needs neither. *)
BuildSucceeds(w) ==
  /\ worker[w].pc = "building"
  /\ ~worker[w].cancel
  /\ Goto(w, "built")
  /\ UNCHANGED <<data, service, queued, request, repeats, trouble>>

(* The build or the push fails or is cancelled, or the status cannot be saved. *)
BuildFails(w) ==
  /\ worker[w].pc \in {"building", "built"}
  /\ Goto(w, "failing")
  /\ trouble' = trouble \cup {"failure"}
  /\ UNCHANGED <<data, service, queued, request, repeats>>

(* UpdateStatus(DeployPending) and the commit. *)
CommitBuilt(w) ==
  LET d == worker[w].task.dep
  IN  /\ worker[w].pc = "built"
      /\ ~Locked(d)
      /\ ledger' = Status(d, "deployPending")
      /\ Goto(w, "enqueue")
      /\ UNCHANGED <<app, settings, service, queued, request, repeats, trouble>>

(* Defect: the build ends without asking for the deployment. *)
EndWithoutDeploy(w) ==
  /\ worker[w].pc = "enqueue"
  /\ Finish(w)
  /\ UNCHANGED <<data, service, queued, request, repeats, trouble>>

(* The deploy task. An error of the queue fails the build, whose status is    *)
(* already committed.                                                        *)
EnqueueDeploy(w) ==
  LET t == [kind |-> "deploy", dep |-> worker[w].task.dep]
  IN  /\ worker[w].pc = "enqueue"
      /\ \/ queued' = queued \cup {t} /\ Finish(w) /\ UNCHANGED trouble
         \/ /\ queued' \in {queued, queued \cup {t}}
            /\ Goto(w, "failing")
            /\ trouble' = trouble \cup {"refused"}
      /\ UNCHANGED <<data, service, request, repeats>>

(* Defect: a failed build leaves the status alone. *)
MarkFailedSilently(w) ==
  /\ worker[w].pc = "failing"
  /\ Finish(w)
  /\ UNCHANGED <<data, service, queued, request, repeats, trouble>>

(* Both handlers end a failure with UpdateStatus(Failed), and only log it if   *)
(* that fails. The status of the deployment that is served is overwritten too. *)
MarkFailed(w) ==
  LET d == worker[w].task.dep
  IN  /\ worker[w].pc = "failing"
      /\ ~Locked(d)
      /\ \/ /\ ledger' = Status(d, "failed")
            /\ trouble' = IF d \in Deployed \/ (service # <<>> /\ service[1].dep = d)
                          THEN trouble \cup {"lost"} ELSE trouble
         \/ UNCHANGED ledger /\ trouble' = trouble \cup {"lost"}
      /\ Finish(w)
      /\ UNCHANGED <<app, settings, service, queued, request, repeats>>

(* Defect: the deployment is not looked up. *)
StartDeployUnchecked(w, d) ==
  /\ Take(w, [kind |-> "deploy", dep |-> d], "deploying")
  /\ UNCHANGED <<data, service, request, repeats, trouble>>

(* DeployApplication reads the application and the deployment, without a look *)
(* at its status; a missing one ends the task.                               *)
StartDeploy(w, d) ==
  /\ Exists(d)
  /\ Take(w, [kind |-> "deploy", dep |-> d], "deploying")
  /\ trouble' = IF Running("deploy") \cup Running("delete") # {}
                THEN trouble \cup {"overlap"} ELSE trouble
  /\ UNCHANGED <<data, service, request, repeats>>

(* A task whose record is gone is done. *)
SkipTask(w, t) ==
  /\ worker[w] = Idle
  /\ t \in queued
  /\ \/ t.kind = "deploy" /\ ~Exists(t.dep)
     \/ t.kind = "delete" /\ app = "gone"
  /\ queued' = queued \ {t}
  /\ UNCHANGED <<data, service, request, worker, repeats, trouble>>

(* FindCurrentDeployedDeployment sees what is committed. *)
FindCurrent(w) ==
  /\ worker[w].pc = "deploying"
  /\ worker' = [worker EXCEPT ![w].pc = "found",
                              ![w].current = IF Deployed # {} THEN Newest(Deployed) ELSE 0]
  /\ UNCHANGED <<data, service, queued, request, repeats, trouble>>

(* The current deployment is stalled and this one deployed, inside the        *)
(* transaction: the rows are locked, and nobody sees the values yet.         *)
MarkDeployed(w) ==
  /\ worker[w].pc = "found"
  /\ ~Locked(worker[w].task.dep) /\ ~Locked(worker[w].current)
  /\ Goto(w, "marked")
  /\ UNCHANGED <<data, service, queued, request, repeats, trouble>>

(* CreateService or UpdateService, before the commit. *)
UpdateService(w) ==
  LET spec == [dep |-> worker[w].task.dep, settings |-> worker[w].settings]
  IN  /\ worker[w].pc = "marked"
      /\ service' = IF service = <<>> THEN <<spec>> ELSE <<spec, service[1]>>
      /\ Goto(w, "served")
      /\ UNCHANGED <<data, queued, request, repeats, trouble>>

(* A query or docker fails: the transaction is rolled back, then the status set. *)
DeployFails(w) ==
  /\ worker[w].pc \in {"deploying", "found", "marked"}
  /\ Goto(w, "failing")
  /\ trouble' = trouble \cup {"failure"}
  /\ UNCHANGED <<data, service, queued, request, repeats>>

(* Defect: the deployment that was current is not stalled. *)
CommitWithoutStalling(w) ==
  /\ worker[w].pc = "served"
  /\ ledger' = Status(worker[w].task.dep, "deployed")
  /\ Finish(w)
  /\ UNCHANGED <<app, settings, service, queued, request, repeats, trouble>>

CommitDeploy(w) ==
  LET d == worker[w].task.dep
  IN  /\ worker[w].pc = "served"
      /\ ledger' = [e \in DOMAIN ledger |->
                      [ledger[e] EXCEPT !.status = IF e = d THEN "deployed"
                                                   ELSE IF e = worker[w].current THEN "stalled"
                                                   ELSE @]]
      /\ Finish(w)
      /\ UNCHANGED <<app, settings, service, queued, request, repeats, trouble>>

(* The commit fails: the service is rolled back to the previous spec, or that  *)
(* fails too and is logged. The handler returns no error either way. Without a *)
(* previous spec the rollback ends the process: see Crash.                     *)
CommitFails(w) ==
  /\ worker[w].pc = "served"
  /\ \/ Len(service) = 2 /\ service' = <<service[2], service[1]>>
     \/ UNCHANGED service
  /\ Finish(w)
  /\ trouble' = trouble \cup {"lost"}
  /\ UNCHANGED <<data, queued, request, repeats>>

(* Defect: the deployments are not deleted with the application. *)
HardDeleteOnly(w) ==
  /\ app = "deleting"
  /\ \A d \in DOMAIN ledger : ~Locked(d)
  /\ Take(w, [kind |-> "delete", dep |-> 0], "removing")
  /\ app' = "gone"
  /\ UNCHANGED <<settings, ledger, service, request, repeats, trouble>>

(* HardDelete in a transaction; the deployments go with the application. *)
HardDelete(w) ==
  /\ app = "deleting"
  /\ \A d \in DOMAIN ledger : ~Locked(d)
  /\ Take(w, [kind |-> "delete", dep |-> 0], "removing")
  /\ app' = "gone"
  /\ ledger' = <<>>
  /\ trouble' = IF Running("deploy") # {} THEN trouble \cup {"overlap"} ELSE trouble
  /\ UNCHANGED <<settings, service, request, repeats>>

(* RemoveService comes after the commit, and an error is only logged. *)
RemoveService(w) ==
  /\ worker[w].pc = "removing"
  /\ \/ service' = <<>> /\ UNCHANGED trouble
     \/ UNCHANGED service /\ trouble' = trouble \cup {"lost"}
  /\ Finish(w)
  /\ UNCHANGED <<data, queued, request, repeats>>

-----------------------------------------------------------------------------

(* The sweep finds the row of a task that still runs, and enqueues it again. *)
Redeliver(w) ==
  /\ worker[w] # Idle
  /\ Repeat
  /\ queued' = queued \cup {worker[w].task}
  /\ UNCHANGED <<data, service, request, worker, trouble>>

(* The process stops: open transactions are rolled back, the tasks that ran   *)
(* have a row and are delivered again, the requests of the API are lost.      *)
Crash ==
  /\ Repeat
  /\ queued' = queued \cup {worker[w].task : w \in {v \in Workers : worker[v] # Idle}}
  /\ worker' = [w \in Workers |-> Idle]
  /\ request' = [r \in Resolvers |-> NoTask]
  /\ trouble' = trouble
       \cup (IF \E r \in Resolvers : request[r] # NoTask THEN {"refused"} ELSE {})
       \cup (IF \E w \in Workers : worker[w].pc = "removing" THEN {"lost"} ELSE {})
  /\ UNCHANGED <<data, service>>

Resolve(r) ==
  \/ \E src \in Sources : \/ CreateApplication(r, src)
                         \/ \E reload \in BOOLEAN : UpdateApplication(r, src, reload)
  \/ RebuildApplication(r) \/ redeployApp(r) \/ SleepOrWake(r) \/ DeleteApplication(r)
  \/ \E d \in Ids : ForceUpdate(r, d)

Start(w, t) ==
  \/ t.kind = "build" /\ StartBuild(w, t.dep)
  \/ t.kind = "deploy" /\ StartDeploy(w, t.dep)
  \/ t.kind = "delete" /\ HardDelete(w)
  \/ SkipTask(w, t)

Work(w) ==
  \/ BuildSucceeds(w) \/ BuildFails(w) \/ CommitBuilt(w) \/ EnqueueDeploy(w) \/ MarkFailed(w)
  \/ FindCurrent(w) \/ MarkDeployed(w) \/ UpdateService(w) \/ DeployFails(w)
  \/ CommitDeploy(w) \/ CommitFails(w) \/ RemoveService(w)

Next ==
  \/ \E r \in Resolvers : Resolve(r) \/ Enqueue(r)
  \/ \E d \in Ids : CancelDeployment(d)
  \/ \E w \in Workers : Work(w) \/ Redeliver(w) \/ \E t \in Tasks : Start(w, t)
  \/ Crash

(* A goroutine that can go on does, and a channel is first in, first out: a   *)
(* task is taken in the end, whatever is enqueued behind it.                  *)
Fairness ==
  /\ \A w \in Workers : WF_vars(Work(w))
  /\ \A t \in Tasks : SF_vars(\E w \in Workers : Start(w, t))

Spec == Init /\ [][Next]_vars /\ Fairness

-----------------------------------------------------------------------------
(* Properties *)

(* The shape of the variables; a stored status is one the code writes. *)
TypeOK ==
  /\ app \in {"absent", "live", "deleting", "gone"}
  /\ settings \in 0..MaxSettings
  /\ DOMAIN ledger = 1..Len(ledger) /\ Len(ledger) <= MaxDeployments
  /\ \A d \in DOMAIN ledger : ledger[d].source \in Sources /\ ledger[d].status \in Statuses
  /\ app \in {"absent", "gone"} <=> ledger = <<>>
  /\ Len(service) <= 2
  /\ queued \subseteq Tasks
  /\ \A r \in Resolvers : request[r] \in Tasks \cup {NoTask}
  /\ \A w \in Workers : /\ worker[w].task \in Tasks \cup {NoTask}
                        /\ worker[w] = Idle <=> worker[w].task = NoTask
                        /\ worker[w].current \in Ids \cup {0}

(* Unless two deploy transactions overlapped, at most one deployment of the     *)
(* application is marked deployed: the transaction that marks one stalls the    *)
(* one it found, across failures, redeliveries and crashes                      *)
(* (process_application_deploy_request.go:253-270).                             *)
OneDeployed == "overlap" \notin trouble => Cardinality(Deployed) <= 1

Quiet == /\ queued = {}
         /\ \A w \in Workers : worker[w] = Idle
         /\ \A r \in Resolvers : request[r] = NoTask

(* When nothing is left to do, the service runs the deployment that is marked   *)
(* deployed. Docker is updated before the commit                                *)
(* (process_application_deploy_request.go:310-329), so what keeps the two       *)
(* together is the redelivery of an interrupted deploy; exempt are the windows  *)
(* in which the code gives that up.                                             *)
ServedIsDeployed ==
  Quiet /\ service # <<>> /\ trouble \subseteq {"failure"}
    => Exists(service[1].dep) /\ ledger[service[1].dep].status = "deployed"

(* And its spec was made from the application's latest settings: every change   *)
(* of them is followed by a deploy that reads them                              *)
(* (application.resolvers.go:225-236, 369-374).                                 *)
SettingsReachService ==
  Quiet /\ service # <<>> /\ trouble = {} => service[1].settings = settings

(* A deleted application is not served by anyone once nothing is left to do      *)
(* (process_application_delete_request.go:50-59), unless a deploy was running     *)
(* when it was deleted, or its service could not be removed.                    *)
DeletedIsNotServed ==
  Quiet /\ app = "gone" /\ trouble \subseteq {"failure"} => service = <<>>

(* A deployment whose build task was accepted does not stay pending             *)
(* (process_application_build_request.go:53-64, 117-126), unless the database   *)
(* refused the status.                                                          *)
BuildsSettle ==
  \A d \in Ids :
    Exists(d) /\ ledger[d].status = "pending" /\ [kind |-> "build", dep |-> d] \in queued
      ~> \/ ~Exists(d) \/ ledger[d].status # "pending" \/ "lost" \in trouble
=============================================================================
