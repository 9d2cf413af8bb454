---------------------------- MODULE IngressRules ----------------------------
(***************************************************************************)
(* Ingress rules of one domain: the rows of the database, the tasks that   *)
(* apply them to every active proxy, delete them and redirect http to      *)
(* https, and the configuration of the proxies.                            *)
(*                                                                         *)
(* A task opens a transaction on each HAProxy, edits the copy, and commits *)
(* them one after the other. A transaction is made for a version of the    *)
(* configuration and cannot be committed once another one was: this is all *)
(* that keeps concurrent tasks apart. The UDP proxy has no transactions.   *)
(* The task queue is that of ApplicationDeployment.                        *)
(***************************************************************************)
EXTENDS Naturals, Sequences, FiniteSets

CONSTANTS
  Proxies,    (* the active proxies; all are online, or no task begins      *)
  Workers,    (* consumer goroutines of the three queues                    *)
  Resolvers,  (* requests of the API                                        *)
  Inputs,     (* the rules that may be asked for: protocol, port, target    *)
  External,   (* the targets that are no application                        *)
  MaxRules,   (* bound on the rules created                                 *)
  MaxExtras   (* bound on further requests, redeliveries, failures, crashes *)

(* Create refuses https on any other port (ingress_rule.operations.go:55-57). *)
ASSUME InputAssumption ==
  \A i \in Inputs : /\ i.protocol \in {"http", "https", "tcp", "udp"} /\ i.port \in Nat
                    /\ i.protocol = "https" => i.port = 443
ASSUME BoundAssumption == {MaxRules, MaxExtras} \subseteq Nat

VARIABLES
  rules,    (* the rows, by id; a deleted one has status gone               *)
  conf,     (* per proxy, what it runs                                      *)
  queued,   (* tasks a worker may take                                      *)
  request,  (* per resolver, how far it is                                  *)
  worker,   (* per worker, its task and its open transactions               *)
  extras,   (* further requests, redeliveries, failures and crashes so far  *)
  (* Observation only; no action reads it. *)
  trouble   (* what has gone wrong so far                                   *)

vars == <<rules, conf, queued, request, worker, extras, trouble>>

Ids      == 1..MaxRules
Tasks    == [kind : {"apply", "delete"}, rule : Ids, on : {FALSE}]
            \cup [kind : {"redirect"}, rule : Ids, on : BOOLEAN]
NoTask   == [kind |-> "none", rule |-> 0, on |-> FALSE]
NoInput  == [protocol |-> "none", port |-> 0, target |-> "none"]
Ready    == [pc |-> "idle", input |-> NoInput, task |-> NoTask]
Idle     == [pc |-> "idle", task |-> NoTask, redirect |-> FALSE, tx |-> <<>>, failed |-> FALSE]

Live(id)  == id \in DOMAIN rules /\ rules[id].status # "gone"
Deleting(id) == id \in DOMAIN rules /\ rules[id].status = "deleting"
Rows      == {id \in DOMAIN rules : Live(id)}
Mode(i)   == IF i.protocol \in {"http", "https"} THEN "http" ELSE i.protocol
Link(i)   == [port |-> i.port, mode |-> Mode(i), target |-> i.target]
Backend(l) == [target |-> l.target, tcp |-> l.mode = "tcp"]

(* The transaction of a redirect task has updated the row: other writers wait. *)
Locked(id) == \E w \in Workers : /\ worker[w].pc = "commit" /\ ~worker[w].failed
                                 /\ worker[w].task.kind = "redirect"
                                 /\ worker[w].task.rule = id

-----------------------------------------------------------------------------

Init ==
  /\ rules = <<>>
  /\ conf = [p \in Proxies |-> [links |-> {}, backends |-> {}, redirect |-> FALSE]]
  /\ queued = {}
  /\ request = [r \in Resolvers |-> Ready]
  /\ worker = [w \in Workers |-> Idle]
  /\ extras = 0
  /\ trouble = {}

-----------------------------------------------------------------------------
(* The resolvers *)

Extra == extras < MaxExtras /\ extras' = extras + 1

(* A domain has one rule per port; a TCP rule wants the port for itself, an HTTP *)
(* rule does not look for TCP rules. No redirect may take the place of http.      *)
IsValidNewIngressRule(i) ==
  LET on(protocols) == \E id \in Rows : /\ rules[id].input.protocol \in protocols
                                        /\ rules[id].input.port = i.port
  IN  /\ Mode(i) = "http" => ~on({"http", "https"})
      /\ Mode(i) = "tcp" => ~on({"http", "https", "tcp"})
      /\ Mode(i) = "udp" => ~on({"udp"})
      /\ i.protocol = "http" /\ i.port = 80 => \A id \in Rows : ~rules[id].redirect

(* Create validates with queries of its own, and then inserts. *)
ValidateNew(r, i) ==
  /\ request[r] = Ready
  /\ Len(rules) + Cardinality({q \in Resolvers : request[q].pc = "valid"}) < MaxRules
  /\ IsValidNewIngressRule(i)
  /\ request' = [request EXCEPT ![r] = [Ready EXCEPT !.pc = "valid", !.input = i]]
  /\ UNCHANGED <<rules, conf, queued, worker, trouble, extras>>

Ask(r, kind, id, on) ==
  request' = [request EXCEPT ![r] = [Ready EXCEPT !.pc = "ask",
                                       !.task = [kind |-> kind, rule |-> id, on |-> on]]]

Insert(r) ==
  /\ request[r].pc = "valid"
  /\ rules' = Append(rules, [input |-> request[r].input, status |-> "pending", redirect |-> FALSE])
  /\ Ask(r, "apply", Len(rules) + 1, FALSE)
  /\ trouble' = IF IsValidNewIngressRule(request[r].input) THEN trouble ELSE trouble \cup {"race"}
  /\ UNCHANGED <<conf, queued, worker, extras>>

RecreateIngressRule(r, id) ==
  /\ request[r] = Ready
  /\ Extra
  /\ Live(id) /\ ~Deleting(id)
  /\ Ask(r, "apply", id, FALSE)
  /\ UNCHANGED <<rules, conf, queued, worker, trouble>>

(* A rule that is deleting already is answered with an error, and enqueued again. *)
DeleteIngressRule(r, id) ==
  /\ request[r] = Ready
  /\ Live(id) /\ ~Locked(id)
  /\ IF Deleting(id) THEN Extra ELSE UNCHANGED extras
  /\ rules' = [rules EXCEPT ![id].status = "deleting"]
  /\ Ask(r, "delete", id, FALSE)
  /\ UNCHANGED <<conf, queued, worker, trouble>>

EnableHTTPSRedirect(r, id) ==
  /\ request[r] = Ready
  /\ Extra
  /\ Live(id) /\ ~Deleting(id)
  /\ rules[id].input.protocol = "https"
  /\ \A other \in Rows : rules[other].input.protocol = "http" => rules[other].input.port # 80
  /\ Ask(r, "redirect", id, TRUE)
  /\ UNCHANGED <<rules, conf, queued, worker, trouble>>

DisableHTTPSRedirect(r, id) ==
  /\ request[r] = Ready
  /\ Live(id) /\ rules[id].redirect
  /\ Ask(r, "redirect", id, FALSE)
  /\ UNCHANGED <<rules, conf, queued, worker, trouble, extras>>

(* EnqueueTask accepts, or answers with an error before or after it wrote the row. *)
Enqueue(r) ==
  /\ request[r].pc = "ask"
  /\ request' = [request EXCEPT ![r] = Ready]
  /\ \/ queued' = queued \cup {request[r].task} /\ UNCHANGED trouble
     \/ queued' \in {queued, queued \cup {request[r].task}} /\ trouble' = trouble \cup {"refused"}
  /\ UNCHANGED <<rules, conf, worker, extras>>

-----------------------------------------------------------------------------
(* What a task does to the copy of a proxy's configuration *)

AddLink(c, i) ==
  [c EXCEPT !.links = @ \cup {Link(i)},
            !.backends = IF Mode(i) = "udp" THEN @ ELSE @ \cup {Backend(Link(i))}]

(* A frontend of the other mode has the port. *)
Clashes(c, i) == /\ i.port \notin {80, 443} /\ Mode(i) # "udp"
                 /\ \E l \in c.links : l.port = i.port /\ l.mode \notin {Mode(i), "udp"}

(* Rows with the same application and target port; a target that is no         *)
(* application has a NULL application_id, which equals nothing.                *)
UsedByOther(id) == /\ rules[id].input.target \notin External
                   /\ \E other \in Rows \ {id} : rules[other].input.target = rules[id].input.target

(* Defect: the redirect to https is left behind. *)
RemoveLinkOnly(c, id, redirected) ==
  LET l == Link(rules[id].input)
  IN  [c EXCEPT !.links = IF l.mode = "tcp" THEN {k \in @ : [k EXCEPT !.target = l.target] # l}
                          ELSE @ \ {l},
                !.backends = IF l.mode = "udp" \/ UsedByOther(id) THEN @ ELSE @ \ {Backend(l)}]

(* A TCP frontend goes with every link it has. *)
RemoveLink(c, id, redirected) ==
  LET l == Link(rules[id].input)
  IN  [links    |-> IF l.mode = "tcp" THEN {k \in c.links : [k EXCEPT !.target = l.target] # l}
                    ELSE c.links \ {l},
       backends |-> IF l.mode = "udp" \/ UsedByOther(id) THEN c.backends
                    ELSE c.backends \ {Backend(l)},
       redirect |-> c.redirect /\ ~(rules[id].input.protocol = "https" /\ redirected)]

Edited(c, w) ==
  LET t == worker[w].task
  IN  CASE t.kind = "apply"    -> AddLink(c, rules[t.rule].input)
        [] t.kind = "delete"   -> RemoveLink(c, t.rule, worker[w].redirect)
        [] t.kind = "redirect" -> [c EXCEPT !.redirect = t.on]

-----------------------------------------------------------------------------
(* The workers *)

Direct(w) == Mode(rules[worker[w].task.rule].input) = "udp"

Wanted(t) ==
  /\ Live(t.rule)
  /\ t.kind = "delete" <=> Deleting(t.rule)
  /\ t.kind = "redirect" => rules[t.rule].input.protocol = "https"

(* The task reads the row; one that is out of date is done. *)
Start(w, t) ==
  /\ worker[w] = Idle
  /\ t \in queued
  /\ queued' = queued \ {t}
  /\ IF Wanted(t)
     THEN /\ worker' = [worker EXCEPT ![w] = [Idle EXCEPT !.pc = "begin", !.task = t,
                                                          !.redirect = rules[t.rule].redirect]]
          /\ trouble' = IF \E v \in Workers : worker[v].task.rule = t.rule
                        THEN trouble \cup {"overlap"} ELSE trouble
     ELSE UNCHANGED <<worker, trouble>>
  /\ UNCHANGED <<rules, conf, request, extras>>

Opened(w) == DOMAIN worker[w].tx
After(w)  == IF worker[w].task.kind = "redirect" THEN "mark" ELSE "commit"
Open(w, p, transaction) ==
  worker' = [worker EXCEPT ![w].tx = [q \in Opened(w) \cup {p} |-> IF q = p THEN transaction ELSE @[q]],
                           ![w].pc = IF Opened(w) \cup {p} = Proxies THEN After(w) ELSE @]

(* FetchNewTransactionId and the edits, on the copy the proxy made of its       *)
(* configuration. On a UDP proxy the edit is made at once.                      *)
Begin(w, p) ==
  /\ worker[w].pc = "begin"
  /\ p \notin Opened(w)
  /\ worker[w].task.kind = "apply" => ~Clashes(conf[p], rules[worker[w].task.rule].input)
  /\ Open(w, p, [conf |-> Edited(conf[p], w), stale |-> FALSE])
  /\ conf' = IF Direct(w) THEN [conf EXCEPT ![p] = Edited(@, w)] ELSE conf
  /\ UNCHANGED <<rules, queued, request, trouble, extras>>

Collides(w) == \E p \in Proxies : /\ worker[w].task.kind = "apply"
                                 /\ Clashes(conf[p], rules[worker[w].task.rule].input)

(* A call of the proxy fails, or the edit is refused: nothing is committed. *)
BeginFails(w) ==
  /\ worker[w].pc \in {"begin", "mark"}
  /\ IF Collides(w) THEN UNCHANGED extras ELSE Extra
  /\ worker' = [worker EXCEPT ![w].pc = "commit", ![w].failed = TRUE, ![w].tx = <<>>]
  /\ trouble' = trouble \cup {"failure"}
  /\ UNCHANGED <<rules, conf, queued, request>>

(* IngressRuleDelete goes on without a transaction id, which fails in the commit. *)
BeginWithoutId(w, p) ==
  /\ worker[w].pc = "begin" /\ Extra
  /\ worker[w].task.kind = "delete" /\ ~Direct(w)
  /\ p \notin Opened(w)
  /\ Open(w, p, [conf |-> conf[p], stale |-> TRUE])
  /\ trouble' = trouble \cup {"failure"}
  /\ UNCHANGED <<rules, conf, queued, request>>

(* UpdateHttpsRedirectStatus, in a transaction of the database. *)
MarkRedirect(w) ==
  /\ worker[w].pc = "mark"
  /\ ~Locked(worker[w].task.rule)
  /\ worker' = [worker EXCEPT ![w].pc = "commit"]
  /\ UNCHANGED <<rules, conf, queued, request, trouble, extras>>

(* HAProxy takes over the copy; the UDP proxy beside it is not concerned. *)
Committed(c, copy) ==
  [copy EXCEPT !.links = {l \in @ : l.mode # "udp"} \cup {l \in c.links : l.mode = "udp"}]

(* Defect: the version of a transaction is not looked at. *)
CommitUnversioned(w, p) ==
  /\ worker[w].pc = "commit"
  /\ p \in Opened(w)
  /\ conf' = IF Direct(w) THEN conf ELSE [conf EXCEPT ![p] = Committed(@, worker[w].tx[p].conf)]
  /\ worker' = [worker EXCEPT ![w].tx = [q \in Opened(w) \ {p} |-> @[q]]]
  /\ UNCHANGED <<rules, queued, request, trouble, extras>>

(* CommitTransaction, in the order of a map: any. The transactions others have  *)
(* open on this proxy are out of date from now on.                              *)
CommitTransaction(w, p) ==
  /\ worker[w].pc = "commit"
  /\ p \in Opened(w) /\ ~worker[w].tx[p].stale
  /\ conf' = IF Direct(w) THEN conf ELSE [conf EXCEPT ![p] = Committed(@, worker[w].tx[p].conf)]
  /\ worker' = [v \in Workers |->
                  IF v = w THEN [worker[w] EXCEPT !.tx = [q \in Opened(w) \ {p} |-> @[q]]]
                  ELSE IF p \in Opened(v) /\ ~Direct(v) /\ ~Direct(w)
                       THEN [worker[v] EXCEPT !.tx[p].stale = TRUE]
                  ELSE worker[v]]
  /\ UNCHANGED <<rules, queued, request, trouble, extras>>

(* The version has changed, or the proxy fails: the rest is not committed, but  *)
(* what is committed stays.                                                     *)
CommitFails(w, p) ==
  /\ worker[w].pc = "commit" /\ ~Direct(w)
  /\ p \in Opened(w)
  /\ IF worker[w].tx[p].stale THEN UNCHANGED extras ELSE Extra
  /\ worker' = [worker EXCEPT ![w].tx = <<>>, ![w].failed = TRUE]
  /\ trouble' = trouble \cup {"failure"}
  /\ UNCHANGED <<rules, conf, queued, request>>

SetStatus(id, s) == IF Live(id) THEN [rules EXCEPT ![id].status = s] ELSE rules
Done(w) == worker[w].pc = "commit" /\ Opened(w) = {}
Finish(w) == worker' = [worker EXCEPT ![w] = Idle] /\ UNCHANGED <<conf, queued, request, trouble, extras>>

(* Defect: a failed commit is logged and forgotten. *)
FinishApplyOptimistic(w) ==
  /\ Done(w) /\ worker[w].task.kind = "apply"
  /\ ~Locked(worker[w].task.rule)
  /\ rules' = SetStatus(worker[w].task.rule, "applied")
  /\ Finish(w)

(* UpdateStatus writes over whatever the status is by now. *)
FinishApply(w) ==
  /\ Done(w) /\ worker[w].task.kind = "apply"
  /\ ~Locked(worker[w].task.rule)
  /\ rules' = SetStatus(worker[w].task.rule, IF worker[w].failed THEN "failed" ELSE "applied")
  /\ Finish(w)

(* Defect: the row is deleted whether or not the proxies were changed. *)
FinishDeleteAlways(w) ==
  /\ Done(w) /\ worker[w].task.kind = "delete"
  /\ ~Locked(worker[w].task.rule)
  /\ rules' = SetStatus(worker[w].task.rule, "gone")
  /\ Finish(w)

(* Defect: a rule that could not be deleted stays deleting. *)
FinishDeleteOrStay(w) ==
  /\ Done(w) /\ worker[w].task.kind = "delete"
  /\ ~Locked(worker[w].task.rule)
  /\ rules' = IF worker[w].failed THEN rules ELSE SetStatus(worker[w].task.rule, "gone")
  /\ Finish(w)

FinishDelete(w) ==
  /\ Done(w) /\ worker[w].task.kind = "delete"
  /\ ~Locked(worker[w].task.rule)
  /\ rules' = SetStatus(worker[w].task.rule, IF worker[w].failed THEN "failed" ELSE "gone")
  /\ Finish(w)

(* The commit of the database transaction, or its rollback. *)
FinishRedirect(w) ==
  LET t == worker[w].task
  IN  /\ Done(w) /\ t.kind = "redirect"
      /\ rules' = IF worker[w].failed \/ ~Live(t.rule) THEN rules
                  ELSE [rules EXCEPT ![t.rule].redirect = t.on]
      /\ Finish(w)

(* Defect: the worker goes on to the next task with what is left of this one. *)
SaveFailsHalfway(w) ==
  /\ Done(w) /\ Extra
  /\ queued' = queued \cup {worker[w].task}
  /\ worker' = [worker EXCEPT ![w].pc = "idle"]
  /\ trouble' = trouble \cup {"failure"}
  /\ UNCHANGED <<rules, conf, request>>

(* The database refuses: the error is returned, and the task delivered again. *)
SaveFails(w) ==
  /\ Done(w) /\ Extra
  /\ queued' = queued \cup {worker[w].task}
  /\ worker' = [worker EXCEPT ![w] = Idle]
  /\ trouble' = trouble \cup {"failure"}
  /\ UNCHANGED <<rules, conf, request>>

-----------------------------------------------------------------------------

(* The sweep finds the row of a task that still runs, and enqueues it again. *)
Redeliver(w) ==
  /\ worker[w] # Idle
  /\ Extra
  /\ queued' = queued \cup {worker[w].task}
  /\ UNCHANGED <<rules, conf, request, worker, trouble>>

(* The process stops: the tasks that ran have a row and are delivered again. *)
Crash ==
  /\ Extra
  /\ queued' = queued \cup {worker[w].task : w \in {v \in Workers : worker[v] # Idle}}
  /\ worker' = [w \in Workers |-> Idle]
  /\ request' = [r \in Resolvers |-> Ready]
  /\ trouble' = trouble
       \cup (IF \E r \in Resolvers : request[r].pc = "ask" THEN {"refused"} ELSE {})
       \cup (IF \E w \in Workers : worker[w] # Idle THEN {"failure"} ELSE {})
  /\ UNCHANGED <<rules, conf>>

Resolve(r) ==
  \/ \E i \in Inputs : ValidateNew(r, i)
  \/ Insert(r) \/ Enqueue(r)
  \/ \E id \in Ids : \/ RecreateIngressRule(r, id) \/ DeleteIngressRule(r, id)
                     \/ EnableHTTPSRedirect(r, id) \/ DisableHTTPSRedirect(r, id)

Work(w) ==
  \/ \E p \in Proxies : \/ Begin(w, p) \/ BeginWithoutId(w, p)
                        \/ CommitTransaction(w, p) \/ CommitFails(w, p)
  \/ BeginFails(w) \/ MarkRedirect(w)
  \/ FinishApply(w) \/ FinishDelete(w) \/ FinishRedirect(w) \/ SaveFails(w)

Next ==
  \/ \E r \in Resolvers : Resolve(r)
  \/ \E w \in Workers : Work(w) \/ Redeliver(w) \/ \E t \in Tasks : Start(w, t)
  \/ Crash

(* A goroutine that can go on does; a task in the queue is taken in the end. No   *)
(* more than the tasks that delete is needed.                                    *)
Fairness ==
  /\ \A r \in Resolvers : WF_vars(Enqueue(r))
  /\ \A w \in Workers : WF_vars(Work(w))
  /\ \A t \in {u \in Tasks : u.kind = "delete"} : SF_vars(\E w \in Workers : Start(w, t))

Spec == Init /\ [][Next]_vars /\ Fairness

-----------------------------------------------------------------------------
(* Properties *)

(* The shape of the variables; a transaction is open only while a task runs. *)
TypeOK ==
  /\ Len(rules) <= MaxRules
  /\ \A id \in DOMAIN rules :
       /\ rules[id].input \in Inputs /\ rules[id].redirect \in BOOLEAN
       /\ rules[id].status \in {"pending", "applied", "failed", "deleting", "gone"}
  /\ queued \subseteq Tasks
  /\ \A r \in Resolvers : /\ request[r].task \in Tasks \cup {NoTask}
                          /\ request[r].input \in Inputs \cup {NoInput}
  /\ \A w \in Workers : /\ worker[w].task \in Tasks \cup {NoTask}
                        /\ Opened(w) \subseteq Proxies
                        /\ (worker[w].pc = "idle" \/ worker[w].task = NoTask) => worker[w] = Idle

(* A rule that is said to be applied is linked on every proxy, and so it stays   *)
(* while tasks of other rules edit the same configuration                        *)
(* (process_ingress_rule_apply_request.go:166-186).                              *)
AppliedIsLinked ==
  trouble \cap {"overlap", "race"} = {} =>
    \A id \in DOMAIN rules, p \in Proxies :
      rules[id].status = "applied" => Link(rules[id].input) \in conf[p].links

(* A link leads to a backend its proxy has: the backend of an application is     *)
(* shared by the rules of one target port, and goes with the last of them        *)
(* (process_ingress_rule_delete_request.go:182-199).                             *)
LinkedBackendExists ==
  "overlap" \notin trouble =>
    \A p \in Proxies : \A l \in conf[p].links :
      l.mode # "udp" /\ l.target \notin External => Backend(l) \in conf[p].backends

(* Every link is that of a row: the row goes last, when every proxy has given    *)
(* up its link (process_ingress_rule_delete_request.go:218-241).                 *)
LinkHasRule ==
  "overlap" \notin trouble =>
    \A p \in Proxies : \A l \in conf[p].links :
      \E id \in Rows : Link(rules[id].input) = l

(* A rule that is being deleted is not forgotten: its task is waiting, running,  *)
(* or about to be enqueued (ingress_rule.resolvers.go:149-161).                  *)
DeletingIsAttended ==
  "refused" \notin trouble =>
    \A id \in Ids : Deleting(id) =>
      \E t \in queued \cup {worker[w].task : w \in Workers} \cup {request[r].task : r \in Resolvers} :
        t.kind = "delete" /\ t.rule = id

Quiet == /\ queued = {}
         /\ \A w \in Workers : worker[w] = Idle
         /\ \A r \in Resolvers : request[r] = Ready

(* When nothing is left to do, the proxies redirect the domain exactly if a rule  *)
(* says so (process_ingress_rule_https_redirect.go:86-116,                        *)
(* process_ingress_rule_delete_request.go:131-138).                               *)
RedirectFollowsRule ==
  Quiet /\ trouble = {} =>
    \A p \in Proxies : conf[p].redirect <=> \E id \in Rows : rules[id].redirect

(* A rule does not stay deleting (process_ingress_rule_delete_request.go:236-241), *)
(* unless its task was refused.                                                   *)
DeletingSettles ==
  \A id \in Ids : Deleting(id) ~> (~Deleting(id) \/ "refused" \in trouble)
=============================================================================
