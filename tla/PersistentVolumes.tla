-------------------------- MODULE PersistentVolumes --------------------------
(***************************************************************************)
(* One name of a persistent volume: its rows, the docker volumes of that   *)
(* name on all servers, and the backups and restores of it, with the files *)
(* they keep (core/pv*.go, worker/process_pv_*.go and their resolvers).    *)
(* A step is a statement, a call of docker or of the storage, or a commit. *)
(* Docker, S3 and Postgres are modelled from what the code calls of them;  *)
(* rows written in an open transaction are locked until it ends.           *)
(***************************************************************************)
EXTENDS Naturals, FiniteSets

CONSTANTS
  Servers, Resolvers, Workers,
  Backups,     (* ids of backup rows, each used once                       *)
  Restores,    (* ids of restore rows, each used once                      *)
  MaxVolumes,  (* bound on the ids of volume rows                          *)
  MaxExtras    (* bound on outages, failures, redeliveries and crashes     *)

ASSUME MaxVolumesAssumption == MaxVolumes \in Nat \ {0}
ASSUME MaxExtrasAssumption == MaxExtras \in Nat
(* Requests and tasks are served by goroutines of their own.                 *)
ASSUME ProcessesAssumption == Resolvers \cap Workers = {}

VARIABLES
  row,         (* the id of the volume's row, 0 when there is none         *)
  created,     (* ids given out so far                                     *)
  bound,       (* an application binds the row                             *)
  status,      (* per server: "new", in its setup, "online" or "offline"   *)
  disk,        (* per server, docker has a volume of that name             *)
  backup,      (* per backup, its row                                      *)
  restore,     (* per restore, its row                                     *)
  files,       (* files of backups and restores                            *)
  queue,       (* tasks accepted and not finished                          *)
  proc,        (* what resolvers and workers are doing                     *)
  leaked,      (* volume rows that an upload's open transaction refers to  *)
               (* though its request has returned                          *)
  held,        (* backups deleted in transactions that never end           *)
  extras,
  watch        (* observation only; no action reads it                     *)

(* torn: servers set up while the volume was created, or whose setup could   *)
(* not create it. condemned: rows whose deletion was validated while nothing *)
(* bound them, or that met a late deletion of an earlier row. doomed:        *)
(* backups whose deletion was asked for. waived: tasks refused, or whose     *)
(* result could not be written. again: tasks delivered again. applied:       *)
(* restores whose import ran to its end.                                     *)
Watched == {"torn", "condemned", "doomed", "waived", "again", "applied"}

volume  == <<row, created, bound>>
machine == <<status, disk>>
archive == <<backup, restore, files>>
locks   == <<leaked, held>>
vars    == <<row, created, bound, status, disk, backup, restore, files, queue, proc, leaked,
             held, extras, watch>>

Ids       == 1..MaxVolumes
Processes == Resolvers \cup Workers
Tasks     == ({"delete"} \X Ids) \cup ({"backup"} \X Backups) \cup ({"restore"} \X Restores)

NoBackup  == [status |-> "none", volume |-> 0, kind |-> "local", file |-> 0]
NoRestore == [status |-> "none", volume |-> 0]
Idle      == [pc |-> "idle"]
(* Present: what a query finds. *)
Present   == {"pending", "success", "failed"}
Unprepared(s) == status[s] \notin {"online", "offline"}
Online    == {s \in Servers : status[s] = "online"}
Works(s)  == status[s] = "online" /\ disk[s]

(* The process starts with or without the volume.                            *)
Init ==
  /\ row \in 0..1 /\ created = row /\ bound = FALSE
  /\ status \in [Servers -> {"new", "online"}] /\ Online # {}
  /\ disk = [s \in Servers |-> row = 1 /\ s \in Online]
  /\ backup = [b \in Backups |-> NoBackup]
  /\ restore = [x \in Restores |-> NoRestore]
  /\ files = {} /\ queue = {} /\ proc = [p \in Processes |-> Idle]
  /\ leaked = {} /\ held = {} /\ extras = 0
  /\ watch = [x \in Watched |-> {}]

Become(p, state) == proc' = [proc EXCEPT ![p] = state]
Goto(p, pc)      == proc' = [proc EXCEPT ![p].pc = pc]
Return(p)        == proc' = [proc EXCEPT ![p] = Idle]
Extra            == extras < MaxExtras /\ extras' = extras + 1
NoExtra          == UNCHANGED extras
Note(what, S)    == watch' = [watch EXCEPT ![what] = @ \cup S]

-----------------------------------------------------------------------------
(* Servers: what Servers.tla has of them that concerns volumes *)

(* The setup reads the rows of all volumes ...                               *)
SetupReads(s) ==
  /\ status[s] = "new"
  /\ status' = [status EXCEPT ![s] = IF row = 0 THEN "skips" ELSE "adds"]
  /\ UNCHANGED <<volume, disk, archive, queue, proc, locks, extras, watch>>

(* ... removes and creates each, and goes on when docker refuses ...         *)
SetupAddsVolume(s) ==
  /\ status[s] = "adds"
  /\ status' = [status EXCEPT ![s] = "skips"]
  /\ \/ disk' = [disk EXCEPT ![s] = TRUE] /\ NoExtra /\ UNCHANGED watch
     \/ disk' = [disk EXCEPT ![s] = FALSE] /\ Extra /\ Note("torn", {s})
  /\ UNCHANGED <<volume, archive, queue, proc, locks>>

(* ... and the server is online.                                             *)
SetupEnds(s) ==
  /\ status[s] = "skips"
  /\ status' = [status EXCEPT ![s] = "online"]
  /\ UNCHANGED <<volume, disk, archive, queue, proc, locks, extras, watch>>

GoOffline(s) ==
  /\ status[s] = "online" /\ Extra
  /\ status' = [status EXCEPT ![s] = "offline"]
  /\ UNCHANGED <<volume, disk, archive, queue, proc, locks, watch>>

GoOnline(s) ==
  /\ status[s] = "offline"
  /\ status' = [status EXCEPT ![s] = "online"]
  /\ UNCHANGED <<volume, disk, archive, queue, proc, locks, extras, watch>>

-----------------------------------------------------------------------------
(* The creation of a volume, in its request *)

Creating(r, others) ==
  Become(r, [pc |-> "check", id |-> 0, todo |-> Online, others |-> others])

(* Defect: a server that is offline is passed over.                          *)
CreateIgnoringOffline(r) ==
  /\ proc[r] = Idle /\ row = 0 /\ created < MaxVolumes
  /\ Creating(r, {s \in Servers : Unprepared(s)})
  /\ UNCHANGED <<volume, machine, archive, queue, locks, extras, watch>>

(* No row has the name and no server is offline.                             *)
Create(r) ==
  /\ proc[r] = Idle /\ row = 0 /\ created < MaxVolumes
  /\ \A s \in Servers : status[s] # "offline"
  /\ Creating(r, {s \in Servers : Unprepared(s)})
  /\ UNCHANGED <<volume, machine, archive, queue, locks, extras, watch>>

(* No server has the volume: the row is inserted, and not committed. Another *)
(* insertion of the name waits, and fails when this one is committed.        *)
InsertRow(r) ==
  /\ proc[r].pc = "check"
  /\ \/ /\ \A s \in proc[r].todo : status[s] = "online" /\ ~disk[s]
        /\ row = 0 /\ created < MaxVolumes
        /\ \A q \in Resolvers : proc[q].pc # "create"
        /\ created' = created + 1
        /\ proc' = [proc EXCEPT ![r].pc = "create", ![r].id = created']
     \/ /\ row # 0 \/ \E s \in proc[r].todo : disk[s] \/ status[s] = "offline"
        /\ Return(r) /\ UNCHANGED created
  /\ UNCHANGED <<row, bound, machine, archive, queue, locks, extras, watch>>

CreateOnServer(r, s) ==
  /\ proc[r].pc = "create" /\ s \in proc[r].todo /\ status[s] = "online"
  /\ disk' = [disk EXCEPT ![s] = TRUE]
  /\ proc' = [proc EXCEPT ![r].todo = @ \ {s}]
  /\ UNCHANGED <<volume, status, archive, queue, locks, extras, watch>>

(* The row is rolled back; the servers that have the volume keep it.         *)
CreateFails(r, s) ==
  /\ proc[r].pc = "create" /\ s \in proc[r].todo
  /\ IF status[s] = "offline" THEN NoExtra ELSE Extra
  /\ Return(r)
  /\ UNCHANGED <<volume, machine, archive, queue, locks, watch>>

(* A server whose setup did not see the row has to do without the volume.    *)
CommitCreate(r) ==
  /\ proc[r].pc = "create" /\ proc[r].todo = {}
  /\ row' = proc[r].id
  /\ bound' = FALSE
  /\ Return(r)
  /\ Note("torn", {s \in proc[r].others : status[s] # "new"})
  /\ UNCHANGED <<created, machine, archive, queue, locks, extras>>

(* Applications bind the volume of the row, and release it.                  *)
Bind ==
  /\ row # 0
  /\ bound' = ~bound
  /\ UNCHANGED <<row, created, machine, archive, queue, proc, locks, extras, watch>>

-----------------------------------------------------------------------------
(* Requests that end with a task *)

DeletePersistentVolume(r) ==
  /\ proc[r] = Idle /\ row # 0 /\ ~bound
  /\ Become(r, [pc |-> "enqueue", task |-> <<"delete", row>>])
  /\ UNCHANGED <<volume, machine, archive, queue, locks, extras, watch>>

BackupPersistentVolume(r, b) ==
  /\ proc[r] = Idle /\ row # 0 /\ backup[b] = NoBackup
  /\ \E kind \in {"local", "s3"} :
       backup' = [backup EXCEPT ![b] = [status |-> "pending", volume |-> row, kind |-> kind,
                                        file |-> 0]]
  /\ Become(r, [pc |-> "enqueue", task |-> <<"backup", b>>])
  /\ UNCHANGED <<volume, machine, restore, files, queue, locks, extras, watch>>

(* The upload of a restore: its row is inserted in a transaction ...         *)
BeginUpload(r, x) ==
  /\ proc[r] = Idle /\ row # 0 /\ restore[x] = NoRestore
  /\ \A q \in Resolvers : proc[q].pc # "upload"
  /\ Become(r, [pc |-> "upload", item |-> x, id |-> row])
  /\ UNCHANGED <<volume, machine, archive, queue, locks, extras, watch>>

(* ... that an early return (a file that is no archive) leaves open ...      *)
UploadIsRejected(r) ==
  /\ proc[r].pc = "upload"
  /\ leaked' = leaked \cup {proc[r].id}
  /\ Return(r)
  /\ UNCHANGED <<volume, machine, archive, queue, held, extras, watch>>

(* ... and committed when the file is stored.                                *)
CommitUpload(r) ==
  LET x == proc[r].item IN
  /\ proc[r].pc = "upload"
  /\ restore' = [restore EXCEPT ![x] = [status |-> "pending", volume |-> proc[r].id]]
  /\ files' = files \cup {<<"restore", x, 0>>}
  /\ Become(r, [pc |-> "enqueue", task |-> <<"restore", x>>])
  /\ UNCHANGED <<volume, machine, backup, queue, locks, extras, watch>>

Enqueue(r) ==
  /\ proc[r].pc = "enqueue"
  /\ queue' = queue \cup {proc[r].task}
  /\ Return(r)
  /\ UNCHANGED <<volume, machine, archive, locks, extras, watch>>

(* The queue answers with an error, whether or not it will run the task. A   *)
(* backup stays pending; a restore is marked as failed.                      *)
EnqueueFails(r) ==
  /\ proc[r].pc = "enqueue" /\ Extra
  /\ queue' \in {queue, queue \cup {proc[r].task}}
  /\ Note("waived", {proc[r].task})
  /\ IF proc[r].task[1] = "restore" THEN Goto(r, "mark") ELSE Return(r)
  /\ UNCHANGED <<volume, machine, archive, locks>>

(* A row is saved with all its columns, and inserted when it is gone, unless *)
(* its volume is gone as well.                                               *)
SavedRestore(x, id, result) ==
  IF row = id THEN [restore EXCEPT ![x] = [status |-> result, volume |-> id]] ELSE restore

MarkRestoreFailed(r) ==
  LET x == proc[r].task[2] IN
  /\ proc[r].pc = "mark"
  /\ restore' = SavedRestore(x, restore[x].volume, "failed")
  /\ Return(r)
  /\ UNCHANGED <<volume, machine, backup, files, queue, locks, extras, watch>>

-----------------------------------------------------------------------------
(* Requests that delete backups and restores *)

(* The row is read, then its file is removed, then the row.                  *)
DeletePersistentVolumeBackup(r, b) ==
  /\ proc[r] = Idle /\ backup[b].status \in Present
  /\ Become(r, [pc |-> "unlink", item |-> b, copy |-> backup[b]])
  /\ Note("doomed", {b})
  /\ UNCHANGED <<volume, machine, archive, queue, locks, extras>>

FileOf(b, copy) == <<copy.kind, b, copy.file>>

RemoveFile(r) ==
  /\ proc[r].pc = "unlink"
  /\ files' = files \ {FileOf(proc[r].item, proc[r].copy)}
  /\ Goto(r, "forget")
  /\ UNCHANGED <<volume, machine, backup, restore, queue, locks, extras, watch>>

DeleteRow(r) ==
  LET b == proc[r].item IN
  /\ proc[r].pc = "forget" /\ b \notin held
  /\ backup' = [backup EXCEPT ![b] = [@ EXCEPT !.status = "deleted", !.file = 0]]
  /\ Return(r)
  /\ UNCHANGED <<volume, machine, restore, files, queue, locks, extras, watch>>

(* All backups of a volume: their files and rows are deleted in a            *)
(* transaction, and then the same rows once more on another connection,      *)
(* which waits for the end of the transaction that waits for it.             *)
DeletePersistentVolumeBackups(r) ==
  LET all == {b \in Backups : backup[b].status \in Present /\ backup[b].volume = row} IN
  /\ proc[r] = Idle /\ row # 0 /\ all # {}
  /\ held' = held \cup all
  /\ files' = files \ {FileOf(b, backup[b]) : b \in all \ held}
  /\ Note("doomed", all)
  /\ UNCHANGED <<volume, machine, backup, restore, queue, proc, leaked, extras>>

(* One restore, or all. The file is looked for in the directory of backups.  *)
DeletePersistentVolumeRestores(r, X) ==
  /\ proc[r] = Idle /\ \A x \in X : restore[x].status \in Present
  /\ restore' = [x \in Restores |-> IF x \in X THEN [restore[x] EXCEPT !.status = "deleted"]
                                               ELSE restore[x]]
  /\ UNCHANGED <<volume, machine, backup, files, queue, proc, locks, extras, watch>>

-----------------------------------------------------------------------------
(* The workers *)

(* A task is taken for good, or will be delivered again.                     *)
Take(w, t) ==
  /\ proc[w] = Idle /\ t \in queue
  /\ \E more \in BOOLEAN :
       /\ IF more THEN Extra ELSE NoExtra
       /\ queue' = IF more THEN queue ELSE queue \ {t}
       /\ watch' = [watch EXCEPT !.again = @ \cup (IF more THEN {t} ELSE {}),
            !.condemned = @ \cup (IF t[1] = "delete" /\ ~bound THEN {row} \cap {t[2]} ELSE {})]

(* An error of the function: the task stays, or comes back.                  *)
Retry(w, t) == Return(w) /\ queue' = queue \cup {t}

TakeDeletion(w, i) ==
  /\ Take(w, <<"delete", i>>)
  /\ IF row = i /\ ~bound
     THEN Become(w, [pc |-> "remove", id |-> i, todo |-> Servers, done |-> FALSE])
     ELSE UNCHANGED proc
  /\ UNCHANGED <<volume, machine, archive, locks>>

(* Whose volume it is that a late deletion removes.                          *)
OtherIds(i) == ({row} \cup {proc[r].id : r \in {q \in Resolvers : proc[q].pc = "create"}})
                 \ {0, i}

RemoveFromServer(w, s) ==
  /\ proc[w].pc = "remove" /\ s \in proc[w].todo /\ status[s] # "offline"
  /\ disk' = [disk EXCEPT ![s] = FALSE]
  /\ proc' = [proc EXCEPT ![w].todo = @ \ {s}, ![w].done = TRUE]
  /\ Note("condemned", OtherIds(proc[w].id))
  /\ UNCHANGED <<volume, status, archive, queue, locks, extras>>

(* Docker refuses: the volume is in use, or containers cannot be pruned.     *)
RemoveIsRefused(w, s) ==
  /\ proc[w].pc = "remove" /\ s \in proc[w].todo /\ status[s] # "offline"
  /\ IF bound THEN NoExtra ELSE Extra
  /\ proc' = [proc EXCEPT ![w].todo = @ \ {s}]
  /\ UNCHANGED <<volume, machine, archive, queue, locks, watch>>

(* A server without docker, or out of reach: the servers that follow keep    *)
(* the volume, those before have lost it, and the task is tried again.       *)
ServerFails(w, s) ==
  /\ proc[w].pc = "remove" /\ s \in proc[w].todo
  /\ IF status[s] = "online" THEN Extra ELSE NoExtra
  /\ Retry(w, <<"delete", proc[w].id>>)
  /\ UNCHANGED <<volume, machine, archive, locks, watch>>

RefersTo(r, i) == proc[r].pc = "upload" /\ proc[r].id = i

(* Defect: the rows of backups and restores do not go with their volume.     *)
DeleteVolumeRowOnly(w) ==
  /\ proc[w].pc = "remove" /\ proc[w].todo = {} /\ proc[w].done
  /\ Return(w)
  /\ row' = IF bound THEN row ELSE 0
  /\ UNCHANGED <<created, bound, machine, archive, queue, locks, extras, watch>>

(* The row goes with its backups and restores when one server at least has   *)
(* removed the volume. A binding forbids it; the worker takes that for done. *)
(* An open transaction that refers to the row, or holds one of the rows that *)
(* go with it, has to end first.                                             *)
DeleteVolumeRow(w) ==
  LET i == proc[w].id
      gone(x) == x.volume = i /\ x.status \in Present
  IN
  /\ proc[w].pc = "remove" /\ proc[w].todo = {}
  /\ IF ~proc[w].done
     THEN Retry(w, <<"delete", i>>) /\ UNCHANGED <<volume, archive>>
     ELSE /\ Return(w) /\ UNCHANGED queue
          /\ IF row = i /\ ~bound
             THEN /\ i \notin leaked /\ held = {} /\ \A r \in Resolvers : ~RefersTo(r, i)
                  /\ row' = 0
                  /\ backup' = [b \in Backups |-> IF gone(backup[b])
                       THEN [backup[b] EXCEPT !.status = "deleted", !.file = 0] ELSE backup[b]]
                  /\ restore' = [x \in Restores |-> IF gone(restore[x])
                       THEN [restore[x] EXCEPT !.status = "deleted"] ELSE restore[x]]
                  /\ UNCHANGED <<created, bound, files>>
             ELSE UNCHANGED <<volume, archive>>
  /\ UNCHANGED <<machine, locks, extras, watch>>

(* A backup or a restore works at any manager that is online; none is an     *)
(* error, and the task stays.                                                *)
TakeBackup(w, b) ==
  /\ Online # {}
  /\ Take(w, <<"backup", b>>)
  /\ IF backup[b].status = "pending" /\ row = backup[b].volume
     THEN \E s \in Online : Become(w, [pc |-> "dump", item |-> b, server |-> s,
                                       copy |-> [backup[b] EXCEPT !.status = "success"]])
     ELSE UNCHANGED proc
  /\ UNCHANGED <<volume, machine, archive, locks>>

(* The next name of a file; it is random in the code.                        *)
Fresh(b) == CHOOSE n \in 1..(Cardinality(files) + 1) :
              \A kind \in {"local", "s3"} : <<kind, b, n>> \notin files

(* Defect: a file that cannot be uploaded to S3 does not matter.             *)
DumpAnywhere(w) ==
  LET b == proc[w].item  n == Fresh(b) IN
  /\ proc[w].pc = "dump" /\ Works(proc[w].server)
  /\ files' = files \cup {<<"local", b, n>>}
  /\ proc' = [proc EXCEPT ![w].pc = "save", ![w].copy.file = n]
  /\ UNCHANGED <<volume, machine, backup, restore, queue, locks, extras, watch>>

(* The volume's data is copied to a local file.                              *)
Dump(w) ==
  LET b == proc[w].item  n == Fresh(b) IN
  /\ proc[w].pc = "dump" /\ Works(proc[w].server)
  /\ files' = files \cup {<<"local", b, n>>}
  /\ proc' = [proc EXCEPT ![w].pc = IF proc[w].copy.kind = "s3" THEN "store" ELSE "save",
                          ![w].copy.file = n]
  /\ UNCHANGED <<volume, machine, backup, restore, queue, locks, extras, watch>>

(* The file is uploaded, and removed here.                                   *)
StoreInS3(w) ==
  LET b == proc[w].item  n == proc[w].copy.file IN
  /\ proc[w].pc = "store"
  /\ files' = (files \cup {<<"s3", b, n>>}) \ {<<"local", b, n>>}
  /\ Goto(w, "save")
  /\ UNCHANGED <<volume, machine, backup, restore, queue, locks, extras, watch>>

(* Defect: the error is logged and nothing else.                             *)
BackupFailsSilently(w) ==
  /\ proc[w].pc \in {"dump", "store"}
  /\ IF proc[w].pc = "dump" /\ ~Works(proc[w].server) THEN NoExtra ELSE Extra
  /\ Return(w)
  /\ UNCHANGED <<volume, machine, archive, queue, locks, watch>>

(* The dump, the size of its file or the upload fails: what was written      *)
(* stays.                                                                    *)
BackupFails(w) ==
  /\ proc[w].pc \in {"dump", "store"}
  /\ IF proc[w].pc = "dump" /\ ~Works(proc[w].server) THEN NoExtra ELSE Extra
  /\ \/ UNCHANGED files
     \/ /\ proc[w].pc = "dump" /\ Works(proc[w].server)
        /\ files' = files \cup {<<"local", proc[w].item, Fresh(proc[w].item)>>}
  /\ proc' = [proc EXCEPT ![w].pc = "save", ![w].copy.file = 0, ![w].copy.status = "failed"]
  /\ UNCHANGED <<volume, machine, backup, restore, queue, locks, watch>>

(* An error of the insertion: its volume is gone. A success is tried again.  *)
SaveBackup(w) ==
  LET b == proc[w].item  i == proc[w].copy.volume IN
  /\ proc[w].pc = "save" /\ "copy" \in DOMAIN proc[w] /\ b \notin held
  /\ IF row = i
     THEN backup' = [backup EXCEPT ![b] = proc[w].copy] /\ Return(w) /\ UNCHANGED queue
     ELSE /\ UNCHANGED backup
          /\ IF proc[w].copy.status = "success" THEN Retry(w, <<"backup", b>>)
                                                ELSE Return(w) /\ UNCHANGED queue
  /\ UNCHANGED <<volume, machine, restore, files, locks, extras, watch>>

SaveBackupFails(w) ==
  LET t == <<"backup", proc[w].item>> IN
  /\ proc[w].pc = "save" /\ "copy" \in DOMAIN proc[w] /\ Extra
  /\ IF proc[w].copy.status = "success"
     THEN Retry(w, t) /\ UNCHANGED watch
     ELSE Return(w) /\ UNCHANGED queue /\ Note("waived", {t})
  /\ UNCHANGED <<volume, machine, archive, locks>>

TakeRestore(w, x) ==
  /\ Online # {}
  /\ Take(w, <<"restore", x>>)
  /\ IF restore[x].status = "pending" /\ row = restore[x].volume
     THEN \E s \in Online : Become(w, [pc |-> "restore", item |-> x, server |-> s])
     ELSE UNCHANGED proc
  /\ UNCHANGED <<volume, machine, archive, locks>>

RestoreFile(x) == <<"restore", x, 0>>

RestoreSucceeds(w) ==
  LET x == proc[w].item IN
  /\ proc[w].pc = "restore" /\ Works(proc[w].server) /\ RestoreFile(x) \in files
  /\ Note("applied", {x})
  /\ Become(w, [pc |-> "result", item |-> x, result |-> "success"])
  /\ UNCHANGED <<volume, machine, archive, queue, locks, extras>>

(* The import may have changed the volume all the same.                      *)
RestoreFails(w) ==
  LET x == proc[w].item IN
  /\ proc[w].pc = "restore"
  /\ IF Works(proc[w].server) /\ RestoreFile(x) \in files THEN Extra ELSE NoExtra
  /\ Become(w, [pc |-> "result", item |-> x, result |-> "failed"])
  /\ UNCHANGED <<volume, machine, archive, queue, locks, watch>>

(* The result is saved, and the file removed.                                *)
SaveRestore(w) ==
  LET x == proc[w].item  i == restore[x].volume IN
  /\ proc[w].pc = "result"
  /\ restore' = SavedRestore(x, i, proc[w].result)
  /\ IF row # i /\ proc[w].result = "success"
     THEN Retry(w, <<"restore", x>>) /\ UNCHANGED files
     ELSE Return(w) /\ files' = files \ {RestoreFile(x)} /\ UNCHANGED queue
  /\ UNCHANGED <<volume, machine, backup, locks, extras, watch>>

(* A restore that was done is done again; one that failed stays pending.     *)
SaveRestoreFails(w) ==
  LET t == <<"restore", proc[w].item>> IN
  /\ proc[w].pc = "result" /\ Extra
  /\ IF proc[w].result = "success"
     THEN Retry(w, t) /\ Note("again", {t}) /\ UNCHANGED files
     ELSE /\ Return(w) /\ files' = files \ {RestoreFile(proc[w].item)}
          /\ Note("waived", {t}) /\ UNCHANGED queue
  /\ UNCHANGED <<volume, machine, backup, restore, locks>>

-----------------------------------------------------------------------------

(* What a process was doing, as a task; that of a request is not queued yet. *)
TaskOf(p) == IF p \in Resolvers THEN proc[p].task
             ELSE CASE proc[p].pc = "remove" -> <<"delete", proc[p].id>>
                    [] proc[p].pc \in {"restore", "result"} -> <<"restore", proc[p].item>>
                    [] OTHER -> <<"backup", proc[p].item>>

(* The process starts again: open transactions are rolled back, and tasks    *)
(* that were under way come back, setups included.                           *)
Crash ==
  LET busy   == {TaskOf(w) : w \in {v \in Workers : proc[v] # Idle}}
      asking == {TaskOf(r) : r \in {q \in Resolvers : proc[q].pc \in {"enqueue", "mark"}}}
  IN
  /\ Extra
  /\ proc' = [p \in Processes |-> Idle]
  /\ queue' = queue \cup busy
  /\ watch' = [watch EXCEPT !.again = @ \cup busy, !.waived = @ \cup asking]
  /\ leaked' = {} /\ held' = {}
  /\ status' = [s \in Servers |-> IF status[s] \in {"adds", "skips"} THEN "new" ELSE status[s]]
  /\ UNCHANGED <<volume, disk, archive>>

Begin(r) ==
  \/ Create(r) \/ DeletePersistentVolume(r) \/ DeletePersistentVolumeBackups(r)
  \/ \E b \in Backups : BackupPersistentVolume(r, b) \/ DeletePersistentVolumeBackup(r, b)
  \/ \E x \in Restores : BeginUpload(r, x) \/ DeletePersistentVolumeRestores(r, {x})
  \/ LET X == {x \in Restores : restore[x].status \in Present /\ restore[x].volume = row}
     IN  X # {} /\ DeletePersistentVolumeRestores(r, X)

ResolverStep(r) ==
  \/ InsertRow(r) \/ CommitCreate(r) \/ \E s \in Servers : CreateOnServer(r, s) \/ CreateFails(r, s)
  \/ UploadIsRejected(r) \/ CommitUpload(r) \/ Enqueue(r) \/ EnqueueFails(r)
  \/ MarkRestoreFailed(r) \/ RemoveFile(r) \/ DeleteRow(r)

TakeTask(w) ==
  \/ \E i \in Ids : TakeDeletion(w, i)
  \/ \E b \in Backups : TakeBackup(w, b)
  \/ \E x \in Restores : TakeRestore(w, x)

WorkerStep(w) ==
  \/ \E s \in Servers : RemoveFromServer(w, s) \/ RemoveIsRefused(w, s) \/ ServerFails(w, s)
  \/ DeleteVolumeRow(w) \/ Dump(w) \/ StoreInS3(w) \/ BackupFails(w)
  \/ SaveBackup(w) \/ SaveBackupFails(w)
  \/ RestoreSucceeds(w) \/ RestoreFails(w) \/ SaveRestore(w) \/ SaveRestoreFails(w)

SomeBegin == \E r \in Resolvers : Begin(r)

Proceed ==
  \/ \E s \in Servers : \/ SetupReads(s) \/ SetupAddsVolume(s) \/ SetupEnds(s)
                        \/ GoOffline(s) \/ GoOnline(s)
  \/ \E r \in Resolvers : ResolverStep(r)
  \/ \E w \in Workers : TakeTask(w) \/ WorkerStep(w)
  \/ Crash

Next == Proceed \/ SomeBegin \/ Bind

(* Requests and workers that can go on do, servers come back, and a task in  *)
(* the queue is taken in the end.                                            *)
Fairness ==
  /\ \A r \in Resolvers : WF_vars(ResolverStep(r))
  /\ \A w \in Workers : WF_vars(WorkerStep(w))
  /\ \A s \in Servers : WF_vars(GoOnline(s))
  /\ \A i \in Ids : SF_vars(\E w \in Workers : TakeDeletion(w, i))
  /\ \A b \in Backups : SF_vars(\E w \in Workers : TakeBackup(w, b))
  /\ \A x \in Restores : SF_vars(\E w \in Workers : TakeRestore(w, x))

Spec == Init /\ [][Next]_vars /\ Fairness

-----------------------------------------------------------------------------

States ==
  {Idle}
  \cup [pc : {"check", "create"}, id : 0..MaxVolumes, todo : SUBSET Servers,
        others : SUBSET Servers]
  \cup [pc : {"enqueue", "mark"}, task : Tasks]
  \cup [pc : {"upload"}, item : Restores, id : Ids]
  \cup [pc : {"remove"}, id : Ids, todo : SUBSET Servers, done : BOOLEAN]
  \cup [pc : {"restore"}, item : Restores, server : Servers]
  \cup [pc : {"result"}, item : Restores, result : {"success", "failed"}]

BackupRows == [status : {"none", "pending", "success", "failed", "deleted"}, volume : 0..MaxVolumes,
               kind : {"local", "s3"}, file : Nat]

(* Every variable has its shape, a row was given its id, and only rows are   *)
(* bound.                                                                    *)
TypeOK ==
  /\ created \in 0..MaxVolumes /\ row \in 0..created /\ bound \in BOOLEAN
  /\ bound => row # 0
  /\ status \in [Servers -> {"new", "adds", "skips", "online", "offline"}]
  /\ disk \in [Servers -> BOOLEAN]
  /\ backup \in [Backups -> BackupRows]
  /\ restore \in [Restores -> [status : {"none", "pending", "success", "failed", "deleted"},
                               volume : 0..MaxVolumes]]
  /\ \A b \in Backups : backup[b].status \in Present => backup[b].volume = row
  /\ \A x \in Restores : restore[x].status \in Present => restore[x].volume = row
  /\ queue \subseteq Tasks /\ watch.waived \subseteq Tasks /\ watch.again \subseteq Tasks
  /\ \A p \in Processes :
       \/ proc[p] \in States
       \/ /\ DOMAIN proc[p] \in {{"pc", "item", "copy"}, {"pc", "item", "copy", "server"}}
          /\ proc[p].item \in Backups /\ proc[p].copy \in BackupRows
  /\ leaked \subseteq Ids /\ held \subseteq Backups
  /\ DOMAIN watch = Watched /\ watch.torn \subseteq Servers /\ watch.condemned \subseteq Ids
  /\ watch.doomed \subseteq Backups /\ watch.applied \subseteq Restores
  /\ extras \in 0..MaxExtras

(* A volume that the database has is on every server that is set up, offline *)
(* or not, unless it is going to be deleted: only a deletion that was asked  *)
(* and then validated while nothing bound the volume removes it. Create      *)
(* refuses while a server is offline for that.                               *)
RowHasVolume ==
  row # 0 /\ row \notin watch.condemned =>
    \A s \in Servers \ watch.torn : ~Unprepared(s) => disk[s]

(* The status of an archive tells the truth: a backup that succeeded can be  *)
(* downloaded unless somebody asked to delete it, a restore that succeeded   *)
(* was applied, and one that failed was not, unless its task was delivered   *)
(* twice or refused.                                                         *)
StatusIsTrue ==
  /\ \A b \in Backups \ watch.doomed :
       backup[b].status = "success" => FileOf(b, backup[b]) \in files
  /\ \A x \in Restores :
       /\ restore[x].status = "success" => x \in watch.applied
       /\ restore[x].status = "failed" /\ <<"restore", x>> \notin watch.again \cup watch.waived
            => x \notin watch.applied

(* A task that was accepted comes to its end: no backup or restore stays     *)
(* pending, and a volume whose deletion was asked for goes, unless it was    *)
(* bound. But a deletion of all backups of a volume never ends, nor does     *)
(* what waits for its rows; a rejected upload keeps the row of its volume;   *)
(* and a server that is not set up keeps every volume from being deleted.    *)
TasksSettle ==
  /\ \A b \in Backups : backup[b].status = "pending" ~>
       backup[b].status # "pending" \/ <<"backup", b>> \in watch.waived \/ b \in held
  /\ \A x \in Restores : restore[x].status = "pending" ~>
       restore[x].status # "pending" \/ <<"restore", x>> \in watch.waived
  /\ \A i \in Ids : <<"delete", i>> \in queue ~>
       \/ row # i \/ bound \/ held # {} \/ i \in leaked
       \/ \E s \in Servers : Unprepared(s)
=============================================================================
