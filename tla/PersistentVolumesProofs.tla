---------------------- MODULE PersistentVolumesProofs -----------------------
(***************************************************************************)
(* The safety invariants of PersistentVolumes, for every set of servers,   *)
(* goroutines, backups and restores and all bounds. What has to be known   *)
(* in every state: whose id is in use, what a creation, a deletion and a   *)
(* setup have done to each server so far, and that a task which was        *)
(* delivered once is in one place at a time.                               *)
(***************************************************************************)
EXTENDS PersistentVolumes, FiniteSetTheorems, TLAPS

(* What a goroutine is doing, and with what. *)
Checks    == [pc : {"check", "create"}, id : 0..MaxVolumes, todo : SUBSET Servers,
              others : SUBSET Servers]
Asks      == [pc : {"enqueue", "mark"}, task : Tasks]
Uploads   == [pc : {"upload"}, item : Restores, id : Ids]
Deletions == [pc : {"unlink", "forget"}, item : Backups, copy : BackupRows]
Removals  == [pc : {"remove"}, id : Ids, todo : SUBSET Servers, done : BOOLEAN]
Dumps     == [pc : {"dump", "store", "save"}, item : Backups, copy : BackupRows, server : Servers]
Imports   == [pc : {"restore"}, item : Restores, server : Servers]
Results   == [pc : {"result"}, item : Restores, result : {"success", "failed"}]

ResolverStates == {Idle} \cup Checks \cup Asks \cup Uploads \cup Deletions
WorkerStates   == {Idle} \cup Removals \cup Dumps \cup Imports \cup Results
RestoreRows    == [status : {"none", "pending", "success", "failed", "deleted"},
                   volume : 0..MaxVolumes]

VolumeShape  == /\ created \in 0..MaxVolumes /\ row \in 0..created /\ bound \in BOOLEAN
                /\ bound => row # 0
MachineShape == /\ status \in [Servers -> {"new", "adds", "skips", "online", "offline"}]
                /\ disk \in [Servers -> BOOLEAN]
ArchiveShape == /\ backup \in [Backups -> BackupRows]
                /\ restore \in [Restores -> RestoreRows]
                /\ IsFiniteSet(files)
LocksShape   == leaked \subseteq Ids /\ held \subseteq Backups /\ extras \in 0..MaxExtras
ProcShape    == /\ proc = [p \in Processes |-> proc[p]]
                /\ \A r \in Resolvers : proc[r] \in ResolverStates
                /\ \A w \in Workers : proc[w] \in WorkerStates
WatchShape   == /\ DOMAIN watch = Watched
                /\ watch.torn \subseteq Servers /\ watch.condemned \subseteq Ids
                /\ watch.doomed \subseteq Backups /\ watch.waived \subseteq Tasks
                /\ watch.again \subseteq Tasks /\ watch.applied \subseteq Restores
Shape == /\ VolumeShape /\ MachineShape /\ ArchiveShape /\ queue \subseteq Tasks
         /\ LocksShape /\ ProcShape /\ WatchShape

(* A row that was inserted is that of a volume that was there, and one that a *)
(* query finds is that of the volume that is there.                           *)
RowsAreSound ==
  /\ \A b \in Backups : /\ backup[b].status # "none" => backup[b].volume \in 1..created
                        /\ backup[b].status \in Present => backup[b].volume = row
  /\ \A x \in Restores : /\ restore[x].status # "none" => restore[x].volume \in 1..created
                         /\ restore[x].status \in Present => restore[x].volume = row

(* A volume is created by one request, and its id is in use nowhere else. *)
CreationIsAlone ==
  \A r \in Resolvers : proc[r].pc = "create" =>
    /\ row = 0 /\ created # 0 /\ proc[r].id = created
    /\ \A q \in Resolvers : proc[q].pc = "create" => q = r
    /\ \A x \in Restores : restore[x].status # "none" => restore[x].volume # created
    /\ \A w \in Workers : proc[w].pc = "remove" => proc[w].id # created

(* An upload keeps the row of its volume; a deletion has condemned its row. *)
UploadIsAlone ==
  \A r \in Resolvers : proc[r].pc = "upload" =>
    /\ row = proc[r].id
    /\ \A q \in Resolvers : proc[q].pc = "upload" => q = r
RemovalIsKnown ==
  \A w \in Workers : proc[w].pc = "remove" =>
    proc[w].id \in watch.condemned /\ proc[w].id <= created

(* A creation deals with every server that was set up when it began, and a *)
(* server that it has dealt with has the volume.                           *)
CreationIsThorough ==
  \A r \in Resolvers : proc[r].pc \in {"check", "create"} =>
    /\ \A s \in Servers \ proc[r].others : ~Unprepared(s)
    /\ proc[r].pc = "check" => proc[r].todo \cup proc[r].others = Servers
    /\ proc[r].pc = "create" /\ proc[r].id \notin watch.condemned
         => \A s \in Servers \ (proc[r].todo \cup proc[r].others) : disk[s]

(* So has a server whose setup has dealt with it. *)
SetupIsThorough ==
  row # 0 /\ row \notin watch.condemned =>
    \A s \in Servers \ watch.torn : status[s] \in {"skips", "online", "offline"} => disk[s]

(* A backup that is made is that of its row, and leaves a file unless its    *)
(* deletion was asked for; only then is a file removed.                      *)
FileIsKept(b, copy) == copy.status = "success" /\ b \notin watch.doomed => FileOf(b, copy) \in files
DumpIsTrue(w) ==
  LET b == proc[w].item  copy == proc[w].copy IN
  /\ backup[b].status # "none" /\ copy.kind = backup[b].kind /\ copy.volume = backup[b].volume
  /\ proc[w].pc = "store" => copy.kind = "s3"
  /\ copy.status = "success" \/ (proc[w].pc = "save" /\ copy.status = "failed")
  /\ proc[w].pc = "save" => FileIsKept(b, copy)
BackupsAreTrue ==
  /\ \A r \in Resolvers : proc[r].pc \in {"unlink", "forget"} =>
       proc[r].item \in watch.doomed /\ backup[proc[r].item].status # "none"
  /\ \A w \in Workers : proc[w].pc \in {"dump", "store", "save"} => DumpIsTrue(w)
  /\ \A b \in Backups : FileIsKept(b, backup[b])

(* Who has the task of a restore, once the request has inserted the row. *)
Task(x)     == <<"restore", x>>
Holds(p, x) == \/ proc[p].pc = "upload" /\ proc[p].item = x
               \/ proc[p].pc \in {"enqueue", "mark"} /\ proc[p].task = Task(x)
               \/ proc[p].pc \in {"restore", "result"} /\ proc[p].item = x
Clean(x)    == Task(x) \notin watch.again \cup watch.waived

RestoresAreTrue ==
  /\ \A x \in Restores : restore[x].status = "none" =>
       /\ Task(x) \notin queue /\ x \notin watch.applied
       /\ \A p \in Processes : Holds(p, x) => proc[p].pc = "upload"
  /\ \A w \in Workers : proc[w].pc = "result" /\ proc[w].result = "success"
                          => proc[w].item \in watch.applied
  /\ \A x \in Restores : restore[x].status = "success" => x \in watch.applied
  /\ \A r \in Resolvers : proc[r].pc = "mark" =>
       \E x \in Restores : proc[r].task = Task(x) /\ ~Clean(x)

(* A task that was delivered once is in one place, ... *)
RestoreIsAlone ==
  \A x \in Restores : Clean(x) =>
    /\ \A p \in Processes : Holds(p, x) => Task(x) \notin queue
    /\ \A p, q \in Processes : Holds(p, x) /\ Holds(q, x) => p = q
    /\ restore[x].status = "failed" => /\ Task(x) \notin queue
                                       /\ \A p \in Processes : ~Holds(p, x)

(* ... and is not run again once it was applied: its volume is gone. *)
RestoreIsLast ==
  \A x \in Restores : Clean(x) /\ x \in watch.applied =>
    /\ restore[x].status # "failed"
    /\ Task(x) \in queue => restore[x].volume # row
    /\ \A p \in Processes : Holds(p, x) => proc[p].pc = "result" /\ proc[p].result = "success"

IInv == /\ Shape /\ RowsAreSound /\ CreationIsAlone /\ UploadIsAlone /\ RemovalIsKnown
        /\ CreationIsThorough /\ SetupIsThorough /\ BackupsAreTrue
        /\ RestoresAreTrue /\ RestoreIsAlone /\ RestoreIsLast

-----------------------------------------------------------------------------
(* What the operators of the model compute. *)

(* Of two names for each file and one more, one is free. *)
LEMMA FreshIsNat ==
  ASSUME IsFiniteSet(files), NEW b
  PROVE  Fresh(b) \in Nat
<1> DEFINE N == Cardinality(files)
           free(n) == \A kind \in {"local", "s3"} : <<kind, b, n>> \notin files
<1>1. N \in Nat
  BY FS_CardinalityType
<1>2. ASSUME \A n \in 1..(N + 1) : ~free(n)
      PROVE  FALSE
  <2> DEFINE f == [n \in 1..(N + 1) |->
                     IF <<"local", b, n>> \in files THEN <<"local", b, n>> ELSE <<"s3", b, n>>]
  <2>1. f \in [1..(N + 1) -> files]
    <3>1. ASSUME NEW n \in 1..(N + 1)
          PROVE  <<"local", b, n>> \in files \/ <<"s3", b, n>> \in files
      BY <1>2
    <3>2. QED
      BY <3>1
  <2>2. IsFiniteSet(1..(N + 1)) /\ Cardinality(1..(N + 1)) = N + 1
    BY <1>1, FS_Interval
  <2>3. PICK m, n \in 1..(N + 1) : m # n /\ f[m] = f[n]
    <3>1. N < N + 1
      BY <1>1
    <3> DEFINE S == 1..(N + 1)
    <3>2. IsFiniteSet(S) /\ Cardinality(files) < Cardinality(S) /\ f \in [S -> files]
      BY <2>1, <2>2, <3>1
    <3> HIDE DEF f, S
    <3>3. \E m, n \in S : m # n /\ f[m] = f[n]
      BY <3>2, FS_PigeonHole
    <3>4. QED
      BY <3>3 DEF S
  <2>4. /\ f[m] \in {<<"local", b, m>>, <<"s3", b, m>>}
        /\ f[n] \in {<<"local", b, n>>, <<"s3", b, n>>}
    OBVIOUS
  <2>5. f[m][3] = m /\ f[n][3] = n
    <3> HIDE DEF f
    <3>1. QED
      BY <2>4
  <2> HIDE DEF f
  <2>6. QED
    BY <2>3, <2>5
<1>3. PICK n \in 1..(N + 1) : free(n)
  BY <1>2
<1>4. Fresh(b) \in 1..(N + 1)
  BY <1>3 DEF Fresh
<1>5. QED
  BY <1>1, <1>4

(* What a goroutine is doing decides the form of its state. *)
LEMMA ResolverFields ==
  ASSUME ProcShape, NEW r \in Resolvers
  PROVE  /\ proc[r].pc \in {"idle", "check", "create", "enqueue", "mark", "upload", "unlink", "forget"}
         /\ proc[r].pc = "idle" <=> proc[r] = Idle
         /\ proc[r].pc \in {"check", "create"} => proc[r] \in Checks
         /\ proc[r].pc \in {"enqueue", "mark"} => proc[r] \in Asks
         /\ proc[r].pc = "upload" => proc[r] \in Uploads
         /\ proc[r].pc \in {"unlink", "forget"} => proc[r] \in Deletions
  BY DEF ProcShape, ResolverStates, Checks, Asks, Uploads, Deletions, Idle
LEMMA WorkerFields ==
  ASSUME ProcShape, NEW w \in Workers
  PROVE  /\ proc[w].pc \in {"idle", "remove", "dump", "store", "save", "restore", "result"}
         /\ proc[w].pc = "idle" <=> proc[w] = Idle
         /\ proc[w].pc = "remove" => proc[w] \in Removals
         /\ proc[w].pc \in {"dump", "store", "save"} => proc[w] \in Dumps
         /\ proc[w].pc = "restore" => proc[w] \in Imports
         /\ proc[w].pc = "result" => proc[w] \in Results
  BY DEF ProcShape, WorkerStates, Removals, Dumps, Imports, Results, Idle

(* A goroutine takes a step alone. *)
LEMMA ProcEffect ==
  ASSUME ProcShape, NEW p \in Processes, NEW v, proc' = [proc EXCEPT ![p] = v]
  PROVE  /\ proc'[p] = v
         /\ \A q \in Processes : q # p => proc'[q] = proc[q]
         /\ (p \in Resolvers /\ v \in ResolverStates) \/ (p \in Workers /\ v \in WorkerStates)
              => ProcShape'
  BY ProcessesAssumption DEF ProcShape, Processes

-----------------------------------------------------------------------------
(* How a goroutine comes to be where it is. *)

LEMMA IdleIsState == Idle \in ResolverStates /\ Idle \in WorkerStates /\ Idle.pc = "idle"
  BY DEF ResolverStates, WorkerStates, Idle

LEMMA ResolverMoves ==
  ASSUME Shape, NEW r \in Resolvers, ResolverStep(r) \/ Begin(r)
  PROVE  /\ ProcShape'
         /\ \A q \in Processes : q # r => proc'[q] = proc[q]
         /\ proc'[r].pc = "check" => proc'[r] = proc[r] \/ Create(r)
         /\ proc'[r].pc = "create" => \/ proc'[r] = proc[r] \/ InsertRow(r)
                                      \/ \E s \in Servers : CreateOnServer(r, s)
         /\ proc'[r].pc = "upload" => \/ proc'[r] = proc[r]
                                      \/ \E x \in Restores : BeginUpload(r, x)
         /\ proc'[r].pc = "enqueue" => \/ proc'[r] = proc[r]
                                       \/ DeletePersistentVolume(r) \/ CommitUpload(r)
                                       \/ \E b \in Backups : BackupPersistentVolume(r, b)
         /\ proc'[r].pc = "mark" => proc'[r] = proc[r] \/ EnqueueFails(r)
         /\ proc'[r].pc \in {"unlink", "forget"} =>
              \/ proc'[r] = proc[r] \/ RemoveFile(r)
              \/ \E b \in Backups : DeletePersistentVolumeBackup(r, b)
<1> USE DEF Become, Goto, Return
<1>p. ProcShape /\ r \in Processes
  BY DEF Shape, Processes
<1>v. row # 0 => row \in Ids
  BY MaxVolumesAssumption DEF Shape, VolumeShape, Ids
<1> DEFINE Sets(v) == proc' = [proc EXCEPT ![r] = v] /\ v \in ResolverStates
<1>i. ASSUME proc' = [proc EXCEPT ![r] = Idle] PROVE Sets(Idle)
  BY <1>i, IdleIsState
<1>f. /\ proc[r].pc \in {"check", "create"} => proc[r] \in Checks
      /\ proc[r].pc \in {"enqueue", "mark"} => proc[r] \in Asks
      /\ proc[r].pc = "upload" => proc[r] \in Uploads
      /\ proc[r].pc \in {"unlink", "forget"} => proc[r] \in Deletions
  BY <1>p, ResolverFields
<1>1. CASE Create(r)
  <2> DEFINE v == [pc |-> "check", id |-> 0, todo |-> Online,
                   others |-> {s \in Servers : Unprepared(s)}]
  <2>1. Sets(v)
    <3>1. v \in Checks
      BY MaxVolumesAssumption DEF Checks, Online
    <3>2. QED
      BY <1>1, <3>1 DEF Create, Creating, ResolverStates
  <2>2. v.pc = "check"
    OBVIOUS
  <2> HIDE DEF v
  <2>3. ProcShape' /\ proc'[r] = v /\ \A q \in Processes : q # r => proc'[q] = proc[q]
    BY <1>p, <2>1, ProcEffect
  <2>4. QED
    BY <1>1, <2>2, <2>3
<1>2. CASE InsertRow(r)
  <2>1. CASE proc' = [proc EXCEPT ![r] = Idle]
    BY <1>p, <1>i, <2>1, ProcEffect, IdleIsState
  <2>2. CASE /\ created < MaxVolumes /\ created' = created + 1
             /\ proc' = [proc EXCEPT ![r].pc = "create", ![r].id = created']
    <3> DEFINE v == [proc[r] EXCEPT !.pc = "create", !.id = created + 1]
    <3>1. v \in Checks /\ v.pc = "create"
      <4>1. created + 1 \in 0..MaxVolumes
        BY <2>2, MaxVolumesAssumption DEF Shape, VolumeShape
      <4>2. proc[r] \in Checks
        BY <1>2, <1>f DEF InsertRow
      <4>3. QED
        BY <4>1, <4>2 DEF Checks
    <3>2. Sets(v)
      <4>1. proc' = [proc EXCEPT ![r] = v]
        BY <2>2, <1>p DEF ProcShape
      <4>2. QED
        BY <3>1, <4>1 DEF ResolverStates
    <3>3. QED
      BY <1>2, <1>p, <3>1, <3>2, ProcEffect
  <2>3. QED
    BY <1>2, <2>1, <2>2 DEF InsertRow
<1>3. ASSUME NEW s \in Servers, CreateOnServer(r, s)
      PROVE  Sets([proc[r] EXCEPT !.todo = @ \ {s}]) /\ proc[r].pc = "create"
  <2>1. [proc[r] EXCEPT !.todo = @ \ {s}] \in Checks
    BY <1>3, <1>f DEF CreateOnServer, Checks
  <2>2. QED
    BY <1>3, <1>p, <2>1 DEF CreateOnServer, ProcShape, ResolverStates
<1>4. CASE DeletePersistentVolume(r)
  <2> DEFINE v == [pc |-> "enqueue", task |-> <<"delete", row>>]
  <2>1. Sets(v)
    <3>1. v \in Asks
      BY <1>4, <1>v DEF DeletePersistentVolume, Asks, Tasks
    <3>2. QED
      BY <1>4, <3>1 DEF DeletePersistentVolume, ResolverStates
  <2>2. v.pc = "enqueue"
    OBVIOUS
  <2> HIDE DEF v
  <2>3. ProcShape' /\ proc'[r] = v /\ \A q \in Processes : q # r => proc'[q] = proc[q]
    BY <1>p, <2>1, ProcEffect
  <2>4. QED
    BY <1>4, <2>2, <2>3
<1>5. ASSUME NEW b \in Backups, BackupPersistentVolume(r, b)
      PROVE  Sets([pc |-> "enqueue", task |-> <<"backup", b>>])
  <2>1. [pc |-> "enqueue", task |-> <<"backup", b>>] \in Asks
    BY DEF Asks, Tasks
  <2>2. QED
    BY <1>5, <2>1 DEF BackupPersistentVolume, ResolverStates
<1>6. ASSUME NEW x \in Restores, BeginUpload(r, x)
      PROVE  Sets([pc |-> "upload", item |-> x, id |-> row])
  <2>1. [pc |-> "upload", item |-> x, id |-> row] \in Uploads
    BY <1>6, <1>v DEF BeginUpload, Uploads
  <2>2. QED
    BY <1>6, <2>1 DEF BeginUpload, ResolverStates
<1>7. CASE CommitUpload(r)
  <2> DEFINE v == [pc |-> "enqueue", task |-> <<"restore", proc[r].item>>]
  <2>1. Sets(v)
    <3>1. v \in Asks
      BY <1>7, <1>f DEF CommitUpload, Uploads, Asks, Tasks
    <3>2. QED
      BY <1>7, <3>1 DEF CommitUpload, ResolverStates
  <2>2. v.pc = "enqueue"
    OBVIOUS
  <2> HIDE DEF v
  <2>3. ProcShape' /\ proc'[r] = v /\ \A q \in Processes : q # r => proc'[q] = proc[q]
    BY <1>p, <2>1, ProcEffect
  <2>4. QED
    BY <1>7, <2>2, <2>3
<1>8. CASE EnqueueFails(r)
  <2> DEFINE v == [proc[r] EXCEPT !.pc = "mark"]
  <2>1. CASE proc' = [proc EXCEPT ![r] = Idle]
    BY <1>p, <1>i, <2>1, ProcEffect, IdleIsState
  <2>2. CASE proc' = [proc EXCEPT ![r].pc = "mark"]
    <3>1. v \in Asks /\ v.pc = "mark"
      BY <1>8, <1>f DEF EnqueueFails, Asks
    <3>2. Sets(v)
      BY <2>2, <3>1, <1>p DEF ProcShape, ResolverStates
    <3>3. ProcShape' /\ proc'[r] = v /\ \A q \in Processes : q # r => proc'[q] = proc[q]
      BY <1>p, <3>2, ProcEffect
    <3> HIDE DEF v
    <3>4. QED
      BY <1>8, <3>1, <3>3
  <2>3. QED
    BY <1>8, <2>1, <2>2 DEF EnqueueFails
<1>9. ASSUME NEW b \in Backups, DeletePersistentVolumeBackup(r, b)
      PROVE  Sets([pc |-> "unlink", item |-> b, copy |-> backup[b]])
  <2>1. [pc |-> "unlink", item |-> b, copy |-> backup[b]] \in Deletions
    BY DEF Deletions, Shape, ArchiveShape
  <2>2. QED
    BY <1>9, <2>1 DEF DeletePersistentVolumeBackup, ResolverStates
<1>10. CASE RemoveFile(r)
  <2> DEFINE v == [proc[r] EXCEPT !.pc = "forget"]
  <2>1. v \in Deletions /\ v.pc = "forget"
    BY <1>10, <1>f DEF RemoveFile, Deletions
  <2>2. Sets(v)
    BY <1>10, <2>1, <1>p DEF RemoveFile, ProcShape, ResolverStates
  <2>3. ProcShape' /\ proc'[r] = v /\ \A q \in Processes : q # r => proc'[q] = proc[q]
    BY <1>p, <2>2, ProcEffect
  <2> HIDE DEF v
  <2>4. QED
    BY <1>10, <2>1, <2>3
<1>11. CASE \/ CommitCreate(r) \/ \E s \in Servers : CreateFails(r, s)
            \/ UploadIsRejected(r) \/ Enqueue(r) \/ MarkRestoreFailed(r) \/ DeleteRow(r)
  <2>1. proc' = [proc EXCEPT ![r] = Idle]
    BY <1>11 DEF CommitCreate, CreateFails, UploadIsRejected, Enqueue, MarkRestoreFailed, DeleteRow
  <2>2. QED
    BY <1>p, <1>i, <2>1, ProcEffect, IdleIsState
<1>12. CASE \/ DeletePersistentVolumeBackups(r)
            \/ \E X \in SUBSET Restores : DeletePersistentVolumeRestores(r, X)
  <2>1. proc' = proc
    BY <1>12 DEF DeletePersistentVolumeBackups, DeletePersistentVolumeRestores
  <2>2. QED
    BY <1>p, <2>1 DEF ProcShape
<1>13. CASE \E s \in Servers : CreateOnServer(r, s)
  <2>1. PICK s \in Servers : CreateOnServer(r, s)
    BY <1>13
  <2> DEFINE v == [proc[r] EXCEPT !.todo = @ \ {s}]
  <2>2. Sets(v) /\ v.pc = "create"
    BY <1>3, <2>1, <1>f DEF Checks
  <2>3. ProcShape' /\ proc'[r] = v /\ \A q \in Processes : q # r => proc'[q] = proc[q]
    BY <1>p, <2>2, ProcEffect
  <2> HIDE DEF v
  <2>4. QED
    BY <1>13, <2>2, <2>3
<1>14. CASE \E b \in Backups : BackupPersistentVolume(r, b)
  <2>1. PICK b \in Backups : BackupPersistentVolume(r, b)
    BY <1>14
  <2> DEFINE v == [pc |-> "enqueue", task |-> <<"backup", b>>]
  <2>2. Sets(v)
    BY <2>1, <1>5
  <2>3. v.pc = "enqueue"
    OBVIOUS
  <2> HIDE DEF v
  <2>4. ProcShape' /\ proc'[r] = v /\ \A q \in Processes : q # r => proc'[q] = proc[q]
    BY <2>2, <1>p, ProcEffect
  <2>5. QED
    BY <1>14, <2>3, <2>4
<1>15. CASE \E x \in Restores : BeginUpload(r, x)
  <2>1. PICK x \in Restores : BeginUpload(r, x)
    BY <1>15
  <2> DEFINE v == [pc |-> "upload", item |-> x, id |-> row]
  <2>2. Sets(v)
    BY <2>1, <1>6
  <2>3. v.pc = "upload"
    OBVIOUS
  <2> HIDE DEF v
  <2>4. ProcShape' /\ proc'[r] = v /\ \A q \in Processes : q # r => proc'[q] = proc[q]
    BY <2>2, <1>p, ProcEffect
  <2>5. QED
    BY <1>15, <2>3, <2>4
<1>16. CASE \E b \in Backups : DeletePersistentVolumeBackup(r, b)
  <2>1. PICK b \in Backups : DeletePersistentVolumeBackup(r, b)
    BY <1>16
  <2> DEFINE v == [pc |-> "unlink", item |-> b, copy |-> backup[b]]
  <2>2. Sets(v)
    BY <2>1, <1>9
  <2>3. v.pc = "unlink"
    OBVIOUS
  <2> HIDE DEF v
  <2>4. ProcShape' /\ proc'[r] = v /\ \A q \in Processes : q # r => proc'[q] = proc[q]
    BY <2>2, <1>p, ProcEffect
  <2>5. QED
    BY <1>16, <2>3, <2>4
<1>17. QED
  <2>1. ASSUME Begin(r)
        PROVE  \/ Create(r) \/ DeletePersistentVolume(r) \/ DeletePersistentVolumeBackups(r)
               \/ \E b \in Backups : BackupPersistentVolume(r, b)
               \/ \E b \in Backups : DeletePersistentVolumeBackup(r, b)
               \/ \E x \in Restores : BeginUpload(r, x)
               \/ \E X \in SUBSET Restores : DeletePersistentVolumeRestores(r, X)
    <3> DEFINE All == {x \in Restores : restore[x].status \in Present /\ restore[x].volume = row}
    <3>1. All \in SUBSET Restores /\ \A x \in Restores : {x} \in SUBSET Restores
      OBVIOUS
    <3>2. QED
      BY <2>1, <3>1 DEF Begin
  <2>2. CASE Begin(r)
    BY <2>1, <2>2, <1>1, <1>4, <1>12, <1>14, <1>15, <1>16
  <2>3. CASE ResolverStep(r)
    BY <2>3, <1>2, <1>7, <1>8, <1>10, <1>11, <1>13 DEF ResolverStep
  <2>4. QED
    BY <2>2, <2>3

LEMMA WorkerMoves ==
  ASSUME Shape, NEW w \in Workers, TakeTask(w) \/ WorkerStep(w)
  PROVE  /\ ProcShape'
         /\ \A q \in Processes : q # w => proc'[q] = proc[q]
         /\ proc'[w].pc = "remove" => \/ proc'[w] = proc[w]
                                      \/ \E i \in Ids : TakeDeletion(w, i)
                                      \/ \E s \in Servers : \/ RemoveFromServer(w, s)
                                                            \/ RemoveIsRefused(w, s)
         /\ proc'[w].pc = "dump" => \/ proc'[w] = proc[w]
                                    \/ \E b \in Backups : TakeBackup(w, b)
         /\ proc'[w].pc = "store" => proc'[w] = proc[w] \/ Dump(w)
         /\ proc'[w].pc = "save" => proc'[w] = proc[w] \/ Dump(w) \/ StoreInS3(w) \/ BackupFails(w)
         /\ proc'[w].pc = "restore" => \/ proc'[w] = proc[w]
                                       \/ \E x \in Restores : TakeRestore(w, x)
         /\ proc'[w].pc = "result" => proc'[w] = proc[w] \/ RestoreSucceeds(w) \/ RestoreFails(w)
<1> USE DEF Become, Goto, Return, Retry
<1>p. ProcShape /\ w \in Processes
  BY DEF Shape, Processes
<1> DEFINE Sets(v) == proc' = [proc EXCEPT ![w] = v] /\ v \in WorkerStates
           Moves(v) == /\ ProcShape' /\ proc'[w] = v
                       /\ \A q \in Processes : q # w => proc'[q] = proc[q]
<1>m. ASSUME NEW v, Sets(v) PROVE Moves(v)
  BY <1>p, <1>m, ProcEffect
<1>i. ASSUME proc' = [proc EXCEPT ![w] = Idle] PROVE Moves(Idle)
  BY <1>i, <1>m, IdleIsState
<1>u. ASSUME UNCHANGED proc PROVE Moves(proc[w])
  BY <1>u, <1>p DEF ProcShape
<1>f. /\ proc[w].pc = "remove" => proc[w] \in Removals
      /\ proc[w].pc \in {"dump", "store", "save"} => proc[w] \in Dumps
      /\ proc[w].pc = "restore" => proc[w] \in Imports
      /\ proc[w].pc = "result" => proc[w] \in Results
  BY <1>p, WorkerFields
<1> HIDE DEF Moves
<1>1. CASE \E i \in Ids : TakeDeletion(w, i)
  <2>1. PICK i \in Ids : TakeDeletion(w, i)
    BY <1>1
  <2> DEFINE v == [pc |-> "remove", id |-> i, todo |-> Servers, done |-> FALSE]
  <2>2. Moves(v) \/ Moves(proc[w])
    <3>1. v \in WorkerStates
      BY DEF Removals, WorkerStates
    <3>2. QED
      BY <2>1, <3>1, <1>m, <1>u DEF TakeDeletion
  <2>3. v.pc = "remove"
    OBVIOUS
  <2> HIDE DEF v
  <2>4. QED
    BY <1>1, <2>2, <2>3 DEF Moves
<1>2. CASE \E b \in Backups : TakeBackup(w, b)
  <2>1. PICK b \in Backups : TakeBackup(w, b)
    BY <1>2
  <2> DEFINE v(s) == [pc |-> "dump", item |-> b, server |-> s,
                      copy |-> [backup[b] EXCEPT !.status = "success"]]
  <2>2. Moves(proc[w]) \/ \E s \in Servers : Moves(v(s))
    <3>1. ASSUME NEW s \in Servers PROVE v(s) \in WorkerStates
      <4>1. [backup[b] EXCEPT !.status = "success"] \in BackupRows
        BY DEF Shape, ArchiveShape, BackupRows
      <4>2. QED
        BY <4>1 DEF Dumps, WorkerStates
    <3>2. CASE UNCHANGED proc
      BY <3>2, <1>u
    <3>3. CASE \E s \in Online : proc' = [proc EXCEPT ![w] = v(s)]
      BY <3>1, <3>3, <1>m DEF Online
    <3>4. QED
      BY <2>1, <3>2, <3>3 DEF TakeBackup
  <2>3. \A s \in Servers : v(s).pc = "dump"
    OBVIOUS
  <2> HIDE DEF v
  <2>4. QED
    BY <1>2, <2>2, <2>3 DEF Moves
<1>3. CASE \E x \in Restores : TakeRestore(w, x)
  <2>1. PICK x \in Restores : TakeRestore(w, x)
    BY <1>3
  <2> DEFINE v(s) == [pc |-> "restore", item |-> x, server |-> s]
  <2>2. Moves(proc[w]) \/ \E s \in Servers : Moves(v(s))
    <3>1. ASSUME NEW s \in Servers PROVE v(s) \in WorkerStates
      BY DEF Imports, WorkerStates
    <3>2. CASE UNCHANGED proc
      BY <3>2, <1>u
    <3>3. CASE \E s \in Online : proc' = [proc EXCEPT ![w] = v(s)]
      BY <3>1, <3>3, <1>m DEF Online
    <3>4. QED
      BY <2>1, <3>2, <3>3 DEF TakeRestore
  <2>3. \A s \in Servers : v(s).pc = "restore"
    OBVIOUS
  <2> HIDE DEF v
  <2>4. QED
    BY <1>3, <2>2, <2>3 DEF Moves
<1>4. CASE \E s \in Servers : RemoveFromServer(w, s)
  <2>1. PICK s \in Servers : RemoveFromServer(w, s)
    BY <1>4
  <2> DEFINE v == [proc[w] EXCEPT !.todo = @ \ {s}, !.done = TRUE]
  <2>2. v \in Removals /\ v.pc = "remove"
    BY <2>1, <1>f DEF RemoveFromServer, Removals
  <2>3. Moves(v)
    <3>1. proc' = [proc EXCEPT ![w] = v]
      BY <2>1, <1>p DEF RemoveFromServer, ProcShape
    <3>2. QED
      BY <2>2, <3>1, <1>m DEF WorkerStates
  <2> HIDE DEF v
  <2>4. QED
    BY <1>4, <2>2, <2>3 DEF Moves
<1>5. CASE \E s \in Servers : RemoveIsRefused(w, s)
  <2>1. PICK s \in Servers : RemoveIsRefused(w, s)
    BY <1>5
  <2> DEFINE v == [proc[w] EXCEPT !.todo = @ \ {s}]
  <2>2. v \in Removals /\ v.pc = "remove"
    BY <2>1, <1>f DEF RemoveIsRefused, Removals
  <2>3. Moves(v)
    <3>1. proc' = [proc EXCEPT ![w] = v]
      BY <2>1, <1>p DEF RemoveIsRefused, ProcShape
    <3>2. QED
      BY <2>2, <3>1, <1>m DEF WorkerStates
  <2> HIDE DEF v
  <2>4. QED
    BY <1>5, <2>2, <2>3 DEF Moves
<1>6. CASE Dump(w)
  <2> DEFINE n == Fresh(proc[w].item)
             v == [proc[w] EXCEPT !.pc = IF proc[w].copy.kind = "s3" THEN "store" ELSE "save",
                                  !.copy.file = n]
  <2>1. n \in Nat
    BY FreshIsNat DEF Shape, ArchiveShape
  <2>2. proc[w] \in Dumps
    BY <1>6, <1>f DEF Dump
  <2>3. proc' = [proc EXCEPT ![w] = v]
    BY <1>6, <1>p DEF Dump, ProcShape
  <2> HIDE DEF n
  <2>4. v \in Dumps /\ v.pc \in {"store", "save"}
    BY <2>1, <2>2 DEF Dumps, BackupRows
  <2>5. Moves(v)
    BY <2>3, <2>4, <1>m DEF WorkerStates
  <2> HIDE DEF v
  <2>6. QED
    BY <1>6, <2>4, <2>5 DEF Moves
<1>7. CASE StoreInS3(w)
  <2> DEFINE v == [proc[w] EXCEPT !.pc = "save"]
  <2>1. v \in Dumps /\ v.pc = "save"
    BY <1>7, <1>f DEF StoreInS3, Dumps
  <2>2. Moves(v)
    <3>1. proc' = [proc EXCEPT ![w] = v]
      BY <1>7, <1>p DEF StoreInS3, ProcShape
    <3>2. QED
      BY <2>1, <3>1, <1>m DEF WorkerStates
  <2> HIDE DEF v
  <2>3. QED
    BY <1>7, <2>1, <2>2 DEF Moves
<1>8. CASE BackupFails(w)
  <2> DEFINE v == [proc[w] EXCEPT !.pc = "save", !.copy.file = 0, !.copy.status = "failed"]
  <2>1. v \in Dumps /\ v.pc = "save"
    BY <1>8, <1>f DEF BackupFails, Dumps, BackupRows
  <2>2. Moves(v)
    <3>1. proc' = [proc EXCEPT ![w] = v]
      BY <1>8, <1>p DEF BackupFails, ProcShape
    <3>2. QED
      BY <2>1, <3>1, <1>m DEF WorkerStates
  <2> HIDE DEF v
  <2>3. QED
    BY <1>8, <2>1, <2>2 DEF Moves
<1>9. CASE RestoreSucceeds(w)
  <2> DEFINE v == [pc |-> "result", item |-> proc[w].item, result |-> "success"]
  <2>1. v \in Results /\ v.pc = "result"
    BY <1>9, <1>f DEF RestoreSucceeds, Imports, Results
  <2>2. Moves(v)
    BY <1>9, <2>1, <1>m DEF RestoreSucceeds, WorkerStates
  <2> HIDE DEF v
  <2>3. QED
    BY <1>9, <2>1, <2>2 DEF Moves
<1>10. CASE RestoreFails(w)
  <2> DEFINE v == [pc |-> "result", item |-> proc[w].item, result |-> "failed"]
  <2>1. v \in Results /\ v.pc = "result"
    BY <1>10, <1>f DEF RestoreFails, Imports, Results
  <2>2. Moves(v)
    BY <1>10, <2>1, <1>m DEF RestoreFails, WorkerStates
  <2> HIDE DEF v
  <2>3. QED
    BY <1>10, <2>1, <2>2 DEF Moves
<1>11. CASE \/ \E s \in Servers : ServerFails(w, s)
            \/ DeleteVolumeRow(w) \/ SaveBackup(w) \/ SaveBackupFails(w)
            \/ SaveRestore(w) \/ SaveRestoreFails(w)
  <2>1. proc' = [proc EXCEPT ![w] = Idle]
    BY <1>11 DEF ServerFails, DeleteVolumeRow, SaveBackup, SaveBackupFails, SaveRestore,
                 SaveRestoreFails
  <2>2. Moves(Idle)
    BY <1>i, <2>1
  <2>3. QED
    BY <2>2, IdleIsState DEF Moves
<1>12. QED
  BY <1>1, <1>2, <1>3, <1>4, <1>5, <1>6, <1>7, <1>8, <1>9, <1>10, <1>11 DEF TakeTask, WorkerStep

(* Every step is that of the servers, of a goroutine, a crash or a binding. *)
MachineStep == \E s \in Servers : \/ SetupReads(s) \/ SetupAddsVolume(s) \/ SetupEnds(s)
                                  \/ GoOffline(s) \/ GoOnline(s)
LEMMA NextIs ==
  Next <=> \/ MachineStep \/ Crash \/ Bind
           \/ \E r \in Resolvers : ResolverStep(r) \/ Begin(r)
           \/ \E w \in Workers : TakeTask(w) \/ WorkerStep(w)
  BY DEF Next, Proceed, SomeBegin, MachineStep

LEMMA OthersStay == MachineStep \/ Bind => UNCHANGED <<proc, queue>>
  BY DEF MachineStep, SetupReads, SetupAddsVolume, SetupEnds, GoOffline, GoOnline, Bind

LEMMA CrashEffect ==
  ASSUME Crash
  PROVE  \A p \in Processes : proc'[p] = Idle
  BY DEF Crash

LEMMA ProcStep ==
  ASSUME Shape, Next
  PROVE  ProcShape'
<1>1. CASE MachineStep \/ Bind
  BY <1>1, OthersStay DEF Shape, ProcShape
<1>2. CASE Crash
  BY <1>2, IdleIsState DEF Crash, ProcShape, Processes
<1>3. QED
  BY <1>1, <1>2, NextIs, ResolverMoves, WorkerMoves

-----------------------------------------------------------------------------
(* Who writes what. *)

LEMMA BeginIs ==
  ASSUME NEW r, Begin(r)
  PROVE  \/ Create(r) \/ DeletePersistentVolume(r) \/ DeletePersistentVolumeBackups(r)
         \/ \E b \in Backups : BackupPersistentVolume(r, b)
         \/ \E b \in Backups : DeletePersistentVolumeBackup(r, b)
         \/ \E x \in Restores : BeginUpload(r, x)
         \/ \E X \in SUBSET Restores : DeletePersistentVolumeRestores(r, X)
<1> DEFINE All == {x \in Restores : restore[x].status \in Present /\ restore[x].volume = row}
<1>1. All \in SUBSET Restores /\ \A x \in Restores : {x} \in SUBSET Restores
  OBVIOUS
<1>2. QED
  BY <1>1 DEF Begin

LEMMA VolumeWriters ==
  ASSUME Next
  PROVE  \/ UNCHANGED <<row, created>>
         \/ \E r \in Resolvers : CommitCreate(r) /\ created' = created
         \/ \E r \in Resolvers : /\ InsertRow(r) /\ row' = row
                                 /\ row = 0 /\ created < MaxVolumes /\ created' = created + 1
         \/ \E w \in Workers : /\ DeleteVolumeRow(w) /\ created' = created
                               /\ row = proc[w].id /\ row' = 0 /\ ~bound
<1>1. CASE MachineStep \/ Crash \/ Bind
  BY <1>1 DEF MachineStep, SetupReads, SetupAddsVolume, SetupEnds, GoOffline, GoOnline, Crash,
              Bind, volume
<1>2. ASSUME NEW r \in Resolvers, Begin(r) PROVE UNCHANGED <<row, created>>
  BY <1>2, BeginIs DEF Create, DeletePersistentVolume, DeletePersistentVolumeBackups,
     BackupPersistentVolume, DeletePersistentVolumeBackup, BeginUpload,
     DeletePersistentVolumeRestores, volume
<1>3. ASSUME NEW r \in Resolvers, ResolverStep(r), ~CommitCreate(r), ~InsertRow(r)
      PROVE  UNCHANGED <<row, created>>
  BY <1>3 DEF ResolverStep, CreateOnServer, CreateFails, UploadIsRejected, CommitUpload,
     Enqueue, EnqueueFails, MarkRestoreFailed, RemoveFile, DeleteRow, volume
<1>4. ASSUME NEW w \in Workers, TakeTask(w) \/ WorkerStep(w), ~DeleteVolumeRow(w)
      PROVE  UNCHANGED <<row, created>>
  BY <1>4 DEF TakeTask, WorkerStep, TakeDeletion, TakeBackup, TakeRestore, RemoveFromServer,
     RemoveIsRefused, ServerFails, Dump, StoreInS3, BackupFails, SaveBackup, SaveBackupFails,
     RestoreSucceeds, RestoreFails, SaveRestore, SaveRestoreFails, volume
<1>5. ASSUME NEW r \in Resolvers, InsertRow(r)
      PROVE  \/ UNCHANGED <<row, created>>
             \/ row' = row /\ row = 0 /\ created < MaxVolumes /\ created' = created + 1
  BY <1>5 DEF InsertRow
<1>6. ASSUME NEW r \in Resolvers, CommitCreate(r) PROVE created' = created
  BY <1>6 DEF CommitCreate
<1>7. ASSUME NEW w \in Workers, DeleteVolumeRow(w)
      PROVE  \/ UNCHANGED <<row, created>>
             \/ created' = created /\ row = proc[w].id /\ row' = 0 /\ ~bound
  BY <1>7 DEF DeleteVolumeRow, volume
<1>8. QED
  BY <1>1, <1>2, <1>3, <1>4, <1>5, <1>6, <1>7, NextIs

LEMMA MachineWriters ==
  ASSUME Next
  PROVE  \/ UNCHANGED <<status, disk>>
         \/ MachineStep
         \/ Crash
         \/ status' = status /\ \E r \in Resolvers, s \in Servers : CreateOnServer(r, s)
         \/ status' = status /\ \E w \in Workers, s \in Servers : RemoveFromServer(w, s)
<1>1. CASE Bind
  BY <1>1 DEF Bind, machine
<1>2. ASSUME NEW r \in Resolvers, Begin(r) PROVE UNCHANGED <<status, disk>>
  BY <1>2, BeginIs DEF Create, DeletePersistentVolume, DeletePersistentVolumeBackups,
     BackupPersistentVolume, DeletePersistentVolumeBackup, BeginUpload,
     DeletePersistentVolumeRestores, machine
<1>3. ASSUME NEW r \in Resolvers, ResolverStep(r), ~\E s \in Servers : CreateOnServer(r, s)
      PROVE  UNCHANGED <<status, disk>>
  BY <1>3 DEF ResolverStep, InsertRow, CommitCreate, CreateFails, UploadIsRejected, CommitUpload,
     Enqueue, EnqueueFails, MarkRestoreFailed, RemoveFile, DeleteRow, machine
<1>4. ASSUME NEW w \in Workers, TakeTask(w) \/ WorkerStep(w),
             ~\E s \in Servers : RemoveFromServer(w, s)
      PROVE  UNCHANGED <<status, disk>>
  BY <1>4 DEF TakeTask, WorkerStep, TakeDeletion, TakeBackup, TakeRestore, DeleteVolumeRow,
     RemoveIsRefused, ServerFails, Dump, StoreInS3, BackupFails, SaveBackup, SaveBackupFails,
     RestoreSucceeds, RestoreFails, SaveRestore, SaveRestoreFails, machine
<1>5. ASSUME NEW r \in Resolvers, NEW s \in Servers, CreateOnServer(r, s) PROVE status' = status
  BY <1>5 DEF CreateOnServer
<1>6. ASSUME NEW w \in Workers, NEW s \in Servers, RemoveFromServer(w, s) PROVE status' = status
  BY <1>6 DEF RemoveFromServer
<1>7. QED
  BY <1>1, <1>2, <1>3, <1>4, <1>5, <1>6, NextIs

LEMMA BackupWriters ==
  ASSUME Next
  PROVE  \/ backup' = backup
         \/ \E r \in Resolvers, b \in Backups : BackupPersistentVolume(r, b)
         \/ \E r \in Resolvers : DeleteRow(r)
         \/ \E w \in Workers : DeleteVolumeRow(w) \/ SaveBackup(w)
<1>1. CASE MachineStep \/ Crash \/ Bind
  BY <1>1 DEF MachineStep, SetupReads, SetupAddsVolume, SetupEnds, GoOffline, GoOnline, Crash,
              Bind, archive
<1>2. ASSUME NEW r \in Resolvers, Begin(r), ~\E b \in Backups : BackupPersistentVolume(r, b)
      PROVE  backup' = backup
  BY <1>2, BeginIs DEF Create, DeletePersistentVolume, DeletePersistentVolumeBackups,
     DeletePersistentVolumeBackup, BeginUpload, DeletePersistentVolumeRestores, archive
<1>3. ASSUME NEW r \in Resolvers, ResolverStep(r), ~DeleteRow(r) PROVE backup' = backup
  BY <1>3 DEF ResolverStep, InsertRow, CommitCreate, CreateOnServer, CreateFails, UploadIsRejected,
     CommitUpload, Enqueue, EnqueueFails, MarkRestoreFailed, RemoveFile, archive
<1>4. ASSUME NEW w \in Workers, TakeTask(w) \/ WorkerStep(w), ~DeleteVolumeRow(w), ~SaveBackup(w)
      PROVE  backup' = backup
  BY <1>4 DEF TakeTask, WorkerStep, TakeDeletion, TakeBackup, TakeRestore, RemoveFromServer,
     RemoveIsRefused, ServerFails, Dump, StoreInS3, BackupFails, SaveBackupFails,
     RestoreSucceeds, RestoreFails, SaveRestore, SaveRestoreFails, archive
<1>5. QED
  BY <1>1, <1>2, <1>3, <1>4, NextIs

LEMMA RestoreWriters ==
  ASSUME Next
  PROVE  \/ restore' = restore
         \/ \E r \in Resolvers, X \in SUBSET Restores : DeletePersistentVolumeRestores(r, X)
         \/ \E r \in Resolvers : CommitUpload(r) \/ MarkRestoreFailed(r)
         \/ \E w \in Workers : DeleteVolumeRow(w) \/ SaveRestore(w)
<1>1. CASE MachineStep \/ Crash \/ Bind
  BY <1>1 DEF MachineStep, SetupReads, SetupAddsVolume, SetupEnds, GoOffline, GoOnline, Crash,
              Bind, archive
<1>2. ASSUME NEW r \in Resolvers, Begin(r),
             ~\E X \in SUBSET Restores : DeletePersistentVolumeRestores(r, X)
      PROVE  restore' = restore
  BY <1>2, BeginIs DEF Create, DeletePersistentVolume, DeletePersistentVolumeBackups,
     DeletePersistentVolumeBackup, BeginUpload, BackupPersistentVolume, archive
<1>3. ASSUME NEW r \in Resolvers, ResolverStep(r), ~CommitUpload(r), ~MarkRestoreFailed(r)
      PROVE  restore' = restore
  BY <1>3 DEF ResolverStep, InsertRow, CommitCreate, CreateOnServer, CreateFails, UploadIsRejected,
     Enqueue, EnqueueFails, RemoveFile, DeleteRow, archive
<1>4. ASSUME NEW w \in Workers, TakeTask(w) \/ WorkerStep(w), ~DeleteVolumeRow(w), ~SaveRestore(w)
      PROVE  restore' = restore
  BY <1>4 DEF TakeTask, WorkerStep, TakeDeletion, TakeBackup, TakeRestore, RemoveFromServer,
     RemoveIsRefused, ServerFails, Dump, StoreInS3, BackupFails, SaveBackup, SaveBackupFails,
     RestoreSucceeds, RestoreFails, SaveRestoreFails, archive
<1>5. QED
  BY <1>1, <1>2, <1>3, <1>4, NextIs

LEMMA FileWriters ==
  ASSUME Next
  PROVE  \/ files' = files
         \/ \E r \in Resolvers : CommitUpload(r) \/ RemoveFile(r) \/ DeletePersistentVolumeBackups(r)
         \/ \E w \in Workers : \/ Dump(w) \/ StoreInS3(w) \/ BackupFails(w)
                               \/ SaveRestore(w) \/ SaveRestoreFails(w)
<1>1. CASE MachineStep \/ Crash \/ Bind
  BY <1>1 DEF MachineStep, SetupReads, SetupAddsVolume, SetupEnds, GoOffline, GoOnline, Crash,
              Bind, archive
<1>2. ASSUME NEW r \in Resolvers, Begin(r), ~DeletePersistentVolumeBackups(r)
      PROVE  files' = files
  BY <1>2, BeginIs DEF Create, DeletePersistentVolume, DeletePersistentVolumeRestores,
     DeletePersistentVolumeBackup, BeginUpload, BackupPersistentVolume, archive
<1>3. ASSUME NEW r \in Resolvers, ResolverStep(r), ~CommitUpload(r), ~RemoveFile(r)
      PROVE  files' = files
  BY <1>3 DEF ResolverStep, InsertRow, CommitCreate, CreateOnServer, CreateFails, UploadIsRejected,
     Enqueue, EnqueueFails, MarkRestoreFailed, DeleteRow, archive
<1>4. ASSUME NEW w \in Workers, TakeTask(w) \/ WorkerStep(w),
             ~(Dump(w) \/ StoreInS3(w) \/ BackupFails(w) \/ SaveRestore(w) \/ SaveRestoreFails(w))
      PROVE  files' = files
  BY <1>4 DEF TakeTask, WorkerStep, TakeDeletion, TakeBackup, TakeRestore, RemoveFromServer,
     RemoveIsRefused, ServerFails, DeleteVolumeRow, SaveBackup, SaveBackupFails,
     RestoreSucceeds, RestoreFails, archive
<1>5. QED
  BY <1>1, <1>2, <1>3, <1>4, NextIs

LEMMA TaskOfWorker ==
  ASSUME ProcShape, NEW w \in Workers, proc[w].pc # "idle"
  PROVE  /\ TaskOf(w) \in Tasks
         /\ proc[w].pc = "remove" => TaskOf(w) = <<"delete", proc[w].id>>
         /\ proc[w].pc \in {"dump", "store", "save"} => TaskOf(w) = <<"backup", proc[w].item>>
         /\ proc[w].pc \in {"restore", "result"} => TaskOf(w) = <<"restore", proc[w].item>>
<1>1. w \notin Resolvers
  BY ProcessesAssumption
<1>2. CASE proc[w].pc = "remove"
  BY <1>1, <1>2, WorkerFields DEF TaskOf, Tasks, Removals
<1>3. CASE proc[w].pc \in {"dump", "store", "save"}
  BY <1>1, <1>3, WorkerFields DEF TaskOf, Tasks, Dumps
<1>4. CASE proc[w].pc \in {"restore", "result"}
  BY <1>1, <1>4, WorkerFields DEF TaskOf, Tasks, Imports, Results
<1>5. QED
  BY <1>2, <1>3, <1>4, WorkerFields

LEMMA TaskOfResolver ==
  ASSUME ProcShape, NEW r \in Resolvers, proc[r].pc \in {"enqueue", "mark"}
  PROVE  TaskOf(r) = proc[r].task /\ proc[r].task \in Tasks
  BY ResolverFields DEF TaskOf, Asks

(* A task comes to the queue from the request that asked for it, or from the *)
(* worker that gives it back.                                                *)
LEMMA QueueWriters ==
  ASSUME Shape, Next, NEW t \in queue'
  PROVE  \/ t \in queue
         \/ \E r \in Resolvers : /\ Enqueue(r) \/ EnqueueFails(r)
                                 /\ proc[r].pc = "enqueue" /\ t = proc[r].task
         \/ \E w \in Workers : /\ proc[w].pc # "idle" /\ proc'[w] = Idle /\ t = TaskOf(w)
                               /\ WorkerStep(w)
         \/ Crash /\ \E w \in Workers : proc[w].pc # "idle" /\ t = TaskOf(w)
<1>p. ProcShape
  BY DEF Shape
<1>1. CASE MachineStep \/ Bind
  BY <1>1, OthersStay
<1>2. CASE Crash
  <2>1. CASE t \in {TaskOf(w) : w \in {v \in Workers : proc[v] # Idle}}
    BY <1>2, <2>1, <1>p, WorkerFields
  <2>2. QED
    BY <1>2, <2>1 DEF Crash
<1>3. ASSUME NEW r \in Resolvers, Begin(r) PROVE queue' = queue
  BY <1>3, BeginIs DEF Create, DeletePersistentVolume, DeletePersistentVolumeBackups,
     BackupPersistentVolume, DeletePersistentVolumeBackup, BeginUpload,
     DeletePersistentVolumeRestores
<1>4. ASSUME NEW r \in Resolvers, ResolverStep(r), ~Enqueue(r), ~EnqueueFails(r)
      PROVE  queue' = queue
  BY <1>4 DEF ResolverStep, InsertRow, CommitCreate, CreateOnServer, CreateFails, UploadIsRejected,
     CommitUpload, MarkRestoreFailed, RemoveFile, DeleteRow
<1>5. ASSUME NEW r \in Resolvers, Enqueue(r) \/ EnqueueFails(r)
      PROVE  proc[r].pc = "enqueue" /\ (t \in queue \/ t = proc[r].task)
  BY <1>5 DEF Enqueue, EnqueueFails
<1>6. ASSUME NEW w \in Workers, TakeTask(w) PROVE t \in queue
  BY <1>6 DEF TakeTask, TakeDeletion, TakeBackup, TakeRestore, Take
<1>7. ASSUME NEW w \in Workers, WorkerStep(w)
      PROVE  t \in queue \/ (proc[w].pc # "idle" /\ proc'[w] = Idle /\ t = TaskOf(w))
  <2>1. w \in Processes /\ proc = [p \in Processes |-> proc[p]]
    BY <1>p DEF Processes, ProcShape
  <2>2. CASE \/ \E s \in Servers : RemoveFromServer(w, s) \/ RemoveIsRefused(w, s)
             \/ Dump(w) \/ StoreInS3(w) \/ BackupFails(w) \/ RestoreSucceeds(w) \/ RestoreFails(w)
    BY <2>2 DEF RemoveFromServer, RemoveIsRefused, Dump, StoreInS3, BackupFails, RestoreSucceeds,
       RestoreFails
  <2>3. CASE (\E s \in Servers : ServerFails(w, s)) \/ DeleteVolumeRow(w)
    <3>1. proc[w].pc = "remove" /\ proc' = [proc EXCEPT ![w] = Idle]
          /\ (t \in queue \/ t = <<"delete", proc[w].id>>)
      BY <2>3 DEF ServerFails, DeleteVolumeRow, Retry, Return
    <3>2. QED
      BY <2>1, <3>1, <1>p, TaskOfWorker
  <2>4. CASE SaveBackup(w) \/ SaveBackupFails(w)
    <3>1. proc[w].pc = "save" /\ proc' = [proc EXCEPT ![w] = Idle]
          /\ (t \in queue \/ t = <<"backup", proc[w].item>>)
      BY <2>4 DEF SaveBackup, SaveBackupFails, Retry, Return
    <3>2. QED
      BY <2>1, <3>1, <1>p, TaskOfWorker
  <2>5. CASE SaveRestore(w) \/ SaveRestoreFails(w)
    <3>1. proc[w].pc = "result" /\ proc' = [proc EXCEPT ![w] = Idle]
          /\ (t \in queue \/ t = <<"restore", proc[w].item>>)
      BY <2>5 DEF SaveRestore, SaveRestoreFails, Retry, Return
    <3>2. QED
      BY <2>1, <3>1, <1>p, TaskOfWorker
  <2>6. QED
    BY <1>7, <2>2, <2>3, <2>4, <2>5 DEF WorkerStep
<1>8. QED
  BY <1>1, <1>2, <1>3, <1>4, <1>5, <1>6, <1>7, NextIs

LEMMA QueueStep ==
  ASSUME Shape, Next
  PROVE  queue' \subseteq Tasks
<1> SUFFICES ASSUME NEW t \in queue' PROVE t \in Tasks
  OBVIOUS
<1>1. QED
  BY QueueWriters, TaskOfResolver, TaskOfWorker DEF Shape

(* What is recorded is never forgotten. *)
Grows == DOMAIN watch' = Watched /\ \A k \in Watched : watch[k] \subseteq watch'[k]

LEMMA NoteGrows ==
  ASSUME WatchShape, NEW k \in Watched, NEW S, Note(k, S)
  PROVE  /\ watch'[k] = watch[k] \cup S
         /\ \A j \in Watched : j # k => watch'[j] = watch[j]
         /\ Grows
  BY DEF WatchShape, Note, Grows

LEMMA WatchStep ==
  ASSUME Shape, Next
  PROVE  /\ Grows /\ WatchShape'
         /\ watch'.applied # watch.applied =>
              \E w \in Workers : /\ RestoreSucceeds(w)
                                 /\ watch'.applied = watch.applied \cup {proc[w].item}
<1>p. ProcShape /\ WatchShape /\ VolumeShape /\ ArchiveShape
  BY DEF Shape
<1> DEFINE Goal == Grows /\ WatchShape' /\ watch'.applied = watch.applied
<1>u. ASSUME UNCHANGED watch PROVE Goal
  BY <1>u, <1>p DEF WatchShape, Grows
<1>t. ASSUME NEW S \in SUBSET Servers, Note("torn", S) PROVE Goal
  BY <1>t, <1>p, NoteGrows DEF WatchShape, Grows, Watched
<1>c. ASSUME NEW S \in SUBSET Ids, Note("condemned", S) PROVE Goal
  BY <1>c, <1>p, NoteGrows DEF WatchShape, Grows, Watched
<1>d. ASSUME NEW S \in SUBSET Backups, Note("doomed", S) PROVE Goal
  BY <1>d, <1>p, NoteGrows DEF WatchShape, Grows, Watched
<1>w. ASSUME NEW S \in SUBSET Tasks, Note("waived", S) \/ Note("again", S) PROVE Goal
  BY <1>w, <1>p, NoteGrows DEF WatchShape, Grows, Watched
<1>1. CASE MachineStep \/ Bind
  <2>1. UNCHANGED watch \/ \E s \in Servers : Note("torn", {s})
    BY <1>1 DEF MachineStep, SetupReads, SetupAddsVolume, SetupEnds, GoOffline, GoOnline, Bind
  <2>2. \A s \in Servers : {s} \in SUBSET Servers
    OBVIOUS
  <2>3. QED
    BY <2>1, <2>2, <1>u, <1>t
<1>2. CASE Crash
  <2>1. {TaskOf(w) : w \in {v \in Workers : proc[v] # Idle}} \subseteq Tasks
    BY <1>p, TaskOfWorker, WorkerFields
  <2>2. {TaskOf(r) : r \in {q \in Resolvers : proc[q].pc \in {"enqueue", "mark"}}} \subseteq Tasks
    BY <1>p, TaskOfResolver
  <2>3. QED
    BY <1>2, <2>1, <2>2, <1>p DEF Crash, WatchShape, Grows, Watched
<1>3. ASSUME NEW r \in Resolvers, Begin(r) PROVE Goal
  <2>1. UNCHANGED watch \/ \E S \in SUBSET Backups : Note("doomed", S)
    <3>1. CASE DeletePersistentVolumeBackups(r)
      <4> DEFINE all == {b \in Backups : backup[b].status \in Present /\ backup[b].volume = row}
      <4>1. Note("doomed", all) /\ all \in SUBSET Backups
        BY <3>1 DEF DeletePersistentVolumeBackups
      <4>2. QED
        BY <4>1
    <3>2. CASE \E b \in Backups : DeletePersistentVolumeBackup(r, b)
      <4>1. PICK b \in Backups : DeletePersistentVolumeBackup(r, b)
        BY <3>2
      <4>2. Note("doomed", {b}) /\ {b} \in SUBSET Backups
        BY <4>1 DEF DeletePersistentVolumeBackup
      <4>3. QED
        BY <4>2
    <3>3. QED
      BY <1>3, <3>1, <3>2, BeginIs DEF Create, DeletePersistentVolume, BackupPersistentVolume,
         BeginUpload, DeletePersistentVolumeRestores
  <2>2. QED
    BY <2>1, <1>u, <1>d
<1>4. ASSUME NEW r \in Resolvers, ResolverStep(r) PROVE Goal
  <2>1. CASE CommitCreate(r)
    <3>1. Note("torn", {s \in proc[r].others : status[s] # "new"}) /\ proc[r].pc = "create"
      BY <2>1 DEF CommitCreate
    <3>2. {s \in proc[r].others : status[s] # "new"} \in SUBSET Servers
      BY <1>p, <3>1, ResolverFields DEF Checks
    <3>3. QED
      BY <3>1, <3>2, <1>t
  <2>2. CASE EnqueueFails(r)
    <3>1. Note("waived", {proc[r].task}) /\ proc[r].pc = "enqueue"
      BY <2>2 DEF EnqueueFails
    <3>2. {proc[r].task} \in SUBSET Tasks
      BY <1>p, <3>1, TaskOfResolver
    <3>3. QED
      BY <3>1, <3>2, <1>w
  <2>3. QED
    BY <1>4, <2>1, <2>2, <1>u DEF ResolverStep, InsertRow, CreateOnServer, CreateFails,
       UploadIsRejected, CommitUpload, Enqueue, MarkRestoreFailed, RemoveFile, DeleteRow
<1>5. ASSUME NEW w \in Workers, TakeTask(w) PROVE Goal
  <2>1. PICK t \in Tasks : Take(w, t)
    BY <1>5 DEF TakeTask, TakeDeletion, TakeBackup, TakeRestore, Tasks
  <2>2. t[1] = "delete" => t[2] \in Ids
    BY DEF Tasks
  <2>3. PICK more \in BOOLEAN :
          watch' = [watch EXCEPT !.again = @ \cup (IF more THEN {t} ELSE {}),
            !.condemned = @ \cup (IF t[1] = "delete" /\ ~bound THEN {row} \cap {t[2]} ELSE {})]
    BY <2>1 DEF Take
  <2>4. QED
    BY <2>2, <2>3, <1>p DEF WatchShape, Grows, Watched
<1>6. ASSUME NEW w \in Workers, WorkerStep(w), ~RestoreSucceeds(w) PROVE Goal
  <2>1. CASE \E s \in Servers : RemoveFromServer(w, s)
    <3>1. Note("condemned", OtherIds(proc[w].id))
      BY <2>1 DEF RemoveFromServer
    <3>2. row \in 0..MaxVolumes
      BY <1>p, MaxVolumesAssumption DEF VolumeShape
    <3>3. \A r \in Resolvers : proc[r].pc = "create" => proc[r].id \in 0..MaxVolumes
      BY <1>p, ResolverFields DEF Checks
    <3>4. OtherIds(proc[w].id) \in SUBSET Ids
      BY <3>2, <3>3, MaxVolumesAssumption DEF OtherIds, Ids
    <3>5. QED
      BY <3>1, <3>4, <1>c
  <2>2. CASE SaveBackupFails(w)
    <3>1. UNCHANGED watch \/ Note("waived", {<<"backup", proc[w].item>>})
      BY <2>2 DEF SaveBackupFails
    <3>2. proc[w].pc = "save"
      BY <2>2 DEF SaveBackupFails
    <3>3. {<<"backup", proc[w].item>>} \in SUBSET Tasks
      BY <3>2, <1>p, TaskOfWorker
    <3>4. QED
      BY <3>1, <3>3, <1>u, <1>w
  <2>3. CASE SaveRestoreFails(w)
    <3>1. \/ Note("again", {<<"restore", proc[w].item>>})
          \/ Note("waived", {<<"restore", proc[w].item>>})
      BY <2>3 DEF SaveRestoreFails
    <3>2. proc[w].pc = "result"
      BY <2>3 DEF SaveRestoreFails
    <3>3. {<<"restore", proc[w].item>>} \in SUBSET Tasks
      BY <3>2, <1>p, TaskOfWorker
    <3>4. QED
      BY <3>1, <3>3, <1>w
  <2>4. QED
    BY <1>6, <2>1, <2>2, <2>3, <1>u DEF WorkerStep, RemoveIsRefused, ServerFails, DeleteVolumeRow,
       Dump, StoreInS3, BackupFails, SaveBackup, RestoreFails, SaveRestore
<1>7. ASSUME NEW w \in Workers, RestoreSucceeds(w)
      PROVE  Grows /\ WatchShape' /\ watch'.applied = watch.applied \cup {proc[w].item}
  <2>1. Note("applied", {proc[w].item}) /\ proc[w].pc = "restore"
    BY <1>7 DEF RestoreSucceeds
  <2>2. proc[w].item \in Restores
    BY <2>1, <1>p, WorkerFields DEF Imports
  <2>3. QED
    BY <2>1, <2>2, <1>p, NoteGrows DEF WatchShape, Watched, Grows
<1>8. QED
  BY <1>1, <1>2, <1>3, <1>4, <1>5, <1>6, <1>7, NextIs

-----------------------------------------------------------------------------
(* The variables keep their values. *)

LEMMA VolumeShapeStep ==
  ASSUME IInv, Next
  PROVE  VolumeShape'
<1>p. VolumeShape /\ ProcShape
  BY DEF IInv, Shape
<1>1. bound' = bound \/ Bind \/ \E r \in Resolvers : CommitCreate(r)
  <2>1. CASE MachineStep \/ Crash
    BY <2>1 DEF MachineStep, SetupReads, SetupAddsVolume, SetupEnds, GoOffline, GoOnline, Crash,
                volume
  <2>2. ASSUME NEW r \in Resolvers, Begin(r) PROVE bound' = bound
    BY <2>2, BeginIs DEF Create, DeletePersistentVolume, DeletePersistentVolumeBackups,
       BackupPersistentVolume, DeletePersistentVolumeBackup, BeginUpload,
       DeletePersistentVolumeRestores, volume
  <2>3. ASSUME NEW r \in Resolvers, ResolverStep(r), ~CommitCreate(r) PROVE bound' = bound
    BY <2>3 DEF ResolverStep, InsertRow, CreateOnServer, CreateFails, UploadIsRejected,
       CommitUpload, Enqueue, EnqueueFails, MarkRestoreFailed, RemoveFile, DeleteRow, volume
  <2>4. ASSUME NEW w \in Workers, TakeTask(w) \/ WorkerStep(w) PROVE bound' = bound
    BY <2>4 DEF TakeTask, WorkerStep, TakeDeletion, TakeBackup, TakeRestore, RemoveFromServer,
       RemoveIsRefused, ServerFails, DeleteVolumeRow, Dump, StoreInS3, BackupFails, SaveBackup,
       SaveBackupFails, RestoreSucceeds, RestoreFails, SaveRestore, SaveRestoreFails, volume
  <2>5. QED
    BY <2>1, <2>2, <2>3, <2>4, NextIs
<1>2. CASE Bind
  BY <1>2, <1>p DEF Bind, VolumeShape
<1>3. CASE \E r \in Resolvers : CommitCreate(r)
  <2>1. PICK r \in Resolvers : CommitCreate(r)
    BY <1>3
  <2>2. proc[r].id = created /\ proc[r].pc = "create"
    BY <2>1 DEF CommitCreate, IInv, CreationIsAlone
  <2>3. row' = created /\ created' = created /\ bound' = FALSE
    BY <2>1, <2>2 DEF CommitCreate
  <2>4. created \in 0..created
    BY <1>p, MaxVolumesAssumption DEF VolumeShape
  <2>5. QED
    BY <2>3, <2>4, <1>p DEF VolumeShape
<1>4. CASE bound' = bound /\ ~\E r \in Resolvers : CommitCreate(r)
  BY <1>4, <1>p, VolumeWriters, MaxVolumesAssumption DEF VolumeShape
<1>5. QED
  BY <1>1, <1>2, <1>3, <1>4

LEMMA MachineShapeStep ==
  ASSUME Shape, Next
  PROVE  MachineShape'
<1>p. MachineShape
  BY DEF Shape
<1>1. CASE MachineStep
  BY <1>1, <1>p DEF MachineStep, SetupReads, SetupAddsVolume, SetupEnds, GoOffline, GoOnline,
     machine, MachineShape
<1>2. CASE Crash
  BY <1>2, <1>p DEF Crash, MachineShape
<1>3. CASE status' = status /\ \E r \in Resolvers, s \in Servers : CreateOnServer(r, s)
  BY <1>3, <1>p DEF CreateOnServer, MachineShape
<1>4. CASE status' = status /\ \E w \in Workers, s \in Servers : RemoveFromServer(w, s)
  BY <1>4, <1>p DEF RemoveFromServer, MachineShape
<1>5. QED
  BY <1>1, <1>2, <1>3, <1>4, <1>p, MachineWriters DEF MachineShape

LEMMA LocksShapeStep ==
  ASSUME Shape, Next
  PROVE  LocksShape'
<1>p. LocksShape /\ ProcShape /\ extras \in Nat /\ extras <= MaxExtras
  BY MaxExtrasAssumption DEF Shape, LocksShape
<1> DEFINE Goal == UNCHANGED extras \/ (extras < MaxExtras /\ extras' = extras + 1)
<1>g. ASSUME Goal PROVE extras' \in 0..MaxExtras
  BY <1>g, <1>p, MaxExtrasAssumption
<1>1. CASE MachineStep \/ Bind
  BY <1>1, <1>p, <1>g DEF MachineStep, SetupReads, SetupAddsVolume, SetupEnds, GoOffline, GoOnline,
     Bind, Extra, NoExtra, locks, LocksShape
<1>2. CASE Crash
  BY <1>2, <1>p, <1>g DEF Crash, Extra, LocksShape
<1>3. ASSUME NEW r \in Resolvers, Begin(r) PROVE LocksShape'
  <2>1. extras' = extras /\ leaked' = leaked /\ held' \subseteq Backups
    BY <1>3, <1>p, BeginIs DEF Create, DeletePersistentVolume, DeletePersistentVolumeBackups,
       BackupPersistentVolume, DeletePersistentVolumeBackup, BeginUpload,
       DeletePersistentVolumeRestores, locks, LocksShape
  <2>2. QED
    BY <2>1, <1>p DEF LocksShape
<1>4. ASSUME NEW r \in Resolvers, ResolverStep(r) PROVE LocksShape'
  <2>1. CASE UploadIsRejected(r)
    <3>1. proc[r].id \in Ids
      BY <2>1, <1>p, ResolverFields DEF UploadIsRejected, Uploads
    <3>2. QED
      BY <2>1, <3>1, <1>p DEF UploadIsRejected, LocksShape
  <2>2. CASE ~UploadIsRejected(r)
    <3>1. leaked' = leaked /\ held' = held /\ Goal
      BY <1>4, <2>2 DEF ResolverStep, InsertRow, CommitCreate, CreateOnServer, CreateFails,
         CommitUpload, Enqueue, EnqueueFails, MarkRestoreFailed, RemoveFile, DeleteRow, locks,
         Extra, NoExtra
    <3>2. QED
      BY <3>1, <1>p, <1>g DEF LocksShape
  <2>3. QED
    BY <2>1, <2>2
<1>5. ASSUME NEW w \in Workers, TakeTask(w) \/ WorkerStep(w) PROVE LocksShape'
  <2>1. leaked' = leaked /\ held' = held /\ Goal
    <3>1. CASE TakeTask(w)
      BY <3>1 DEF TakeTask, TakeDeletion, TakeBackup, TakeRestore, Take, locks, Extra, NoExtra
    <3>2. CASE WorkerStep(w)
      BY <3>2 DEF WorkerStep, RemoveFromServer, RemoveIsRefused, ServerFails, DeleteVolumeRow, Dump,
         StoreInS3, BackupFails, SaveBackup, SaveBackupFails, RestoreSucceeds, RestoreFails,
         SaveRestore, SaveRestoreFails, locks, Extra, NoExtra
    <3>3. QED
      BY <1>5, <3>1, <3>2
  <2>2. QED
    BY <2>1, <1>p, <1>g DEF LocksShape
<1>6. QED
  BY <1>1, <1>2, <1>3, <1>4, <1>5, NextIs

(* The row goes with what belongs to it, or nothing is deleted. *)
LEMMA RowGoes ==
  ASSUME NEW w \in Workers, DeleteVolumeRow(w)
  PROVE  \/ UNCHANGED <<row, backup, restore>>
         \/ /\ row' = 0
            /\ backup' = [b \in Backups |-> IF backup[b].status \in Present /\ backup[b].volume = row
                            THEN [backup[b] EXCEPT !.status = "deleted", !.file = 0] ELSE backup[b]]
            /\ restore' = [x \in Restores |-> IF restore[x].status \in Present /\ restore[x].volume = row
                             THEN [restore[x] EXCEPT !.status = "deleted"] ELSE restore[x]]
<1>1. CASE ~(proc[w].done /\ row = proc[w].id /\ ~bound)
  BY <1>1 DEF DeleteVolumeRow, volume, archive
<1>2. CASE proc[w].done /\ row = proc[w].id /\ ~bound
  <2>1. row' = 0
    BY <1>2 DEF DeleteVolumeRow
  <2>2. backup' = [b \in Backups |-> IF backup[b].volume = proc[w].id /\ backup[b].status \in Present
                     THEN [backup[b] EXCEPT !.status = "deleted", !.file = 0] ELSE backup[b]]
    BY <1>2 DEF DeleteVolumeRow
  <2>3. restore' = [x \in Restores |-> IF restore[x].volume = proc[w].id /\ restore[x].status \in Present
                      THEN [restore[x] EXCEPT !.status = "deleted"] ELSE restore[x]]
    BY <1>2 DEF DeleteVolumeRow
  <2>4. \A v : /\ v.volume = proc[w].id <=> v.volume = row
    BY <1>2
  <2>5. backup' = [b \in Backups |-> IF backup[b].status \in Present /\ backup[b].volume = row
                     THEN [backup[b] EXCEPT !.status = "deleted", !.file = 0] ELSE backup[b]]
    BY <2>2, <2>4
  <2>6. restore' = [x \in Restores |-> IF restore[x].status \in Present /\ restore[x].volume = row
                      THEN [restore[x] EXCEPT !.status = "deleted"] ELSE restore[x]]
    BY <2>3, <2>4
  <2>7. QED
    BY <2>1, <2>5, <2>6
<1>3. QED
  BY <1>1, <1>2

(* How the rows of restores change. *)
LEMMA RestoreEffect ==
  ASSUME IInv, Next
  PROVE  \/ restore' = restore
         \/ \E X \in SUBSET Restores :
              /\ UNCHANGED <<row, created, queue>>
              /\ \A x \in X : restore[x].status \in Present
              /\ restore' = [x \in Restores |-> IF x \in X
                               THEN [restore[x] EXCEPT !.status = "deleted"] ELSE restore[x]]
         \/ \E r \in Resolvers : \E x \in Restores :
              /\ CommitUpload(r) /\ proc[r] \in Uploads /\ x = proc[r].item /\ UNCHANGED <<row, created>>
              /\ restore' = [restore EXCEPT ![x] = [status |-> "pending", volume |-> proc[r].id]]
         \/ \E x \in Restores :
              /\ row = restore[x].volume /\ UNCHANGED <<row, created>>
              /\ \/ \E r \in Resolvers : MarkRestoreFailed(r) /\ proc[r].task = Task(x)
                                         /\ restore' = [restore EXCEPT ![x] = [status |-> "failed", volume |-> row]]
                 \/ \E w \in Workers : SaveRestore(w) /\ proc[w] \in Results /\ x = proc[w].item
                                       /\ restore' = [restore EXCEPT ![x] = [status |-> proc[w].result, volume |-> row]]
         \/ \E w \in Workers :
              /\ DeleteVolumeRow(w) /\ row' = 0
              /\ restore' = [x \in Restores |-> IF restore[x].status \in Present /\ restore[x].volume = row
                               THEN [restore[x] EXCEPT !.status = "deleted"] ELSE restore[x]]
<1>p. ProcShape
  BY DEF IInv, Shape
<1>1. CASE \E r \in Resolvers, X \in SUBSET Restores : DeletePersistentVolumeRestores(r, X)
  BY <1>1 DEF DeletePersistentVolumeRestores, volume
<1>2. ASSUME NEW r \in Resolvers, CommitUpload(r)
      PROVE  /\ proc[r] \in Uploads /\ proc[r].item \in Restores /\ UNCHANGED <<row, created>>
             /\ restore' = [restore EXCEPT ![proc[r].item] = [status |-> "pending", volume |-> proc[r].id]]
  BY <1>2, <1>p, ResolverFields DEF CommitUpload, volume, Uploads
<1>3. ASSUME NEW r \in Resolvers, MarkRestoreFailed(r), restore' # restore
      PROVE  \E x \in Restores :
               /\ row = restore[x].volume /\ UNCHANGED <<row, created>> /\ proc[r].task = Task(x)
               /\ restore' = [restore EXCEPT ![x] = [status |-> "failed", volume |-> row]]
  <2>1. PICK x \in Restores : proc[r].task = Task(x)
    BY <1>3 DEF MarkRestoreFailed, IInv, RestoresAreTrue
  <2>2. proc[r].task[2] = x
    BY <2>1 DEF Task
  <2>3. QED
    BY <1>3, <2>1, <2>2 DEF MarkRestoreFailed, SavedRestore, volume
<1>4. ASSUME NEW w \in Workers, SaveRestore(w), restore' # restore
      PROVE  /\ proc[w] \in Results /\ proc[w].item \in Restores
             /\ row = restore[proc[w].item].volume /\ UNCHANGED <<row, created>>
             /\ restore' = [restore EXCEPT ![proc[w].item] = [status |-> proc[w].result, volume |-> row]]
  <2>1. proc[w] \in Results
    BY <1>4, <1>p, WorkerFields DEF SaveRestore
  <2>2. QED
    BY <1>4, <2>1 DEF SaveRestore, SavedRestore, volume, Results
<1>5. ASSUME NEW w \in Workers, DeleteVolumeRow(w), restore' # restore
      PROVE  /\ row' = 0
             /\ restore' = [x \in Restores |-> IF restore[x].status \in Present /\ restore[x].volume = row
                              THEN [restore[x] EXCEPT !.status = "deleted"] ELSE restore[x]]
  BY <1>5, RowGoes
<1>6. CASE \E r \in Resolvers : CommitUpload(r)
  BY <1>2, <1>6
<1>7. CASE restore' # restore /\ \E r \in Resolvers : MarkRestoreFailed(r)
  BY <1>3, <1>7
<1>8. CASE restore' # restore /\ \E w \in Workers : SaveRestore(w)
  <2>1. PICK w \in Workers : SaveRestore(w)
    BY <1>8
  <2>2. PICK x \in Restores : x = proc[w].item
    BY <1>4, <1>8, <2>1
  <2>3. /\ SaveRestore(w) /\ proc[w] \in Results /\ row = restore[x].volume
        /\ UNCHANGED <<row, created>>
        /\ restore' = [restore EXCEPT ![x] = [status |-> proc[w].result, volume |-> row]]
    BY <1>4, <1>8, <2>1, <2>2
  <2>4. QED
    BY <2>2, <2>3
<1>9. CASE restore' # restore /\ \E w \in Workers : DeleteVolumeRow(w)
  BY <1>5, <1>9
<1>10. QED
  BY <1>1, <1>6, <1>7, <1>8, <1>9, RestoreWriters

(* And those of backups. *)
LEMMA BackupEffect ==
  ASSUME Shape, Next
  PROVE  \/ backup' = backup
         \/ \E r \in Resolvers, b \in Backups, kind \in {"local", "s3"} :
              /\ BackupPersistentVolume(r, b) /\ row # 0 /\ backup[b] = NoBackup
              /\ UNCHANGED <<row, created>>
              /\ backup' = [backup EXCEPT ![b] = [status |-> "pending", volume |-> row,
                                                  kind |-> kind, file |-> 0]]
         \/ \E r \in Resolvers, b \in Backups :
              /\ DeleteRow(r) /\ b = proc[r].item /\ proc[r].pc = "forget" /\ UNCHANGED <<row, created>>
              /\ backup' = [backup EXCEPT ![b] = [@ EXCEPT !.status = "deleted", !.file = 0]]
         \/ \E w \in Workers, b \in Backups :
              /\ SaveBackup(w) /\ proc[w] \in Dumps /\ proc[w].pc = "save" /\ b = proc[w].item
              /\ row = proc[w].copy.volume /\ UNCHANGED <<row, created>>
              /\ backup' = [backup EXCEPT ![b] = proc[w].copy]
         \/ \E w \in Workers :
              /\ DeleteVolumeRow(w) /\ row' = 0
              /\ backup' = [b \in Backups |-> IF backup[b].status \in Present /\ backup[b].volume = row
                              THEN [backup[b] EXCEPT !.status = "deleted", !.file = 0] ELSE backup[b]]
<1>p. ProcShape
  BY DEF Shape
<1>1. ASSUME NEW r \in Resolvers, NEW b \in Backups, BackupPersistentVolume(r, b)
      PROVE  \E kind \in {"local", "s3"} :
               /\ row # 0 /\ backup[b] = NoBackup
               /\ UNCHANGED <<row, created>>
               /\ backup' = [backup EXCEPT ![b] = [status |-> "pending", volume |-> row,
                                                   kind |-> kind, file |-> 0]]
  BY <1>1 DEF BackupPersistentVolume, volume
<1>2. ASSUME NEW r \in Resolvers, DeleteRow(r)
      PROVE  /\ proc[r].item \in Backups /\ proc[r].pc = "forget" /\ UNCHANGED <<row, created>>
             /\ backup' = [backup EXCEPT ![proc[r].item] = [@ EXCEPT !.status = "deleted", !.file = 0]]
  BY <1>2, <1>p, ResolverFields DEF DeleteRow, volume, Deletions
<1>3. ASSUME NEW w \in Workers, SaveBackup(w), backup' # backup
      PROVE  /\ proc[w] \in Dumps /\ proc[w].pc = "save" /\ proc[w].item \in Backups
             /\ row = proc[w].copy.volume /\ UNCHANGED <<row, created>>
             /\ backup' = [backup EXCEPT ![proc[w].item] = proc[w].copy]
  <2>1. proc[w] \in Dumps
    BY <1>3, <1>p, WorkerFields DEF SaveBackup
  <2>2. QED
    BY <1>3, <2>1 DEF SaveBackup, volume, Dumps
<1>4. ASSUME NEW w \in Workers, DeleteVolumeRow(w), backup' # backup
      PROVE  /\ row' = 0
             /\ backup' = [b \in Backups |-> IF backup[b].status \in Present /\ backup[b].volume = row
                             THEN [backup[b] EXCEPT !.status = "deleted", !.file = 0] ELSE backup[b]]
  BY <1>4, RowGoes
<1>5. CASE \E r \in Resolvers, b \in Backups : BackupPersistentVolume(r, b)
  BY <1>1, <1>5
<1>6. CASE \E r \in Resolvers : DeleteRow(r)
  BY <1>2, <1>6
<1>7. CASE backup' # backup /\ \E w \in Workers : SaveBackup(w)
  BY <1>3, <1>7
<1>8. CASE backup' # backup /\ \E w \in Workers : DeleteVolumeRow(w)
  BY <1>4, <1>8
<1>9. QED
  BY <1>5, <1>6, <1>7, <1>8, BackupWriters

LEMMA ArchiveShapeStep ==
  ASSUME IInv, Next
  PROVE  ArchiveShape'
<1>p. Shape /\ ArchiveShape /\ VolumeShape /\ row \in 0..MaxVolumes
  BY MaxVolumesAssumption DEF IInv, Shape, VolumeShape
<1>1. backup' \in [Backups -> BackupRows]
  <2>1. \A b \in Backups : [backup[b] EXCEPT !.status = "deleted", !.file = 0] \in BackupRows
    BY <1>p DEF ArchiveShape, BackupRows
  <2>2. \A kind \in {"local", "s3"} :
          [status |-> "pending", volume |-> row, kind |-> kind, file |-> 0] \in BackupRows
    BY <1>p DEF BackupRows
  <2>3. \A w \in Workers : proc[w] \in Dumps => proc[w].copy \in BackupRows
    BY DEF Dumps
  <2> HIDE DEF BackupRows
  <2>4. QED
    BY <1>p, <2>1, <2>2, <2>3, BackupEffect DEF ArchiveShape
<1>2. restore' \in [Restores -> RestoreRows]
  <2>1. \A x \in Restores : [restore[x] EXCEPT !.status = "deleted"] \in RestoreRows
    BY <1>p DEF ArchiveShape, RestoreRows
  <2>2. [status |-> "failed", volume |-> row] \in RestoreRows
    BY <1>p DEF RestoreRows
  <2>3. \A r \in Resolvers : proc[r] \in Uploads =>
          [status |-> "pending", volume |-> proc[r].id] \in RestoreRows
    BY MaxVolumesAssumption DEF Uploads, RestoreRows, Ids
  <2>4. \A w \in Workers : proc[w] \in Results =>
          [status |-> proc[w].result, volume |-> row] \in RestoreRows
    BY <1>p DEF Results, RestoreRows
  <2>5. QED
    BY <1>p, <2>1, <2>2, <2>3, <2>4, RestoreEffect DEF ArchiveShape
<1>3. IsFiniteSet(files')
  <2>1. ASSUME NEW S PROVE IsFiniteSet(files \ S)
    BY <1>p, FS_Difference DEF ArchiveShape
  <2>2. ASSUME NEW f PROVE IsFiniteSet(files \cup {f})
    BY <1>p, FS_AddElement DEF ArchiveShape
  <2>3. ASSUME NEW w \in Workers, StoreInS3(w) PROVE IsFiniteSet(files')
    <3> DEFINE b == proc[w].item
               n == proc[w].copy.file
    <3>1. files' = (files \cup {<<"s3", b, n>>}) \ {<<"local", b, n>>}
      BY <2>3 DEF StoreInS3
    <3>2. QED
      BY <2>2, <3>1, FS_Difference
  <2>4. ASSUME NEW r \in Resolvers,
               CommitUpload(r) \/ RemoveFile(r) \/ DeletePersistentVolumeBackups(r)
        PROVE  IsFiniteSet(files')
    BY <2>1, <2>2, <2>4 DEF CommitUpload, RemoveFile, DeletePersistentVolumeBackups
  <2>5. ASSUME NEW w \in Workers, \/ Dump(w) \/ BackupFails(w) \/ SaveRestore(w) \/ SaveRestoreFails(w)
        PROVE  IsFiniteSet(files')
    BY <1>p, <2>1, <2>2, <2>5 DEF Dump, BackupFails, SaveRestore, SaveRestoreFails, ArchiveShape
  <2>6. QED
    BY <1>p, <2>3, <2>4, <2>5, FileWriters DEF ArchiveShape
<1>4. QED
  BY <1>1, <1>2, <1>3 DEF ArchiveShape

LEMMA ShapeStep ==
  ASSUME IInv, Next
  PROVE  Shape'
<1>1. Shape
  BY DEF IInv
<1>2. QED
  BY <1>1, VolumeShapeStep, MachineShapeStep, ArchiveShapeStep, QueueStep, LocksShapeStep, ProcStep,
     WatchStep DEF Shape

-----------------------------------------------------------------------------
(* The rows. *)

(* While there is no row, nothing is found; a new row has a new id. *)
LEMMA RowsAreSoundStep ==
  ASSUME IInv, Next
  PROVE  RowsAreSound'
<1>p. Shape /\ ArchiveShape /\ ProcShape /\ RowsAreSound
      /\ created \in Nat /\ row \in 0..created /\ created' >= created /\ created' \in Nat
  <2>1. Shape /\ ArchiveShape /\ ProcShape /\ RowsAreSound
        /\ created \in Nat /\ row \in 0..created
    BY DEF IInv, Shape, VolumeShape
  <2>2. created' >= created /\ created' \in Nat
    BY <2>1, VolumeWriters
  <2>3. QED
    BY <2>1, <2>2
<1>1. \A b \in Backups : backup[b].status \in Present => row # 0 /\ backup[b].volume = row
  BY <1>p DEF RowsAreSound, Present
<1>2. \A x \in Restores : restore[x].status \in Present => row # 0 /\ restore[x].volume = row
  BY <1>p DEF RowsAreSound, Present
<1>3. \/ row' = row \/ row = 0
      \/ \E w \in Workers : DeleteVolumeRow(w) /\ row = proc[w].id /\ ~bound
  BY VolumeWriters DEF CommitCreate, IInv, CreationIsAlone
<1> DEFINE BackupIs(b) == /\ backup'[b].status # "none" => backup'[b].volume \in 1..created'
                          /\ backup'[b].status \in Present => backup'[b].volume = row'
           RestoreIs(x) == /\ restore'[x].status # "none" => restore'[x].volume \in 1..created'
                           /\ restore'[x].status \in Present => restore'[x].volume = row'
<1>4. ASSUME NEW b \in Backups PROVE BackupIs(b)
  <2>1. backup[b].status # "none" => backup[b].volume \in 1..created'
    BY <1>p DEF RowsAreSound
  <2>2. CASE backup' = [c \in Backups |-> IF backup[c].status \in Present /\ backup[c].volume = row
                          THEN [backup[c] EXCEPT !.status = "deleted", !.file = 0] ELSE backup[c]]
    <3>1. backup[b] \in BackupRows
      BY <1>p DEF ArchiveShape
    <3>2. /\ backup'[b].volume = backup[b].volume
          /\ backup'[b].status \notin Present
          /\ backup'[b].status # "none" => backup[b].status # "none"
      BY <1>1, <2>2, <3>1 DEF BackupRows, Present
    <3>3. QED
      BY <2>1, <3>2
  <2>3. CASE backup' = backup /\ (row' = row \/ row = 0)
    BY <1>1, <2>1, <2>3
  <2>4. CASE \E w \in Workers : DeleteVolumeRow(w) /\ row = proc[w].id /\ ~bound
    <3>1. \/ UNCHANGED <<row, backup>>
          \/ backup' = [c \in Backups |-> IF backup[c].status \in Present /\ backup[c].volume = row
                          THEN [backup[c] EXCEPT !.status = "deleted", !.file = 0] ELSE backup[c]]
      BY <2>4, RowGoes
    <3>2. QED
      BY <3>1, <2>2, <2>3
  <2>5. ASSUME NEW c \in Backups, NEW kind,
               row # 0, UNCHANGED <<row, created>>,
               backup' = [backup EXCEPT ![c] = [status |-> "pending", volume |-> row,
                                                kind |-> kind, file |-> 0]]
        PROVE  BackupIs(b)
    BY <1>1, <1>p, <2>1, <2>5 DEF ArchiveShape
  <2>6. ASSUME NEW r \in Resolvers, NEW c \in Backups, c = proc[r].item, proc[r].pc = "forget",
               UNCHANGED <<row, created>>,
               backup' = [backup EXCEPT ![c] = [@ EXCEPT !.status = "deleted", !.file = 0]]
        PROVE  BackupIs(b)
    <3>1. backup[c].status # "none" /\ backup[c] \in BackupRows
      BY <2>6, <1>p DEF IInv, BackupsAreTrue, ArchiveShape
    <3>2. c = b => backup'[b].status = "deleted" /\ backup'[b].volume = backup[b].volume
      BY <2>6, <3>1, <1>p DEF ArchiveShape, BackupRows
    <3>3. c # b => backup'[b] = backup[b]
      BY <2>6, <1>p DEF ArchiveShape
    <3>4. QED
      BY <1>1, <2>1, <2>6, <3>1, <3>2, <3>3 DEF Present
  <2>7. ASSUME NEW w \in Workers, NEW c \in Backups, proc[w].pc = "save", c = proc[w].item,
               row = proc[w].copy.volume, UNCHANGED <<row, created>>,
               backup' = [backup EXCEPT ![c] = proc[w].copy]
        PROVE  BackupIs(b)
    <3>1. proc[w].copy.volume = backup[c].volume /\ backup[c].status # "none"
      BY <2>7 DEF IInv, BackupsAreTrue, DumpIsTrue
    <3>2. c = b => backup'[b] = proc[w].copy
      BY <2>7, <1>p DEF ArchiveShape
    <3>3. c # b => backup'[b] = backup[b]
      BY <2>7, <1>p DEF ArchiveShape
    <3>4. QED
      BY <1>1, <2>1, <2>7, <3>1, <3>2, <3>3
  <2>8. QED
    BY <1>3, <1>p, <2>2, <2>3, <2>4, <2>5, <2>6, <2>7, BackupEffect
<1>5. ASSUME NEW x \in Restores PROVE RestoreIs(x)
  <2>1. restore[x].status # "none" => restore[x].volume \in 1..created'
    BY <1>p DEF RowsAreSound
  <2>2. ASSUME NEW X \in SUBSET Restores, \A y \in Restores : restore[y].status \in Present => y \in X,
               \A y \in X : restore[y].status \in Present,
               restore' = [y \in Restores |-> IF y \in X
                             THEN [restore[y] EXCEPT !.status = "deleted"] ELSE restore[y]]
        PROVE  RestoreIs(x)
    BY <1>1, <1>p, <2>1, <2>2 DEF ArchiveShape, RestoreRows, Present
  <2>3. CASE restore' = restore /\ (row' = row \/ row = 0)
    BY <1>2, <2>1, <2>3
  <2>4. ASSUME restore' = [y \in Restores |-> IF restore[y].status \in Present /\ restore[y].volume = row
                             THEN [restore[y] EXCEPT !.status = "deleted"] ELSE restore[y]]
        PROVE  RestoreIs(x)
    <3> DEFINE X == {y \in Restores : restore[y].status \in Present}
    <3>1. restore' = [y \in Restores |-> IF y \in X
                        THEN [restore[y] EXCEPT !.status = "deleted"] ELSE restore[y]]
      BY <1>2, <2>4
    <3>2. /\ X \in SUBSET Restores /\ \A y \in X : restore[y].status \in Present
          /\ \A y \in Restores : restore[y].status \in Present => y \in X
      OBVIOUS
    <3> HIDE DEF X, RestoreIs
    <3>3. QED
      BY <2>2, <3>1, <3>2
  <2>5. CASE \E w \in Workers : DeleteVolumeRow(w) /\ row = proc[w].id /\ ~bound
    <3>1. \/ UNCHANGED <<row, restore>>
          \/ restore' = [y \in Restores |-> IF restore[y].status \in Present /\ restore[y].volume = row
                           THEN [restore[y] EXCEPT !.status = "deleted"] ELSE restore[y]]
      BY <2>5, RowGoes
    <3>2. QED
      BY <3>1, <2>3, <2>4
  <2>6. ASSUME NEW X \in SUBSET Restores, UNCHANGED <<row, created>>,
               \A y \in X : restore[y].status \in Present,
               restore' = [y \in Restores |-> IF y \in X
                             THEN [restore[y] EXCEPT !.status = "deleted"] ELSE restore[y]]
        PROVE  RestoreIs(x)
    BY <1>2, <1>p, <2>1, <2>6 DEF ArchiveShape, RestoreRows, Present
  <2>7. ASSUME NEW r \in Resolvers, NEW y \in Restores, CommitUpload(r), UNCHANGED <<row, created>>,
               proc[r] \in Uploads,
               restore' = [restore EXCEPT ![y] = [status |-> "pending", volume |-> proc[r].id]]
        PROVE  RestoreIs(x)
    <3>1. proc[r].id = row
      BY <2>7 DEF CommitUpload, IInv, UploadIsAlone
    <3>2. proc[r].id \in 1..created
      BY <3>1, <2>7, <1>p DEF Uploads, Ids
    <3>3. QED
      BY <1>2, <1>p, <2>1, <2>7, <3>1, <3>2 DEF ArchiveShape
  <2>8. ASSUME NEW y \in Restores, NEW result, row = restore[y].volume, UNCHANGED <<row, created>>,
               restore[y].status # "none",
               restore' = [restore EXCEPT ![y] = [status |-> result, volume |-> row]]
        PROVE  RestoreIs(x)
    BY <1>2, <1>p, <2>1, <2>8 DEF ArchiveShape
  <2>9. ASSUME NEW r \in Resolvers, MarkRestoreFailed(r), NEW y \in Restores, proc[r].task = Task(y)
        PROVE  restore[y].status # "none"
    BY <2>9 DEF MarkRestoreFailed, IInv, RestoresAreTrue, Holds, Processes
  <2>10. ASSUME NEW w \in Workers, SaveRestore(w), proc[w].item \in Restores
         PROVE  restore[proc[w].item].status # "none"
    BY <2>10 DEF SaveRestore, IInv, RestoresAreTrue, Holds, Processes
  <2>11. QED
    BY <1>3, <2>3, <2>4, <2>5, <2>6, <2>7, <2>8, <2>9, <2>10, RestoreEffect
<1>6. QED
  BY <1>4, <1>5 DEF RowsAreSound

-----------------------------------------------------------------------------
(* Where a goroutine is after a step of anyone. *)

LEMMA ResolverEntries ==
  ASSUME Shape, Next, NEW r \in Resolvers
  PROVE  /\ proc'[r].pc = "check" => proc'[r] = proc[r] \/ Create(r)
         /\ proc'[r].pc = "create" => \/ proc'[r] = proc[r] \/ InsertRow(r)
                                      \/ \E s \in Servers : CreateOnServer(r, s)
         /\ proc'[r].pc = "upload" => \/ proc'[r] = proc[r]
                                      \/ \E x \in Restores : BeginUpload(r, x)
         /\ proc'[r].pc = "enqueue" => \/ proc'[r] = proc[r]
                                       \/ DeletePersistentVolume(r) \/ CommitUpload(r)
                                       \/ \E b \in Backups : BackupPersistentVolume(r, b)
         /\ proc'[r].pc = "mark" => proc'[r] = proc[r] \/ EnqueueFails(r)
         /\ proc'[r].pc \in {"unlink", "forget"} =>
              \/ proc'[r] = proc[r] \/ RemoveFile(r)
              \/ \E b \in Backups : DeletePersistentVolumeBackup(r, b)
<1>1. CASE proc'[r] = proc[r]
  BY <1>1
<1>2. CASE ResolverStep(r) \/ Begin(r)
  BY <1>2, ResolverMoves
<1>3. CASE Crash
  BY <1>3, CrashEffect, IdleIsState DEF Processes
<1>4. r \in Processes /\ r \notin Workers
  BY ProcessesAssumption DEF Processes
<1>5. ASSUME NEW q \in Resolvers, q # r, ResolverStep(q) \/ Begin(q) PROVE proc'[r] = proc[r]
  BY <1>4, <1>5, ResolverMoves
<1>6. ASSUME NEW w \in Workers, TakeTask(w) \/ WorkerStep(w) PROVE proc'[r] = proc[r]
  BY <1>4, <1>6, WorkerMoves
<1>7. QED
  BY <1>1, <1>2, <1>3, <1>5, <1>6, NextIs, OthersStay

LEMMA WorkerEntries ==
  ASSUME Shape, Next, NEW w \in Workers
  PROVE  /\ proc'[w].pc = "remove" => \/ proc'[w] = proc[w]
                                      \/ \E i \in Ids : TakeDeletion(w, i)
                                      \/ \E s \in Servers : \/ RemoveFromServer(w, s)
                                                            \/ RemoveIsRefused(w, s)
         /\ proc'[w].pc = "dump" => \/ proc'[w] = proc[w]
                                    \/ \E b \in Backups : TakeBackup(w, b)
         /\ proc'[w].pc = "store" => proc'[w] = proc[w] \/ Dump(w)
         /\ proc'[w].pc = "save" => proc'[w] = proc[w] \/ Dump(w) \/ StoreInS3(w) \/ BackupFails(w)
         /\ proc'[w].pc = "restore" => \/ proc'[w] = proc[w]
                                       \/ \E x \in Restores : TakeRestore(w, x)
         /\ proc'[w].pc = "result" => proc'[w] = proc[w] \/ RestoreSucceeds(w) \/ RestoreFails(w)
<1>1. CASE proc'[w] = proc[w]
  BY <1>1
<1>2. CASE TakeTask(w) \/ WorkerStep(w)
  BY <1>2, WorkerMoves
<1>3. CASE Crash
  BY <1>3, CrashEffect, IdleIsState DEF Processes
<1>4. w \in Processes /\ w \notin Resolvers
  BY ProcessesAssumption DEF Processes
<1>5. ASSUME NEW r \in Resolvers, ResolverStep(r) \/ Begin(r) PROVE proc'[w] = proc[w]
  BY <1>4, <1>5, ResolverMoves
<1>6. ASSUME NEW v \in Workers, v # w, TakeTask(v) \/ WorkerStep(v) PROVE proc'[w] = proc[w]
  BY <1>4, <1>6, WorkerMoves
<1>7. QED
  BY <1>1, <1>2, <1>3, <1>5, <1>6, NextIs, OthersStay

(* A worker that takes a task. *)
LEMMA TakeEffect ==
  ASSUME ProcShape, WatchShape, NEW w \in Workers
  PROVE  /\ \A i \in Ids : TakeDeletion(w, i) /\ proc'[w].pc = "remove" =>
              /\ proc'[w].id = i
              /\ row = i /\ UNCHANGED <<row, created>> /\ i \in watch'.condemned
         /\ \A b \in Backups : TakeBackup(w, b) /\ proc'[w].pc = "dump" =>
              /\ proc'[w].item = b /\ backup[b].status = "pending" /\ backup' = backup
              /\ proc'[w].copy = [backup[b] EXCEPT !.status = "success"]
         /\ \A x \in Restores : TakeRestore(w, x) =>
              /\ Task(x) \in queue /\ proc[w] = Idle /\ restore' = restore
              /\ UNCHANGED <<row, created>>
              /\ Task(x) \in watch'.again \/ queue' = queue \ {Task(x)}
              /\ proc'[w].pc = "restore" => /\ proc'[w].item = x
                                            /\ restore[x].status = "pending" /\ row = restore[x].volume
<1>1. w \in Processes /\ proc = [p \in Processes |-> proc[p]] /\ DOMAIN watch = Watched
  BY DEF Processes, ProcShape, WatchShape
<1>2. ASSUME NEW t, Take(w, t)
      PROVE  /\ proc[w] = Idle /\ t \in queue
             /\ t \in watch'.again \/ queue' = queue \ {t}
             /\ t[1] = "delete" /\ t[2] = row /\ ~bound => row \in watch'.condemned
  <2>1. PICK more \in BOOLEAN :
       /\ queue' = IF more THEN queue ELSE queue \ {t}
       /\ watch' = [watch EXCEPT !.again = @ \cup (IF more THEN {t} ELSE {}),
            !.condemned = @ \cup (IF t[1] = "delete" /\ ~bound THEN {row} \cap {t[2]} ELSE {})]
    BY <1>2 DEF Take
  <2>2. QED
    BY <1>1, <1>2, <2>1 DEF Take, Watched
<1>3. ASSUME NEW i \in Ids, TakeDeletion(w, i), proc'[w].pc = "remove"
      PROVE  /\ proc'[w].id = i
             /\ row = i /\ UNCHANGED <<row, created>> /\ i \in watch'.condemned
  <2>1. Take(w, <<"delete", i>>) /\ UNCHANGED <<row, created>>
    BY <1>3 DEF TakeDeletion, volume
  <2>2. proc[w].pc # "remove"
    BY <2>1, <1>2, IdleIsState
  <2>3. row = i /\ ~bound /\ proc' = [proc EXCEPT ![w] = [pc |-> "remove", id |-> i, todo |-> Servers, done |-> FALSE]]
    BY <1>3, <2>2 DEF TakeDeletion, Become
  <2>4. QED
    BY <1>1, <1>2, <2>1, <2>3
<1>4. ASSUME NEW b \in Backups, TakeBackup(w, b), proc'[w].pc = "dump"
      PROVE  /\ proc'[w].item = b /\ backup[b].status = "pending" /\ backup' = backup
             /\ proc'[w].copy = [backup[b] EXCEPT !.status = "success"]
  <2>1. Take(w, <<"backup", b>>) /\ backup' = backup
    BY <1>4 DEF TakeBackup, archive
  <2>2. proc[w].pc # "dump"
    BY <2>1, <1>2, IdleIsState
  <2>3. backup[b].status = "pending"
        /\ \E s \in Online : proc' = [proc EXCEPT ![w] = [pc |-> "dump", item |-> b, server |-> s,
                                       copy |-> [backup[b] EXCEPT !.status = "success"]]]
    BY <1>4, <2>2 DEF TakeBackup, Become
  <2>4. QED
    BY <1>1, <2>1, <2>3
<1>5. ASSUME NEW x \in Restores, TakeRestore(w, x)
      PROVE  /\ Task(x) \in queue /\ proc[w] = Idle /\ restore' = restore
             /\ UNCHANGED <<row, created>>
             /\ Task(x) \in watch'.again \/ queue' = queue \ {Task(x)}
             /\ proc'[w].pc = "restore" => /\ proc'[w].item = x
                                           /\ restore[x].status = "pending" /\ row = restore[x].volume
  <2>1. Take(w, Task(x)) /\ restore' = restore /\ UNCHANGED <<row, created>>
    BY <1>5 DEF TakeRestore, archive, volume, Task
  <2>2. proc[w].pc # "restore"
    BY <2>1, <1>2, IdleIsState
  <2>3. ASSUME proc'[w].pc = "restore"
        PROVE  restore[x].status = "pending" /\ row = restore[x].volume /\ proc'[w].item = x
    <3>1. restore[x].status = "pending" /\ row = restore[x].volume
          /\ \E s \in Online : proc' = [proc EXCEPT ![w] = [pc |-> "restore", item |-> x, server |-> s]]
      BY <1>5, <2>2, <2>3 DEF TakeRestore, Become
    <3>2. QED
      BY <1>1, <3>1
  <2>4. QED
    BY <1>2, <2>1, <2>3
<1>6. QED
  BY <1>3, <1>4, <1>5

LEMMA RemoveKeepsId ==
  ASSUME ProcShape, NEW w \in Workers, NEW s, RemoveFromServer(w, s) \/ RemoveIsRefused(w, s)
  PROVE  proc[w].pc = "remove" /\ proc'[w].id = proc[w].id
<1>1. w \in Processes /\ proc = [p \in Processes |-> proc[p]] /\ proc[w] \in Removals
  BY WorkerFields DEF Processes, ProcShape, RemoveFromServer, RemoveIsRefused
<1>2. QED
  BY <1>1 DEF RemoveFromServer, RemoveIsRefused, Removals

-----------------------------------------------------------------------------
(* The volume and the servers. *)

LEMMA RemovalIsKnownStep ==
  ASSUME IInv, Next
  PROVE  RemovalIsKnown'
<1>p. Shape /\ ProcShape /\ WatchShape /\ RemovalIsKnown /\ created \in Nat /\ row \in 0..created
  BY DEF IInv, Shape, VolumeShape
<1>g. watch.condemned \subseteq watch'.condemned /\ created' \in Nat /\ created' >= created
  <2>1. watch["condemned"] \subseteq watch'["condemned"]
    BY <1>p, WatchStep DEF Grows, Watched
  <2>2. created' \in Nat /\ created' >= created
    BY <1>p, VolumeWriters
  <2>3. QED
    BY <2>1, <2>2
<1> SUFFICES ASSUME NEW w \in Workers, proc'[w].pc = "remove"
             PROVE  proc'[w].id \in watch'.condemned /\ proc'[w].id <= created'
  BY DEF RemovalIsKnown
<1>1. CASE proc'[w] = proc[w]
  <2>1. proc[w].id \in Nat
    BY <1>1, <1>p, WorkerFields DEF Removals, Ids
  <2>2. QED
    BY <1>1, <2>1, <1>p, <1>g DEF RemovalIsKnown
<1>2. CASE \E i \in Ids : TakeDeletion(w, i)
  <2>1. PICK i \in Ids : TakeDeletion(w, i)
    BY <1>2
  <2>2. proc'[w].id = i /\ row = i /\ i \in watch'.condemned
    BY <2>1, <1>p, TakeEffect
  <2>3. QED
    BY <2>2, <1>p, <1>g
<1>3. CASE \E s \in Servers : RemoveFromServer(w, s) \/ RemoveIsRefused(w, s)
  <2>1. proc[w].pc = "remove" /\ proc'[w].id = proc[w].id
    BY <1>3, <1>p, RemoveKeepsId
  <2>2. proc[w].id \in Nat
    BY <2>1, <1>p, WorkerFields DEF Removals, Ids
  <2>3. QED
    BY <2>1, <2>2, <1>p, <1>g DEF RemovalIsKnown
<1>4. QED
  BY <1>p, <1>1, <1>2, <1>3, WorkerEntries

LEMMA UploadIsAloneStep ==
  ASSUME IInv, Next
  PROVE  UploadIsAlone'
<1>p. Shape /\ ProcShape /\ UploadIsAlone /\ CreationIsAlone
  BY DEF IInv, Shape
<1>1. ASSUME NEW r \in Resolvers, proc[r].pc = "upload", proc'[r] = proc[r]
      PROVE  row' = proc'[r].id
  <2>1. row = proc[r].id /\ row # 0
    BY <1>1, <1>p, ResolverFields DEF UploadIsAlone, Uploads, Ids
  <2>2. CASE \E q \in Resolvers : CommitCreate(q)
    BY <2>1, <2>2, <1>p DEF CommitCreate, CreationIsAlone
  <2>3. ASSUME NEW w \in Workers, DeleteVolumeRow(w), row = proc[w].id, row' = 0, ~bound
        PROVE  FALSE
    <3>1. \A q \in Resolvers : ~RefersTo(q, row)
      BY <2>1, <2>3 DEF DeleteVolumeRow, volume
    <3>2. QED
      BY <1>1, <2>1, <3>1 DEF RefersTo
  <2>4. QED
    BY <1>1, <2>1, <2>2, <2>3, VolumeWriters
<1>2. ASSUME NEW r \in Resolvers, NEW x \in Restores, BeginUpload(r, x)
      PROVE  row' = proc'[r].id
             /\ \A q \in Resolvers : proc[q].pc # "upload" /\ (q # r => proc'[q] = proc[q])
  <2>1. r \in Processes /\ proc = [p \in Processes |-> proc[p]]
    BY <1>p DEF Processes, ProcShape
  <2>2. QED
    BY <1>2, <2>1 DEF BeginUpload, Become, volume, Processes
<1>3. \A r \in Resolvers : proc'[r].pc = "upload" =>
        \/ proc[r].pc = "upload" /\ proc'[r] = proc[r]
        \/ \E x \in Restores : BeginUpload(r, x)
  BY <1>p, ResolverEntries
<1>4. QED
  BY <1>1, <1>2, <1>3, <1>p DEF UploadIsAlone

LEMMA CreationIsAloneStep ==
  ASSUME IInv, Next
  PROVE  CreationIsAlone'
<1>p. Shape /\ ProcShape /\ WatchShape /\ ArchiveShape /\ RowsAreSound /\ UploadIsAlone /\ RemovalIsKnown
      /\ CreationIsAlone /\ created \in Nat /\ row \in 0..created
  BY DEF IInv, Shape, VolumeShape
<1>f. \A w \in Workers : proc[w].pc = "remove" => proc[w].id \in Ids
  BY <1>p, WorkerFields DEF Removals
<1>c. ASSUME NEW r \in Resolvers, CommitCreate(r) PROVE proc[r].pc = "create" /\ proc'[r].pc = "idle"
  BY <1>c, <1>p, IdleIsState DEF CommitCreate, Return, ProcShape, Processes
<1>o. ASSUME NEW r \in Resolvers, NEW s \in Servers, CreateOnServer(r, s)
      PROVE  /\ proc[r].pc = "create" /\ proc'[r].id = proc[r].id
  <2>1. proc[r] \in Checks /\ r \in Processes /\ proc = [p \in Processes |-> proc[p]]
    BY <1>o, <1>p, ResolverFields DEF CreateOnServer, Processes, ProcShape
  <2>2. QED
    BY <1>o, <2>1 DEF CreateOnServer, Checks
<1>i. ASSUME NEW r \in Resolvers, InsertRow(r), proc'[r].pc = "create"
      PROVE  /\ row' = 0 /\ created' = created + 1 /\ proc'[r].id = created'
             /\ \A q \in Resolvers : proc[q].pc # "create"
             /\ \A q \in Processes : q # r => proc'[q] = proc[q]
             /\ restore' = restore
  <2>1. proc[r] \in Checks /\ r \in Processes /\ proc = [p \in Processes |-> proc[p]]
    BY <1>i, <1>p, ResolverFields DEF InsertRow, Processes, ProcShape
  <2>2. proc' # [proc EXCEPT ![r] = Idle]
    BY <1>i, <2>1, IdleIsState
  <2>3. row = 0 /\ created' = created + 1 /\ row' = row /\ restore' = restore
        /\ (\A q \in Resolvers : proc[q].pc # "create")
        /\ proc' = [proc EXCEPT ![r].pc = "create", ![r].id = created']
    BY <1>i, <2>2 DEF InsertRow, Return, archive
  <2>4. QED
    BY <2>1, <2>3 DEF Checks
<1>1. ASSUME NEW r \in Resolvers, proc[r].pc = "create", proc'[r].pc = "create"
      PROVE  row = 0 /\ proc[r].id = created /\ created # 0 /\ UNCHANGED <<row, created>>
  <2>1. row = 0 /\ proc[r].id = created /\ created # 0
    BY <1>1, <1>p DEF CreationIsAlone
  <2>2. CASE \E q \in Resolvers : CommitCreate(q)
    BY <1>1, <2>2, <1>p, <1>c DEF CreationIsAlone
  <2>3. CASE \E q \in Resolvers : InsertRow(q) /\ created' = created + 1
    BY <1>1, <2>3, <1>p DEF InsertRow
  <2>4. CASE \E w \in Workers : DeleteVolumeRow(w) /\ row = proc[w].id
    <3>1. PICK w \in Workers : proc[w].pc = "remove" /\ row = proc[w].id
      BY <2>4 DEF DeleteVolumeRow
    <3>2. proc[w].id # 0
      BY <3>1, <1>f DEF Ids
    <3>3. QED
      BY <2>1, <3>1, <3>2
  <2>5. QED
    BY <2>1, <2>2, <2>3, <2>4, VolumeWriters
<1>2. ASSUME NEW r \in Resolvers, proc'[r].pc = "create"
      PROVE  \/ proc[r].pc = "create" /\ proc'[r].id = proc[r].id
             \/ InsertRow(r)
  BY <1>2, <1>p, <1>o, ResolverEntries
<1> SUFFICES ASSUME NEW r \in Resolvers, proc'[r].pc = "create"
             PROVE  /\ row' = 0 /\ created' # 0 /\ proc'[r].id = created'
                    /\ \A q \in Resolvers : proc'[q].pc = "create" => q = r
                    /\ \A x \in Restores : restore'[x].status # "none" => restore'[x].volume # created'
                    /\ \A w \in Workers : proc'[w].pc = "remove" => proc'[w].id # created'
  BY DEF CreationIsAlone
<1>3. CASE InsertRow(r)
  <2>1. row' = 0 /\ created' # 0 /\ proc'[r].id = created'
    BY <1>3, <1>i, <1>p
  <2>2. \A q \in Resolvers : proc'[q].pc = "create" => q = r
    BY <1>3, <1>i DEF Processes
  <2>3. \A x \in Restores : restore'[x].status # "none" => restore'[x].volume # created'
    BY <1>3, <1>i, <1>p DEF RowsAreSound
  <2>4. \A w \in Workers : proc'[w] = proc[w]
    BY <1>3, <1>i, ProcessesAssumption DEF Processes
  <2>5. \A w \in Workers : proc'[w].pc = "remove" => proc'[w].id # created'
    BY <1>3, <2>4, <1>i, <1>p, <1>f DEF RemovalIsKnown, Ids
  <2>6. QED
    BY <2>1, <2>2, <2>3, <2>5
<1>4. CASE proc[r].pc = "create" /\ proc'[r].id = proc[r].id
  <2>1. row = 0 /\ proc[r].id = created /\ created # 0 /\ row' = 0 /\ created' = created
    BY <1>1, <1>4
  <2>2. \A q \in Resolvers : proc'[q].pc = "create" => q = r
    BY <1>2, <1>4, <1>p, <1>i DEF CreationIsAlone
  <2>3. \A x \in Restores : restore[x].status # "none" => restore[x].volume # created
    BY <1>4, <1>p DEF CreationIsAlone
  <2>4. \A x \in Restores : restore'[x].status # "none" => restore'[x].volume # created
    <3>1. ASSUME NEW q \in Resolvers, CommitUpload(q), proc[q] \in Uploads PROVE FALSE
      BY <3>1, <2>1, <1>p DEF UploadIsAlone, Uploads, Ids
    <3>2. \A x \in Restores : restore[x] \in RestoreRows
      BY <1>p DEF ArchiveShape
    <3>3. ASSUME NEW X \in SUBSET Restores, \A x \in X : restore[x].status \in Present,
                 restore' = [x \in Restores |-> IF x \in X
                               THEN [restore[x] EXCEPT !.status = "deleted"] ELSE restore[x]]
          PROVE  \A x \in Restores : restore'[x].status # "none" => restore'[x].volume # created
      BY <3>2, <3>3, <2>3 DEF RestoreRows, Present
    <3>4. ASSUME NEW y \in Restores, NEW result,
                 restore' = [restore EXCEPT ![y] = [status |-> result, volume |-> row]]
          PROVE  \A x \in Restores : restore'[x].status # "none" => restore'[x].volume # created
      BY <3>4, <2>1, <2>3, <1>p DEF ArchiveShape
    <3>5. ASSUME restore' = [x \in Restores |-> IF restore[x].status \in Present /\ restore[x].volume = row
                               THEN [restore[x] EXCEPT !.status = "deleted"] ELSE restore[x]]
          PROVE  \A x \in Restores : restore'[x].status # "none" => restore'[x].volume # created
      BY <3>2, <3>5, <2>3 DEF RestoreRows, Present
    <3>6. QED
      BY <2>3, <3>1, <3>3, <3>4, <3>5, RestoreEffect
  <2>5. ASSUME NEW w \in Workers, proc'[w].pc = "remove" PROVE proc'[w].id # created
    <3>1. CASE \E i \in Ids : TakeDeletion(w, i)
      <4>1. PICK i \in Ids : TakeDeletion(w, i)
        BY <3>1
      <4>2. row = i
        BY <2>5, <4>1, <1>p, TakeEffect
      <4>3. QED
        BY <2>1, <4>2 DEF Ids
    <3>2. CASE proc[w].pc = "remove" /\ proc'[w].id = proc[w].id
      BY <3>2, <1>4, <1>p DEF CreationIsAlone
    <3>3. QED
      BY <2>5, <3>1, <3>2, <1>p, WorkerEntries, RemoveKeepsId
  <2>6. QED
    BY <1>4, <2>1, <2>2, <2>4, <2>5
<1>5. QED
  BY <1>2, <1>3, <1>4

LEMMA PreparedStays ==
  ASSUME Shape, Next, NEW s \in Servers, ~Unprepared(s)
  PROVE  ~Unprepared(s)'
<1>1. status[s] \in {"online", "offline"} /\ status \in [Servers -> {"new", "adds", "skips", "online", "offline"}]
  BY DEF Unprepared, Shape, MachineShape
<1>2. CASE MachineStep
  BY <1>1, <1>2 DEF MachineStep, SetupReads, SetupAddsVolume, SetupEnds, GoOffline, GoOnline,
     Unprepared
<1>3. CASE Crash
  BY <1>1, <1>3 DEF Crash, Unprepared
<1>4. CASE status' = status
  BY <1>1, <1>4 DEF Unprepared
<1>5. QED
  BY <1>2, <1>3, <1>4, MachineWriters

LEMMA CondemnedGrows ==
  ASSUME Shape, Next
  PROVE  watch.condemned \subseteq watch'.condemned /\ watch.torn \subseteq watch'.torn
         /\ watch.doomed \subseteq watch'.doomed /\ watch.applied \subseteq watch'.applied
         /\ watch.again \subseteq watch'.again /\ watch.waived \subseteq watch'.waived
<1>1. \A k \in Watched : watch[k] \subseteq watch'[k]
  BY WatchStep DEF Grows
<1>2. {"torn", "condemned", "doomed", "waived", "again", "applied"} = Watched
  BY DEF Watched
<1>3. QED
  BY <1>1, <1>2

(* A late deletion condemns the volume that it takes from a server. *)
LEMMA RemovalCondemns ==
  ASSUME IInv, NEW w \in Workers, NEW s \in Servers, RemoveFromServer(w, s)
  PROVE  /\ row # 0 => row \in watch.condemned \cup watch'.condemned
         /\ \A r \in Resolvers : proc[r].pc = "create" => proc[r].id \in watch'.condemned
<1>1. WatchShape /\ RemovalIsKnown /\ CreationIsAlone /\ proc[w].pc = "remove"
  BY DEF IInv, Shape, RemoveFromServer
<1>2. watch'.condemned = watch.condemned \cup OtherIds(proc[w].id)
  BY <1>1 DEF RemoveFromServer, Note, WatchShape, Watched
<1>3. row # 0 => row = proc[w].id \/ row \in OtherIds(proc[w].id)
  BY DEF OtherIds
<1>4. \A r \in Resolvers : proc[r].pc = "create" => proc[r].id \in OtherIds(proc[w].id)
  BY <1>1 DEF OtherIds, CreationIsAlone
<1>5. QED
  BY <1>1, <1>2, <1>3, <1>4 DEF RemovalIsKnown

LEMMA CreationIsThoroughStep ==
  ASSUME IInv, Next
  PROVE  CreationIsThorough'
<1>p. Shape /\ ProcShape /\ MachineShape /\ CreationIsThorough
  BY DEF IInv, Shape
<1>f. proc = [p \in Processes |-> proc[p]] /\ Resolvers \subseteq Processes
  BY <1>p DEF ProcShape, Processes
<1> DEFINE Free(r) == Servers \ (proc[r].todo \cup proc[r].others)
<1> SUFFICES ASSUME NEW r \in Resolvers, proc'[r].pc \in {"check", "create"}
             PROVE  /\ \A s \in Servers \ proc'[r].others : ~Unprepared(s)'
                    /\ proc'[r].pc = "check" => proc'[r].todo \cup proc'[r].others = Servers
                    /\ proc'[r].pc = "create" /\ proc'[r].id \notin watch'.condemned
                         => \A s \in Servers \ (proc'[r].todo \cup proc'[r].others) : disk'[s]
  BY DEF CreationIsThorough, Unprepared
<1>1. CASE Create(r)
  <2>1. proc'[r] = [pc |-> "check", id |-> 0, todo |-> Online,
                    others |-> {s \in Servers : Unprepared(s)}]
    BY <1>1, <1>f DEF Create, Creating, Become
  <2>2. proc'[r].pc = "check" /\ proc'[r].todo = Online
        /\ proc'[r].others = {s \in Servers : Unprepared(s)}
    BY <2>1
  <2>3. Online \cup {s \in Servers : Unprepared(s)} = Servers
    BY <1>1 DEF Create, Online, Unprepared
  <2>4. QED
    BY <2>2, <2>3, <1>p, PreparedStays
<1>2. CASE InsertRow(r) /\ proc'[r].pc = "create"
  <2>1. proc[r].pc = "check" /\ proc[r] \in Checks
    BY <1>2, <1>p, ResolverFields DEF InsertRow
  <2>2. proc'[r].todo = proc[r].todo /\ proc'[r].others = proc[r].others
    BY <1>2, <2>1, <1>f, IdleIsState DEF InsertRow, Return, Checks
  <2>3. QED
    BY <1>2, <2>1, <2>2, <1>p, PreparedStays DEF CreationIsThorough
<1>3. CASE \E s \in Servers : CreateOnServer(r, s)
  <2>1. PICK s \in Servers : CreateOnServer(r, s)
    BY <1>3
  <2>2. proc[r].pc = "create" /\ proc[r] \in Checks
    BY <2>1, <1>p, ResolverFields DEF CreateOnServer
  <2>3. /\ proc'[r].todo = proc[r].todo \ {s} /\ proc'[r].others = proc[r].others
        /\ proc'[r].id = proc[r].id /\ proc'[r].pc = "create"
        /\ disk' = [disk EXCEPT ![s] = TRUE]
    BY <2>1, <2>2, <1>f DEF CreateOnServer, Checks
  <2>4. \A t \in Servers : t = s \/ disk[t] => disk'[t]
    BY <2>3, <1>p DEF MachineShape
  <2>5. proc[r].id \notin watch'.condemned => \A t \in Free(r) : disk[t]
    BY <2>2, <1>p, CondemnedGrows DEF CreationIsThorough
  <2>6. QED
    BY <2>2, <2>3, <2>4, <2>5, <1>p, PreparedStays DEF CreationIsThorough
<1>4. CASE proc'[r] = proc[r]
  <2>1. \A s \in Servers \ proc[r].others : ~Unprepared(s) /\ ~Unprepared(s)'
    BY <1>4, <1>p, PreparedStays DEF CreationIsThorough
  <2>2. ASSUME proc[r].pc = "create", proc[r].id \notin watch'.condemned, NEW s \in Free(r)
        PROVE  disk'[s]
    <3>1. disk[s] /\ ~Unprepared(s) /\ disk \in [Servers -> BOOLEAN]
      BY <2>1, <2>2, <1>p, CondemnedGrows DEF CreationIsThorough, MachineShape
    <3>2. CASE MachineStep
      BY <3>1, <3>2 DEF MachineStep, SetupReads, SetupAddsVolume, SetupEnds, GoOffline, GoOnline,
         machine, Unprepared
    <3>3. CASE Crash
      BY <3>1, <3>3 DEF Crash
    <3>4. CASE \E q \in Resolvers, t \in Servers : CreateOnServer(q, t)
      BY <3>1, <3>4 DEF CreateOnServer
    <3>5. CASE \E w \in Workers, t \in Servers : RemoveFromServer(w, t)
      BY <2>2, <3>5, RemovalCondemns
    <3>6. QED
      BY <3>1, <3>2, <3>3, <3>4, <3>5, MachineWriters
  <2>3. proc[r].pc = "check" => proc[r].todo \cup proc[r].others = Servers
    BY <1>p DEF CreationIsThorough
  <2>4. QED
    BY <1>4, <2>1, <2>2, <2>3
<1>5. QED
  BY <1>1, <1>2, <1>3, <1>4, <1>p, ResolverEntries DEF Create

LEMMA SetupIsThoroughStep ==
  ASSUME IInv, Next
  PROVE  SetupIsThorough'
<1>p. Shape /\ ProcShape /\ MachineShape /\ WatchShape /\ CreationIsThorough /\ SetupIsThorough
  BY DEF IInv, Shape
<1> DEFINE Done == {"skips", "online", "offline"}
<1> SUFFICES ASSUME row' # 0, row' \notin watch'.condemned,
                    NEW s \in Servers, s \notin watch'.torn, status'[s] \in Done
             PROVE  disk'[s]
  BY DEF SetupIsThorough
<1>g. row' \notin watch.condemned /\ s \notin watch.torn
  BY <1>p, CondemnedGrows
<1>1. CASE \E r \in Resolvers : CommitCreate(r)
  <2>1. PICK r \in Resolvers : CommitCreate(r)
    BY <1>1
  <2>2. proc[r].pc = "create" /\ proc[r].todo = {} /\ row' = proc[r].id
        /\ UNCHANGED <<status, disk>>
    BY <2>1 DEF CommitCreate, machine
  <2>3. watch'.torn = watch.torn \cup {t \in proc[r].others : status[t] # "new"}
    BY <2>1, <1>p DEF CommitCreate, Note, WatchShape, Watched
  <2>4. s \notin proc[r].others
    BY <2>2, <2>3
  <2>5. QED
    BY <2>2, <2>4, <1>g, <1>p DEF CreationIsThorough
<1>2. CASE row' = row
  <2>1. status[s] \in Done => disk[s]
    BY <1>2, <1>g, <1>p DEF SetupIsThorough
  <2>2. CASE UNCHANGED <<status, disk>>
    BY <2>1, <2>2
  <2>3. CASE MachineStep
    <3>1. ASSUME NEW t \in Servers, SetupReads(t) PROVE disk'[s]
      BY <1>2, <2>1, <3>1, <1>p DEF SetupReads, machine, MachineShape
    <3>2. ASSUME NEW t \in Servers, SetupAddsVolume(t) PROVE disk'[s]
      <4>1. disk' = [disk EXCEPT ![t] = TRUE] \/ t \in watch'.torn
        BY <3>2, <1>p DEF SetupAddsVolume, Note, WatchShape, Watched
      <4>2. s # t => disk'[s] = disk[s] /\ status'[s] = status[s]
        BY <3>2, <1>p DEF SetupAddsVolume, MachineShape
      <4>3. QED
        BY <2>1, <4>1, <4>2, <1>p DEF MachineShape
    <3>3. ASSUME NEW t \in Servers, SetupEnds(t) \/ GoOffline(t) \/ GoOnline(t) PROVE disk'[s]
      BY <2>1, <3>3, <1>p DEF SetupEnds, GoOffline, GoOnline, machine, MachineShape
    <3>4. QED
      BY <2>3, <3>1, <3>2, <3>3 DEF MachineStep
  <2>4. CASE Crash
    BY <2>1, <2>4, <1>p DEF Crash, MachineShape
  <2>5. CASE status' = status /\ \E r \in Resolvers, t \in Servers : CreateOnServer(r, t)
    BY <2>1, <2>5, <1>p DEF CreateOnServer, MachineShape
  <2>6. CASE \E w \in Workers, t \in Servers : RemoveFromServer(w, t)
    BY <1>2, <2>6, <1>g, RemovalCondemns
  <2>7. QED
    BY <2>2, <2>3, <2>4, <2>5, <2>6, MachineWriters
<1>3. QED
  BY <1>1, <1>2, VolumeWriters

-----------------------------------------------------------------------------
(* Backups and their files. *)

LEMMA BackupKeeps ==
  ASSUME IInv, Next, NEW b \in Backups, backup[b].status # "none"
  PROVE  /\ backup'[b].status # "none"
         /\ backup'[b].kind = backup[b].kind /\ backup'[b].volume = backup[b].volume
<1>p. Shape /\ ArchiveShape /\ backup[b] \in BackupRows
  BY DEF IInv, Shape, ArchiveShape
<1>1. ASSUME NEW c \in Backups, backup[c] = NoBackup, NEW v, backup' = [backup EXCEPT ![c] = v]
      PROVE  backup'[b] = backup[b]
  BY <1>1, <1>p DEF NoBackup, ArchiveShape
<1>2. ASSUME NEW c \in Backups,
             backup' = [backup EXCEPT ![c] = [@ EXCEPT !.status = "deleted", !.file = 0]]
      PROVE  /\ backup'[b].status # "none"
             /\ backup'[b].kind = backup[b].kind /\ backup'[b].volume = backup[b].volume
  BY <1>2, <1>p DEF ArchiveShape, BackupRows
<1>3. ASSUME NEW w \in Workers, NEW c \in Backups, proc[w].pc = "save", c = proc[w].item,
             backup' = [backup EXCEPT ![c] = proc[w].copy]
      PROVE  /\ backup'[b].status # "none"
             /\ backup'[b].kind = backup[b].kind /\ backup'[b].volume = backup[b].volume
  <2>1. proc[w].copy.kind = backup[c].kind /\ proc[w].copy.volume = backup[c].volume
        /\ proc[w].copy.status \in {"success", "failed"}
    BY <1>3 DEF IInv, BackupsAreTrue, DumpIsTrue
  <2>2. backup'[c] = proc[w].copy /\ (b # c => backup'[b] = backup[b])
    BY <1>3, <1>p DEF ArchiveShape
  <2>3. QED
    BY <2>1, <2>2
<1>4. ASSUME backup' = [c \in Backups |-> IF backup[c].status \in Present /\ backup[c].volume = row
                          THEN [backup[c] EXCEPT !.status = "deleted", !.file = 0] ELSE backup[c]]
      PROVE  /\ backup'[b].status # "none"
             /\ backup'[b].kind = backup[b].kind /\ backup'[b].volume = backup[b].volume
  BY <1>4, <1>p DEF BackupRows
<1>5. QED
  BY <1>p, <1>1, <1>2, <1>3, <1>4, BackupEffect

(* The file of a backup stays until somebody asks to delete it. *)
LEMMA FileStays ==
  ASSUME IInv, Next, NEW b \in Backups, b \notin watch'.doomed, NEW n,
         NEW k, k = backup[b].kind, <<k, b, n>> \in files
  PROVE  <<k, b, n>> \in files'
<1>p. Shape /\ ProcShape /\ WatchShape /\ k \in {"local", "s3"}
  BY DEF IInv, Shape, ArchiveShape, BackupRows
<1>1. b \notin watch.doomed
  BY <1>p, CondemnedGrows
<1>2. ASSUME NEW r \in Resolvers, CommitUpload(r) PROVE <<k, b, n>> \in files'
  BY <1>2 DEF CommitUpload
<1>3. ASSUME NEW r \in Resolvers, RemoveFile(r) PROVE <<k, b, n>> \in files'
  <2>1. proc[r].item # b
    BY <1>1, <1>3 DEF RemoveFile, IInv, BackupsAreTrue
  <2>2. FileOf(proc[r].item, proc[r].copy) # <<k, b, n>>
    BY <2>1 DEF FileOf
  <2>3. QED
    BY <1>3, <2>2 DEF RemoveFile
<1>4. ASSUME NEW r \in Resolvers, DeletePersistentVolumeBackups(r) PROVE <<k, b, n>> \in files'
  <2> DEFINE all == {c \in Backups : backup[c].status \in Present /\ backup[c].volume = row}
  <2>1. watch'.doomed = watch.doomed \cup all
    BY <1>4, <1>p DEF DeletePersistentVolumeBackups, Note, WatchShape, Watched
  <2>2. b \notin all
    BY <2>1
  <2>3. \A c \in all \ held : FileOf(c, backup[c]) # <<k, b, n>>
    BY <2>2 DEF FileOf
  <2>4. files' = files \ {FileOf(c, backup[c]) : c \in all \ held}
    BY <1>4 DEF DeletePersistentVolumeBackups
  <2>5. QED
    BY <2>3, <2>4
<1>5. ASSUME NEW w \in Workers, Dump(w) \/ BackupFails(w) PROVE <<k, b, n>> \in files'
  BY <1>5 DEF Dump, BackupFails
<1>6. ASSUME NEW w \in Workers, StoreInS3(w) PROVE <<k, b, n>> \in files'
  <2>1. proc[w].item = b => k = "s3"
    BY <1>6 DEF StoreInS3, IInv, BackupsAreTrue, DumpIsTrue
  <2>2. <<"local", proc[w].item, proc[w].copy.file>> # <<k, b, n>>
    BY <2>1
  <2>3. QED
    BY <1>6, <2>2 DEF StoreInS3
<1>7. ASSUME NEW w \in Workers, SaveRestore(w) \/ SaveRestoreFails(w) PROVE <<k, b, n>> \in files'
  BY <1>7, <1>p DEF SaveRestore, SaveRestoreFails, RestoreFile
<1>8. QED
  BY <1>2, <1>3, <1>4, <1>5, <1>6, <1>7, FileWriters

LEMMA DumpIsTrueStep ==
  ASSUME IInv, Next, NEW w \in Workers, proc'[w].pc \in {"dump", "store", "save"}
  PROVE  DumpIsTrue(w)'
<1>p. Shape /\ ProcShape /\ WatchShape /\ ArchiveShape /\ w \in Processes
      /\ proc = [p \in Processes |-> proc[p]]
  BY DEF IInv, Shape, Processes, ProcShape
<1> DEFINE b == proc[w].item
           copy == proc[w].copy
<1>f. proc[w].pc \in {"dump", "store", "save"} =>
        /\ proc[w] \in Dumps /\ b \in Backups /\ copy \in BackupRows
        /\ DumpIsTrue(w)
        /\ backup'[b].status # "none" /\ copy.kind = backup'[b].kind /\ copy.volume = backup'[b].volume
  <2>1. ASSUME proc[w].pc \in {"dump", "store", "save"}
        PROVE  proc[w] \in Dumps /\ b \in Backups /\ copy \in BackupRows /\ DumpIsTrue(w)
    BY <2>1, <1>p, WorkerFields DEF Dumps, IInv, BackupsAreTrue
  <2>2. QED
    BY <2>1, BackupKeeps DEF DumpIsTrue
<1>1. CASE proc'[w] = proc[w]
  <2>1. ASSUME proc[w].pc = "save", copy.status = "success", b \notin watch'.doomed
        PROVE  FileOf(b, copy) \in files'
    <3>1. b \notin watch.doomed
      BY <2>1, <1>p, CondemnedGrows
    <3>2. <<copy.kind, b, copy.file>> \in files /\ copy.kind = backup[b].kind
      BY <2>1, <3>1, <1>f DEF DumpIsTrue, FileIsKept, FileOf
    <3>3. QED
      BY <2>1, <3>2, <1>f, FileStays DEF FileOf
  <2>2. QED
    BY <1>1, <1>f, <2>1 DEF DumpIsTrue, FileIsKept, FileOf
<1>2. CASE proc'[w].pc = "dump" /\ \E c \in Backups : TakeBackup(w, c)
  <2>1. PICK c \in Backups : TakeBackup(w, c)
    BY <1>2
  <2>2. proc'[w].item = c /\ backup[c].status = "pending" /\ backup' = backup
        /\ proc'[w].copy = [backup[c] EXCEPT !.status = "success"]
    BY <1>2, <2>1, <1>p, TakeEffect
  <2>3. backup[c] \in BackupRows
    BY <1>p DEF ArchiveShape
  <2>4. proc'[w].copy.status = "success" /\ proc'[w].copy.kind = backup'[c].kind
        /\ proc'[w].copy.volume = backup'[c].volume
    BY <2>2, <2>3 DEF BackupRows
  <2>5. QED
    BY <1>2, <2>2, <2>4 DEF DumpIsTrue
<1>3. CASE Dump(w)
  <2> DEFINE n == Fresh(b)
  <2>1. proc[w].pc = "dump" /\ files' = files \cup {<<"local", b, n>>}
        /\ proc' = [proc EXCEPT ![w].pc = IF copy.kind = "s3" THEN "store" ELSE "save",
                                ![w].copy.file = n]
    BY <1>3 DEF Dump
  <2> HIDE DEF n
  <2>2. /\ proc'[w].pc = (IF copy.kind = "s3" THEN "store" ELSE "save")
        /\ proc'[w].item = b /\ proc'[w].copy = [copy EXCEPT !.file = n]
    BY <2>1, <1>f, <1>p DEF Dumps
  <2>3. /\ proc'[w].copy.kind = copy.kind /\ proc'[w].copy.volume = copy.volume
        /\ proc'[w].copy.status = copy.status /\ proc'[w].copy.file = n
        /\ copy.kind \in {"local", "s3"}
    BY <2>1, <2>2, <1>f DEF BackupRows
  <2>4. copy.status = "success"
    BY <2>1, <1>f DEF DumpIsTrue
  <2>5. QED
    BY <2>1, <2>2, <2>3, <2>4, <1>f DEF DumpIsTrue, FileIsKept, FileOf
<1>4. CASE StoreInS3(w)
  <2>1. proc[w].pc = "store" /\ proc' = [proc EXCEPT ![w].pc = "save"]
        /\ files' = (files \cup {<<"s3", b, copy.file>>}) \ {<<"local", b, copy.file>>}
    BY <1>4 DEF StoreInS3, Goto
  <2>2. proc'[w].pc = "save" /\ proc'[w].item = b /\ proc'[w].copy = copy
    BY <2>1, <1>f, <1>p DEF Dumps
  <2>3. copy.kind = "s3" /\ copy.status = "success"
    BY <2>1, <1>f DEF DumpIsTrue
  <2>4. QED
    BY <2>1, <2>2, <2>3, <1>f DEF DumpIsTrue, FileIsKept, FileOf
<1>5. CASE BackupFails(w)
  <2>1. proc[w].pc \in {"dump", "store"}
        /\ proc' = [proc EXCEPT ![w].pc = "save", ![w].copy.file = 0, ![w].copy.status = "failed"]
    BY <1>5 DEF BackupFails
  <2>2. proc'[w].pc = "save" /\ proc'[w].item = b
        /\ proc'[w].copy = [copy EXCEPT !.file = 0, !.status = "failed"]
    BY <2>1, <1>f, <1>p DEF Dumps
  <2>3. /\ proc'[w].copy.kind = copy.kind /\ proc'[w].copy.volume = copy.volume
        /\ proc'[w].copy.status = "failed"
    <3>1. copy \in BackupRows
      BY <2>1, <1>f
    <3>2. PICK c \in BackupRows : c = copy
      BY <3>1
    <3>3. proc'[w].copy = [c EXCEPT !.file = 0, !.status = "failed"]
      BY <2>2, <3>2
    <3>4. /\ proc'[w].copy.kind = c.kind /\ proc'[w].copy.volume = c.volume
          /\ proc'[w].copy.status = "failed"
      BY <3>3 DEF BackupRows
    <3>5. QED
      BY <3>2, <3>4
  <2>4. QED
    BY <2>1, <2>2, <2>3, <1>f DEF DumpIsTrue, FileIsKept
<1>6. QED
  BY <1>1, <1>2, <1>3, <1>4, <1>5, <1>p, WorkerEntries

LEMMA BackupsAreTrueStep ==
  ASSUME IInv, Next
  PROVE  BackupsAreTrue'
<1>p. Shape /\ ProcShape /\ WatchShape /\ ArchiveShape /\ BackupsAreTrue
      /\ proc = [p \in Processes |-> proc[p]] /\ Resolvers \subseteq Processes
  BY DEF IInv, Shape, Processes, ProcShape
<1>1. ASSUME NEW r \in Resolvers, proc'[r].pc \in {"unlink", "forget"}
      PROVE  proc'[r].item \in watch'.doomed /\ backup'[proc'[r].item].status # "none"
  <2>1. CASE proc[r].pc \in {"unlink", "forget"} /\ proc'[r].item = proc[r].item
    <3>1. proc[r].item \in Backups
      BY <2>1, <1>p, ResolverFields DEF Deletions
    <3>2. QED
      BY <2>1, <3>1, <1>p, BackupKeeps, CondemnedGrows DEF BackupsAreTrue
  <2>2. CASE RemoveFile(r)
    <3>1. proc[r].pc = "unlink" /\ proc[r] \in Deletions
      BY <2>2, <1>p, ResolverFields DEF RemoveFile
    <3>2. proc'[r].item = proc[r].item
      BY <2>2, <3>1, <1>p DEF RemoveFile, Goto, Deletions
    <3>3. QED
      BY <2>1, <3>1, <3>2
  <2>3. CASE \E b \in Backups : DeletePersistentVolumeBackup(r, b)
    <3>1. PICK b \in Backups : DeletePersistentVolumeBackup(r, b)
      BY <2>3
    <3>2. proc'[r].item = b
      BY <3>1, <1>p DEF DeletePersistentVolumeBackup, Become
    <3>3. b \in watch'.doomed
      BY <3>1, <1>p DEF DeletePersistentVolumeBackup, Note, WatchShape, Watched
    <3>4. backup'[b].status # "none"
      BY <3>1 DEF DeletePersistentVolumeBackup, archive, Present
    <3>5. QED
      BY <3>2, <3>3, <3>4
  <2>4. QED
    BY <1>1, <2>1, <2>2, <2>3, <1>p, ResolverEntries
<1>2. ASSUME NEW b \in Backups, backup'[b].status = "success", b \notin watch'.doomed
      PROVE  FileOf(b, backup'[b]) \in files'
  <2>1. CASE backup'[b] = backup[b]
    <3>1. b \notin watch.doomed
      BY <1>2, <1>p, CondemnedGrows
    <3>2. <<backup[b].kind, b, backup[b].file>> \in files
      BY <1>2, <2>1, <3>1, <1>p DEF BackupsAreTrue, FileIsKept, FileOf
    <3>3. QED
      BY <1>2, <2>1, <3>2, FileStays DEF FileOf
  <2>2. ASSUME NEW w \in Workers, SaveBackup(w), proc[w] \in Dumps, proc[w].pc = "save",
               b = proc[w].item, backup'[b] = proc[w].copy
        PROVE  FileOf(b, backup'[b]) \in files'
    <3>1. b \notin watch.doomed
      BY <1>2, <1>p, CondemnedGrows
    <3>2. FileOf(b, proc[w].copy) \in files
      BY <1>2, <2>2, <3>1, <1>p DEF BackupsAreTrue, DumpIsTrue, FileIsKept
    <3>3. files' = files
      BY <2>2 DEF SaveBackup
    <3>4. QED
      BY <2>2, <3>2, <3>3
  <2>3. \/ backup'[b] = backup[b]
        \/ backup'[b].status \in {"pending", "deleted"}
        \/ \E w \in Workers : /\ SaveBackup(w) /\ proc[w] \in Dumps /\ proc[w].pc = "save"
                              /\ b = proc[w].item /\ backup'[b] = proc[w].copy
    <3>0. \A c \in Backups : backup[c] \in BackupRows
      BY <1>p DEF ArchiveShape
    <3>1. ASSUME NEW c \in Backups, NEW kind,
                 backup' = [backup EXCEPT ![c] = [status |-> "pending", volume |-> row,
                                                  kind |-> kind, file |-> 0]]
          PROVE  backup'[b] = backup[b] \/ backup'[b].status = "pending"
      BY <3>1, <1>p DEF ArchiveShape
    <3>2. ASSUME NEW c \in Backups,
                 backup' = [backup EXCEPT ![c] = [@ EXCEPT !.status = "deleted", !.file = 0]]
          PROVE  backup'[b] = backup[b] \/ backup'[b].status = "deleted"
      BY <3>0, <3>2, <1>p DEF ArchiveShape, BackupRows
    <3>3. ASSUME NEW w \in Workers, NEW c \in Backups, c = proc[w].item,
                 backup' = [backup EXCEPT ![c] = proc[w].copy]
          PROVE  backup'[b] = backup[b] \/ (b = proc[w].item /\ backup'[b] = proc[w].copy)
      BY <3>3, <1>p DEF ArchiveShape
    <3>4. ASSUME backup' = [c \in Backups |-> IF backup[c].status \in Present /\ backup[c].volume = row
                              THEN [backup[c] EXCEPT !.status = "deleted", !.file = 0] ELSE backup[c]]
          PROVE  backup'[b] = backup[b] \/ backup'[b].status = "deleted"
      BY <3>0, <3>4 DEF BackupRows
    <3>5. QED
      BY <3>1, <3>2, <3>3, <3>4, <1>p, BackupEffect
  <2>4. QED
    BY <1>2, <2>1, <2>2, <2>3
<1>3. QED
  BY <1>1, <1>2, DumpIsTrueStep DEF BackupsAreTrue, FileIsKept, FileOf

-----------------------------------------------------------------------------
(* The task of a restore. *)

(* How its row comes to its state. *)
LEMMA StatusWriters ==
  ASSUME IInv, Next, NEW x \in Restores
  PROVE  \/ restore'[x] = restore[x]
         \/ restore[x].status \in Present /\ restore'[x].status = "deleted"
            /\ restore'[x].volume = restore[x].volume
         \/ \E r \in Resolvers : /\ CommitUpload(r) /\ proc[r].pc = "upload" /\ proc[r].item = x
                                 /\ restore'[x].status = "pending"
         \/ \E r \in Resolvers : /\ proc[r].pc = "mark" /\ proc[r].task = Task(x)
                                 /\ restore'[x].status = "failed"
                                 /\ restore'[x].volume = restore[x].volume
         \/ \E w \in Workers : /\ SaveRestore(w) /\ proc[w].pc = "result" /\ proc[w].item = x
                               /\ proc'[w] = Idle
                               /\ restore'[x].status = proc[w].result
                               /\ proc[w].result \in {"success", "failed"}
                               /\ restore'[x].volume = restore[x].volume
<1>p. Shape /\ ProcShape /\ restore \in [Restores -> RestoreRows] /\ restore[x] \in RestoreRows
  BY DEF IInv, Shape, ArchiveShape
<1>0. Workers \subseteq Processes
  BY DEF Processes
<1>1. CASE \E X \in SUBSET Restores :
              /\ \A y \in X : restore[y].status \in Present
              /\ restore' = [y \in Restores |-> IF y \in X
                               THEN [restore[y] EXCEPT !.status = "deleted"] ELSE restore[y]]
  BY <1>p, <1>1 DEF RestoreRows
<1>2. CASE \E r \in Resolvers : \E y \in Restores :
              /\ CommitUpload(r) /\ proc[r] \in Uploads /\ y = proc[r].item
              /\ restore' = [restore EXCEPT ![y] = [status |-> "pending", volume |-> proc[r].id]]
  <2>1. PICK r \in Resolvers, y \in Restores :
              /\ CommitUpload(r) /\ proc[r] \in Uploads /\ y = proc[r].item
              /\ restore' = [restore EXCEPT ![y] = [status |-> "pending", volume |-> proc[r].id]]
    BY <1>2
  <2>2. CASE y # x
    BY <2>1, <2>2, <1>p
  <2>3. CASE y = x
    <3>1. restore'[x].status = "pending"
      BY <2>1, <2>3, <1>p
    <3>2. QED
      BY <2>1, <2>3, <3>1 DEF CommitUpload
  <2>4. QED
    BY <2>2, <2>3
<1>3. CASE \E y \in Restores, r \in Resolvers :
              /\ row = restore[y].volume /\ MarkRestoreFailed(r) /\ proc[r].task = Task(y)
              /\ restore' = [restore EXCEPT ![y] = [status |-> "failed", volume |-> row]]
  <2>1. PICK y \in Restores, r \in Resolvers :
              /\ row = restore[y].volume /\ MarkRestoreFailed(r) /\ proc[r].task = Task(y)
              /\ restore' = [restore EXCEPT ![y] = [status |-> "failed", volume |-> row]]
    BY <1>3
  <2>2. CASE y # x
    BY <2>1, <2>2, <1>p
  <2>3. CASE y = x
    <3>1. restore'[x].status = "failed" /\ restore'[x].volume = restore[x].volume
      BY <2>1, <2>3, <1>p
    <3>2. QED
      BY <2>1, <2>3, <3>1 DEF MarkRestoreFailed
  <2>4. QED
    BY <2>2, <2>3
<1>4. CASE \E y \in Restores, w \in Workers :
              /\ row = restore[y].volume /\ SaveRestore(w) /\ proc[w] \in Results /\ y = proc[w].item
              /\ restore' = [restore EXCEPT ![y] = [status |-> proc[w].result, volume |-> row]]
  <2>1. PICK y \in Restores, w \in Workers :
              /\ row = restore[y].volume /\ SaveRestore(w) /\ proc[w] \in Results /\ y = proc[w].item
              /\ restore' = [restore EXCEPT ![y] = [status |-> proc[w].result, volume |-> row]]
    BY <1>4
  <2>2. CASE y # x
    BY <2>1, <2>2, <1>p
  <2>3. CASE y = x
    <3>1. restore'[x].status = proc[w].result /\ restore'[x].volume = restore[x].volume
      BY <2>1, <2>3, <1>p
    <3>2. proc'[w] = Idle
      BY <2>1, <1>p, <1>0 DEF SaveRestore, Retry, Return, ProcShape
    <3>3. proc[w].result \in {"success", "failed"} /\ proc[w].pc = "result"
      BY <2>1 DEF Results
    <3>4. QED
      BY <2>1, <2>3, <3>1, <3>2, <3>3
  <2>4. QED
    BY <2>2, <2>3
<1>5. CASE restore' = [y \in Restores |-> IF restore[y].status \in Present /\ restore[y].volume = row
                         THEN [restore[y] EXCEPT !.status = "deleted"] ELSE restore[y]]
  BY <1>p, <1>5 DEF RestoreRows
<1>6. QED
  BY <1>1, <1>2, <1>3, <1>4, <1>5, RestoreEffect

(* Who has it after a step. *)
LEMMA Holders ==
  ASSUME IInv, Next, NEW x \in Restores, NEW p \in Processes, Holds(p, x)'
  PROVE  \/ Holds(p, x) /\ proc'[p] = proc[p]
         \/ /\ p \in Resolvers /\ BeginUpload(p, x) /\ proc'[p].pc = "upload"
         \/ /\ p \in Resolvers /\ Holds(p, x)
            /\ proc[p].pc = "upload" /\ restore'[x].status = "pending"
         \/ /\ p \in Resolvers /\ Holds(p, x) /\ proc[p].pc = "enqueue" /\ ~Clean(x)'
         \/ /\ p \in Workers /\ TakeRestore(p, x) /\ proc'[p].pc = "restore"
         \/ /\ p \in Workers /\ Holds(p, x) /\ proc[p].pc = "restore" /\ proc'[p].pc = "result"
<1>p. /\ Shape /\ ProcShape /\ ProcShape' /\ WatchShape /\ proc = [q \in Processes |-> proc[q]]
      /\ Resolvers \subseteq Processes /\ Workers \subseteq Processes
  BY ProcStep DEF IInv, Shape, ProcShape, Processes
<1>1. CASE p \in Resolvers
  <2>1. proc'[p] \in ResolverStates
    BY <1>1, <1>p DEF ProcShape
  <2>2. \/ proc'[p].pc = "upload" /\ proc'[p].item = x
        \/ proc'[p].pc = "enqueue" /\ proc'[p].task = Task(x)
        \/ proc'[p].pc = "mark" /\ proc'[p].task = Task(x)
    BY <2>1 DEF Holds, ResolverStates, Idle, Checks, Asks, Uploads, Deletions
  <2>3. CASE proc'[p] = proc[p]
    BY <2>2, <2>3 DEF Holds
  <2>4. CASE \E y \in Restores : proc'[p].pc = "upload" /\ BeginUpload(p, y)
    <3>1. PICK y \in Restores : proc'[p].pc = "upload" /\ BeginUpload(p, y)
      BY <2>4
    <3>2. proc'[p].item = y
      BY <3>1, <1>1, <1>p DEF BeginUpload, Become
    <3>3. y = x
      BY <3>1, <3>2, <2>2
    <3>4. QED
      BY <3>1, <3>3, <1>1
  <2>5. CASE CommitUpload(p)
    <3>1. proc[p].pc = "upload" /\ proc[p] \in Uploads
      BY <2>5, <1>1, <1>p, ResolverFields DEF CommitUpload
    <3>2. proc'[p].pc = "enqueue" /\ proc'[p].task = Task(proc[p].item)
      BY <2>5, <1>1, <1>p DEF CommitUpload, Become, Task
    <3>3. proc[p].item = x
      BY <3>2, <2>2 DEF Task
    <3>4. restore'[x].status = "pending"
      BY <2>5, <3>3, <1>p DEF CommitUpload, Shape, ArchiveShape
    <3>5. QED
      BY <1>1, <3>1, <3>3, <3>4 DEF Holds
  <2>6. CASE EnqueueFails(p)
    <3>1. proc[p].pc = "enqueue" /\ proc[p] \in Asks
      BY <2>6, <1>1, <1>p, ResolverFields DEF EnqueueFails
    <3>2. proc'[p].pc # "idle"
      BY <2>2
    <3>3. proc' = [proc EXCEPT ![p].pc = "mark"]
      BY <2>6, <3>2, <1>1, <1>p DEF EnqueueFails, Goto, Return, Idle
    <3>4. proc'[p].pc = "mark" /\ proc'[p].task = proc[p].task
      BY <3>1, <3>3, <1>1, <1>p DEF Asks
    <3>5. proc[p].task = Task(x)
      BY <3>4, <2>2
    <3>6. Task(x) \in watch'.waived
      BY <2>6, <3>5, <1>p, NoteGrows DEF EnqueueFails, Watched
    <3>7. QED
      BY <1>1, <3>1, <3>5, <3>6 DEF Holds, Clean, Task
  <2>7. CASE proc'[p].pc = "enqueue" /\ DeletePersistentVolume(p)
    BY <2>2, <2>7, <1>1, <1>p DEF DeletePersistentVolume, Become, Task
  <2>8. CASE proc'[p].pc = "enqueue" /\ \E b \in Backups : BackupPersistentVolume(p, b)
    BY <2>2, <2>8, <1>1, <1>p DEF BackupPersistentVolume, Become, Task
  <2>9. QED
    BY <1>1, <1>p, <2>2, <2>3, <2>4, <2>5, <2>6, <2>7, <2>8, ResolverEntries
<1>2. CASE p \in Workers
  <2>1. proc'[p] \in WorkerStates
    BY <1>2, <1>p DEF ProcShape
  <2>2. proc'[p].pc \in {"restore", "result"} /\ proc'[p].item = x
    BY <2>1 DEF Holds, WorkerStates, Idle, Removals, Dumps, Imports, Results
  <2>3. CASE proc'[p] = proc[p]
    BY <2>2, <2>3 DEF Holds
  <2>4. CASE \E y \in Restores : proc'[p].pc = "restore" /\ TakeRestore(p, y)
    BY <2>2, <2>4, <1>2, <1>p, TakeEffect
  <2>5. CASE RestoreSucceeds(p) \/ RestoreFails(p)
    <3>1. proc[p].pc = "restore"
      BY <2>5 DEF RestoreSucceeds, RestoreFails
    <3>2. proc'[p].pc = "result" /\ proc'[p].item = proc[p].item
      BY <2>5, <1>2, <1>p DEF RestoreSucceeds, RestoreFails, Become
    <3>3. QED
      BY <1>2, <2>2, <3>1, <3>2 DEF Holds
  <2>6. QED
    BY <1>2, <1>p, <2>2, <2>3, <2>4, <2>5, WorkerEntries
<1>3. QED
  BY <1>1, <1>2 DEF Processes

(* A task of a restore comes to the queue from the one who has it. *)
LEMMA RestoreQueued ==
  ASSUME IInv, Next, NEW x \in Restores, Task(x) \in queue', Task(x) \notin queue
  PROVE  \E p \in Processes :
           /\ Holds(p, x) /\ proc[p].pc # "upload"
           /\ \/ ~Clean(x)'
              \/ proc'[p] = Idle /\ proc[p].pc = "enqueue"
              \/ proc'[p] = Idle /\ proc[p].pc = "result" /\ proc[p].result = "success"
                 /\ restore[x].volume # row
<1>p. /\ Shape /\ ProcShape /\ WatchShape /\ proc = [q \in Processes |-> proc[q]]
      /\ Resolvers \subseteq Processes /\ Workers \subseteq Processes
  BY DEF IInv, Shape, ProcShape, Processes
<1>1. ASSUME NEW w \in Workers, proc[w].pc # "idle", Task(x) = TaskOf(w)
      PROVE  /\ proc[w].pc \in {"restore", "result"} /\ proc[w].item = x /\ Holds(w, x)
  <2>1. /\ proc[w].pc = "remove" => TaskOf(w) = <<"delete", proc[w].id>>
        /\ proc[w].pc \in {"dump", "store", "save"} => TaskOf(w) = <<"backup", proc[w].item>>
        /\ proc[w].pc \in {"restore", "result"} => TaskOf(w) = <<"restore", proc[w].item>>
    BY <1>1, <1>p, TaskOfWorker
  <2>2. proc[w].pc \in {"idle", "remove", "dump", "store", "save", "restore", "result"}
    BY <1>p, WorkerFields
  <2>3. QED
    BY <1>1, <2>1, <2>2 DEF Task, Holds
<1>2. CASE \E r \in Resolvers : /\ Enqueue(r) \/ EnqueueFails(r)
                                /\ proc[r].pc = "enqueue" /\ Task(x) = proc[r].task
  <2>1. PICK r \in Resolvers : /\ Enqueue(r) \/ EnqueueFails(r)
                               /\ proc[r].pc = "enqueue" /\ Task(x) = proc[r].task
    BY <1>2
  <2>2. r \in Processes /\ Holds(r, x)
    BY <2>1, <1>p DEF Holds
  <2>3. CASE Enqueue(r)
    <3>1. proc'[r] = Idle
      BY <2>3, <2>2, <1>p DEF Enqueue, Return
    <3>2. QED
      BY <2>1, <2>2, <3>1
  <2>4. CASE EnqueueFails(r)
    <3>1. Task(x) \in watch'.waived
      BY <2>1, <2>4, <1>p, NoteGrows DEF EnqueueFails, Watched
    <3>2. QED
      BY <2>1, <2>2, <3>1 DEF Clean, Task
  <2>5. QED
    BY <2>1, <2>3, <2>4
<1>3. CASE \E w \in Workers : /\ proc[w].pc # "idle" /\ proc'[w] = Idle /\ Task(x) = TaskOf(w)
                              /\ WorkerStep(w)
  <2>1. PICK w \in Workers : /\ proc[w].pc # "idle" /\ proc'[w] = Idle /\ Task(x) = TaskOf(w)
                             /\ WorkerStep(w)
    BY <1>3
  <2>2. /\ w \in Processes /\ proc[w].pc \in {"restore", "result"} /\ proc[w].item = x
        /\ Holds(w, x)
    BY <1>1, <2>1, <1>p
  <2>3. ~RestoreSucceeds(w) /\ ~RestoreFails(w)
    BY <2>1, <2>2, <1>p DEF RestoreSucceeds, RestoreFails, Become, Idle
  <2>4. SaveRestore(w) \/ SaveRestoreFails(w)
    BY <2>1, <2>2, <2>3 DEF WorkerStep, RemoveFromServer, RemoveIsRefused, ServerFails,
       DeleteVolumeRow, Dump, StoreInS3, BackupFails, SaveBackup, SaveBackupFails
  <2>5. CASE SaveRestore(w)
    <3>1. proc[w].pc = "result" /\ proc[w].result = "success" /\ restore[x].volume # row
      BY <2>2, <2>5 DEF SaveRestore
    <3>2. QED
      BY <2>1, <2>2, <3>1
  <2>6. CASE SaveRestoreFails(w)
    <3>1. Note("again", {Task(x)})
      BY <2>2, <2>6 DEF SaveRestoreFails, Task
    <3>2. Task(x) \in watch'.again
      BY <3>1, <1>p, NoteGrows DEF Watched
    <3>3. QED
      BY <2>2, <3>2 DEF Clean, Task
  <2>7. QED
    BY <2>4, <2>5, <2>6
<1>4. CASE Crash /\ \E w \in Workers : proc[w].pc # "idle" /\ Task(x) = TaskOf(w)
  <2>1. PICK w \in Workers : proc[w].pc # "idle" /\ Task(x) = TaskOf(w)
    BY <1>4
  <2>2. proc[w] # Idle
    BY <2>1 DEF Idle
  <2>3. Task(x) \in watch'.again
    BY <1>4, <2>1, <2>2, <1>p DEF Crash, WatchShape, Watched
  <2>4. QED
    BY <2>1, <2>3, <1>1, <1>p DEF Clean, Task
<1>5. QED
  BY <1>2, <1>3, <1>4, <1>p, QueueWriters

LEMMA CleanStays ==
  ASSUME IInv, Next, NEW x \in Restores, Clean(x)'
  PROVE  Clean(x)
BY CondemnedGrows DEF Clean, IInv, Task

(* Nobody gets a task that another one has. *)
LEMMA OneEnters ==
  ASSUME IInv, Next, NEW x \in Restores, NEW p \in Processes, Holds(p, x)', ~Holds(p, x)
  PROVE  /\ \A q \in Processes : q # p => proc'[q] = proc[q]
         /\ \/ restore[x].status = "none" /\ \A q \in Resolvers : proc[q].pc # "upload"
            \/ /\ Task(x) \in queue /\ restore[x].status = "pending" /\ row = restore[x].volume
               /\ Task(x) \in watch'.again \/ Task(x) \notin queue'
<1>p. Shape /\ ProcShape /\ WatchShape /\ proc = [q \in Processes |-> proc[q]]
  BY DEF IInv, Shape, ProcShape
<1>1. CASE p \in Resolvers /\ BeginUpload(p, x)
  <2>1. restore[x].status = "none" /\ \A q \in Resolvers : proc[q].pc # "upload"
    BY <1>1 DEF BeginUpload, NoRestore
  <2>2. \A q \in Processes : q # p => proc'[q] = proc[q]
    BY <1>1, <1>p DEF BeginUpload, Become
  <2>3. QED
    BY <2>1, <2>2
<1>2. CASE p \in Workers /\ TakeRestore(p, x) /\ proc'[p].pc = "restore"
  <2>1. /\ Task(x) \in queue /\ restore[x].status = "pending" /\ row = restore[x].volume
        /\ Task(x) \in watch'.again \/ queue' = queue \ {Task(x)}
    BY <1>2, <1>p, TakeEffect
  <2>2. \A q \in Processes : q # p => proc'[q] = proc[q]
    BY <1>2, <1>p DEF TakeRestore, Become
  <2>3. QED
    BY <2>1, <2>2
<1>3. QED
  BY <1>1, <1>2, Holders

LEMMA RestoresAreTrueStep ==
  ASSUME IInv, Next
  PROVE  RestoresAreTrue'
<1>p. Shape /\ ProcShape /\ WatchShape /\ RestoresAreTrue /\ proc = [q \in Processes |-> proc[q]]
      /\ Resolvers \subseteq Processes /\ Workers \subseteq Processes
  BY DEF IInv, Shape, ProcShape, Processes
<1>1. ASSUME NEW x \in Restores, restore'[x].status = "none"
      PROVE  /\ Task(x) \notin queue' /\ x \notin watch'.applied
             /\ \A p \in Processes : Holds(p, x)' => proc'[p].pc = "upload"
  <2>1. restore[x].status = "none"
    BY <1>1, StatusWriters
  <2>2. /\ Task(x) \notin queue /\ x \notin watch.applied
        /\ \A p \in Processes : Holds(p, x) => proc[p].pc = "upload"
    BY <2>1, <1>p DEF RestoresAreTrue
  <2>3. Task(x) \notin queue'
    BY <2>2, RestoreQueued
  <2>4. x \notin watch'.applied
    <3>1. ASSUME NEW w \in Workers, RestoreSucceeds(w) PROVE x # proc[w].item
      BY <3>1, <2>2, <1>p DEF RestoreSucceeds, Holds
    <3>2. QED
      BY <2>2, <3>1, <1>p, WatchStep
  <2>5. ASSUME NEW p \in Processes, Holds(p, x)' PROVE proc'[p].pc = "upload"
    <3>1. ~(p \in Workers /\ TakeRestore(p, x))
      BY <2>2, <1>p, TakeEffect
    <3>2. QED
      BY <1>1, <2>2, <2>5, <3>1, Holders
  <2>6. QED
    BY <2>3, <2>4, <2>5
<1>2. ASSUME NEW w \in Workers, proc'[w].pc = "result", proc'[w].result = "success"
      PROVE  proc'[w].item \in watch'.applied
  <2>1. CASE proc'[w] = proc[w]
    BY <1>2, <2>1, <1>p, CondemnedGrows DEF RestoresAreTrue
  <2>2. CASE RestoreSucceeds(w)
    <3>1. proc'[w].item = proc[w].item
      BY <2>2, <1>p DEF RestoreSucceeds, Become
    <3>2. proc[w].item \in watch'.applied
      BY <2>2, <1>p, NoteGrows DEF RestoreSucceeds, Watched
    <3>3. QED
      BY <3>1, <3>2
  <2>3. CASE RestoreFails(w)
    BY <1>2, <2>3, <1>p DEF RestoreFails, Become
  <2>4. QED
    BY <1>2, <2>1, <2>2, <2>3, <1>p, WorkerEntries
<1>3. ASSUME NEW x \in Restores, restore'[x].status = "success"
      PROVE  x \in watch'.applied
  <2>1. x \in watch.applied
    BY <1>3, <1>p, StatusWriters DEF RestoresAreTrue
  <2>2. QED
    BY <2>1, <1>p, CondemnedGrows
<1>4. ASSUME NEW r \in Resolvers, proc'[r].pc = "mark"
      PROVE  \E x \in Restores : proc'[r].task = Task(x) /\ ~Clean(x)'
  <2>1. CASE proc'[r] = proc[r]
    <3>1. PICK x \in Restores : proc[r].task = Task(x) /\ ~Clean(x)
      BY <1>4, <2>1, <1>p DEF RestoresAreTrue
    <3>2. ~Clean(x)'
      BY <3>1, CleanStays
    <3>3. QED
      BY <2>1, <3>1, <3>2
  <2>2. CASE EnqueueFails(r)
    <3>1. proc[r].pc = "enqueue" /\ proc[r] \in Asks
      BY <2>2, <1>p, ResolverFields DEF EnqueueFails
    <3>2. proc[r].task[1] = "restore" /\ proc' = [proc EXCEPT ![r].pc = "mark"]
      BY <1>4, <2>2, <1>p DEF EnqueueFails, Goto, Return, Idle
    <3>3. proc'[r].task = proc[r].task
      BY <3>1, <3>2, <1>p DEF Asks
    <3>4. PICK x \in Restores : proc[r].task = Task(x)
      BY <3>1, <3>2 DEF Asks, Tasks, Task
    <3>5. Task(x) \in watch'.waived
      BY <2>2, <3>4, <1>p, NoteGrows DEF EnqueueFails, Watched
    <3>6. QED
      BY <3>3, <3>4, <3>5 DEF Clean, Task
  <2>3. QED
    BY <1>4, <2>1, <2>2, <1>p, ResolverEntries
<1>5. QED
  BY <1>1, <1>2, <1>3, <1>4 DEF RestoresAreTrue, Task

LEMMA RestoreIsAloneStep ==
  ASSUME IInv, Next
  PROVE  RestoreIsAlone'
<1>p. Shape /\ ProcShape /\ WatchShape /\ RestoresAreTrue /\ RestoreIsAlone
      /\ proc = [q \in Processes |-> proc[q]]
      /\ Resolvers \subseteq Processes /\ Workers \subseteq Processes
  BY DEF IInv, Shape, ProcShape, Processes
<1> SUFFICES ASSUME NEW x \in Restores, Clean(x)'
             PROVE  /\ \A p \in Processes : Holds(p, x)' => Task(x) \notin queue'
                    /\ \A p, q \in Processes : Holds(p, x)' /\ Holds(q, x)' => p = q
                    /\ restore'[x].status = "failed" =>
                         /\ Task(x) \notin queue'
                         /\ \A p \in Processes : ~Holds(p, x)'
  BY DEF RestoreIsAlone, Task
<1>c. Clean(x)
  BY CleanStays
<1>a. /\ \A p \in Processes : Holds(p, x) => Task(x) \notin queue
      /\ \A p, q \in Processes : Holds(p, x) /\ Holds(q, x) => p = q
      /\ restore[x].status = "failed" => Task(x) \notin queue /\ \A p \in Processes : ~Holds(p, x)
  BY <1>p, <1>c DEF RestoreIsAlone
<1>n. restore[x].status = "none" =>
        /\ Task(x) \notin queue
        /\ \A p \in Processes : Holds(p, x) => proc[p].pc = "upload" /\ p \in Resolvers
  <2>1. \A w \in Workers : proc[w].pc # "upload"
    BY <1>p, WorkerFields
  <2>2. QED
    BY <2>1, <1>p DEF RestoresAreTrue, Processes
<1>e. ASSUME NEW p \in Processes, Holds(p, x)', ~Holds(p, x)
      PROVE  \A q \in Processes : ~Holds(q, x)
  <2>1. CASE restore[x].status = "none" /\ \A q \in Resolvers : proc[q].pc # "upload"
    BY <2>1, <1>n
  <2>2. CASE Task(x) \in queue
    BY <2>2, <1>a
  <2>3. QED
    BY <1>e, <2>1, <2>2, OneEnters
<1>q. ASSUME Task(x) \in queue', Task(x) \notin queue
      PROVE  \E q \in Processes : Holds(q, x) /\ ~Holds(q, x)' /\ proc[q].pc # "upload"
                                  /\ (proc[q].pc = "result" => proc[q].result = "success")
  <2>1. PICK q \in Processes : /\ Holds(q, x) /\ proc[q].pc # "upload" /\ proc'[q] = Idle
                               /\ proc[q].pc = "result" => proc[q].result = "success"
    BY <1>q, RestoreQueued
  <2>2. ~Holds(q, x)'
    BY <2>1 DEF Holds, Idle
  <2>3. QED
    BY <2>1, <2>2
<1>1. ASSUME NEW p \in Processes, Holds(p, x)' PROVE Task(x) \notin queue'
  <2>1. CASE Task(x) \in queue
    <3>1. ~Holds(p, x)
      BY <2>1, <1>a
    <3>2. Task(x) \in watch'.again \/ Task(x) \notin queue'
      BY <1>1, <2>1, <3>1, <1>n, OneEnters
    <3>3. QED
      BY <3>2 DEF Clean, Task
  <2>2. CASE Task(x) \notin queue
    <3>1. SUFFICES ASSUME Task(x) \in queue' PROVE FALSE
      OBVIOUS
    <3>2. PICK q \in Processes : Holds(q, x) /\ ~Holds(q, x)'
      BY <2>2, <3>1, <1>q
    <3>3. Holds(p, x)
      BY <1>1, <3>2, <1>e
    <3>4. QED
      BY <1>1, <3>2, <3>3, <1>a
  <2>3. QED
    BY <2>1, <2>2
<1>2. ASSUME NEW p \in Processes, NEW q \in Processes, Holds(p, x)', Holds(q, x)'
      PROVE  p = q
  <2>1. CASE Holds(p, x) /\ Holds(q, x)
    BY <2>1, <1>a
  <2>2. ASSUME NEW u \in Processes, NEW v \in Processes, u # v,
               Holds(u, x)', Holds(v, x)', ~Holds(u, x)
        PROVE  FALSE
    <3>1. proc'[v] = proc[v]
      BY <2>2, OneEnters
    <3>2. Holds(v, x)
      BY <2>2, <3>1 DEF Holds
    <3>3. QED
      BY <2>2, <3>2, <1>e
  <2>3. QED
    BY <1>2, <2>1, <2>2
<1>3. ASSUME restore'[x].status = "failed"
      PROVE  Task(x) \notin queue' /\ \A p \in Processes : ~Holds(p, x)'
  <2>1. CASE restore'[x] = restore[x]
    <3>1. Task(x) \notin queue /\ \A p \in Processes : ~Holds(p, x)
      BY <1>3, <2>1, <1>a
    <3>2. \A p \in Processes : ~Holds(p, x)'
      BY <1>3, <2>1, <3>1, OneEnters
    <3>3. QED
      BY <3>1, <3>2, <1>q
  <2>2. CASE \E w \in Workers : /\ proc[w].pc = "result" /\ proc[w].item = x /\ proc'[w] = Idle
                                /\ restore'[x].status = proc[w].result
    <3>1. PICK w \in Workers : /\ proc[w].pc = "result" /\ proc[w].item = x /\ proc'[w] = Idle
                               /\ restore'[x].status = proc[w].result
      BY <2>2
    <3>2. w \in Processes /\ Holds(w, x) /\ ~Holds(w, x)' /\ proc[w].result = "failed"
      BY <1>3, <3>1, <1>p DEF Holds, Idle
    <3>3. \A p \in Processes : Holds(p, x) => p = w
      BY <3>2, <1>a
    <3>4. \A p \in Processes : ~Holds(p, x)'
      BY <3>2, <3>3, <1>e
    <3>5. Task(x) \notin queue
      BY <3>2, <1>a
    <3>6. Task(x) \notin queue'
      BY <3>1, <3>2, <3>3, <3>5, <1>q
    <3>7. QED
      BY <3>4, <3>6
  <2>3. ASSUME NEW r \in Resolvers, proc[r].pc = "mark", proc[r].task = Task(x) PROVE FALSE
    <3>1. PICK y \in Restores : proc[r].task = Task(y) /\ ~Clean(y)
      BY <2>3, <1>p DEF RestoresAreTrue
    <3>2. y = x
      BY <2>3, <3>1 DEF Task
    <3>3. QED
      BY <3>1, <3>2, <1>c
  <2>4. QED
    BY <1>3, <2>1, <2>2, <2>3, StatusWriters
<1>4. QED
  BY <1>1, <1>2, <1>3

(* A volume that is gone does not come back. *)
LEMMA VolumeStaysGone ==
  ASSUME IInv, Next, NEW x \in Restores, restore[x].status # "none", restore[x].volume # row
  PROVE  restore[x].volume # row'
<1>1. restore[x].volume # 0
  BY DEF IInv, RowsAreSound
<1>2. ASSUME NEW r \in Resolvers, CommitCreate(r) PROVE restore[x].volume # row'
  BY <1>2 DEF CommitCreate, IInv, CreationIsAlone
<1>3. QED
  BY <1>1, <1>2, VolumeWriters

LEMMA RestoreIsLastStep ==
  ASSUME IInv, Next
  PROVE  RestoreIsLast'
<1>p. Shape /\ ProcShape /\ WatchShape /\ RestoresAreTrue /\ RestoreIsAlone /\ RestoreIsLast
      /\ proc = [q \in Processes |-> proc[q]]
      /\ Resolvers \subseteq Processes /\ Workers \subseteq Processes
  BY DEF IInv, Shape, ProcShape, Processes
<1> SUFFICES ASSUME NEW x \in Restores, Clean(x)', x \in watch'.applied
             PROVE  /\ restore'[x].status # "failed"
                    /\ Task(x) \in queue' => restore'[x].volume # row'
                    /\ \A p \in Processes : Holds(p, x)' =>
                         proc'[p].pc = "result" /\ proc'[p].result = "success"
  BY DEF RestoreIsLast, Task
<1>c. Clean(x)
  BY CleanStays
<1>a. /\ \A p \in Processes : Holds(p, x)' => Task(x) \notin queue'
      /\ \A p, q \in Processes : Holds(p, x)' /\ Holds(q, x)' => p = q
      /\ restore'[x].status = "failed" => \A p \in Processes : ~Holds(p, x)'
  BY RestoreIsAloneStep DEF RestoreIsAlone, Task
<1>1. CASE x \notin watch.applied
  <2>1. PICK w \in Workers : RestoreSucceeds(w) /\ x = proc[w].item
    BY <1>1, <1>p, WatchStep
  <2>2. /\ w \in Processes /\ proc'[w].pc = "result" /\ proc'[w].item = x
        /\ proc'[w].result = "success"
    BY <2>1, <1>p DEF RestoreSucceeds, Become
  <2>3. Holds(w, x)'
    BY <2>2 DEF Holds
  <2>4. QED
    BY <2>2, <2>3, <1>a
<1>2. CASE x \in watch.applied
  <2>1. /\ restore[x].status # "failed"
        /\ Task(x) \in queue => restore[x].volume # row
        /\ \A p \in Processes : Holds(p, x) => proc[p].pc = "result" /\ proc[p].result = "success"
    BY <1>2, <1>c, <1>p DEF RestoreIsLast
  <2>2. restore[x].status # "none"
    BY <1>2, <1>p DEF RestoresAreTrue
  <2>3. /\ restore'[x].status # "failed"
        /\ restore'[x].volume = restore[x].volume
    <3>1. ASSUME NEW r \in Resolvers, proc[r].pc = "mark", proc[r].task = Task(x) PROVE FALSE
      BY <3>1, <2>1, <1>p DEF Holds
    <3>2. ASSUME NEW r \in Resolvers, proc[r].pc = "upload", proc[r].item = x PROVE FALSE
      BY <3>2, <2>1, <1>p DEF Holds
    <3>3. ASSUME NEW w \in Workers, proc[w].pc = "result", proc[w].item = x
          PROVE  proc[w].result = "success"
      BY <3>3, <2>1, <1>p DEF Holds
    <3>4. QED
      BY <2>1, <3>1, <3>2, <3>3, StatusWriters
  <2>4. Task(x) \in queue' => restore[x].volume # row
    BY <2>1, RestoreQueued
  <2>5. Task(x) \in queue' => restore'[x].volume # row'
    BY <2>2, <2>3, <2>4, VolumeStaysGone
  <2>6. ASSUME NEW p \in Processes, Holds(p, x)'
        PROVE  proc'[p].pc = "result" /\ proc'[p].result = "success"
    <3>1. Holds(p, x)
      BY <2>1, <2>2, <2>6, OneEnters
    <3>2. proc'[p] = proc[p]
      <4>1. proc[p].pc = "result" /\ proc[p] # Idle
        BY <2>1, <3>1 DEF Idle
      <4>2. ~BeginUpload(p, x)
        BY <4>1 DEF BeginUpload
      <4>3. ~TakeRestore(p, x)
        BY <4>1 DEF TakeRestore, Take
      <4>4. QED
        BY <1>c, <2>6, <4>1, <4>2, <4>3, Holders
    <3>3. QED
      BY <2>1, <3>1, <3>2
  <2>7. QED
    BY <2>3, <2>5, <2>6
<1>3. QED
  BY <1>1, <1>2

-----------------------------------------------------------------------------
(* The invariant, and what follows from it. *)

LEMMA InitIInv ==
  ASSUME Init
  PROVE  IInv
<1>1. MaxVolumes \in Nat \ {0} /\ MaxExtras \in Nat
  BY MaxVolumesAssumption, MaxExtrasAssumption
<1>2. /\ DOMAIN watch = Watched
      /\ watch.torn = {} /\ watch.condemned = {} /\ watch.doomed = {} /\ watch.waived = {}
      /\ watch.again = {} /\ watch.applied = {}
  BY DEF Init, Watched
<1>3. \A p \in Processes : proc[p] = Idle /\ proc[p].pc = "idle"
  BY DEF Init, Idle
<1>4. Resolvers \subseteq Processes /\ Workers \subseteq Processes
  BY DEF Processes
<1>5. VolumeShape /\ MachineShape /\ LocksShape
  <2>1. VolumeShape
    <3>1. row \in 0..1 /\ created = row /\ bound = FALSE
      BY DEF Init
    <3>2. created \in 0..MaxVolumes /\ row \in 0..created
      BY <1>1, <3>1
    <3>3. QED
      BY <3>1, <3>2 DEF VolumeShape
  <2>2. disk \in [Servers -> BOOLEAN]
    <3>1. \A s \in Servers : (row = 1 /\ s \in Online) \in BOOLEAN
      OBVIOUS
    <3>2. disk = [s \in Servers |-> row = 1 /\ s \in Online]
      BY DEF Init
    <3>3. QED
      BY <3>1, <3>2
  <2>3. status \in [Servers -> {"new", "adds", "skips", "online", "offline"}]
    BY DEF Init
  <2>4. LocksShape
    BY <1>1 DEF Init, LocksShape
  <2>5. QED
    BY <2>1, <2>2, <2>3, <2>4 DEF MachineShape
<1>6. ArchiveShape
  <2>1. NoBackup \in BackupRows /\ NoRestore \in RestoreRows
    BY <1>1 DEF NoBackup, NoRestore, BackupRows, RestoreRows
  <2>2. IsFiniteSet(files)
    BY FS_EmptySet DEF Init
  <2>3. QED
    BY <2>1, <2>2 DEF Init, ArchiveShape
<1>7. ProcShape /\ WatchShape /\ queue \subseteq Tasks
  BY <1>2, <1>3, <1>4 DEF Init, ProcShape, WatchShape, ResolverStates, WorkerStates
<1>8. \A b \in Backups : backup[b].status = "none"
  BY DEF Init, NoBackup
<1>9. \A x \in Restores : restore[x].status = "none"
  BY DEF Init, NoRestore
<1>10. RowsAreSound
  BY <1>8, <1>9 DEF RowsAreSound, Present
<1>11. CreationIsAlone /\ UploadIsAlone /\ RemovalIsKnown /\ CreationIsThorough
  BY <1>3, <1>4 DEF CreationIsAlone, UploadIsAlone, RemovalIsKnown, CreationIsThorough
<1>12. SetupIsThorough
  <2>1. ASSUME NEW s \in Servers, row # 0, status[s] \in {"skips", "online", "offline"}
        PROVE  disk[s]
    <3>1. status[s] \in {"new", "online"} /\ row \in 0..1
      BY DEF Init
    <3>2. row = 1 /\ s \in Online
      BY <2>1, <3>1 DEF Online
    <3>3. disk[s] = (row = 1 /\ s \in Online)
      BY DEF Init
    <3>4. QED
      BY <3>2, <3>3
  <2>2. QED
    BY <2>1 DEF SetupIsThorough
<1>13. BackupsAreTrue
  BY <1>3, <1>4, <1>8 DEF BackupsAreTrue, FileIsKept
<1>14. \A p \in Processes, x \in Restores : ~Holds(p, x)
  BY <1>3 DEF Holds
<1>15. RestoresAreTrue /\ RestoreIsAlone /\ RestoreIsLast
  <2>1. queue = {}
    BY DEF Init
  <2>2. QED
    BY <1>2, <1>3, <1>4, <1>9, <1>14, <2>1 DEF RestoresAreTrue, RestoreIsAlone, RestoreIsLast
<1>16. QED
  BY <1>5, <1>6, <1>7, <1>10, <1>11, <1>12, <1>13, <1>15 DEF IInv, Shape

LEMMA StepIInv ==
  ASSUME IInv, [Next]_vars
  PROVE  IInv'
<1>1. CASE Next
  BY <1>1, ShapeStep, RowsAreSoundStep, CreationIsAloneStep, UploadIsAloneStep,
     RemovalIsKnownStep, CreationIsThoroughStep, SetupIsThoroughStep, BackupsAreTrueStep,
     RestoresAreTrueStep, RestoreIsAloneStep, RestoreIsLastStep DEF IInv
<1>2. CASE UNCHANGED vars
  <2>1. Shape' /\ RowsAreSound'
    BY <1>2 DEF IInv, vars, Shape, VolumeShape, MachineShape, ArchiveShape, LocksShape,
       ProcShape, WatchShape, RowsAreSound
  <2>2. CreationIsAlone' /\ UploadIsAlone' /\ RemovalIsKnown'
    BY <1>2 DEF IInv, vars, CreationIsAlone, UploadIsAlone, RemovalIsKnown
  <2>3. CreationIsThorough' /\ SetupIsThorough'
    BY <1>2 DEF IInv, vars, CreationIsThorough, SetupIsThorough, Unprepared
  <2>4. BackupsAreTrue'
    BY <1>2 DEF IInv, vars, BackupsAreTrue, DumpIsTrue, FileIsKept
  <2>5. RestoresAreTrue' /\ RestoreIsAlone' /\ RestoreIsLast'
    BY <1>2 DEF IInv, vars, RestoresAreTrue, RestoreIsAlone, RestoreIsLast, Holds, Clean
  <2>6. QED
    BY <2>1, <2>2, <2>3, <2>4, <2>5 DEF IInv
<1>3. QED
  BY <1>1, <1>2

(* What the requests, the workers and the setups of servers keep true of one *)
(* volume, step by step, in every state of the system.                       *)
THEOREM Inductive == Spec => []IInv
<1>1. Init => IInv
  BY InitIInv
<1>2. IInv /\ [Next]_vars => IInv'
  BY StepIInv
<1>3. QED
  BY <1>1, <1>2, PTL DEF Spec

(* The rows of core/pv*.go, the tasks and what requests and workers remember *)
(* have their form; a backup or a restore that a query finds belongs to the  *)
(* row of the volume that is there.                                          *)
THEOREM TypeCorrect == Spec => []TypeOK
<1>1. IInv => TypeOK
  <2> SUFFICES ASSUME IInv PROVE TypeOK
    OBVIOUS
  <2>p. Shape /\ ProcShape /\ RowsAreSound
    BY DEF IInv, Shape
  <2>1. ASSUME NEW r \in Resolvers
        PROVE  \/ proc[r] \in States
               \/ /\ DOMAIN proc[r] \in {{"pc", "item", "copy"}, {"pc", "item", "copy", "server"}}
                  /\ proc[r].item \in Backups /\ proc[r].copy \in BackupRows
    <3>1. proc[r] \in ResolverStates
      BY <2>p DEF ProcShape
    <3>2. CASE proc[r] \in Deletions
      <4>1. DOMAIN proc[r] = {"pc", "item", "copy"}
        BY <3>2 DEF Deletions
      <4>2. proc[r].item \in Backups /\ proc[r].copy \in BackupRows
        BY <3>2 DEF Deletions
      <4>3. QED
        BY <4>1, <4>2
    <3>3. CASE proc[r] \notin Deletions
      BY <3>1, <3>3 DEF ResolverStates, States, Checks, Asks, Uploads
    <3>4. QED
      BY <3>2, <3>3
  <2>2. ASSUME NEW w \in Workers
        PROVE  \/ proc[w] \in States
               \/ /\ DOMAIN proc[w] \in {{"pc", "item", "copy"}, {"pc", "item", "copy", "server"}}
                  /\ proc[w].item \in Backups /\ proc[w].copy \in BackupRows
    <3>1. proc[w] \in WorkerStates
      BY <2>p DEF ProcShape
    <3>2. CASE proc[w] \in Dumps
      <4>1. DOMAIN proc[w] = {"pc", "item", "copy", "server"}
        BY <3>2 DEF Dumps
      <4>2. proc[w].item \in Backups /\ proc[w].copy \in BackupRows
        BY <3>2 DEF Dumps
      <4>3. QED
        BY <4>1, <4>2
    <3>3. CASE proc[w] \notin Dumps
      BY <3>1, <3>3 DEF WorkerStates, States, Removals, Imports, Results
    <3>4. QED
      BY <3>2, <3>3
  <2>3. \A p \in Processes :
          \/ proc[p] \in States
          \/ /\ DOMAIN proc[p] \in {{"pc", "item", "copy"}, {"pc", "item", "copy", "server"}}
             /\ proc[p].item \in Backups /\ proc[p].copy \in BackupRows
    BY <2>1, <2>2 DEF Processes
  <2>4. QED
    BY <2>p, <2>3 DEF TypeOK, Shape, VolumeShape, MachineShape, ArchiveShape, LocksShape,
       WatchShape, RowsAreSound, RestoreRows
<1>2. QED
  BY <1>1, Inductive, PTL

(* A volume that the database has is on every server that is set up: the     *)
(* request creates it on all that are, refuses while one is offline, and a   *)
(* setup that meets the row creates it before its server goes online. Only a *)
(* deletion that was asked and validated takes it away.                      *)
THEOREM RowsHaveVolumes == Spec => []RowHasVolume
<1>1. IInv => RowHasVolume
  BY DEF IInv, Shape, MachineShape, SetupIsThorough, RowHasVolume, Unprepared
<1>2. QED
  BY <1>1, Inductive, PTL

(* The workers that back up and restore write a status that is true: the     *)
(* file of a backup that succeeded is there until its deletion is asked for; *)
(* a restore that succeeded was applied, and one that failed was not, unless *)
(* its task was delivered twice or refused.                                  *)
THEOREM StatusesAreTrue == Spec => []StatusIsTrue
<1>1. IInv => StatusIsTrue
  <2> SUFFICES ASSUME IInv PROVE StatusIsTrue
    OBVIOUS
  <2>1. \A b \in Backups \ watch.doomed :
          backup[b].status = "success" => FileOf(b, backup[b]) \in files
    BY DEF IInv, BackupsAreTrue, FileIsKept
  <2>2. \A x \in Restores : restore[x].status = "success" => x \in watch.applied
    BY DEF IInv, RestoresAreTrue
  <2>3. ASSUME NEW x \in Restores, restore[x].status = "failed",
               <<"restore", x>> \notin watch.again \cup watch.waived
        PROVE  x \notin watch.applied
    BY <2>3 DEF IInv, RestoreIsLast, Clean, Task
  <2>4. QED
    BY <2>1, <2>2, <2>3 DEF StatusIsTrue
<1>2. QED
  BY <1>1, Inductive, PTL
=============================================================================
