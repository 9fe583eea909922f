--------------------------- MODULE RdsBackupProofs ---------------------------
(***************************************************************************)
(* No instance is deleted without a manual backup: RdsOperator's           *)
(* BackupBeforeDelete, for every value of the constants.  It is not        *)
(* inductive: between the backup and the delete of a handler other workers *)
(* start jobs on the instance, jobs fail and answers are lost.  BackupInv  *)
(* says what a handler may rely on meanwhile.                              *)
(***************************************************************************)
EXTENDS RdsOperatorProofs

DeleteOps == {"alarms", "backup", "delete", "service"}

\* What the delete handler of a worker may rely on.  While it waits for its
\* backup, either the backup is what the instance is busy with, or it is done.
HandlerSafe(w) ==
    /\ worker[w].op \in DeleteOps => worker[w].pc \in {"call", "wait", "failed"}
    /\ At(w, "delete", "call") => MyId(w) \in backups
    /\ At(w, "backup", "wait") =>
         /\ MyId(w) \in Instances
         /\ \/ MyId(w) \in backups
            \/ inst[MyId(w)].by = w /\ inst[MyId(w)].job = "backup"

\* A job that is over has no worker that polls it; only a live instance has jobs.
InstanceSafe(i) ==
    /\ inst[i].job = "none" => inst[i].by = NoWorker
    /\ inst[i].phase # "live" => inst[i].job = "none"
    /\ inst[i].job = "delete" \/ inst[i].phase = "gone" => i \in backups

BackupInv ==
    /\ TypeOK
    /\ \A w \in Workers : HandlerSafe(w)
    /\ \A i \in Instances : InstanceSafe(i)

\* The worker goes on, or ends, outside of the delete handler.
Leaves(w) == \E me \in Worker : me.op \notin DeleteOps /\ Become(w, me)

------------------------------------------------------------------------------
LEMMA IdleLeaves ==
  ASSUME NEW w \in Workers, Become(w, IdleWorker)
  PROVE  Leaves(w)
BY IdleWorkerType, Zenon DEF IdleWorker, Leaves, DeleteOps

LEMMA EndLeaves ==
  ASSUME NEW w \in Workers, NEW e,
         Finish(w) \/ Retry(w, e) \/ Fail(w)
  PROVE  Leaves(w)
BY IdleLeaves, Zenon DEF Finish, Retry, Fail

LEMMA ProceedLeaves ==
  ASSUME NEW w \in Workers, NEW me \in Worker, Proceed(w, me)
  PROVE  Leaves(w)
<1>1. CASE Become(w, IdleWorker)
  BY <1>1, IdleLeaves
<1>2. CASE \E op \in UpdateOps : Become(w, Enter(me, op))
  <2>1. PICK op \in UpdateOps : Become(w, Enter(me, op))
    BY <1>2
  <2>2. Enter(me, op) \in Worker /\ Enter(me, op).op = op
    BY EnterType, Zenon DEF Enter, Worker
  <2>3. QED
    BY <2>1, <2>2, Zenon DEF Leaves, DeleteOps, UpdateOps
<1>3. QED
  BY <1>1, <1>2 DEF Proceed

LEMMA ReturnLeaves ==
  ASSUME NEW w \in Workers, NEW me \in Worker, me.op \notin DeleteOps,
         Return(w, me)
  PROVE  Leaves(w)
<1>1. CASE me.ret = "next"
  BY <1>1, ProceedLeaves DEF Return
<1>2. CASE me.ret # "next"
  <2>1. [me EXCEPT !.pc = me.ret] \in Worker
    BY <1>2, SMT DEF Worker, Pcs
  <2>2. [me EXCEPT !.pc = me.ret].op = me.op
    BY Zenon DEF Worker
  <2>3. QED
    BY <1>2, <2>1, <2>2, Zenon DEF Return, Leaves
<1>3. QED
  BY <1>1, <1>2

LEMMA GotoLeaves ==
  ASSUME TypeOK, NEW w \in Workers, NEW pc \in Pcs, Goto(w, pc),
         worker[w].op \notin DeleteOps
  PROVE  Leaves(w)
<1>1. [worker[w] EXCEPT !.pc = pc] \in Worker
  BY Zenon DEF TypeOK, Worker
<1>2. [worker[w] EXCEPT !.pc = pc].op = worker[w].op
  BY Zenon DEF TypeOK, Worker
<1>3. QED
  BY <1>1, <1>2, Zenon DEF Goto, Leaves

\* A worker that leaves, while instances and backups stay, disturbs nobody.
LEMMA LeavesSafe ==
  ASSUME BackupInv, TypeOK', NEW w \in Workers, Leaves(w),
         UNCHANGED <<inst, backups>>
  PROVE  BackupInv'
<1>1. PICK me \in Worker : me.op \notin DeleteOps /\ Become(w, me)
  BY DEF Leaves
<1>2. worker'[w] = me /\ \A v \in Workers \ {w} : worker'[v] = worker[v]
  BY <1>1, Zenon DEF Become, BackupInv, TypeOK
<1>3. HandlerSafe(w)'
  BY <1>1, <1>2, Zenon DEF HandlerSafe, At, DeleteOps
<1>4. ASSUME NEW v \in Workers \ {w} PROVE HandlerSafe(v)'
  BY <1>2, Zenon DEF HandlerSafe, At, MyId, BackupInv
<1>5. ASSUME NEW i \in Instances PROVE InstanceSafe(i)'
  BY Zenon DEF InstanceSafe, BackupInv
<1>6. QED
  BY <1>3, <1>4, <1>5, Zenon DEF BackupInv

LEMMA RestartSafe ==
  ASSUME BackupInv, TypeOK', Restarted
  PROVE  BackupInv'
<1>1. ASSUME NEW v \in Workers PROVE HandlerSafe(v)'
  <2>1. worker'[v] = IdleWorker
    BY DEF Restarted
  <2>2. worker'[v].op = "none"
    BY <2>1 DEF IdleWorker
  <2>3. QED
    BY <2>2, Zenon DEF HandlerSafe, At, DeleteOps
<1>2. ASSUME NEW i \in Instances PROVE InstanceSafe(i)'
  <2>1. inst[i] \in Instance /\ inst'[i] = [inst[i] EXCEPT !.by = NoWorker]
    BY DEF Restarted, BackupInv, TypeOK
  <2>2. /\ inst'[i].phase = inst[i].phase /\ inst'[i].job = inst[i].job
        /\ inst'[i].by = NoWorker
    BY <2>1, Zenon DEF Instance
  <2>3. QED
    BY <2>2, Zenon DEF InstanceSafe, BackupInv, Restarted
<1>3. QED
  BY <1>1, <1>2, Zenon DEF BackupInv

------------------------------------------------------------------------------
\* Steps that leave instances and backups alone.

LEMMA OutsideDelete ==
  ASSUME BackupInv, NEW w \in Workers,
         worker[w].pc \notin {"call", "wait", "failed"}
  PROVE  worker[w].op \notin DeleteOps
BY Zenon DEF BackupInv, HandlerSafe

LEMMA TakeSafe ==
  ASSUME BackupInv, TypeOK', NEW w \in Workers, Take(w)
  PROVE  BackupInv'
<1> DEFINE me == Begin(Head(queue))
<1>1. Head(queue) \in Event
  BY HeadTailProperties DEF Take, BackupInv, TypeOK
<1>2. me \in Worker /\ Become(w, me)
  BY <1>1, BeginType DEF Take
<1>3. me.op \in {"create", "read"} \/ (me.op = "alarms" /\ me.pc = "call")
  BY <1>1, SMT DEF Begin, Event
<1> HIDE DEF me
<1>4. UNCHANGED <<inst, backups>>
  BY Zenon DEF Take, cloud
<1>5. CASE me.op \in {"create", "read"}
  <2>1. Leaves(w)
    BY <1>2, <1>5, Zenon DEF Leaves, DeleteOps
  <2>2. QED
    BY <1>4, <2>1, LeavesSafe
<1>6. CASE me.op = "alarms" /\ me.pc = "call"
  <2>1. worker'[w] = me /\ \A v \in Workers \ {w} : worker'[v] = worker[v]
    BY <1>2, Zenon DEF Become, BackupInv, TypeOK
  <2>2. HandlerSafe(w)'
    BY <1>6, <2>1, Zenon DEF HandlerSafe, At
  <2>3. ASSUME NEW v \in Workers \ {w} PROVE HandlerSafe(v)'
    BY <1>4, <2>1, Zenon DEF HandlerSafe, At, MyId, BackupInv
  <2>4. ASSUME NEW i \in Instances PROVE InstanceSafe(i)'
    BY <1>4, Zenon DEF InstanceSafe, BackupInv
  <2>5. QED
    BY <2>2, <2>3, <2>4, Zenon DEF BackupInv
<1>7. QED
  BY <1>3, <1>5, <1>6

LEMMA StatusSafe ==
  ASSUME BackupInv, TypeOK', NEW w \in Workers, UpdateStatus(w)
  PROVE  BackupInv'
<1>1. worker[w] \in Worker
  BY DEF BackupInv, TypeOK
<1>2. worker[w].op \notin DeleteOps
  <2>1. worker[w].pc \in {"us.get", "us.put", "us.svc", "us.svc2"}
    BY Zenon DEF UpdateStatus, StatusGet, StatusPut, StatusEndpoints, StatusService
  <2>2. QED
    BY <2>1, OutsideDelete
<1>3. CASE Return(w, worker[w]) /\ UNCHANGED <<inst, backups>>
  BY <1>1, <1>2, <1>3, ReturnLeaves, LeavesSafe
<1>4. CASE Restarted
  BY <1>4, RestartSafe
<1>5. CASE (\E pc \in Pcs : Goto(w, pc)) /\ UNCHANGED <<inst, backups>>
  BY <1>2, <1>5, GotoLeaves, LeavesSafe DEF BackupInv
<1>6. CASE /\ \E i \in Live :
                Become(w, [worker[w] EXCEPT !.pc = "us.put", !.obj.ip = inst[i].ip,
                                            !.obj.st = InstanceState(i)])
           /\ UNCHANGED <<inst, backups>>
  <2>1. PICK i \in Live :
          Become(w, [worker[w] EXCEPT !.pc = "us.put", !.obj.ip = inst[i].ip,
                                      !.obj.st = InstanceState(i)])
    BY <1>6
  <2>2. worker'[w] \in Worker
    BY DEF TypeOK
  <2>3. worker'[w] = [worker[w] EXCEPT !.pc = "us.put", !.obj.ip = inst[i].ip,
                                       !.obj.st = InstanceState(i)]
    BY <2>1, Zenon DEF Become, BackupInv, TypeOK
  <2>4. worker'[w].op = worker[w].op
    BY <1>1, <2>3, Zenon DEF Worker
  <2>5. Leaves(w)
    BY <1>2, <2>1, <2>2, <2>3, <2>4, Zenon DEF Leaves
  <2>6. QED
    BY <1>6, <2>5, LeavesSafe
<1>7. {"us.svc", "us.svc2"} \subseteq Pcs
  BY Zenon DEF Pcs
<1>8. QED
  <2>1. CASE StatusGet(w)
    BY <2>1, <1>3, <1>4, <1>6, Zenon DEF StatusGet, events
  <2>2. CASE StatusPut(w)
    BY <2>2, <1>3, <1>5, <1>7, Zenon DEF StatusPut, cloud
  <2>3. CASE StatusEndpoints(w) \/ StatusService(w)
    BY <2>3, <1>3, <1>5, <1>7, Zenon DEF StatusEndpoints, StatusService, cloud
  <2>4. QED
    BY <2>1, <2>2, <2>3 DEF UpdateStatus

LEMMA GetByIdSafe ==
  ASSUME BackupInv, TypeOK', NEW w \in Workers, GetById(w)
  PROVE  BackupInv'
<1>1. worker[w].op \notin DeleteOps
  BY OutsideDelete, Zenon DEF GetById
<1>2. CASE Restarted
  BY <1>2, RestartSafe
<1>3. CASE ~Restarted
  <2> DEFINE ret == IF worker[w].pc = "peek" THEN "wait" ELSE "next"
             ip == IF worker[w].op = "create" THEN inst[MyId(w)].ip
                   ELSE worker[w].obj.ip
             me == [worker[w] EXCEPT !.pc = "us.get", !.ret = ret,
                      !.obj.st = InstanceState(MyId(w)), !.obj.ip = ip]
  <2>1. Become(w, me) /\ UNCHANGED <<inst, backups>>
    BY <1>3, Zenon DEF GetById, events
  <2>2. me.op = worker[w].op
    <3>1. worker[w] \in Worker
      BY DEF BackupInv, TypeOK
    <3>2. QED
      BY <3>1, Zenon DEF Worker
  <2> HIDE DEF me
  <2>3. worker'[w] = me /\ worker'[w] \in Worker
    BY <2>1, Zenon DEF Become, BackupInv, TypeOK
  <2>4. Leaves(w)
    BY <1>1, <2>1, <2>2, <2>3, Zenon DEF Leaves
  <2>5. QED
    BY <2>1, <2>4, LeavesSafe
<1>4. QED
  BY <1>2, <1>3

LEMMA EndSafe ==
  ASSUME BackupInv, TypeOK', NEW w \in Workers, UNCHANGED <<inst, backups>>,
         NEW e, Finish(w) \/ Retry(w, e) \/ Fail(w)
  PROVE  BackupInv'
BY EndLeaves, LeavesSafe, Zenon

LEMMA GotoSafe ==
  ASSUME BackupInv, TypeOK', NEW w \in Workers, UNCHANGED <<inst, backups>>,
         NEW pc \in Pcs, Goto(w, pc), worker[w].op \notin DeleteOps
  PROVE  BackupInv'
BY GotoLeaves, LeavesSafe DEF BackupInv

LEMMA DecideSafe ==
  ASSUME BackupInv, TypeOK', NEW w \in Workers, Decide(w)
  PROVE  BackupInv'
<1> DEFINE me == [worker[w] EXCEPT !.ev.new = worker[w].obj]
<1>1. CASE Restarted
  BY <1>1, RestartSafe
<1>2. CASE (Finish(w) \/ Retry(w, me.ev)) /\ UNCHANGED <<inst, backups>>
  <2> HIDE DEF me
  <2>1. QED
    BY <1>2, EndSafe, Zenon
<1>3. CASE /\ \E i \in Live : Proceed(w, [me EXCEPT !.vol = inst[i].vol,
                                                    !.flavor = inst[i].flavor])
           /\ UNCHANGED <<inst, backups>>
  <2>1. me \in Worker
    <3>1. worker[w] \in Worker /\ worker[w].obj \in Object
      BY Zenon DEF BackupInv, TypeOK, Worker
    <3>2. QED
      BY <3>1, Zenon DEF Worker, Event
  <2> HIDE DEF me
  <2>2. PICK i \in Instances : Proceed(w, [me EXCEPT !.vol = inst[i].vol,
                                                     !.flavor = inst[i].flavor])
    BY <1>3 DEF Live
  <2>3. inst[i].vol \in Volumes /\ inst[i].flavor \in Flavors
    BY Zenon DEF BackupInv, TypeOK, Instance
  <2>4. [me EXCEPT !.vol = inst[i].vol, !.flavor = inst[i].flavor] \in Worker
    BY <2>1, <2>3, Zenon DEF Worker
  <2>5. QED
    BY <1>3, <2>2, <2>4, ProceedLeaves, LeavesSafe
<1>4. QED
  BY <1>1, <1>2, <1>3, Zenon DEF Decide, events

\* The steps of the handlers that only end or wait on, and those of the last
\* two stages of an update.
LEMMA PlainStepSafe ==
  ASSUME BackupInv, TypeOK', NEW w \in Workers,
         \/ JobFailed(w) \/ CheckExists(w) \/ Created(w) \/ Updated(w)
         \/ DeleteService(w) \/ FetchLogs(w) \/ SetAutopilot(w)
  PROVE  BackupInv'
<1>1. CASE Restarted
  BY <1>1, RestartSafe
<1>2. CASE (Finish(w) \/ Fail(w)) /\ UNCHANGED <<inst, backups>>
  BY <1>2, EndSafe, Zenon
<1>3. CASE /\ \E pc \in Pcs : Goto(w, pc)
           /\ worker[w].op \notin DeleteOps
           /\ UNCHANGED <<inst, backups>>
  BY <1>3, GotoSafe
<1>4. {"call", "get"} \subseteq Pcs
  BY GotoPcs
<1>5. CASE JobFailed(w) \/ DeleteService(w) \/ FetchLogs(w) \/ SetAutopilot(w)
  BY <1>1, <1>2, <1>5, Zenon
  DEF JobFailed, DeleteService, FetchLogs, SetAutopilot, cloud
<1>6. CASE CheckExists(w)
  BY <1>2, <1>3, <1>4, <1>6, Zenon DEF CheckExists, At, DeleteOps, cloud
<1>7. CASE Created(w) \/ Updated(w)
  BY <1>3, <1>4, <1>7, Zenon DEF Created, Updated, DeleteOps, cloud
<1>8. QED
  BY <1>5, <1>6, <1>7

------------------------------------------------------------------------------
\* Steps that change instances or backups.

\* What the handlers of other workers rely on stays true if no backup is lost
\* and no backup that one of them polls is taken from it.
LEMMA OthersSafe ==
  ASSUME BackupInv, NEW W \in SUBSET Workers, backups \subseteq backups',
         \A v \in W : worker'[v] = worker[v],
         \A v \in W, i \in Instances :
            inst[i].by = v /\ inst[i].job = "backup" =>
               \/ i \in backups'
               \/ inst'[i].by = v /\ inst'[i].job = "backup"
  PROVE  \A v \in W : HandlerSafe(v)'
<1> SUFFICES ASSUME NEW v \in W PROVE HandlerSafe(v)'
  OBVIOUS
<1>1. HandlerSafe(v) /\ worker'[v] = worker[v]
  BY DEF BackupInv
<1>2. (worker[v].op \in DeleteOps => worker[v].pc \in {"call", "wait", "failed"})'
  BY <1>1, Zenon DEF HandlerSafe
<1>3. (At(v, "delete", "call") => MyId(v) \in backups)'
  BY <1>1, Zenon DEF HandlerSafe, At, MyId
<1>4. (At(v, "backup", "wait") =>
         /\ MyId(v) \in Instances
         /\ \/ MyId(v) \in backups
            \/ inst[MyId(v)].by = v /\ inst[MyId(v)].job = "backup")'
  <2> SUFFICES ASSUME At(v, "backup", "wait")
               PROVE  /\ MyId(v) \in Instances
                      /\ \/ MyId(v) \in backups'
                         \/ inst'[MyId(v)].by = v /\ inst'[MyId(v)].job = "backup"
    BY <1>1, Zenon DEF At, MyId
  <2>1. QED
    BY <1>1, Zenon DEF HandlerSafe
<1>5. QED
  BY <1>2, <1>3, <1>4 DEF HandlerSafe

LEMMA LeavesFacts ==
  ASSUME BackupInv, NEW w \in Workers, Leaves(w)
  PROVE  /\ HandlerSafe(w)'
         /\ \A v \in Workers \ {w} : worker'[v] = worker[v]
<1>1. PICK me \in Worker : me.op \notin DeleteOps /\ Become(w, me)
  BY DEF Leaves
<1>2. worker'[w] = me /\ \A v \in Workers \ {w} : worker'[v] = worker[v]
  BY <1>1, Zenon DEF Become, BackupInv, TypeOK
<1>3. QED
  BY <1>1, <1>2, Zenon DEF HandlerSafe, At, DeleteOps

LEMMA StartJobSafe ==
  ASSUME BackupInv, TypeOK', NEW w \in Workers,
         NEW by, NEW kind \in Jobs \ {"none"}, NEW vol, NEW flavor,
         StartJob(w, by, kind, vol, flavor), UNCHANGED backups,
         kind = "delete" => MyId(w) \in backups,
         HandlerSafe(w)', \A v \in Workers \ {w} : worker'[v] = worker[v]
  PROVE  BackupInv'
<1> DEFINE i == MyId(w)
<1>1. i \in Instances /\ inst[i].phase = "live" /\ inst[i].job = "none"
  BY Zenon DEF StartJob, Accepts, Live
<1>2. inst[i].by \notin Workers
  BY <1>1, NoWorkerIsNone DEF BackupInv, InstanceSafe
<1>3. inst'[i].phase = "live" /\ inst'[i].job = kind
  BY <1>1, Zenon DEF StartJob, BackupInv, TypeOK, Instance
<1>4. \A j \in Instances \ {i} : inst'[j] = inst[j]
  BY <1>1, Zenon DEF StartJob, BackupInv, TypeOK
<1> HIDE DEF i
<1>5. \A v \in Workers \ {w} : HandlerSafe(v)'
  BY <1>2, <1>4, OthersSafe
<1>6. ASSUME NEW j \in Instances PROVE InstanceSafe(j)'
  <2>1. CASE j = i
    BY <1>3, <2>1, Zenon DEF InstanceSafe, i
  <2>2. CASE j # i
    BY <1>4, <2>2, Zenon DEF InstanceSafe, BackupInv
  <2>3. QED
    BY <2>1, <2>2
<1>7. QED
  BY <1>5, <1>6, Zenon DEF BackupInv

LEMMA UpdateCallSafe ==
  ASSUME BackupInv, TypeOK', NEW w \in Workers, NEW by,
         UpdateCall(w, by), Leaves(w), UNCHANGED backups
  PROVE  BackupInv'
<1>1. \E kind \in Jobs \ {"none", "delete"} : \E vol, flavor :
        StartJob(w, by, kind, vol, flavor)
  <2>1. {"enlarge", "resize", "restart", "restore"} \subseteq Jobs \ {"none", "delete"}
    BY DEF Jobs
  <2>2. QED
    BY <2>1, Zenon DEF UpdateCall, Enlarge, Resize, Restart, Restore
<1>2. PICK kind \in Jobs \ {"none", "delete"} : \E vol, flavor :
        StartJob(w, by, kind, vol, flavor)
  BY <1>1
<1>3. PICK vol, flavor : StartJob(w, by, kind, vol, flavor)
  BY <1>2
<1>4. QED
  BY <1>2, <1>3, LeavesFacts, StartJobSafe

LEMMA CallCloudSafe ==
  ASSUME BackupInv, TypeOK', NEW w \in Workers, CallCloud(w)
  PROVE  BackupInv'
<1>1. CASE Fail(w) /\ UNCHANGED inst
  BY <1>1, EndSafe, Zenon DEF CallCloud
<1>2. CASE UpdateCall(w, w) /\ \E pc \in Pcs : Goto(w, pc)
  <2>1. worker[w].op \in {"enlarge", "resize", "restart", "restore"}
    BY <1>2, Zenon DEF UpdateCall, Enlarge, Resize, Restart, Restore, At
  <2>2. worker[w].op \notin DeleteOps
    BY <2>1 DEF DeleteOps
  <2>3. Leaves(w)
    BY <1>2, <2>2, GotoLeaves DEF BackupInv
  <2>4. QED
    BY <1>2, <2>3, UpdateCallSafe DEF CallCloud
<1>3. QED
  BY <1>1, <1>2, GotoPcs, Zenon DEF CallCloud

\* A new instance takes the place of one that had no job.
LEMMA CreateCallSafe ==
  ASSUME BackupInv, TypeOK', NEW w \in Workers, NEW by,
         CreateCall(w, by), Leaves(w), UNCHANGED backups
  PROVE  BackupInv'
<1>1. PICK i \in Instances : NewId(i) /\ Provision(i, worker[w].obj, by)
  BY DEF CreateCall
<1>2. inst[i].job = "none" /\ inst[i].by \notin Workers
  BY <1>1, NoWorkerIsNone, SMT DEF NewId, BackupInv, InstanceSafe
<1>3. inst'[i].phase = "live" /\ inst'[i].job = "create"
  <2> DEFINE u == [Unborn EXCEPT
        !.phase = "live", !.job = "create", !.by = by,
        !.vol = worker[w].obj.vol, !.flavor = worker[w].obj.flavor,
        !.toVol = worker[w].obj.vol, !.toFlavor = worker[w].obj.flavor]
  <2>1. inst'[i] = u
    BY <1>1, Zenon DEF Provision, BackupInv, TypeOK
  <2>2. u.phase = "live" /\ u.job = "create"
    BY UnbornType, Zenon DEF Instance
  <2>3. QED
    BY <2>1, <2>2
<1>4. \A j \in Instances \ {i} : inst'[j] = inst[j]
  BY <1>1, Zenon DEF Provision, BackupInv, TypeOK
<1>5. \A v \in Workers \ {w} : HandlerSafe(v)'
  BY <1>2, <1>4, LeavesFacts, OthersSafe
<1>6. ASSUME NEW j \in Instances PROVE InstanceSafe(j)'
  <2>1. CASE j = i
    BY <1>3, <2>1, Zenon DEF InstanceSafe
  <2>2. CASE j # i
    BY <1>4, <2>2, Zenon DEF InstanceSafe, BackupInv
  <2>3. QED
    BY <2>1, <2>2
<1>7. QED
  BY <1>5, <1>6, LeavesFacts, Zenon DEF BackupInv

LEMMA CreateInstanceSafe ==
  ASSUME BackupInv, TypeOK', NEW w \in Workers, CreateInstance(w)
  PROVE  BackupInv'
<1>1. CASE Fail(w) /\ UNCHANGED inst
  BY <1>1, EndSafe, Zenon DEF CreateInstance
<1>2. CASE /\ CreateCall(w, w)
           /\ \E i \in Instances :
                Become(w, [worker[w] EXCEPT !.pc = "us.get", !.ret = "wait",
                                            !.obj.id = i, !.obj.st = "BUSY"])
  <2>1. PICK i \in Instances :
          Become(w, [worker[w] EXCEPT !.pc = "us.get", !.ret = "wait",
                                      !.obj.id = i, !.obj.st = "BUSY"])
    BY <1>2
  <2> DEFINE me == [worker[w] EXCEPT !.pc = "us.get", !.ret = "wait",
                                     !.obj.id = i, !.obj.st = "BUSY"]
  <2>2. me.op = "create"
    BY <1>2, Zenon DEF CreateCall, At, BackupInv, TypeOK, Worker
  <2> HIDE DEF me
  <2>3. worker'[w] = me /\ worker'[w] \in Worker
    BY <2>1, Zenon DEF Become, BackupInv, TypeOK, me
  <2>4. Leaves(w)
    BY <2>1, <2>2, <2>3, Zenon DEF Leaves, DeleteOps, me
  <2>5. QED
    BY <1>2, <2>4, CreateCallSafe DEF CreateInstance
<1>3. QED
  BY <1>1, <1>2, Zenon DEF CreateInstance

------------------------------------------------------------------------------
\* The delete handler.

\* A worker that goes on within the handler.
LEMMA GoesOnSafe ==
  ASSUME BackupInv, TypeOK', NEW w \in Workers, NEW me \in Worker,
         Become(w, me), me.op \in {"backup", "delete", "service"}, me.pc = "call",
         me.op = "delete" => me.obj.id \in backups,
         UNCHANGED <<inst, backups>>
  PROVE  BackupInv'
<1>1. worker'[w] = me /\ \A v \in Workers \ {w} : worker'[v] = worker[v]
  BY Zenon DEF Become, BackupInv, TypeOK
<1>2. HandlerSafe(w)'
  BY <1>1, SMT DEF HandlerSafe, At, MyId
<1>3. \A v \in Workers \ {w} : HandlerSafe(v)'
  BY <1>1, OthersSafe
<1>4. ASSUME NEW i \in Instances PROVE InstanceSafe(i)'
  BY Zenon DEF InstanceSafe, BackupInv
<1>5. QED
  BY <1>2, <1>3, <1>4, Zenon DEF BackupInv

LEMMA DeleteAlarmsSafe ==
  ASSUME BackupInv, TypeOK', NEW w \in Workers, DeleteAlarms(w)
  PROVE  BackupInv'
<1> DEFINE me == [worker[w] EXCEPT !.op = "backup"]
<1>1. CASE Fail(w)
  BY <1>1, EndSafe, Zenon DEF DeleteAlarms
<1>2. CASE Become(w, me)
  <2>1. me \in Worker /\ me.op = "backup" /\ me.pc = worker[w].pc
    <3>1. worker[w] \in Worker
      BY DEF BackupInv, TypeOK
    <3>2. QED
      BY <3>1, Zenon DEF Worker, Ops
  <2>2. me.pc = "call" /\ UNCHANGED <<inst, backups>>
    BY <2>1, Zenon DEF DeleteAlarms, At
  <2> HIDE DEF me
  <2>3. QED
    BY <1>2, <2>1, <2>2, GoesOnSafe
<1>3. QED
  BY <1>1, <1>2, Zenon DEF DeleteAlarms

LEMMA BackupDoneSafe ==
  ASSUME BackupInv, TypeOK', NEW w \in Workers, BackupDone(w)
  PROVE  BackupInv'
<1> DEFINE me == [worker[w] EXCEPT !.op = "delete", !.pc = "call"]
<1>1. me \in Worker /\ me.op = "delete" /\ me.pc = "call" /\ me.obj.id = MyId(w)
  <2>1. worker[w] \in Worker
    BY DEF BackupInv, TypeOK
  <2>2. QED
    BY <2>1, Zenon DEF Worker, Ops, Pcs, MyId
<1>2. MyId(w) \in backups
  BY Zenon DEF BackupInv, HandlerSafe, At, BackupDone, JobOver
<1>3. Become(w, me) /\ UNCHANGED <<inst, backups>>
  BY Zenon DEF BackupDone, cloud
<1> HIDE DEF me
<1>4. QED
  BY <1>1, <1>2, <1>3, GoesOnSafe

LEMMA DeletedSafe ==
  ASSUME BackupInv, TypeOK', NEW w \in Workers, Deleted(w)
  PROVE  BackupInv'
<1> DEFINE me == [worker[w] EXCEPT !.op = "service", !.pc = "call"]
<1>1. me \in Worker /\ me.op = "service" /\ me.pc = "call"
  <2>1. worker[w] \in Worker
    BY DEF BackupInv, TypeOK
  <2>2. QED
    BY <2>1, Zenon DEF Worker, Ops, Pcs
<1>2. Become(w, me) /\ UNCHANGED <<inst, backups>>
  BY Zenon DEF Deleted, cloud
<1> HIDE DEF me
<1>3. QED
  BY <1>1, <1>2, GoesOnSafe

\* The call that deletes finds the backup made, whoever waits for it after that.
LEMMA DeleteCallSafe ==
  ASSUME BackupInv, TypeOK', NEW w \in Workers, NEW by,
         DeleteCall(w, by), UNCHANGED backups,
         HandlerSafe(w)', \A v \in Workers \ {w} : worker'[v] = worker[v]
  PROVE  BackupInv'
<1>1. worker[w].op \in Jobs \ {"none"}
  BY SMT DEF DeleteCall, Jobs
<1>2. worker[w].op = "delete" => MyId(w) \in backups
  BY Zenon DEF DeleteCall, BackupInv, HandlerSafe, At
<1>3. StartJob(w, by, worker[w].op, inst[MyId(w)].vol, inst[MyId(w)].flavor)
  BY DEF DeleteCall
<1>4. QED
  BY <1>1, <1>2, <1>3, StartJobSafe

LEMMA BackupOrDeleteSafe ==
  ASSUME BackupInv, TypeOK', NEW w \in Workers, BackupOrDelete(w)
  PROVE  BackupInv'
<1>1. CASE Fail(w) /\ UNCHANGED inst
  BY <1>1, EndSafe, Zenon DEF BackupOrDelete
<1>2. CASE DeleteCall(w, w) /\ Goto(w, "wait")
  <2> DEFINE me == [worker[w] EXCEPT !.pc = "wait"]
             i == MyId(w)
  <2>1. me.op = worker[w].op /\ me.pc = "wait" /\ me.obj.id = i
    BY Zenon DEF BackupInv, TypeOK, Worker, MyId
  <2>2. worker'[w] = me /\ \A v \in Workers \ {w} : worker'[v] = worker[v]
    BY <1>2, Zenon DEF Goto, Become, BackupInv, TypeOK
  <2>3. /\ i \in Instances
        /\ inst'[i] = [inst[i] EXCEPT !.job = worker[w].op, !.by = w,
                         !.toVol = inst[i].vol, !.toFlavor = inst[i].flavor]
    BY <1>2, Zenon DEF DeleteCall, StartJob, Accepts, Live, BackupInv, TypeOK
  <2>4. inst'[i].by = w /\ inst'[i].job = worker[w].op
    <3>1. inst[i] \in Instance
      BY <2>3 DEF BackupInv, TypeOK
    <3>2. QED
      BY <2>3, <3>1, Zenon DEF Instance
  <2> HIDE DEF me, i
  <2>5. HandlerSafe(w)'
    <3>1. /\ worker'[w].op = worker[w].op /\ worker'[w].pc = "wait"
          /\ worker'[w].obj.id = i
      BY <2>1, <2>2
    <3>2. QED
      BY <2>3, <2>4, <3>1, Zenon DEF HandlerSafe, At, MyId
  <2>6. QED
    BY <1>2, <2>2, <2>5, DeleteCallSafe DEF BackupOrDelete
<1>3. QED
  BY <1>1, <1>2, Zenon DEF BackupOrDelete

------------------------------------------------------------------------------
\* Failing calls, lost answers and what the world does.

LEMMA AnswerLostSafe ==
  ASSUME BackupInv, TypeOK', NEW w \in Workers, AnswerLost(w)
  PROVE  BackupInv'
<1>1. Leaves(w) /\ UNCHANGED backups
  BY EndLeaves, Zenon DEF AnswerLost
<1>2. CASE CreateCall(w, NoWorker)
  BY <1>1, <1>2, CreateCallSafe
<1>3. CASE UpdateCall(w, NoWorker)
  BY <1>1, <1>3, UpdateCallSafe
<1>4. CASE DeleteCall(w, NoWorker)
  BY <1>1, <1>4, LeavesFacts, DeleteCallSafe
<1>5. QED
  BY <1>2, <1>3, <1>4 DEF AnswerLost

\* Instances that keep their phase and their job, and lose at most a worker that
\* leaves.
LEMMA SameJobsSafe ==
  ASSUME BackupInv, TypeOK', UNCHANGED backups, NEW W \in SUBSET Workers,
         \A v \in W : worker'[v] = worker[v],
         \A v \in Workers \ W : HandlerSafe(v)',
         \A i \in Instances :
            /\ inst'[i].phase = inst[i].phase /\ inst'[i].job = inst[i].job
            /\ \/ inst'[i].by = inst[i].by
               \/ inst[i].by \notin W /\ inst'[i].by = NoWorker
  PROVE  BackupInv'
<1>1. \A v \in W : HandlerSafe(v)'
  BY OthersSafe
<1>2. ASSUME NEW i \in Instances PROVE InstanceSafe(i)'
  BY Zenon DEF InstanceSafe, BackupInv
<1>3. QED
  BY <1>1, <1>2, Zenon DEF BackupInv

LEMMA CallFailsSafe ==
  ASSUME BackupInv, TypeOK', NEW w \in Workers, CallFails(w)
  PROVE  BackupInv'
<1>1. worker[w] \in Worker
  BY DEF BackupInv, TypeOK
<1>2. UNCHANGED backups
  BY Zenon DEF CallFails
<1>3. Leaves(w)
  <2>1. CASE worker[w].pc \in {"us.get", "us.put", "us.svc", "us.svc2"}
             /\ Return(w, worker[w])
    <3>1. worker[w].op \notin DeleteOps
      BY <2>1, OutsideDelete
    <3>2. QED
      BY <1>1, <2>1, <3>1, ReturnLeaves
  <2>2. QED
    BY <2>1, EndLeaves, Zenon DEF CallFails
<1>4. CASE UNCHANGED inst
  BY <1>2, <1>3, <1>4, LeavesSafe
<1>5. CASE inst' = [i \in Instances |->
             IF inst[i].by = w THEN [inst[i] EXCEPT !.by = NoWorker] ELSE inst[i]]
  <2>1. ASSUME NEW i \in Instances
        PROVE  /\ inst'[i].phase = inst[i].phase /\ inst'[i].job = inst[i].job
               /\ \/ inst'[i].by = inst[i].by
                  \/ inst[i].by \notin Workers \ {w} /\ inst'[i].by = NoWorker
    <3>1. CASE inst[i].by = w
      <4>1. inst'[i] = [inst[i] EXCEPT !.by = NoWorker] /\ inst[i] \in Instance
        BY <1>5, <3>1 DEF BackupInv, TypeOK
      <4>2. /\ inst'[i].phase = inst[i].phase /\ inst'[i].job = inst[i].job
            /\ inst'[i].by = NoWorker
        BY <4>1, Zenon DEF Instance
      <4>3. QED
        BY <3>1, <4>2
    <3>2. CASE inst[i].by # w
      BY <1>5, <3>2
    <3>3. QED
      BY <3>1, <3>2
  <2>2. QED
    BY <1>2, <1>3, <2>1, LeavesFacts, SameJobsSafe
<1>6. QED
  BY <1>4, <1>5, Zenon DEF CallFails

LEMMA ChangeSqlUserSafe ==
  ASSUME BackupInv, TypeOK', NEW w \in Workers, ChangeSqlUser(w)
  PROVE  BackupInv'
<1> DEFINE o == worker[w].obj
<1>1. CASE Fail(w) /\ UNCHANGED inst
  BY <1>1, EndSafe, Zenon DEF ChangeSqlUser
<1>2. CASE Restarted
  BY <1>2, RestartSafe
<1>3. CASE /\ \E i \in Live :
                inst' = [inst EXCEPT ![i].users = TRUE, ![i].schemas = @ \cup o.dbs]
           /\ Proceed(w, worker[w])
  <2>1. PICK i \in Instances :
          inst' = [inst EXCEPT ![i].users = TRUE, ![i].schemas = @ \cup o.dbs]
    BY <1>3 DEF Live
  <2>2. ASSUME NEW j \in Instances
        PROVE  /\ inst'[j].phase = inst[j].phase /\ inst'[j].job = inst[j].job
               /\ inst'[j].by = inst[j].by
    <3>1. inst[j] \in Instance
      BY DEF BackupInv, TypeOK
    <3>2. inst'[j] = IF j = i THEN [inst[i] EXCEPT !.users = TRUE,
                                                   !.schemas = @ \cup o.dbs]
                     ELSE inst[j]
      BY <2>1, Zenon DEF BackupInv, TypeOK
    <3>3. CASE j = i
      BY <3>1, <3>2, <3>3, Zenon DEF Instance
    <3>4. CASE j # i
      BY <3>2, <3>4, Zenon
    <3>5. QED
      BY <3>3, <3>4
  <2>3. Leaves(w)
    BY <1>3, ProceedLeaves DEF BackupInv, TypeOK
  <2>4. UNCHANGED backups
    BY Zenon DEF ChangeSqlUser
  <2>5. QED
    BY <2>2, <2>3, <2>4, LeavesFacts, SameJobsSafe
<1>4. QED
  BY <1>1, <1>2, <1>3, Zenon DEF ChangeSqlUser


LEMMA JobDoneSafe ==
  ASSUME BackupInv, TypeOK', NEW i \in Instances, JobDone(i)
  PROVE  BackupInv'
<1>1. worker' = worker /\ backups \subseteq backups'
  BY Zenon DEF JobDone
<1>2. \A j \in Instances \ {i} : inst'[j] = inst[j]
  BY Zenon DEF JobDone, BackupInv, TypeOK
<1>3. inst[i].job = "backup" => i \in backups'
  BY Zenon DEF JobDone
<1>4. /\ inst'[i].job = "none" /\ inst'[i].by = NoWorker
      /\ inst'[i].phase = IF inst[i].job = "delete" THEN "gone" ELSE inst[i].phase
  <2>1. inst[i] \in Instance /\
        inst'[i] = [inst[i] EXCEPT
           !.phase = IF inst[i].job = "delete" THEN "gone" ELSE @,
           !.vol = inst[i].toVol, !.flavor = inst[i].toFlavor,
           !.ip = IF inst[i].job = "create" THEN i ELSE @,
           !.job = "none", !.by = NoWorker]
    BY Zenon DEF JobDone, BackupInv, TypeOK
  <2>2. QED
    BY <2>1, Zenon DEF Instance
<1>5. \A v \in Workers : HandlerSafe(v)'
  BY <1>1, <1>2, <1>3, OthersSafe
<1>6. ASSUME NEW j \in Instances PROVE InstanceSafe(j)'
  <2>1. CASE j = i
    BY <1>1, <1>4, <2>1, Zenon DEF InstanceSafe, BackupInv
  <2>2. CASE j # i
    BY <1>1, <1>2, <2>2, Zenon DEF InstanceSafe, BackupInv
  <2>3. QED
    BY <2>1, <2>2
<1>7. QED
  BY <1>5, <1>6, Zenon DEF BackupInv

\* A failed backup is not taken for a completed one.
LEMMA JobFailsSafe ==
  ASSUME BackupInv, TypeOK', NEW i \in Instances, JobFails(i)
  PROVE  BackupInv'
<1> DEFINE w == inst[i].by
<1>1. UNCHANGED backups
  BY Zenon DEF JobFails
<1>2. \A j \in Instances \ {i} : inst'[j] = inst[j]
  BY Zenon DEF JobFails, BackupInv, TypeOK
<1>3. /\ inst'[i].job = "none" /\ inst'[i].by = NoWorker
      /\ inst'[i].phase = inst[i].phase
  <2>1. inst[i] \in Instance /\
        inst'[i] = [inst[i] EXCEPT !.toVol = inst[i].vol, !.toFlavor = inst[i].flavor,
                                   !.job = "none", !.by = NoWorker]
    BY Zenon DEF JobFails, BackupInv, TypeOK
  <2>2. QED
    BY <2>1, Zenon DEF Instance
<1>4. \A v \in Workers \ {w} : worker'[v] = worker[v]
  BY Zenon DEF JobFails, BackupInv, TypeOK
<1>5. \A v \in Workers \ {w} : HandlerSafe(v)'
  BY <1>1, <1>2, <1>4, OthersSafe
<1>6. ASSUME NEW v \in Workers, v = w PROVE HandlerSafe(v)'
  <2>1. worker' = [worker EXCEPT ![v].pc = "failed"] /\ worker[v] \in Worker
    BY <1>6, NoWorkerIsNone, Zenon DEF JobFails, BackupInv, TypeOK
  <2>2. worker'[v] = [worker[v] EXCEPT !.pc = "failed"]
    BY <2>1, Zenon DEF BackupInv, TypeOK
  <2>3. worker'[v].pc = "failed"
    BY <2>1, <2>2, Zenon DEF Worker
  <2>4. QED
    BY <2>3, Zenon DEF HandlerSafe, At
<1>7. ASSUME NEW j \in Instances PROVE InstanceSafe(j)'
  <2>1. CASE j = i
    BY <1>1, <1>3, <2>1, Zenon DEF InstanceSafe, BackupInv
  <2>2. CASE j # i
    BY <1>1, <1>2, <2>2, Zenon DEF InstanceSafe, BackupInv
  <2>3. QED
    BY <2>1, <2>2
<1> HIDE DEF w
<1>8. \A v \in Workers : HandlerSafe(v)'
  BY <1>5, <1>6
<1>9. QED
  BY <1>7, <1>8, Zenon DEF BackupInv

LEMMA WorldSafe ==
  ASSUME BackupInv, TypeOK',
         \/ UserCreate \/ UserDelete \/ Resync \/ UNCHANGED vars
         \/ \E kind \in EditKinds : UserEdit(kind)
         \/ \E i \in 1..Len(delayed) : Requeue(i)
         \/ \E i \in Instances : MoveIp(i)
  PROVE  BackupInv'
<1>1. worker' = worker /\ backups' = backups
  BY Zenon
  DEF UserCreate, UserDelete, Resync, UserEdit, Requeue, MoveIp, vars, cloud
<1>2. ASSUME NEW j \in Instances
      PROVE  /\ inst'[j].phase = inst[j].phase /\ inst'[j].job = inst[j].job
             /\ inst'[j].by = inst[j].by
  <2>1. CASE inst' = inst
    BY <2>1
  <2>2. CASE \E i \in Instances : inst' = [inst EXCEPT ![i].ip = MovedIp]
    <3>1. PICK i \in Instances : inst' = [inst EXCEPT ![i].ip = MovedIp]
      BY <2>2
    <3>2. inst[j] \in Instance /\
          inst'[j] = IF j = i THEN [inst[j] EXCEPT !.ip = MovedIp] ELSE inst[j]
      BY <3>1, Zenon DEF BackupInv, TypeOK
    <3>3. QED
      BY <3>2, Zenon DEF Instance
  <2>3. QED
    BY <2>1, <2>2, Zenon
    DEF UserCreate, UserDelete, Resync, UserEdit, Requeue, MoveIp, vars, cloud
<1>3. QED
  BY <1>1, <1>2, SameJobsSafe

------------------------------------------------------------------------------
LEMMA InitSafe == Init => BackupInv
<1> SUFFICES ASSUME Init PROVE BackupInv
  OBVIOUS
<1>1. ASSUME NEW w \in Workers PROVE HandlerSafe(w)
  <2>1. worker[w].op = "none"
    BY DEF Init, IdleWorker
  <2>2. QED
    BY <2>1, SMT DEF HandlerSafe, At, DeleteOps
<1>2. ASSUME NEW i \in Instances PROVE InstanceSafe(i)
  <2>1. inst[i] = Unborn \/ inst[i] = Running
    BY DEF Init, Begins
  <2>2. inst[i].job = "none" /\ inst[i].by = NoWorker /\ inst[i].phase # "gone"
    <3>1. Unborn.job = "none" /\ Unborn.by = NoWorker /\ Unborn.phase = "unborn"
      BY DEF Unborn
    <3>2. Running.job = "none" /\ Running.by = NoWorker /\ Running.phase = "live"
      BY <3>1, UnbornType, Zenon DEF Running, Instance
    <3>3. QED
      BY <2>1, <3>1, <3>2
  <2>3. QED
    BY <2>2, SMT DEF InstanceSafe
<1>3. QED
  BY <1>1, <1>2, InitType DEF BackupInv

LEMMA NextSafe == BackupInv /\ [Next]_vars => BackupInv'
<1> SUFFICES ASSUME BackupInv, [Next]_vars PROVE BackupInv'
  OBVIOUS
<1> TypeOK'
  BY NextType DEF BackupInv
<1>1. ASSUME NEW w \in Workers, Step(w) PROVE BackupInv'
  BY <1>1, TakeSafe, StatusSafe, GetByIdSafe, PlainStepSafe, CreateInstanceSafe,
     DecideSafe, CallCloudSafe, ChangeSqlUserSafe, DeleteAlarmsSafe,
     BackupOrDeleteSafe, BackupDoneSafe, DeletedSafe
  DEF Step, Create, Update, Delete
<1>2. ASSUME NEW w \in Workers, CallFails(w) \/ AnswerLost(w) PROVE BackupInv'
  BY <1>2, CallFailsSafe, AnswerLostSafe
<1>3. CASE Environment
  BY <1>3, JobDoneSafe, JobFailsSafe, WorldSafe, RestartSafe DEF Environment, Crash
<1>4. QED
  BY <1>1, <1>2, <1>3, WorldSafe DEF Next

\* The invariant a handler relies on while others work on its instance.
THEOREM BackupInvariant == Spec => []BackupInv
<1>1. QED
  BY InitSafe, NextSafe, PTL DEF Spec

\* For any number of workers, instances, edits, failing jobs, lost answers and
\* crashes: rdsDelete never deletes an instance without a completed backup.
THEOREM BackupFirst == Spec => []BackupBeforeDelete
<1>1. BackupInv => BackupBeforeDelete
  BY DEF BackupInv, InstanceSafe, BackupBeforeDelete
<1>2. QED
  BY <1>1, BackupInvariant, PTL
==============================================================================
