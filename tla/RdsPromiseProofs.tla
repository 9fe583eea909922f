--------------------------- MODULE RdsPromiseProofs ---------------------------
(***************************************************************************)
(* The operator keeps the promise of RdsLifecycle, for every value of the  *)
(* constants.  Over BackupInv this needs to know which ids the delete      *)
(* events carry, in the queue, in the rate limiter and in the handlers:    *)
(* CondemnedInv.                                                           *)
(***************************************************************************)
EXTENDS RdsBackupProofs

\* Ids that a handler may delete, and the id of a resource that has none.
Doomed == condemned \cup {NoId}

Harmless == {e \in Event : e.type = "delRds" => e.new.id \in Doomed}

\* A handler of another event is outside of the delete stages, so that nothing
\* else comes to be retried as a deletion.
Loyal(me) ==
    /\ me.ev.type = "delRds" => me.op \in DeleteOps /\ me.ev.new.id \in Doomed
    /\ me.op \in DeleteOps => me.obj.id \in Doomed

Ending(i) == inst[i].job \in {"backup", "delete"} \/ inst[i].phase = "gone"

CondemnedInv ==
    /\ BackupInv
    /\ queue \in Seq(Harmless) /\ delayed \in Seq(Harmless)
    /\ \A w \in Workers : Loyal(worker[w])
    /\ \A i \in Instances : Ending(i) => i \in condemned

------------------------------------------------------------------------------
\* What a step does to the instances, all that matters to the promise.

Others(i) ==
    \A j \in Instances \ {i} :
        inst'[j].phase = inst[j].phase /\ inst'[j].job = inst[j].job

Same ==
    /\ \A j \in Instances : inst'[j].phase = inst[j].phase /\ inst'[j].job = inst[j].job
    /\ backups' = backups

Born(i) ==
    /\ NewId(i) /\ Others(i) /\ backups' = backups
    /\ inst'[i].phase = "live" /\ inst'[i].job = "create"

Started(i, kind) ==
    /\ inst[i].phase = "live" /\ inst[i].job = "none"
    /\ inst'[i].phase = "live" /\ inst'[i].job = kind
    /\ Others(i) /\ backups' = backups

Ended(i) ==
    /\ inst[i].job # "none" /\ inst'[i].job = "none" /\ Others(i)
    /\ inst'[i].phase = IF inst[i].job = "delete" THEN "gone" ELSE inst[i].phase
    /\ backups' = IF inst[i].job = "backup" THEN backups \cup {i} ELSE backups

Failed(i) ==
    /\ inst[i].job # "none" /\ inst'[i].job = "none" /\ Others(i)
    /\ inst'[i].phase = inst[i].phase /\ backups' = backups

\* The delete handler's calls, and the others'.
Calls ==
    \/ \E i \in Instances, kind \in Jobs \ {"none", "backup", "delete"} : Started(i, kind)
    \/ \E w \in Workers :
         /\ worker[w].op \in {"backup", "delete"}
         /\ worker[w].pc = "call"
         /\ MyId(w) \in Instances
         /\ Started(MyId(w), worker[w].op)

Creates(w) == At(w, "create", "call") /\ (CreateInstance(w) \/ AnswerLost(w))

InstanceStep ==
    \/ Same \/ Calls
    \/ \E i \in Instances : Ended(i) \/ Failed(i)
    \/ \E i \in Instances, w \in Workers : Born(i) /\ Creates(w)

LEMMA StartFacts ==
  ASSUME TypeOK, NEW w \in Workers, NEW by, NEW kind, NEW vol, NEW flavor,
         StartJob(w, by, kind, vol, flavor), UNCHANGED backups
  PROVE  MyId(w) \in Instances /\ Started(MyId(w), kind)
<1> DEFINE i == MyId(w)
<1>1. i \in Instances /\ inst[i].phase = "live" /\ inst[i].job = "none"
  BY Zenon DEF StartJob, Accepts, Live
<1>2. inst'[i].phase = "live" /\ inst'[i].job = kind
  BY <1>1, Zenon DEF StartJob, TypeOK, Instance
<1>3. \A j \in Instances \ {i} : inst'[j] = inst[j]
  BY <1>1, Zenon DEF StartJob, TypeOK
<1>4. QED
  BY <1>1, <1>2, <1>3, Zenon DEF Started, Others

LEMMA UpdateCallStep ==
  ASSUME TypeOK, NEW w \in Workers, NEW by, UpdateCall(w, by), UNCHANGED backups
  PROVE  Calls
<1>1. {"enlarge", "resize", "restart", "restore"} \subseteq Jobs \ {"none", "backup", "delete"}
  BY DEF Jobs
<1>2. PICK kind \in {"enlarge", "resize", "restart", "restore"} : \E vol, flavor :
        StartJob(w, by, kind, vol, flavor)
  BY Zenon DEF UpdateCall, Enlarge, Resize, Restart, Restore
<1>3. MyId(w) \in Instances /\ Started(MyId(w), kind)
  BY <1>2, StartFacts
<1>4. QED
  BY <1>1, <1>3, Zenon DEF Calls

LEMMA DeleteCallStep ==
  ASSUME TypeOK, NEW w \in Workers, NEW by, DeleteCall(w, by), UNCHANGED backups
  PROVE  Calls
<1>1. StartJob(w, by, worker[w].op, inst[MyId(w)].vol, inst[MyId(w)].flavor)
  BY DEF DeleteCall
<1>2. MyId(w) \in Instances /\ Started(MyId(w), worker[w].op)
  BY <1>1, StartFacts
<1>3. worker[w].op \in {"backup", "delete"} /\ worker[w].pc = "call"
  BY Zenon DEF DeleteCall
<1>4. QED
  BY <1>2, <1>3, Zenon DEF Calls

LEMMA CreateCallStep ==
  ASSUME TypeOK, NEW w \in Workers, NEW by, CreateCall(w, by), UNCHANGED backups
  PROVE  \E i \in Instances : Born(i)
<1>1. PICK i \in Instances : NewId(i) /\ Provision(i, worker[w].obj, by)
  BY DEF CreateCall
<1> DEFINE u == [Unborn EXCEPT
      !.phase = "live", !.job = "create", !.by = by,
      !.vol = worker[w].obj.vol, !.flavor = worker[w].obj.flavor,
      !.toVol = worker[w].obj.vol, !.toFlavor = worker[w].obj.flavor]
<1>2. inst'[i] = u /\ \A j \in Instances \ {i} : inst'[j] = inst[j]
  BY <1>1, Zenon DEF Provision, TypeOK
<1>3. u.phase = "live" /\ u.job = "create"
  BY UnbornType, Zenon DEF Instance
<1> HIDE DEF u
<1>4. QED
  BY <1>1, <1>2, <1>3, Zenon DEF Born, Others

\* Steps that touch neither phase nor job of an instance.
LEMMA UnchangedSame ==
  ASSUME UNCHANGED <<inst, backups>>
  PROVE  Same
BY Zenon DEF Same

LEMMA RestartedSame ==
  ASSUME TypeOK, Restarted
  PROVE  Same
<1>1. ASSUME NEW j \in Instances
      PROVE  inst'[j].phase = inst[j].phase /\ inst'[j].job = inst[j].job
  <2>1. inst[j] \in Instance /\ inst'[j] = [inst[j] EXCEPT !.by = NoWorker]
    BY DEF Restarted, TypeOK
  <2>2. QED
    BY <2>1, Zenon DEF Instance
<1>2. QED
  BY <1>1, Zenon DEF Same, Restarted

LEMMA CallFailsSame ==
  ASSUME TypeOK, NEW w \in Workers, CallFails(w)
  PROVE  Same
<1>1. CASE UNCHANGED inst
  BY <1>1, Zenon DEF CallFails, Same
<1>2. CASE inst' = [i \in Instances |->
             IF inst[i].by = w THEN [inst[i] EXCEPT !.by = NoWorker] ELSE inst[i]]
  <2>1. ASSUME NEW j \in Instances
        PROVE  inst'[j].phase = inst[j].phase /\ inst'[j].job = inst[j].job
    <3>1. CASE inst[j].by = w
      <4>1. inst'[j] = [inst[j] EXCEPT !.by = NoWorker] /\ inst[j] \in Instance
        BY <1>2, <3>1 DEF TypeOK
      <4>2. QED
        BY <4>1, Zenon DEF Instance
    <3>2. CASE inst[j].by # w
      BY <1>2, <3>2
    <3>3. QED
      BY <3>1, <3>2
  <2>2. QED
    BY <2>1, Zenon DEF Same, CallFails
<1>3. QED
  BY <1>1, <1>2, Zenon DEF CallFails

LEMMA ChangeSqlUserSame ==
  ASSUME TypeOK, NEW w \in Workers, ChangeSqlUser(w)
  PROVE  Same
<1> DEFINE o == worker[w].obj
<1>1. CASE UNCHANGED inst
  BY <1>1, Zenon DEF ChangeSqlUser, Same
<1>2. CASE Restarted
  BY <1>2, RestartedSame
<1>3. CASE \E i \in Live :
              inst' = [inst EXCEPT ![i].users = TRUE, ![i].schemas = @ \cup o.dbs]
  <2>1. PICK i \in Instances :
          inst' = [inst EXCEPT ![i].users = TRUE, ![i].schemas = @ \cup o.dbs]
    BY <1>3 DEF Live
  <2>2. ASSUME NEW j \in Instances
        PROVE  inst'[j].phase = inst[j].phase /\ inst'[j].job = inst[j].job
    <3>1. inst[j] \in Instance
      BY DEF TypeOK
    <3>2. inst'[j] = IF j = i THEN [inst[i] EXCEPT !.users = TRUE,
                                                   !.schemas = @ \cup o.dbs]
                     ELSE inst[j]
      BY <2>1, Zenon DEF TypeOK
    <3>3. CASE j = i
      BY <3>1, <3>2, <3>3, Zenon DEF Instance
    <3>4. CASE j # i
      BY <3>2, <3>4, Zenon
    <3>5. QED
      BY <3>3, <3>4
  <2>3. QED
    BY <2>2, Zenon DEF Same, ChangeSqlUser
<1>4. QED
  BY <1>1, <1>2, <1>3, Zenon DEF ChangeSqlUser

LEMMA MoveIpSame ==
  ASSUME TypeOK, NEW i \in Instances, MoveIp(i)
  PROVE  Same
<1>1. ASSUME NEW j \in Instances
      PROVE  inst'[j].phase = inst[j].phase /\ inst'[j].job = inst[j].job
  <2>1. inst[j] \in Instance /\
        inst'[j] = IF j = i THEN [inst[j] EXCEPT !.ip = MovedIp] ELSE inst[j]
    BY Zenon DEF MoveIp, TypeOK
  <2>2. QED
    BY <2>1, Zenon DEF Instance
<1>2. QED
  BY <1>1, Zenon DEF Same, MoveIp

LEMMA JobDoneEnded ==
  ASSUME TypeOK, NEW i \in Instances, JobDone(i)
  PROVE  Ended(i)
<1>1. \A j \in Instances \ {i} : inst'[j] = inst[j]
  BY Zenon DEF JobDone, TypeOK
<1>2. /\ inst'[i].job = "none"
      /\ inst'[i].phase = IF inst[i].job = "delete" THEN "gone" ELSE inst[i].phase
  <2>1. inst[i] \in Instance /\
        inst'[i] = [inst[i] EXCEPT
           !.phase = IF inst[i].job = "delete" THEN "gone" ELSE @,
           !.vol = inst[i].toVol, !.flavor = inst[i].toFlavor,
           !.ip = IF inst[i].job = "create" THEN i ELSE @,
           !.job = "none", !.by = NoWorker]
    BY Zenon DEF JobDone, TypeOK
  <2>2. QED
    BY <2>1, Zenon DEF Instance
<1>3. QED
  BY <1>1, <1>2, Zenon DEF JobDone, Ended, Others

LEMMA JobFailsFailed ==
  ASSUME TypeOK, NEW i \in Instances, JobFails(i)
  PROVE  Failed(i)
<1>1. \A j \in Instances \ {i} : inst'[j] = inst[j]
  BY Zenon DEF JobFails, TypeOK
<1>2. inst'[i].job = "none" /\ inst'[i].phase = inst[i].phase
  <2>1. inst[i] \in Instance /\
        inst'[i] = [inst[i] EXCEPT !.toVol = inst[i].vol, !.toFlavor = inst[i].flavor,
                                   !.job = "none", !.by = NoWorker]
    BY Zenon DEF JobFails, TypeOK
  <2>2. QED
    BY <2>1, Zenon DEF Instance
<1>3. inst[i].job # "none" /\ UNCHANGED backups
  BY Zenon DEF JobFails
<1>4. QED
  BY <1>1, <1>2, <1>3, Zenon DEF Failed, Others

\* Whatever happens is one of these steps of the instances.
LEMMA StepInstances ==
  ASSUME TypeOK, [Next]_vars
  PROVE  InstanceStep
<1>1. ASSUME NEW w \in Workers, Step(w) PROVE InstanceStep
  <2>1. CASE UNCHANGED <<inst, backups>>
    BY <2>1, UnchangedSame DEF InstanceStep
  <2>2. CASE Restarted
    BY <2>2, RestartedSame DEF InstanceStep
  <2>3. CASE Take(w) \/ UpdateStatus(w) \/ GetById(w) \/ JobFailed(w)
    BY <2>1, <2>2, <2>3, Zenon
    DEF Take, UpdateStatus, StatusGet, StatusPut, StatusEndpoints, StatusService,
        GetById, JobFailed, cloud
  <2>4. CASE Create(w)
    <3>1. CASE CreateInstance(w) /\ CreateCall(w, w)
      <4>1. \E i \in Instances : Born(i)
        BY <3>1, CreateCallStep, Zenon DEF CreateInstance
      <4>2. Creates(w)
        BY <3>1, Zenon DEF Creates, CreateCall
      <4>3. QED
        BY <4>1, <4>2, Zenon DEF InstanceStep
    <3>2. QED
      BY <2>1, <2>4, <3>1, Zenon
      DEF Create, CheckExists, CreateInstance, Created, cloud
  <2>5. CASE Update(w)
    BY <2>1, <2>2, <2>5, UpdateCallStep, ChangeSqlUserSame, Zenon
    DEF Update, Decide, CallCloud, Updated, FetchLogs, SetAutopilot, cloud,
        InstanceStep
  <2>6. CASE Delete(w)
    BY <2>1, <2>6, DeleteCallStep, Zenon
    DEF Delete, DeleteAlarms, BackupOrDelete, BackupDone, Deleted, DeleteService,
        cloud, InstanceStep
  <2>7. QED
    BY <1>1, <2>3, <2>4, <2>5, <2>6 DEF Step
<1>2. ASSUME NEW w \in Workers, CallFails(w) \/ AnswerLost(w) PROVE InstanceStep
  <2>1. CASE AnswerLost(w) /\ CreateCall(w, NoWorker)
    <3>1. \E i \in Instances : Born(i)
      BY <2>1, CreateCallStep, Zenon DEF AnswerLost
    <3>2. Creates(w)
      BY <2>1, Zenon DEF Creates, CreateCall
    <3>3. QED
      BY <3>1, <3>2, Zenon DEF InstanceStep
  <2>2. QED
    BY <1>2, <2>1, CallFailsSame, UpdateCallStep, DeleteCallStep, Zenon
    DEF AnswerLost, InstanceStep
<1>3. CASE Environment
  <2>1. CASE UserCreate \/ UserDelete \/ Resync \/ \E kind \in EditKinds : UserEdit(kind)
    BY <2>1, UnchangedSame, Zenon
    DEF UserCreate, UserDelete, Resync, UserEdit, cloud, InstanceStep
  <2>2. QED
    BY <1>3, <2>1, JobDoneEnded, JobFailsFailed, MoveIpSame, RestartedSame
    DEF Environment, Crash, InstanceStep
<1>4. CASE UNCHANGED vars \/ \E i \in 1..Len(delayed) : Requeue(i)
  BY <1>4, UnchangedSame, Zenon DEF vars, cloud, Requeue, InstanceStep
<1>5. QED
  BY <1>1, <1>2, <1>3, <1>4 DEF Next

------------------------------------------------------------------------------
\* The handlers.

\* A worker outside of the deletion, of an event that is none.
Free(me) == me.ev.type # "delRds" /\ me.op \notin DeleteOps
Frees(w) == \E me \in Worker : Free(me) /\ Become(w, me)

\* All workers are loyal after a step of one of them.
AllLoyal == \A w \in Workers : Loyal(worker[w])

LEMMA DoomedGrows ==
  ASSUME condemned \subseteq condemned'
  PROVE  Doomed \subseteq Doomed'
BY Zenon DEF Doomed

LEMMA BecomeLoyal ==
  ASSUME CondemnedInv, Doomed \subseteq Doomed', NEW w \in Workers,
         NEW me, Loyal(me), Become(w, me)
  PROVE  AllLoyal'
<1>1. worker'[w] = me /\ \A v \in Workers \ {w} : worker'[v] = worker[v]
  BY Zenon DEF Become, CondemnedInv, BackupInv, TypeOK
<1>2. ASSUME NEW v \in Workers PROVE Loyal(worker[v])'
  <2>1. Loyal(worker'[v])
    BY <1>1, Zenon DEF CondemnedInv
  <2>2. QED
    BY <2>1, Zenon DEF Loyal
<1>3. QED
  BY <1>2 DEF AllLoyal

LEMMA FreesLoyal ==
  ASSUME CondemnedInv, Doomed \subseteq Doomed', NEW w \in Workers, Frees(w)
  PROVE  AllLoyal'
<1>1. PICK me \in Worker : Free(me) /\ Become(w, me)
  BY DEF Frees
<1>2. Loyal(me)
  BY <1>1, Zenon DEF Free, Loyal
<1>3. QED
  BY <1>1, <1>2, BecomeLoyal

LEMMA SameLoyal ==
  ASSUME CondemnedInv, Doomed \subseteq Doomed', worker' = worker
  PROVE  AllLoyal'
BY Zenon DEF AllLoyal, Loyal, CondemnedInv

LEMMA IdleFrees ==
  ASSUME NEW w \in Workers, Become(w, IdleWorker)
  PROVE  Frees(w)
<1>1. IdleWorker.op = "none" /\ IdleWorker.ev.type = "addRds"
  BY DEF IdleWorker, AddEvent
<1>2. Free(IdleWorker)
  BY <1>1, SMT DEF Free, DeleteOps
<1>3. QED
  BY <1>2, IdleWorkerType, Zenon DEF Frees

LEMMA EndFrees ==
  ASSUME NEW w \in Workers, NEW e, Finish(w) \/ Retry(w, e) \/ Fail(w)
  PROVE  Frees(w)
BY IdleFrees, Zenon DEF Finish, Retry, Fail

LEMMA RestartedLoyal ==
  ASSUME Restarted
  PROVE  AllLoyal'
<1>1. IdleWorker.op = "none" /\ IdleWorker.ev.type = "addRds"
  BY DEF IdleWorker, AddEvent
<1>2. ASSUME NEW w \in Workers PROVE Loyal(worker[w])'
  <2>1. worker'[w] = IdleWorker
    BY DEF Restarted
  <2>2. QED
    BY <1>1, <2>1, Zenon DEF Loyal, DeleteOps
<1>3. QED
  BY <1>2 DEF AllLoyal

LEMMA OutsideFree ==
  ASSUME CondemnedInv, NEW w \in Workers, worker[w].op \notin DeleteOps
  PROVE  Free(worker[w]) /\ worker[w] \in Worker
BY Zenon DEF CondemnedInv, Loyal, Free, BackupInv, TypeOK

LEMMA ProceedFrees ==
  ASSUME NEW w \in Workers, NEW me \in Worker, Free(me), Proceed(w, me)
  PROVE  Frees(w)
<1>1. CASE Become(w, IdleWorker)
  BY <1>1, IdleFrees
<1>2. CASE \E op \in UpdateOps : Become(w, Enter(me, op))
  <2>1. PICK op \in UpdateOps : Become(w, Enter(me, op))
    BY <1>2
  <2>2. /\ Enter(me, op) \in Worker /\ Enter(me, op).op = op
        /\ Enter(me, op).ev = me.ev
    BY EnterType, Zenon DEF Enter, Worker
  <2>3. op \notin DeleteOps
    BY Zenon DEF DeleteOps, UpdateOps
  <2>4. Free(Enter(me, op))
    BY <2>2, <2>3, Zenon DEF Free
  <2>5. QED
    BY <2>1, <2>2, <2>4, Zenon DEF Frees
<1>3. QED
  BY <1>1, <1>2 DEF Proceed

\* The worker keeps its event and its stage.
LEMMA KeepFrees ==
  ASSUME CondemnedInv, NEW w \in Workers, worker[w].op \notin DeleteOps,
         NEW me \in Worker, me.op = worker[w].op, me.ev = worker[w].ev, Become(w, me)
  PROVE  Frees(w)
BY OutsideFree, Zenon DEF Free, Frees

LEMMA GotoFrees ==
  ASSUME CondemnedInv, NEW w \in Workers, worker[w].op \notin DeleteOps,
         NEW pc \in Pcs, Goto(w, pc)
  PROVE  Frees(w)
<1> DEFINE me == [worker[w] EXCEPT !.pc = pc]
<1>1. me \in Worker /\ me.op = worker[w].op /\ me.ev = worker[w].ev
  BY OutsideFree, Zenon DEF Worker
<1>2. Become(w, me)
  BY DEF Goto
<1> HIDE DEF me
<1>3. QED
  BY <1>1, <1>2, KeepFrees

LEMMA ReturnFrees ==
  ASSUME CondemnedInv, NEW w \in Workers, worker[w].op \notin DeleteOps,
         Return(w, worker[w])
  PROVE  Frees(w)
<1>1. CASE worker[w].ret = "next"
  BY <1>1, OutsideFree, ProceedFrees DEF Return
<1>2. CASE worker[w].ret # "next"
  <2>1. worker[w].ret \in Pcs
    BY <1>2, OutsideFree, SMT DEF Worker, Pcs
  <2>2. Goto(w, worker[w].ret)
    BY <1>2 DEF Return, Goto
  <2>3. QED
    BY <2>1, <2>2, GotoFrees
<1>3. QED
  BY <1>1, <1>2

LEMMA TakeLoyal ==
  ASSUME CondemnedInv, Doomed \subseteq Doomed', NEW w \in Workers, Take(w)
  PROVE  AllLoyal'
<1> DEFINE e == Head(queue)
           me == Begin(e)
<1>1. queue \in Seq(Harmless) /\ queue # <<>>
  BY DEF Take, CondemnedInv
<1>2. e \in Harmless
  BY <1>1, HeadTailProperties
<1>3. e \in Event /\ (e.type = "delRds" => e.new.id \in Doomed)
  BY <1>2 DEF Harmless
<1>4. e.type \in {"addRds", "updateRds", "delRds"}
  BY <1>3, Zenon DEF Event
<1>5. me.ev = e /\ me.obj = e.new
  BY DEF Begin
<1>6. /\ e.type = "delRds" => me.op = "alarms"
      /\ e.type # "delRds" => me.op \in {"create", "read"}
  BY <1>4, SMT DEF Begin
<1> HIDE DEF me, e
<1>7. Loyal(me)
  BY <1>3, <1>5, <1>6, Zenon DEF Loyal, DeleteOps
<1>8. Become(w, me)
  BY DEF Take, me, e
<1>9. QED
  BY <1>7, <1>8, BecomeLoyal

LEMMA StatusFrees ==
  ASSUME CondemnedInv, TypeOK', NEW w \in Workers, UpdateStatus(w), ~Restarted
  PROVE  Frees(w)
<1>1. worker[w].op \notin DeleteOps /\ worker[w] \in Worker
  <2>1. worker[w].pc \in {"us.get", "us.put", "us.svc", "us.svc2"}
    BY Zenon DEF UpdateStatus, StatusGet, StatusPut, StatusEndpoints, StatusService
  <2>2. QED
    BY <2>1, OutsideDelete DEF CondemnedInv, BackupInv, TypeOK
<1>2. CASE Return(w, worker[w])
  BY <1>1, <1>2, ReturnFrees
<1>3. CASE \E pc \in Pcs : Goto(w, pc)
  BY <1>1, <1>3, GotoFrees
<1>4. CASE \E i \in Live :
             Become(w, [worker[w] EXCEPT !.pc = "us.put", !.obj.ip = inst[i].ip,
                                         !.obj.st = InstanceState(i)])
  <2>1. PICK i \in Live :
          Become(w, [worker[w] EXCEPT !.pc = "us.put", !.obj.ip = inst[i].ip,
                                      !.obj.st = InstanceState(i)])
    BY <1>4
  <2> DEFINE me == [worker[w] EXCEPT !.pc = "us.put", !.obj.ip = inst[i].ip,
                                     !.obj.st = InstanceState(i)]
  <2>2. me.op = worker[w].op /\ me.ev = worker[w].ev
    BY <1>1, Zenon DEF Worker
  <2>3. worker'[w] = me /\ worker'[w] \in Worker
    BY <2>1, Zenon DEF Become, CondemnedInv, BackupInv, TypeOK
  <2>4. Become(w, me)
    BY <2>1
  <2> HIDE DEF me
  <2>5. QED
    BY <1>1, <2>2, <2>3, <2>4, KeepFrees
<1>5. {"us.svc", "us.svc2"} \subseteq Pcs
  BY Zenon DEF Pcs
<1>6. QED
  BY <1>2, <1>3, <1>4, <1>5, Zenon
  DEF UpdateStatus, StatusGet, StatusPut, StatusEndpoints, StatusService

LEMMA GetByIdFrees ==
  ASSUME CondemnedInv, TypeOK', NEW w \in Workers, GetById(w), ~Restarted
  PROVE  Frees(w)
<1>1. worker[w].op \notin DeleteOps
  BY OutsideDelete, Zenon DEF GetById, CondemnedInv
<1> DEFINE ret == IF worker[w].pc = "peek" THEN "wait" ELSE "next"
           ip == IF worker[w].op = "create" THEN inst[MyId(w)].ip
                 ELSE worker[w].obj.ip
           me == [worker[w] EXCEPT !.pc = "us.get", !.ret = ret,
                    !.obj.st = InstanceState(MyId(w)), !.obj.ip = ip]
<1>2. Become(w, me)
  BY Zenon DEF GetById
<1>3. me.op = worker[w].op /\ me.ev = worker[w].ev
  <2>1. worker[w] \in Worker
    BY DEF CondemnedInv, BackupInv, TypeOK
  <2>2. QED
    BY <2>1, Zenon DEF Worker
<1> HIDE DEF me
<1>4. worker'[w] = me /\ worker'[w] \in Worker
  BY <1>2, Zenon DEF Become, CondemnedInv, BackupInv, TypeOK
<1>5. QED
  BY <1>1, <1>2, <1>3, <1>4, KeepFrees

LEMMA DecideFrees ==
  ASSUME CondemnedInv, NEW w \in Workers, Decide(w), ~Restarted
  PROVE  Frees(w)
<1> DEFINE me == [worker[w] EXCEPT !.ev.new = worker[w].obj]
<1>1. CASE Finish(w) \/ Retry(w, me.ev)
  <2> HIDE DEF me
  <2>1. QED
    BY <1>1, EndFrees, Zenon
<1>2. CASE \E i \in Live : Proceed(w, [me EXCEPT !.vol = inst[i].vol,
                                                 !.flavor = inst[i].flavor])
  <2>1. worker[w].op \notin DeleteOps
    BY OutsideDelete, Zenon DEF Decide, CondemnedInv
  <2>2. Free(worker[w]) /\ worker[w] \in Worker /\ worker[w].obj \in Object
    BY <2>1, OutsideFree, Zenon DEF Worker
  <2>3. /\ me \in Worker /\ me.op = worker[w].op
        /\ me.ev = [worker[w].ev EXCEPT !.new = worker[w].obj]
    BY <2>2, Zenon DEF Worker, Event
  <2>4. me.ev.type = worker[w].ev.type
    BY <2>2, <2>3, Zenon DEF Worker, Event
  <2> HIDE DEF me
  <2>5. PICK i \in Instances : Proceed(w, [me EXCEPT !.vol = inst[i].vol,
                                                     !.flavor = inst[i].flavor])
    BY <1>2 DEF Live
  <2>6. inst[i].vol \in Volumes /\ inst[i].flavor \in Flavors
    BY Zenon DEF CondemnedInv, BackupInv, TypeOK, Instance
  <2> DEFINE now == [me EXCEPT !.vol = inst[i].vol, !.flavor = inst[i].flavor]
  <2>7. now \in Worker /\ now.op = me.op /\ now.ev = me.ev
    BY <2>3, <2>6, Zenon DEF Worker
  <2>8. Proceed(w, now)
    BY <2>5
  <2> HIDE DEF now
  <2>9. Free(now)
    BY <2>2, <2>3, <2>4, <2>7, Zenon DEF Free
  <2>10. QED
    BY <2>7, <2>8, <2>9, ProceedFrees
<1>3. QED
  BY <1>1, <1>2, Zenon DEF Decide

LEMMA UpdateFrees ==
  ASSUME CondemnedInv, NEW w \in Workers, Update(w), ~Restarted
  PROVE  Frees(w)
<1>1. CASE Decide(w)
  BY <1>1, DecideFrees
<1>2. CASE CallCloud(w)
  <2>1. CASE UpdateCall(w, w) /\ \E pc \in Pcs : Goto(w, pc)
    <3>1. worker[w].op \in {"enlarge", "resize", "restart", "restore"}
      BY <2>1, Zenon DEF UpdateCall, Enlarge, Resize, Restart, Restore, At
    <3>2. worker[w].op \notin DeleteOps
      BY <3>1 DEF DeleteOps
    <3>3. QED
      BY <2>1, <3>2, GotoFrees
  <2>2. QED
    BY <1>2, <2>1, GotoPcs, EndFrees, Zenon DEF CallCloud
<1>3. CASE Updated(w)
  BY <1>3, GotoFrees, GotoPcs, Zenon DEF Updated, DeleteOps
<1>4. CASE FetchLogs(w) \/ SetAutopilot(w)
  BY <1>4, EndFrees, Zenon DEF FetchLogs, SetAutopilot
<1>5. CASE ChangeSqlUser(w)
  <2>1. worker[w].op \notin DeleteOps
    BY <1>5, Zenon DEF ChangeSqlUser, At, DeleteOps
  <2>2. QED
    BY <1>5, <2>1, OutsideFree, ProceedFrees, EndFrees, Zenon DEF ChangeSqlUser
<1>6. QED
  BY <1>1, <1>2, <1>3, <1>4, <1>5 DEF Update

LEMMA CreateFrees ==
  ASSUME CondemnedInv, TypeOK', NEW w \in Workers, Create(w)
  PROVE  Frees(w)
<1>1. CASE CheckExists(w) \/ Created(w)
  BY <1>1, EndFrees, GotoFrees, GotoPcs, Zenon
  DEF CheckExists, Created, At, DeleteOps
<1>2. CASE CreateInstance(w)
  <2>1. CASE Fail(w)
    BY <2>1, EndFrees
  <2>2. CASE \E i \in Instances :
               Become(w, [worker[w] EXCEPT !.pc = "us.get", !.ret = "wait",
                                           !.obj.id = i, !.obj.st = "BUSY"])
    <3>1. PICK i \in Instances :
            Become(w, [worker[w] EXCEPT !.pc = "us.get", !.ret = "wait",
                                        !.obj.id = i, !.obj.st = "BUSY"])
      BY <2>2
    <3> DEFINE me == [worker[w] EXCEPT !.pc = "us.get", !.ret = "wait",
                                       !.obj.id = i, !.obj.st = "BUSY"]
    <3>2. worker[w].op \notin DeleteOps
      BY <1>2, Zenon DEF CreateInstance, CreateCall, At, DeleteOps
    <3>3. me.op = worker[w].op /\ me.ev = worker[w].ev
      BY <3>2, OutsideFree, Zenon DEF Worker
    <3>4. Become(w, me)
      BY <3>1
    <3> HIDE DEF me
    <3>5. worker'[w] = me /\ worker'[w] \in Worker
      BY <3>4, Zenon DEF Become, CondemnedInv, BackupInv, TypeOK
    <3>6. QED
      BY <3>2, <3>3, <3>4, <3>5, KeepFrees
  <2>3. QED
    BY <1>2, <2>1, <2>2, Zenon DEF CreateInstance
<1>3. QED
  BY <1>1, <1>2 DEF Create

\* A deletion that goes on keeps its event and its copy.
LEMMA WithinLoyal ==
  ASSUME CondemnedInv, Doomed \subseteq Doomed', NEW w \in Workers,
         worker[w].op \in DeleteOps,
         NEW me, me.op \in DeleteOps, me.ev = worker[w].ev, me.obj = worker[w].obj,
         Become(w, me)
  PROVE  AllLoyal'
<1>1. Loyal(me)
  BY Zenon DEF Loyal, CondemnedInv
<1>2. QED
  BY <1>1, BecomeLoyal

LEMMA DeleteLoyal ==
  ASSUME CondemnedInv, Doomed \subseteq Doomed', NEW w \in Workers, Delete(w)
  PROVE  AllLoyal'
<1>1. worker[w] \in Worker
  BY DEF CondemnedInv, BackupInv, TypeOK
<1>2. CASE Finish(w) \/ Fail(w)
  BY <1>2, EndFrees, FreesLoyal, Zenon
<1>3. CASE DeleteAlarms(w) /\ Become(w, [worker[w] EXCEPT !.op = "backup"])
  <2> DEFINE me == [worker[w] EXCEPT !.op = "backup"]
  <2>1. me.op \in DeleteOps /\ me.ev = worker[w].ev /\ me.obj = worker[w].obj
    BY <1>1, Zenon DEF Worker, DeleteOps
  <2>2. worker[w].op \in DeleteOps /\ Become(w, me)
    BY <1>3, Zenon DEF DeleteAlarms, At, DeleteOps
  <2> HIDE DEF me
  <2>3. QED
    BY <2>1, <2>2, WithinLoyal
<1>4. CASE BackupDone(w)
  <2> DEFINE me == [worker[w] EXCEPT !.op = "delete", !.pc = "call"]
  <2>1. me.op \in DeleteOps /\ me.ev = worker[w].ev /\ me.obj = worker[w].obj
    BY <1>1, Zenon DEF Worker, DeleteOps
  <2>2. worker[w].op \in DeleteOps /\ Become(w, me)
    BY <1>4, Zenon DEF BackupDone, DeleteOps
  <2> HIDE DEF me
  <2>3. QED
    BY <2>1, <2>2, WithinLoyal
<1>5. CASE Deleted(w)
  <2> DEFINE me == [worker[w] EXCEPT !.op = "service", !.pc = "call"]
  <2>1. me.op \in DeleteOps /\ me.ev = worker[w].ev /\ me.obj = worker[w].obj
    BY <1>1, Zenon DEF Worker, DeleteOps
  <2>2. worker[w].op \in DeleteOps /\ Become(w, me)
    BY <1>5, Zenon DEF Deleted, DeleteOps
  <2> HIDE DEF me
  <2>3. QED
    BY <2>1, <2>2, WithinLoyal
<1>6. CASE DeleteCall(w, w) /\ Goto(w, "wait")
  <2> DEFINE me == [worker[w] EXCEPT !.pc = "wait"]
  <2>1. me.op = worker[w].op /\ me.ev = worker[w].ev /\ me.obj = worker[w].obj
    BY <1>1, Zenon DEF Worker
  <2>2. worker[w].op \in DeleteOps /\ Become(w, me)
    BY <1>6, Zenon DEF DeleteCall, Goto, DeleteOps
  <2> HIDE DEF me
  <2>3. QED
    BY <2>1, <2>2, WithinLoyal
<1>7. QED
  BY <1>2, <1>3, <1>4, <1>5, <1>6, Zenon
  DEF Delete, DeleteAlarms, BackupOrDelete, DeleteService

LEMMA CallFailsFrees ==
  ASSUME CondemnedInv, NEW w \in Workers, CallFails(w) \/ AnswerLost(w)
  PROVE  Frees(w)
<1>1. CASE worker[w].pc \in {"us.get", "us.put", "us.svc", "us.svc2"}
           /\ Return(w, worker[w])
  <2>1. worker[w].op \notin DeleteOps
    BY <1>1, OutsideDelete DEF CondemnedInv
  <2>2. QED
    BY <1>1, <2>1, ReturnFrees
<1>2. QED
  BY <1>1, EndFrees, Zenon DEF CallFails, AnswerLost

\* The worker that polls a job that fails is told so.
LEMMA JobFailsLoyal ==
  ASSUME CondemnedInv, Doomed \subseteq Doomed', NEW i \in Instances, JobFails(i)
  PROVE  AllLoyal'
<1>1. CASE worker' = worker
  BY <1>1, SameLoyal
<1>2. CASE /\ inst[i].by \in Workers
           /\ worker' = [worker EXCEPT ![inst[i].by].pc = "failed"]
  <2> DEFINE w == inst[i].by
             me == [worker[w] EXCEPT !.pc = "failed"]
  <2>1. w \in Workers /\ Become(w, me)
    BY <1>2, Zenon DEF Become
  <2>2. me.op = worker[w].op /\ me.ev = worker[w].ev /\ me.obj = worker[w].obj
    BY <2>1, Zenon DEF CondemnedInv, BackupInv, TypeOK, Worker
  <2> HIDE DEF me, w
  <2>3. Loyal(me)
    BY <2>1, <2>2, Zenon DEF Loyal, CondemnedInv
  <2>4. QED
    BY <2>1, <2>3, BecomeLoyal
<1>3. QED
  BY <1>1, <1>2, Zenon DEF JobFails

------------------------------------------------------------------------------
\* The queues.

LEMMA HarmlessGrows ==
  ASSUME Doomed \subseteq Doomed', NEW q \in Seq(Harmless)
  PROVE  q \in Seq(Harmless')
<1>1. Harmless \subseteq Harmless'
  BY Zenon DEF Harmless, Event, Object
<1>2. QED
  BY <1>1

\* An event that is no deletion is harmless.
LEMMA StoreHarmless ==
  ASSUME CondemnedInv, Doomed \subseteq Doomed', NEW o \in Object, Store(o)
  PROVE  queue' \in Seq(Harmless')
<1>1. PICK r \in Versions :
        queue' = Append(queue, IF cr = NoObject
                                 THEN AddEvent([o EXCEPT !.rv = r])
                                 ELSE UpdateEvent(cr, [o EXCEPT !.rv = r], FALSE))
  BY DEF Store
<1>2. [o EXCEPT !.rv = r] \in Object
  BY BoundsAreNat, SMT DEF Object, Versions
<1> DEFINE e == IF cr = NoObject
                  THEN AddEvent([o EXCEPT !.rv = r])
                  ELSE UpdateEvent(cr, [o EXCEPT !.rv = r], FALSE)
<1>3. e \in Event
  BY <1>2, EventTypes DEF CondemnedInv, BackupInv, TypeOK
<1>4. e.type # "delRds"
  BY SMT DEF AddEvent, UpdateEvent
<1> HIDE DEF e
<1>5. e \in Harmless'
  BY <1>3, <1>4, Zenon DEF Harmless, Event
<1>6. queue \in Seq(Harmless')
  BY HarmlessGrows DEF CondemnedInv
<1>7. queue' = Append(queue, e)
  BY <1>1 DEF e
<1>8. QED
  BY <1>5, <1>6, <1>7

\* What is retried is an event of the queue, or one that is no deletion.
LEMMA RetryHarmless ==
  ASSUME CondemnedInv, Doomed \subseteq Doomed', NEW w \in Workers,
         NEW e \in Harmless, Retry(w, e)
  PROVE  delayed' \in Seq(Harmless')
<1> DEFINE again == [e EXCEPT !.n = @ + 1]
<1>1. again \in Event /\ again.type = e.type /\ again.new = e.new
  BY SMT DEF Event, Harmless
<1>2. e \in Harmless /\ again \in Harmless
  BY <1>1 DEF Harmless
<1> HIDE DEF again
<1>3. delayed' \in Seq(Harmless)
  <2>1. delayed \in Seq(Harmless)
    BY DEF CondemnedInv
  <2>2. Append(delayed, e) \in Seq(Harmless) /\ Append(delayed, again) \in Seq(Harmless)
    BY <1>2, <2>1
  <2>3. QED
    BY <2>1, <2>2, Zenon DEF Retry, again
<1>4. QED
  BY <1>3, HarmlessGrows

LEMMA EventHarmless ==
  ASSUME CondemnedInv, NEW w \in Workers
  PROVE  worker[w].ev \in Harmless
<1>1. worker[w].ev \in Event
  BY SMT DEF CondemnedInv, BackupInv, TypeOK, Worker
<1>2. QED
  BY <1>1, Zenon DEF CondemnedInv, Loyal, Harmless

LEMMA EndHarmless ==
  ASSUME CondemnedInv, Doomed \subseteq Doomed', NEW w \in Workers,
         Finish(w) \/ Fail(w)
  PROVE  delayed' \in Seq(Harmless')
<1>1. CASE UNCHANGED delayed
  BY <1>1, HarmlessGrows DEF CondemnedInv
<1>2. CASE Retry(w, worker[w].ev)
  BY <1>2, EventHarmless, RetryHarmless
<1>3. QED
  BY <1>1, <1>2 DEF Finish, Fail

LEMMA SameHarmless ==
  ASSUME CondemnedInv, Doomed \subseteq Doomed'
  PROVE  /\ UNCHANGED queue => queue' \in Seq(Harmless')
         /\ UNCHANGED delayed => delayed' \in Seq(Harmless')
BY HarmlessGrows DEF CondemnedInv

LEMMA RestartedHarmless ==
  ASSUME CondemnedInv, Restarted
  PROVE  queue' \in Seq(Harmless') /\ delayed' \in Seq(Harmless')
<1>1. CASE cr = NoObject
  BY <1>1 DEF Restarted
<1>2. CASE cr # NoObject
  <2>1. AddEvent(cr) \in Event
    BY <1>2, EventTypes DEF CondemnedInv, BackupInv, TypeOK
  <2>2. AddEvent(cr).type # "delRds"
    BY DEF AddEvent
  <2>3. AddEvent(cr) \in Harmless'
    BY <2>1, <2>2, Zenon DEF Harmless, Event
  <2>4. <<AddEvent(cr)>> \in Seq(Harmless')
    BY <2>3
  <2>5. QED
    BY <1>2, <2>4 DEF Restarted
<1>3. QED
  BY <1>1, <1>2

Queues == queue \in Seq(Harmless) /\ delayed \in Seq(Harmless)

LEMMA TakeHarmless ==
  ASSUME CondemnedInv, Doomed \subseteq Doomed', NEW w \in Workers, Take(w)
  PROVE  Queues'
<1>1. Tail(queue) \in Seq(Harmless)
  BY HeadTailProperties DEF Take, CondemnedInv
<1>2. queue' \in Seq(Harmless')
  BY <1>1, HarmlessGrows DEF Take
<1>3. QED
  BY <1>2, SameHarmless, Zenon DEF Take, Queues

LEMMA RequeueHarmless ==
  ASSUME CondemnedInv, Doomed \subseteq Doomed', NEW i \in 1..Len(delayed), Requeue(i)
  PROVE  Queues'
<1>1. delayed \in Seq(Harmless) /\ queue \in Seq(Harmless)
  BY DEF CondemnedInv
<1>2. delayed[i] \in Harmless /\ RemoveAt(delayed, i) \in Seq(Harmless)
  BY <1>1, RemoveAtType, ElementOfSeq
<1>3. Append(queue, delayed[i]) \in Seq(Harmless)
  BY <1>1, <1>2
<1>4. queue' \in Seq(Harmless) /\ delayed' \in Seq(Harmless)
  BY <1>2, <1>3 DEF Requeue
<1>5. QED
  BY <1>4, HarmlessGrows DEF Queues

\* Decide retries the copy that the first UpdateStatus changed.
LEMMA DecidedHarmless ==
  ASSUME CondemnedInv, Doomed \subseteq Doomed', NEW w \in Workers,
         worker[w].op \notin DeleteOps,
         Retry(w, [worker[w].ev EXCEPT !.new = worker[w].obj])
  PROVE  delayed' \in Seq(Harmless')
<1> DEFINE e == [worker[w].ev EXCEPT !.new = worker[w].obj]
<1>1. worker[w].ev \in Event /\ worker[w].obj \in Object
  BY Zenon DEF CondemnedInv, BackupInv, TypeOK, Worker
<1>2. e \in Event /\ e.type = worker[w].ev.type
  BY <1>1, Zenon DEF Event
<1>3. e.type # "delRds"
  BY <1>2, OutsideFree DEF Free
<1>4. Retry(w, e)
  OBVIOUS
<1> HIDE DEF e
<1>5. e \in Harmless
  BY <1>2, <1>3 DEF Harmless
<1>6. QED
  BY <1>4, <1>5, RetryHarmless

LEMMA StepHarmless ==
  ASSUME CondemnedInv, Doomed \subseteq Doomed', NEW w \in Workers, Step(w)
  PROVE  Queues'
<1>1. CASE Restarted
  BY <1>1, RestartedHarmless DEF Queues
<1>2. CASE UNCHANGED events
  BY <1>2, SameHarmless, Zenon DEF events, Queues
<1>3. CASE (Finish(w) \/ Fail(w)) /\ UNCHANGED queue
  BY <1>3, SameHarmless, EndHarmless, Zenon DEF Queues
<1>4. CASE UNCHANGED queue /\ UNCHANGED delayed
  BY <1>2, <1>4, Zenon DEF events
<1>5. CASE Take(w)
  BY <1>5, TakeHarmless
<1>6. CASE UpdateStatus(w)
  <2>1. CASE StatusPut(w)
    <3>1. worker[w].obj \in Object
      BY Zenon DEF CondemnedInv, BackupInv, TypeOK, Worker
    <3>2. queue' \in Seq(Harmless')
      BY <2>1, <3>1, StoreHarmless, SameHarmless, Zenon DEF StatusPut
    <3>3. QED
      BY <2>1, <3>2, SameHarmless, Zenon DEF StatusPut, Queues
  <2>2. QED
    BY <1>1, <1>2, <1>6, <2>1, Zenon
    DEF UpdateStatus, StatusGet, StatusEndpoints, StatusService, events
<1>7. CASE GetById(w) \/ JobFailed(w) \/ Create(w) \/ Delete(w)
  BY <1>1, <1>2, <1>3, <1>4, <1>7, Zenon
  DEF GetById, JobFailed, Create, CheckExists, CreateInstance, Created, Delete,
      DeleteAlarms, BackupOrDelete, BackupDone, Deleted, DeleteService, events
<1>8. CASE Update(w)
  <2>1. CASE Decide(w)
    <3>1. worker[w].op \notin DeleteOps
      BY <2>1, OutsideDelete, Zenon DEF Decide, CondemnedInv
    <3>2. worker[w] \in Worker
      BY DEF CondemnedInv, BackupInv, TypeOK
    <3>3. [worker[w] EXCEPT !.ev.new = worker[w].obj].ev
            = [worker[w].ev EXCEPT !.new = worker[w].obj]
      BY <3>2, Zenon DEF Worker
    <3>4. CASE /\ Retry(w, [worker[w] EXCEPT !.ev.new = worker[w].obj].ev)
               /\ UNCHANGED queue
      <4>1. Retry(w, [worker[w].ev EXCEPT !.new = worker[w].obj])
        BY <3>3, <3>4
      <4>2. QED
        BY <3>1, <3>4, <4>1, DecidedHarmless, SameHarmless, Zenon DEF Queues
    <3>5. QED
      BY <1>1, <1>2, <1>3, <2>1, <3>4, Zenon DEF Decide
  <2>2. QED
    BY <1>1, <1>2, <1>3, <1>4, <1>8, <2>1, Zenon
    DEF Update, CallCloud, Updated, FetchLogs, ChangeSqlUser, SetAutopilot, events
<1>9. QED
  BY <1>5, <1>6, <1>7, <1>8 DEF Step

LEMMA CallFailsHarmless ==
  ASSUME CondemnedInv, Doomed \subseteq Doomed', NEW w \in Workers,
         CallFails(w) \/ AnswerLost(w)
  PROVE  Queues'
<1>1. UNCHANGED queue
  BY Zenon DEF CallFails, AnswerLost
<1>2. CASE Retry(w, worker[w].ev)
  BY <1>1, <1>2, EventHarmless, RetryHarmless, SameHarmless DEF Queues
<1>3. CASE /\ worker[w].pc = "decide"
           /\ Retry(w, [worker[w].ev EXCEPT !.new = worker[w].obj])
  <2>1. worker[w].op \notin DeleteOps
    BY <1>3, OutsideDelete DEF CondemnedInv
  <2>2. QED
    BY <1>1, <1>3, <2>1, DecidedHarmless, SameHarmless DEF Queues
<1>4. QED
  BY <1>1, <1>2, <1>3, EndHarmless, SameHarmless, Zenon
  DEF CallFails, AnswerLost, Queues

LEMMA EnvironmentHarmless ==
  ASSUME CondemnedInv, Doomed \subseteq Doomed', Environment
  PROVE  Queues'
<1>1. CASE UserCreate
  BY <1>1, FirstObjectType, StoreHarmless, SameHarmless, Zenon DEF UserCreate, Queues
<1>2. CASE UserDelete
  <2> DEFINE e == DelEvent(cr)
  <2>1. cr \in Object /\ cr.id \in Ids
    BY <1>2, Zenon DEF UserDelete, CondemnedInv, BackupInv, TypeOK, Object
  <2>2. e \in Event /\ e.new = cr
    BY <2>1, EventTypes DEF DelEvent
  <2>3. cr.id \in Doomed'
    BY <1>2, Zenon DEF UserDelete, Doomed
  <2>4. queue' = Append(queue, e) /\ UNCHANGED delayed
    BY <1>2 DEF UserDelete
  <2> HIDE DEF e
  <2>5. e \in Harmless'
    BY <2>2, <2>3, Zenon DEF Harmless, Event
  <2>6. queue \in Seq(Harmless')
    BY HarmlessGrows DEF CondemnedInv
  <2>7. queue' \in Seq(Harmless')
    BY <2>4, <2>5, <2>6
  <2>8. QED
    BY <2>4, <2>7, SameHarmless DEF Queues
<1>3. CASE \E kind \in EditKinds : UserEdit(kind)
  <2>1. PICK kind \in EditKinds : UserEdit(kind)
    BY <1>3
  <2>2. cr \in Object
    BY <2>1, Zenon DEF UserEdit, CondemnedInv, BackupInv, TypeOK
  <2>3. PICK o \in Object : Store(o)
    BY <2>1, <2>2, EditedType DEF UserEdit
  <2>4. QED
    BY <2>1, <2>3, StoreHarmless, SameHarmless, Zenon DEF UserEdit, Queues
<1>4. CASE Resync
  <2> DEFINE e == UpdateEvent(cr, cr, TRUE)
  <2>1. cr \in Object
    BY <1>4, Zenon DEF Resync, CondemnedInv, BackupInv, TypeOK
  <2>2. e \in Event /\ e.type # "delRds"
    BY <2>1, EventTypes DEF UpdateEvent
  <2>3. queue' = Append(queue, e) /\ UNCHANGED delayed
    BY <1>4 DEF Resync
  <2> HIDE DEF e
  <2>4. e \in Harmless'
    BY <2>2, Zenon DEF Harmless, Event
  <2>5. queue \in Seq(Harmless')
    BY HarmlessGrows DEF CondemnedInv
  <2>6. queue' \in Seq(Harmless')
    BY <2>3, <2>4, <2>5
  <2>7. QED
    BY <2>3, <2>6, SameHarmless DEF Queues
<1>5. CASE Crash
  BY <1>5, RestartedHarmless DEF Crash, Queues
<1>6. CASE \E i \in Instances : JobDone(i) \/ JobFails(i) \/ MoveIp(i)
  BY <1>6, SameHarmless, Zenon DEF JobDone, JobFails, MoveIp, events, Queues
<1>7. QED
  BY <1>1, <1>2, <1>3, <1>4, <1>5, <1>6 DEF Environment

------------------------------------------------------------------------------
LEMMA CondemnedGrows ==
  ASSUME [Next]_vars
  PROVE  condemned \subseteq condemned' /\ (~UserDelete => condemned' = condemned)
<1>1. CASE UserDelete
  BY <1>1, Zenon DEF UserDelete
<1>2. ASSUME NEW w \in Workers, Step(w) PROVE condemned' = condemned
  BY <1>2, Zenon
  DEF Step, Take, UpdateStatus, StatusGet, StatusPut, StatusEndpoints, StatusService,
      GetById, JobFailed, Create, CheckExists, CreateInstance, Created,
      Update, Decide, CallCloud, Updated, FetchLogs, ChangeSqlUser, SetAutopilot,
      Delete, DeleteAlarms, BackupOrDelete, BackupDone, Deleted, DeleteService,
      Restarted, ghosts
<1>3. ASSUME NEW w \in Workers, CallFails(w) \/ AnswerLost(w)
      PROVE  condemned' = condemned
  BY <1>3, Zenon DEF CallFails, AnswerLost
<1>4. CASE Environment /\ ~UserDelete
  BY <1>4, Zenon
  DEF Environment, JobDone, JobFails, MoveIp, UserCreate, UserEdit, Resync, Crash,
      Restarted, ghosts
<1>5. CASE UNCHANGED vars \/ \E i \in 1..Len(delayed) : Requeue(i)
  BY <1>5, Zenon DEF vars, ghosts, Requeue
<1>6. QED
  BY <1>1, <1>2, <1>3, <1>4, <1>5 DEF Next

LEMMA NextLoyal ==
  ASSUME CondemnedInv, TypeOK', Doomed \subseteq Doomed', [Next]_vars
  PROVE  AllLoyal'
<1>1. ASSUME NEW w \in Workers, Step(w) PROVE AllLoyal'
  <2>1. CASE Restarted
    BY <2>1, RestartedLoyal
  <2>2. CASE JobFailed(w)
    BY <2>2, EndFrees, FreesLoyal, Zenon DEF JobFailed
  <2>3. QED
    BY <1>1, <2>1, <2>2, TakeLoyal, StatusFrees, GetByIdFrees, CreateFrees,
       UpdateFrees, DeleteLoyal, FreesLoyal DEF Step
<1>2. ASSUME NEW w \in Workers, CallFails(w) \/ AnswerLost(w) PROVE AllLoyal'
  BY <1>2, CallFailsFrees, FreesLoyal
<1>3. CASE Environment
  <2>1. CASE worker' = worker
    BY <2>1, SameLoyal
  <2>2. QED
    BY <1>3, <2>1, JobFailsLoyal, RestartedLoyal, Zenon
    DEF Environment, Crash, JobDone, MoveIp, UserCreate, UserDelete, UserEdit, Resync
<1>4. CASE UNCHANGED vars \/ \E i \in 1..Len(delayed) : Requeue(i)
  BY <1>4, SameLoyal, Zenon DEF vars, Requeue
<1>5. QED
  BY <1>1, <1>2, <1>3, <1>4 DEF Next

LEMMA NextHarmless ==
  ASSUME CondemnedInv, Doomed \subseteq Doomed', [Next]_vars
  PROVE  Queues'
<1>1. CASE UNCHANGED vars
  BY <1>1, SameHarmless, Zenon DEF vars, events, Queues
<1>2. QED
  BY <1>1, StepHarmless, CallFailsHarmless, EnvironmentHarmless, RequeueHarmless
  DEF Next

\* A job of the deletion is started for a doomed id only.
LEMMA NextEnding ==
  ASSUME CondemnedInv, [Next]_vars
  PROVE  \A i \in Instances : Ending(i)' => i \in condemned
<1>1. InstanceStep
  BY StepInstances DEF CondemnedInv, BackupInv
<1>2. ASSUME NEW w \in Workers, worker[w].op \in {"backup", "delete"},
             MyId(w) \in Instances
      PROVE  MyId(w) \in condemned
  <2>1. MyId(w) \in Doomed
    BY <1>2, Zenon DEF CondemnedInv, Loyal, DeleteOps, MyId
  <2>2. MyId(w) # NoId
    BY <1>2, QuotaIsNat, SMT DEF Instances, NoId
  <2>3. QED
    BY <2>1, <2>2 DEF Doomed
<1> SUFFICES ASSUME NEW i \in Instances, Ending(i)', ~Ending(i)
             PROVE  i \in condemned
  BY DEF CondemnedInv
<1>3. ~Same
  BY Zenon DEF Same, Ending
<1>4. ASSUME NEW j \in Instances, Born(j) \/ Ended(j) \/ Failed(j) PROVE FALSE
  <2>1. i = j
    BY <1>4, Zenon DEF Born, Ended, Failed, Others, Ending
  <2>2. QED
    BY <1>4, <2>1, Zenon DEF Born, Ended, Failed, Ending
<1>5. ASSUME NEW j \in Instances, NEW kind \in Jobs, Started(j, kind)
      PROVE  i = j /\ kind \in {"backup", "delete"}
  BY <1>5, Zenon DEF Started, Others, Ending
<1>6. Calls
  BY <1>1, <1>3, <1>4 DEF InstanceStep
<1>7. ~ \E j \in Instances, kind \in Jobs \ {"none", "backup", "delete"} : Started(j, kind)
  BY <1>5
<1>8. PICK w \in Workers :
        worker[w].op \in {"backup", "delete"} /\ MyId(w) \in Instances
          /\ Started(MyId(w), worker[w].op)
  BY <1>6, <1>7, Zenon DEF Calls
<1>9. MyId(w) = i
  <2>1. worker[w].op \in Jobs
    BY <1>8, SMT DEF Jobs
  <2>2. QED
    BY <1>5, <1>8, <2>1
<1>10. QED
  BY <1>2, <1>8, <1>9

LEMMA InitCondemned == Init => CondemnedInv
<1> SUFFICES ASSUME Init PROVE CondemnedInv
  OBVIOUS
<1>1. BackupInv
  BY InitSafe
<1>2. AddEvent(Managed) \in Harmless
  <2>1. AddEvent(Managed) \in Event
    BY ManagedType, EventTypes
  <2>2. AddEvent(Managed).type # "delRds"
    BY DEF AddEvent
  <2>3. QED
    BY <2>1, <2>2, Zenon DEF Harmless
<1>3. queue \in Seq(Harmless) /\ delayed \in Seq(Harmless)
  <2>1. <<AddEvent(Managed)>> \in Seq(Harmless) /\ <<>> \in Seq(Harmless)
    BY <1>2
  <2>2. QED
    BY <2>1 DEF Init, Begins
<1>4. ASSUME NEW w \in Workers PROVE Loyal(worker[w])
  <2>1. worker[w] = IdleWorker
    BY DEF Init
  <2>2. IdleWorker.op = "none" /\ IdleWorker.ev.type = "addRds"
    BY DEF IdleWorker, AddEvent
  <2>3. QED
    BY <2>1, <2>2, Zenon DEF Loyal, DeleteOps
<1>5. ASSUME NEW i \in Instances PROVE ~Ending(i)
  <2>1. inst[i] = Unborn \/ inst[i] = Running
    BY DEF Init, Begins
  <2>2. Unborn.job = "none" /\ Unborn.phase = "unborn"
    BY DEF Unborn
  <2>3. Running.job = "none" /\ Running.phase = "live"
    BY <2>2, UnbornType, Zenon DEF Running, Instance
  <2>4. QED
    BY <2>1, <2>2, <2>3, Zenon DEF Ending
<1>6. QED
  BY <1>1, <1>3, <1>4, <1>5 DEF CondemnedInv

LEMMA NextCondemned == CondemnedInv /\ [Next]_vars => CondemnedInv'
<1> SUFFICES ASSUME CondemnedInv, [Next]_vars PROVE CondemnedInv'
  OBVIOUS
<1>1. BackupInv'
  BY NextSafe DEF CondemnedInv
<1>2. TypeOK'
  BY <1>1 DEF BackupInv
<1>3. Doomed \subseteq Doomed' /\ condemned \subseteq condemned'
  BY CondemnedGrows, DoomedGrows
<1>4. AllLoyal' /\ Queues'
  BY <1>2, <1>3, NextLoyal, NextHarmless
<1>5. \A i \in Instances : Ending(i)' => i \in condemned'
  BY <1>3, NextEnding
<1>6. QED
  BY <1>1, <1>4, <1>5 DEF CondemnedInv, AllLoyal, Queues

\* What the delete events and their handlers name, wherever they are, a user
\* deleted; no retry and no restart turns another event into a deletion.
THEOREM CondemnedInvariant == Spec => []CondemnedInv
<1>1. QED
  BY InitCondemned, NextCondemned, PTL DEF Spec

\* For any number of workers, instances, edits, failures and crashes: rdsDelete
\* deletes only what a resource named when a user deleted it.
THEOREM CondemnedOnly == Spec => []OnlyCondemnedDeleted
<1>1. CondemnedInv => OnlyCondemnedDeleted
  BY SMT DEF CondemnedInv, Ending, OnlyCondemnedDeleted
<1>2. QED
  BY <1>1, CondemnedInvariant, PTL

------------------------------------------------------------------------------
\* The refinement.  A step of the instances is one of RdsLifecycle or a stutter.

Lives == [i \in Instances |-> Life(i)]

LEMMA LifeAgain ==
  ASSUME NEW i \in Instances, Others(i),
         NEW l, Life(i)' = l
  PROVE  Lives' = [Lives EXCEPT ![i] = l]
<1>1. ASSUME NEW j \in Instances \ {i} PROVE Life(j)' = Life(j)
  BY Zenon DEF Others, Life
<1>2. QED
  BY <1>1 DEF Lives

LEMMA LifeSame ==
  ASSUME Same
  PROVE  Lives' = Lives
<1>1. ASSUME NEW j \in Instances PROVE Life(j)' = Life(j)
  BY Zenon DEF Same, Life
<1>2. QED
  BY <1>1 DEF Lives

\* The state of the promise in terms of RdsLifecycle's action formulas.
LEMMA Stutters ==
  ASSUME UNCHANGED <<Lives, backups, condemned>>
  PROVE  UNCHANGED Lifecycle!lifecycle
BY Zenon DEF Lives, Lifecycle!lifecycle

LEMMA BornMakes ==
  ASSUME CondemnedInv, NEW i \in Instances, Born(i), UNCHANGED condemned
  PROVE  Lifecycle!Make(i)
<1>1. Life(i) = "absent"
  <2>1. inst[i].phase = "unborn" /\ inst[i].job = "none"
    BY SMT DEF Born, NewId, CondemnedInv, BackupInv, InstanceSafe
  <2>2. QED
    BY <2>1, SMT DEF Life
<1>2. Life(i)' = "there"
  BY SMT DEF Born, Life
<1>3. Lives' = [Lives EXCEPT ![i] = "there"]
  BY <1>2, LifeAgain DEF Born
<1>4. ASSUME NEW j \in Instances, j < i PROVE Life(j) # "absent"
  <2>1. j \in 1..(i - 1)
    BY <1>4, QuotaIsNat DEF Instances
  <2>2. inst[j].phase # "unborn"
    BY <2>1 DEF Born, NewId
  <2>3. QED
    BY <2>2, SMT DEF Life
<1>5. QED
  BY <1>1, <1>3, <1>4 DEF Lifecycle!Make, Lives, Born

LEMMA EndedImplements ==
  ASSUME CondemnedInv, NEW i \in Instances, Ended(i), UNCHANGED condemned
  PROVE  Lifecycle!Save(i) \/ Lifecycle!End(i) \/ UNCHANGED Lifecycle!lifecycle
<1>1. inst[i].phase = "live"
  BY Zenon DEF CondemnedInv, BackupInv, InstanceSafe, Ended
<1>2. CASE inst[i].job = "delete"
  <2>1. Life(i) = "leaving" /\ Life(i)' = "gone" /\ backups' = backups
    BY <1>1, <1>2, SMT DEF Ended, Life
  <2>2. Lives' = [Lives EXCEPT ![i] = "gone"]
    BY <2>1, LifeAgain DEF Ended
  <2>3. QED
    BY <2>1, <2>2 DEF Lifecycle!End, Lives
<1>3. CASE inst[i].job # "delete"
  <2>1. Life(i) = "there" /\ Life(i)' = "there"
    BY <1>1, <1>3, SMT DEF Ended, Life
  <2>2. Lives' = Lives
    BY <2>1, LifeAgain DEF Ended, Lives
  <2>3. CASE inst[i].job = "backup"
    <3>1. i \in condemned
      BY <2>3, SMT DEF CondemnedInv, Ending
    <3>2. backups' = backups \cup {i}
      BY <2>3 DEF Ended
    <3>3. QED
      BY <2>1, <2>2, <3>1, <3>2 DEF Lifecycle!Save, Lives
  <2>4. CASE inst[i].job # "backup"
    BY <2>2, <2>4, Stutters DEF Ended
  <2>5. QED
    BY <2>3, <2>4
<1>4. QED
  BY <1>2, <1>3

LEMMA FailedImplements ==
  ASSUME CondemnedInv, NEW i \in Instances, Failed(i), UNCHANGED condemned
  PROVE  Lifecycle!Stay(i) \/ UNCHANGED Lifecycle!lifecycle
<1>1. inst[i].phase = "live"
  BY Zenon DEF CondemnedInv, BackupInv, InstanceSafe, Failed
<1>2. Life(i)' = "there"
  BY <1>1, SMT DEF Failed, Life
<1>3. Lives' = [Lives EXCEPT ![i] = "there"]
  BY <1>2, LifeAgain DEF Failed
<1>4. CASE inst[i].job = "delete"
  <2>1. Life(i) = "leaving"
    BY <1>1, <1>4, SMT DEF Life
  <2>2. QED
    BY <1>3, <2>1 DEF Lifecycle!Stay, Lives, Failed
<1>5. CASE inst[i].job # "delete"
  <2>1. Life(i) = "there"
    BY <1>1, <1>5, SMT DEF Life
  <2>2. Lives' = Lives
    BY <1>3, <2>1 DEF Lives
  <2>3. QED
    BY <2>2, Stutters DEF Failed
<1>6. QED
  BY <1>4, <1>5

\* Of all the calls only that of the delete stage makes an instance leave.
LEMMA CallsImplement ==
  ASSUME CondemnedInv, Calls, UNCHANGED condemned
  PROVE  \/ \E i \in Instances : Lifecycle!Leave(i)
         \/ UNCHANGED Lifecycle!lifecycle
<1>1. ASSUME NEW i \in Instances, NEW kind, kind # "delete", Started(i, kind)
      PROVE  UNCHANGED Lifecycle!lifecycle
  <2>1. Life(i) = "there" /\ Life(i)' = "there"
    BY <1>1, SMT DEF Started, Life
  <2>2. Lives' = Lives
    BY <1>1, <2>1, LifeAgain DEF Started, Lives
  <2>3. QED
    BY <1>1, <2>2, Stutters DEF Started
<1>2. ASSUME NEW i \in Instances, i \in backups, Started(i, "delete")
      PROVE  Lifecycle!Leave(i)
  <2>1. Life(i) = "there" /\ Life(i)' = "leaving"
    BY <1>2, SMT DEF Started, Life
  <2>2. Lives' = [Lives EXCEPT ![i] = "leaving"]
    BY <1>2, <2>1, LifeAgain DEF Started
  <2>3. backups' = backups
    BY <1>2 DEF Started
  <2>4. QED
    BY <1>2, <2>1, <2>2, <2>3 DEF Lifecycle!Leave, Lives
<1>3. CASE \E i \in Instances, kind \in Jobs \ {"none", "backup", "delete"} :
             Started(i, kind)
  BY <1>1, <1>3
<1>4. CASE \E w \in Workers :
             /\ worker[w].op \in {"backup", "delete"}
             /\ worker[w].pc = "call"
             /\ MyId(w) \in Instances
             /\ Started(MyId(w), worker[w].op)
  <2>1. PICK w \in Workers :
          /\ worker[w].op \in {"backup", "delete"}
          /\ worker[w].pc = "call"
          /\ MyId(w) \in Instances
          /\ Started(MyId(w), worker[w].op)
    BY <1>4
  <2>2. CASE worker[w].op = "delete"
    <3>1. MyId(w) \in backups
      BY <2>1, <2>2, Zenon DEF CondemnedInv, BackupInv, HandlerSafe, At
    <3>2. QED
      BY <1>2, <2>1, <2>2, <3>1
  <2>3. CASE worker[w].op # "delete"
    BY <1>1, <2>1, <2>3
  <2>4. QED
    BY <2>2, <2>3
<1>5. QED
  BY <1>3, <1>4, Zenon DEF Calls

LEMMA DeleteImplements ==
  ASSUME CondemnedInv, UserDelete
  PROVE  (\E i \in Instances : Lifecycle!Condemn(i)) \/ UNCHANGED Lifecycle!lifecycle
<1>1. Lives' = Lives /\ backups' = backups
  BY UnchangedSame, LifeSame, Zenon DEF UserDelete, cloud
<1>2. cr \in Object /\ cr.id \in Ids
  BY Zenon DEF UserDelete, CondemnedInv, BackupInv, TypeOK, Object
<1>3. condemned' = condemned \cup ({cr.id} \ {NoId})
  BY DEF UserDelete
<1>4. CASE cr.id = NoId
  BY <1>1, <1>3, <1>4, Stutters
<1>5. CASE cr.id # NoId
  <2>1. cr.id \in Instances
    BY <1>2, <1>5, QuotaIsNat, SMT DEF Ids, Instances, NoId
  <2>2. condemned' = condemned \cup {cr.id}
    BY <1>3, <1>5
  <2>3. Lifecycle!Condemn(cr.id)
    BY <1>1, <2>2 DEF Lifecycle!Condemn, Lives
  <2>4. QED
    BY <2>1, <2>3
<1>6. QED
  BY <1>4, <1>5

LEMMA InitImplements == Init => Lifecycle!Init
<1> SUFFICES ASSUME Init PROVE Lifecycle!Init
  OBVIOUS
<1>1. ASSUME NEW i \in Instances PROVE Life(i) \in {"absent", "there"}
  <2>1. inst[i] = Unborn \/ inst[i] = Running
    BY DEF Init, Begins
  <2>2. Unborn.job = "none" /\ Unborn.phase = "unborn"
    BY DEF Unborn
  <2>3. Running.job = "none" /\ Running.phase = "live"
    BY <2>2, UnbornType, Zenon DEF Running, Instance
  <2>4. QED
    BY <2>1, <2>2, <2>3, SMT DEF Life
<1>2. backups = {} /\ condemned = {}
  BY DEF Init
<1>3. QED
  BY <1>1, <1>2 DEF Lifecycle!Init

LEMMA NextImplements ==
  CondemnedInv /\ [Next]_vars => [Lifecycle!Next]_(Lifecycle!lifecycle)
<1> SUFFICES ASSUME CondemnedInv, [Next]_vars
             PROVE  Lifecycle!Next \/ UNCHANGED Lifecycle!lifecycle
  OBVIOUS
<1>1. CASE UserDelete
  BY <1>1, DeleteImplements DEF Lifecycle!Next
<1>2. CASE ~UserDelete
  <2>1. UNCHANGED condemned
    BY <1>2, CondemnedGrows
  <2>2. InstanceStep
    BY StepInstances DEF CondemnedInv, BackupInv
  <2>3. CASE Same
    BY <2>1, <2>3, LifeSame, Stutters DEF Same
  <2>4. CASE Calls
    BY <2>1, <2>4, CallsImplement DEF Lifecycle!Next
  <2>5. ASSUME NEW i \in Instances, Born(i) \/ Ended(i) \/ Failed(i)
        PROVE  Lifecycle!Next \/ UNCHANGED Lifecycle!lifecycle
    BY <2>1, <2>5, BornMakes, EndedImplements, FailedImplements
    DEF Lifecycle!Next
  <2>6. QED
    BY <2>2, <2>3, <2>4, <2>5 DEF InstanceStep
<1>3. QED
  BY <1>1, <1>2

\* The operator, with its retries, restarts and lost answers, implements
\* RdsLifecycle, whatever the values of the constants.
THEOREM LifecycleImplemented == Spec => ImplementsLifecycle
<1>1. QED
  BY InitImplements, NextImplements, CondemnedInvariant, PTL
  DEF Spec, ImplementsLifecycle, Lifecycle!Spec
==============================================================================
