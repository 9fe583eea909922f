-------------------------- MODULE RdsOperatorProofs --------------------------
(***************************************************************************)
(* Proofs about RdsOperator, for every value of its constants.             *)
(***************************************************************************)
EXTENDS RdsOperator, SequenceTheorems, TLAPS

------------------------------------------------------------------------------
\* The values that the initial states and a restart are made of.

LEMMA NumberFacts ==
  /\ NoId \in Ids /\ NoIp \in Ips /\ MovedIp \in Ips
  /\ 1 \in Instances /\ Instances \subseteq Ids /\ Instances \subseteq Ips
  /\ \A i \in Ids : i # NoId => i \in Instances
BY QuotaIsNat, SMT DEF NoId, NoIp, Ids, Ips, MovedIp, Instances

LEMMA FirstObjectType == FirstObject \in Object
BY NumberFacts, FirstSpec, SMT DEF FirstObject, Object, States

LEMMA ManagedType == Managed \in Object
<1>1. 1 \in Ids /\ 1 \in Ips /\ "ACTIVE" \in States
  BY NumberFacts DEF States
<1>2. QED
  BY <1>1, FirstObjectType, Zenon DEF Managed, Object

LEMMA UnbornType == Unborn \in Instance /\ Running \in Instance
<1>1. Unborn \in Instance
  BY NumberFacts, FirstSpec, SMT DEF Unborn, Instance, Jobs
<1>2. 1 \in Ips
  BY NumberFacts
<1>3. Running \in Instance
  BY <1>1, <1>2, Zenon DEF Running, Instance
<1>4. QED
  BY <1>1, <1>3

LEMMA EventTypes ==
  ASSUME NEW o \in Object, NEW p \in Object, NEW b \in BOOLEAN
  PROVE  /\ AddEvent(o) \in Event
         /\ DelEvent(o) \in Event
         /\ UpdateEvent(p, o, b) \in Event
<1>1. [p EXCEPT !.rv = 0] \in Object
  BY SMT DEF Object
<1>2. QED
  BY <1>1, FirstObjectType, SMT DEF AddEvent, DelEvent, UpdateEvent, Event

LEMMA IdleWorkerType == IdleWorker \in Worker
<1>1. AddEvent(FirstObject) \in Event
  BY FirstObjectType, EventTypes
<1>2. QED
  BY <1>1, FirstObjectType, FirstSpec, SMT DEF IdleWorker, Worker, Pcs, Ops

LEMMA BeginType ==
  ASSUME NEW e \in Event
  PROVE  Begin(e) \in Worker
<1>1. e.new \in Object /\ e.new.vol \in Volumes /\ e.new.flavor \in Flavors
  BY SMT DEF Event, Object
<1>2. QED
  BY <1>1, SMT DEF Begin, Worker, Pcs, Ops

LEMMA MarkedType ==
  ASSUME NEW o \in Object, NEW op
  PROVE  Marked(o, op) \in Object
<1>1. ASSUME NEW reboot \in BOOLEAN, NEW restore \in BOOLEAN, NEW logs \in BOOLEAN,
             NEW autopilot \in BOOLEAN
      PROVE  [o EXCEPT !.reboot = reboot, !.restore = restore, !.logs = logs,
                       !.autopilot = autopilot] \in Object
  BY Zenon DEF Object
<1>2. /\ (o.reboot /\ op # "restart") \in BOOLEAN
      /\ (o.restore /\ op # "restore") \in BOOLEAN
      /\ (o.logs /\ op # "logs") \in BOOLEAN
      /\ (o.autopilot \/ op = "autopilot") \in BOOLEAN
  OBVIOUS
<1>3. QED
  BY <1>1, <1>2, Zenon DEF Marked

LEMMA EnterType ==
  ASSUME NEW me \in Worker, NEW op \in UpdateOps
  PROVE  Enter(me, op) \in Worker
<1> DEFINE pc == IF op \in {"enlarge", "resize", "sql"} THEN "call" ELSE "us.get"
<1>1. pc \in Pcs /\ op \in Ops
  BY Zenon DEF Pcs, Ops
<1>2. Marked(me.obj, op) \in Object
  BY MarkedType, Zenon DEF Worker
<1> HIDE DEF pc
<1>3. [me EXCEPT !.op = op, !.ret = "call", !.obj = Marked(me.obj, op), !.pc = pc]
        \in Worker
  BY <1>1, <1>2, Zenon DEF Worker
<1>4. QED
  BY <1>3 DEF Enter, pc

------------------------------------------------------------------------------
\* What the helpers that actions share do to the types.

LEMMA BecomeType ==
  ASSUME TypeOK, NEW w \in Workers, NEW me \in Worker, Become(w, me)
  PROVE  worker' \in [Workers -> Worker]
BY SMT DEF TypeOK, Become

LEMMA GotoType ==
  ASSUME TypeOK, NEW w \in Workers, NEW pc \in Pcs, Goto(w, pc)
  PROVE  worker' \in [Workers -> Worker]
<1>1. [worker[w] EXCEPT !.pc = pc] \in Worker
  <2>1. worker[w] \in Worker
    BY DEF TypeOK
  <2>2. QED
    BY <2>1, Zenon DEF Worker
<1>2. QED
  BY <1>1, BecomeType DEF Goto

LEMMA FinishType ==
  ASSUME TypeOK, NEW w \in Workers, Finish(w)
  PROVE  worker' \in [Workers -> Worker] /\ delayed' \in Seq(Event)
BY IdleWorkerType, BecomeType DEF Finish, TypeOK

LEMMA RetryType ==
  ASSUME TypeOK, NEW w \in Workers, NEW e \in Event, Retry(w, e)
  PROVE  worker' \in [Workers -> Worker] /\ delayed' \in Seq(Event)
<1>1. worker' \in [Workers -> Worker]
  BY IdleWorkerType, BecomeType DEF Retry
<1>2. [e EXCEPT !.n = @ + 1] \in Event
  BY SMT DEF Event
<1>3. delayed' \in Seq(Event)
  BY <1>2, SMT DEF Retry, TypeOK
<1>4. QED
  BY <1>1, <1>3

LEMMA FailType ==
  ASSUME TypeOK, NEW w \in Workers, Fail(w)
  PROVE  worker' \in [Workers -> Worker] /\ delayed' \in Seq(Event)
<1>1. worker[w].ev \in Event
  BY SMT DEF TypeOK, Worker
<1>2. QED
  BY <1>1, FinishType, RetryType DEF Fail

LEMMA ProceedType ==
  ASSUME TypeOK, NEW w \in Workers, NEW me \in Worker, Proceed(w, me)
  PROVE  worker' \in [Workers -> Worker]
<1>1. CASE Become(w, IdleWorker)
  BY <1>1, IdleWorkerType, BecomeType
<1>2. CASE \E op \in UpdateOps : Become(w, Enter(me, op))
  BY <1>2, EnterType, BecomeType
<1>3. QED
  BY <1>1, <1>2 DEF Proceed

LEMMA ReturnType ==
  ASSUME TypeOK, NEW w \in Workers, NEW me \in Worker, Return(w, me)
  PROVE  worker' \in [Workers -> Worker]
<1>1. CASE me.ret = "next"
  BY <1>1, ProceedType DEF Return
<1>2. CASE me.ret # "next"
  <2>1. [me EXCEPT !.pc = me.ret] \in Worker
    BY <1>2, SMT DEF Worker, Pcs
  <2>2. QED
    BY <1>2, <2>1, BecomeType DEF Return
<1>3. QED
  BY <1>1, <1>2

\* An instance whose job nobody polls any more.
LEMMA UnpolledType ==
  ASSUME NEW u \in Instance
  PROVE  [u EXCEPT !.by = NoWorker] \in Instance
BY Zenon DEF Instance

LEMMA RestartedType ==
  ASSUME TypeOK, Restarted
  PROVE  /\ worker' \in [Workers -> Worker]
         /\ queue' \in Seq(Event) /\ delayed' \in Seq(Event)
         /\ inst' \in [Instances -> Instance]
<1>1. worker' \in [Workers -> Worker]
  BY IdleWorkerType DEF Restarted
<1>2. queue' \in Seq(Event)
  <2>1. CASE cr = NoObject
    BY <2>1 DEF Restarted
  <2>2. CASE cr # NoObject
    <3>1. AddEvent(cr) \in Event
      BY <2>2, EventTypes DEF TypeOK
    <3>2. <<AddEvent(cr)>> \in Seq(Event)
      BY <3>1
    <3>3. QED
      BY <2>2, <3>2 DEF Restarted
  <2>3. QED
    BY <2>1, <2>2
<1>3. delayed' \in Seq(Event)
  BY SMT DEF Restarted
<1>4. \A i \in Instances : [inst[i] EXCEPT !.by = NoWorker] \in Instance
  BY UnpolledType DEF TypeOK
<1>5. inst' \in [Instances -> Instance]
  BY <1>4 DEF Restarted
<1>6. QED
  BY <1>1, <1>2, <1>3, <1>5

LEMMA SpendType ==
  ASSUME TypeOK, NEW kind \in Kinds, Spend(kind)
  PROVE  budget' \in [Kinds -> Nat]
BY SMT DEF TypeOK, Spend

LEMMA StoreType ==
  ASSUME TypeOK, NEW o \in Object, Store(o)
  PROVE  cr' \in Object /\ queue' \in Seq(Event)
<1>1. PICK r \in Versions :
        /\ cr' = [o EXCEPT !.rv = r]
        /\ queue' = Append(queue, IF cr = NoObject
                                    THEN AddEvent([o EXCEPT !.rv = r])
                                    ELSE UpdateEvent(cr, [o EXCEPT !.rv = r], FALSE))
  BY DEF Store
<1>2. [o EXCEPT !.rv = r] \in Object
  BY BoundsAreNat, SMT DEF Object, Versions
<1> DEFINE e == IF cr = NoObject
                  THEN AddEvent([o EXCEPT !.rv = r])
                  ELSE UpdateEvent(cr, [o EXCEPT !.rv = r], FALSE)
<1>3. e \in Event
  BY <1>2, EventTypes DEF TypeOK
<1> HIDE DEF e
<1>4. Append(queue, e) \in Seq(Event)
  BY <1>3 DEF TypeOK
<1>5. QED
  BY <1>1, <1>2, <1>4 DEF e

------------------------------------------------------------------------------
\* What the world does keeps the types.

LEMMA JobDoneType ==
  ASSUME TypeOK, NEW i \in Instances, JobDone(i)
  PROVE  TypeOK'
<1>1. inst' \in [Instances -> Instance]
  <2>1. i \in Ips /\ inst[i] \in Instance
    BY NumberFacts DEF TypeOK
  <2>2. [inst[i] EXCEPT
           !.phase = IF inst[i].job = "delete" THEN "gone" ELSE @,
           !.vol = inst[i].toVol, !.flavor = inst[i].toFlavor,
           !.ip = IF inst[i].job = "create" THEN i ELSE @,
           !.job = "none", !.by = NoWorker] \in Instance
    BY <2>1, Zenon DEF Instance, Jobs
  <2>3. QED
    BY <2>2 DEF JobDone, TypeOK
<1>2. backups' \subseteq Instances
  BY DEF JobDone, TypeOK
<1>3. QED
  BY <1>1, <1>2, Zenon DEF JobDone, TypeOK, apiServer, cloud, events, ghosts

LEMMA JobFailsType ==
  ASSUME TypeOK, NEW i \in Instances, JobFails(i)
  PROVE  TypeOK'
<1>1. inst' \in [Instances -> Instance]
  <2>1. [inst[i] EXCEPT !.toVol = inst[i].vol, !.toFlavor = inst[i].flavor,
                        !.job = "none", !.by = NoWorker] \in Instance
    <3>1. inst[i] \in Instance
      BY DEF TypeOK
    <3>2. QED
      BY <3>1, Zenon DEF Instance, Jobs
  <2>2. QED
    BY <2>1 DEF JobFails, TypeOK
<1>2. worker' \in [Workers -> Worker]
  <2>1. ASSUME inst[i].by \in Workers
        PROVE  [worker[inst[i].by] EXCEPT !.pc = "failed"] \in Worker
    <3>1. worker[inst[i].by] \in Worker
      BY <2>1 DEF TypeOK
    <3>2. QED
      BY <3>1, Zenon DEF Worker, Pcs
  <2>2. QED
    BY <2>1 DEF JobFails, TypeOK
<1>3. budget' \in [Kinds -> Nat]
  BY SpendType DEF JobFails, Kinds
<1>4. QED
  BY <1>1, <1>2, <1>3, Zenon DEF JobFails, TypeOK, apiServer, cloud, events

LEMMA MoveIpType ==
  ASSUME TypeOK, NEW i \in Instances, MoveIp(i)
  PROVE  TypeOK'
<1>1. MovedIp \in Ips
  BY NumberFacts
<1>2. inst' \in [Instances -> Instance]
  <2>1. [inst[i] EXCEPT !.ip = MovedIp] \in Instance
    <3>1. inst[i] \in Instance
      BY DEF TypeOK
    <3>2. QED
      BY <1>1, <3>1, Zenon DEF Instance
  <2>2. QED
    BY <2>1 DEF MoveIp, TypeOK
<1>3. budget' \in [Kinds -> Nat]
  BY SpendType DEF MoveIp, Kinds
<1>4. QED
  BY <1>2, <1>3, Zenon DEF MoveIp, TypeOK, apiServer, cloud, events

LEMMA UserCreateType ==
  ASSUME TypeOK, UserCreate
  PROVE  TypeOK'
<1>1. cr' \in Object /\ queue' \in Seq(Event)
  BY FirstObjectType, StoreType DEF UserCreate
<1>2. budget' \in [Kinds -> Nat]
  BY SpendType DEF UserCreate, Kinds
<1>3. QED
  BY <1>1, <1>2, Zenon DEF UserCreate, TypeOK, cloud

LEMMA UserDeleteType ==
  ASSUME TypeOK, UserDelete
  PROVE  TypeOK'
<1>1. cr \in Object /\ cr.id \in Ids
  BY Zenon DEF TypeOK, UserDelete, Object
<1>2. DelEvent(cr) \in Event
  BY <1>1, EventTypes
<1>3. queue' \in Seq(Event)
  BY <1>2 DEF UserDelete, TypeOK
<1>4. condemned' \subseteq Instances
  BY <1>1, NumberFacts DEF UserDelete, TypeOK
<1>5. budget' \in [Kinds -> Nat]
  BY SpendType DEF UserDelete, Kinds
<1>6. QED
  BY <1>3, <1>4, <1>5, Zenon DEF UserDelete, TypeOK, cloud

LEMMA EditedType ==
  ASSUME NEW kind \in EditKinds, cr \in Object
  PROVE  Edited(kind) \subseteq Object
<1>1. \A v \in Volumes : [cr EXCEPT !.vol = v] \in Object
  BY Zenon DEF Object
<1>2. \A f \in Flavors : [cr EXCEPT !.flavor = f] \in Object
  BY Zenon DEF Object
<1>3. /\ [cr EXCEPT !.reboot = TRUE] \in Object
      /\ [cr EXCEPT !.restore = TRUE] \in Object
      /\ [cr EXCEPT !.logs = TRUE] \in Object
      /\ [cr EXCEPT !.users = TRUE] \in Object
      /\ [cr EXCEPT !.endpoint = TRUE] \in Object
  BY Zenon DEF Object
<1>4. [cr EXCEPT !.id = NoId] \in Object
  BY NumberFacts, Zenon DEF Object
<1>5. \A d \in SUBSET Databases : /\ [cr EXCEPT !.dbs = d] \in Object
                                  /\ [cr EXCEPT !.dbs = d, !.users = TRUE] \in Object
  BY Zenon DEF Object
<1>6. QED
  BY <1>1, <1>2, <1>3, <1>4, <1>5, Zenon DEF Edited, EditKinds

LEMMA UserEditType ==
  ASSUME TypeOK, NEW kind \in EditKinds, UserEdit(kind)
  PROVE  TypeOK'
<1>1. cr \in Object /\ cr.id \in Ids
  BY Zenon DEF TypeOK, UserEdit, Object
<1>2. cr' \in Object /\ queue' \in Seq(Event)
  BY <1>1, EditedType, StoreType DEF UserEdit
<1>3. owed' \in [restart : Int, restore : Int]
  BY SMT DEF TypeOK, UserEdit, Owing
<1>4. released' \subseteq Instances
  BY <1>1, NumberFacts DEF UserEdit, TypeOK
<1>5. budget' \in [Kinds -> Nat]
  BY SpendType DEF UserEdit, Kinds
<1>6. QED
  BY <1>2, <1>3, <1>4, <1>5, Zenon DEF UserEdit, TypeOK, cloud

LEMMA ResyncType ==
  ASSUME TypeOK, Resync
  PROVE  TypeOK'
<1> DEFINE e == UpdateEvent(cr, cr, TRUE)
<1>1. e \in Event /\ queue' = Append(queue, e)
  BY EventTypes, Zenon DEF TypeOK, Resync
<1> HIDE DEF e
<1>2. queue' \in Seq(Event)
  BY <1>1 DEF TypeOK
<1>3. QED
  BY <1>2, Zenon DEF Resync, TypeOK, apiServer, cloud, ghosts

LEMMA CrashType ==
  ASSUME TypeOK, Crash
  PROVE  TypeOK'
<1>1. budget' \in [Kinds -> Nat]
  BY SpendType DEF Crash, Kinds
<1>2. QED
  BY <1>1, RestartedType, Zenon DEF Crash, Restarted, TypeOK, apiServer

------------------------------------------------------------------------------
\* A worker's steps keep the types.

LEMMA RemoveAtType ==
  ASSUME NEW S, NEW s \in Seq(S), NEW i \in 1..Len(s)
  PROVE  RemoveAt(s, i) \in Seq(S)
<1>1. SubSeq(s, 1, i - 1) \in Seq(S) /\ SubSeq(s, i + 1, Len(s)) \in Seq(S)
  BY SubSeqProperties
<1>2. QED
  BY <1>1, ConcatProperties DEF RemoveAt

LEMMA RequeueType ==
  ASSUME TypeOK, NEW i \in 1..Len(delayed), Requeue(i)
  PROVE  TypeOK'
<1>1. delayed[i] \in Event /\ RemoveAt(delayed, i) \in Seq(Event)
  BY RemoveAtType, ElementOfSeq DEF TypeOK
<1>2. queue' \in Seq(Event) /\ delayed' \in Seq(Event)
  BY <1>1 DEF Requeue, TypeOK
<1>3. QED
  BY <1>2, Zenon DEF Requeue, TypeOK, apiServer, cloud, ghosts

LEMMA TakeType ==
  ASSUME TypeOK, NEW w \in Workers, Take(w)
  PROVE  TypeOK'
<1>1. Head(queue) \in Event /\ Tail(queue) \in Seq(Event)
  BY HeadTailProperties DEF TypeOK, Take
<1>2. worker' \in [Workers -> Worker]
  BY <1>1, BeginType, BecomeType DEF Take
<1>3. queue' \in Seq(Event)
  BY <1>1 DEF Take
<1>4. QED
  BY <1>2, <1>3, Zenon DEF Take, TypeOK, apiServer, cloud, ghosts

LEMMA StatusGetType ==
  ASSUME TypeOK, NEW w \in Workers, StatusGet(w)
  PROVE  TypeOK'
<1>1. worker[w] \in Worker
  BY DEF TypeOK
<1>2. CASE MyId(w) = NoId /\ Return(w, worker[w]) /\ UNCHANGED <<events, inst>>
  BY <1>1, <1>2, ReturnType, Zenon
  DEF StatusGet, TypeOK, apiServer, events, ghosts
<1>3. CASE Restarted
  BY <1>3, RestartedType, Zenon DEF StatusGet, TypeOK, apiServer, ghosts
<1>4. CASE /\ \E i \in Live :
                Become(w, [worker[w] EXCEPT !.pc = "us.put", !.obj.ip = inst[i].ip,
                                            !.obj.st = InstanceState(i)])
           /\ UNCHANGED <<events, inst>>
  <2>1. PICK i \in Instances :
          Become(w, [worker[w] EXCEPT !.pc = "us.put", !.obj.ip = inst[i].ip,
                                      !.obj.st = InstanceState(i)])
    BY <1>4 DEF Live
  <2>2. inst[i].ip \in Ips /\ InstanceState(i) \in States
    BY Zenon DEF TypeOK, Instance, InstanceState, States
  <2>3. [worker[w] EXCEPT !.pc = "us.put", !.obj.ip = inst[i].ip,
                          !.obj.st = InstanceState(i)] \in Worker
    BY <1>1, <2>2, Zenon DEF Worker, Pcs, Object
  <2>4. worker' \in [Workers -> Worker]
    BY <2>1, <2>3, BecomeType
  <2>5. QED
    BY <1>4, <2>4, Zenon DEF StatusGet, TypeOK, apiServer, events, ghosts
<1>5. QED
  BY <1>2, <1>3, <1>4 DEF StatusGet

LEMMA StatusPutType ==
  ASSUME TypeOK, NEW w \in Workers, StatusPut(w)
  PROVE  TypeOK'
<1>1. worker[w] \in Worker /\ worker[w].obj \in Object /\ "us.svc" \in Pcs
  BY Zenon DEF TypeOK, Worker, Pcs
<1>2. worker' \in [Workers -> Worker]
  BY <1>1, ReturnType, GotoType, Zenon DEF StatusPut
<1>3. cr' \in Object \cup {NoObject} /\ queue' \in Seq(Event)
  BY <1>1, StoreType, Zenon DEF StatusPut, TypeOK
<1>4. QED
  BY <1>2, <1>3, Zenon DEF StatusPut, TypeOK, cloud, ghosts

LEMMA StatusServiceType ==
  ASSUME TypeOK, NEW w \in Workers, StatusEndpoints(w) \/ StatusService(w)
  PROVE  TypeOK'
<1>1. worker[w] \in Worker /\ worker[w].obj.ip \in Ips /\ "us.svc2" \in Pcs
  BY Zenon DEF TypeOK, Worker, Pcs, Object
<1>2. worker' \in [Workers -> Worker]
  BY <1>1, ReturnType, GotoType, Zenon DEF StatusEndpoints, StatusService
<1>3. svc' \in BOOLEAN /\ eps' \in Ips
  BY <1>1, Zenon DEF StatusEndpoints, StatusService, TypeOK
<1>4. QED
  BY <1>2, <1>3, Zenon
  DEF StatusEndpoints, StatusService, TypeOK, cloud, events, ghosts

LEMMA GetByIdType ==
  ASSUME TypeOK, NEW w \in Workers, GetById(w)
  PROVE  TypeOK'
<1> DEFINE ret == IF worker[w].pc = "peek" THEN "wait" ELSE "next"
           ip == IF worker[w].op = "create" THEN inst[MyId(w)].ip
                 ELSE worker[w].obj.ip
<1>1. CASE Restarted
  BY <1>1, RestartedType, Zenon DEF GetById, TypeOK, apiServer, ghosts
<1>2. CASE /\ MyId(w) \in Live
           /\ Become(w, [worker[w] EXCEPT !.pc = "us.get", !.ret = ret,
                           !.obj.st = InstanceState(MyId(w)), !.obj.ip = ip])
           /\ UNCHANGED <<events, inst>>
  <2>1. worker[w] \in Worker /\ inst[MyId(w)] \in Instance
    BY <1>2 DEF TypeOK, Live
  <2>2. ip \in Ips /\ InstanceState(MyId(w)) \in States
    BY <2>1, Zenon DEF Instance, Worker, Object, InstanceState, States
  <2>3. ret \in {"decide", "call", "wait", "next"} /\ "us.get" \in Pcs
    BY Zenon DEF Pcs
  <2> HIDE DEF ip, ret
  <2>4. [worker[w] EXCEPT !.pc = "us.get", !.ret = ret,
           !.obj.st = InstanceState(MyId(w)), !.obj.ip = ip] \in Worker
    BY <2>1, <2>2, <2>3, Zenon DEF Worker, Object
  <2>5. worker' \in [Workers -> Worker]
    BY <1>2, <2>4, BecomeType
  <2>6. QED
    BY <1>2, <2>5, Zenon DEF GetById, TypeOK, apiServer, events, ghosts
<1>3. QED
  BY <1>1, <1>2, Zenon DEF GetById

LEMMA JobFailedType ==
  ASSUME TypeOK, NEW w \in Workers, JobFailed(w)
  PROVE  TypeOK'
BY FailType, Zenon DEF JobFailed, TypeOK, apiServer, cloud, ghosts

------------------------------------------------------------------------------
\* The steps of the handlers.

LEMMA GotoPcs == {"check", "decide", "call", "peek", "wait", "failed", "get"} \subseteq Pcs
BY Zenon DEF Pcs

LEMMA CheckExistsType ==
  ASSUME TypeOK, NEW w \in Workers, CheckExists(w)
  PROVE  TypeOK'
<1>1. worker' \in [Workers -> Worker] /\ delayed' \in Seq(Event)
  BY FinishType, GotoType, GotoPcs, Zenon DEF CheckExists, TypeOK
<1>2. QED
  BY <1>1, Zenon DEF CheckExists, TypeOK, apiServer, cloud, ghosts

LEMMA CreateCallType ==
  ASSUME TypeOK, NEW w \in Workers, NEW by \in Workers \cup {NoWorker},
         CreateCall(w, by)
  PROVE  inst' \in [Instances -> Instance] /\ owed' = owed
<1>1. PICK i \in Instances : Provision(i, worker[w].obj, by)
  BY DEF CreateCall
<1>2. worker[w].obj.vol \in Volumes /\ worker[w].obj.flavor \in Flavors
  BY Zenon DEF TypeOK, Worker, Object
<1>3. [Unborn EXCEPT !.phase = "live", !.job = "create", !.by = by,
         !.vol = worker[w].obj.vol, !.flavor = worker[w].obj.flavor,
         !.toVol = worker[w].obj.vol, !.toFlavor = worker[w].obj.flavor] \in Instance
  BY <1>2, UnbornType, Zenon DEF Instance, Jobs
<1>4. QED
  BY <1>1, <1>3 DEF CreateCall, Provision, TypeOK

LEMMA CreateInstanceType ==
  ASSUME TypeOK, NEW w \in Workers, CreateInstance(w)
  PROVE  TypeOK'
<1>1. CASE Fail(w) /\ UNCHANGED <<inst, owed>>
  BY <1>1, FailType, Zenon DEF CreateInstance, TypeOK, apiServer
<1>2. CASE /\ CreateCall(w, w)
           /\ \E i \in Instances :
                Become(w, [worker[w] EXCEPT !.pc = "us.get", !.ret = "wait",
                                            !.obj.id = i, !.obj.st = "BUSY"])
           /\ UNCHANGED delayed
  <2>1. PICK i \in Instances :
          Become(w, [worker[w] EXCEPT !.pc = "us.get", !.ret = "wait",
                                      !.obj.id = i, !.obj.st = "BUSY"])
    BY <1>2
  <2>2. i \in Ids /\ worker[w] \in Worker
    BY NumberFacts DEF TypeOK
  <2>3. [worker[w] EXCEPT !.pc = "us.get", !.ret = "wait",
                          !.obj.id = i, !.obj.st = "BUSY"] \in Worker
    BY <2>2, Zenon DEF Worker, Pcs, Object, States
  <2>4. worker' \in [Workers -> Worker]
    BY <2>1, <2>3, BecomeType
  <2>5. inst' \in [Instances -> Instance] /\ owed' = owed
    BY <1>2, CreateCallType
  <2>6. QED
    BY <1>2, <2>4, <2>5, Zenon DEF CreateInstance, TypeOK, apiServer
<1>3. QED
  BY <1>1, <1>2, Zenon DEF CreateInstance

LEMMA WaitOverType ==
  ASSUME TypeOK, NEW w \in Workers, Created(w) \/ Updated(w)
  PROVE  TypeOK'
<1>1. worker' \in [Workers -> Worker]
  BY GotoType, GotoPcs, Zenon DEF Created, Updated
<1>2. QED
  BY <1>1, Zenon DEF Created, Updated, TypeOK, apiServer, cloud, events, ghosts

LEMMA DeleteAlarmsType ==
  ASSUME TypeOK, NEW w \in Workers, DeleteAlarms(w)
  PROVE  TypeOK'
<1>1. worker[w] \in Worker /\ worker[w].obj.autopilot \in BOOLEAN
  BY Zenon DEF TypeOK, Worker, Object
<1>2. [worker[w] EXCEPT !.op = "backup"] \in Worker
  BY <1>1, Zenon DEF Worker, Ops
<1>3. worker' \in [Workers -> Worker] /\ delayed' \in Seq(Event)
  BY <1>2, FailType, BecomeType, Zenon DEF DeleteAlarms, TypeOK
<1>4. alarms' \in BOOLEAN
  BY <1>1, Zenon DEF DeleteAlarms, TypeOK
<1>5. QED
  BY <1>3, <1>4, Zenon DEF DeleteAlarms, TypeOK, apiServer, ghosts

\* Every call that starts a job writes an instance of the right type.
LEMMA StartJobType ==
  ASSUME TypeOK, NEW w \in Workers, NEW by \in Workers \cup {NoWorker},
         NEW kind \in Jobs, NEW vol, NEW flavor,
         StartJob(w, by, kind, vol, flavor),
         MyId(w) \in Instances => vol \in Volumes /\ flavor \in Flavors
  PROVE  inst' \in [Instances -> Instance]
<1>1. MyId(w) \in Instances /\ inst[MyId(w)] \in Instance
  BY DEF StartJob, Accepts, Live, TypeOK
<1> DEFINE i == MyId(w)
<1>2. inst' = [inst EXCEPT ![i] = [inst[i] EXCEPT !.job = kind, !.by = by,
                                     !.toVol = vol, !.toFlavor = flavor]]
  BY Zenon DEF StartJob
<1>3. [inst[i] EXCEPT !.job = kind, !.by = by, !.toVol = vol, !.toFlavor = flavor]
        \in Instance
  BY <1>1, Zenon DEF Instance
<1>4. QED
  BY <1>1, <1>2, <1>3 DEF TypeOK

LEMMA SizeTypes ==
  ASSUME TypeOK, NEW w \in Workers
  PROVE  /\ worker[w].obj.vol \in Volumes /\ worker[w].obj.flavor \in Flavors
         /\ MyId(w) \in Instances =>
              inst[MyId(w)].vol \in Volumes /\ inst[MyId(w)].flavor \in Flavors
<1>1. worker[w].obj.vol \in Volumes /\ worker[w].obj.flavor \in Flavors
  BY Zenon DEF TypeOK, Worker, Object
<1>2. \A i \in Instances : inst[i].vol \in Volumes /\ inst[i].flavor \in Flavors
  BY Zenon DEF TypeOK, Instance
<1>3. QED
  BY <1>1, <1>2

LEMMA DeleteCallType ==
  ASSUME TypeOK, NEW w \in Workers, NEW by \in Workers \cup {NoWorker},
         DeleteCall(w, by)
  PROVE  inst' \in [Instances -> Instance] /\ owed' = owed
<1>1. worker[w].op \in Jobs
  BY Zenon DEF DeleteCall, Jobs
<1>2. inst' \in [Instances -> Instance]
  BY <1>1, StartJobType, SizeTypes DEF DeleteCall
<1>3. QED
  BY <1>2 DEF DeleteCall

LEMMA BackupOrDeleteType ==
  ASSUME TypeOK, NEW w \in Workers, BackupOrDelete(w)
  PROVE  TypeOK'
<1>1. worker' \in [Workers -> Worker] /\ delayed' \in Seq(Event)
  BY FailType, GotoType, GotoPcs, Zenon DEF BackupOrDelete, TypeOK
<1>2. inst' \in [Instances -> Instance] /\ owed' = owed
  BY DeleteCallType, Zenon DEF BackupOrDelete, TypeOK
<1>3. QED
  BY <1>1, <1>2, Zenon DEF BackupOrDelete, TypeOK, apiServer

LEMMA BackupDoneType ==
  ASSUME TypeOK, NEW w \in Workers, BackupDone(w) \/ Deleted(w)
  PROVE  TypeOK'
<1>1. /\ [worker[w] EXCEPT !.op = "delete", !.pc = "call"] \in Worker
      /\ [worker[w] EXCEPT !.op = "service", !.pc = "call"] \in Worker
  BY Zenon DEF TypeOK, Worker, Pcs, Ops
<1>2. worker' \in [Workers -> Worker]
  BY <1>1, BecomeType, Zenon DEF BackupDone, Deleted
<1>3. QED
  BY <1>2, Zenon DEF BackupDone, Deleted, TypeOK, apiServer, cloud, events, ghosts

LEMMA DeleteServiceType ==
  ASSUME TypeOK, NEW w \in Workers, DeleteService(w)
  PROVE  TypeOK'
<1>1. worker' \in [Workers -> Worker] /\ delayed' \in Seq(Event)
  BY FinishType DEF DeleteService
<1>2. svc' \in BOOLEAN /\ eps' \in Ips
  BY NumberFacts, Zenon DEF DeleteService, TypeOK
<1>3. QED
  BY <1>1, <1>2, Zenon DEF DeleteService, TypeOK, cloud, ghosts

LEMMA DecideType ==
  ASSUME TypeOK, NEW w \in Workers, Decide(w)
  PROVE  TypeOK'
<1> DEFINE me == [worker[w] EXCEPT !.ev.new = worker[w].obj]
<1>1. worker[w] \in Worker /\ worker[w].obj \in Object
  BY Zenon DEF TypeOK, Worker
<1>2. me \in Worker /\ me.ev \in Event
  BY <1>1, Zenon DEF Worker, Event
<1>3. CASE Finish(w) /\ UNCHANGED <<queue, inst>>
  BY <1>3, FinishType, Zenon DEF Decide, TypeOK, apiServer, ghosts
<1>4. CASE Retry(w, me.ev) /\ UNCHANGED <<queue, inst>>
  <2> HIDE DEF me
  <2>1. QED
    BY <1>2, <1>4, RetryType, Zenon DEF Decide, TypeOK, apiServer, ghosts
<1>5. CASE Restarted
  BY <1>5, RestartedType, Zenon DEF Decide, TypeOK, apiServer, ghosts
<1>6. CASE /\ \E i \in Live : Proceed(w, [me EXCEPT !.vol = inst[i].vol,
                                                    !.flavor = inst[i].flavor])
           /\ UNCHANGED <<events, inst>>
  <2> HIDE DEF me
  <2>1. PICK i \in Instances : Proceed(w, [me EXCEPT !.vol = inst[i].vol,
                                                     !.flavor = inst[i].flavor])
    BY <1>6 DEF Live
  <2>2. inst[i].vol \in Volumes /\ inst[i].flavor \in Flavors
    BY Zenon DEF TypeOK, Instance
  <2>3. [me EXCEPT !.vol = inst[i].vol, !.flavor = inst[i].flavor] \in Worker
    BY <1>2, <2>2, Zenon DEF Worker
  <2>4. worker' \in [Workers -> Worker]
    BY <2>1, <2>3, ProceedType
  <2>5. QED
    BY <1>6, <2>4, Zenon DEF Decide, TypeOK, apiServer, events, ghosts
<1>7. QED
  BY <1>3, <1>4, <1>5, <1>6, Zenon DEF Decide

LEMMA UpdateCallType ==
  ASSUME TypeOK, NEW w \in Workers, NEW by \in Workers \cup {NoWorker},
         UpdateCall(w, by)
  PROVE  inst' \in [Instances -> Instance] /\ owed' \in [restart : Int, restore : Int]
<1>1. {"enlarge", "resize", "restart", "restore"} \subseteq Jobs
  BY DEF Jobs
<1>2. CASE Enlarge(w, by)
  BY <1>1, <1>2, StartJobType, SizeTypes DEF Enlarge, MyId, TypeOK
<1>3. CASE Resize(w, by)
  BY <1>1, <1>3, StartJobType, SizeTypes DEF Resize, MyId, TypeOK
<1>4. CASE Restart(w, by)
  <2>1. inst' \in [Instances -> Instance]
    BY <1>1, <1>4, StartJobType, SizeTypes DEF Restart
  <2>2. owed' \in [restart : Int, restore : Int]
    BY <1>4, SMT DEF Restart, TypeOK
  <2>3. QED
    BY <2>1, <2>2
<1>5. CASE Restore(w, by)
  <2>1. inst' \in [Instances -> Instance]
    BY <1>1, <1>5, StartJobType, SizeTypes DEF Restore
  <2>2. owed' \in [restart : Int, restore : Int]
    BY <1>5, SMT DEF Restore, TypeOK
  <2>3. QED
    BY <2>1, <2>2
<1>6. QED
  BY <1>2, <1>3, <1>4, <1>5 DEF UpdateCall

LEMMA CallCloudType ==
  ASSUME TypeOK, NEW w \in Workers, CallCloud(w)
  PROVE  TypeOK'
<1>1. worker' \in [Workers -> Worker] /\ delayed' \in Seq(Event)
  BY FailType, GotoType, GotoPcs, Zenon DEF CallCloud, TypeOK
<1>2. inst' \in [Instances -> Instance] /\ owed' \in [restart : Int, restore : Int]
  BY UpdateCallType, Zenon DEF CallCloud, TypeOK
<1>3. QED
  BY <1>1, <1>2, Zenon DEF CallCloud, TypeOK, apiServer

LEMMA FetchLogsType ==
  ASSUME TypeOK, NEW w \in Workers, FetchLogs(w)
  PROVE  TypeOK'
<1>1. worker' \in [Workers -> Worker] /\ delayed' \in Seq(Event)
  BY FinishType, FailType, Zenon DEF FetchLogs
<1>2. job' \in BOOLEAN
  BY Zenon DEF FetchLogs, TypeOK
<1>3. QED
  BY <1>1, <1>2, Zenon DEF FetchLogs, TypeOK, cloud, ghosts

LEMMA ChangeSqlUserType ==
  ASSUME TypeOK, NEW w \in Workers, ChangeSqlUser(w)
  PROVE  TypeOK'
<1> DEFINE o == worker[w].obj
<1>1. worker[w] \in Worker /\ o.dbs \in SUBSET Databases
  BY Zenon DEF TypeOK, Worker, Object
<1>2. CASE Fail(w) /\ UNCHANGED <<queue, inst>>
  BY <1>2, FailType, Zenon DEF ChangeSqlUser, TypeOK, apiServer, ghosts
<1>3. CASE Restarted
  BY <1>3, RestartedType, Zenon DEF ChangeSqlUser, TypeOK, apiServer, ghosts
<1>4. CASE /\ \E i \in Live :
                inst' = [inst EXCEPT ![i].users = TRUE, ![i].schemas = @ \cup o.dbs]
           /\ Proceed(w, worker[w])
           /\ UNCHANGED events
  <2>1. PICK i \in Instances :
          inst' = [inst EXCEPT ![i].users = TRUE, ![i].schemas = @ \cup o.dbs]
    BY <1>4 DEF Live
  <2>2. inst[i].schemas \cup o.dbs \in SUBSET Databases
    BY <1>1, Zenon DEF TypeOK, Instance
  <2>3. [inst[i] EXCEPT !.users = TRUE, !.schemas = @ \cup o.dbs] \in Instance
    <3>1. inst[i] \in Instance
      BY DEF TypeOK
    <3>2. QED
      BY <2>2, <3>1, Zenon DEF Instance
  <2>4. inst' = [inst EXCEPT ![i] = [inst[i] EXCEPT !.users = TRUE,
                                                    !.schemas = @ \cup o.dbs]]
    BY <2>1, Zenon DEF TypeOK
  <2>5. inst' \in [Instances -> Instance]
    BY <2>3, <2>4, Zenon DEF TypeOK
  <2>6. worker' \in [Workers -> Worker]
    BY <1>1, <1>4, ProceedType
  <2>7. QED
    BY <1>4, <2>5, <2>6, Zenon DEF ChangeSqlUser, TypeOK, apiServer, events, ghosts
<1>5. QED
  BY <1>2, <1>3, <1>4, Zenon DEF ChangeSqlUser

LEMMA SetAutopilotType ==
  ASSUME TypeOK, NEW w \in Workers, SetAutopilot(w)
  PROVE  TypeOK'
<1>1. CASE Restarted
  BY <1>1, RestartedType, Zenon DEF SetAutopilot, Restarted, TypeOK, apiServer, ghosts
<1>2. CASE ~Restarted
  <2>1. worker' \in [Workers -> Worker] /\ delayed' \in Seq(Event)
    BY <1>2, FinishType, FailType, Zenon DEF SetAutopilot
  <2>2. alarms' \in BOOLEAN /\ UNCHANGED <<queue, inst>>
    BY <1>2, Zenon DEF SetAutopilot, TypeOK
  <2>3. QED
    BY <2>1, <2>2, Zenon DEF SetAutopilot, TypeOK, apiServer, ghosts
<1>3. QED
  BY <1>1, <1>2

------------------------------------------------------------------------------
\* Failing calls and lost answers.

LEMMA CallFailsType ==
  ASSUME TypeOK, NEW w \in Workers, CallFails(w)
  PROVE  TypeOK'
<1>1. budget' \in [Kinds -> Nat]
  BY SpendType DEF CallFails, Kinds
<1>2. worker[w] \in Worker /\ worker[w].ev \in Event /\ worker[w].obj \in Object
  BY Zenon DEF TypeOK, Worker
<1>3. [worker[w].ev EXCEPT !.new = worker[w].obj] \in Event
  BY <1>2, Zenon DEF Event
<1>4. worker' \in [Workers -> Worker] /\ delayed' \in Seq(Event)
  <2>1. CASE Retry(w, worker[w].ev)
    BY <1>2, <2>1, RetryType
  <2>2. CASE Return(w, worker[w]) /\ UNCHANGED delayed
    BY <1>2, <2>2, ReturnType DEF TypeOK
  <2>3. CASE Finish(w)
    BY <2>3, FinishType
  <2>4. CASE Retry(w, [worker[w].ev EXCEPT !.new = worker[w].obj])
    BY <1>3, <2>4, RetryType
  <2>5. CASE Fail(w)
    BY <2>5, FailType
  <2>6. QED
    BY <2>1, <2>2, <2>3, <2>4, <2>5, Zenon DEF CallFails
<1>5. inst' \in [Instances -> Instance]
  <2>1. CASE UNCHANGED inst
    BY <2>1 DEF TypeOK
  <2>2. CASE inst' = [i \in Instances |->
               IF inst[i].by = w THEN [inst[i] EXCEPT !.by = NoWorker] ELSE inst[i]]
    <3>1. \A i \in Instances :
            inst[i] \in Instance /\ [inst[i] EXCEPT !.by = NoWorker] \in Instance
      BY UnpolledType DEF TypeOK
    <3>2. QED
      BY <2>2, <3>1
  <2>3. QED
    BY <2>1, <2>2, Zenon DEF CallFails
<1>6. QED
  BY <1>1, <1>4, <1>5, Zenon DEF CallFails, TypeOK, apiServer

LEMMA AnswerLostType ==
  ASSUME TypeOK, NEW w \in Workers, AnswerLost(w)
  PROVE  TypeOK'
<1>1. budget' \in [Kinds -> Nat]
  BY SpendType DEF AnswerLost, Kinds
<1>2. worker' \in [Workers -> Worker] /\ delayed' \in Seq(Event)
  BY FailType DEF AnswerLost
<1>3. inst' \in [Instances -> Instance] /\ owed' \in [restart : Int, restore : Int]
  BY CreateCallType, UpdateCallType, DeleteCallType, Zenon DEF AnswerLost, TypeOK
<1>4. QED
  BY <1>1, <1>2, <1>3, Zenon DEF AnswerLost, TypeOK, apiServer

------------------------------------------------------------------------------
LEMMA InitType == Init => TypeOK
<1> SUFFICES ASSUME Init PROVE TypeOK
  OBVIOUS
<1>1. PICK s \in Scenarios : Begins(s.start) /\ budget = s.budget
  BY DEF Init
<1>2. cr \in Object \cup {NoObject}
  BY <1>1, ManagedType DEF Begins
<1>3. svc \in BOOLEAN /\ eps \in Ips /\ job \in BOOLEAN
  BY <1>1, NumberFacts DEF Begins, Init
<1>4. inst \in [Instances -> Instance]
  BY <1>1, UnbornType DEF Begins
<1>5. queue \in Seq(Event) /\ delayed \in Seq(Event)
  <2>1. AddEvent(Managed) \in Event
    BY ManagedType, EventTypes
  <2>2. <<AddEvent(Managed)>> \in Seq(Event) /\ <<>> \in Seq(Event)
    BY <2>1
  <2>3. QED
    BY <1>1, <2>2 DEF Begins, Init
<1>6. worker \in [Workers -> Worker]
  BY IdleWorkerType DEF Init
<1>7. owed \in [restart : Int, restore : Int]
  BY DEF Init
<1>8. budget \in [Kinds -> Nat]
  BY <1>1, ScenariosAreSome DEF Scenario
<1>9. QED
  BY <1>2, <1>3, <1>4, <1>5, <1>6, <1>7, <1>8 DEF Init, TypeOK

LEMMA NextType == TypeOK /\ [Next]_vars => TypeOK'
<1> SUFFICES ASSUME TypeOK, [Next]_vars PROVE TypeOK'
  OBVIOUS
<1>1. ASSUME NEW w \in Workers, Step(w) PROVE TypeOK'
  BY <1>1, TakeType, StatusGetType, StatusPutType, StatusServiceType, GetByIdType,
     JobFailedType, CheckExistsType, CreateInstanceType, WaitOverType,
     DeleteAlarmsType, BackupOrDeleteType, BackupDoneType, DeleteServiceType,
     DecideType, CallCloudType, FetchLogsType, ChangeSqlUserType, SetAutopilotType
  DEF Step, UpdateStatus, Create, Update, Delete
<1>2. ASSUME NEW w \in Workers, CallFails(w) \/ AnswerLost(w) PROVE TypeOK'
  BY <1>2, CallFailsType, AnswerLostType
<1>3. ASSUME NEW i \in 1..Len(delayed), Requeue(i) PROVE TypeOK'
  BY <1>3, RequeueType
<1>4. CASE Environment
  BY <1>4, JobDoneType, JobFailsType, MoveIpType, UserCreateType, UserDeleteType,
     UserEditType, ResyncType, CrashType DEF Environment
<1>5. CASE UNCHANGED vars
  BY <1>5, Zenon DEF vars, apiServer, cloud, events, ghosts, TypeOK
<1>6. QED
  BY <1>1, <1>2, <1>3, <1>4, <1>5 DEF Next

\* Whatever the users, the cloud and the workers do, every variable keeps to its
\* type: no handler leaves a worker at a step that is not one of its own, or an
\* object that the API server could not hold.
THEOREM TypeCorrect == Spec => []TypeOK
<1>1. QED
  BY InitType, NextType, PTL DEF Spec

==============================================================================
