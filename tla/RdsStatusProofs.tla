--------------------------- MODULE RdsStatusProofs ---------------------------
(***************************************************************************)
(* What UpdateStatus leaves behind, for every value of the constants.      *)
(*                                                                         *)
(* First the resource: it is written whole, from a copy of any age, and    *)
(* yet no edit is lost (RdsOperator's NoLostEdit) and no id written over   *)
(* (IdIsPermanent), because each copy that the API server accepts is that  *)
(* of the stored version but for what its handler did: CopiesInv.  Over    *)
(* CondemnedInv, which says that the instance that a resource names is     *)
(* there, so that Create finds it.                                         *)
(*                                                                         *)
(* Then the Service, which has an address behind it (ServiceHasEndpoints): *)
(* the Endpoints and the Service are created by two calls, between which   *)
(* other handlers create them too or remove the Service; ServiceInv says   *)
(* what holds in between.                                                  *)
(***************************************************************************)
EXTENDS RdsPromiseProofs

Begun == {i \in Instances : inst[i].phase # "unborn"}
Given(i) == i \in Begun \cup {NoId}

\* A copy of the stored version differs from it only by what its handler did: it
\* has the id of the instance it created, no request that is not stored, and the
\* autopilot's flag.
Faithful(o) ==
    cr # NoObject /\ o.rv = cr.rv =>
      /\ o.vol = cr.vol /\ o.flavor = cr.flavor
      /\ o.dbs = cr.dbs /\ o.users = cr.users /\ o.endpoint = cr.endpoint
      /\ o.id = cr.id \/ (cr.id = NoId /\ o.id \notin released \cup condemned)
      /\ (o.restore => cr.restore) /\ (o.reboot => cr.reboot) /\ (o.logs => cr.logs)
      /\ (cr.autopilot => o.autopilot)

Copy(o) == Given(o.id) /\ Faithful(o)

\* A handler that is about to create an instance has no copy of a stored version
\* that names one.
Making(me) ==
    /\ me.op = "create" => me.ret # "call"
    /\ me.op = "create" /\ me.pc = "call" /\ cr # NoObject /\ me.obj.rv = cr.rv =>
         cr.id = NoId

Holding(me) == Copy(me.obj) /\ Copy(me.ev.new) /\ Making(me)

\* A handler that has not created an instance, but may do so.
Asks(me) == me.op = "create" /\ me.pc \in {"check", "call"}

Carried == {e \in Event : Copy(e.new)}

StoredOK == cr # NoObject => cr.rv # 0 /\ Given(cr.id) /\ cr.id \notin condemned
PastOK == released \cup condemned \subseteq Begun

CopiesInv ==
    /\ CondemnedInv
    /\ queue \in Seq(Carried) /\ delayed \in Seq(Carried)
    /\ \A w \in Workers : Holding(worker[w])
    /\ StoredOK /\ PastOK

------------------------------------------------------------------------------
\* Copies.

Alike(p, o) ==
    /\ p.rv = o.rv /\ p.vol = o.vol /\ p.flavor = o.flavor /\ p.id = o.id
    /\ p.dbs = o.dbs /\ p.users = o.users /\ p.endpoint = o.endpoint
    /\ (p.restore => o.restore) /\ (p.reboot => o.reboot) /\ (p.logs => o.logs)
    /\ (o.autopilot => p.autopilot)

LEMMA AlikeCopy ==
  ASSUME NEW o, NEW p, Copy(o), Alike(p, o)
  PROVE  Copy(p)
BY Zenon DEF Copy, Given, Faithful, Alike

LEMMA MarkedAlike ==
  ASSUME NEW o \in Object, NEW op
  PROVE  Alike(Marked(o, op), o)
BY Zenon DEF Marked, Object, Alike

LEMMA SeenAlike ==
  ASSUME NEW o \in Object, NEW st, NEW ip
  PROVE  Alike([o EXCEPT !.ip = ip, !.st = st], o)
BY Zenon DEF Object, Alike

LEMMA FirstCopy ==
  ASSUME StoredOK
  PROVE  Copy(FirstObject)
<1>1. FirstObject.rv = 0 /\ FirstObject.id = NoId
  BY DEF FirstObject
<1>2. QED
  BY <1>1, Zenon DEF Copy, Given, Faithful, StoredOK

LEMMA StoredCopy ==
  ASSUME CopiesInv, cr # NoObject
  PROVE  Copy(cr)
BY Zenon DEF Copy, Faithful, CopiesInv, StoredOK

LEMMA Types ==
  ASSUME CopiesInv
  PROVE  /\ TypeOK
         /\ \A w \in Workers : /\ worker[w] \in Worker /\ worker[w].obj \in Object
                               /\ worker[w].ev \in Event /\ worker[w].ev.new \in Object
         /\ cr # NoObject => cr \in Object
<1>1. TypeOK
  BY DEF CopiesInv, CondemnedInv, BackupInv
<1>2. ASSUME NEW w \in Workers
      PROVE  /\ worker[w] \in Worker /\ worker[w].obj \in Object
             /\ worker[w].ev \in Event /\ worker[w].ev.new \in Object
  <2>1. worker[w] \in Worker
    BY <1>1 DEF TypeOK
  <2>2. worker[w].obj \in Object /\ worker[w].ev \in Event
    BY <2>1, Zenon DEF Worker
  <2>3. QED
    BY <2>1, <2>2, Zenon DEF Event
<1>3. QED
  BY <1>1, <1>2, Zenon DEF TypeOK

------------------------------------------------------------------------------
\* Workers.

\* A worker goes on with a good copy, and does not come to ask for an instance
\* unless it takes an event or has just looked one up.
Comes(w) == \E me : Holding(me) /\ Become(w, me)
Holds(w) == \E me : Holding(me) /\ ~Asks(me) /\ Become(w, me)
AllHold == \A v \in Workers : Holding(worker'[v])

LEMMA BecomeHold ==
  ASSUME CopiesInv, NEW w \in Workers, Holds(w) \/ Comes(w)
  PROVE  AllHold
<1>1. PICK me : Holding(me) /\ Become(w, me)
  BY DEF Holds, Comes
<1>2. worker'[w] = me /\ \A v \in Workers \ {w} : worker'[v] = worker[v]
  BY <1>1, Types, Zenon DEF Become, TypeOK
<1>3. ASSUME NEW v \in Workers PROVE Holding(worker'[v])
  <2>1. worker'[v] = me \/ worker'[v] = worker[v]
    BY <1>2
  <2>2. CASE worker'[v] = me
    BY <1>1, <2>2
  <2>3. CASE worker'[v] = worker[v]
    BY <2>3 DEF CopiesInv
  <2>4. QED
    BY <2>1, <2>2, <2>3
<1>4. QED
  BY <1>3 DEF AllHold

LEMMA IdleHolding ==
  ASSUME StoredOK
  PROVE  Holding(IdleWorker)
<1>1. /\ IdleWorker.obj = FirstObject /\ IdleWorker.ev = AddEvent(FirstObject)
      /\ IdleWorker.op = "none"
  BY DEF IdleWorker
<1>2. IdleWorker.ev.new = FirstObject
  BY <1>1, SMT DEF AddEvent
<1>3. Making(IdleWorker)
  BY <1>1, SMT DEF Making
<1>4. QED
  BY <1>1, <1>2, <1>3, FirstCopy DEF Holding

LEMMA EndHolds ==
  ASSUME CopiesInv, NEW w \in Workers, NEW e,
         Finish(w) \/ Retry(w, e) \/ Fail(w) \/ Become(w, IdleWorker)
  PROVE  Holds(w)
<1>1. Holding(IdleWorker)
  BY IdleHolding DEF CopiesInv
<1>2. ~Asks(IdleWorker)
  BY SMT DEF IdleWorker, Asks
<1>3. QED
  BY <1>1, <1>2, Zenon DEF Finish, Retry, Fail, Holds

LEMMA RestartedHold ==
  ASSUME CopiesInv, Restarted
  PROVE  AllHold
<1>1. Holding(IdleWorker)
  BY IdleHolding DEF CopiesInv
<1>2. \A v \in Workers : worker'[v] = IdleWorker
  BY DEF Restarted
<1>3. QED
  BY <1>1, <1>2 DEF AllHold

\* A step inside a handler: it keeps its event.
LEMMA KeepHolds ==
  ASSUME CopiesInv, NEW w \in Workers, NEW me,
         Alike(me.obj, worker[w].obj), me.ev = worker[w].ev,
         me.pc \notin {"check", "call"} \/ me.op # "create",
         me.ret # "call" \/ me.op # "create",
         Become(w, me)
  PROVE  Holds(w)
<1>1. Copy(worker[w].obj) /\ Copy(worker[w].ev.new)
  BY DEF CopiesInv, Holding
<1>2. Copy(me.obj) /\ Copy(me.ev.new)
  BY <1>1, AlikeCopy
<1>3. Making(me) /\ ~Asks(me)
  BY Zenon DEF Making, Asks
<1>4. QED
  BY <1>2, <1>3 DEF Holding, Holds

LEMMA SelfAlike == \A o : Alike(o, o)
BY Zenon DEF Alike

LEMMA RetKept ==
  ASSUME CopiesInv, NEW w \in Workers
  PROVE  worker[w].ret # "call" \/ worker[w].op # "create"
BY Zenon DEF CopiesInv, Holding, Making

LEMMA GotoHolds ==
  ASSUME CopiesInv, NEW w \in Workers, NEW pc, Goto(w, pc),
         pc \notin {"check", "call"} \/ worker[w].op # "create"
  PROVE  Holds(w)
<1> DEFINE me == [worker[w] EXCEPT !.pc = pc]
<1>1. /\ me.obj = worker[w].obj /\ me.ev = worker[w].ev /\ me.op = worker[w].op
      /\ me.ret = worker[w].ret /\ me.pc = pc
  BY Types, Zenon DEF Worker
<1>2. Become(w, me)
  BY DEF Goto
<1> HIDE DEF me
<1>3. Alike(me.obj, worker[w].obj)
  BY <1>1, SelfAlike
<1>4. QED
  BY <1>1, <1>2, <1>3, RetKept, KeepHolds

LEMMA ProceedHolds ==
  ASSUME CopiesInv, NEW w \in Workers, NEW me \in Worker, Holding(me), Proceed(w, me)
  PROVE  Holds(w)
<1>1. CASE Become(w, IdleWorker)
  BY <1>1, EndHolds
<1>2. CASE \E op \in UpdateOps : Become(w, Enter(me, op))
  <2>1. PICK op \in UpdateOps : Become(w, Enter(me, op))
    BY <1>2
  <2>2. /\ Enter(me, op).obj = Marked(me.obj, op) /\ Enter(me, op).ev = me.ev
        /\ Enter(me, op).op = op
    BY Zenon DEF Enter, Worker
  <2>3. Copy(Marked(me.obj, op))
    <3>1. me.obj \in Object
      BY Zenon DEF Worker
    <3>2. QED
      BY <3>1, MarkedAlike, AlikeCopy DEF Holding
  <2>4. op # "create"
    BY SMT DEF UpdateOps
  <2>5. Holding(Enter(me, op)) /\ ~Asks(Enter(me, op))
    BY <2>2, <2>3, <2>4, Zenon DEF Holding, Making, Asks
  <2>6. QED
    BY <2>1, <2>5, Zenon DEF Holds
<1>3. QED
  BY <1>1, <1>2 DEF Proceed

LEMMA ReturnHolds ==
  ASSUME CopiesInv, NEW w \in Workers, Return(w, worker[w])
  PROVE  Holds(w)
<1>1. CASE worker[w].ret = "next"
  BY <1>1, Types, ProceedHolds DEF Return, CopiesInv
<1>2. CASE worker[w].ret # "next"
  <2>1. Goto(w, worker[w].ret)
    BY <1>2 DEF Return, Goto
  <2>2. worker[w].ret # "check"
    BY Types, SMT DEF Worker
  <2>3. QED
    BY <2>1, <2>2, RetKept, GotoHolds
<1>3. QED
  BY <1>1, <1>2

LEMMA TakeHolds ==
  ASSUME CopiesInv, NEW w \in Workers, Take(w)
  PROVE  Comes(w)
<1> DEFINE e == Head(queue)
           me == Begin(e)
<1>1. e \in Carried
  BY HeadTailProperties DEF Take, CopiesInv
<1>2. e \in Event /\ Copy(e.new)
  BY <1>1 DEF Carried
<1>3. me.ev = e /\ me.obj = e.new /\ me.ret = "decide"
  BY DEF Begin
<1>4. me.op = "create" => me.pc # "call"
  BY <1>2, SMT DEF Begin, Event
<1>5. Become(w, me)
  BY DEF Take
<1> HIDE DEF me, e
<1>6. Making(me)
  BY <1>3, <1>4, SMT DEF Making
<1>7. QED
  BY <1>2, <1>3, <1>5, <1>6, Zenon DEF Holding, Comes

LEMMA StatusHolds ==
  ASSUME CopiesInv, NEW w \in Workers,
         StatusGet(w) \/ StatusEndpoints(w) \/ StatusService(w), ~Restarted
  PROVE  Holds(w)
<1>1. CASE Return(w, worker[w])
  BY <1>1, ReturnHolds
<1>2. CASE Goto(w, "us.svc2")
  BY <1>2, GotoHolds
<1>3. CASE \E i \in Live :
             Become(w, [worker[w] EXCEPT !.pc = "us.put", !.obj.ip = inst[i].ip,
                                         !.obj.st = InstanceState(i)])
  <2>1. PICK i \in Live :
          Become(w, [worker[w] EXCEPT !.pc = "us.put", !.obj.ip = inst[i].ip,
                                      !.obj.st = InstanceState(i)])
    BY <1>3
  <2> DEFINE me == [worker[w] EXCEPT !.pc = "us.put", !.obj.ip = inst[i].ip,
                                     !.obj.st = InstanceState(i)]
             o == worker[w].obj
  <2>2. /\ me.op = worker[w].op /\ me.ev = worker[w].ev /\ me.ret = worker[w].ret
        /\ me.pc = "us.put"
        /\ me.obj = [o EXCEPT !.ip = inst[i].ip, !.st = InstanceState(i)]
    BY Types, Zenon DEF Worker, Object
  <2>3. Become(w, me)
    BY <2>1
  <2>4. Alike([o EXCEPT !.ip = inst[i].ip, !.st = InstanceState(i)], o)
    BY Types, SeenAlike
  <2> HIDE DEF me
  <2>5. Alike(me.obj, worker[w].obj)
    BY <2>2, <2>4
  <2>6. QED
    BY <2>2, <2>3, <2>5, RetKept, KeepHolds
<1>4. QED
  BY <1>1, <1>2, <1>3, Zenon DEF StatusGet, StatusEndpoints, StatusService

LEMMA GetByIdHolds ==
  ASSUME CopiesInv, NEW w \in Workers, GetById(w), ~Restarted
  PROVE  Holds(w)
<1> DEFINE ret == IF worker[w].pc = "peek" THEN "wait" ELSE "next"
           ip == IF worker[w].op = "create" THEN inst[MyId(w)].ip
                 ELSE worker[w].obj.ip
           st == InstanceState(MyId(w))
           o == worker[w].obj
           me == [worker[w] EXCEPT !.pc = "us.get", !.ret = ret,
                    !.obj.st = st, !.obj.ip = ip]
<1>1. Become(w, me)
  BY Zenon DEF GetById
<1>2. /\ me.op = worker[w].op /\ me.ev = worker[w].ev /\ me.ret = ret
      /\ me.pc = "us.get" /\ me.obj = [o EXCEPT !.st = st, !.ip = ip]
  <2>1. worker[w] \in Worker /\ o \in Object
    BY Types
  <2> HIDE DEF ret, st, ip
  <2>2. me.op = worker[w].op /\ me.ev = worker[w].ev
    BY <2>1, Zenon DEF Worker
  <2>3. me.ret = ret /\ me.pc = "us.get"
    BY <2>1, Zenon DEF Worker
  <2>4. me.obj = [o EXCEPT !.st = st, !.ip = ip]
    BY <2>1, Zenon DEF Worker, Object
  <2>5. QED
    BY <2>2, <2>3, <2>4
<1>3. Alike([o EXCEPT !.st = st, !.ip = ip], o)
  <2>1. o \in Object
    BY Types
  <2> HIDE DEF st, ip, o
  <2>2. QED
    BY <2>1, Zenon DEF Object, Alike
<1>4. ret # "call"
  BY SMT
<1> HIDE DEF me, ret
<1>5. Alike(me.obj, worker[w].obj)
  BY <1>2, <1>3
<1>6. QED
  BY <1>1, <1>2, <1>4, <1>5, KeepHolds

\* What Decide puts into the event is a copy as good as that of the handler.
LEMMA DecideHolds ==
  ASSUME CopiesInv, NEW w \in Workers, Decide(w), ~Restarted
  PROVE  Holds(w)
<1> DEFINE me == [worker[w] EXCEPT !.ev.new = worker[w].obj]
<1>1. CASE Finish(w) \/ Retry(w, me.ev)
  <2> HIDE DEF me
  <2>1. QED
    BY <1>1, EndHolds, Zenon
<1>2. CASE \E i \in Live : Proceed(w, [me EXCEPT !.vol = inst[i].vol,
                                                 !.flavor = inst[i].flavor])
  <2>1. /\ me \in Worker /\ me.op = worker[w].op /\ me.obj = worker[w].obj
        /\ me.pc = worker[w].pc /\ me.ret = worker[w].ret
        /\ me.ev.new = worker[w].obj
    BY Types, Zenon DEF Worker, Event
  <2> HIDE DEF me
  <2>2. PICK i \in Instances : Proceed(w, [me EXCEPT !.vol = inst[i].vol,
                                                     !.flavor = inst[i].flavor])
    BY <1>2 DEF Live
  <2>3. inst[i].vol \in Volumes /\ inst[i].flavor \in Flavors
    BY Types, Zenon DEF TypeOK, Instance
  <2> DEFINE now == [me EXCEPT !.vol = inst[i].vol, !.flavor = inst[i].flavor]
  <2>4. /\ now \in Worker /\ now.op = me.op /\ now.ev = me.ev /\ now.obj = me.obj
        /\ now.pc = me.pc /\ now.ret = me.ret
    BY <2>1, <2>3, Zenon DEF Worker
  <2>5. Proceed(w, now)
    BY <2>2
  <2> HIDE DEF now
  <2>6. Holding(worker[w])
    BY DEF CopiesInv
  <2>7. Making(now)
    BY <2>1, <2>4, <2>6, Zenon DEF Holding, Making
  <2>8. Holding(now)
    BY <2>1, <2>4, <2>6, <2>7, Zenon DEF Holding
  <2>9. QED
    BY <2>4, <2>5, <2>8, ProceedHolds
<1>3. QED
  BY <1>1, <1>2, Zenon DEF Decide

LEMMA UpdateHolds ==
  ASSUME CopiesInv, NEW w \in Workers, Update(w), ~Restarted
  PROVE  Holds(w)
<1>1. CASE Decide(w)
  BY <1>1, DecideHolds
<1>2. CASE CallCloud(w)
  <2>1. CASE Goto(w, IF worker[w].op = "restore" THEN "peek" ELSE "wait")
    <3>1. CASE Goto(w, "peek") \/ Goto(w, "wait")
      BY <3>1, GotoHolds
    <3>2. QED
      BY <2>1, <3>1
  <2>2. QED
    BY <1>2, <2>1, EndHolds, Zenon DEF CallCloud
<1>3. CASE Updated(w)
  BY <1>3, GotoHolds, Zenon DEF Updated
<1>4. CASE FetchLogs(w) \/ SetAutopilot(w)
  BY <1>4, EndHolds, Zenon DEF FetchLogs, SetAutopilot
<1>5. CASE ChangeSqlUser(w)
  <2>1. worker[w] \in Worker /\ Holding(worker[w])
    BY Types DEF CopiesInv
  <2>2. QED
    BY <1>5, <2>1, ProceedHolds, EndHolds, Zenon DEF ChangeSqlUser
<1>6. QED
  BY <1>1, <1>2, <1>3, <1>4, <1>5 DEF Update

LEMMA DeleteHolds ==
  ASSUME CopiesInv, NEW w \in Workers, Delete(w)
  PROVE  Holds(w)
<1>1. CASE Finish(w) \/ Fail(w)
  BY <1>1, EndHolds, Zenon
<1>2. ASSUME NEW op, NEW pc, op # "create",
             Become(w, [worker[w] EXCEPT !.op = op, !.pc = pc])
      PROVE  Holds(w)
  <2> DEFINE me == [worker[w] EXCEPT !.op = op, !.pc = pc]
  <2>1. me.obj = worker[w].obj /\ me.ev = worker[w].ev /\ me.op = op
    BY Types, Zenon DEF Worker
  <2>2. Become(w, me)
    BY <1>2
  <2> HIDE DEF me
  <2>3. Alike(me.obj, worker[w].obj)
    BY <2>1, SelfAlike
  <2>4. QED
    BY <1>2, <2>1, <2>2, <2>3, KeepHolds
<1>3. CASE DeleteAlarms(w) /\ Become(w, [worker[w] EXCEPT !.op = "backup"])
  <2>1. [worker[w] EXCEPT !.op = "backup"]
          = [worker[w] EXCEPT !.op = "backup", !.pc = worker[w].pc]
    BY Types, Zenon DEF Worker
  <2>2. QED
    BY <1>2, <1>3, <2>1
<1>4. CASE BackupDone(w) \/ Deleted(w)
  BY <1>2, <1>4 DEF BackupDone, Deleted
<1>5. CASE DeleteCall(w, w) /\ Goto(w, "wait")
  BY <1>5, GotoHolds
<1>6. QED
  BY <1>1, <1>3, <1>4, <1>5, Zenon
  DEF Delete, DeleteAlarms, BackupOrDelete, DeleteService

\* An instance that the stored version names is found by its name.
LEMMA NamedIsFound ==
  ASSUME CopiesInv, cr # NoObject, cr.id # NoId
  PROVE  FoundByName
<1>1. cr.id \in Instances /\ inst[cr.id].phase # "unborn" /\ cr.id \notin condemned
  BY Zenon DEF CopiesInv, StoredOK, Given, Begun
<1>2. inst[cr.id].phase # "gone"
  BY <1>1, Zenon DEF CopiesInv, CondemnedInv, Ending
<1>3. inst[cr.id].phase \in {"unborn", "live", "gone"}
  BY <1>1, Types, Zenon DEF TypeOK, Instance
<1>4. cr.id \in Live
  BY <1>1, <1>2, <1>3 DEF Live
<1>5. QED
  BY <1>4 DEF FoundByName

LEMMA CheckHolds ==
  ASSUME CopiesInv, NEW w \in Workers, CheckExists(w)
  PROVE  Holds(w) \/ Comes(w)
<1>1. CASE Finish(w)
  BY <1>1, EndHolds
<1>2. CASE ~FoundByName /\ Goto(w, "call")
  <2> DEFINE me == [worker[w] EXCEPT !.pc = "call"]
  <2>1. /\ me.obj = worker[w].obj /\ me.ev = worker[w].ev /\ me.op = worker[w].op
        /\ me.ret = worker[w].ret
    BY Types, Zenon DEF Worker
  <2>2. Become(w, me)
    BY <1>2 DEF Goto
  <2> HIDE DEF me
  <2>3. cr # NoObject => cr.id = NoId
    BY <1>2, NamedIsFound
  <2>4. Holding(worker[w])
    BY DEF CopiesInv
  <2>5. Making(me)
    BY <2>1, <2>3, <2>4, Zenon DEF Making, Holding
  <2>6. QED
    BY <2>1, <2>2, <2>4, <2>5, Zenon DEF Holding, Comes
<1>3. QED
  BY <1>1, <1>2 DEF CheckExists

LEMMA CallFailsHold ==
  ASSUME CopiesInv, NEW w \in Workers, CallFails(w) \/ AnswerLost(w)
  PROVE  Holds(w)
<1>1. CASE Return(w, worker[w])
  BY <1>1, ReturnHolds
<1>2. QED
  BY <1>1, EndHolds, Zenon DEF CallFails, AnswerLost

LEMMA JobFailsHold ==
  ASSUME CopiesInv, NEW i \in Instances, JobFails(i)
  PROVE  AllHold
<1>1. CASE worker' = worker
  BY <1>1, Zenon DEF AllHold, CopiesInv
<1>2. CASE /\ inst[i].by \in Workers
           /\ worker' = [worker EXCEPT ![inst[i].by].pc = "failed"]
  <2> DEFINE w == inst[i].by
  <2>1. w \in Workers /\ Goto(w, "failed")
    BY <1>2, Zenon DEF Become, Goto
  <2> HIDE DEF w
  <2>2. Holds(w)
    BY <2>1, GotoHolds
  <2>3. QED
    BY <2>1, <2>2, BecomeHold
<1>3. QED
  BY <1>1, <1>2, Zenon DEF JobFails

------------------------------------------------------------------------------
\* The queues, as long as no version is stored.

Carry == queue' \in Seq(Carried) /\ delayed' \in Seq(Carried)

LEMMA CarriedAgain ==
  ASSUME CopiesInv, NEW w \in Workers, NEW e \in Carried, Retry(w, e)
  PROVE  delayed' \in Seq(Carried)
<1> DEFINE again == [e EXCEPT !.n = @ + 1]
<1>1. again \in Event /\ again.new = e.new
  BY SMT DEF Event, Carried
<1>2. again \in Carried
  BY <1>1 DEF Carried
<1> HIDE DEF again
<1>3. delayed \in Seq(Carried)
  BY DEF CopiesInv
<1>4. Append(delayed, e) \in Seq(Carried) /\ Append(delayed, again) \in Seq(Carried)
  BY <1>2, <1>3
<1>5. QED
  BY <1>3, <1>4, Zenon DEF Retry, again

LEMMA EventCarried ==
  ASSUME CopiesInv, NEW w \in Workers
  PROVE  /\ worker[w].ev \in Carried
         /\ [worker[w].ev EXCEPT !.new = worker[w].obj] \in Carried
<1>1. worker[w].ev \in Event /\ worker[w].obj \in Object
  BY Types
<1>2. Copy(worker[w].ev.new) /\ Copy(worker[w].obj)
  BY DEF CopiesInv, Holding
<1> DEFINE e == [worker[w].ev EXCEPT !.new = worker[w].obj]
<1>3. e \in Event /\ e.new = worker[w].obj
  BY <1>1, Zenon DEF Event
<1> HIDE DEF e
<1>4. e \in Carried
  BY <1>2, <1>3 DEF Carried
<1>5. QED
  BY <1>1, <1>2, <1>4 DEF Carried, e

LEMMA EndCarries ==
  ASSUME CopiesInv, NEW w \in Workers, Finish(w) \/ Fail(w)
  PROVE  delayed' \in Seq(Carried)
<1>1. CASE UNCHANGED delayed
  BY <1>1 DEF CopiesInv
<1>2. CASE Retry(w, worker[w].ev)
  BY <1>2, EventCarried, CarriedAgain
<1>3. QED
  BY <1>1, <1>2 DEF Finish, Fail

LEMMA SameCarries ==
  ASSUME CopiesInv
  PROVE  /\ UNCHANGED queue => queue' \in Seq(Carried)
         /\ UNCHANGED delayed => delayed' \in Seq(Carried)
BY DEF CopiesInv

LEMMA RestartedCarries ==
  ASSUME CopiesInv, Restarted
  PROVE  Carry
<1>1. CASE cr = NoObject
  BY <1>1 DEF Restarted, Carry
<1>2. CASE cr # NoObject
  <2>1. AddEvent(cr) \in Event
    BY <1>2, Types, EventTypes
  <2>2. AddEvent(cr).new = cr
    BY SMT DEF AddEvent
  <2>3. AddEvent(cr) \in Carried
    BY <1>2, <2>1, <2>2, StoredCopy DEF Carried
  <2>4. <<AddEvent(cr)>> \in Seq(Carried)
    BY <2>3
  <2>5. QED
    BY <1>2, <2>4 DEF Restarted, Carry
<1>3. QED
  BY <1>1, <1>2

LEMMA TakeCarries ==
  ASSUME CopiesInv, NEW w \in Workers, Take(w)
  PROVE  Carry
<1>1. Tail(queue) \in Seq(Carried)
  BY HeadTailProperties DEF Take, CopiesInv
<1>2. QED
  BY <1>1, SameCarries, Zenon DEF Take, Carry

LEMMA RequeueCarries ==
  ASSUME CopiesInv, NEW i \in 1..Len(delayed), Requeue(i)
  PROVE  Carry
<1>1. delayed \in Seq(Carried) /\ queue \in Seq(Carried)
  BY DEF CopiesInv
<1>2. delayed[i] \in Carried /\ RemoveAt(delayed, i) \in Seq(Carried)
  BY <1>1, RemoveAtType, ElementOfSeq
<1>3. Append(queue, delayed[i]) \in Seq(Carried)
  BY <1>1, <1>2
<1>4. QED
  BY <1>2, <1>3 DEF Requeue, Carry

LEMMA ResyncCarries ==
  ASSUME CopiesInv, Resync
  PROVE  Carry
<1> DEFINE e == UpdateEvent(cr, cr, TRUE)
<1>1. cr # NoObject /\ cr \in Object /\ Copy(cr)
  BY Types, StoredCopy DEF Resync
<1>2. e \in Event /\ e.new = cr
  BY <1>1, EventTypes DEF UpdateEvent
<1>3. queue' = Append(queue, e) /\ UNCHANGED delayed
  BY DEF Resync
<1> HIDE DEF e
<1>4. e \in Carried
  BY <1>1, <1>2 DEF Carried
<1>5. queue' \in Seq(Carried)
  BY <1>3, <1>4 DEF CopiesInv
<1>6. QED
  BY <1>3, <1>5, SameCarries DEF Carry

LEMMA StepCarries ==
  ASSUME CopiesInv, NEW w \in Workers, Step(w), ~StatusPut(w)
  PROVE  Carry
<1>1. CASE Restarted
  BY <1>1, RestartedCarries
<1>2. CASE UNCHANGED <<queue, delayed>>
  BY <1>2, SameCarries, Zenon DEF Carry
<1>3. CASE (Finish(w) \/ Fail(w)) /\ UNCHANGED queue
  BY <1>3, SameCarries, EndCarries, Zenon DEF Carry
<1>4. CASE Take(w)
  BY <1>4, TakeCarries
<1>5. CASE UpdateStatus(w)
  BY <1>1, <1>2, <1>5, Zenon
  DEF UpdateStatus, StatusGet, StatusEndpoints, StatusService, events
<1>6. CASE GetById(w) \/ JobFailed(w) \/ Create(w) \/ Delete(w)
  BY <1>1, <1>2, <1>3, <1>6, Zenon
  DEF GetById, JobFailed, Create, CheckExists, CreateInstance, Created, Delete,
      DeleteAlarms, BackupOrDelete, BackupDone, Deleted, DeleteService, events
<1>7. CASE Update(w)
  <2>1. CASE Decide(w)
    <3>1. [worker[w] EXCEPT !.ev.new = worker[w].obj].ev
            = [worker[w].ev EXCEPT !.new = worker[w].obj]
      BY Types, Zenon DEF Worker
    <3>2. CASE /\ Retry(w, [worker[w] EXCEPT !.ev.new = worker[w].obj].ev)
               /\ UNCHANGED queue
      BY <3>1, <3>2, EventCarried, CarriedAgain, SameCarries DEF Carry
    <3>3. QED
      BY <1>1, <1>2, <1>3, <2>1, <3>2, Zenon DEF Decide, events
  <2>2. QED
    BY <1>1, <1>2, <1>3, <1>7, <2>1, Zenon
    DEF Update, CallCloud, Updated, FetchLogs, ChangeSqlUser, SetAutopilot, events
<1>8. QED
  BY <1>4, <1>5, <1>6, <1>7 DEF Step

LEMMA CallFailsCarries ==
  ASSUME CopiesInv, NEW w \in Workers, CallFails(w) \/ AnswerLost(w)
  PROVE  Carry
<1>1. UNCHANGED queue
  BY Zenon DEF CallFails, AnswerLost
<1>2. CASE \/ Retry(w, worker[w].ev)
           \/ Retry(w, [worker[w].ev EXCEPT !.new = worker[w].obj])
  BY <1>1, <1>2, EventCarried, CarriedAgain, SameCarries DEF Carry
<1>3. QED
  BY <1>1, <1>2, EndCarries, SameCarries, Zenon DEF CallFails, AnswerLost, Carry

------------------------------------------------------------------------------
\* Steps that store no version.

Quiet == UNCHANGED <<cr, released, condemned>>

\* No instance is ever unborn again.
LEMMA BegunGrows ==
  ASSUME CopiesInv, InstanceStep
  PROVE  Begun \subseteq Begun'
<1> SUFFICES ASSUME NEW i \in Instances, inst[i].phase # "unborn"
             PROVE  inst'[i].phase # "unborn"
  BY Zenon DEF Begun
<1>1. CASE Same
  BY <1>1 DEF Same
<1>2. ASSUME NEW j \in Instances, NEW kind, Started(j, kind)
      PROVE  inst'[i].phase # "unborn"
  BY <1>2, Zenon DEF Started, Others
<1>3. ASSUME NEW j \in Instances, Born(j) \/ Failed(j)
      PROVE  inst'[i].phase # "unborn"
  BY <1>3, Zenon DEF Born, Failed, Others
<1>4. ASSUME NEW j \in Instances, Ended(j)
      PROVE  inst'[i].phase # "unborn"
  <2>1. CASE i = j
    BY <1>4, <2>1, SMT DEF Ended
  <2>2. CASE i # j
    BY <1>4, <2>2, Zenon DEF Ended, Others
  <2>3. QED
    BY <2>1, <2>2
<1>5. QED
  BY <1>1, <1>2, <1>3, <1>4, Zenon DEF InstanceStep, Calls

LEMMA QuietCopy ==
  ASSUME Quiet, Begun \subseteq Begun', NEW o, Copy(o)
  PROVE  Copy(o)'
<1>1. Given(o.id)'
  BY Zenon DEF Copy, Given
<1>2. Faithful(o)'
  BY Zenon DEF Copy, Faithful, Quiet
<1>3. QED
  BY <1>1, <1>2 DEF Copy

AllHolding == \A v \in Workers : Holding(worker[v])

LEMMA QuietHolding ==
  ASSUME Quiet, Begun \subseteq Begun', NEW v, Holding(worker'[v])
  PROVE  Holding(worker[v])'
<1>1. PICK me : me = worker'[v]
  OBVIOUS
<1>2. Copy(me.obj)' /\ Copy(me.ev.new)'
  BY <1>1, QuietCopy DEF Holding
<1>3. Making(me)'
  BY <1>1, Zenon DEF Holding, Making, Quiet
<1>4. Copy(worker[v].obj)'
  BY <1>1, <1>2, Zenon DEF Copy, Given, Faithful
<1>5. Copy(worker[v].ev.new)'
  BY <1>1, <1>2, Zenon DEF Copy, Given, Faithful
<1>6. Making(worker[v])'
  BY <1>1, <1>3, Zenon DEF Making
<1>7. QED
  BY <1>4, <1>5, <1>6 DEF Holding

LEMMA QuietCopies ==
  ASSUME CopiesInv, CondemnedInv', Quiet, InstanceStep, Carry, AllHold \/ AllHolding'
  PROVE  CopiesInv'
<1>1. Begun \subseteq Begun'
  BY BegunGrows
<1>2. Carried \subseteq Carried'
  <2> SUFFICES ASSUME NEW e \in Event, Copy(e.new) PROVE Copy(e.new)'
    BY DEF Carried
  <2>1. QED
    BY <1>1, QuietCopy
<1>3. queue' \in Seq(Carried') /\ delayed' \in Seq(Carried')
  BY <1>2 DEF Carry
<1>4. AllHolding'
  BY <1>1, QuietHolding DEF AllHold, AllHolding
<1>5. StoredOK' /\ PastOK'
  BY <1>1, Zenon DEF CopiesInv, StoredOK, PastOK, Given, Quiet
<1>6. QED
  BY <1>3, <1>4, <1>5 DEF CopiesInv, AllHolding

\* The id of a new instance is one that no resource ever named, so that the copy
\* it is put into is as good as before.
LEMMA MadeHolding ==
  ASSUME CopiesInv, Quiet, InstanceStep, NEW w \in Workers, CreateInstance(w)
  PROVE  AllHold \/ AllHolding'
<1>1. CASE Fail(w)
  BY <1>1, EndHolds, BecomeHold
<1>2. CASE /\ CreateCall(w, w)
           /\ \E i \in Instances :
                /\ NewId(i)
                /\ Become(w, [worker[w] EXCEPT !.pc = "us.get", !.ret = "wait",
                                               !.obj.id = i, !.obj.st = "BUSY"])
  <2>1. PICK i \in Instances :
          /\ NewId(i)
          /\ Become(w, [worker[w] EXCEPT !.pc = "us.get", !.ret = "wait",
                                         !.obj.id = i, !.obj.st = "BUSY"])
    BY <1>2
  <2>2. PICK j \in Instances : Born(j)
    <3>1. UNCHANGED backups
      BY Zenon DEF CreateInstance
    <3>2. QED
      BY <1>2, <3>1, Types, CreateCallStep
  <2>3. i = j
    BY <2>1, <2>2, QuotaIsNat, SMT DEF Born, NewId, Instances
  <2>4. Begun \subseteq Begun' /\ i \in Begun'
    BY <2>2, <2>3, BegunGrows, SMT DEF Born, Begun
  <2>5. i \notin released \cup condemned
    BY <2>1, Zenon DEF NewId, CopiesInv, PastOK, Begun
  <2>6. PICK o : o = worker[w].obj
    OBVIOUS
  <2>7. PICK me : me = [worker[w] EXCEPT !.pc = "us.get", !.ret = "wait",
                                         !.obj.id = i, !.obj.st = "BUSY"]
    OBVIOUS
  <2>8. /\ me.obj = [o EXCEPT !.id = i, !.st = "BUSY"]
        /\ me.ev = worker[w].ev /\ me.pc = "us.get" /\ me.ret = "wait"
    BY <2>6, <2>7, Types, Zenon DEF Worker, Object
  <2>9. o \in Object /\ Copy(o) /\ Copy(me.ev.new)
    BY <2>6, <2>8, Types DEF CopiesInv, Holding
  <2>10. cr # NoObject /\ o.rv = cr.rv => cr.id = NoId
    BY <1>2, <2>6, Zenon DEF CopiesInv, Holding, Making, CreateCall, At
  <2>11. PICK p : p = me.obj
    OBVIOUS
  <2>12. /\ p.rv = o.rv /\ p.vol = o.vol /\ p.flavor = o.flavor /\ p.dbs = o.dbs
         /\ p.users = o.users /\ p.endpoint = o.endpoint /\ p.id = i
         /\ p.restore = o.restore /\ p.reboot = o.reboot /\ p.logs = o.logs
         /\ p.autopilot = o.autopilot
    BY <2>8, <2>9, <2>11, Zenon DEF Object
  <2>13. Faithful(p)'
    BY <2>5, <2>9, <2>10, <2>12, Zenon DEF Copy, Faithful, Quiet
  <2>14. Copy(p)'
    BY <2>4, <2>12, <2>13, Zenon DEF Copy, Given
  <2>15. Copy(me.ev.new)'
    BY <2>4, <2>9, QuietCopy
  <2>16. Making(me)'
    BY <2>8, SMT DEF Making
  <2>17. Holding(me)'
    BY <2>11, <2>14, <2>15, <2>16 DEF Holding
  <2>18. /\ worker'[w] = me
         /\ \A v \in Workers \ {w} : worker'[v] = worker[v]
    BY <2>1, <2>7, Types, Zenon DEF Become, TypeOK
  <2>19. ASSUME NEW v \in Workers PROVE Holding(worker[v])'
    <3>1. CASE v = w
      BY <2>17, <2>18, <3>1 DEF Holding, Copy, Given, Faithful, Making
    <3>2. CASE v # w
      BY <2>4, <2>18, <3>2, QuietHolding DEF CopiesInv
    <3>3. QED
      BY <3>1, <3>2
  <2>20. QED
    BY <2>19 DEF AllHolding
<1>3. QED
  BY <1>1, <1>2, Zenon DEF CreateInstance

LEMMA StepHold ==
  ASSUME CopiesInv, Quiet, InstanceStep, NEW w \in Workers, Step(w), ~StatusPut(w)
  PROVE  AllHold \/ AllHolding'
<1>1. CASE Restarted
  BY <1>1, RestartedHold
<1>2. CASE CreateInstance(w)
  BY <1>2, MadeHolding
<1>3. CASE Created(w)
  BY <1>3, GotoHolds, BecomeHold, Zenon DEF Created
<1>4. CASE JobFailed(w)
  BY <1>4, EndHolds, BecomeHold, Zenon DEF JobFailed
<1>5. QED
  BY <1>1, <1>2, <1>3, <1>4, TakeHolds, StatusHolds, GetByIdHolds, CheckHolds,
     UpdateHolds, DeleteHolds, BecomeHold DEF Step, UpdateStatus, Create

------------------------------------------------------------------------------
\* Steps that store a version.

LEMMA SeqOfAll ==
  ASSUME NEW S, NEW T, NEW s \in Seq(S), \A i \in 1..Len(s) : s[i] \in T
  PROVE  s \in Seq(T)
<1>1. Len(s) \in Nat /\ s \in [1..Len(s) -> S]
  BY LenProperties
<1>2. s \in [1..Len(s) -> T]
  BY <1>1
<1>3. QED
  BY <1>1, <1>2, SeqDef

\* All copies are then of another version.
LEMMA Outdated ==
  ASSUME Begun \subseteq Begun', cr' = NoObject \/ cr'.rv \notin VersionsInUse,
         NEW o, Given(o.id), cr' = NoObject \/ o.rv \in VersionsInUse
  PROVE  Copy(o)'
<1>1. Given(o.id)'
  BY Zenon DEF Given
<1>2. Faithful(o)'
  BY Zenon DEF Faithful
<1>3. QED
  BY <1>1, <1>2 DEF Copy

LEMMA OutdatedQueue ==
  ASSUME Begun \subseteq Begun', cr' = NoObject \/ cr'.rv \notin VersionsInUse,
         NEW q \in Seq(Carried), \A e \in ToSet(q) : e.new.rv \in VersionsInUse
  PROVE  q \in Seq(Carried')
<1>1. ASSUME NEW i \in 1..Len(q) PROVE q[i] \in Carried'
  <2>1. q[i] \in Carried
    BY ElementOfSeq
  <2>2. q[i] \in ToSet(q)
    BY LenProperties DEF ToSet
  <2>3. q[i] \in Event /\ Given(q[i].new.id) /\ q[i].new.rv \in VersionsInUse
    BY <2>1, <2>2 DEF Carried, Copy
  <2>4. PICK e : e = q[i]
    OBVIOUS
  <2>5. Copy(e.new)'
    BY <2>3, <2>4, Outdated
  <2>6. QED
    BY <2>3, <2>4, <2>5 DEF Carried, Copy, Given, Faithful
<1>2. QED
  BY <1>1, SeqOfAll

LEMMA OutdatedHolding ==
  ASSUME CopiesInv, Begun \subseteq Begun',
         cr' = NoObject \/ cr'.rv \notin VersionsInUse,
         NEW w \in Workers, NEW me,
         me.obj = worker[w].obj, me.ev = worker[w].ev, me.op = worker[w].op,
         me.ret = worker[w].ret
  PROVE  Holding(me)'
<1>1. me.obj.rv \in VersionsInUse /\ me.ev.new.rv \in VersionsInUse
  BY Zenon DEF VersionsInUse
<1>2. Given(me.obj.id) /\ Given(me.ev.new.id)
  BY DEF CopiesInv, Holding, Copy
<1>3. Copy(me.obj)' /\ Copy(me.ev.new)'
  BY <1>1, <1>2, Outdated
<1>4. Making(me)'
  <2>1. me.op = "create" => me.ret # "call"
    BY RetKept
  <2>2. QED
    BY <1>1, <2>1, Zenon DEF Making
<1>5. QED
  BY <1>3, <1>4 DEF Holding

\* No handler comes to another step than the write of the status.
Still ==
    \A v \in Workers :
        /\ worker'[v].obj = worker[v].obj /\ worker'[v].ev = worker[v].ev
        /\ worker'[v].op = worker[v].op /\ worker'[v].ret = worker[v].ret

LEMMA OutdatedWorkers ==
  ASSUME CopiesInv, Begun \subseteq Begun', Still,
         cr' = NoObject \/ cr'.rv \notin VersionsInUse
  PROVE  AllHolding'
<1>1. ASSUME NEW v \in Workers PROVE Holding(worker[v])'
  <2>1. PICK me : me = worker'[v]
    OBVIOUS
  <2>2. Holding(me)'
    BY <2>1, OutdatedHolding DEF Still
  <2>3. QED
    BY <2>1, <2>2 DEF Holding, Copy, Given, Faithful, Making
<1>2. QED
  BY <1>1 DEF AllHolding

LEMMA QueuesInUse ==
  /\ \A e \in ToSet(queue) : e.new.rv \in VersionsInUse
  /\ \A e \in ToSet(delayed) : e.new.rv \in VersionsInUse
BY Zenon DEF VersionsInUse

LEMMA StoreCopies ==
  ASSUME CopiesInv, CondemnedInv', Begun \subseteq Begun', Still,
         NEW o \in Object, Given(o.id), o.id \notin condemned', Store(o),
         PastOK', UNCHANGED delayed
  PROVE  CopiesInv'
<1>1. PICK r \in Versions :
        /\ IsFresh(r)
        /\ cr' = [o EXCEPT !.rv = r]
        /\ queue' = Append(queue, IF cr = NoObject
                                    THEN AddEvent([o EXCEPT !.rv = r])
                                    ELSE UpdateEvent(cr, [o EXCEPT !.rv = r], FALSE))
  BY DEF Store
<1>2. r \notin VersionsInUse /\ r # 0
  BY <1>1, BoundsAreNat, SMT DEF IsFresh, Unused, Versions
<1>3. PICK p : p = [o EXCEPT !.rv = r]
  OBVIOUS
<1>4. p \in Object /\ p.rv = r /\ p.id = o.id
  BY <1>3, BoundsAreNat, SMT DEF Object, Versions
<1>5. cr' = p /\ cr' # NoObject
  BY <1>1, <1>3, <1>4, NoObjectIsNone
<1>6. Given(p.id)'
  BY <1>4, Zenon DEF Given
<1>7. Copy(p)'
  BY <1>5, <1>6, Zenon DEF Copy, Faithful
<1>8. PICK e : e = IF cr = NoObject THEN AddEvent(p) ELSE UpdateEvent(cr, p, FALSE)
  OBVIOUS
<1>9. e \in Event /\ e.new = p
  BY <1>4, <1>8, Types, EventTypes DEF AddEvent, UpdateEvent
<1>10. e \in Carried'
  BY <1>7, <1>9 DEF Carried, Copy, Given, Faithful
<1>11. cr'.rv \notin VersionsInUse
  BY <1>2, <1>4, <1>5
<1>12. queue \in Seq(Carried') /\ delayed \in Seq(Carried')
  BY <1>11, QueuesInUse, OutdatedQueue DEF CopiesInv
<1>13. queue' = Append(queue, e)
  BY <1>1, <1>3, <1>8
<1>14. queue' \in Seq(Carried') /\ delayed' \in Seq(Carried')
  BY <1>10, <1>12, <1>13
<1>15. AllHolding'
  BY <1>11, OutdatedWorkers
<1>16. StoredOK'
  BY <1>2, <1>4, <1>5, <1>6, Zenon DEF StoredOK, Given
<1>17. QED
  BY <1>14, <1>15, <1>16 DEF CopiesInv, AllHolding

LEMMA SameStill ==
  ASSUME worker' = worker
  PROVE  Still
BY Zenon DEF Still

LEMMA PutCopies ==
  ASSUME CopiesInv, CondemnedInv', InstanceStep, NEW w \in Workers, StatusPut(w)
  PROVE  CopiesInv'
<1>1. UNCHANGED <<released, condemned, inst, delayed>>
  BY Zenon DEF StatusPut, cloud, ghosts
<1>2. Begun \subseteq Begun'
  BY BegunGrows
<1>3. CASE /\ Return(w, worker[w]) \/ Goto(w, "us.svc")
           /\ UNCHANGED <<cr, queue>>
  <2>1. AllHold
    BY <1>3, ReturnHolds, GotoHolds, BecomeHold
  <2>2. Quiet /\ Carry
    BY <1>1, <1>3, SameCarries, Zenon DEF Quiet, Carry
  <2>3. QED
    BY <2>1, <2>2, QuietCopies
<1>4. CASE CanPut(worker[w].obj) /\ Goto(w, "us.svc") /\ Store(worker[w].obj)
  <2>1. PICK o : o = worker[w].obj
    OBVIOUS
  <2>2. o \in Object /\ Copy(o)
    BY <2>1, Types DEF CopiesInv, Holding
  <2>3. o.id = cr.id \/ o.id \notin condemned
    BY <1>4, <2>1, <2>2, Zenon DEF CanPut, Copy, Faithful
  <2>4. o.id \notin condemned
    BY <1>4, <2>3, Zenon DEF CanPut, CopiesInv, StoredOK
  <2>5. Still
    <3> DEFINE me == [worker[w] EXCEPT !.pc = "us.svc"]
    <3>1. /\ me.obj = worker[w].obj /\ me.ev = worker[w].ev
          /\ me.op = worker[w].op /\ me.ret = worker[w].ret
      BY Types, Zenon DEF Worker
    <3>2. /\ worker'[w] = me
          /\ \A v \in Workers \ {w} : worker'[v] = worker[v]
      BY <1>4, Types, Zenon DEF Goto, Become, TypeOK
    <3> HIDE DEF me
    <3>3. QED
      BY <3>1, <3>2, Zenon DEF Still
  <2>6. PastOK'
    BY <1>1, <1>2 DEF CopiesInv, PastOK
  <2>7. QED
    BY <1>1, <1>2, <1>4, <2>1, <2>2, <2>4, <2>5, <2>6, StoreCopies DEF Copy
<1>5. QED
  BY <1>3, <1>4, Zenon DEF StatusPut

LEMMA UserCreateCopies ==
  ASSUME CopiesInv, CondemnedInv', InstanceStep, UserCreate
  PROVE  CopiesInv'
<1>1. UNCHANGED <<released, condemned, delayed, worker>>
  BY Zenon DEF UserCreate
<1>2. Begun \subseteq Begun' /\ Still
  BY <1>1, BegunGrows, SameStill
<1>3. PICK o : o = FirstObject
  OBVIOUS
<1>4. o \in Object /\ o.id = NoId
  BY <1>3, FirstObjectType DEF FirstObject
<1>5. o.id \notin condemned
  BY <1>4, Types, QuotaIsNat, SMT DEF TypeOK, Instances, NoId
<1>6. Store(o)
  BY <1>3 DEF UserCreate
<1>7. PastOK'
  BY <1>1, <1>2 DEF CopiesInv, PastOK
<1>8. QED
  BY <1>1, <1>2, <1>4, <1>5, <1>6, <1>7, StoreCopies DEF Given

\* An edit takes the id away, or leaves it.
LEMMA EditedId ==
  ASSUME cr \in Object, NEW kind \in EditKinds, NEW o \in Edited(kind)
  PROVE  o.id \in {cr.id, NoId}
<1> DEFINE Named == {p \in Object : p.id \in {cr.id, NoId}}
<1>1. \A v \in Volumes : [cr EXCEPT !.vol = v] \in Named
  BY Zenon DEF Object
<1>2. \A f \in Flavors : [cr EXCEPT !.flavor = f] \in Named
  BY Zenon DEF Object
<1>3. /\ [cr EXCEPT !.reboot = TRUE] \in Named
      /\ [cr EXCEPT !.restore = TRUE] \in Named
      /\ [cr EXCEPT !.logs = TRUE] \in Named
      /\ [cr EXCEPT !.users = TRUE] \in Named
      /\ [cr EXCEPT !.endpoint = TRUE] \in Named
  BY Zenon DEF Object
<1>4. [cr EXCEPT !.id = NoId] \in Named
  BY NumberFacts, Zenon DEF Object
<1>5. \A d \in SUBSET Databases : /\ [cr EXCEPT !.dbs = d] \in Named
                                  /\ [cr EXCEPT !.dbs = d, !.users = TRUE] \in Named
  BY Zenon DEF Object
<1>6. \A p \in Named : p.id \in {cr.id, NoId}
  OBVIOUS
<1> HIDE DEF Named
<1>7. Edited(kind) \subseteq Named
  BY <1>1, <1>2, <1>3, <1>4, <1>5, Zenon DEF Edited, EditKinds
<1>8. QED
  BY <1>6, <1>7

LEMMA UserEditCopies ==
  ASSUME CopiesInv, CondemnedInv', InstanceStep, NEW kind \in EditKinds, UserEdit(kind)
  PROVE  CopiesInv'
<1>1. UNCHANGED <<condemned, delayed, worker>>
  BY Zenon DEF UserEdit
<1>2. Begun \subseteq Begun' /\ Still
  BY <1>1, BegunGrows, SameStill
<1>3. cr # NoObject /\ cr \in Object
  BY Types DEF UserEdit
<1>4. PICK o \in Edited(kind) : Store(o)
  BY DEF UserEdit
<1>5. o \in Object /\ o.id \in {cr.id, NoId}
  BY <1>3, <1>4, EditedType, EditedId
<1>6. Given(cr.id) /\ cr.id \notin condemned /\ NoId \notin condemned
  BY <1>3, Types, QuotaIsNat, SMT DEF CopiesInv, StoredOK, TypeOK, Instances, NoId
<1>7. Given(o.id) /\ o.id \notin condemned'
  BY <1>1, <1>5, <1>6 DEF Given
<1>8. PastOK'
  <2>1. released' \subseteq released \cup ({cr.id} \ {NoId})
    BY DEF UserEdit
  <2>2. {cr.id} \ {NoId} \subseteq Begun
    BY <1>6 DEF Given
  <2>3. QED
    BY <1>1, <1>2, <2>1, <2>2 DEF CopiesInv, PastOK
<1>9. QED
  BY <1>1, <1>2, <1>4, <1>5, <1>7, <1>8, StoreCopies

LEMMA UserDeleteCopies ==
  ASSUME CopiesInv, CondemnedInv', InstanceStep, UserDelete
  PROVE  CopiesInv'
<1>1. /\ cr # NoObject /\ cr' = NoObject /\ queue' = Append(queue, DelEvent(cr))
      /\ UNCHANGED <<released, delayed, worker>>
      /\ condemned' = condemned \cup ({cr.id} \ {NoId})
  BY Zenon DEF UserDelete
<1>2. Begun \subseteq Begun' /\ Still
  BY <1>1, BegunGrows, SameStill
<1>3. PICK p : p = cr
  OBVIOUS
<1>4. p \in Object /\ Given(p.id)
  BY <1>1, <1>3, Types DEF CopiesInv, StoredOK
<1>5. Copy(p)'
  BY <1>1, <1>2, <1>4, Outdated
<1>6. PICK e : e = DelEvent(p)
  OBVIOUS
<1>7. e \in Event /\ e.new = p
  BY <1>4, <1>6, EventTypes DEF DelEvent
<1>8. e \in Carried'
  BY <1>5, <1>7 DEF Carried, Copy, Given, Faithful
<1>9. queue \in Seq(Carried') /\ delayed \in Seq(Carried')
  BY <1>1, <1>2, QueuesInUse, OutdatedQueue DEF CopiesInv
<1>10. queue' \in Seq(Carried') /\ delayed' \in Seq(Carried')
  BY <1>1, <1>3, <1>6, <1>8, <1>9
<1>11. AllHolding'
  BY <1>1, <1>2, OutdatedWorkers
<1>12. StoredOK' /\ PastOK'
  BY <1>1, <1>2, <1>3, <1>4 DEF StoredOK, PastOK, Given, CopiesInv
<1>13. QED
  BY <1>10, <1>11, <1>12 DEF CopiesInv, AllHolding

------------------------------------------------------------------------------
LEMMA InitCopies == Init => CopiesInv
<1> SUFFICES ASSUME Init PROVE CopiesInv
  OBVIOUS
<1>1. CondemnedInv
  BY InitCondemned
<1>2. cr = NoObject \/ cr = Managed
  BY DEF Init, Begins
<1>3. Managed.rv = 1 /\ Managed.id = 1
  BY FirstObjectType, SMT DEF Managed, Object
<1>4. cr = Managed => 1 \in Begun
  <2>1. ASSUME cr = Managed PROVE inst[1] = Running
    <3>1. Managed # NoObject
      BY ManagedType, NoObjectIsNone
    <3>2. PICK s \in Scenarios : Begins(s.start)
      BY DEF Init
    <3>3. s.start = "managed"
      BY <2>1, <3>1, <3>2, Zenon DEF Begins
    <3>4. inst = [i \in Instances |-> IF i = 1 THEN Running ELSE Unborn]
      BY <3>2, <3>3, SMT DEF Begins
    <3>5. QED
      BY <3>4, QuotaIsNat DEF Instances
  <2>2. Running.phase = "live"
    BY UnbornType, Zenon DEF Running, Instance
  <2>3. QED
    BY <2>1, <2>2, QuotaIsNat DEF Begun, Instances
<1>5. StoredOK /\ PastOK
  <2>1. condemned = {} /\ released = {}
    BY DEF Init
  <2>2. QED
    BY <1>2, <1>3, <1>4, <2>1, SMT DEF StoredOK, PastOK, Given
<1>6. cr = Managed => Copy(Managed)
  BY <1>3, <1>5, ManagedType, NoObjectIsNone, Zenon
  DEF Copy, Faithful, StoredOK
<1>7. queue \in Seq(Carried) /\ delayed \in Seq(Carried)
  <2>1. CASE cr = Managed
    <3>1. AddEvent(Managed) \in Event /\ AddEvent(Managed).new = Managed
      BY ManagedType, EventTypes DEF AddEvent
    <3>2. AddEvent(Managed) \in Carried
      BY <1>6, <2>1, <3>1 DEF Carried
    <3>3. <<AddEvent(Managed)>> \in Seq(Carried) /\ <<>> \in Seq(Carried)
      BY <3>2
    <3>4. QED
      BY <3>3 DEF Init, Begins
  <2>2. CASE cr # Managed
    BY <2>2 DEF Init, Begins
  <2>3. QED
    BY <2>1, <2>2
<1>8. \A w \in Workers : Holding(worker[w])
  BY <1>5, IdleHolding DEF Init
<1>9. QED
  BY <1>1, <1>5, <1>7, <1>8 DEF CopiesInv

LEMMA NextCopies == CopiesInv /\ [Next]_vars => CopiesInv'
<1> SUFFICES ASSUME CopiesInv, [Next]_vars PROVE CopiesInv'
  OBVIOUS
<1>1. CondemnedInv'
  BY NextCondemned DEF CopiesInv
<1>2. InstanceStep
  BY Types, StepInstances
<1>3. CASE UserCreate \/ UserDelete \/ \E kind \in EditKinds : UserEdit(kind)
  BY <1>1, <1>2, <1>3, UserCreateCopies, UserDeleteCopies, UserEditCopies
<1>4. ASSUME NEW w \in Workers, Step(w) PROVE CopiesInv'
  <2>1. CASE StatusPut(w)
    BY <1>1, <1>2, <2>1, PutCopies
  <2>2. CASE ~StatusPut(w)
    <3>1. Quiet
      BY <1>4, <2>2, Zenon
      DEF Step, Take, UpdateStatus, StatusGet, StatusEndpoints, StatusService,
          GetById, JobFailed, Create, CheckExists, CreateInstance, Created,
          Update, Decide, CallCloud, Updated, FetchLogs, ChangeSqlUser,
          SetAutopilot, Delete, DeleteAlarms, BackupOrDelete, BackupDone, Deleted,
          DeleteService, Restarted, apiServer, ghosts, Quiet
    <3>2. Carry /\ (AllHold \/ AllHolding')
      BY <1>2, <1>4, <2>2, <3>1, StepCarries, StepHold
    <3>3. QED
      BY <1>1, <1>2, <3>1, <3>2, QuietCopies
  <2>3. QED
    BY <2>1, <2>2
<1>5. ASSUME NEW w \in Workers, CallFails(w) \/ AnswerLost(w) PROVE CopiesInv'
  <2>1. Quiet
    BY <1>5, Zenon DEF CallFails, AnswerLost, apiServer, Quiet
  <2>2. Carry /\ AllHold
    BY <1>5, CallFailsCarries, CallFailsHold, BecomeHold
  <2>3. QED
    BY <1>1, <1>2, <2>1, <2>2, QuietCopies
<1>6. CASE Crash
  BY <1>1, <1>2, <1>6, RestartedCarries, RestartedHold, QuietCopies, Zenon
  DEF Crash, Restarted, apiServer, Quiet
<1>7. ASSUME NEW i \in Instances, JobFails(i) PROVE CopiesInv'
  <2>1. Quiet /\ UNCHANGED <<queue, delayed>>
    BY <1>7, Zenon DEF JobFails, apiServer, events, Quiet
  <2>2. QED
    BY <1>1, <1>2, <1>7, <2>1, SameCarries, JobFailsHold, QuietCopies DEF Carry
<1>8. CASE /\ worker' = worker
           /\ Quiet /\ Carry
  BY <1>1, <1>2, <1>8, QuietCopies, Zenon DEF AllHold, CopiesInv
<1>9. CASE \/ \E i \in Instances : JobDone(i) \/ MoveIp(i)
           \/ UNCHANGED vars
  BY <1>8, <1>9, SameCarries, Zenon
  DEF JobDone, MoveIp, vars, apiServer, events, ghosts, Quiet, Carry
<1>10. CASE Resync \/ \E i \in 1..Len(delayed) : Requeue(i)
  BY <1>8, <1>10, ResyncCarries, RequeueCarries, Zenon
  DEF Resync, Requeue, apiServer, ghosts, Quiet
<1>11. QED
  BY <1>3, <1>4, <1>5, <1>6, <1>7, <1>9, <1>10 DEF Next, Environment

\* Every copy of the resource, in an event, in the rate limiter or in a handler,
\* is outdated or as the stored version but for what its handler did.
THEOREM CopiesFaithful == Spec => []CopiesInv
<1>1. QED
  BY InitCopies, NextCopies, PTL DEF Spec

\* A write without an edit of a user is UpdateStatus' of a copy that is not
\* outdated.
LEMMA WrittenCopy ==
  ASSUME CopiesInv, [Next]_vars, OperatorWrites
  PROVE  \E w \in Workers, r \in Nat :
           /\ CanPut(worker[w].obj)
           /\ cr' = [worker[w].obj EXCEPT !.rv = r]
<1>1. ~ \E kind \in Kinds : Spend(kind)
  BY Types, SMT DEF OperatorWrites, Spend, TypeOK
<1>2. ~(UserCreate \/ UserDelete \/ \E kind \in EditKinds : UserEdit(kind))
  BY <1>1, Zenon DEF UserCreate, UserDelete, UserEdit, Kinds
<1>3. cr' # cr
  BY DEF OperatorWrites
<1>4. PICK w \in Workers : Step(w)
  BY <1>2, <1>3, Zenon
  DEF Next, CallFails, AnswerLost, Requeue, Environment, JobDone, JobFails, MoveIp,
      Resync, Crash, Restarted, apiServer, vars
<1>5. StatusPut(w)
  BY <1>3, <1>4, Zenon
  DEF Step, Take, UpdateStatus, StatusGet, StatusEndpoints, StatusService, GetById,
      JobFailed, Create, CheckExists, CreateInstance, Created, Update, Decide,
      CallCloud, Updated, FetchLogs, ChangeSqlUser, SetAutopilot, Delete,
      DeleteAlarms, BackupOrDelete, BackupDone, Deleted, DeleteService, Restarted,
      apiServer
<1>6. CanPut(worker[w].obj) /\ Store(worker[w].obj)
  BY <1>3, <1>5, Zenon DEF StatusPut
<1>7. PICK r \in Versions : cr' = [worker[w].obj EXCEPT !.rv = r]
  BY <1>6 DEF Store
<1>8. r \in Nat
  BY BoundsAreNat DEF Versions
<1>9. QED
  BY <1>6, <1>7, <1>8

LEMMA WritesKeep ==
  ASSUME CopiesInv, [Next]_vars, OperatorWrites
  PROVE  /\ cr'.vol = cr.vol /\ cr'.flavor = cr.flavor
         /\ cr'.dbs = cr.dbs /\ cr'.users = cr.users
         /\ cr'.endpoint = cr.endpoint
         /\ cr'.id # cr.id => cr.id = NoId /\ cr'.id \notin released
         /\ cr.restore \/ ~cr'.restore
         /\ cr.reboot \/ ~cr'.reboot
         /\ cr.logs \/ ~cr'.logs
         /\ cr'.autopilot \/ ~cr.autopilot
<1>1. PICK w \in Workers, r \in Nat :
        /\ CanPut(worker[w].obj)
        /\ cr' = [worker[w].obj EXCEPT !.rv = r]
  BY WrittenCopy
<1> DEFINE o == worker[w].obj
<1>2. o \in Object /\ Faithful(o) /\ cr # NoObject /\ o.rv = cr.rv
  BY <1>1, Types DEF CopiesInv, Holding, Copy, CanPut
<1>3. /\ cr'.vol = o.vol /\ cr'.flavor = o.flavor /\ cr'.dbs = o.dbs
      /\ cr'.users = o.users /\ cr'.endpoint = o.endpoint /\ cr'.id = o.id
      /\ cr'.restore = o.restore /\ cr'.reboot = o.reboot /\ cr'.logs = o.logs
      /\ cr'.autopilot = o.autopilot
  BY <1>1, <1>2, Zenon DEF Object
<1> HIDE DEF o
<1>4. QED
  BY <1>2, <1>3, Zenon DEF Faithful

\* For any number of workers, edits, failures and crashes: UpdateStatus writes a
\* whole object from a copy of any age, and undoes no edit.
THEOREM EditsSurvive == Spec => NoLostEdit
<1>1. CopiesInv /\ [Next]_vars =>
        [OperatorWrites =>
           /\ cr'.vol = cr.vol /\ cr'.flavor = cr.flavor
           /\ cr'.dbs = cr.dbs /\ cr'.users = cr.users
           /\ cr'.endpoint = cr.endpoint
           /\ cr'.id # cr.id => cr'.id \notin released
           /\ cr.restore \/ ~cr'.restore
           /\ cr.reboot \/ ~cr'.reboot
           /\ cr.logs \/ ~cr'.logs
           /\ cr'.autopilot \/ ~cr.autopilot]_vars
  BY WritesKeep
<1>2. QED
  BY <1>1, CopiesFaithful, PTL DEF Spec, NoLostEdit

\* For any number of workers, failures and crashes: no handler writes another id
\* over the one the resource has.
THEOREM IdStays == Spec => IdIsPermanent
<1>1. CopiesInv /\ [Next]_vars =>
        [OperatorWrites /\ cr.id # NoId => cr'.id = cr.id]_vars
  BY WritesKeep
<1>2. QED
  BY <1>1, CopiesFaithful, PTL DEF Spec, IdIsPermanent

------------------------------------------------------------------------------
\* The Service.


\* The worker that has created the Endpoints is the only one to do so, and the
\* Service is not there.
Between(w) ==
    worker[w].pc = "us.svc2" =>
        /\ ~svc /\ eps # NoIp
        /\ \A v \in Workers : worker[v].pc = "us.svc2" => v = w

ServiceInv == TypeOK /\ ServiceHasEndpoints /\ \A w \in Workers : Between(w)

\* Nobody comes to the creation of the Service.
NobodyNew ==
    \A v \in Workers : worker'[v].pc = "us.svc2" => worker[v].pc = "us.svc2"

Elsewhere(w) == \E me : me.pc # "us.svc2" /\ Become(w, me)

LEMMA ElsewhereNobody ==
  ASSUME TypeOK, NEW w \in Workers, Elsewhere(w)
  PROVE  NobodyNew /\ worker'[w].pc # "us.svc2"
<1>1. PICK me : me.pc # "us.svc2" /\ Become(w, me)
  BY DEF Elsewhere
<1>2. worker'[w] = me /\ \A v \in Workers \ {w} : worker'[v] = worker[v]
  BY <1>1, Zenon DEF Become, TypeOK
<1>3. QED
  BY <1>1, <1>2, Zenon DEF NobodyNew

LEMMA NobodySafe ==
  ASSUME ServiceInv, TypeOK', NobodyNew, UNCHANGED <<svc, eps>>
  PROVE  ServiceInv'
BY Zenon DEF ServiceInv, ServiceHasEndpoints, Between, NobodyNew

LEMMA EndElsewhere ==
  ASSUME NEW w \in Workers, NEW e, Finish(w) \/ Retry(w, e) \/ Fail(w)
  PROVE  Elsewhere(w)
<1>1. IdleWorker.pc # "us.svc2"
  BY SMT DEF IdleWorker
<1>2. QED
  BY <1>1, Zenon DEF Elsewhere, Finish, Retry, Fail

LEMMA ProceedElsewhere ==
  ASSUME NEW w \in Workers, NEW me \in Worker, Proceed(w, me)
  PROVE  Elsewhere(w)
<1>1. CASE Become(w, IdleWorker)
  BY <1>1, EndElsewhere DEF Finish, Elsewhere, IdleWorker
<1>2. CASE \E op \in UpdateOps : Become(w, Enter(me, op))
  <2>1. PICK op \in UpdateOps : Become(w, Enter(me, op))
    BY <1>2
  <2>2. Enter(me, op).pc =
          IF op \in {"enlarge", "resize", "sql"} THEN "call" ELSE "us.get"
    BY Zenon DEF Enter, Worker
  <2>3. Enter(me, op).pc # "us.svc2"
    BY <2>2, SMT
  <2>4. QED
    BY <2>1, <2>3, Zenon DEF Elsewhere
<1>3. QED
  BY <1>1, <1>2 DEF Proceed

LEMMA GotoElsewhere ==
  ASSUME TypeOK, NEW w \in Workers, NEW pc \in Pcs \ {"us.svc2"}, Goto(w, pc)
  PROVE  Elsewhere(w)
<1>1. [worker[w] EXCEPT !.pc = pc].pc = pc
  BY Zenon DEF TypeOK, Worker
<1>2. QED
  BY <1>1, Zenon DEF Goto, Elsewhere

LEMMA ReturnElsewhere ==
  ASSUME TypeOK, NEW w \in Workers, Return(w, worker[w])
  PROVE  Elsewhere(w)
<1>1. worker[w] \in Worker
  BY DEF TypeOK
<1>2. CASE worker[w].ret = "next"
  BY <1>1, <1>2, ProceedElsewhere DEF Return
<1>3. CASE worker[w].ret # "next"
  <2>1. worker[w].ret \in Pcs \ {"us.svc2"}
    BY <1>1, <1>3, SMT DEF Worker, Pcs
  <2>2. Goto(w, worker[w].ret)
    BY <1>3 DEF Return, Goto
  <2>3. QED
    BY <2>1, <2>2, GotoElsewhere
<1>4. QED
  BY <1>2, <1>3

LEMMA RestartedNobody ==
  ASSUME Restarted
  PROVE  NobodyNew
<1>1. IdleWorker.pc # "us.svc2"
  BY SMT DEF IdleWorker
<1>2. QED
  BY <1>1, Zenon DEF Restarted, NobodyNew

------------------------------------------------------------------------------
\* The two calls.

LEMMA EndpointsSafe ==
  ASSUME ServiceInv, TypeOK', NEW w \in Workers, StatusEndpoints(w)
  PROVE  ServiceInv'
<1>1. TypeOK
  BY DEF ServiceInv
<1>2. CASE Return(w, worker[w]) /\ UNCHANGED eps
  BY <1>1, <1>2, ReturnElsewhere, ElsewhereNobody, NobodySafe DEF StatusEndpoints
<1>3. CASE ~svc /\ eps = NoIp /\ eps' = worker[w].obj.ip /\ worker[w].obj.ip # NoIp
           /\ Goto(w, "us.svc2")
  <2>1. \A v \in Workers : worker[v].pc # "us.svc2"
    BY <1>3, Zenon DEF ServiceInv, Between
  <2>2. \A v \in Workers \ {w} : worker'[v] = worker[v]
    BY <1>1, <1>3, Zenon DEF Goto, Become, TypeOK
  <2>3. svc' = svc
    BY DEF StatusEndpoints
  <2>4. ASSUME NEW v \in Workers PROVE Between(v)'
    BY <1>3, <2>1, <2>2, <2>3, Zenon DEF Between
  <2>5. QED
    BY <1>3, <2>3, <2>4, Zenon DEF ServiceInv, ServiceHasEndpoints
<1>4. QED
  BY <1>2, <1>3, Zenon DEF StatusEndpoints

LEMMA ServiceSafe ==
  ASSUME ServiceInv, TypeOK', NEW w \in Workers, StatusService(w)
  PROVE  ServiceInv'
<1>1. NobodyNew /\ worker'[w].pc # "us.svc2"
  BY ReturnElsewhere, ElsewhereNobody DEF ServiceInv, StatusService
<1>2. \A v \in Workers : worker'[v].pc # "us.svc2"
  BY <1>1, Zenon DEF NobodyNew, ServiceInv, Between, StatusService
<1>3. eps' # NoIp
  BY Zenon DEF StatusService, ServiceInv, Between
<1>4. QED
  BY <1>2, <1>3, Zenon DEF ServiceInv, ServiceHasEndpoints, Between

\* While the Service is there nobody is between the two calls.
LEMMA DeleteServiceSafe ==
  ASSUME ServiceInv, TypeOK', NEW w \in Workers, DeleteService(w)
  PROVE  ServiceInv'
<1>1. NobodyNew
  BY EndElsewhere, ElsewhereNobody DEF ServiceInv, DeleteService
<1>2. ~svc' /\ (~svc => eps' = eps)
  BY Zenon DEF DeleteService
<1>3. ASSUME NEW v \in Workers PROVE Between(v)'
  BY <1>1, <1>2, Zenon DEF ServiceInv, Between, NobodyNew
<1>4. QED
  BY <1>2, <1>3, Zenon DEF ServiceInv, ServiceHasEndpoints

------------------------------------------------------------------------------
\* All other steps leave Service and Endpoints alone.

LEMMA StatusNobody ==
  ASSUME TypeOK, TypeOK', NEW w \in Workers, StatusGet(w) \/ StatusPut(w) \/ GetById(w)
  PROVE  NobodyNew
<1>1. worker[w] \in Worker
  BY DEF TypeOK
<1>2. CASE Return(w, worker[w])
  BY <1>2, ReturnElsewhere, ElsewhereNobody
<1>3. CASE Restarted
  BY <1>3, RestartedNobody
<1>4. CASE Goto(w, "us.svc")
  BY <1>4, GotoElsewhere, ElsewhereNobody, SMT DEF Pcs
<1>5. CASE \E i \in Live :
             Become(w, [worker[w] EXCEPT !.pc = "us.put", !.obj.ip = inst[i].ip,
                                         !.obj.st = InstanceState(i)])
  <2>1. PICK i \in Live :
          Become(w, [worker[w] EXCEPT !.pc = "us.put", !.obj.ip = inst[i].ip,
                                      !.obj.st = InstanceState(i)])
    BY <1>5
  <2> DEFINE me == [worker[w] EXCEPT !.pc = "us.put", !.obj.ip = inst[i].ip,
                                     !.obj.st = InstanceState(i)]
  <2>2. me.pc = "us.put"
    BY <1>1, Zenon DEF Worker
  <2>3. Become(w, me)
    BY <2>1
  <2> HIDE DEF me
  <2>4. me.pc # "us.svc2"
    BY <2>2, SMT
  <2>5. QED
    BY <2>3, <2>4, ElsewhereNobody DEF Elsewhere
<1>6. CASE GetById(w) /\ ~Restarted
  <2> DEFINE ret == IF worker[w].pc = "peek" THEN "wait" ELSE "next"
             ip == IF worker[w].op = "create" THEN inst[MyId(w)].ip
                   ELSE worker[w].obj.ip
             me == [worker[w] EXCEPT !.pc = "us.get", !.ret = ret,
                      !.obj.st = InstanceState(MyId(w)), !.obj.ip = ip]
  <2>1. Become(w, me)
    BY <1>6, Zenon DEF GetById
  <2>2. me.pc = "us.get"
    BY <1>1, Zenon DEF Worker
  <2> HIDE DEF me
  <2>3. me.pc # "us.svc2"
    BY <2>2, SMT
  <2>4. QED
    BY <2>1, <2>3, ElsewhereNobody DEF Elsewhere
<1>7. QED
  BY <1>2, <1>3, <1>4, <1>5, <1>6, Zenon DEF StatusGet, StatusPut

LEMMA TakeNobody ==
  ASSUME TypeOK, NEW w \in Workers, Take(w)
  PROVE  NobodyNew
<1>1. Begin(Head(queue)).pc # "us.svc2"
  BY SMT DEF Begin
<1>2. QED
  BY <1>1, ElsewhereNobody, Zenon DEF Take, Elsewhere

LEMMA CreateNobody ==
  ASSUME TypeOK, NEW w \in Workers, Create(w)
  PROVE  NobodyNew
<1>1. {"call", "get"} \subseteq Pcs \ {"us.svc2"}
  BY SMT DEF Pcs
<1>2. CASE \E i \in Instances :
             Become(w, [worker[w] EXCEPT !.pc = "us.get", !.ret = "wait",
                                         !.obj.id = i, !.obj.st = "BUSY"])
  <2>1. PICK i \in Instances :
          Become(w, [worker[w] EXCEPT !.pc = "us.get", !.ret = "wait",
                                      !.obj.id = i, !.obj.st = "BUSY"])
    BY <1>2
  <2> DEFINE me == [worker[w] EXCEPT !.pc = "us.get", !.ret = "wait",
                                     !.obj.id = i, !.obj.st = "BUSY"]
  <2>2. me.pc = "us.get"
    BY Zenon DEF TypeOK, Worker
  <2>3. Become(w, me)
    BY <2>1
  <2> HIDE DEF me
  <2>4. me.pc # "us.svc2"
    BY <2>2, SMT
  <2>5. QED
    BY <2>3, <2>4, ElsewhereNobody DEF Elsewhere
<1>3. QED
  BY <1>1, <1>2, EndElsewhere, GotoElsewhere, ElsewhereNobody, Zenon
  DEF Create, CheckExists, CreateInstance, Created

LEMMA UpdateNobody ==
  ASSUME TypeOK, NEW w \in Workers, Update(w)
  PROVE  NobodyNew
<1>1. {"get", "peek", "wait"} \subseteq Pcs \ {"us.svc2"}
  BY SMT DEF Pcs
<1>2. CASE Restarted
  BY <1>2, RestartedNobody
<1>3. CASE Decide(w)
  <2> DEFINE me == [worker[w] EXCEPT !.ev.new = worker[w].obj]
  <2>1. CASE \E i \in Live : Proceed(w, [me EXCEPT !.vol = inst[i].vol,
                                                   !.flavor = inst[i].flavor])
    <3>1. me \in Worker
      <4>1. worker[w] \in Worker /\ worker[w].obj \in Object
        BY Zenon DEF TypeOK, Worker
      <4>2. QED
        BY <4>1, Zenon DEF Worker, Event
    <3> HIDE DEF me
    <3>2. PICK i \in Instances : Proceed(w, [me EXCEPT !.vol = inst[i].vol,
                                                       !.flavor = inst[i].flavor])
      BY <2>1 DEF Live
    <3>3. inst[i].vol \in Volumes /\ inst[i].flavor \in Flavors
      BY Zenon DEF TypeOK, Instance
    <3>4. [me EXCEPT !.vol = inst[i].vol, !.flavor = inst[i].flavor] \in Worker
      BY <3>1, <3>3, Zenon DEF Worker
    <3>5. QED
      BY <3>2, <3>4, ProceedElsewhere, ElsewhereNobody
  <2>2. CASE Finish(w) \/ Retry(w, me.ev)
    <3> HIDE DEF me
    <3>1. QED
      BY <2>2, EndElsewhere, ElsewhereNobody, Zenon
  <2>3. QED
    BY <1>2, <1>3, <2>1, <2>2, Zenon DEF Decide
<1>4. CASE ChangeSqlUser(w)
  <2>1. worker[w] \in Worker
    BY DEF TypeOK
  <2>2. QED
    BY <1>2, <1>4, <2>1, ProceedElsewhere, EndElsewhere, ElsewhereNobody, Zenon
    DEF ChangeSqlUser
<1>5. CASE CallCloud(w)
  <2>1. CASE Goto(w, IF worker[w].op = "restore" THEN "peek" ELSE "wait")
    BY <1>1, <2>1, GotoElsewhere, ElsewhereNobody, Zenon
  <2>2. QED
    BY <1>5, <2>1, EndElsewhere, ElsewhereNobody, Zenon DEF CallCloud
<1>6. CASE Updated(w) \/ FetchLogs(w) \/ SetAutopilot(w)
  BY <1>1, <1>2, <1>6, EndElsewhere, GotoElsewhere, ElsewhereNobody, Zenon
  DEF Updated, FetchLogs, SetAutopilot
<1>7. QED
  BY <1>3, <1>4, <1>5, <1>6 DEF Update

LEMMA DeleteNobody ==
  ASSUME TypeOK, NEW w \in Workers,
         DeleteAlarms(w) \/ BackupOrDelete(w) \/ BackupDone(w) \/ Deleted(w)
  PROVE  NobodyNew
<1>1. worker[w] \in Worker
  BY DEF TypeOK
<1>2. CASE DeleteAlarms(w)
  <2>1. [worker[w] EXCEPT !.op = "backup"].pc = worker[w].pc
    BY <1>1, Zenon DEF Worker
  <2>2. worker[w].pc = "call"
    BY <1>2 DEF DeleteAlarms, At
  <2>3. [worker[w] EXCEPT !.op = "backup"].pc # "us.svc2"
    BY <2>1, <2>2, SMT
  <2>4. QED
    BY <1>2, <2>3, EndElsewhere, ElsewhereNobody, Zenon DEF DeleteAlarms, Elsewhere
<1>3. CASE BackupDone(w) \/ Deleted(w)
  <2>1. /\ [worker[w] EXCEPT !.op = "delete", !.pc = "call"].pc = "call"
        /\ [worker[w] EXCEPT !.op = "service", !.pc = "call"].pc = "call"
    BY <1>1, Zenon DEF Worker
  <2>2. /\ [worker[w] EXCEPT !.op = "delete", !.pc = "call"].pc # "us.svc2"
        /\ [worker[w] EXCEPT !.op = "service", !.pc = "call"].pc # "us.svc2"
    BY <2>1, SMT
  <2>3. QED
    BY <1>3, <2>2, ElsewhereNobody, Zenon DEF BackupDone, Deleted, Elsewhere
<1>4. CASE BackupOrDelete(w)
  <2>1. "wait" \in Pcs \ {"us.svc2"}
    BY SMT DEF Pcs
  <2>2. QED
    BY <1>4, <2>1, EndElsewhere, GotoElsewhere, ElsewhereNobody, Zenon
    DEF BackupOrDelete
<1>5. QED
  BY <1>2, <1>3, <1>4

LEMMA FailsNobody ==
  ASSUME TypeOK, NEW w \in Workers, CallFails(w) \/ AnswerLost(w) \/ JobFailed(w)
  PROVE  NobodyNew
BY ReturnElsewhere, EndElsewhere, ElsewhereNobody, Zenon
DEF CallFails, AnswerLost, JobFailed

LEMMA JobFailsNobody ==
  ASSUME TypeOK, NEW i \in Instances, JobFails(i)
  PROVE  NobodyNew
<1>1. CASE worker' = worker
  BY <1>1, Zenon DEF NobodyNew
<1>2. CASE inst[i].by \in Workers /\ worker' = [worker EXCEPT ![inst[i].by].pc = "failed"]
  <2> DEFINE w == inst[i].by
  <2>1. w \in Workers /\ worker' = [worker EXCEPT ![w].pc = "failed"]
    BY <1>2
  <2> HIDE DEF w
  <2>2. Goto(w, "failed")
    BY <2>1 DEF Goto, Become
  <2>3. "failed" \in Pcs \ {"us.svc2"}
    BY SMT DEF Pcs
  <2>4. QED
    BY <2>1, <2>2, <2>3, GotoElsewhere, ElsewhereNobody
<1>3. QED
  BY <1>1, <1>2, Zenon DEF JobFails

------------------------------------------------------------------------------
LEMMA InitService == Init => ServiceInv
<1> SUFFICES ASSUME Init PROVE ServiceInv
  OBVIOUS
<1>1. ServiceHasEndpoints
  <2>1. PICK s \in Scenarios : Begins(s.start)
    BY Zenon DEF Init
  <2>2. svc = (s.start = "managed") /\ eps = IF s.start = "managed" THEN 1 ELSE NoIp
    BY <2>1, Zenon DEF Begins
  <2>3. 1 # NoIp
    BY SMT DEF NoIp
  <2>4. QED
    BY <2>2, <2>3, Zenon DEF ServiceHasEndpoints
<1>2. ASSUME NEW w \in Workers PROVE worker[w].pc # "us.svc2"
  BY SMT DEF Init, IdleWorker
<1>3. QED
  BY <1>1, <1>2, InitType, Zenon DEF ServiceInv, Between

LEMMA NextService == ServiceInv /\ [Next]_vars => ServiceInv'
<1> SUFFICES ASSUME ServiceInv, [Next]_vars PROVE ServiceInv'
  OBVIOUS
<1>1. TypeOK /\ TypeOK'
  BY NextType DEF ServiceInv
<1>2. ASSUME NEW w \in Workers, Step(w) PROVE ServiceInv'
  <2>1. CASE Take(w) \/ StatusGet(w) \/ StatusPut(w) \/ GetById(w) \/ JobFailed(w)
    <3>1. NobodyNew
      BY <1>1, <2>1, TakeNobody, StatusNobody, FailsNobody
    <3>2. UNCHANGED <<svc, eps>>
      BY <2>1, Zenon
      DEF Take, StatusGet, StatusPut, GetById, JobFailed, apiServer
    <3>3. QED
      BY <1>1, <3>1, <3>2, NobodySafe
  <2>2. CASE Create(w) \/ Update(w)
    <3>1. NobodyNew
      BY <1>1, <2>2, CreateNobody, UpdateNobody
    <3>2. UNCHANGED <<svc, eps>>
      BY <2>2, Zenon
      DEF Create, CheckExists, CreateInstance, Created, Update, Decide, CallCloud,
          Updated, FetchLogs, ChangeSqlUser, SetAutopilot, apiServer
    <3>3. QED
      BY <1>1, <3>1, <3>2, NobodySafe
  <2>3. CASE DeleteAlarms(w) \/ BackupOrDelete(w) \/ BackupDone(w) \/ Deleted(w)
    <3>1. NobodyNew
      BY <1>1, <2>3, DeleteNobody
    <3>2. UNCHANGED <<svc, eps>>
      BY <2>3, Zenon
      DEF DeleteAlarms, BackupOrDelete, BackupDone, Deleted, apiServer
    <3>3. QED
      BY <1>1, <3>1, <3>2, NobodySafe
  <2>4. QED
    BY <1>1, <1>2, <2>1, <2>2, <2>3, EndpointsSafe, ServiceSafe, DeleteServiceSafe
    DEF Step, UpdateStatus, Delete
<1>3. ASSUME NEW w \in Workers, CallFails(w) \/ AnswerLost(w) PROVE ServiceInv'
  <2>1. UNCHANGED <<svc, eps>>
    BY <1>3, Zenon DEF CallFails, AnswerLost, apiServer
  <2>2. QED
    BY <1>1, <1>3, <2>1, FailsNobody, NobodySafe
<1>4. CASE Environment
  <2>1. UNCHANGED <<svc, eps>>
    BY <1>4, Zenon
    DEF Environment, JobDone, JobFails, MoveIp, UserCreate, UserDelete, UserEdit,
        Resync, Crash, Restarted, apiServer
  <2>2. NobodyNew
    <3>1. CASE worker' = worker
      BY <3>1, Zenon DEF NobodyNew
    <3>2. QED
      BY <1>1, <1>4, <3>1, JobFailsNobody, RestartedNobody, Zenon
      DEF Environment, Crash, JobDone, MoveIp, UserCreate, UserDelete, UserEdit, Resync
  <2>3. QED
    BY <1>1, <2>1, <2>2, NobodySafe
<1>5. CASE UNCHANGED vars \/ \E i \in 1..Len(delayed) : Requeue(i)
  <2>1. UNCHANGED <<svc, eps>> /\ NobodyNew
    BY <1>5, Zenon DEF vars, Requeue, apiServer, NobodyNew
  <2>2. QED
    BY <1>1, <2>1, NobodySafe
<1>6. QED
  BY <1>2, <1>3, <1>4, <1>5 DEF Next

\* For any number of workers, failures and crashes: whoever looks up the Service
\* of a resource finds an address behind it, though it is created after its
\* Endpoints, by any handler, and removed by another.
THEOREM ServiceBacked == Spec => []ServiceHasEndpoints
<1>1. ServiceInv => ServiceHasEndpoints
  BY DEF ServiceInv
<1>2. QED
  BY <1>1, InitService, NextService, PTL DEF Spec
==============================================================================
