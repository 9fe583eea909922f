------------------------------ MODULE RdsWorker ------------------------------
(***************************************************************************)
(* What a worker goroutine is, how it takes an event from the queue and    *)
(* gives it back (pkg/controller/worker.go), and UpdateStatus, which every *)
(* handler runs between its calls (pkg/controller/resource.go).            *)
(***************************************************************************)
EXTENDS RdsWorld

CONSTANTS
    MaxRetries,      \* maxRetries
    RetriesSuffice   \* assumption: no event is retried that often

ASSUME MaxRetriesIsNat == MaxRetries \in Nat
ASSUME RetriesSufficeIsBool == RetriesSuffice \in BOOLEAN

\* The stages of rdsUpdate in the order of its text, then those of the other
\* handlers: DeleteAlarm, backup, delete and the removal of the Service.
UpdateOps == {"enlarge", "resize", "restart", "restore", "logs", "sql", "autopilot"}
Ops == UpdateOps \cup {"none", "create", "read", "alarms", "backup", "delete",
                       "service"}
Pcs == {"idle", "check", "us.get", "us.put", "us.svc", "us.svc2", "decide",
        "call", "peek", "wait", "failed", "get"}

\* ev: the event, with newObj as the handler has changed it; obj: the newRds it
\* works on; vol, flavor: what rdsUpdate read from the cloud into oldRds;
\* ret: where UpdateStatus returns to, "next" being the end of the stage.
Worker ==
    [ pc : Pcs, op : Ops, ret : {"decide", "call", "wait", "next"},
      ev : Event, obj : Object, vol : Volumes, flavor : Flavors ]

IdleWorker ==
    [ pc |-> "idle", op |-> "none", ret |-> "next", ev |-> AddEvent(FirstObject),
      obj |-> FirstObject, vol |-> Vol0, flavor |-> Flavor0 ]

At(w, op, pc) == worker[w].op = op /\ worker[w].pc = pc
Become(w, me) == worker' = [worker EXCEPT ![w] = me]
Goto(w, pc) == Become(w, [worker[w] EXCEPT !.pc = pc])
MyId(w) == worker[w].obj.id

------------------------------------------------------------------------------
\* processEvent: the handler of an event, at its first step.
Begin(e) ==
    [ pc |-> CASE e.type = "addRds" -> "check"
               [] e.type = "delRds" -> "call"
               [] OTHER -> "us.get",
      op |-> CASE e.type = "addRds" -> "create"
               [] e.type = "delRds" -> "alarms"
               [] OTHER -> "read",
      ret |-> "decide", ev |-> e, obj |-> e.new,
      vol |-> e.new.vol, flavor |-> e.new.flavor ]

\* processNextItem, up to the call of processEvent.  Every event is an item of
\* its own (it holds pointers), so that two workers may hold the same resource.
Take(w) ==
    /\ worker[w].pc = "idle"
    /\ queue # <<>>
    /\ queue' = Tail(queue)
    /\ Become(w, Begin(Head(queue)))
    /\ UNCHANGED <<apiServer, cloud, delayed, ghosts>>

\* processNextItem when processEvent returned no error.
Finish(w) == Become(w, IdleWorker) /\ UNCHANGED delayed

\* Broken variant: the event is dropped.
Retry_Forgets(w, e) == Finish(w)

\* processNextItem when it returned an error: AddRateLimited or give up.
Retry(w, e) ==
    /\ Become(w, IdleWorker)
    /\ delayed' = IF e.n < MaxRetries THEN Append(delayed, [e EXCEPT !.n = @ + 1])
                  ELSE IF RetriesSuffice THEN Append(delayed, e)
                  ELSE delayed

\* Create drops the error of rdsCreate; the other handlers return theirs.
Fail(w) == IF worker[w].ev.type = "addRds" THEN Finish(w)
           ELSE Retry(w, worker[w].ev)

\* The delay of a retried event is over.  Each event waits on its own.
Requeue(i) ==
    /\ i \in 1..Len(delayed)
    /\ queue' = Append(queue, delayed[i])
    /\ delayed' = RemoveAt(delayed, i)
    /\ UNCHANGED <<apiServer, cloud, worker, ghosts>>

\* The process ends, by a panic in a worker or a crash, and starts again: the
\* queue was in memory, and the informer's first list adds what exists.
Restarted ==
    /\ worker' = [w \in Workers |-> IdleWorker]
    /\ queue' = IF cr = NoObject THEN <<>> ELSE <<AddEvent(cr)>>
    /\ delayed' = <<>>
    /\ inst' = [i \in Instances |-> [inst[i] EXCEPT !.by = NoWorker]]
    /\ UNCHANGED <<apiServer, backups, alarms, owed, condemned, released>>

Crash == Restarted /\ Spend("crash")

------------------------------------------------------------------------------
\* The end of a stage: rdsUpdate goes on with the first later stage that its
\* object calls for, evaluated on the object as the earlier stages left it.
Rank == [ read |-> 0, enlarge |-> 1, resize |-> 2, restart |-> 3, restore |-> 4,
          logs |-> 5, sql |-> 6, autopilot |-> 7 ]
After(op, p) == op \in DOMAIN Rank /\ Rank[op] < Rank[p]

\* Broken variant: the spec is compared with the one before the edit, not with
\* the instance.
Wants_SinceEdit(me, op) ==
    CASE op = "enlarge" -> me.ev.old.vol < me.obj.vol
      [] op = "resize" -> me.ev.old.flavor # me.obj.flavor
      [] op = "restart" -> me.obj.reboot
      [] op = "restore" -> me.obj.restore
      [] op = "logs" -> me.obj.logs
      [] op = "sql" -> SqlDiffers(me.ev, me.obj)
      [] op = "autopilot" -> me.obj.endpoint /\ ~me.obj.autopilot

Wants(me, op) ==
    CASE op = "enlarge" -> me.vol < me.obj.vol
      [] op = "resize" -> me.flavor # me.obj.flavor
      [] op = "restart" -> me.obj.reboot
      [] op = "restore" -> me.obj.restore
      [] op = "logs" -> me.obj.logs
      [] op = "sql" -> SqlDiffers(me.ev, me.obj)
      [] op = "autopilot" -> me.obj.endpoint /\ ~me.obj.autopilot

\* A request that is made once is cleared in the object, the autopilot flag set.
Marked(o, op) ==
    [o EXCEPT !.reboot = @ /\ op # "restart",
              !.restore = @ /\ op # "restore",
              !.logs = @ /\ op # "logs",
              !.autopilot = @ \/ op = "autopilot"]

\* A stage begins: a marked object is written before the call is made.
Enter(me, op) ==
    [me EXCEPT
       !.op = op, !.ret = "call", !.obj = Marked(me.obj, op),
       !.pc = IF op \in {"enlarge", "resize", "sql"} THEN "call" ELSE "us.get"]

Proceed(w, me) ==
    LET later == {op \in UpdateOps : After(me.op, op) /\ Wants(me, op)} IN
    \/ later = {} /\ Become(w, IdleWorker)
    \/ \E op \in later :
         /\ \A p \in later : Rank[op] <= Rank[p]
         /\ Become(w, Enter(me, op))

Return(w, me) ==
    IF me.ret = "next" THEN Proceed(w, me) ELSE Become(w, [me EXCEPT !.pc = me.ret])

------------------------------------------------------------------------------
\* UpdateStatus.  The error of rdsUpdateStatus is dropped, so that each early
\* return is a return without error; only the provider's error is passed on.

\* Broken variant: the state is left to the reads that follow a job.
StatusGet_KeepsState(w) ==
    /\ worker[w].pc = "us.get"
    /\ \/ MyId(w) = NoId /\ Return(w, worker[w]) /\ UNCHANGED <<events, inst>>
       \/ MyId(w) # NoId /\ Live = {} /\ Restarted
       \/ /\ MyId(w) # NoId
          /\ \E i \in Live :
               Become(w, [worker[w] EXCEPT !.pc = "us.put", !.obj.ip = inst[i].ip])
          /\ UNCHANGED <<events, inst>>
    /\ UNCHANGED <<apiServer, backups, alarms, ghosts>>

\* An object without an id returns at once; else the instance is looked up by
\* name, and a missing one is dereferenced.
StatusGet(w) ==
    /\ worker[w].pc = "us.get"
    /\ \/ MyId(w) = NoId /\ Return(w, worker[w]) /\ UNCHANGED <<events, inst>>
       \/ MyId(w) # NoId /\ Live = {} /\ Restarted
       \/ /\ MyId(w) # NoId
          /\ \E i \in Live :
               Become(w, [worker[w] EXCEPT !.pc = "us.put", !.obj.ip = inst[i].ip,
                                           !.obj.st = InstanceState(i)])
          /\ UNCHANGED <<events, inst>>
    /\ UNCHANGED <<apiServer, backups, alarms, ghosts>>

\* The API server refuses a write to a version that is not the stored one.
CanPut(o) == cr # NoObject /\ cr.rv = o.rv

\* Broken variant: after a conflict the copy is written over the stored version.
StatusPut_Forces(w) ==
    LET o == worker[w].obj IN
    /\ worker[w].pc = "us.put"
    /\ \/ cr = NoObject /\ Return(w, worker[w]) /\ UNCHANGED <<cr, queue>>
       \/ cr = o /\ Goto(w, "us.svc") /\ UNCHANGED <<cr, queue>>
       \/ cr \notin {o, NoObject} /\ Goto(w, "us.svc") /\ Store(o)
    /\ UNCHANGED <<svc, eps, job, cloud, delayed, ghosts>>

\* The whole object is written.  The answer, with its new version, is not kept:
\* the next write of this object conflicts if this one changed anything.
StatusPut(w) ==
    LET o == worker[w].obj IN
    /\ worker[w].pc = "us.put"
    /\ \/ ~CanPut(o) /\ Return(w, worker[w]) /\ UNCHANGED <<cr, queue>>
       \/ CanPut(o) /\ cr = o /\ Goto(w, "us.svc") /\ UNCHANGED <<cr, queue>>
       \/ CanPut(o) /\ cr # o /\ Goto(w, "us.svc") /\ Store(o)
    /\ UNCHANGED <<svc, eps, job, cloud, delayed, ghosts>>

\* Broken variant: the Service is created although its Endpoints were not.
StatusEndpoints_Ignored(w) ==
    /\ worker[w].pc = "us.svc"
    /\ IF svc THEN Return(w, worker[w]) ELSE Goto(w, "us.svc2")
    /\ eps' = IF svc \/ eps # NoIp THEN eps ELSE worker[w].obj.ip
    /\ UNCHANGED <<cr, svc, job, cloud, events, ghosts>>

\* With a Service there is nothing more to do.  Without one the Endpoints are
\* created, which fails if they exist or the address is not one.
StatusEndpoints(w) ==
    /\ worker[w].pc = "us.svc"
    /\ \/ /\ svc \/ eps # NoIp \/ worker[w].obj.ip = NoIp
          /\ Return(w, worker[w])
          /\ UNCHANGED eps
       \/ /\ ~svc /\ eps = NoIp /\ worker[w].obj.ip # NoIp
          /\ eps' = worker[w].obj.ip
          /\ Goto(w, "us.svc2")
    /\ UNCHANGED <<cr, svc, job, cloud, events, ghosts>>

StatusService(w) ==
    /\ worker[w].pc = "us.svc2"
    /\ svc' = TRUE
    /\ Return(w, worker[w])
    /\ UNCHANGED <<cr, eps, job, cloud, events, ghosts>>

UpdateStatus(w) ==
    StatusGet(w) \/ StatusPut(w) \/ StatusEndpoints(w) \/ StatusService(w)

------------------------------------------------------------------------------
\* A call to the cloud that starts a job on the instance of the worker's id is
\* accepted; `by' polls the job.
StartJob(w, by, kind, vol, flavor) ==
    /\ Accepts(MyId(w))
    /\ inst' = [inst EXCEPT ![MyId(w)].job = kind, ![MyId(w)].by = by,
                            ![MyId(w)].toVol = vol, ![MyId(w)].toFlavor = flavor]

\* WaitForJobCompleted, WaitForBackup: the handler goes on when its job is over.
JobOver(w) == worker[w].pc = "wait" /\ inst[MyId(w)].by # w

\* rdsGetById after a job, and the object gets the state it reports.  A missing
\* instance is dereferenced.  rdsCreate takes the address as well.
GetById(w) ==
    /\ worker[w].pc \in {"peek", "get"}
    /\ \/ /\ MyId(w) \in Live
          /\ Become(w, [worker[w] EXCEPT
               !.pc = "us.get",
               !.ret = IF worker[w].pc = "peek" THEN "wait" ELSE "next",
               !.obj.st = InstanceState(MyId(w)),
               !.obj.ip = IF worker[w].op = "create" THEN inst[MyId(w)].ip ELSE @])
          /\ UNCHANGED <<events, inst>>
       \/ MyId(w) \notin Live /\ Restarted
    /\ UNCHANGED <<apiServer, backups, alarms, ghosts>>

\* Broken variant: the error is dropped, as Create drops that of rdsCreate.
JobFailed_Dropped(w) ==
    /\ worker[w].pc = "failed"
    /\ Goto(w, "wait")
    /\ UNCHANGED <<apiServer, cloud, events, ghosts>>

\* The job failed: WaitForJobCompleted or WaitForBackup returns an error.
JobFailed(w) ==
    /\ worker[w].pc = "failed"
    /\ Fail(w)
    /\ UNCHANGED <<apiServer, cloud, queue, ghosts>>
==============================================================================
