------------------------------ MODULE RdsWorld ------------------------------
(***************************************************************************)
(* Everything the operator shares with its surroundings, and what those do *)
(* on their own: the Kubernetes API server (the resource, its Service and  *)
(* Endpoints, the log job), the RDS service of the cloud, the users, and   *)
(* the informer that turns changes of the resource into queued events.     *)
(* The cloud and the API server are not part of this repository: they are  *)
(* modelled from the calls pkg/controller/resource.go makes and from the   *)
(* answers it expects.                                                     *)
(***************************************************************************)
EXTENDS RdsObject, SequencesExt

CONSTANTS
    Workers,     \* the goroutines that Run starts
    NoWorker,    \* nobody waits for the job of an instance
    MaxVersion,  \* bound: resource versions held at one time
    MaxBacklog,  \* bound: a resync is queued only below this many events
    Scenarios    \* where a behaviour starts, and what happens in it: Scenario

\* What the users edit, and whatever else happens outside of the operator.
EditKinds == {"volume", "flavor", "reboot", "restore", "logs", "databases",
              "users", "both", "endpoint", "export"}
Kinds == EditKinds \cup {"create", "delete", "fault", "crash", "ip"}

\* start: see Init; budget: a bound, how often each thing happens at most.
Scenario == [start : {"empty", "managed", "unmanaged"}, budget : [Kinds -> Nat]]

ASSUME NoWorkerIsNone == NoWorker \notin Workers
ASSUME WorkersAreFinite == IsFiniteSet(Workers)
ASSUME BoundsAreNat == MaxVersion \in Nat /\ MaxBacklog \in Nat
ASSUME ScenariosAreSome == Scenarios \subseteq Scenario

VARIABLES
    cr,       \* the resource in the API server, or NoObject
    svc,      \* its headless Service exists
    eps,      \* the address in its Endpoints, NoIp when there are none
    job,      \* the log job of its name exists
    inst,     \* the instances of its name in the cloud, by id
    backups,  \* ids of which a manual backup is completed
    alarms,   \* the alarm rules of its name exist
    queue,    \* c.queue: events ready to be processed
    delayed,  \* c.queue: events added with AddRateLimited
    worker,   \* what each goroutine is doing
    owed,     \* history: restarts and restores asked for, less those made
    condemned, \* history: ids that a resource named when a user deleted it
    released, \* history: ids that a user removed from the resource
    budget    \* what is left of the scenario's budget

apiServer == <<cr, svc, eps, job>>
cloud == <<inst, backups, alarms>>
events == <<queue, delayed>>
ghosts == <<owed, condemned, released, budget>>
vars == <<apiServer, cloud, events, worker, ghosts>>

------------------------------------------------------------------------------
\* Resource versions are compared for equality only, so that a write may take
\* the least one no copy of the resource still carries.
Versions == 1..MaxVersion

VersionsInUse ==
    {e.new.rv : e \in ToSet(queue) \cup ToSet(delayed)}
      \cup {worker[w].obj.rv : w \in Workers}
      \cup {worker[w].ev.new.rv : w \in Workers}
      \cup (IF cr = NoObject THEN {} ELSE {cr.rv})

Unused(r) == r \in Versions \ VersionsInUse
IsFresh(r) == Unused(r) /\ \A s \in Versions : Unused(s) => r <= s

\* The API server stores the next version of the resource; the informer's
\* addRds or updateRds queues a copy of what it watched.
Store(o) ==
    \E r \in Versions :
        /\ IsFresh(r)
        /\ cr' = [o EXCEPT !.rv = r]
        /\ queue' = Append(queue, IF cr = NoObject
                                    THEN AddEvent([o EXCEPT !.rv = r])
                                    ELSE UpdateEvent(cr, [o EXCEPT !.rv = r], FALSE))

Spend(kind) == budget[kind] > 0 /\ budget' = [budget EXCEPT ![kind] = @ - 1]

------------------------------------------------------------------------------
\* Instances.  A job is what a call starts and WaitForJobCompleted (or
\* WaitForBackup) polls; `by' is the worker that will poll it, toVol and
\* toFlavor what the instance has when the job ends.
Jobs == {"none", "create", "enlarge", "resize", "restart", "restore", "backup",
         "delete"}

Instance ==
    [ phase : {"unborn", "live", "gone"},
      vol : Volumes, flavor : Flavors, toVol : Volumes, toFlavor : Flavors,
      ip : Ips, job : Jobs, by : Workers \cup {NoWorker},
      schemas : SUBSET Databases, users : BOOLEAN ]

Unborn ==
    [ phase |-> "unborn", vol |-> Vol0, flavor |-> Flavor0,
      toVol |-> Vol0, toFlavor |-> Flavor0, ip |-> NoIp,
      job |-> "none", by |-> NoWorker, schemas |-> {}, users |-> FALSE ]

Live == {i \in Instances : inst[i].phase = "live"}
\* Calls are refused while a job runs, and for an id that is not there.
Accepts(i) == i \in Live /\ inst[i].job = "none"

\* Broken variant: what the cloud calls a running job is taken over as it is.
InstanceState_Raw(i) == inst[i].job

\* The state rdsGetByName and rdsGetById report.
InstanceState(i) == IF inst[i].job = "none" THEN "ACTIVE" ELSE "BUSY"

\* A job ends: a new instance gets its address, a deleted one is gone.
JobDone(i) ==
    /\ inst[i].job # "none"
    /\ inst' = [inst EXCEPT
         ![i].phase = IF inst[i].job = "delete" THEN "gone" ELSE @,
         ![i].vol = inst[i].toVol, ![i].flavor = inst[i].toFlavor,
         ![i].ip = IF inst[i].job = "create" THEN i ELSE @,
         ![i].job = "none", ![i].by = NoWorker]
    /\ backups' = IF inst[i].job = "backup" THEN backups \cup {i} ELSE backups
    /\ UNCHANGED <<apiServer, alarms, events, worker, ghosts>>

\* A job fails and changes nothing; the worker that polls it is told so.  (A
\* creation that fails leaves an instance all the same: for that the worker is told
\* of an error while it waits, and the job goes on, in CallFails.)
JobFails(i) ==
    /\ inst[i].job \notin {"none", "create"}
    /\ Spend("fault")
    /\ inst' = [inst EXCEPT ![i].toVol = inst[i].vol, ![i].toFlavor = inst[i].flavor,
                            ![i].job = "none", ![i].by = NoWorker]
    /\ \/ inst[i].by = NoWorker /\ UNCHANGED worker
       \/ /\ inst[i].by \in Workers
          /\ worker[inst[i].by].pc = "wait"
          /\ worker' = [worker EXCEPT ![inst[i].by].pc = "failed"]
    /\ UNCHANGED <<apiServer, backups, alarms, events, owed, condemned, released>>

\* The cloud gives an instance another address (a failover, a maintenance).
MoveIp(i) ==
    /\ Accepts(i)
    /\ inst[i].ip # MovedIp
    /\ Spend("ip")
    /\ inst' = [inst EXCEPT ![i].ip = MovedIp]
    /\ UNCHANGED <<apiServer, backups, alarms, events, worker, owed, condemned, released>>

------------------------------------------------------------------------------
\* The users.  An edit writes spec and status in one object: the CRD has no
\* status subresource.
UserCreate ==
    /\ cr = NoObject
    /\ Spend("create")
    /\ Store(FirstObject)
    /\ UNCHANGED <<svc, eps, job, cloud, delayed, worker, owed, condemned, released>>

\* The log job is owned by the resource and collected with it; the Service and
\* the Endpoints have no owner.
UserDelete ==
    /\ cr # NoObject
    /\ Spend("delete")
    /\ cr' = NoObject
    /\ job' = FALSE
    /\ queue' = Append(queue, DelEvent(cr))
    /\ condemned' = condemned \cup ({cr.id} \ {NoId})
    /\ UNCHANGED <<svc, eps, cloud, delayed, worker, owed, released>>

Edited(kind) ==
    CASE kind = "volume" -> {[cr EXCEPT !.vol = v] : v \in Volumes}
      [] kind = "flavor" -> {[cr EXCEPT !.flavor = f] : f \in Flavors}
      [] kind = "reboot" -> {[cr EXCEPT !.reboot = TRUE]}
      [] kind = "restore" -> {[cr EXCEPT !.restore = TRUE]}
      [] kind = "logs" -> {[cr EXCEPT !.logs = TRUE]}
      [] kind = "databases" -> {[cr EXCEPT !.dbs = d] : d \in SUBSET Databases}
      [] kind = "users" -> {[cr EXCEPT !.users = TRUE]}
      [] kind = "both" -> {[cr EXCEPT !.dbs = d, !.users = TRUE] :
                             d \in SUBSET Databases}
      [] kind = "endpoint" -> {[cr EXCEPT !.endpoint = TRUE]}
      [] kind = "export" -> {[cr EXCEPT !.id = NoId]}

\* The history variable counts a request for a restart or a restore.
Owing(kind) ==
    CASE kind = "reboot" -> [owed EXCEPT !.restart = @ + 1]
      [] kind = "restore" -> [owed EXCEPT !.restore = @ + 1]
      [] OTHER -> owed

UserEdit(kind) ==
    /\ cr # NoObject
    /\ Spend(kind)
    /\ \E o \in Edited(kind) \ {cr} : Store(o)
    /\ owed' = Owing(kind)
    /\ released' = IF kind = "export" THEN released \cup ({cr.id} \ {NoId})
                   ELSE released
    /\ UNCHANGED <<svc, eps, job, cloud, delayed, worker, condemned>>

\* Every refreshtime seconds the informer hands updateRds each object of its
\* cache, as old and as new.
Backlog ==
    Len(queue) + Len(delayed) + Cardinality({w \in Workers : worker[w].pc # "idle"})

Resync ==
    /\ cr # NoObject
    /\ Backlog < MaxBacklog
    /\ queue' = Append(queue, UpdateEvent(cr, cr, TRUE))
    /\ UNCHANGED <<apiServer, cloud, delayed, worker, ghosts>>
==============================================================================
