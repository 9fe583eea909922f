----------------------------- MODULE RdsOperator -----------------------------
(***************************************************************************)
(* The operator and its surroundings together: what Run starts, the users, *)
(* the cloud, failing calls, crashes; and what is expected of the whole.   *)
(***************************************************************************)
EXTENDS RdsCreate, RdsUpdate, RdsDelete

\* An instance and the resource that manages it, as a completed Create leaves
\* them and a restarted operator finds them.
Managed == [FirstObject EXCEPT !.rv = 1, !.id = 1, !.ip = 1, !.st = "ACTIVE"]
Running == [Unborn EXCEPT !.phase = "live", !.ip = 1]

Begins(start) ==
    /\ cr = IF start = "managed" THEN Managed ELSE NoObject
    /\ svc = (start = "managed")
    /\ eps = IF start = "managed" THEN 1 ELSE NoIp
    /\ inst = [i \in Instances |->
                 IF start # "empty" /\ i = 1 THEN Running ELSE Unborn]
    /\ queue = IF start = "managed" THEN <<AddEvent(Managed)>> ELSE <<>>

Init ==
    /\ \E s \in Scenarios : Begins(s.start) /\ budget = s.budget
    /\ job = FALSE /\ backups = {} /\ alarms = FALSE
    /\ delayed = <<>>
    /\ worker = [w \in Workers |-> IdleWorker]
    /\ owed = [restart |-> 0, restore |-> 0]
    /\ condemned = {} /\ released = {}

\* One goroutine's next step.
Step(w) ==
    \/ Take(w) \/ UpdateStatus(w) \/ GetById(w) \/ JobFailed(w)
    \/ Create(w) \/ Update(w) \/ Delete(w)

\* A call of the handler fails without effect, and the handler takes its error
\* path.  In the last two stages part of the errors are logged or ignored only.
CallFails(w) ==
    LET me == worker[w] IN
    /\ Spend("fault")
    /\ \/ me.pc = "check" /\ Retry(w, me.ev) /\ UNCHANGED inst   \* the provider
       \/ /\ me.pc \in {"us.get", "us.put", "us.svc", "us.svc2"}
          /\ Return(w, me)
          /\ UNCHANGED <<delayed, inst>>
       \/ /\ me.op \in {"autopilot", "service"} /\ me.pc = "call"
          /\ Finish(w)
          /\ UNCHANGED inst
       \/ /\ me.pc = "decide"
          /\ Retry(w, [me.ev EXCEPT !.new = me.obj])
          /\ UNCHANGED inst
       \/ /\ me.pc \in {"check", "us.get", "call", "get", "peek"}
          /\ Fail(w)
          /\ UNCHANGED inst
       \/ /\ me.pc = "wait"                   \* its timeout, or polling fails
          /\ Fail(w)
          /\ inst' = [i \in Instances |->
               IF inst[i].by = w THEN [inst[i] EXCEPT !.by = NoWorker] ELSE inst[i]]
    /\ UNCHANGED <<apiServer, backups, alarms, queue, owed, condemned, released>>

\* A call is accepted by the cloud, but its answer does not arrive.
AnswerLost(w) ==
    /\ Spend("fault")
    /\ \/ CreateCall(w, NoWorker)
       \/ UpdateCall(w, NoWorker)
       \/ DeleteCall(w, NoWorker)
    /\ Fail(w)
    /\ UNCHANGED <<apiServer, backups, alarms, queue, condemned, released>>

Environment ==
    \/ \E i \in Instances : JobDone(i) \/ JobFails(i) \/ MoveIp(i)
    \/ UserCreate
    \/ UserDelete
    \/ \E kind \in EditKinds : UserEdit(kind)
    \/ Resync
    \/ Crash

Next ==
    \/ \E w \in Workers : Step(w) \/ CallFails(w) \/ AnswerLost(w)
    \/ \E i \in 1..Len(delayed) : Requeue(i)
    \/ Environment

Spec == Init /\ [][Next]_vars

\* The Go scheduler runs every goroutine, the rate limiter gives every event
\* back, jobs end and resyncs recur.  Users, failures and crashes are owed
\* nothing.
Fairness ==
    /\ \A w \in Workers : WF_vars(Step(w))
    /\ WF_vars(Requeue(1))
    /\ \A i \in Instances : WF_vars(JobDone(i))
    /\ SF_vars(Resync)

FairSpec == Spec /\ Fairness

------------------------------------------------------------------------------
\* Every variable keeps to its type; among others no write finds all the resource
\* versions taken, and every worker is at a step of a handler.
TypeOK ==
    /\ cr \in Object \cup {NoObject}
    /\ svc \in BOOLEAN /\ eps \in Ips /\ job \in BOOLEAN
    /\ inst \in [Instances -> Instance]
    /\ backups \subseteq Instances /\ alarms \in BOOLEAN
    /\ queue \in Seq(Event) /\ delayed \in Seq(Event)
    /\ worker \in [Workers -> Worker]
    /\ owed \in [restart : Int, restore : Int]
    /\ condemned \subseteq Instances /\ released \subseteq Instances
    /\ budget \in [Kinds -> Nat]

\* An instance is deleted only when a manual backup of it was completed, though
\* the backup may fail, its answer be lost and the event be retried (rdsDelete).
BackupBeforeDelete ==
    \A i \in Instances :
        inst[i].job = "delete" \/ inst[i].phase = "gone" => i \in backups

\* The operator deletes an instance only if a user deleted a resource that named
\* it: not one that was exported, not one of a resource made anew (rdsDelete works
\* on a copy that may be long outdated).
OnlyCondemnedDeleted ==
    \A i \in Instances :
        inst[i].job = "delete" \/ inst[i].phase = "gone" => i \in condemned

\* There are never two instances of the name of the resource (rdsCreate looks
\* one up, and creates it later).  So it is if users create the resource once.
NeverTwoInstances == Cardinality(Live) <= 1

\* There may be more of them when rdsCreate runs in several workers at a time, but
\* never more than there are workers: with one (NUM_WORKERS) there are never two,
\* however often the resource is deleted and created again.
NoMoreThanWorkers ==
    Cardinality(Live) <= 1 \/ Cardinality(Live) <= Cardinality(Workers)

\* A write that is not a user's: a worker's UpdateStatus.
OperatorWrites ==
    cr' # cr /\ cr # NoObject /\ cr' # NoObject /\ budget' = budget

\* UpdateStatus writes a whole object, from a copy taken any time ago, but never
\* undoes what a user wrote since: the spec stays, an id that was removed is not
\* brought back, a request is only ever cleared, the autopilot only set.
NoLostEdit ==
    [][OperatorWrites =>
         /\ cr'.vol = cr.vol /\ cr'.flavor = cr.flavor
         /\ cr'.dbs = cr.dbs /\ cr'.users = cr.users
         /\ cr'.endpoint = cr.endpoint
         /\ cr'.id # cr.id => cr'.id \notin released
         /\ cr.restore \/ ~cr'.restore
         /\ cr.reboot \/ ~cr'.reboot
         /\ cr.logs \/ ~cr'.logs
         /\ cr'.autopilot \/ ~cr.autopilot]_vars

\* The id of a resource, once written, is only removed by a user (an export), and
\* an operator that starts again does not create a second instance for it.
IdIsPermanent ==
    [][OperatorWrites /\ cr.id # NoId => cr'.id = cr.id]_vars

\* The Service is never there without an address behind it.
ServiceHasEndpoints == svc => eps # NoIp

\* To the specification of what is promised, all that happens to an instance is
\* that it is there, is leaving or gone.
Life(i) ==
    CASE inst[i].phase = "unborn" -> "absent"
      [] inst[i].phase = "gone" -> "gone"
      [] inst[i].job = "delete" -> "leaving"
      [] OTHER -> "there"

Lifecycle == INSTANCE RdsLifecycle
    WITH life <- [i \in Instances |-> Life(i)], saved <- backups

\* Every behaviour of the operator is one of RdsLifecycle: no id is given twice,
\* no deleted instance comes back, and each is condemned, saved, deleted in that
\* order, whatever is retried, lost or processed out of order on the way.
ImplementsLifecycle == Lifecycle!Spec

------------------------------------------------------------------------------
\* Managed: the resource names an instance that is there.
HasInstance == cr # NoObject /\ cr.id # NoId

\* In the end the instance is as the spec says, whatever order its events were
\* processed in.  (A volume is not shrunk.)
SpecReachesCloud ==
    <>[](HasInstance => /\ inst[cr.id].vol >= cr.vol
                        /\ inst[cr.id].flavor = cr.flavor)

\* In the end the status tells the state and the address of the instance.
StatusSettles ==
    <>[](HasInstance => cr.st = InstanceState(cr.id) /\ cr.ip = inst[cr.id].ip)

\* A resource gets its instance, and the instance its Service.
InstanceProvided ==
    cr # NoObject ~> (cr = NoObject \/ (HasInstance /\ cr.st = "ACTIVE" /\ svc))

\* The instance of a deleted resource is deleted.
DeleteReachesCloud ==
    \A i \in Instances : i \in condemned ~> inst[i].phase = "gone"

\* A request for a restart or a restore makes one at most.
ServedOncePerRequest == owed.restart >= 0 /\ owed.restore >= 0

\* A resource with an alarm endpoint gets its alarm rules, although a request for
\* logs ends the handler one stage before and events of both edits are handled by
\* two workers at a time.  (The flag that says so is written first: what a crash or
\* an error in between does is AskedIsDone's subject.)
AutopilotServed == HasInstance /\ cr.endpoint ~> alarms

\* What users ask for is done, although the flag or the time that asks for it is
\* cleared, or the one that says it is done is set, before the call that does it:
\* a restart, a restore, the alarm rules.
AskedIsDone ==
    /\ owed.restart > 0 ~> owed.restart <= 0
    /\ owed.restore > 0 ~> owed.restore <= 0
    /\ AutopilotServed

\* What a spec with users lists is in the database in the end, although an event
\* that compares the lengths of two lists, and the pointers of two others, decides
\* on it, and the address it connects to may have moved (CreateSqlUser).
SqlServed ==
    <>[](HasInstance /\ cr.users =>
           inst[cr.id].users /\ cr.dbs \subseteq inst[cr.id].schemas)

\* The Endpoints come to hold the address of the instance.
EndpointFollowsIp == <>[](HasInstance => eps = inst[cr.id].ip)

\* An instance is deleted in the end unless a resource names it: a deletion during
\* the creation included.
NoOrphan ==
    \A i \in Instances :
        inst[i].phase = "live" ~> inst[i].phase = "gone" \/ (HasInstance /\ cr.id = i)
==============================================================================
