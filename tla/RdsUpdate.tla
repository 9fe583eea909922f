------------------------------ MODULE RdsUpdate ------------------------------
(***************************************************************************)
(* processUpdateRds (pkg/controller/worker.go) and rdsUpdate               *)
(* (pkg/controller/resource.go): the handler of a changed or resynced      *)
(* resource.  It brings the instance to the spec of ITS event, whatever    *)
(* the spec of the resource is by now.                                     *)
(***************************************************************************)
EXTENDS RdsWorker

CONSTANT MySQL   \* Spec.Datastoretype is MySQL

ASSUME MySQLIsBool == MySQL \in BOOLEAN

\* After the first UpdateStatus, which changed the newObj of the event.  Not
\* changed: done.  Not ACTIVE, or without an id: an error (after 30 seconds of
\* sleep).  Else rdsUpdate reads the real size and flavor, and starts its stages.
Decide(w) ==
    LET me == [worker[w] EXCEPT !.ev.new = worker[w].obj]
        changed == HasChanged(me.ev.old, me.obj)
        ready == me.obj.st = "ACTIVE" /\ me.obj.id # NoId
    IN
    /\ worker[w].pc = "decide"
    /\ \/ ~changed /\ Finish(w) /\ UNCHANGED <<queue, inst>>
       \/ changed /\ ~ready /\ Retry(w, me.ev) /\ UNCHANGED <<queue, inst>>
       \/ changed /\ ready /\ Live = {} /\ Restarted
       \/ /\ changed /\ ready
          /\ \E i \in Live : Proceed(w, [me EXCEPT !.vol = inst[i].vol,
                                                   !.flavor = inst[i].flavor])
          /\ UNCHANGED <<events, inst>>
    /\ UNCHANGED <<apiServer, backups, alarms, ghosts>>

------------------------------------------------------------------------------
\* The stages that start a job.  The cloud refuses one while another runs, an
\* enlargement that does not enlarge and a resize to the flavor it has.

Enlarge(w, by) ==
    LET o == worker[w].obj IN
    /\ At(w, "enlarge", "call")
    /\ inst[o.id].vol < o.vol
    /\ StartJob(w, by, "enlarge", o.vol, inst[o.id].flavor)
    /\ UNCHANGED owed

Resize(w, by) ==
    LET o == worker[w].obj IN
    /\ At(w, "resize", "call")
    /\ inst[o.id].flavor # o.flavor
    /\ StartJob(w, by, "resize", inst[o.id].vol, o.flavor)
    /\ UNCHANGED owed

Restart(w, by) ==
    /\ At(w, "restart", "call")
    /\ StartJob(w, by, "restart", inst[MyId(w)].vol, inst[MyId(w)].flavor)
    /\ owed' = [owed EXCEPT !.restart = IF @ > -1 THEN @ - 1 ELSE @]

Restore(w, by) ==
    /\ At(w, "restore", "call")
    /\ StartJob(w, by, "restore", inst[MyId(w)].vol, inst[MyId(w)].flavor)
    /\ owed' = [owed EXCEPT !.restore = IF @ > -1 THEN @ - 1 ELSE @]

UpdateCall(w, by) ==
    Enlarge(w, by) \/ Resize(w, by) \/ Restart(w, by) \/ Restore(w, by)

Refused(w) ==
    LET o == worker[w].obj IN
    /\ worker[w].pc = "call"
    /\ \/ worker[w].op \in {"restart", "restore"} /\ ~Accepts(o.id)
       \/ worker[w].op = "enlarge" /\ ~(Accepts(o.id) /\ inst[o.id].vol < o.vol)
       \/ worker[w].op = "resize" /\ ~(Accepts(o.id) /\ inst[o.id].flavor # o.flavor)

\* RestorePITR is followed by a status update before its job is waited for.
CallCloud(w) ==
    /\ \/ /\ UpdateCall(w, w)
          /\ Goto(w, IF worker[w].op = "restore" THEN "peek" ELSE "wait")
          /\ UNCHANGED delayed
       \/ Refused(w) /\ Fail(w) /\ UNCHANGED <<inst, owed>>
    /\ UNCHANGED <<apiServer, backups, alarms, queue, condemned, released, budget>>

\* WaitForJobCompleted returns; rdsGetById and UpdateStatus follow.
Updated(w) ==
    /\ worker[w].op \in {"enlarge", "resize", "restart", "restore"}
    /\ JobOver(w)
    /\ Goto(w, "get")
    /\ UNCHANGED <<apiServer, cloud, events, ghosts>>

------------------------------------------------------------------------------
\* The log job.  It is created under the name of the resource and then looked up
\* as <namespace>_<name>, which is never found: an error.  The retried event
\* still asks for logs, finds the job there and ends, without the later stages.
FetchLogs(w) ==
    /\ At(w, "logs", "call")
    /\ job' = (job \/ cr # NoObject)   \* collected at once without its owner
    /\ IF job THEN Finish(w) ELSE Fail(w)
    /\ UNCHANGED <<cr, svc, eps, cloud, queue, ghosts>>

\* CreateSqlUser.  It connects to the address in the object; a nil list of users
\* is dereferenced; what is there is left alone, and nothing is dropped.
Reachable(w) == \E i \in Live : inst[i].ip = worker[w].obj.ip

ChangeSqlUser(w) ==
    LET o == worker[w].obj IN
    /\ At(w, "sql", "call")
    /\ \/ ~(MySQL /\ Reachable(w)) /\ Fail(w) /\ UNCHANGED <<queue, inst>>
       \/ MySQL /\ Reachable(w) /\ ~o.users /\ Restarted
       \/ /\ MySQL /\ Reachable(w) /\ o.users
          /\ \E i \in Live :
               /\ inst[i].ip = o.ip
               /\ inst' = [inst EXCEPT ![i].users = TRUE,
                                       ![i].schemas = @ \cup o.dbs]
          /\ Proceed(w, worker[w])
          /\ UNCHANGED events
    /\ UNCHANGED <<apiServer, backups, alarms, ghosts>>

\* Broken variant: rules are expected to be there when the flag is set.
SetAutopilot_FlagOnly(w) ==
    /\ At(w, "autopilot", "call")
    /\ Finish(w)
    /\ UNCHANGED <<apiServer, cloud, queue, ghosts>>

\* CreateAlarm for the first node; existing rules are an error.
SetAutopilot(w) ==
    /\ At(w, "autopilot", "call")
    /\ \/ MyId(w) \in Live /\ ~alarms /\ alarms' = TRUE
          /\ Finish(w) /\ UNCHANGED <<queue, inst>>
       \/ MyId(w) \in Live /\ alarms /\ Fail(w) /\ UNCHANGED <<alarms, queue, inst>>
       \/ MyId(w) \notin Live /\ Restarted
    /\ UNCHANGED <<apiServer, backups, ghosts>>

Update(w) ==
    \/ Decide(w) \/ CallCloud(w) \/ Updated(w)
    \/ FetchLogs(w) \/ ChangeSqlUser(w) \/ SetAutopilot(w)
==============================================================================
