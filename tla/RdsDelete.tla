------------------------------ MODULE RdsDelete ------------------------------
(***************************************************************************)
(* Delete and rdsDelete (pkg/controller/resource.go): the handler of a     *)
(* removed resource, which works on the last copy of it that the informer  *)
(* had.  An error is returned, and the event retried from the beginning.   *)
(***************************************************************************)
EXTENDS RdsWorker

\* Broken variant: an instance is looked up by name for a copy without an id.
DeleteAlarms_FindsByName(w) ==
    /\ At(w, "alarms", "call")
    /\ alarms' = (alarms /\ ~worker[w].obj.autopilot)
    /\ \/ Live = {} /\ Fail(w)
       \/ /\ \E i \in Live :
               Become(w, [worker[w] EXCEPT !.op = "backup", !.obj.id = i])
          /\ UNCHANGED delayed
    /\ UNCHANGED <<apiServer, inst, backups, queue, ghosts>>

\* DeleteAlarm, when the copy has the autopilot flag; then rdsDelete, which is
\* an error for a copy without an id.
DeleteAlarms(w) ==
    /\ At(w, "alarms", "call")
    /\ alarms' = (alarms /\ ~worker[w].obj.autopilot)
    /\ \/ MyId(w) = NoId /\ Fail(w)
       \/ /\ MyId(w) # NoId
          /\ Become(w, [worker[w] EXCEPT !.op = "backup"])
          /\ UNCHANGED delayed
    /\ UNCHANGED <<apiServer, inst, backups, queue, ghosts>>

\* backups.Create and later instances.Delete, when the cloud accepts them.
DeleteCall(w, by) ==
    /\ worker[w].op \in {"backup", "delete"}
    /\ worker[w].pc = "call"
    /\ StartJob(w, by, worker[w].op, inst[MyId(w)].vol, inst[MyId(w)].flavor)
    /\ UNCHANGED owed

BackupOrDelete(w) ==
    /\ \/ DeleteCall(w, w) /\ Goto(w, "wait") /\ UNCHANGED delayed
       \/ /\ worker[w].op \in {"backup", "delete"}
          /\ worker[w].pc = "call"
          /\ ~Accepts(MyId(w))
          /\ Fail(w)
          /\ UNCHANGED <<inst, owed>>
    /\ UNCHANGED <<apiServer, backups, alarms, queue, condemned, released, budget>>

\* WaitForBackup returns.
BackupDone(w) ==
    /\ worker[w].op = "backup" /\ JobOver(w)
    /\ Become(w, [worker[w] EXCEPT !.op = "delete", !.pc = "call"])
    /\ UNCHANGED <<apiServer, cloud, events, ghosts>>

\* WaitForJobCompleted returns after instances.Delete.
Deleted(w) ==
    /\ worker[w].op = "delete" /\ JobOver(w)
    /\ Become(w, [worker[w] EXCEPT !.op = "service", !.pc = "call"])
    /\ UNCHANGED <<apiServer, cloud, events, ghosts>>

\* The Service is removed if it is there; Kubernetes removes its Endpoints.
DeleteService(w) ==
    /\ At(w, "service", "call")
    /\ svc' = FALSE
    /\ eps' = IF svc THEN NoIp ELSE eps
    /\ Finish(w)
    /\ UNCHANGED <<cr, job, cloud, queue, ghosts>>

Delete(w) ==
    \/ DeleteAlarms(w) \/ BackupOrDelete(w) \/ BackupDone(w)
    \/ Deleted(w) \/ DeleteService(w)
==============================================================================
