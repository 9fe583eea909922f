------------------------------ MODULE RdsCreate ------------------------------
(***************************************************************************)
(* Create and rdsCreate (pkg/controller/resource.go): the handler of an    *)
(* added resource.  Create returns no error of rdsCreate, so that whatever *)
(* fails after the clients are set up ends the event.                      *)
(***************************************************************************)
EXTENDS RdsWorker

\* Broken variant: the cloud is not asked for an instance of that name.
FoundByName_Never == FALSE

\* rdsGetByName finds an instance with the name of the resource.
FoundByName == Live # {}

\* The check for an existing instance; the lookups of network and group that
\* follow change nothing.
CheckExists(w) ==
    /\ At(w, "create", "check")
    /\ \/ FoundByName /\ Finish(w)
       \/ ~FoundByName /\ Goto(w, "call") /\ UNCHANGED delayed
    /\ UNCHANGED <<apiServer, cloud, queue, ghosts>>

\* The id a new instance gets: the cloud never gives one twice.
NewId(i) == inst[i].phase = "unborn" /\ \A j \in 1..(i - 1) : inst[j].phase # "unborn"

\* instances.Create is accepted: the instance is in the cloud, in state BUILD,
\* with the spec of the event and no address.
Provision(i, o, by) ==
    inst' = [inst EXCEPT
        ![i] = [Unborn EXCEPT !.phase = "live", !.job = "create", !.by = by,
                  !.vol = o.vol, !.flavor = o.flavor,
                  !.toVol = o.vol, !.toFlavor = o.flavor]]

CreateCall(w, by) ==
    /\ At(w, "create", "call")
    /\ \E i \in Instances : NewId(i) /\ Provision(i, worker[w].obj, by)
    /\ UNCHANGED owed

\* The answer gives the object id and state, which UpdateStatus then writes.
CreateInstance(w) ==
    /\ \/ /\ CreateCall(w, w)
          /\ \E i \in Instances :
               /\ NewId(i)
               /\ Become(w, [worker[w] EXCEPT !.pc = "us.get", !.ret = "wait",
                                              !.obj.id = i, !.obj.st = "BUSY"])
          /\ UNCHANGED delayed
       \/ /\ At(w, "create", "call")
          /\ \A i \in Instances : inst[i].phase # "unborn"   \* the quota is used up
          /\ Fail(w)
          /\ UNCHANGED <<inst, owed>>
    /\ UNCHANGED <<apiServer, backups, alarms, queue, condemned, released, budget>>

\* The job of the creation is over: rdsGetById follows.
Created(w) ==
    /\ worker[w].op = "create" /\ JobOver(w)
    /\ Goto(w, "get")
    /\ UNCHANGED <<apiServer, cloud, events, ghosts>>

Create(w) == CheckExists(w) \/ CreateInstance(w) \/ Created(w)
==============================================================================
