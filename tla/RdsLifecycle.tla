----------------------------- MODULE RdsLifecycle -----------------------------
(***************************************************************************)
(* What the operator promises about the instances of one resource, without *)
(* its events, handlers, jobs and retries: an instance is made once, and   *)
(* it leaves only after a user condemned it and it was saved, in that      *)
(* order.  RdsOperator implements this (see Lifecycle there).              *)
(***************************************************************************)
EXTENDS Integers

CONSTANT Instances   \* the ids the cloud may give: numbers, in their order

VARIABLES
    life,       \* of each instance: "absent", "there", "leaving" or "gone"
    saved,      \* instances with a completed manual backup
    condemned   \* instances whose resource a user deleted

lifecycle == <<life, saved, condemned>>

Init ==
    /\ life \in [Instances -> {"absent", "there"}]
    /\ saved = {} /\ condemned = {}

\* Ids are given in their order, and none twice.
Make(i) ==
    /\ life[i] = "absent"
    /\ \A j \in Instances : j < i => life[j] # "absent"
    /\ life' = [life EXCEPT ![i] = "there"]
    /\ UNCHANGED <<saved, condemned>>

\* A user deletes the resource that names the instance.
Condemn(i) ==
    /\ condemned' = condemned \cup {i}
    /\ UNCHANGED <<life, saved>>

Save(i) ==
    /\ life[i] = "there" /\ i \in condemned
    /\ saved' = saved \cup {i}
    /\ UNCHANGED <<life, condemned>>

Leave(i) ==
    /\ life[i] = "there" /\ i \in saved
    /\ life' = [life EXCEPT ![i] = "leaving"]
    /\ UNCHANGED <<saved, condemned>>

\* The deletion fails, or it is completed.
Stay(i) ==
    /\ life[i] = "leaving"
    /\ life' = [life EXCEPT ![i] = "there"]
    /\ UNCHANGED <<saved, condemned>>

End(i) ==
    /\ life[i] = "leaving"
    /\ life' = [life EXCEPT ![i] = "gone"]
    /\ UNCHANGED <<saved, condemned>>

Next ==
    \E i \in Instances :
        Make(i) \/ Condemn(i) \/ Save(i) \/ Leave(i) \/ Stay(i) \/ End(i)

Spec == Init /\ [][Next]_lifecycle
==============================================================================
