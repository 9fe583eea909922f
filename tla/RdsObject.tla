------------------------------ MODULE RdsObject ------------------------------
(***************************************************************************)
(* The custom resource Rds (pkg/rds/v1alpha1/types.go), the event that the *)
(* informer handlers put on the work queue (pkg/controller/event.go), and  *)
(* the pure functions over them that the handlers branch on.               *)
(*                                                                         *)
(* One resource, of one namespace and name, is followed: an object here is *)
(* one version of it.  Strings are abstracted to what the handlers compare:*)
(* a flavor is a model value, an instance id a number (0 stands for ""),   *)
(* an address a number (0 stands for "" and for 0.0.0.0), a restore time   *)
(* and an endpoint are set or not.                                         *)
(***************************************************************************)
EXTENDS Integers, FiniteSets

CONSTANTS
    Volumes,        \* volume sizes a spec may ask for
    Flavors,        \* flavor codes a spec may ask for
    Vol0, Flavor0,  \* the spec the resource is first created with
    Databases,      \* schema names a spec may list
    MaxInstances,   \* how many instances the cloud project has quota for
    NoObject        \* the resource does not exist

ASSUME VolumesAreSizes == Volumes \subseteq Nat
ASSUME FirstSpec == Vol0 \in Volumes /\ Flavor0 \in Flavors
ASSUME FiniteDatabases == IsFiniteSet(Databases)
ASSUME QuotaIsNat == MaxInstances \in Nat \ {0}

NoId == 0
NoIp == 0

Instances == 1..MaxInstances
Ids == 0..MaxInstances
\* An instance gets its own number as address; the last one is where it moves.
MovedIp == MaxInstances + 1
Ips == 0..MovedIp

\* Status.Status: "" ("none"), ACTIVE, or any of BUILD, MODIFYING, REBOOTING...
States == {"none", "ACTIVE", "BUSY"}

Object ==
    [ rv : Nat,                       \* ObjectMeta.ResourceVersion
      vol : Volumes, flavor : Flavors, restore : BOOLEAN,
      dbs : SUBSET Databases, users : BOOLEAN, endpoint : BOOLEAN,
      id : Ids, ip : Ips, st : States,
      reboot : BOOLEAN, logs : BOOLEAN, autopilot : BOOLEAN ]

ASSUME NoObjectIsNone == NoObject \notin Object

\* What "kubectl apply" creates: a spec, and a status that is all zero values.
FirstObject ==
    [ rv |-> 0, vol |-> Vol0, flavor |-> Flavor0, restore |-> FALSE,
      dbs |-> {}, users |-> FALSE, endpoint |-> FALSE,
      id |-> NoId, ip |-> NoIp, st |-> "none",
      reboot |-> FALSE, logs |-> FALSE, autopilot |-> FALSE ]

SpecOf(o) == <<o.vol, o.flavor, o.restore, o.dbs, o.users, o.endpoint>>
StatusOf(o) == <<o.id, o.ip, o.st, o.reboot, o.logs, o.autopilot>>

------------------------------------------------------------------------------
\* Broken variant: changed if anything differs, which a resync never is.
HasChanged_Differs(old, new) ==
    SpecOf(old) # SpecOf(new) \/ StatusOf(old) # StatusOf(new)

\* (*Rds).HasChanged: true when the specs are equal OR the statuses are, so
\* false only when both differ.  A resync, where both are equal, is a change.
HasChanged(old, new) ==
    \/ SpecOf(old) = SpecOf(new)
    \/ StatusOf(old) = StatusOf(new)

------------------------------------------------------------------------------
\* An event holds its own copies of the object.  `sync' says that old and new
\* are one object of the informer's cache (a resync), so that their Users
\* pointers are the same; `n' is what queue.NumRequeues answers for it.  The
\* code leaves oldObj nil in an add or a delete, and never reads the version of
\* an oldObj.
Event ==
    [ type : {"addRds", "updateRds", "delRds"},
      old : Object, new : Object, sync : BOOLEAN, n : Nat ]

AddEvent(o) ==
    [type |-> "addRds", old |-> FirstObject, new |-> o, sync |-> FALSE, n |-> 0]
DelEvent(o) ==
    [type |-> "delRds", old |-> FirstObject, new |-> o, sync |-> FALSE, n |-> 0]
UpdateEvent(old, new, sync) ==
    [type |-> "updateRds", old |-> [old EXCEPT !.rv = 0], new |-> new,
     sync |-> sync, n |-> 0]

\* Broken variant: only the number of schemas is compared.
SqlDiffers_LenOnly(e, o) == Cardinality(e.old.dbs) # Cardinality(o.dbs)

\* rdsUpdate's condition for CreateSqlUser.  It compares the two Users by
\* pointer: DeepCopy copies the pointer, and each watched version is decoded
\* into a slice of its own, so they are equal in a resync or when both are nil.
SqlDiffers(e, o) ==
    \/ Cardinality(e.old.dbs) # Cardinality(o.dbs)
    \/ ~e.sync /\ (e.old.users \/ o.users)
==============================================================================
