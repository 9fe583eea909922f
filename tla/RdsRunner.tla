------------------------------ MODULE RdsRunner ------------------------------
(***************************************************************************)
(* The processes of the operator (cmd/main.go, internal/runner/runner.go,  *)
(* controller.Run): how one starts, becomes the leader, lists and watches  *)
(* the resources, hands events of the namespaces it watches to its workers,*)
(* and ends.  What a handler does is left to RdsOperator.  Leases, leader  *)
(* election and informers are client-go's and modelled as they are used.   *)
(***************************************************************************)
EXTENDS Naturals, SequencesExt

CONSTANTS
    Procs, Operators, OperatorOf, \* replicas, installations and which is whose
    HA,           \* the installations that run with HA_ENABLED
    Watch,        \* WATCHNAMESPACES of each
    Namespaces,
    Everywhere,   \* "*"
    Resources, Home,              \* resources and their namespaces
    NumWorkers,   \* NUM_WORKERS
    Idle,         \* no event
    Nobody,       \* nobody holds a lease
    Scenarios     \* bound: which resources there are, and how often each of Kinds
                  \* happens at most

Kinds == {"edit", "delete", "signal", "crash", "stall", "fault", "break"}

ASSUME ProcsHaveOperators == OperatorOf \in [Procs -> Operators] /\ HA \subseteq Operators
ASSUME OperatorsWatch == Watch \in [Operators -> SUBSET (Namespaces \cup {Everywhere})]
ASSUME ResourcesHaveHomes == Home \in [Resources -> Namespaces]
ASSUME ResourcesAreFinite == IsFiniteSet(Resources)
ASSUME SomeWorkers == NumWorkers \in Nat \ {0}
ASSUME IdleIsNoEvent == Idle \notin [type : {"addRds", "updateRds", "delRds"},
                                      name : Resources, rev : Nat]
ASSUME NobodyIsNoProc == Nobody \notin Procs
ASSUME ScenariosAreSome ==
    Scenarios \subseteq [exist : SUBSET Resources, budget : [Kinds -> Nat]]

VARIABLES
    rev,      \* the revision of each resource, 0 when it is deleted
    proc,     \* the processes
    lease,    \* who holds the lease of each installation
    seen,     \* history: the last revision an update handler was done with
    buried,   \* history: resources whose deletion a handler was done with
    dropped,  \* history: resources whose deletion delRds threw away
    budget

vars == <<rev, proc, lease, seen, buried, dropped, budget>>
world == <<rev, seen, buried, dropped>>

Event == [type : {"addRds", "updateRds", "delRds"}, name : Resources, rev : Nat]

\* ctx: the context is not cancelled; listening: SmnReceiver has its port, so
\* that it does not return.
Proc ==
    [ pc : {"down", "waiting", "syncing", "ready", "ending"},
      ctx : BOOLEAN, listening : BOOLEAN,
      cache : [Resources -> Nat], queue : Seq(Event),
      busy : [1..NumWorkers -> Event \cup {Idle}] ]

NoProc ==
    [ pc |-> "down", ctx |-> TRUE, listening |-> TRUE,
      cache |-> [r \in Resources |-> 0], queue |-> <<>>,
      busy |-> [w \in 1..NumWorkers |-> Idle] ]

IsHA(p) == OperatorOf[p] \in HA
Leads(p) == lease[OperatorOf[p]] = p
Working(p) == proc[p].pc \in {"ready", "ending"}
Goto(p, pc) == proc' = [proc EXCEPT ![p].pc = pc]
Ended(p) == proc' = [proc EXCEPT ![p] = NoProc]
Spend(kind) == budget[kind] > 0 /\ budget' = [budget EXCEPT ![kind] = @ - 1]

\* Broken variant: the list of namespaces is not looked at.
Watched_Always(p, r) == r \in Resources

\* The filter of addRds, updateRds and delRds.
Watched(p, r) ==
    LET w == Watch[OperatorOf[p]] IN Home[r] \in w \/ Everywhere \in w

\* Broken variant: the name is queued, to be looked up later.
Added_Key(p, r, type, v) ==
    IF Watched(p, r) /\ ~Contains(proc[p].queue, r) THEN Append(proc[p].queue, r)
    ELSE proc[p].queue

\* c.queue.Add of a copy.  (One that is queued already would be handled alike.)
Added(p, r, type, v) ==
    LET e == [type |-> type, name |-> r, rev |-> v] IN
    IF Watched(p, r) /\ ~Contains(proc[p].queue, e) THEN Append(proc[p].queue, e)
    ELSE proc[p].queue

------------------------------------------------------------------------------
\* main, as far as Start; Kubernetes starts a process that has ended again.
Start(p) ==
    /\ proc[p].pc = "down"
    /\ Goto(p, IF IsHA(p) THEN "waiting" ELSE "syncing")
    /\ UNCHANGED <<world, lease, budget>>

\* The lease is free, or still its own from before it was restarted.
Acquire(p) ==
    /\ proc[p].pc = "waiting"
    /\ lease[OperatorOf[p]] \in {Nobody, p}
    /\ lease' = [lease EXCEPT ![OperatorOf[p]] = p]
    /\ Goto(p, "syncing")
    /\ UNCHANGED <<world, budget>>

\* The informer lists what there is, and adds it; then the workers start, and the
\* listener, which gives up after three tries when its port is taken.
Sync(p) ==
    /\ proc[p].pc = "syncing"
    /\ \E l \in BOOLEAN :
         proc' = [proc EXCEPT
           ![p].pc = "ready", ![p].listening = l, ![p].cache = rev,
           ![p].queue = SetToSeq({[type |-> "addRds", name |-> r, rev |-> rev[r]] :
                          r \in {s \in Resources : rev[s] # 0 /\ Watched(p, s)}})]
    /\ UNCHANGED <<world, lease, budget>>

\* The watch brings a change.
Notice(p, r) ==
    LET old == proc[p].cache[r]
        type == IF rev[r] = 0 THEN "delRds"
                ELSE IF old = 0 THEN "addRds" ELSE "updateRds"
    IN
    /\ proc[p].pc = "ready" /\ proc[p].ctx
    /\ old # rev[r]
    /\ proc' = [proc EXCEPT
         ![p].cache[r] = rev[r],
         ![p].queue = Added(p, r, type, IF rev[r] = 0 THEN old ELSE rev[r])]
    /\ UNCHANGED <<world, lease, budget>>

\* The watch breaks, and the next list misses a resource: the informer hands
\* delRds a DeletedFinalStateUnknown, which is not an Rds and only logged.
Tombstone(p, r) ==
    /\ proc[p].pc = "ready" /\ proc[p].ctx
    /\ proc[p].cache[r] # 0 /\ rev[r] = 0
    /\ Spend("break")
    /\ proc' = [proc EXCEPT ![p].cache[r] = 0]
    /\ dropped' = dropped \cup {r}
    /\ UNCHANGED <<rev, seen, buried, lease>>

\* Broken variant: a resync that brings nothing new is no event.
Resync_IfChanged(p, r) ==
    /\ proc[p].pc = "ready" /\ proc[p].ctx
    /\ proc[p].cache[r] \notin {0, rev[r]}
    /\ proc' = [proc EXCEPT ![p].queue = Added(p, r, "updateRds", proc[p].cache[r])]
    /\ UNCHANGED <<world, lease, budget>>

\* Every refreshtime seconds each object of the cache is an update.
Resync(p, r) ==
    /\ proc[p].pc = "ready" /\ proc[p].ctx
    /\ proc[p].cache[r] # 0
    /\ proc' = [proc EXCEPT ![p].queue = Added(p, r, "updateRds", proc[p].cache[r])]
    /\ UNCHANGED <<world, lease, budget>>

------------------------------------------------------------------------------
\* runWorker goes on, without a look at the context, as long as Run has not shut
\* down the queue, which it does at its end.
Take(p, w) ==
    /\ Working(p)
    /\ proc[p].queue # <<>> /\ proc[p].busy[w] = Idle
    /\ proc' = [proc EXCEPT ![p].queue = Tail(@), ![p].busy[w] = Head(proc[p].queue)]
    /\ UNCHANGED <<world, lease, budget>>

Handle(p, w) ==
    LET e == proc[p].busy[w] IN
    /\ Working(p) /\ e # Idle
    /\ proc' = [proc EXCEPT ![p].busy[w] = Idle]
    /\ seen' = IF e.type = "updateRds" /\ e.rev > seen[e.name]
               THEN [seen EXCEPT ![e.name] = e.rev] ELSE seen
    /\ buried' = IF e.type = "delRds" THEN buried \cup {e.name} ELSE buried
    /\ UNCHANGED <<rev, dropped, lease, budget>>

\* Broken variant: a failed event is forgotten.
Fails_Forgets(p, w) ==
    /\ Working(p) /\ proc[p].busy[w] # Idle
    /\ Spend("fault")
    /\ proc' = [proc EXCEPT ![p].busy[w] = Idle]
    /\ UNCHANGED <<world, lease>>

\* The handler fails: the event is retried.
Fails(p, w) ==
    /\ Working(p) /\ proc[p].busy[w] # Idle
    /\ Spend("fault")
    /\ proc' = [proc EXCEPT ![p].busy[w] = Idle, ![p].queue = Append(@, proc[p].busy[w])]
    /\ UNCHANGED <<world, lease>>

------------------------------------------------------------------------------
\* A signal cancels the context.  A process that is not working yet ends: acquire
\* or WaitForCacheSync returns.
Signal(p) ==
    /\ proc[p].pc # "down" /\ proc[p].ctx
    /\ Spend("signal")
    /\ IF Working(p) THEN proc' = [proc EXCEPT ![p].ctx = FALSE] ELSE Ended(p)
    /\ UNCHANGED <<world, lease>>

\* Broken variant: the lease is kept until Run returns.
Release_AfterRun(p) ==
    /\ IsHA(p) /\ proc[p].pc = "ready" /\ ~proc[p].ctx /\ Leads(p)
    /\ ~proc[p].listening
    /\ lease' = [lease EXCEPT ![OperatorOf[p]] = Nobody]
    /\ Goto(p, "ending")
    /\ UNCHANGED <<world, budget>>

\* RunOrDie gives back the lease (ReleaseOnCancel) without waiting for Run, which
\* it called in a goroutine, and returns.
Release(p) ==
    /\ IsHA(p) /\ proc[p].pc = "ready" /\ ~proc[p].ctx /\ Leads(p)
    /\ lease' = [lease EXCEPT ![OperatorOf[p]] = Nobody]
    /\ Goto(p, "ending")
    /\ UNCHANGED <<world, budget>>

\* Broken variant: it is only logged, as OnStoppedLeading says.
LoseLease_Logged(p) ==
    /\ IsHA(p) /\ proc[p].pc \in {"syncing", "ready"} /\ ~Leads(p)
    /\ UNCHANGED vars

\* A leader whose renewal comes too late: RunOrDie returns.
LoseLease(p) ==
    /\ IsHA(p) /\ proc[p].pc \in {"syncing", "ready"} /\ ~Leads(p)
    /\ proc' = [proc EXCEPT ![p].pc = "ending", ![p].ctx = FALSE]
    /\ UNCHANGED <<world, lease, budget>>

\* Without HA, Run returns when its listener had given up before.
RunReturns(p) ==
    /\ ~IsHA(p) /\ proc[p].pc = "ready" /\ ~proc[p].ctx /\ ~proc[p].listening
    /\ Goto(p, "ending")
    /\ UNCHANGED <<world, lease, budget>>

\* main returns: whatever its goroutines are doing, the process is over.
End(p) ==
    /\ proc[p].pc = "ending"
    /\ Ended(p)
    /\ UNCHANGED <<world, lease, budget>>

\* Without HA, Run hangs in the listener: Kubernetes kills it some time later.
Kill(p) ==
    /\ ~IsHA(p) /\ proc[p].pc = "ready" /\ ~proc[p].ctx /\ proc[p].listening
    /\ Ended(p)
    /\ UNCHANGED <<world, lease, budget>>

Crash(p) ==
    /\ proc[p].pc # "down"
    /\ Spend("crash")
    /\ Ended(p)
    /\ UNCHANGED <<world, lease>>

\* The lease of a process that is gone runs out, ...
Expire(o) ==
    /\ lease[o] # Nobody
    /\ proc[lease[o]].pc \in {"down", "waiting"}
    /\ lease' = [lease EXCEPT ![o] = Nobody]
    /\ UNCHANGED <<world, proc, budget>>

\* ... or that of one that was stalled too long to renew it.
Stall(o) ==
    /\ lease[o] # Nobody
    /\ proc[lease[o]].pc \in {"syncing", "ready"}
    /\ Spend("stall")
    /\ lease' = [lease EXCEPT ![o] = Nobody]
    /\ UNCHANGED <<world, proc>>

Edit(r) ==
    /\ rev[r] # 0
    /\ Spend("edit")
    /\ rev' = [rev EXCEPT ![r] = @ + 1]
    /\ UNCHANGED <<seen, buried, dropped, proc, lease>>

Delete(r) ==
    /\ rev[r] # 0
    /\ Spend("delete")
    /\ rev' = [rev EXCEPT ![r] = 0]
    /\ UNCHANGED <<seen, buried, dropped, proc, lease>>

------------------------------------------------------------------------------
Init ==
    /\ \E s \in Scenarios :
         /\ rev = [r \in Resources |-> IF r \in s.exist THEN 1 ELSE 0]
         /\ budget = s.budget
    /\ proc = [p \in Procs |-> NoProc]
    /\ lease = [o \in Operators |-> Nobody]
    /\ seen = [r \in Resources |-> 0]
    /\ buried = {} /\ dropped = {}

Lifecycle(p) ==
    \/ Start(p) \/ Acquire(p) \/ Sync(p) \/ Release(p) \/ LoseLease(p)
    \/ RunReturns(p) \/ End(p) \/ Kill(p)

Next ==
    \/ \E p \in Procs :
         \/ Lifecycle(p)
         \/ \E r \in Resources : Notice(p, r) \/ Tombstone(p, r) \/ Resync(p, r)
         \/ \E w \in 1..NumWorkers : Take(p, w) \/ Handle(p, w) \/ Fails(p, w)
         \/ Signal(p) \/ Crash(p)
    \/ \E o \in Operators : Expire(o) \/ Stall(o)
    \/ \E r \in Resources : Edit(r) \/ Delete(r)

\* The processes run, Kubernetes restarts and kills them, leases run out, watches
\* and resyncs go on.
Fairness ==
    /\ \A p \in Procs :
         /\ WF_vars(Lifecycle(p))
         /\ \A w \in 1..NumWorkers : WF_vars(Take(p, w)) /\ WF_vars(Handle(p, w))
         /\ \A r \in Resources : WF_vars(Notice(p, r)) /\ WF_vars(Resync(p, r))
    /\ \A o \in Operators : WF_vars(Expire(o))

Spec == Init /\ [][Next]_vars
FairSpec == Spec /\ Fairness

------------------------------------------------------------------------------
\* Types: the queues hold copies of resources, never a name to be looked up later.
TypeOK ==
    /\ rev \in [Resources -> Nat] /\ seen \in [Resources -> Nat]
    /\ proc \in [Procs -> Proc]
    /\ lease \in [Operators -> Procs \cup {Nobody}]
    /\ buried \subseteq Resources /\ dropped \subseteq Resources
    /\ budget \in [Kinds -> Nat]

\* Operators that share a cluster, each with a list of namespaces of its own, never
\* work on the same resource, although each of them watches the whole cluster.
WorksOn(p, r) == \E w \in 1..NumWorkers : proc[p].busy[w] # Idle /\ proc[p].busy[w].name = r

OneOperator ==
    \A p, q \in Procs, r \in Resources :
        WorksOn(p, r) /\ WorksOn(q, r) => OperatorOf[p] = OperatorOf[q]

\* A leader that lost its lease, or gave it back while its handlers still run, may
\* work next to its successor for a while, but not for ever.
OverlapEnds ==
    \A p, q \in Procs :
        p # q /\ OperatorOf[p] = OperatorOf[q] =>
          [](Working(p) /\ Working(q) => <>~(Working(p) /\ Working(q)))

\* A replica that is told to stop ends, although its Run hangs in the listener.
StopEnds ==
    \A p \in Procs : IsHA(p) => (~proc[p].ctx ~> proc[p].pc = "down")

\* Each revision of a watched resource is handled as an update in the end, the ones
\* whose events were lost with a process included.
EditSeen ==
    \A r \in Resources, v \in 1..2 :
        (\E p \in Procs : Watched(p, r)) =>
          (rev[r] = v ~> rev[r] = 0 \/ seen[r] >= v)

\* A deletion is handled if the process that had the resource in its cache is not
\* stopped before, and the watch does not break.
DeletionSeen ==
    \A p \in Procs, r \in Resources :
        Watched(p, r) =>
          (proc[p].pc = "ready" /\ proc[p].cache[r] # 0 /\ rev[r] = 0
             ~> r \in buried \cup dropped \/ proc[p].pc = "down" \/ ~proc[p].ctx)
==============================================================================
