--------------------------- MODULE RdsCreateProofs ---------------------------
(***************************************************************************)
(* How many instances of its name a resource gets, for every value of the  *)
(* constants.  rdsCreate looks an instance up by name and creates one      *)
(* later, so that each worker in between may add one to those that are     *)
(* there: what never grows over the number of workers is the sum of both   *)
(* (Crowd), because a worker comes in between only when there is none.     *)
(*                                                                         *)
(* Then a resource that users create once, and the operator any number of  *)
(* times sees as new, after each of its restarts: one add event of it      *)
(* exists at a time (AddInv), so that one worker at most is in between.    *)
(***************************************************************************)
EXTENDS RdsStatusProofs, FiniteSetTheorems

\* The workers that may create an instance, and those that have found none.
Askers == {w \in Workers : Asks(worker[w])}
Makes(me) == me.op = "create" /\ me.pc = "call"
Creators == {w \in Workers : Makes(worker[w])}

Crowd(n) == Cardinality(Live) + Cardinality(Creators) <= n

\* Neither instances nor creators are more than before, or one of the creators
\* has become an instance, or there is none.
Crowding ==
    \/ Live' \subseteq Live /\ Creators' \subseteq Creators
    \/ Live' = {}
    \/ \E i \in Instances, w \in Creators :
         Live' \subseteq Live \cup {i} /\ Creators' \subseteq Creators \ {w}

------------------------------------------------------------------------------
\* Counting.

LEMMA Finite ==
  /\ \A L \in SUBSET Instances : IsFiniteSet(L) /\ Cardinality(L) \in Nat
  /\ \A C \in SUBSET Workers : /\ IsFiniteSet(C) /\ Cardinality(C) \in Nat
                               /\ Cardinality(C) <= Cardinality(Workers)
<1>1. IsFiniteSet(Instances)
  BY FS_Interval, QuotaIsNat DEF Instances
<1>2. QED
  BY <1>1, WorkersAreFinite, FS_Subset, FS_CardinalityType

LEMMA Counted ==
  ASSUME NEW n \in Nat, NEW L \in SUBSET Instances, NEW L2 \in SUBSET Instances,
         NEW C \in SUBSET Workers, NEW C2 \in SUBSET Workers,
         Cardinality(L) + Cardinality(C) <= n, Cardinality(C2) <= n,
         \/ L2 \subseteq L /\ C2 \subseteq C
         \/ L2 = {}
         \/ \E i \in Instances, w \in C : L2 \subseteq L \cup {i} /\ C2 \subseteq C \ {w}
  PROVE  Cardinality(L2) + Cardinality(C2) <= n
<1>1. /\ IsFiniteSet(L) /\ Cardinality(L) \in Nat /\ Cardinality(L2) \in Nat
      /\ IsFiniteSet(C) /\ Cardinality(C) \in Nat /\ Cardinality(C2) \in Nat
  BY Finite
<1>2. CASE L2 \subseteq L /\ C2 \subseteq C
  <2>1. Cardinality(L2) <= Cardinality(L)
    BY <1>1, <1>2, FS_Subset
  <2>2. Cardinality(C2) <= Cardinality(C)
    BY <1>1, <1>2, FS_Subset
  <2>3. QED
    BY <1>1, <2>1, <2>2
<1>3. CASE L2 = {}
  <2>1. Cardinality(L2) = 0
    BY <1>3, FS_EmptySet
  <2>2. QED
    BY <1>1, <2>1
<1>4. ASSUME NEW i \in Instances, NEW w \in C,
             L2 \subseteq L \cup {i}, C2 \subseteq C \ {w}
      PROVE  Cardinality(L2) + Cardinality(C2) <= n
  <2>1. IsFiniteSet(L \cup {i}) /\ Cardinality(L \cup {i}) <= Cardinality(L) + 1
    <3>1. /\ IsFiniteSet(L \cup {i})
          /\ \/ Cardinality(L \cup {i}) = Cardinality(L)
             \/ Cardinality(L \cup {i}) = Cardinality(L) + 1
      BY <1>1, FS_AddElement, Zenon
    <3>2. QED
      BY <1>1, <3>1
  <2>2. IsFiniteSet(C \ {w}) /\ Cardinality(C \ {w}) = Cardinality(C) - 1
    BY <1>1, FS_RemoveElement
  <2>3. Cardinality(L2) <= Cardinality(L \cup {i})
    BY <1>4, <2>1, FS_Subset
  <2>4. Cardinality(C2) <= Cardinality(C \ {w})
    BY <1>4, <2>2, FS_Subset
  <2>5. Cardinality(L \cup {i}) \in Nat
    BY <2>1, FS_CardinalityType
  <2>6. QED
    BY <1>1, <2>1, <2>2, <2>3, <2>4, <2>5
<1>5. QED
  BY <1>2, <1>3, <1>4

------------------------------------------------------------------------------
\* Nobody comes to ask for an instance but who takes an event, and nobody to
\* create one but who has found none.

Aside(w) == \E me : ~Asks(me) /\ Become(w, me)

LEMMA HoldsAside ==
  ASSUME NEW w \in Workers, Holds(w)
  PROVE  Aside(w)
BY Zenon DEF Holds, Aside

LEMMA AsideLeaves ==
  ASSUME TypeOK, NEW w \in Workers, Aside(w)
  PROVE  Askers' \subseteq Askers \ {w} /\ Creators' \subseteq Creators \ {w}
<1>1. PICK me : ~Asks(me) /\ Become(w, me)
  BY DEF Aside
<1>2. worker'[w] = me /\ \A v \in Workers \ {w} : worker'[v] = worker[v]
  BY <1>1, Zenon DEF Become, TypeOK
<1>3. ~Makes(me)
  BY <1>1, SMT DEF Asks, Makes
<1>4. Askers' \subseteq Askers \ {w}
  BY <1>1, <1>2, Zenon DEF Askers, Asks
<1>5. Creators' \subseteq Creators \ {w}
  BY <1>2, <1>3, Zenon DEF Creators, Makes
<1>6. QED
  BY <1>4, <1>5

LEMMA RestartedNobodyAsks ==
  ASSUME Restarted
  PROVE  Askers' = {} /\ Creators' = {}
<1>1. ~Asks(IdleWorker) /\ ~Makes(IdleWorker)
  BY SMT DEF IdleWorker, Asks, Makes
<1>2. \A v \in Workers : worker'[v] = IdleWorker
  BY DEF Restarted
<1>3. QED
  BY <1>1, <1>2, Zenon DEF Askers, Creators, Asks, Makes

\* An added resource is looked up first.
LEMMA TakeAsks ==
  ASSUME TypeOK, NEW w \in Workers, Take(w)
  PROVE  /\ Creators' \subseteq Creators
         /\ Askers' \subseteq Askers \cup {w}
         /\ Head(queue).type # "addRds" => Askers' \subseteq Askers
<1>1. PICK e : e = Head(queue)
  OBVIOUS
<1>2. PICK me : me = Begin(e)
  OBVIOUS
<1>3. /\ worker'[w] = me
      /\ \A v \in Workers \ {w} : worker'[v] = worker[v]
  BY <1>1, <1>2, Zenon DEF Take, Become, TypeOK
<1>4. ~Makes(me) /\ (e.type # "addRds" => ~Asks(me))
  <2>1. /\ me.op = "create" => e.type = "addRds"
        /\ e.type = "addRds" => me.pc = "check"
    BY <1>2, SMT DEF Begin
  <2>2. QED
    BY <2>1, SMT DEF Makes, Asks
<1>5. Creators' \subseteq Creators
  BY <1>3, <1>4, Zenon DEF Creators, Makes
<1>6. Askers' \subseteq Askers \cup {w}
  BY <1>3, Zenon DEF Askers, Asks
<1>7. e.type # "addRds" => Askers' \subseteq Askers
  BY <1>3, <1>4, Zenon DEF Askers, Asks
<1>8. QED
  BY <1>1, <1>5, <1>6, <1>7

Passes(w) == CheckExists(w) /\ ~FoundByName /\ Goto(w, "call")

LEMMA PassesAsks ==
  ASSUME TypeOK, NEW w \in Workers, Passes(w)
  PROVE  Askers' \subseteq Askers /\ Live' = {}
<1>1. Asks(worker[w])
  BY SMT DEF Passes, CheckExists, At, Asks
<1>2. \A v \in Workers \ {w} : worker'[v] = worker[v]
  BY Zenon DEF Passes, Goto, Become, TypeOK
<1>3. Askers' \subseteq Askers
  BY <1>1, <1>2, Zenon DEF Askers, Asks
<1>4. inst' = inst /\ Live = {}
  BY Zenon DEF Passes, CheckExists, FoundByName, cloud
<1>5. QED
  BY <1>3, <1>4 DEF Live

LEMMA MakesAside ==
  ASSUME CopiesInv, NEW w \in Workers, CreateInstance(w)
  PROVE  Aside(w)
<1>1. CASE Fail(w)
  BY <1>1, EndHolds, HoldsAside
<1>2. CASE \E i \in Instances :
             Become(w, [worker[w] EXCEPT !.pc = "us.get", !.ret = "wait",
                                         !.obj.id = i, !.obj.st = "BUSY"])
  <2>1. PICK i \in Instances :
          Become(w, [worker[w] EXCEPT !.pc = "us.get", !.ret = "wait",
                                      !.obj.id = i, !.obj.st = "BUSY"])
    BY <1>2
  <2> DEFINE me == [worker[w] EXCEPT !.pc = "us.get", !.ret = "wait",
                                     !.obj.id = i, !.obj.st = "BUSY"]
  <2>2. me.pc = "us.get" /\ Become(w, me)
    BY <2>1, Types, Zenon DEF Worker
  <2> HIDE DEF me
  <2>3. ~Asks(me)
    BY <2>2, SMT DEF Asks
  <2>4. QED
    BY <2>2, <2>3, Zenon DEF Aside
<1>3. QED
  BY <1>1, <1>2, Zenon DEF CreateInstance

\* What a step does to the workers.
LEMMA WorkerSteps ==
  ASSUME CopiesInv, [Next]_vars
  PROVE  \/ worker' = worker \/ Restarted
         \/ \E w \in Workers : Take(w) \/ Passes(w) \/ Aside(w)
<1>1. ASSUME NEW w \in Workers, Step(w)
      PROVE  Restarted \/ Take(w) \/ Passes(w) \/ Aside(w)
  <2>1. CASE UpdateStatus(w)
    <3>1. CASE StatusPut(w)
      BY <3>1, ReturnHolds, GotoHolds, HoldsAside, Zenon DEF StatusPut
    <3>2. QED
      BY <2>1, <3>1, StatusHolds, HoldsAside DEF UpdateStatus
  <2>2. CASE GetById(w) \/ Update(w) \/ Delete(w)
    BY <2>2, GetByIdHolds, UpdateHolds, DeleteHolds, HoldsAside
  <2>3. CASE JobFailed(w)
    BY <2>3, EndHolds, HoldsAside, Zenon DEF JobFailed
  <2>4. CASE CheckExists(w)
    BY <2>4, EndHolds, HoldsAside, Zenon DEF CheckExists, Passes
  <2>5. CASE CreateInstance(w)
    BY <2>5, MakesAside
  <2>6. CASE Created(w)
    BY <2>6, GotoHolds, HoldsAside, Zenon DEF Created
  <2>7. QED
    BY <1>1, <2>1, <2>2, <2>3, <2>4, <2>5, <2>6 DEF Step, Create
<1>2. ASSUME NEW w \in Workers, CallFails(w) \/ AnswerLost(w) PROVE Aside(w)
  BY <1>2, CallFailsHold, HoldsAside
<1>3. ASSUME NEW i \in Instances, JobFails(i)
      PROVE  worker' = worker \/ \E w \in Workers : Aside(w)
  <2>1. CASE /\ inst[i].by \in Workers
             /\ worker' = [worker EXCEPT ![inst[i].by].pc = "failed"]
    <3> DEFINE w == inst[i].by
    <3>1. w \in Workers /\ Goto(w, "failed")
      BY <2>1, Zenon DEF Become, Goto
    <3> HIDE DEF w
    <3>2. Aside(w)
      BY <3>1, GotoHolds, HoldsAside
    <3>3. QED
      BY <3>1, <3>2
  <2>2. QED
    BY <1>3, <2>1, Zenon DEF JobFails
<1>4. CASE Environment
  <2>1. ASSUME ~Crash, \A i \in Instances : ~JobFails(i)
        PROVE  worker' = worker
    BY <1>4, <2>1, Zenon
    DEF Environment, JobDone, MoveIp, UserCreate, UserDelete, UserEdit, Resync
  <2>2. QED
    BY <1>3, <2>1, Zenon DEF Crash
<1>5. CASE UNCHANGED vars \/ \E i \in 1..Len(delayed) : Requeue(i)
  BY <1>5, Zenon DEF vars, Requeue
<1>6. QED
  BY <1>1, <1>2, <1>4, <1>5 DEF Next

------------------------------------------------------------------------------
\* The crowd does not grow.

\* An instance is only ever created by one of the creators.
LEMMA LiveSteps ==
  ASSUME InstanceStep
  PROVE  \/ Live' \subseteq Live
         \/ \E i \in Instances, w \in Workers : Live' \subseteq Live \cup {i} /\ Creates(w)
<1>1. CASE Same
  BY <1>1, Zenon DEF Same, Live
<1>2. CASE Calls
  <2>1. PICK i \in Instances : \E kind : Started(i, kind)
    BY <1>2, Zenon DEF Calls
  <2>2. QED
    BY <2>1, Zenon DEF Started, Others, Live
<1>3. ASSUME NEW i \in Instances, Failed(i) PROVE Live' \subseteq Live
  BY <1>3, Zenon DEF Failed, Others, Live
<1>4. ASSUME NEW i \in Instances, Ended(i) PROVE Live' \subseteq Live
  <2>1. inst'[i].phase = "live" => inst[i].phase = "live"
    BY <1>4, SMT DEF Ended
  <2>2. QED
    BY <1>4, <2>1, Zenon DEF Ended, Others, Live
<1>5. ASSUME NEW i \in Instances, Born(i) PROVE Live' \subseteq Live \cup {i}
  BY <1>5, Zenon DEF Born, Others, Live
<1>6. QED
  BY <1>1, <1>2, <1>3, <1>4, <1>5, Zenon DEF InstanceStep

LEMMA CrowdSteps ==
  ASSUME CopiesInv, [Next]_vars
  PROVE  Crowding
<1>1. TypeOK /\ InstanceStep
  BY Types, StepInstances
<1>2. CASE Live' \subseteq Live
  <2>1. CASE worker' = worker
    BY <1>2, <2>1 DEF Crowding, Creators
  <2>2. CASE Restarted
    BY <1>2, <2>2, RestartedNobodyAsks DEF Crowding
  <2>3. ASSUME NEW w \in Workers, Take(w) \/ Passes(w) \/ Aside(w)
        PROVE  Crowding
    BY <1>1, <1>2, <2>3, TakeAsks, PassesAsks, AsideLeaves DEF Crowding
  <2>4. QED
    BY <2>1, <2>2, <2>3, WorkerSteps
<1>3. ASSUME NEW i \in Instances, NEW w \in Workers,
             Live' \subseteq Live \cup {i}, Creates(w)
      PROVE  Crowding
  <2>1. w \in Creators
    BY <1>3, Zenon DEF Creates, At, Creators, Makes
  <2>2. Aside(w)
    BY <1>3, MakesAside, CallFailsHold, HoldsAside DEF Creates
  <2>3. QED
    BY <1>1, <1>3, <2>1, <2>2, AsideLeaves DEF Crowding
<1>4. QED
  BY <1>1, <1>2, <1>3, LiveSteps

LEMMA CrowdKept ==
  ASSUME CopiesInv, [Next]_vars, NEW n \in Nat, Crowd(n), Cardinality(Creators') <= n
  PROVE  Crowd(n)'
<1>1. Crowding
  BY CrowdSteps
<1>2. /\ Live \in SUBSET Instances /\ Live' \in SUBSET Instances
      /\ Creators \in SUBSET Workers /\ Creators' \in SUBSET Workers
  BY DEF Live, Creators
<1>3. QED
  BY <1>1, <1>2, Counted DEF Crowding, Crowd

LEMMA InitCrowd ==
  ASSUME Init
  PROVE  Creators = {} /\ Cardinality(Live) <= 1 /\ Crowd(1)
<1>1. Creators = {}
  <2>1. ~Makes(IdleWorker)
    BY SMT DEF IdleWorker, Makes
  <2>2. QED
    BY <2>1, Zenon DEF Init, Creators, Makes
<1>2. Live \subseteq {1}
  <2>1. Unborn.phase = "unborn"
    BY DEF Unborn
  <2>2. PICK s \in Scenarios : Begins(s.start)
    BY Zenon DEF Init
  <2>3. \A i \in Instances : i # 1 => inst[i] = Unborn
    BY <2>2, SMT DEF Begins
  <2>4. QED
    BY <2>1, <2>3, SMT DEF Live
<1>3. Cardinality(Live) \in Nat /\ Cardinality(Live) <= 1
  <2>1. Live = {} \/ Live = {1}
    BY <1>2
  <2>2. Cardinality(Live) = 0 \/ Cardinality(Live) = 1
    BY <2>1, FS_EmptySet, FS_Singleton, Zenon
  <2>3. QED
    BY <2>2
<1>4. Cardinality(Creators) = 0
  BY <1>1, FS_EmptySet
<1>5. QED
  BY <1>1, <1>3, <1>4 DEF Crowd

\* The room: an instance for each worker, or the one that is there at first.
Room == IF Cardinality(Workers) <= 1 THEN 1 ELSE Cardinality(Workers)

LEMMA RoomIsNat ==
  /\ Cardinality(Workers) \in Nat /\ Room \in Nat /\ 1 <= Room
  /\ Cardinality(Workers) <= Room
<1>1. Cardinality(Workers) \in Nat
  BY Finite
<1>2. QED
  BY <1>1, SMT DEF Room

LEMMA CrowdStays == Spec => [](CopiesInv /\ Crowd(Room))
<1>1. Init => Crowd(Room)
  <2> SUFFICES ASSUME Init PROVE Crowd(Room)
    OBVIOUS
  <2>1. Cardinality(Live) \in Nat /\ Cardinality(Creators) \in Nat
    BY Finite DEF Live, Creators
  <2>2. QED
    BY <2>1, InitCrowd, RoomIsNat DEF Crowd
<1>2. CopiesInv /\ Crowd(Room) /\ [Next]_vars => Crowd(Room)'
  <2> SUFFICES ASSUME CopiesInv, Crowd(Room), [Next]_vars PROVE Crowd(Room)'
    OBVIOUS
  <2>1. Cardinality(Creators') \in Nat /\ Cardinality(Creators') <= Cardinality(Workers)
    BY Finite DEF Creators
  <2>2. Cardinality(Creators') <= Room
    BY <2>1, RoomIsNat
  <2>3. PICK n \in Nat : n = Room
    BY RoomIsNat
  <2>4. Crowd(n)'
    BY <2>2, <2>3, CrowdKept
  <2>5. QED
    BY <2>3, <2>4 DEF Crowd, Room
<1>3. QED
  BY <1>1, <1>2, InitCopies, NextCopies, PTL DEF Spec

LEMMA CrowdBounds ==
  ASSUME Crowd(Room)
  PROVE  Cardinality(Live) \in Nat /\ Cardinality(Live) <= Room
<1>1. Cardinality(Live) \in Nat /\ Cardinality(Creators) \in Nat
  BY Finite DEF Live, Creators
<1>2. QED
  BY <1>1, RoomIsNat DEF Crowd

\* However many workers run, and however often users delete the resource and
\* create it again, calls fail and the operator restarts: rdsCreate never makes
\* more instances of the name than there are workers.
THEOREM InstancesBounded == Spec => []NoMoreThanWorkers
<1>1. Crowd(Room) => NoMoreThanWorkers
  <2> SUFFICES ASSUME Crowd(Room) PROVE NoMoreThanWorkers
    OBVIOUS
  <2>1. QED
    BY CrowdBounds, RoomIsNat, SMT DEF Room, NoMoreThanWorkers
<1>2. QED
  BY <1>1, CrowdStays, PTL

\* With one worker nobody creates an instance between rdsCreate's look at the cloud
\* and its call: there are never two, whatever users do.
THEOREM OneWorkerOneInstance ==
  ASSUME Cardinality(Workers) <= 1
  PROVE  Spec => []NeverTwoInstances
<1>1. Crowd(Room) => NeverTwoInstances
  <2> SUFFICES ASSUME Crowd(Room) PROVE NeverTwoInstances
    OBVIOUS
  <2>1. QED
    BY CrowdBounds DEF Room, NeverTwoInstances
<1>2. QED
  BY <1>1, CrowdStays, PTL

------------------------------------------------------------------------------
\* A resource that users create once.

CreatedOnce ==
    \A s \in Scenarios : s.budget["create"] <= (IF s.start = "managed" THEN 0 ELSE 1)

IsAdd(e) == e.type = "addRds"

NoAdd(q) == \A k \in 1..Len(q) : ~IsAdd(q[k])
OneAdd(q) == \A k, l \in 1..Len(q) : IsAdd(q[k]) /\ IsAdd(q[l]) => k = l

\* The handler of an add event is rdsCreate's, which retries no event once it has
\* found no instance.
Owns(me) ==
    IsAdd(me.ev) /\ me.pc # "idle" =>
      /\ me.op = "create" /\ me.pc # "decide"
      /\ me.ret = "decide" => me.pc \in {"check", "call"}

\* One add event at most is queued, or waits in the rate limiter, or is handled by
\* a worker that has not created an instance for it yet.
Alone ==
    /\ OneAdd(queue) /\ OneAdd(delayed) /\ \A v, w \in Askers : v = w
    /\ NoAdd(queue) \/ (NoAdd(delayed) /\ Askers = {})
    /\ NoAdd(delayed) \/ Askers = {}

\* Until the resource is created there is none.
Before ==
    /\ budget["create"] <= 1
    /\ budget["create"] > 0 =>
         cr = NoObject /\ NoAdd(queue) /\ NoAdd(delayed) /\ Askers = {}

AllOwn == \A w \in Workers : Owns(worker[w])
AddInv == CopiesInv /\ AllOwn /\ Alone /\ Before

------------------------------------------------------------------------------
\* Add events in a queue.

LEMMA AppendAdds ==
  ASSUME NEW q \in Seq(Event), NEW e \in Event
  PROVE  /\ NoAdd(q) => OneAdd(Append(q, e))
         /\ ~IsAdd(e) /\ NoAdd(q) => NoAdd(Append(q, e))
         /\ ~IsAdd(e) /\ OneAdd(q) => OneAdd(Append(q, e))
<1> DEFINE a == Append(q, e)
<1>1. /\ Len(q) \in Nat /\ Len(a) = Len(q) + 1
      /\ \A k \in 1..Len(q) : a[k] = q[k]
      /\ a[Len(q) + 1] = e
  OBVIOUS
<1> HIDE DEF a
<1>2. \A k \in 1..Len(a) : \/ k = Len(q) + 1 /\ a[k] = e
                           \/ k \in 1..Len(q) /\ a[k] = q[k]
  BY <1>1
<1>3. NoAdd(q) => OneAdd(a)
  BY <1>2, Zenon DEF NoAdd, OneAdd
<1>4. ~IsAdd(e) /\ NoAdd(q) => NoAdd(a)
  BY <1>2, Zenon DEF NoAdd
<1>5. ~IsAdd(e) /\ OneAdd(q) => OneAdd(a)
  BY <1>2, Zenon DEF OneAdd
<1>6. QED
  BY <1>3, <1>4, <1>5 DEF a

LEMMA TailAdds ==
  ASSUME NEW q \in Seq(Event), q # <<>>
  PROVE  /\ NoAdd(q) => NoAdd(Tail(q)) /\ ~IsAdd(Head(q))
         /\ OneAdd(q) => OneAdd(Tail(q))
         /\ OneAdd(q) /\ IsAdd(Head(q)) => NoAdd(Tail(q))
<1> DEFINE t == Tail(q)
<1>1. /\ Len(q) \in Nat \ {0} /\ Len(t) = Len(q) - 1 /\ Head(q) = q[1]
      /\ \A k \in 1..Len(t) : t[k] = q[k + 1]
  OBVIOUS
<1> HIDE DEF t
<1>2. \A k \in 1..Len(t) : k + 1 \in 1..Len(q) /\ k + 1 # 1 /\ t[k] = q[k + 1]
  BY <1>1
<1>3. 1 \in 1..Len(q)
  BY <1>1
<1>4. NoAdd(q) => NoAdd(t) /\ ~IsAdd(Head(q))
  BY <1>1, <1>2, <1>3, Zenon DEF NoAdd
<1>5. \A k, l \in 1..Len(t) : k + 1 = l + 1 => k = l
  BY <1>1
<1>6. OneAdd(q) => OneAdd(t)
  BY <1>2, <1>5, Zenon DEF OneAdd
<1>7. OneAdd(q) /\ IsAdd(Head(q)) => NoAdd(t)
  BY <1>1, <1>2, <1>3, Zenon DEF OneAdd, NoAdd
<1>8. QED
  BY <1>4, <1>6, <1>7 DEF t

LEMMA RemoveAtAdds ==
  ASSUME NEW q \in Seq(Event), NEW i \in 1..Len(q)
  PROVE  /\ NoAdd(q) => NoAdd(RemoveAt(q, i)) /\ ~IsAdd(q[i])
         /\ OneAdd(q) => OneAdd(RemoveAt(q, i))
         /\ OneAdd(q) /\ IsAdd(q[i]) => NoAdd(RemoveAt(q, i))
<1> DEFINE r == RemoveAt(q, i)
           At0(k) == IF k < i THEN k ELSE k + 1
<1>1. Len(q) \in Nat /\ i \in Nat
  OBVIOUS
<1>2. /\ Len(r) = Len(q) - 1
      /\ \A k \in 1..Len(r) : r[k] = q[At0(k)]
  <2> DEFINE a == SubSeq(q, 1, i - 1)
             b == SubSeq(q, i + 1, Len(q))
  <2>1. /\ a \in Seq(Event) /\ Len(a) = i - 1
        /\ \A k \in 1..Len(a) : a[k] = q[k]
    OBVIOUS
  <2>2. /\ b \in Seq(Event) /\ Len(b) = Len(q) - i
        /\ \A k \in 1..Len(b) : b[k] = q[k + i]
    OBVIOUS
  <2>3. r = a \o b
    BY DEF RemoveAt
  <2> HIDE DEF a, b, r
  <2>4. /\ Len(r) = Len(a) + Len(b)
        /\ \A k \in 1..Len(r) : r[k] = IF k <= Len(a) THEN a[k] ELSE b[k - Len(a)]
    <3>1. /\ Len(a \o b) = Len(a) + Len(b)
          /\ \A k \in 1..(Len(a) + Len(b)) :
               (a \o b)[k] = IF k <= Len(a) THEN a[k] ELSE b[k - Len(a)]
      BY <2>1, <2>2, ConcatProperties, Zenon
    <3>2. QED
      BY <2>3, <3>1, Zenon
  <2>5. Len(r) = Len(q) - 1
    BY <1>1, <2>1, <2>2, <2>4
  <2>6. ASSUME NEW k \in 1..Len(r) PROVE r[k] = q[At0(k)]
    <3>1. CASE k < i
      <4>1. k \in 1..Len(a) /\ k <= Len(a)
        BY <1>1, <2>1, <2>5, <3>1
      <4>2. QED
        BY <2>1, <2>4, <3>1, <4>1
    <3>2. CASE ~(k < i)
      <4>1. k - Len(a) \in 1..Len(b) /\ ~(k <= Len(a)) /\ k - Len(a) + i = k + 1
        BY <1>1, <2>1, <2>2, <2>5, <3>2
      <4>2. r[k] = b[k - Len(a)] /\ b[k - Len(a)] = q[k - Len(a) + i]
        BY <2>2, <2>4, <4>1
      <4>3. QED
        BY <3>2, <4>1, <4>2
    <3>3. QED
      BY <3>1, <3>2
  <2>7. QED
    BY <2>5, <2>6
<1> HIDE DEF r
<1>3. \A k \in 1..Len(r) : At0(k) \in 1..Len(q) /\ At0(k) # i /\ r[k] = q[At0(k)]
  BY <1>1, <1>2
<1>4. \A k, l \in 1..Len(r) : At0(k) = At0(l) => k = l
  BY <1>1, <1>2
<1> HIDE DEF At0
<1>5. NoAdd(q) => NoAdd(r) /\ ~IsAdd(q[i])
  BY <1>3, Zenon DEF NoAdd
<1>6. OneAdd(q) => OneAdd(r)
  BY <1>3, <1>4, Zenon DEF OneAdd
<1>7. OneAdd(q) /\ IsAdd(q[i]) => NoAdd(r)
  BY <1>3, Zenon DEF OneAdd, NoAdd
<1>8. QED
  BY <1>5, <1>6, <1>7 DEF r

LEMMA FewAdds ==
  /\ NoAdd(<<>>) /\ OneAdd(<<>>)
  /\ \A e : OneAdd(<<e>>)
BY DEF NoAdd, OneAdd

------------------------------------------------------------------------------
\* The handlers of add events.

Own(w) == \E me : Owns(me) /\ Become(w, me)

LEMMA OwnKept ==
  ASSUME TypeOK, AllOwn, NEW w \in Workers, Own(w)
  PROVE  AllOwn'
<1>1. PICK me : Owns(me) /\ Become(w, me)
  BY DEF Own
<1>2. worker'[w] = me /\ \A v \in Workers \ {w} : worker'[v] = worker[v]
  BY <1>1, Zenon DEF Become, TypeOK
<1>3. ASSUME NEW v \in Workers PROVE Owns(worker'[v])
  BY <1>1, <1>2, Zenon DEF AllOwn
<1>4. QED
  BY <1>3, Zenon DEF AllOwn, Owns

LEMMA IdleOwns == Owns(IdleWorker)
<1>1. IdleWorker.pc = "idle"
  BY DEF IdleWorker
<1>2. QED
  BY <1>1, Zenon DEF Owns

LEMMA EndOwn ==
  ASSUME NEW w \in Workers, NEW e,
         Finish(w) \/ Retry(w, e) \/ Fail(w) \/ Become(w, IdleWorker)
  PROVE  Own(w)
BY IdleOwns, Zenon DEF Own, Finish, Retry, Fail

LEMMA RestartedOwn ==
  ASSUME Restarted
  PROVE  AllOwn'
<1>1. \A v \in Workers : worker'[v] = IdleWorker
  BY DEF Restarted
<1>2. QED
  BY <1>1, IdleOwns, Zenon DEF AllOwn, Owns

\* A handler of another event is free to do what it likes.
LEMMA OtherOwn ==
  ASSUME NEW w \in Workers, NEW me, ~IsAdd(me.ev), Become(w, me)
  PROVE  Own(w)
BY Zenon DEF Own, Owns

LEMMA GotoOwn ==
  ASSUME TypeOK, AllOwn, NEW w \in Workers, NEW pc, Goto(w, pc), worker[w].pc # "idle",
         IsAdd(worker[w].ev) =>
           pc # "decide" /\ (worker[w].ret = "decide" => pc \in {"check", "call"})
  PROVE  Own(w)
<1> DEFINE me == [worker[w] EXCEPT !.pc = pc]
<1>1. /\ me.ev = worker[w].ev /\ me.op = worker[w].op /\ me.ret = worker[w].ret
      /\ me.pc = pc
  BY Zenon DEF TypeOK, Worker
<1>2. Become(w, me)
  BY DEF Goto
<1> HIDE DEF me
<1>3. Owns(me)
  BY <1>1, Zenon DEF AllOwn, Owns
<1>4. QED
  BY <1>2, <1>3 DEF Own

\* A handler that asked for an instance and has it has no later stage.
LEMMA ProceedOwn ==
  ASSUME NEW w \in Workers, NEW me \in Worker, Proceed(w, me),
         IsAdd(me.ev) => me.op = "create"
  PROVE  Own(w)
<1>1. CASE Become(w, IdleWorker)
  BY <1>1, EndOwn
<1>2. CASE \E op \in UpdateOps : After(me.op, op) /\ Become(w, Enter(me, op))
  <2>1. PICK op \in UpdateOps : After(me.op, op) /\ Become(w, Enter(me, op))
    BY <1>2
  <2>2. me.op # "create"
    BY <2>1, SMT DEF After, Rank
  <2>3. Enter(me, op).ev = me.ev
    BY Zenon DEF Enter, Worker
  <2>4. ~IsAdd(Enter(me, op).ev)
    BY <2>2, <2>3
  <2>5. QED
    BY <2>1, <2>4, OtherOwn
<1>3. QED
  BY <1>1, <1>2, Zenon DEF Proceed

LEMMA ReturnOwn ==
  ASSUME TypeOK, AllOwn, NEW w \in Workers, Return(w, worker[w]),
         worker[w].pc \notin {"idle", "check", "call"}
  PROVE  Own(w)
<1>1. worker[w] \in Worker
  BY DEF TypeOK
<1>2. IsAdd(worker[w].ev) => worker[w].op = "create" /\ worker[w].ret # "decide"
  BY Zenon DEF AllOwn, Owns
<1>3. CASE worker[w].ret = "next"
  BY <1>1, <1>2, <1>3, ProceedOwn DEF Return
<1>4. CASE worker[w].ret # "next"
  <2>1. Goto(w, worker[w].ret)
    BY <1>4 DEF Return, Goto
  <2>2. QED
    BY <1>2, <2>1, GotoOwn
<1>5. QED
  BY <1>3, <1>4

LEMMA TakeOwn ==
  ASSUME TypeOK, NEW w \in Workers, Take(w)
  PROVE  Own(w)
<1>1. PICK me : me = Begin(Head(queue))
  OBVIOUS
<1>2. IsAdd(me.ev) => me.op = "create" /\ me.pc = "check"
  BY <1>1, SMT DEF Begin, IsAdd
<1>3. Owns(me)
  BY <1>2, SMT DEF Owns
<1>4. QED
  BY <1>1, <1>3, Zenon DEF Take, Own

\* Steps whose handler cannot be that of an add event.
LEMMA OthersEvent ==
  ASSUME AllOwn, NEW w \in Workers, worker[w].pc # "idle",
         worker[w].op # "create" \/ worker[w].pc = "decide"
  PROVE  ~IsAdd(worker[w].ev)
BY Zenon DEF AllOwn, Owns

LEMMA StatusOwn ==
  ASSUME TypeOK, AllOwn, NEW w \in Workers, UpdateStatus(w), ~Restarted
  PROVE  Own(w)
<1>1. worker[w].pc \in {"us.get", "us.put", "us.svc", "us.svc2"}
  BY Zenon DEF UpdateStatus, StatusGet, StatusPut, StatusEndpoints, StatusService
<1>2. CASE Return(w, worker[w])
  <2>1. worker[w].pc \notin {"idle", "check", "call"}
    BY <1>1, SMT
  <2>2. QED
    BY <1>2, <2>1, ReturnOwn
<1>3. /\ worker[w].pc \notin {"idle", "check", "call"}
      /\ {"us.put", "us.svc", "us.svc2"} \cap {"decide"} = {}
  BY <1>1, SMT
<1>4. IsAdd(worker[w].ev) => worker[w].op = "create" /\ worker[w].ret # "decide"
  BY <1>3, Zenon DEF AllOwn, Owns
<1>5. CASE Goto(w, "us.svc") \/ Goto(w, "us.svc2")
  BY <1>3, <1>4, <1>5, GotoOwn
<1>6. CASE \E i \in Live :
             Become(w, [worker[w] EXCEPT !.pc = "us.put", !.obj.ip = inst[i].ip,
                                         !.obj.st = InstanceState(i)])
  <2>1. PICK i \in Live :
          Become(w, [worker[w] EXCEPT !.pc = "us.put", !.obj.ip = inst[i].ip,
                                      !.obj.st = InstanceState(i)])
    BY <1>6
  <2> DEFINE me == [worker[w] EXCEPT !.pc = "us.put", !.obj.ip = inst[i].ip,
                                     !.obj.st = InstanceState(i)]
  <2>2. /\ me.ev = worker[w].ev /\ me.op = worker[w].op /\ me.ret = worker[w].ret
        /\ me.pc = "us.put"
    BY Zenon DEF TypeOK, Worker
  <2>3. Become(w, me)
    BY <2>1
  <2> HIDE DEF me
  <2>4. Owns(me)
    BY <1>3, <1>4, <2>2, Zenon DEF Owns
  <2>5. QED
    BY <2>3, <2>4 DEF Own
<1>7. QED
  BY <1>2, <1>5, <1>6, Zenon
  DEF UpdateStatus, StatusGet, StatusPut, StatusEndpoints, StatusService

LEMMA GetByIdOwn ==
  ASSUME TypeOK, AllOwn, NEW w \in Workers, GetById(w), ~Restarted
  PROVE  Own(w)
<1> DEFINE ret == IF worker[w].pc = "peek" THEN "wait" ELSE "next"
           ip == IF worker[w].op = "create" THEN inst[MyId(w)].ip
                 ELSE worker[w].obj.ip
           me == [worker[w] EXCEPT !.pc = "us.get", !.ret = ret,
                    !.obj.st = InstanceState(MyId(w)), !.obj.ip = ip]
<1>1. Become(w, me)
  BY Zenon DEF GetById
<1>2. ret # "decide" /\ worker[w].pc # "idle"
  BY SMT DEF GetById
<1> HIDE DEF ret, ip
<1>3. me.op = worker[w].op /\ me.ev = worker[w].ev /\ me.ret = ret /\ me.pc = "us.get"
  BY Zenon DEF TypeOK, Worker
<1> HIDE DEF me
<1>4. me.pc # "decide"
  BY <1>3, SMT
<1>5. Owns(me)
  BY <1>2, <1>3, <1>4, Zenon DEF AllOwn, Owns
<1>6. QED
  BY <1>1, <1>5 DEF Own

LEMMA CreateOwn ==
  ASSUME TypeOK, AllOwn, NEW w \in Workers, Create(w)
  PROVE  Own(w)
<1>1. CASE Finish(w) \/ Fail(w)
  BY <1>1, EndOwn
<1>2. CASE CheckExists(w) /\ Goto(w, "call")
  <2>1. worker[w].pc # "idle"
    BY <1>2, SMT DEF CheckExists, At
  <2>2. QED
    BY <1>2, <2>1, GotoOwn
<1>3. CASE Created(w)
  <2>1. worker[w].pc = "wait"
    BY <1>3, Zenon DEF Created, JobOver
  <2>2. worker[w].pc \notin {"idle", "check", "call"}
    BY <2>1, SMT
  <2>3. IsAdd(worker[w].ev) => worker[w].ret # "decide"
    BY <2>2, Zenon DEF AllOwn, Owns
  <2>4. QED
    BY <1>3, <2>2, <2>3, GotoOwn, Zenon DEF Created
<1>4. CASE /\ At(w, "create", "call")
           /\ \E i \in Instances :
                Become(w, [worker[w] EXCEPT !.pc = "us.get", !.ret = "wait",
                                            !.obj.id = i, !.obj.st = "BUSY"])
  <2>1. PICK i \in Instances :
          Become(w, [worker[w] EXCEPT !.pc = "us.get", !.ret = "wait",
                                      !.obj.id = i, !.obj.st = "BUSY"])
    BY <1>4
  <2> DEFINE me == [worker[w] EXCEPT !.pc = "us.get", !.ret = "wait",
                                     !.obj.id = i, !.obj.st = "BUSY"]
  <2>2. /\ me.op = worker[w].op /\ me.ev = worker[w].ev /\ me.ret = "wait"
        /\ me.pc = "us.get"
    BY Zenon DEF TypeOK, Worker
  <2>3. Become(w, me)
    BY <2>1
  <2> HIDE DEF me
  <2>4. me.op = "create" /\ me.pc # "decide" /\ me.ret # "decide"
    BY <1>4, <2>2, SMT DEF At
  <2>5. Owns(me)
    BY <2>4, Zenon DEF Owns
  <2>6. QED
    BY <2>3, <2>5 DEF Own
<1>5. QED
  BY <1>1, <1>2, <1>3, <1>4, Zenon DEF Create, CheckExists, CreateInstance, CreateCall

LEMMA UpdateOwn ==
  ASSUME TypeOK, AllOwn, NEW w \in Workers, Update(w), ~Restarted
  PROVE  Own(w)
<1>1. worker[w] \in Worker /\ worker[w].obj \in Object
  BY Zenon DEF TypeOK, Worker
<1>2. worker[w].pc # "idle" /\ (worker[w].op # "create" \/ worker[w].pc = "decide")
  <2>1. CASE Decide(w)
    <3>1. worker[w].pc = "decide"
      BY <2>1, Zenon DEF Decide
    <3>2. QED
      BY <3>1, SMT
  <2>2. CASE UpdateCall(w, w)
    BY <2>2, SMT DEF UpdateCall, Enlarge, Resize, Restart, Restore, At
  <2>3. CASE Refused(w)
    BY <2>3, SMT DEF Refused
  <2>4. CASE Updated(w)
    BY <2>4, SMT DEF Updated, JobOver
  <2>5. CASE FetchLogs(w) \/ ChangeSqlUser(w) \/ SetAutopilot(w)
    BY <2>5, SMT DEF FetchLogs, ChangeSqlUser, SetAutopilot, At
  <2>6. QED
    BY <2>1, <2>2, <2>3, <2>4, <2>5, Zenon DEF Update, CallCloud
<1>3. ~IsAdd(worker[w].ev)
  BY <1>2, OthersEvent
<1>4. ASSUME NEW pc, Goto(w, pc) PROVE Own(w)
  BY <1>2, <1>3, <1>4, GotoOwn
<1>5. CASE Decide(w)
  <2> DEFINE me == [worker[w] EXCEPT !.ev.new = worker[w].obj]
  <2>1. me \in Worker /\ me.ev.type = worker[w].ev.type
    BY <1>1, Zenon DEF Worker, Event
  <2>2. CASE \E i \in Live : Proceed(w, [me EXCEPT !.vol = inst[i].vol,
                                                   !.flavor = inst[i].flavor])
    <3> HIDE DEF me
    <3>1. PICK i \in Instances : Proceed(w, [me EXCEPT !.vol = inst[i].vol,
                                                       !.flavor = inst[i].flavor])
      BY <2>2 DEF Live
    <3>2. inst[i].vol \in Volumes /\ inst[i].flavor \in Flavors
      BY Zenon DEF TypeOK, Instance
    <3> DEFINE now == [me EXCEPT !.vol = inst[i].vol, !.flavor = inst[i].flavor]
    <3>3. now \in Worker /\ now.ev = me.ev
      BY <2>1, <3>2, Zenon DEF Worker
    <3>4. Proceed(w, now)
      BY <3>1
    <3> HIDE DEF now
    <3>5. ~IsAdd(now.ev)
      BY <1>3, <2>1, <3>3 DEF IsAdd
    <3>6. QED
      BY <3>3, <3>4, <3>5, ProceedOwn
  <2>3. CASE Finish(w) \/ Retry(w, me.ev)
    <3> HIDE DEF me
    <3>1. QED
      BY <2>3, EndOwn, Zenon
  <2>4. QED
    BY <1>5, <2>2, <2>3, Zenon DEF Decide
<1>6. CASE CallCloud(w) \/ Updated(w)
  BY <1>4, <1>6, EndOwn, Zenon DEF CallCloud, Updated
<1>7. CASE FetchLogs(w) \/ SetAutopilot(w)
  BY <1>7, EndOwn, Zenon DEF FetchLogs, SetAutopilot
<1>8. CASE ChangeSqlUser(w)
  BY <1>1, <1>3, <1>8, EndOwn, ProceedOwn, Zenon DEF ChangeSqlUser
<1>9. QED
  BY <1>5, <1>6, <1>7, <1>8 DEF Update

LEMMA DeleteOwn ==
  ASSUME TypeOK, AllOwn, NEW w \in Workers, Delete(w)
  PROVE  Own(w)
<1>1. worker[w] \in Worker
  BY DEF TypeOK
<1>2. worker[w].pc # "idle" /\ worker[w].op # "create"
  BY SMT
  DEF Delete, DeleteAlarms, BackupOrDelete, DeleteCall, BackupDone, Deleted, JobOver,
      DeleteService, At
<1>3. ~IsAdd(worker[w].ev)
  BY <1>2, OthersEvent
<1>4. CASE DeleteAlarms(w)
  <2>1. [worker[w] EXCEPT !.op = "backup"].ev = worker[w].ev
    BY <1>1, Zenon DEF Worker
  <2>2. QED
    BY <1>3, <1>4, <2>1, EndOwn, OtherOwn, Zenon DEF DeleteAlarms
<1>5. CASE BackupDone(w) \/ Deleted(w)
  <2>1. /\ [worker[w] EXCEPT !.op = "delete", !.pc = "call"].ev = worker[w].ev
        /\ [worker[w] EXCEPT !.op = "service", !.pc = "call"].ev = worker[w].ev
    BY <1>1, Zenon DEF Worker
  <2>2. QED
    BY <1>3, <1>5, <2>1, OtherOwn, Zenon DEF BackupDone, Deleted
<1>6. CASE BackupOrDelete(w)
  BY <1>2, <1>3, <1>6, EndOwn, GotoOwn, Zenon DEF BackupOrDelete
<1>7. CASE DeleteService(w)
  BY <1>7, EndOwn, Zenon DEF DeleteService
<1>8. QED
  BY <1>4, <1>5, <1>6, <1>7 DEF Delete

LEMMA FailsOwn ==
  ASSUME TypeOK, AllOwn, NEW w \in Workers, CallFails(w) \/ AnswerLost(w)
  PROVE  Own(w)
<1>1. CASE /\ worker[w].pc \in {"us.get", "us.put", "us.svc", "us.svc2"}
           /\ Return(w, worker[w])
  <2>1. worker[w].pc \notin {"idle", "check", "call"}
    BY <1>1, SMT
  <2>2. QED
    BY <1>1, <2>1, ReturnOwn
<1>2. QED
  BY <1>1, EndOwn, Zenon DEF CallFails, AnswerLost

LEMMA JobFailsOwn ==
  ASSUME TypeOK, AllOwn, NEW i \in Instances, JobFails(i)
  PROVE  AllOwn'
<1>1. CASE worker' = worker
  BY <1>1, Zenon DEF AllOwn, Owns
<1>2. CASE /\ inst[i].by \in Workers /\ worker[inst[i].by].pc = "wait"
           /\ worker' = [worker EXCEPT ![inst[i].by].pc = "failed"]
  <2> DEFINE w == inst[i].by
  <2>1. w \in Workers /\ worker[w].pc = "wait" /\ Goto(w, "failed")
    BY <1>2, Zenon DEF Become, Goto
  <2> HIDE DEF w
  <2>2. worker[w].pc \notin {"idle", "check", "call"}
    BY <2>1, SMT
  <2>3. IsAdd(worker[w].ev) => worker[w].ret # "decide"
    BY <2>1, <2>2, Zenon DEF AllOwn, Owns
  <2>4. Own(w)
    BY <2>1, <2>2, <2>3, GotoOwn
  <2>5. QED
    BY <2>1, <2>4, OwnKept
<1>3. QED
  BY <1>1, <1>2, Zenon DEF JobFails

LEMMA NextOwn ==
  ASSUME TypeOK, AllOwn, [Next]_vars
  PROVE  AllOwn'
<1>1. ASSUME NEW w \in Workers, Step(w) PROVE AllOwn'
  <2>1. CASE Restarted
    BY <2>1, RestartedOwn
  <2>2. CASE JobFailed(w)
    BY <2>2, EndOwn, OwnKept, Zenon DEF JobFailed
  <2>3. QED
    BY <1>1, <2>1, <2>2, TakeOwn, StatusOwn, GetByIdOwn, CreateOwn, UpdateOwn,
       DeleteOwn, OwnKept DEF Step
<1>2. ASSUME NEW w \in Workers, CallFails(w) \/ AnswerLost(w) PROVE AllOwn'
  BY <1>2, FailsOwn, OwnKept
<1>3. CASE worker' = worker
  BY <1>3, Zenon DEF AllOwn, Owns
<1>4. CASE Environment
  BY <1>3, <1>4, JobFailsOwn, RestartedOwn, Zenon
  DEF Environment, Crash, JobDone, MoveIp, UserCreate, UserDelete, UserEdit, Resync
<1>5. CASE UNCHANGED vars \/ \E i \in 1..Len(delayed) : Requeue(i)
  BY <1>3, <1>5, Zenon DEF vars, Requeue
<1>6. QED
  BY <1>1, <1>2, <1>4, <1>5 DEF Next

------------------------------------------------------------------------------
\* Nobody but a user who creates the resource, and an operator that starts again,
\* makes an add event.

Keeps(q, p) == (NoAdd(q) => NoAdd(p)) /\ (OneAdd(q) => OneAdd(p))

Calm == Keeps(queue, queue') /\ Keeps(delayed, delayed')

LEMMA SameKeeps == \A q : Keeps(q, q)
BY DEF Keeps

LEMMA RetryKeeps ==
  ASSUME TypeOK, NEW w \in Workers, NEW e \in Event, ~IsAdd(e), Retry(w, e)
  PROVE  Keeps(delayed, delayed')
<1> DEFINE again == [e EXCEPT !.n = @ + 1]
<1>1. again \in Event /\ again.type = e.type
  BY SMT DEF Event
<1>2. ~IsAdd(again)
  BY <1>1 DEF IsAdd
<1>3. \/ delayed' = Append(delayed, again)
      \/ delayed' = Append(delayed, e) \/ delayed' = delayed
  BY Zenon DEF Retry
<1> HIDE DEF again
<1>4. delayed \in Seq(Event)
  BY DEF TypeOK
<1>5. /\ Keeps(delayed, Append(delayed, again)) /\ Keeps(delayed, Append(delayed, e))
      /\ Keeps(delayed, delayed)
  BY <1>1, <1>2, <1>4, AppendAdds, Zenon DEF Keeps
<1>6. QED
  BY <1>3, <1>5, Zenon

LEMMA FailKeeps ==
  ASSUME TypeOK, NEW w \in Workers, Finish(w) \/ Fail(w) \/ UNCHANGED delayed
  PROVE  Keeps(delayed, delayed')
<1>1. worker[w].ev \in Event
  BY Zenon DEF TypeOK, Worker
<1>2. CASE UNCHANGED delayed
  BY <1>2, SameKeeps, Zenon
<1>3. CASE ~IsAdd(worker[w].ev) /\ Retry(w, worker[w].ev)
  BY <1>1, <1>3, RetryKeeps
<1>4. QED
  BY <1>2, <1>3, Zenon DEF Finish, Fail, IsAdd

\* A changed version is queued as an update.
LEMMA StoreKeeps ==
  ASSUME TypeOK, cr # NoObject, NEW o \in Object, Store(o)
  PROVE  Keeps(queue, queue')
<1>1. PICK r \in Versions :
        queue' = Append(queue, UpdateEvent(cr, [o EXCEPT !.rv = r], FALSE))
  BY Zenon DEF Store
<1>2. PICK p : p = [o EXCEPT !.rv = r]
  OBVIOUS
<1>3. p \in Object /\ cr \in Object
  <2>1. cr \in Object
    BY Zenon DEF TypeOK
  <2>2. p \in Object
    BY <1>2, BoundsAreNat, SMT DEF Object, Versions
  <2>3. QED
    BY <2>1, <2>2
<1>4. PICK e : e = UpdateEvent(cr, p, FALSE)
  OBVIOUS
<1>5. e \in Event /\ ~IsAdd(e)
  <2>1. e \in Event
    BY <1>3, <1>4, EventTypes
  <2>2. e.type = "updateRds"
    BY <1>4 DEF UpdateEvent
  <2>3. QED
    BY <2>1, <2>2, SMT DEF IsAdd
<1>6. queue' = Append(queue, e) /\ queue \in Seq(Event)
  BY <1>1, <1>2, <1>4 DEF TypeOK
<1>7. QED
  BY <1>5, <1>6, AppendAdds, Zenon DEF Keeps

LEMMA StepCalm ==
  ASSUME TypeOK, AllOwn, NEW w \in Workers, Step(w), ~Take(w), ~Restarted
  PROVE  Calm
<1>1. CASE UNCHANGED <<queue, delayed>>
  BY <1>1, SameKeeps, Zenon DEF Calm
<1>2. CASE (Finish(w) \/ Fail(w)) /\ UNCHANGED queue
  BY <1>2, FailKeeps, SameKeeps, Zenon DEF Calm
<1>3. CASE StatusPut(w)
  <2>1. worker[w].obj \in Object
    BY Zenon DEF TypeOK, Worker
  <2>2. UNCHANGED delayed
    BY <1>3, Zenon DEF StatusPut
  <2>3. CASE UNCHANGED queue
    BY <1>1, <2>2, <2>3
  <2>4. CASE CanPut(worker[w].obj) /\ Store(worker[w].obj)
    BY <2>1, <2>2, <2>4, StoreKeeps, SameKeeps, Zenon DEF CanPut, Calm
  <2>5. QED
    BY <1>3, <2>3, <2>4, Zenon DEF StatusPut
<1>4. CASE UpdateStatus(w) \/ GetById(w) \/ JobFailed(w) \/ Create(w) \/ Delete(w)
  BY <1>1, <1>2, <1>3, <1>4, Zenon
  DEF UpdateStatus, StatusGet, StatusEndpoints, StatusService, GetById, JobFailed,
      Create, CheckExists, CreateInstance, Created, Delete, DeleteAlarms,
      BackupOrDelete, BackupDone, Deleted, DeleteService, events
<1>5. CASE Update(w)
  <2>1. CASE Decide(w)
    <3>1. worker[w] \in Worker /\ worker[w].obj \in Object /\ worker[w].ev \in Event
      BY Zenon DEF TypeOK, Worker
    <3>2. PICK e : e = [worker[w] EXCEPT !.ev.new = worker[w].obj].ev
      OBVIOUS
    <3>3. e \in Event /\ e.type = worker[w].ev.type
      BY <3>1, <3>2, Zenon DEF Worker, Event
    <3>4. ~IsAdd(e)
      <4>1. worker[w].pc = "decide"
        BY <2>1, Zenon DEF Decide
      <4>2. ~IsAdd(worker[w].ev)
        BY <4>1, OthersEvent, SMT
      <4>3. QED
        BY <3>3, <4>2 DEF IsAdd
    <3>5. CASE Retry(w, e) /\ UNCHANGED queue
      BY <3>3, <3>4, <3>5, RetryKeeps, SameKeeps, Zenon DEF Calm
    <3>6. QED
      BY <1>1, <1>2, <2>1, <3>2, <3>5, Zenon DEF Decide, events
  <2>2. QED
    BY <1>1, <1>2, <1>5, <2>1, Zenon
    DEF Update, CallCloud, Updated, FetchLogs, ChangeSqlUser, SetAutopilot, events
<1>6. QED
  BY <1>4, <1>5 DEF Step

\* Only the check for an existing instance gives its event back.
LEMMA FailsCalm ==
  ASSUME TypeOK, AllOwn, NEW w \in Workers, CallFails(w) \/ AnswerLost(w)
  PROVE  \/ Calm
         \/ /\ w \in Askers /\ UNCHANGED queue
            /\ NoAdd(delayed) => OneAdd(delayed')
<1>1. UNCHANGED queue
  BY Zenon DEF CallFails, AnswerLost
<1>2. worker[w].ev \in Event /\ worker[w].obj \in Object
  BY Zenon DEF TypeOK, Worker
<1>3. CASE Finish(w) \/ Fail(w) \/ UNCHANGED delayed
  BY <1>1, <1>3, FailKeeps, SameKeeps, Zenon DEF Calm
<1>4. CASE worker[w].pc = "check" /\ Retry(w, worker[w].ev)
  <2>1. CASE IsAdd(worker[w].ev)
    <3>1. w \in Askers
      <4>1. worker[w].pc # "idle"
        BY <1>4, SMT
      <4>2. worker[w].op = "create"
        BY <2>1, <4>1, Zenon DEF AllOwn, Owns
      <4>3. QED
        BY <1>4, <4>2 DEF Askers, Asks
    <3>2. PICK e : e = [worker[w].ev EXCEPT !.n = @ + 1]
      OBVIOUS
    <3>3. e \in Event
      BY <1>2, <3>2, SMT DEF Event
    <3>4. \/ delayed' = Append(delayed, e)
          \/ delayed' = Append(delayed, worker[w].ev) \/ delayed' = delayed
      BY <1>4, <3>2, Zenon DEF Retry
    <3>5. delayed \in Seq(Event)
      BY DEF TypeOK
    <3>6. NoAdd(delayed) => OneAdd(delayed')
      BY <1>2, <3>3, <3>4, <3>5, AppendAdds, Zenon DEF NoAdd, OneAdd
    <3>7. QED
      BY <1>1, <3>1, <3>6
  <2>2. CASE ~IsAdd(worker[w].ev)
    BY <1>1, <1>2, <1>4, <2>2, RetryKeeps, SameKeeps, Zenon DEF Calm
  <2>3. QED
    BY <2>1, <2>2
<1>5. CASE /\ worker[w].pc = "decide"
           /\ Retry(w, [worker[w].ev EXCEPT !.new = worker[w].obj])
  <2>1. ~IsAdd(worker[w].ev)
    BY <1>5, OthersEvent, SMT
  <2>2. PICK e : e = [worker[w].ev EXCEPT !.new = worker[w].obj]
    OBVIOUS
  <2>3. e \in Event /\ e.type = worker[w].ev.type
    BY <1>2, <2>2, Zenon DEF Event
  <2>4. ~IsAdd(e)
    BY <2>1, <2>3 DEF IsAdd
  <2>5. QED
    BY <1>1, <1>5, <2>2, <2>3, <2>4, RetryKeeps, SameKeeps, Zenon DEF Calm
<1>6. QED
  BY <1>3, <1>4, <1>5, Zenon DEF CallFails, AnswerLost

LEMMA EnvironmentCalm ==
  ASSUME TypeOK, Environment, ~UserCreate, ~Crash
  PROVE  Calm
<1>1. CASE UNCHANGED <<queue, delayed>>
  BY <1>1, SameKeeps, Zenon DEF Calm
<1>2. ASSUME NEW e \in Event, ~IsAdd(e), queue' = Append(queue, e), UNCHANGED delayed
      PROVE  Calm
  <2>1. queue \in Seq(Event)
    BY DEF TypeOK
  <2>2. Keeps(queue, queue')
    BY <1>2, <2>1, AppendAdds, Zenon DEF Keeps
  <2>3. QED
    BY <1>2, <2>2, SameKeeps, Zenon DEF Calm
<1>3. CASE UserDelete
  <2>1. cr \in Object
    BY <1>3, Zenon DEF UserDelete, TypeOK
  <2>2. DelEvent(cr) \in Event /\ ~IsAdd(DelEvent(cr))
    <3>1. DelEvent(cr) \in Event
      BY <2>1, EventTypes
    <3>2. DelEvent(cr).type = "delRds"
      BY DEF DelEvent
    <3>3. QED
      BY <3>1, <3>2, SMT DEF IsAdd
  <2>3. QED
    BY <1>2, <1>3, <2>2, Zenon DEF UserDelete
<1>4. CASE Resync
  <2>1. cr \in Object
    BY <1>4, Zenon DEF Resync, TypeOK
  <2>2. PICK e : e = UpdateEvent(cr, cr, TRUE)
    OBVIOUS
  <2>3. e \in Event
    BY <2>1, <2>2, EventTypes
  <2>4. e.type = "updateRds"
    BY <2>2 DEF UpdateEvent
  <2>5. ~IsAdd(e)
    BY <2>4, SMT DEF IsAdd
  <2>6. QED
    BY <1>2, <1>4, <2>2, <2>3, <2>5, Zenon DEF Resync
<1>5. ASSUME NEW kind \in EditKinds, UserEdit(kind) PROVE Calm
  <2>1. cr # NoObject /\ cr \in Object
    BY <1>5, Zenon DEF UserEdit, TypeOK
  <2>2. PICK o \in Edited(kind) : Store(o)
    BY <1>5, Zenon DEF UserEdit
  <2>3. o \in Object
    BY <2>1, <2>2, EditedType
  <2>4. UNCHANGED delayed
    BY <1>5, Zenon DEF UserEdit
  <2>5. QED
    BY <2>1, <2>2, <2>3, <2>4, StoreKeeps, SameKeeps, Zenon DEF Calm
<1>6. QED
  BY <1>1, <1>3, <1>4, <1>5, Zenon
  DEF Environment, JobDone, JobFails, MoveIp, events

------------------------------------------------------------------------------
\* One add event at a time.

\* The users' creations are the only ones.
LEMMA CreationsLeft ==
  ASSUME TypeOK, [Next]_vars, ~UserCreate
  PROVE  budget'["create"] = budget["create"] /\ (cr = NoObject => cr' = NoObject)
<1>1. ASSUME NEW kind \in EditKinds \cup {"delete", "fault", "crash", "ip"}, Spend(kind)
      PROVE  budget'["create"] = budget["create"]
  <2>1. kind # "create"
    BY SMT DEF EditKinds
  <2>2. budget \in [Kinds -> Nat] /\ "create" \in Kinds
    BY SMT DEF TypeOK, Kinds
  <2>3. QED
    BY <1>1, <2>1, <2>2, Zenon DEF Spend
<1>2. ASSUME NEW w \in Workers, Step(w)
      PROVE  UNCHANGED budget /\ (cr = NoObject => cr' = NoObject)
  <2>1. UNCHANGED budget
    BY <1>2, Zenon
    DEF Step, Take, UpdateStatus, StatusGet, StatusPut, StatusEndpoints, StatusService,
        GetById, JobFailed, Create, CheckExists, CreateInstance, Created,
        Update, Decide, CallCloud, Updated, FetchLogs, ChangeSqlUser, SetAutopilot,
        Delete, DeleteAlarms, BackupOrDelete, BackupDone, Deleted, DeleteService,
        ghosts
  <2>2. cr = NoObject => cr' = NoObject
    BY <1>2, Zenon
    DEF Step, Take, UpdateStatus, StatusGet, StatusPut, CanPut, StatusEndpoints,
        StatusService, GetById, JobFailed, Create, CheckExists, CreateInstance, Created,
        Update, Decide, CallCloud, Updated, FetchLogs, ChangeSqlUser, SetAutopilot,
        Delete, DeleteAlarms, BackupOrDelete, BackupDone, Deleted, DeleteService,
        Restarted, apiServer
  <2>3. QED
    BY <2>1, <2>2
<1>3. ASSUME NEW w \in Workers, CallFails(w) \/ AnswerLost(w)
      PROVE  Spend("fault") /\ (cr = NoObject => cr' = NoObject)
  BY <1>3, Zenon DEF CallFails, AnswerLost, apiServer
<1>4. CASE Environment
  BY <1>1, <1>4, Zenon
  DEF Environment, JobDone, JobFails, MoveIp, UserDelete, UserEdit, Resync, Crash,
      Restarted, apiServer, ghosts
<1>5. CASE UNCHANGED vars \/ \E i \in 1..Len(delayed) : Requeue(i)
  BY <1>5, Zenon DEF vars, Requeue, apiServer, ghosts
<1>6. QED
  BY <1>1, <1>2, <1>3, <1>4, <1>5, Zenon DEF Next

Left == budget'["create"] = budget["create"] /\ (cr = NoObject => cr' = NoObject)

LEMMA CalmAlone ==
  ASSUME Alone, Before, Left, Calm, Askers' \subseteq Askers
  PROVE  Alone' /\ Before'
<1>1. Alone'
  BY Zenon DEF Alone, Calm, Keeps
<1>2. Before'
  BY Zenon DEF Before, Left, Calm, Keeps
<1>3. QED
  BY <1>1, <1>2

LEMMA RestartedAlone ==
  ASSUME Before, Left, Restarted
  PROVE  Alone' /\ Before'
<1>1. Askers' = {} /\ delayed' = <<>>
  BY RestartedNobodyAsks, Zenon DEF Restarted
<1>2. OneAdd(queue') /\ (cr = NoObject => NoAdd(queue'))
  BY FewAdds, Zenon DEF Restarted
<1>3. NoAdd(delayed') /\ OneAdd(delayed')
  BY <1>1, FewAdds, Zenon
<1>4. Alone'
  BY <1>1, <1>2, <1>3, Zenon DEF Alone
<1>5. Before'
  BY <1>1, <1>2, <1>3, Zenon DEF Before, Left
<1>6. QED
  BY <1>4, <1>5

LEMMA TakeAlone ==
  ASSUME TypeOK, Alone, Before, Left, NEW w \in Workers, Take(w)
  PROVE  Alone' /\ Before'
<1>1. /\ queue \in Seq(Event) /\ queue # <<>>
      /\ queue' = Tail(queue) /\ delayed' = delayed
  BY Zenon DEF TypeOK, Take
<1>2. Calm
  BY <1>1, TailAdds, SameKeeps, Zenon DEF Calm, Keeps
<1>3. CASE ~IsAdd(Head(queue))
  BY <1>2, <1>3, TakeAsks, CalmAlone DEF IsAdd
<1>4. CASE IsAdd(Head(queue))
  <2>1. ~NoAdd(queue)
    BY <1>1, <1>4, TailAdds, Zenon
  <2>2. Askers = {} /\ NoAdd(delayed) /\ OneAdd(delayed)
    BY <2>1, Zenon DEF Alone
  <2>3. Askers' \subseteq {w}
    BY <2>2, TakeAsks
  <2>4. NoAdd(queue') /\ OneAdd(queue')
    BY <1>1, <1>4, TailAdds, Zenon DEF Alone
  <2>5. Alone'
    BY <1>1, <2>2, <2>3, <2>4, Zenon DEF Alone
  <2>6. Before'
    BY <2>1, Zenon DEF Before, Left
  <2>7. QED
    BY <2>5, <2>6
<1>5. QED
  BY <1>3, <1>4

LEMMA RequeueAlone ==
  ASSUME TypeOK, Alone, Before, Left, NEW i \in 1..Len(delayed), Requeue(i)
  PROVE  Alone' /\ Before'
<1>1. /\ queue \in Seq(Event) /\ delayed \in Seq(Event)
      /\ queue' = Append(queue, delayed[i]) /\ delayed' = RemoveAt(delayed, i)
      /\ worker' = worker
  BY Zenon DEF TypeOK, Requeue
<1>2. delayed[i] \in Event
  BY <1>1, ElementOfSeq
<1>3. Askers' = Askers
  BY <1>1 DEF Askers
<1>4. CASE ~IsAdd(delayed[i])
  <2>1. Calm
    BY <1>1, <1>2, <1>4, AppendAdds, RemoveAtAdds, Zenon DEF Calm, Keeps
  <2>2. QED
    BY <1>3, <2>1, CalmAlone
<1>5. CASE IsAdd(delayed[i])
  <2>1. ~NoAdd(delayed)
    BY <1>5, Zenon DEF NoAdd
  <2>2. Askers = {} /\ NoAdd(queue)
    BY <2>1, Zenon DEF Alone
  <2>3. OneAdd(queue')
    BY <1>1, <1>2, <2>2, AppendAdds, Zenon
  <2>4. NoAdd(delayed') /\ OneAdd(delayed')
    BY <1>1, <1>5, RemoveAtAdds, Zenon DEF Alone
  <2>5. Alone'
    BY <1>3, <2>2, <2>3, <2>4, Zenon DEF Alone
  <2>6. Before'
    BY <2>1, Zenon DEF Before, Left
  <2>7. QED
    BY <2>5, <2>6
<1>6. QED
  BY <1>4, <1>5

LEMMA UserCreateAlone ==
  ASSUME TypeOK, Alone, Before, UserCreate
  PROVE  Alone' /\ Before'
<1>1. /\ budget["create"] > 0 /\ budget["create"] <= 1
      /\ budget' = [budget EXCEPT !["create"] = @ - 1]
      /\ delayed' = delayed /\ worker' = worker
  BY Zenon DEF UserCreate, Spend, Before
<1>2. budget'["create"] = 0
  <2>1. budget \in [Kinds -> Nat] /\ "create" \in Kinds
    BY SMT DEF TypeOK, Kinds
  <2>2. budget["create"] \in Nat /\ budget'["create"] = budget["create"] - 1
    BY <1>1, <2>1, Zenon
  <2>3. QED
    BY <1>1, <2>2
<1>3. NoAdd(queue) /\ NoAdd(delayed) /\ Askers = {} /\ Askers' = {}
  BY <1>1, Zenon DEF Before, Askers
<1>4. PICK r \in Versions : queue' = Append(queue, AddEvent([FirstObject EXCEPT !.rv = r]))
  BY Zenon DEF UserCreate, Store
<1>5. PICK o : o = [FirstObject EXCEPT !.rv = r]
  OBVIOUS
<1>6. o \in Object
  BY <1>5, FirstObjectType, BoundsAreNat, SMT DEF Object, Versions
<1>7. AddEvent(o) \in Event /\ queue \in Seq(Event)
  BY <1>6, EventTypes DEF TypeOK
<1>8. OneAdd(queue')
  BY <1>3, <1>4, <1>5, <1>7, AppendAdds, Zenon
<1>9. Alone'
  BY <1>1, <1>3, <1>8, Zenon DEF Alone
<1>10. Before'
  BY <1>2, SMT DEF Before
<1>11. QED
  BY <1>9, <1>10

LEMMA FailsAlone ==
  ASSUME CopiesInv, AllOwn, Alone, Before, Left,
         NEW w \in Workers, CallFails(w) \/ AnswerLost(w)
  PROVE  Alone' /\ Before'
<1>1. TypeOK
  BY Types
<1>2. Askers' \subseteq Askers \ {w}
  BY <1>1, CallFailsHold, HoldsAside, AsideLeaves
<1>3. CASE Calm
  BY <1>2, <1>3, CalmAlone
<1>4. CASE /\ w \in Askers /\ UNCHANGED queue
           /\ NoAdd(delayed) => OneAdd(delayed')
  <2>1. Askers' = {}
    BY <1>2, <1>4, Zenon DEF Alone
  <2>2. NoAdd(queue) /\ NoAdd(delayed) /\ OneAdd(queue)
    BY <1>4, Zenon DEF Alone
  <2>3. NoAdd(queue') /\ OneAdd(queue') /\ OneAdd(delayed')
    BY <1>4, <2>2, Zenon
  <2>4. Alone'
    BY <2>1, <2>3, Zenon DEF Alone
  <2>5. Before'
    BY <1>4, Zenon DEF Before, Left
  <2>6. QED
    BY <2>4, <2>5
<1>5. QED
  BY <1>1, <1>3, <1>4, FailsCalm

LEMMA NextAlone ==
  ASSUME CopiesInv, AllOwn, Alone, Before, [Next]_vars
  PROVE  Alone' /\ Before'
<1>1. TypeOK
  BY Types
<1>2. CASE UserCreate
  BY <1>1, <1>2, UserCreateAlone
<1>3. CASE ~UserCreate
  <2>1. Left
    BY <1>1, <1>3, CreationsLeft DEF Left
  <2>2. CASE Restarted
    BY <2>1, <2>2, RestartedAlone
  <2>3. ASSUME NEW w \in Workers, Take(w) PROVE Alone' /\ Before'
    BY <1>1, <2>1, <2>3, TakeAlone
  <2>4. ASSUME ~Restarted, \A w \in Workers : ~Take(w) PROVE Askers' \subseteq Askers
    <3>1. CASE worker' = worker
      BY <3>1 DEF Askers
    <3>2. ASSUME NEW w \in Workers, Passes(w) \/ Aside(w)
          PROVE  Askers' \subseteq Askers
      BY <1>1, <3>2, PassesAsks, AsideLeaves
    <3>3. QED
      BY <2>4, <3>1, <3>2, WorkerSteps
  <2>5. ASSUME Calm, ~Restarted, \A w \in Workers : ~Take(w) PROVE Alone' /\ Before'
    BY <2>1, <2>4, <2>5, CalmAlone
  <2>6. ASSUME NEW w \in Workers, Step(w), ~Restarted, \A v \in Workers : ~Take(v)
        PROVE  Alone' /\ Before'
    BY <1>1, <2>5, <2>6, StepCalm
  <2>7. ASSUME NEW w \in Workers, CallFails(w) \/ AnswerLost(w)
        PROVE  Alone' /\ Before'
    BY <2>1, <2>7, FailsAlone
  <2>8. ASSUME Environment, ~Restarted, \A w \in Workers : ~Take(w)
        PROVE  Alone' /\ Before'
    BY <1>1, <1>3, <2>5, <2>8, EnvironmentCalm DEF Crash
  <2>9. ASSUME NEW i \in 1..Len(delayed), Requeue(i) PROVE Alone' /\ Before'
    BY <1>1, <2>1, <2>9, RequeueAlone
  <2>10. CASE UNCHANGED vars
    <3>1. Calm /\ Askers' \subseteq Askers
      BY <2>10, SameKeeps, Zenon DEF vars, events, Calm, Askers
    <3>2. QED
      BY <2>1, <3>1, CalmAlone
  <2>11. QED
    BY <2>2, <2>3, <2>6, <2>7, <2>8, <2>9, <2>10 DEF Next
<1>4. QED
  BY <1>2, <1>3

LEMMA InitAdd ==
  ASSUME CreatedOnce, Init
  PROVE  AddInv
<1>1. PICK s \in Scenarios : Begins(s.start) /\ budget = s.budget
  BY Zenon DEF Init
<1>2. \A w \in Workers : worker[w] = IdleWorker
  BY Zenon DEF Init
<1>3. AllOwn
  BY <1>2, IdleOwns, Zenon DEF AllOwn
<1>4. Askers = {}
  <2>1. ~Asks(IdleWorker)
    BY SMT DEF IdleWorker, Asks
  <2>2. QED
    BY <1>2, <2>1, Zenon DEF Askers
<1>5. delayed = <<>> /\ OneAdd(queue) /\ (s.start # "managed" => NoAdd(queue))
  BY <1>1, FewAdds, Zenon DEF Init, Begins
<1>6. NoAdd(delayed) /\ OneAdd(delayed)
  BY <1>5, FewAdds, Zenon
<1>7. Alone
  BY <1>4, <1>5, <1>6, Zenon DEF Alone
<1>8. Before
  <2>1. s.start # "managed" => cr = NoObject
    BY <1>1, Zenon DEF Begins
  <2>2. s.budget \in [Kinds -> Nat] /\ "create" \in Kinds
    BY ScenariosAreSome, SMT DEF Scenario, Kinds
  <2>3. budget["create"] \in Nat /\ budget["create"] <= (IF s.start = "managed" THEN 0 ELSE 1)
    BY <1>1, <2>2, Zenon DEF CreatedOnce
  <2>4. budget["create"] <= 1 /\ (budget["create"] > 0 => s.start # "managed")
    BY <2>3
  <2>5. QED
    BY <1>4, <1>5, <1>6, <2>1, <2>4, Zenon DEF Before
<1>9. QED
  BY <1>3, <1>7, <1>8, InitCopies DEF AddInv

LEMMA NextAdd == AddInv /\ [Next]_vars => AddInv'
<1> SUFFICES ASSUME AddInv, [Next]_vars PROVE AddInv'
  OBVIOUS
<1>1. AllOwn'
  BY Types, NextOwn DEF AddInv
<1>2. QED
  BY <1>1, NextCopies, NextAlone DEF AddInv

\* One worker at most asks for an instance, so that one at most creates one.
LEMMA OneCreates ==
  ASSUME Alone'
  PROVE  Cardinality(Creators') <= 1
<1>1. Creators' \subseteq Askers'
  BY SMT DEF Creators, Askers, Makes, Asks
<1>2. \A v, w \in Creators' : v = w
  BY <1>1, Zenon DEF Alone
<1>3. CASE Creators' = {}
  BY <1>3, FS_EmptySet
<1>4. ASSUME NEW w \in Creators' PROVE Cardinality(Creators') <= 1
  <2>1. Creators' = {w}
    BY <1>2
  <2>2. Cardinality(Creators') = 1
    BY <2>1, FS_Singleton, Zenon
  <2>3. QED
    BY <2>2
<1>5. QED
  BY <1>3, <1>4

\* A resource that users create once gets one instance at most, for any number of
\* workers, whatever calls fail and whenever the operator restarts and sees the
\* resource as new again, even between the creation and the write of its id.
THEOREM CreatedOnceOneInstance ==
  ASSUME CreatedOnce
  PROVE  Spec => []NeverTwoInstances
<1>1. Init => AddInv /\ Crowd(1)
  BY InitAdd, InitCrowd
<1>2. AddInv /\ Crowd(1) /\ [Next]_vars => (AddInv /\ Crowd(1))'
  <2> SUFFICES ASSUME AddInv, Crowd(1), [Next]_vars PROVE AddInv' /\ Crowd(1)'
    OBVIOUS
  <2>1. AddInv'
    BY NextAdd
  <2>2. Cardinality(Creators') <= 1
    BY <2>1, OneCreates DEF AddInv
  <2>3. Crowd(1)'
    BY <2>2, CrowdKept DEF AddInv
  <2>4. QED
    BY <2>1, <2>3
<1>3. Crowd(1) => NeverTwoInstances
  <2> SUFFICES ASSUME Crowd(1) PROVE NeverTwoInstances
    OBVIOUS
  <2>1. Cardinality(Live) \in Nat /\ Cardinality(Creators) \in Nat
    BY Finite DEF Live, Creators
  <2>2. QED
    BY <2>1, SMT DEF Crowd, NeverTwoInstances
<1>4. QED
  BY <1>1, <1>2, <1>3, PTL DEF Spec

==============================================================================
