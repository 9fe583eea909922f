--------------------------- MODULE RdsRunnerProofs ---------------------------
(***************************************************************************)
(* RdsRunner's TypeOK, and OneOperator for installations whose lists of    *)
(* namespaces have no namespace in common.  The invariant is a type: what  *)
(* a process has queued, or is busy with, is an event of a resource that   *)
(* its own list covers.                                                    *)
(***************************************************************************)
EXTENDS RdsRunner, SequenceTheorems, FiniteSetTheorems, TLAPS

\* The events that process p may have, and what it is then.
Own(p) == {e \in Event : Watched(p, e.name)}
ProcOf(p) ==
    [ pc : {"down", "waiting", "syncing", "ready", "ending"},
      ctx : BOOLEAN, listening : BOOLEAN,
      cache : [Resources -> Nat], queue : Seq(Own(p)),
      busy : [1..NumWorkers -> Own(p) \cup {Idle}] ]

ProcsOK == DOMAIN proc = Procs /\ \A p \in Procs : proc[p] \in ProcOf(p)
RevsOK ==
    /\ rev \in [Resources -> Nat] /\ seen \in [Resources -> Nat]
    /\ buried \subseteq Resources /\ dropped \subseteq Resources
RestOK ==
    /\ lease \in [Operators -> Procs \cup {Nobody}]
    /\ budget \in [Kinds -> Nat]
    /\ proc = [p \in Procs |-> proc[p]]

RunnerInv == ProcsOK /\ RevsOK /\ RestOK

\* No namespace is on the lists of two installations, nor is one "everywhere".
ListsAreDisjoint ==
    \A p, q \in Procs, r \in Resources :
        Watched(p, r) /\ Watched(q, r) => OperatorOf[p] = OperatorOf[q]

------------------------------------------------------------------------------
\* What the steps are made of.

LEMMA Spent ==
  ASSUME RestOK, NEW kind \in Kinds, Spend(kind)
  PROVE  budget' \in [Kinds -> Nat]
<1>1. budget[kind] \in Nat /\ budget[kind] > 0
  BY DEF RestOK, Spend
<1>2. budget[kind] - 1 \in Nat
  BY <1>1
<1>3. QED
  BY <1>2, Zenon DEF RestOK, Spend

LEMMA ProcTyped ==
  ASSUME RunnerInv, NEW p \in Procs, NEW me \in ProcOf(p),
         proc' = [proc EXCEPT ![p] = me]
  PROVE  ProcsOK' /\ proc' = [q \in Procs |-> proc'[q]]
<1>1. proc' = [q \in Procs |-> IF q = p THEN me ELSE proc[q]]
  BY Zenon DEF RunnerInv, ProcsOK
<1>2. \A q \in Procs : proc'[q] = IF q = p THEN me ELSE proc[q]
  BY <1>1, Zenon
<1>3. \A q \in Procs : proc'[q] \in ProcOf(q)
  BY <1>2, Zenon DEF RunnerInv, ProcsOK
<1>4. DOMAIN proc' = Procs /\ proc' = [q \in Procs |-> proc'[q]]
  BY <1>1, Zenon
<1>5. QED
  BY <1>3, <1>4, Zenon DEF ProcsOK

LEMMA FreshProc ==
  ASSUME NEW p \in Procs
  PROVE  NoProc \in ProcOf(p)
<1>1. [r \in Resources |-> 0] \in [Resources -> Nat]
  OBVIOUS
<1>2. [w \in 1..NumWorkers |-> Idle] \in [1..NumWorkers -> Own(p) \cup {Idle}]
  OBVIOUS
<1>3. <<>> \in Seq(Own(p))
  BY EmptySeq
<1>4. QED
  BY <1>1, <1>2, <1>3, Zenon DEF NoProc, ProcOf

LEMMA EndTyped ==
  ASSUME RunnerInv, NEW p \in Procs, Ended(p)
  PROVE  ProcsOK' /\ proc' = [q \in Procs |-> proc'[q]]
BY FreshProc, ProcTyped, Zenon DEF Ended

LEMMA GotoTyped ==
  ASSUME RunnerInv, NEW p \in Procs,
         NEW pc \in {"down", "waiting", "syncing", "ready", "ending"}, Goto(p, pc)
  PROVE  ProcsOK' /\ proc' = [q \in Procs |-> proc'[q]]
<1> DEFINE me == [proc[p] EXCEPT !.pc = pc]
<1>1. proc[p] \in ProcOf(p)
  BY Zenon DEF RunnerInv, ProcsOK
<1>2. me \in ProcOf(p)
  BY <1>1, Zenon DEF ProcOf
<1>3. proc' = [proc EXCEPT ![p] = me]
  BY Zenon DEF Goto
<1> HIDE DEF me
<1>4. QED
  BY <1>2, <1>3, ProcTyped

LEMMA QueueTyped ==
  ASSUME RunnerInv, NEW p \in Procs, NEW r \in Resources, NEW v \in Nat,
         NEW type \in {"addRds", "updateRds", "delRds"}
  PROVE  Added(p, r, type, v) \in Seq(Own(p))
<1> DEFINE e == [type |-> type, name |-> r, rev |-> v]
<1>1. proc[p].queue \in Seq(Own(p))
  <2>1. proc[p] \in ProcOf(p)
    BY Zenon DEF RunnerInv, ProcsOK
  <2>2. QED
    BY <2>1, Zenon DEF ProcOf
<1>2. Watched(p, r) => e \in Own(p)
  BY DEF Own, Event
<1>3. Added(p, r, type, v) =
        IF Watched(p, r) /\ ~Contains(proc[p].queue, e) THEN Append(proc[p].queue, e)
        ELSE proc[p].queue
  BY Zenon DEF Added
<1> HIDE DEF e
<1>4. Watched(p, r) => Append(proc[p].queue, e) \in Seq(Own(p))
  BY <1>1, <1>2, AppendProperties
<1>5. QED
  BY <1>1, <1>3, <1>4, Zenon

\* The list that a process starts with has the watched resources, in some order.
LEMMA ListTyped ==
  ASSUME RunnerInv, NEW p \in Procs
  PROVE  SetToSeq({[type |-> "addRds", name |-> r, rev |-> rev[r]] :
                     r \in {s \in Resources : rev[s] # 0 /\ Watched(p, s)}}) \in Seq(Own(p))
<1> DEFINE R == {s \in Resources : rev[s] # 0 /\ Watched(p, s)}
           e(r) == [type |-> "addRds", name |-> r, rev |-> rev[r]]
           S == {e(r) : r \in R}
<1>1. IsFiniteSet(S)
  <2>1. IsFiniteSet(R)
    BY ResourcesAreFinite, FS_Subset
  <2>2. [r \in R |-> e(r)] \in Surjection(R, S)
    BY DEF Surjection
  <2>3. QED
    BY <2>1, <2>2, FS_Surjection, Zenon
<1>2. S \subseteq Own(p)
  <2>1. ASSUME NEW r \in R
        PROVE  e(r) \in Own(p)
    BY <2>1 DEF RunnerInv, RevsOK, Own, Event
  <2>2. QED
    BY <2>1
<1> HIDE DEF S
<1>3. PICK f \in [1..Cardinality(S) -> S] : IsInjective(f)
  <2>1. ExistsBijection(1..Cardinality(S), S)
    BY <1>1, FS_CardinalityType
  <2>2. QED
    BY <2>1 DEF ExistsBijection, Bijection, Injection
<1>4. SetToSeq(S) \in [1..Cardinality(S) -> S] /\ Cardinality(S) \in Nat
  BY <1>1, <1>3, FS_CardinalityType, Zenon DEF SetToSeq
<1>5. SetToSeq(S) \in Seq(S)
  BY <1>4
<1>6. SetToSeq(S) \in Seq(Own(p))
  BY <1>2, <1>5, SeqMonotonic
<1>7. QED
  BY <1>6, Zenon DEF S

------------------------------------------------------------------------------
\* The steps.

\* What the informer does with a process.
LEMMA InformerTypes ==
  ASSUME RunnerInv, NEW p \in Procs, NEW r \in Resources,
         Notice(p, r) \/ Tombstone(p, r) \/ Resync(p, r)
  PROVE  RunnerInv'
<1>1. proc[p] \in ProcOf(p)
  BY Zenon DEF RunnerInv, ProcsOK
<1>2. /\ proc[p].queue \in Seq(Own(p)) /\ proc[p].cache \in [Resources -> Nat]
      /\ rev[r] \in Nat
  BY <1>1, Zenon DEF ProcOf, RunnerInv, RevsOK
<1>3. CASE Notice(p, r)
  <2> DEFINE old == proc[p].cache[r]
             type == IF rev[r] = 0 THEN "delRds"
                     ELSE IF old = 0 THEN "addRds" ELSE "updateRds"
             v == IF rev[r] = 0 THEN old ELSE rev[r]
             cache == [proc[p].cache EXCEPT ![r] = rev[r]]
             queue == Added(p, r, type, v)
             me == [proc[p] EXCEPT !.cache = cache, !.queue = queue]
  <2>1. v \in Nat /\ type \in {"addRds", "updateRds", "delRds"}
    BY <1>2
  <2>2. cache \in [Resources -> Nat]
    BY <1>2, Zenon
  <2>3. proc' = [proc EXCEPT ![p].cache[r] = rev[r], ![p].queue = queue]
        /\ UNCHANGED <<world, lease, budget>>
    BY <1>3, Zenon DEF Notice
  <2> HIDE DEF type, v
  <2>4. queue \in Seq(Own(p))
    BY <2>1, QueueTyped, Zenon
  <2> HIDE DEF queue
  <2>5. proc' = [proc EXCEPT ![p] = me]
    BY <2>3, Zenon
  <2> HIDE DEF cache
  <2>6. me \in ProcOf(p)
    BY <1>1, <2>2, <2>4, Zenon DEF ProcOf
  <2> HIDE DEF me
  <2>7. QED
    BY <2>3, <2>5, <2>6, ProcTyped, Zenon DEF RunnerInv, RevsOK, RestOK, world
<1>4. CASE Tombstone(p, r)
  <2> DEFINE me == [proc[p] EXCEPT !.cache = [proc[p].cache EXCEPT ![r] = 0]]
  <2>1. 0 \in Nat
    OBVIOUS
  <2>2. [proc[p].cache EXCEPT ![r] = 0] \in [Resources -> Nat]
    BY <1>2, <2>1, Zenon
  <2>3. me \in ProcOf(p)
    BY <1>1, <2>2, Zenon DEF ProcOf
  <2>4. proc' = [proc EXCEPT ![p] = me]
    BY <1>4, Zenon DEF Tombstone
  <2>5. /\ dropped' = dropped \cup {r} /\ Spend("break")
        /\ UNCHANGED <<rev, seen, buried, lease>>
    BY <1>4, Zenon DEF Tombstone
  <2> HIDE DEF me
  <2>6. ProcsOK' /\ proc' = [q \in Procs |-> proc'[q]]
    BY <2>3, <2>4, ProcTyped
  <2>7. budget' \in [Kinds -> Nat]
    BY <2>5, Spent, Zenon DEF RunnerInv, Kinds
  <2>8. dropped' \subseteq Resources
    BY <2>5 DEF RunnerInv, RevsOK
  <2>9. QED
    BY <2>5, <2>6, <2>7, <2>8, Zenon DEF RunnerInv, RevsOK, RestOK
<1>5. CASE Resync(p, r)
  <2> DEFINE queue == Added(p, r, "updateRds", proc[p].cache[r])
             me == [proc[p] EXCEPT !.queue = queue]
  <2>1. proc[p].cache[r] \in Nat
    BY <1>2
  <2>2. queue \in Seq(Own(p))
    BY <2>1, QueueTyped, Zenon
  <2>3. proc' = [proc EXCEPT ![p].queue = queue] /\ UNCHANGED <<world, lease, budget>>
    BY <1>5, Zenon DEF Resync
  <2> HIDE DEF queue
  <2>4. proc' = [proc EXCEPT ![p] = me]
    BY <2>3, Zenon
  <2>5. me \in ProcOf(p)
    BY <1>1, <2>2, Zenon DEF ProcOf
  <2> HIDE DEF me
  <2>6. QED
    BY <2>3, <2>4, <2>5, ProcTyped, Zenon DEF RunnerInv, RevsOK, RestOK, world
<1>6. QED
  BY <1>3, <1>4, <1>5

\* What a worker does.
LEMMA WorkerTypes ==
  ASSUME RunnerInv, NEW p \in Procs, NEW w \in 1..NumWorkers,
         Take(p, w) \/ Handle(p, w) \/ Fails(p, w)
  PROVE  RunnerInv'
<1>1. proc[p] \in ProcOf(p)
  BY Zenon DEF RunnerInv, ProcsOK
<1>2. /\ proc[p].queue \in Seq(Own(p))
      /\ proc[p].busy \in [1..NumWorkers -> Own(p) \cup {Idle}]
  BY <1>1, Zenon DEF ProcOf
<1>3. proc[p].busy[w] \in Own(p) \cup {Idle}
  BY <1>2, Zenon
<1>4. CASE Take(p, w)
  <2> DEFINE busy == [proc[p].busy EXCEPT ![w] = Head(proc[p].queue)]
             me == [proc[p] EXCEPT !.queue = Tail(proc[p].queue), !.busy = busy]
  <2>1. Head(proc[p].queue) \in Own(p) /\ Tail(proc[p].queue) \in Seq(Own(p))
    BY <1>2, <1>4, HeadTailProperties DEF Take
  <2>2. busy \in [1..NumWorkers -> Own(p) \cup {Idle}]
    BY <1>2, <2>1, Zenon
  <2>3. proc' = [proc EXCEPT ![p] = me] /\ UNCHANGED <<world, lease, budget>>
    BY <1>4, Zenon DEF Take
  <2> HIDE DEF busy
  <2>4. me \in ProcOf(p)
    BY <1>1, <2>1, <2>2, Zenon DEF ProcOf
  <2> HIDE DEF me
  <2>5. QED
    BY <2>3, <2>4, ProcTyped, Zenon DEF RunnerInv, RevsOK, RestOK, world
<1> DEFINE idle == [proc[p].busy EXCEPT ![w] = Idle]
<1>5. idle \in [1..NumWorkers -> Own(p) \cup {Idle}]
  BY <1>2, Zenon
<1>6. CASE Handle(p, w)
  <2> DEFINE e == proc[p].busy[w]
             me == [proc[p] EXCEPT !.busy = idle]
  <2>1. e \in Event
    BY <1>3, <1>6 DEF Handle, Own
  <2>2. e.name \in Resources /\ e.rev \in Nat
    BY <2>1 DEF Event
  <2>3. seen' = seen \/ seen' = [seen EXCEPT ![e.name] = e.rev]
    BY <1>6, Zenon DEF Handle
  <2>4. buried' = buried \/ buried' = buried \cup {e.name}
    BY <1>6, Zenon DEF Handle
  <2>5. proc' = [proc EXCEPT ![p] = me] /\ UNCHANGED <<rev, dropped, lease, budget>>
    BY <1>6, Zenon DEF Handle
  <2> HIDE DEF idle, e
  <2>6. me \in ProcOf(p)
    BY <1>1, <1>5, Zenon DEF ProcOf
  <2> HIDE DEF me
  <2>7. ProcsOK' /\ proc' = [q \in Procs |-> proc'[q]]
    BY <2>5, <2>6, ProcTyped
  <2>8. RevsOK'
    BY <2>2, <2>3, <2>4, <2>5, Zenon DEF RunnerInv, RevsOK
  <2>9. QED
    BY <2>5, <2>7, <2>8, Zenon DEF RunnerInv, RestOK
<1>7. CASE Fails(p, w)
  <2> DEFINE queue == Append(proc[p].queue, proc[p].busy[w])
             me == [proc[p] EXCEPT !.busy = idle, !.queue = queue]
  <2>1. proc[p].busy[w] \in Own(p)
    BY <1>3, <1>7 DEF Fails
  <2>2. queue \in Seq(Own(p))
    BY <1>2, <2>1, AppendProperties
  <2>3. proc' = [proc EXCEPT ![p] = me] /\ UNCHANGED <<world, lease>> /\ Spend("fault")
    BY <1>7, Zenon DEF Fails
  <2> HIDE DEF idle, queue
  <2>4. me \in ProcOf(p)
    BY <1>1, <1>5, <2>2, Zenon DEF ProcOf
  <2> HIDE DEF me
  <2>5. budget' \in [Kinds -> Nat]
    BY <2>3, Spent, Zenon DEF RunnerInv, Kinds
  <2>6. QED
    BY <2>3, <2>4, <2>5, ProcTyped, Zenon DEF RunnerInv, RevsOK, RestOK, world
<1>8. QED
  BY <1>4, <1>6, <1>7

\* How a process starts, leads and ends.
LEMMA LifecycleTypes ==
  ASSUME RunnerInv, NEW p \in Procs, Lifecycle(p)
  PROVE  RunnerInv'
<1>1. proc[p] \in ProcOf(p)
  BY Zenon DEF RunnerInv, ProcsOK
<1>2. ASSUME NEW pc \in {"waiting", "syncing", "ending"}, Goto(p, pc), UNCHANGED <<world, budget>>,
             lease' \in [Operators -> Procs \cup {Nobody}]
      PROVE  RunnerInv'
  BY <1>2, GotoTyped, Zenon DEF RunnerInv, RevsOK, RestOK, world
<1>3. ASSUME Ended(p), UNCHANGED <<world, lease, budget>>
      PROVE  RunnerInv'
  BY <1>3, EndTyped, Zenon DEF RunnerInv, RevsOK, RestOK, world
<1>4. CASE Start(p)
  <2>1. PICK pc \in {"waiting", "syncing"} : Goto(p, pc)
    BY <1>4, Zenon DEF Start
  <2>2. QED
    BY <1>2, <1>4, <2>1, Zenon DEF Start, RunnerInv, RestOK
<1>5. CASE Acquire(p)
  BY <1>2, <1>5, Zenon DEF Acquire, RunnerInv, RestOK
<1>6. CASE Sync(p)
  <2> DEFINE list == SetToSeq({[type |-> "addRds", name |-> r, rev |-> rev[r]] :
                          r \in {s \in Resources : rev[s] # 0 /\ Watched(p, s)}})
  <2>1. list \in Seq(Own(p))
    BY ListTyped
  <2>2. UNCHANGED <<world, lease, budget>> /\ rev \in [Resources -> Nat]
    BY <1>6, Zenon DEF Sync, RunnerInv, RevsOK
  <2>3. PICK l \in BOOLEAN : proc' = [proc EXCEPT ![p].pc = "ready", ![p].listening = l,
                                        ![p].cache = rev, ![p].queue = list]
    BY <1>6, Zenon DEF Sync
  <2> HIDE DEF list
  <2> DEFINE me == [proc[p] EXCEPT !.pc = "ready", !.listening = l, !.cache = rev, !.queue = list]
  <2>4. me \in ProcOf(p)
    BY <1>1, <2>1, <2>2, Zenon DEF ProcOf
  <2>5. proc' = [proc EXCEPT ![p] = me]
    BY <2>3, Zenon
  <2> HIDE DEF me
  <2>6. QED
    BY <2>2, <2>4, <2>5, ProcTyped, Zenon DEF RunnerInv, RevsOK, RestOK, world
<1>7. CASE Release(p)
  <2>1. lease' \in [Operators -> Procs \cup {Nobody}]
    BY <1>7, Zenon DEF Release, RunnerInv, RestOK
  <2>2. QED
    BY <1>2, <1>7, <2>1, Zenon DEF Release
<1>8. CASE LoseLease(p)
  <2> DEFINE me == [proc[p] EXCEPT !.pc = "ending", !.ctx = FALSE]
  <2>1. me \in ProcOf(p)
    BY <1>1, Zenon DEF ProcOf
  <2>2. proc' = [proc EXCEPT ![p] = me] /\ UNCHANGED <<world, lease, budget>>
    BY <1>8, Zenon DEF LoseLease
  <2> HIDE DEF me
  <2>3. QED
    BY <2>1, <2>2, ProcTyped, Zenon DEF RunnerInv, RevsOK, RestOK, world
<1>9. CASE RunReturns(p)
  BY <1>2, <1>9, Zenon DEF RunReturns, RunnerInv, RestOK
<1>10. CASE End(p) \/ Kill(p)
  BY <1>3, <1>10, Zenon DEF End, Kill
<1>11. QED
  BY <1>4, <1>5, <1>6, <1>7, <1>8, <1>9, <1>10, Zenon DEF Lifecycle

\* What happens to a process from outside, to the leases and to the resources.
LEMMA OutsideTypes ==
  ASSUME RunnerInv,
         \/ \E p \in Procs : Signal(p) \/ Crash(p)
         \/ \E o \in Operators : Expire(o) \/ Stall(o)
         \/ \E r \in Resources : Edit(r) \/ Delete(r)
  PROVE  RunnerInv'
<1>1. ASSUME NEW p \in Procs, Ended(p), UNCHANGED <<world, lease>>, budget' \in [Kinds -> Nat]
      PROVE  RunnerInv'
  BY <1>1, EndTyped, Zenon DEF RunnerInv, RevsOK, RestOK, world
<1>2. ASSUME NEW p \in Procs, Signal(p) \/ Crash(p)
      PROVE  RunnerInv'
  <2>1. UNCHANGED <<world, lease>> /\ budget' \in [Kinds -> Nat]
    BY <1>2, Spent, Zenon DEF Signal, Crash, RunnerInv, Kinds
  <2>2. CASE Ended(p)
    BY <1>1, <2>1, <2>2
  <2>3. CASE proc' = [proc EXCEPT ![p].ctx = FALSE]
    <3> DEFINE me == [proc[p] EXCEPT !.ctx = FALSE]
    <3>1. proc[p] \in ProcOf(p)
      BY Zenon DEF RunnerInv, ProcsOK
    <3>2. me \in ProcOf(p)
      BY <3>1, Zenon DEF ProcOf
    <3>3. proc' = [proc EXCEPT ![p] = me]
      BY <2>3, Zenon
    <3> HIDE DEF me
    <3>4. QED
      BY <2>1, <3>2, <3>3, ProcTyped, Zenon DEF RunnerInv, RevsOK, RestOK, world
  <2>4. QED
    BY <1>2, <2>2, <2>3, Zenon DEF Signal, Crash
<1>3. ASSUME NEW o \in Operators, Expire(o) \/ Stall(o)
      PROVE  RunnerInv'
  <2>1. budget' \in [Kinds -> Nat] /\ UNCHANGED <<world, proc>>
    BY <1>3, Spent, Zenon DEF Expire, Stall, RunnerInv, RestOK, Kinds
  <2>2. lease' \in [Operators -> Procs \cup {Nobody}]
    BY <1>3, Zenon DEF Expire, Stall, RunnerInv, RestOK
  <2>3. QED
    BY <2>1, <2>2, Zenon DEF RunnerInv, ProcsOK, RevsOK, RestOK, world
<1>4. ASSUME NEW r \in Resources, Edit(r) \/ Delete(r)
      PROVE  RunnerInv'
  <2>1. rev[r] + 1 \in Nat /\ 0 \in Nat
    BY DEF RunnerInv, RevsOK
  <2>2. rev' \in [Resources -> Nat]
    BY <1>4, <2>1, Zenon DEF Edit, Delete, RunnerInv, RevsOK
  <2>3. budget' \in [Kinds -> Nat]
    BY <1>4, Spent, Zenon DEF Edit, Delete, RunnerInv, Kinds
  <2>4. UNCHANGED <<seen, buried, dropped, proc, lease>>
    BY <1>4, Zenon DEF Edit, Delete
  <2>5. QED
    BY <2>2, <2>3, <2>4, Zenon DEF RunnerInv, ProcsOK, RevsOK, RestOK
<1>5. QED
  BY <1>2, <1>3, <1>4, Zenon

------------------------------------------------------------------------------
\* The invariant.

LEMMA RunnerInit ==
  ASSUME Init
  PROVE  RunnerInv
<1>1. PICK s \in Scenarios : /\ rev = [r \in Resources |-> IF r \in s.exist THEN 1 ELSE 0]
                             /\ budget = s.budget
  BY Zenon DEF Init
<1>2. s.budget \in [Kinds -> Nat]
  BY ScenariosAreSome, Zenon
<1>3. rev \in [Resources -> Nat]
  BY <1>1
<1>4. proc = [p \in Procs |-> NoProc]
  BY Zenon DEF Init
<1>5. ProcsOK /\ proc = [p \in Procs |-> proc[p]]
  BY <1>4, FreshProc, Zenon DEF ProcsOK
<1>6. lease \in [Operators -> Procs \cup {Nobody}]
  BY Zenon DEF Init
<1>7. seen \in [Resources -> Nat] /\ buried \subseteq Resources /\ dropped \subseteq Resources
  BY DEF Init
<1>8. QED
  BY <1>1, <1>2, <1>3, <1>5, <1>6, <1>7, Zenon DEF RunnerInv, RevsOK, RestOK

LEMMA RunnerStep ==
  ASSUME RunnerInv, [Next]_vars
  PROVE  RunnerInv'
<1>1. CASE UNCHANGED vars
  BY <1>1, Zenon DEF vars, RunnerInv, ProcsOK, RevsOK, RestOK
<1>2. CASE Next
  BY <1>2, LifecycleTypes, InformerTypes, WorkerTypes, OutsideTypes, Zenon DEF Next
<1>3. QED
  BY <1>1, <1>2

LEMMA RunnerTypes == RunnerInv => TypeOK
<1> SUFFICES ASSUME RunnerInv
             PROVE  TypeOK
  OBVIOUS
<1>1. ASSUME NEW p \in Procs
      PROVE  proc[p] \in Proc
  <2>1. proc[p] \in ProcOf(p)
    BY Zenon DEF RunnerInv, ProcsOK
  <2>2. Own(p) \subseteq Event
    BY DEF Own
  <2>3. Seq(Own(p)) \subseteq Seq(Event)
    BY <2>2, SeqMonotonic
  <2>4. [1..NumWorkers -> Own(p) \cup {Idle}] \subseteq [1..NumWorkers -> Event \cup {Idle}]
    BY <2>2
  <2>5. QED
    BY <2>1, <2>3, <2>4, Zenon DEF ProcOf, Proc
<1>2. proc \in [Procs -> Proc]
  BY <1>1, Zenon DEF RunnerInv, RestOK
<1>3. QED
  BY <1>2, Zenon DEF RunnerInv, RevsOK, RestOK, TypeOK

\* Whatever the processes, their watches and their leases go through, every variable
\* keeps to its type: the queues hold copies of resources only.
THEOREM TypeCorrect == Spec => []TypeOK
<1>1. QED
  BY RunnerInit, RunnerStep, RunnerTypes, PTL DEF Spec

\* Installations with disjoint lists of namespaces never work on the same resource,
\* although each watches the whole cluster, whatever leader each of them has and
\* whatever its processes had in their queues when they ended.
THEOREM OneOperatorOnly == ListsAreDisjoint => (Spec => []OneOperator)
<1> SUFFICES ASSUME ListsAreDisjoint
             PROVE  Spec => []OneOperator
  OBVIOUS
<1>1. RunnerInv => OneOperator
  <2> SUFFICES ASSUME RunnerInv, NEW p \in Procs, NEW q \in Procs, NEW r \in Resources,
                      WorksOn(p, r), WorksOn(q, r)
               PROVE  OperatorOf[p] = OperatorOf[q]
    BY Zenon DEF OneOperator
  <2>1. ASSUME NEW k \in Procs, WorksOn(k, r)
        PROVE  Watched(k, r)
    <3>1. PICK w \in 1..NumWorkers : proc[k].busy[w] # Idle /\ proc[k].busy[w].name = r
      BY <2>1, Zenon DEF WorksOn
    <3>2. proc[k].busy[w] \in Own(k) \cup {Idle}
      BY Zenon DEF RunnerInv, ProcsOK, ProcOf
    <3>3. QED
      BY <3>1, <3>2, Zenon DEF Own
  <2>2. QED
    BY <2>1, Zenon DEF ListsAreDisjoint
<1>2. QED
  BY <1>1, RunnerInit, RunnerStep, PTL DEF Spec
==============================================================================
