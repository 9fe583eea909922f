-------------------------- MODULE RdsRequestProofs ---------------------------
(***************************************************************************)
(* What the requests of the autopilot write, for every value of the        *)
(* constants: RdsAutopilot's AloneActsAsSent, OnlyAlarmed, NoEditUndone and*)
(* ScalesToNext.  The write of a request depends on the variable that all  *)
(* share and on a copy read some steps ago; RequestInv says how these are  *)
(* related to what was sent and to what is stored now.  LookupFindsNext is *)
(* about the catalogue alone.                                              *)
(***************************************************************************)
EXTENDS RdsAutopilotProofs

Fresh(r) == req[r].pc = "new" => req[r] = NewRequest
Parsing(r) ==
    /\ req[r].todo # {} => req[r].pc = "parse"
    /\ req[r].pc \in {"parse", "confirm", "target"} => req[r].target = Absent
Lone(r) == r \in Running /\ req[r].alone => Running = {r}

\* A request that runs alone finds its own message in the variable.
AsSent(r) ==
    r \in Running /\ req[r].alone /\ req[r].whole =>
      /\ \A f \in FieldsOf(req[r].sent) \ req[r].todo : sub[f] = Value(req[r].sent, f)
      /\ req[r].target # Absent => req[r].target = req[r].sent.topic

\* Whatever name or metric is in the variable, or was taken from it, was sent, or
\* is what a torn copy of that reads as.
Known == Names \cup Texts
Sent(f, s) == \E q \in Requests : LooksLike(Value(req[q].sent, f), s)
Sourced ==
    /\ \A f \in {"topic", "text"} : sub[f] \in Known => Sent(f, sub[f])
    /\ \A r \in Running : req[r].target # Absent => Sent("topic", req[r].target)

\* A copy of the stored version differs from it by what the request did itself.
CopyOf(r) ==
    LET n == req[r].target
        o == req[r].copy
    IN
    req[r].pc \in Metrics /\ n # Absent /\ rds[n] # Absent =>
      /\ o.rv <= rds[n].rv
      /\ o.rv = rds[n].rv =>
           /\ o.zones = rds[n].zones
           /\ o.vol = rds[n].vol \/ (req[r].pc # "disk" /\ o.vol = rds[n].vol + 10)
           /\ req[r].pc # "mem" \/ (req[r].alone /\ sub["text"] # "cpu")
                => o.flavor = rds[n].flavor

RequestInv ==
    /\ \A n \in Names : rds[n] # Absent => rds[n].rv >= 1
    /\ Sourced
    /\ \A r \in Requests : Fresh(r) /\ Parsing(r) /\ Lone(r) /\ AsSent(r) /\ CopyOf(r)

------------------------------------------------------------------------------
\* What a step of a running request is: all of them leave the other requests, and
\* what the request was sent, alone.
Follows(r) ==
    /\ r \in Running
    /\ \A q \in Requests \ {r} : req'[q] = req[q]
    /\ req'[r].pc # "new"
    /\ req'[r].sent = req[r].sent /\ req'[r].whole = req[r].whole
    /\ req'[r].alone = req[r].alone

Parses(r) ==
    /\ req[r].pc = "parse"
    /\ \E f \in req[r].todo : \E s \in OrBlended(r, f, Value(req[r].sent, f)) :
         /\ sub' = [sub EXCEPT ![f] = s]
         /\ req'[r].todo = req[r].todo \ {f}
         /\ req'[r].pc = IF req[r].todo = {f} THEN "confirm" ELSE "parse"
    /\ req'[r].target = req[r].target
    /\ rds' = rds

GoesOn(r) ==
    /\ \/ req'[r].pc = "done" /\ req[r].pc # "parse"
       \/ req[r].pc = "confirm" /\ req'[r].pc = "target"
       \/ req[r].pc = "target" /\ req'[r].pc = "disk"
       \/ req[r].pc = "disk" /\ req'[r].pc = "cpu"
       \/ req[r].pc = "cpu" /\ req'[r].pc = "mem"
    /\ req'[r].todo = req[r].todo /\ req'[r].target = req[r].target
    /\ req'[r].copy = req[r].copy
    /\ UNCHANGED <<rds, sub>>

Finds(r) ==
    /\ req[r].pc = "target" /\ req'[r].pc = "disk"
    /\ req'[r].todo = req[r].todo
    /\ req'[r].target \in Reads(r, "topic") \cap Names
    /\ req'[r].copy \in {rds[req'[r].target], NoRds}
    /\ UNCHANGED <<rds, sub>>

Asks(r) ==
    LET n == req[r].target
        o == req[r].copy
        p == req'[r].copy
    IN
    /\ req[r].pc \in Reads(r, "text")
    /\ \/ req[r].pc = "disk" /\ req'[r].pc = "cpu" /\ p = [o EXCEPT !.vol = @ + 10]
       \/ /\ \/ req[r].pc = "cpu" /\ req'[r].pc = "mem"
             \/ req[r].pc = "mem" /\ req'[r].pc = "done"
          /\ \E code \in RdsFlavorLookup(o, req[r].pc) : p = [o EXCEPT !.flavor = code]
    /\ req'[r].todo = req[r].todo /\ req'[r].target = n
    /\ sub' = sub
    /\ \/ rds' = rds
       \/ CanPut(n, p) /\ rds' = [rds EXCEPT ![n] = [p EXCEPT !.rv = rds[n].rv + 1]]


LEMMA FollowsTo ==
  ASSUME TypeInv, NEW r \in Running, NEW me, req' = [req EXCEPT ![r] = me],
         me.pc # "new", me.sent = req[r].sent, me.whole = req[r].whole,
         me.alone = req[r].alone
  PROVE  Follows(r) /\ req'[r] = me
<1>1. r \in Requests
  BY DEF Running
<1>2. req'[r] = me /\ \A q \in Requests \ {r} : req'[q] = req[q]
  BY <1>1, Zenon DEF TypeInv, RequestsOK
<1>3. QED
  BY <1>2, Zenon DEF Follows

LEMMA GotoSteps ==
  ASSUME TypeInv, NEW r \in Running, NEW pc, pc # "new", Goto(r, pc)
  PROVE  /\ Follows(r)
         /\ req'[r].pc = pc /\ req'[r].todo = req[r].todo
         /\ req'[r].target = req[r].target /\ req'[r].copy = req[r].copy
<1> DEFINE me == [req[r] EXCEPT !.pc = pc]
<1>1. req[r] \in Request
  BY Zenon DEF Running, TypeInv, RequestsOK
<1>2. /\ me.pc = pc /\ me.sent = req[r].sent /\ me.whole = req[r].whole
      /\ me.alone = req[r].alone /\ me.todo = req[r].todo
      /\ me.target = req[r].target /\ me.copy = req[r].copy
  BY <1>1 DEF Request
<1>3. req' = [req EXCEPT ![r] = me]
  BY Zenon DEF Goto
<1> HIDE DEF me
<1>4. Follows(r) /\ req'[r] = me
  BY <1>2, <1>3, FollowsTo, Zenon
<1>5. QED
  BY <1>2, <1>4, Zenon

LEMMA AskSteps ==
  ASSUME TypeInv, NEW r \in Running, NEW o, NEW pc, pc # "new", Put(r, o, pc)
  PROVE  /\ Follows(r)
         /\ req'[r].pc = pc /\ req'[r].todo = req[r].todo
         /\ req'[r].target = req[r].target /\ req'[r].copy = o
<1> DEFINE me == Written(r, o, pc)
<1>1. req[r] \in Request
  BY Zenon DEF Running, TypeInv, RequestsOK
<1>2. /\ me.pc = pc /\ me.sent = req[r].sent /\ me.whole = req[r].whole
      /\ me.alone = req[r].alone /\ me.todo = req[r].todo
      /\ me.target = req[r].target /\ me.copy = o
  BY <1>1 DEF Request, Written
<1>3. r \in Requests
  BY DEF Running
<1>4. req' = [req EXCEPT ![r] = me]
  BY <1>3, PutSteps, Zenon
<1> HIDE DEF me
<1>5. Follows(r) /\ req'[r] = me
  BY <1>2, <1>4, FollowsTo, Zenon
<1>6. QED
  BY <1>2, <1>5, Zenon

LEMMA ParseSteps ==
  ASSUME TypeInv, NEW r \in Requests, ParseField(r)
  PROVE  Follows(r) /\ Parses(r)
<1>1. r \in Running /\ req[r].pc = "parse" /\ rds' = rds
  BY DEF ParseField, Running
<1>2. req[r] \in Request
  BY Zenon DEF TypeInv, RequestsOK
<1>3. PICK f \in req[r].todo :
         /\ \E s \in OrBlended(r, f, Value(req[r].sent, f)) : sub' = [sub EXCEPT ![f] = s]
         /\ req' = [req EXCEPT ![r].todo = @ \ {f},
                              ![r].pc = IF req[r].todo = {f} THEN "confirm" ELSE "parse"]
  BY Zenon DEF ParseField
<1> DEFINE next == IF req[r].todo = {f} THEN "confirm" ELSE "parse"
           me == [req[r] EXCEPT !.todo = @ \ {f}, !.pc = next]
<1>4. next # "new"
  OBVIOUS
<1>5. req' = [req EXCEPT ![r] = me]
  BY <1>3, Zenon
<1> HIDE DEF next
<1>6. /\ me.pc = next /\ me.sent = req[r].sent /\ me.whole = req[r].whole
      /\ me.alone = req[r].alone /\ me.todo = req[r].todo \ {f}
      /\ me.target = req[r].target
  BY <1>2 DEF Request
<1> HIDE DEF me
<1>7. Follows(r) /\ req'[r] = me
  BY <1>1, <1>4, <1>5, <1>6, FollowsTo, Zenon
<1>8. QED
  BY <1>1, <1>3, <1>6, <1>7, Zenon DEF Parses, next

LEMMA FindSteps ==
  ASSUME TypeInv, NEW r \in Requests, Target(r)
  PROVE  Follows(r) /\ (GoesOn(r) \/ Finds(r))
<1>1. r \in Running /\ req[r].pc = "target" /\ UNCHANGED <<rds, sub>>
  BY TargetSteps, Zenon DEF Target, Running
<1>2. req[r] \in Request
  BY Zenon DEF TypeInv, RequestsOK
<1>3. ASSUME NEW pc \in {"done", "disk"}, Goto(r, pc)
      PROVE  Follows(r) /\ GoesOn(r)
  <2>1. pc # "new"
    OBVIOUS
  <2>2. (req'[r].pc = "done" /\ req[r].pc # "parse") \/ req'[r].pc = "disk"
    BY <1>1, <1>3, <2>1, GotoSteps
  <2>3. QED
    BY <1>1, <1>3, <2>1, <2>2, GotoSteps, Zenon DEF GoesOn
<1>4. ASSUME NEW n \in Reads(r, "topic") \cap Names, NEW o \in {rds[n], NoRds} \ {Absent},
             req' = [req EXCEPT ![r] = Targeted(r, n, o)]
      PROVE  Follows(r) /\ Finds(r)
  <2> DEFINE me == Targeted(r, n, o)
  <2>1. /\ me.pc = "disk" /\ me.sent = req[r].sent /\ me.whole = req[r].whole
        /\ me.alone = req[r].alone /\ me.todo = req[r].todo
        /\ me.target = n /\ me.copy = o
    BY <1>2 DEF Request, Targeted
  <2> HIDE DEF me
  <2>2. me.pc # "new"
    BY <2>1
  <2>3. Follows(r) /\ req'[r] = me
    BY <1>1, <1>4, <2>1, <2>2, FollowsTo, Zenon DEF me
  <2>4. QED
    BY <1>1, <2>1, <2>3, Zenon DEF Finds
<1>5. QED
  BY <1>3, <1>4, TargetSteps, Zenon

LEMMA AskStep ==
  ASSUME TypeInv, NEW r \in Running, NEW o, NEW next, Put(r, o, next), sub' = sub,
         req[r].pc \in Reads(r, "text"),
         \/ req[r].pc = "disk" /\ next = "cpu" /\ o = [req[r].copy EXCEPT !.vol = @ + 10]
         \/ /\ \/ req[r].pc = "cpu" /\ next = "mem"
               \/ req[r].pc = "mem" /\ next = "done"
            /\ \E code \in RdsFlavorLookup(req[r].copy, req[r].pc) :
                 o = [req[r].copy EXCEPT !.flavor = code]
  PROVE  Follows(r) /\ Asks(r)
<1>1. next # "new" /\ r \in Requests
  BY DEF Running
<1>2. /\ Follows(r) /\ req'[r].pc = next /\ req'[r].todo = req[r].todo
      /\ req'[r].target = req[r].target /\ req'[r].copy = o
  BY <1>1, AskSteps, Zenon
<1>3. \/ rds' = rds
      \/ /\ CanPut(req[r].target, o)
         /\ rds' = [rds EXCEPT ![req[r].target] = [o EXCEPT !.rv = rds[req[r].target].rv + 1]]
  BY <1>1, PutSteps, Zenon
<1>4. QED
  BY <1>2, <1>3, Zenon DEF Asks

LEMMA DiskSteps ==
  ASSUME TypeInv, NEW r \in Requests, Disk(r)
  PROVE  Follows(r) /\ (GoesOn(r) \/ Asks(r))
<1>1. r \in Running /\ req[r].pc = "disk" /\ sub' = sub
  BY DEF Disk, Running
<1>2. CASE "disk" \in Reads(r, "text") /\ Put(r, [req[r].copy EXCEPT !.vol = @ + 10], "cpu")
  BY <1>1, <1>2, AskStep, Zenon
<1>3. CASE Goto(r, "cpu") /\ UNCHANGED <<rds, budget>>
  BY <1>1, <1>3, GotoSteps, Zenon DEF GoesOn
<1>4. QED
  BY <1>2, <1>3, Zenon DEF Disk

LEMMA FlavoredSteps ==
  ASSUME TypeInv, NEW r \in Requests, Cpu(r) \/ Mem(r), ~Exit
  PROVE  Follows(r) /\ (GoesOn(r) \/ Asks(r))
<1>1. PICK raise \in {"cpu", "mem"}, next \in {"mem", "done"} :
        (raise = "cpu" <=> next = "mem") /\ Flavored(r, raise, next)
  BY DEF Cpu, Mem
<1>2. r \in Running /\ req[r].pc = raise
  BY <1>1 DEF Flavored, Running
<1>3. next # "new" /\ req[r].pc # "parse"
  BY <1>2
<1>4. \/ req[r].pc = "cpu" /\ next = "mem"
      \/ req[r].pc = "mem" /\ next = "done"
  BY <1>1, <1>2
<1>5. ASSUME raise \in Reads(r, "text"), sub' = sub,
             NEW code \in RdsFlavorLookup(req[r].copy, raise),
             Put(r, [req[r].copy EXCEPT !.flavor = code], next)
      PROVE  Follows(r) /\ Asks(r)
  BY <1>2, <1>4, <1>5, AskStep, Zenon
<1>6. ASSUME Goto(r, next), UNCHANGED <<rds, sub>>
      PROVE  Follows(r) /\ GoesOn(r)
  BY <1>2, <1>3, <1>4, <1>6, GotoSteps, Zenon DEF GoesOn
<1>7. QED
  BY <1>1, <1>5, <1>6, Zenon DEF Flavored

LEMMA ReceiveSteps ==
  ASSUME TypeInv, NEW r \in Requests, Receive(r)
  PROVE  \/ Follows(r) /\ (Parses(r) \/ GoesOn(r) \/ Finds(r) \/ Asks(r))
         \/ Exit
<1>1. CASE Confirm(r)
  <2>1. r \in Running /\ req[r].pc = "confirm" /\ UNCHANGED <<rds, sub>>
    BY <1>1 DEF Confirm, Running
  <2>2. PICK pc \in {"done", "target"} : Goto(r, pc)
    BY <1>1, Zenon DEF Confirm
  <2>3. pc # "new" /\ req[r].pc # "parse"
    BY <2>1
  <2>4. QED
    BY <2>1, <2>2, <2>3, GotoSteps, Zenon DEF GoesOn
<1>2. QED
  BY <1>1, ParseSteps, FindSteps, DiskSteps, FlavoredSteps, Zenon DEF Receive

------------------------------------------------------------------------------
\* What the other steps are: a request arrives, or none of them moves.
Arrives(r) ==
    /\ r \in Requests /\ req[r].pc = "new"
    /\ \A q \in Requests \ {r} :
         /\ req'[q].pc = req[q].pc /\ req'[q].sent = req[q].sent
         /\ req'[q].whole = req[q].whole /\ req'[q].todo = req[q].todo
         /\ req'[q].target = req[q].target /\ req'[q].copy = req[q].copy
         /\ q \in Running => ~req'[q].alone
         /\ q \notin Running => req'[q] = req[q]
    /\ req'[r].pc = "confirm" => req'[r].todo = {} /\ ~req'[r].whole
    /\ req'[r].pc \in {"parse", "confirm"}
    /\ req'[r].todo \in {{}, FieldsOf(req'[r].sent)}
    /\ req'[r].whole => req'[r].todo = FieldsOf(req'[r].sent)
    /\ req'[r].target = Absent
    /\ req'[r].alone = (Running = {})
    /\ UNCHANGED <<rds, sub>>

Edited(n) ==
    \/ rds'[n] = rds[n] \/ rds'[n] = Absent
    \/ rds[n] # Absent /\ rds'[n].rv = rds[n].rv + 1

LEMMA ArriveSteps ==
  ASSUME TypeInv, NEW r \in Requests, NEW m \in Message, NEW whole \in BOOLEAN,
         Arrive(r, m, whole), UNCHANGED <<rds, sub>>
  PROVE  Arrives(r)
<1> DEFINE me == [NewRequest EXCEPT !.pc = IF whole THEN "parse" ELSE "confirm",
                   !.sent = m, !.todo = IF whole THEN FieldsOf(m) ELSE {},
                   !.whole = whole, !.alone = Running = {}]
           now(q) == [req[q] EXCEPT !.alone = @ /\ q \notin Running]
<1>1. req[r].pc = "new" /\ req' = [q \in Requests |-> IF q = r THEN me ELSE now(q)]
  BY Zenon DEF Arrive
<1>2. /\ me.pc = IF whole THEN "parse" ELSE "confirm"
      /\ me.todo = IF whole THEN FieldsOf(m) ELSE {}
      /\ me.sent = m /\ me.whole = whole /\ me.alone = (Running = {}) /\ me.target = Absent
  BY Zenon DEF NewRequest
<1>3. ASSUME NEW q \in Requests
      PROVE  /\ now(q).pc = req[q].pc /\ now(q).sent = req[q].sent
             /\ now(q).whole = req[q].whole /\ now(q).todo = req[q].todo
             /\ now(q).target = req[q].target /\ now(q).copy = req[q].copy
             /\ q \in Running => ~now(q).alone
             /\ q \notin Running => now(q) = req[q]
  <2>1. req[q] \in Request
    BY Zenon DEF TypeInv, RequestsOK
  <2>2. /\ now(q).pc = req[q].pc /\ now(q).sent = req[q].sent
        /\ now(q).whole = req[q].whole /\ now(q).todo = req[q].todo
        /\ now(q).target = req[q].target /\ now(q).copy = req[q].copy
    BY <2>1 DEF Request
  <2>3. now(q).alone <=> (req[q].alone /\ q \notin Running)
    BY <2>1, Zenon DEF Request
  <2>4. q \notin Running => now(q) = req[q]
    BY <2>1, Zenon DEF Request
  <2>5. QED
    BY <2>2, <2>3, <2>4, Zenon
<1> HIDE DEF me, now
<1>4. req'[r] = me /\ \A q \in Requests \ {r} : req'[q] = now(q)
  BY <1>1, Zenon
<1>5. /\ me.pc = "confirm" => me.todo = {} /\ ~me.whole
      /\ me.pc \in {"parse", "confirm"} /\ me.todo \in {{}, FieldsOf(me.sent)}
      /\ me.whole => me.todo = FieldsOf(me.sent)
  BY <1>2
<1>6. QED
  BY <1>1, <1>2, <1>3, <1>4, <1>5, Zenon DEF Arrives

LEMMA OtherSteps ==
  ASSUME TypeInv, [Next]_vars, \A r \in Requests : ~Receive(r)
  PROVE  \/ \E r \in Requests : Arrives(r)
         \/ UNCHANGED <<sub, req>> /\ \A n \in Names : Edited(n)
         \/ Exit
<1>1. CASE UNCHANGED <<rds, sub, req>>
  BY <1>1, Zenon DEF Edited
<1>2. ASSUME NEW c \in Callers,
             \/ CallAlarms(c) /\ UNCHANGED <<sub, req>>
             \/ AlarmsFail(c)
             \/ NotSubscribed(c)
      PROVE  UNCHANGED <<rds, sub, req>>
  BY <1>2, CallersQuiet
<1>3. ASSUME NEW c \in Callers, NEW r \in Requests, Subscribe(c, r)
      PROVE  Arrives(r)
  <2>1. caller[c].pc # "idle" /\ caller[c].name \in Names
    BY <1>3 DEF Subscribe, TypeInv, AlarmsOK
  <2>2. [topic |-> caller[c].name, text |-> "invitation"] \in Message
    BY <2>1 DEF Message, Texts
  <2>3. QED
    BY <1>3, <2>2, ArriveSteps, Zenon DEF Subscribe
<1>4. ASSUME NEW r \in Requests, NEW n \in Names, NEW m \in Metrics, Fire(r, n, m) \/ Cut(r, n, m)
      PROVE  Arrives(r)
  <2>1. PICK whole \in BOOLEAN : Arrive(r, [topic |-> n, text |-> m], whole)
    BY <1>4, Zenon DEF Fire, Cut
  <2>2. [topic |-> n, text |-> m] \in Message
    BY Zenon DEF Message, Texts
  <2>3. QED
    BY <1>4, <2>1, <2>2, ArriveSteps, Zenon DEF Fire, Cut
<1>5. ASSUME NEW k \in Names, UserEdit(k) \/ UserDelete(k)
      PROVE  UNCHANGED <<sub, req>> /\ \A n \in Names : Edited(n)
  <2>1. UNCHANGED <<sub, req>>
    BY <1>5, Zenon DEF UserEdit, UserDelete
  <2>2. CASE UserDelete(k)
    BY <2>1, <2>2, Zenon DEF UserDelete, Edited, TypeInv, RequestsOK
  <2>3. CASE UserEdit(k)
    <3>1. PICK v, code : rds' = [rds EXCEPT ![k].vol = v, ![k].flavor = code, ![k].rv = @ + 1]
      BY <2>3, Zenon DEF UserEdit
    <3> DEFINE o == [rds[k] EXCEPT !.vol = v, !.flavor = code, !.rv = @ + 1]
    <3>2. rds[k] # Absent /\ rds[k] \in Rds
      BY <2>3, Zenon DEF UserEdit, TypeInv, RequestsOK
    <3>3. o.rv = rds[k].rv + 1
      BY <3>2 DEF Rds
    <3>4. rds' = [rds EXCEPT ![k] = o]
      BY <3>1, Zenon
    <3> HIDE DEF o
    <3>5. QED
      BY <2>1, <3>2, <3>3, <3>4, Zenon DEF Edited, TypeInv, RequestsOK
  <2>4. QED
    BY <1>5, <2>2, <2>3
<1>6. CASE UNCHANGED vars
  BY <1>1, <1>6, Zenon DEF vars
<1>7. QED
  BY <1>1, <1>2, <1>3, <1>4, <1>5, <1>6, Zenon DEF Next, ListFails

------------------------------------------------------------------------------
\* Each part of the invariant, for a step of a request.
Steps(r) == Follows(r) /\ (Parses(r) \/ GoesOn(r) \/ Finds(r) \/ Asks(r))

LEMMA RunningStep ==
  ASSUME NEW r \in Requests, Follows(r)
  PROVE  Running' \subseteq Running
BY Zenon DEF Follows, Running

\* A request that runs alone reads what is there.
LEMMA AloneReads ==
  ASSUME NEW r \in Requests, Running = {r}
  PROVE  (\A f, s : OrBlended(r, f, s) = {s}) /\ \A f : Reads(r, f) = {sub[f]}
<1>1. ~Torn(r)
  BY DEF Torn
<1>2. QED
  BY <1>1 DEF OrBlended, Reads

LEMMA PlainStep ==
  ASSUME TypeInv, RequestInv, NEW r \in Requests, Steps(r)
  PROVE  \A q \in Requests : Fresh(q)' /\ Parsing(q)' /\ Lone(q)'
<1>1. Follows(r) /\ Parsing(r)
  BY Zenon DEF Steps, RequestInv
<1>2. ASSUME NEW q \in Requests
      PROVE  Lone(q)'
  <2>1. q \in Running' /\ req'[q].alone => q \in Running /\ req[q].alone
    BY <1>1, RunningStep, Zenon DEF Follows
  <2>2. q \in Running /\ req[q].alone => Running = {q}
    BY Zenon DEF RequestInv, Lone
  <2>3. q \in Running' /\ req'[q].alone => Running' = {q}
    BY <1>1, <2>1, <2>2, RunningStep, Zenon
  <2>4. QED
    BY <2>3, Zenon DEF Lone
<1>3. ASSUME NEW q \in Requests, q # r
      PROVE  Fresh(q)' /\ Parsing(q)'
  <2>1. req'[q] = req[q] /\ Fresh(q) /\ Parsing(q)
    BY <1>1, <1>3, Zenon DEF Follows, RequestInv
  <2>2. QED
    BY <2>1, Zenon DEF Fresh, Parsing
<1>4. Fresh(r)'
  BY <1>1, Zenon DEF Follows, Fresh
<1>5. Parsing(r)'
  <2>1. CASE Parses(r)
    <3>1. PICK f \in req[r].todo :
            /\ req'[r].todo = req[r].todo \ {f}
            /\ req'[r].pc = IF req[r].todo = {f} THEN "confirm" ELSE "parse"
      BY <2>1, Zenon DEF Parses
    <3>2. req[r].target = Absent /\ req'[r].target = req[r].target
      BY <1>1, <2>1, Zenon DEF Parses, Parsing
    <3>3. req'[r].todo # {} => req'[r].pc = "parse"
      BY <3>1
    <3>4. QED
      BY <3>2, <3>3, Zenon DEF Parsing
  <2>2. ASSUME req'[r].todo = req[r].todo, req[r].pc # "parse",
               req'[r].pc \notin {"parse", "confirm", "target"}
                 \/ (req'[r].target = req[r].target /\ req[r].pc = "confirm")
        PROVE  Parsing(r)'
    BY <1>1, <2>2 DEF Parsing
  <2>3. CASE GoesOn(r)
    BY <2>2, <2>3 DEF GoesOn
  <2>4. CASE Finds(r)
    BY <2>2, <2>4 DEF Finds
  <2>5. CASE Asks(r)
    BY <2>2, <2>5 DEF Asks
  <2>6. QED
    BY <2>1, <2>3, <2>4, <2>5, Zenon DEF Steps
<1>6. QED
  BY <1>2, <1>3, <1>4, <1>5

LEMMA AsSentStep ==
  ASSUME TypeInv, RequestInv, NEW r \in Requests, Steps(r), NEW q \in Requests
  PROVE  AsSent(q)'
<1> SUFFICES ASSUME q \in Running', req'[q].alone, req'[q].whole
             PROVE  /\ \A f \in FieldsOf(req'[q].sent) \ req'[q].todo :
                         sub'[f] = Value(req'[q].sent, f)
                    /\ req'[q].target # Absent => req'[q].target = req'[q].sent.topic
  BY Zenon DEF AsSent
<1>1. Follows(r) /\ Parsing(r)
  BY Zenon DEF Steps, RequestInv
<1>2. /\ q \in Running /\ req[q].alone /\ req[q].whole
      /\ req'[q].sent = req[q].sent
  BY <1>1, RunningStep, Zenon DEF Follows
<1>3. Running = {q} /\ q = r
  BY <1>1, <1>2, Zenon DEF RequestInv, Lone, Follows
<1>4. /\ \A f \in FieldsOf(req[r].sent) \ req[r].todo : sub[f] = Value(req[r].sent, f)
      /\ req[r].target # Absent => req[r].target = req[r].sent.topic
  BY <1>2, <1>3, Zenon DEF RequestInv, AsSent
<1>5. (\A f, s : OrBlended(r, f, s) = {s}) /\ \A f : Reads(r, f) = {sub[f]}
  BY <1>3, AloneReads
<1>6. ASSUME UNCHANGED sub, req'[r].todo = req[r].todo, req'[r].target = req[r].target
      PROVE  /\ \A f \in FieldsOf(req'[r].sent) \ req'[r].todo :
                  sub'[f] = Value(req'[r].sent, f)
             /\ req'[r].target # Absent => req'[r].target = req'[r].sent.topic
  BY <1>2, <1>3, <1>4, <1>6, Zenon
<1>7. CASE Parses(r)
  <2>1. PICK f, s : /\ f \in req[r].todo /\ s \in OrBlended(r, f, Value(req[r].sent, f))
                    /\ sub' = [sub EXCEPT ![f] = s]
                    /\ req'[r].todo = req[r].todo \ {f}
    BY <1>7, Zenon DEF Parses
  <2>2. sub' = [sub EXCEPT ![f] = Value(req[r].sent, f)]
    <3>1. s = Value(req[r].sent, f)
      BY <1>5, <2>1
    <3>2. QED
      BY <2>1, <3>1
  <2>3. f \in Fields /\ FieldsOf(req[r].sent) \subseteq Fields
    <3>1. req[r] \in Request
      BY Zenon DEF TypeInv, RequestsOK
    <3>2. req[r].todo \subseteq Fields
      BY <3>1, Zenon DEF Request
    <3>3. QED
      BY <2>1, <3>2 DEF FieldsOf, Fields
  <2>4. ASSUME NEW g \in FieldsOf(req[r].sent) \ req'[r].todo
        PROVE  sub'[g] = Value(req[r].sent, g)
    <3>1. g = f \/ g \in FieldsOf(req[r].sent) \ req[r].todo
      BY <2>1, <2>4
    <3>2. QED
      BY <1>4, <2>2, <2>3, <3>1, Zenon DEF TypeInv, RequestsOK
  <2>5. req'[r].target = Absent
    BY <1>1, <1>7, Zenon DEF Parses, Parsing
  <2>6. QED
    BY <1>2, <1>3, <2>4, <2>5, Zenon
<1>8. CASE GoesOn(r)
  BY <1>3, <1>6, <1>8, Zenon DEF GoesOn
<1>9. CASE Finds(r)
  <2>1. /\ req[r].pc # "parse" /\ UNCHANGED sub /\ req'[r].todo = req[r].todo
        /\ req'[r].target = sub["topic"]
    BY <1>5, <1>9 DEF Finds
  <2>2. "topic" \in FieldsOf(req[r].sent) \ req[r].todo
    <3>1. req[r].todo = {}
      BY <1>1, <2>1, Zenon DEF Parsing
    <3>2. QED
      BY <3>1 DEF FieldsOf, Fields
  <2>3. sub["topic"] = req[r].sent.topic
    BY <1>4, <2>2 DEF Value
  <2>4. QED
    BY <1>2, <1>3, <1>4, <2>1, <2>3, Zenon
<1>10. CASE Asks(r)
  BY <1>3, <1>6, <1>10, Zenon DEF Asks
<1>11. QED
  BY <1>3, <1>7, <1>8, <1>9, <1>10, Zenon DEF Steps

\* What a torn string reads as is a name or a metric only if it was one.
LEMMA LooksKnown ==
  ASSUME NEW s, NEW t \in Known, LooksLike(s, t)
  PROVE  s \in Known
BY BlendsAreAlike, SMT DEF LooksLike, Known

LEMMA LooksTrans ==
  ASSUME NEW s, NEW t, NEW u, LooksLike(s, t), <<t, u>> \in Blends
  PROVE  LooksLike(s, u)
<1>1. CASE s = t
  BY <1>1, Zenon DEF LooksLike
<1>2. CASE <<s, t>> \in Blends
  <2>1. <<s, t>>[1] = s /\ <<s, t>>[2] = t /\ <<t, u>>[1] = t /\ <<t, u>>[2] = u
    OBVIOUS
  <2>2. <<s, u>> \in Blends
    BY <1>2, <2>1, BlendsOfBlends, Zenon
  <2>3. QED
    BY <2>2, Zenon DEF LooksLike
<1>3. QED
  BY <1>1, <1>2, Zenon DEF LooksLike

LEMMA BlendsLook ==
  ASSUME NEW r, NEW f, NEW s, NEW t \in OrBlended(r, f, s), t \in Known
  PROVE  t = s \/ <<s, t>> \in Blends
<1>1. t # Garbled
  BY GarbledIsNoName DEF Known
<1>2. QED
  BY <1>1 DEF OrBlended, Blended

\* What a request reads of the variable was sent, or is what that reads as.
LEMMA ReadsSent ==
  ASSUME RequestInv, NEW r, NEW f \in {"topic", "text"}, NEW t \in Reads(r, f), t \in Known
  PROVE  Sent(f, t)
<1>1. t = sub[f] \/ <<sub[f], t>> \in Blends
  BY BlendsLook, Zenon DEF Reads
<1>2. LooksLike(sub[f], t)
  BY <1>1, Zenon DEF LooksLike
<1>3. sub[f] \in Known
  BY <1>2, LooksKnown
<1>4. PICK q \in Requests : LooksLike(Value(req[q].sent, f), sub[f])
  BY <1>3, Zenon DEF RequestInv, Sourced, Sent
<1>5. LooksLike(Value(req[q].sent, f), t)
  BY <1>1, <1>4, LooksTrans
<1>6. QED
  BY <1>5, Zenon DEF Sent

LEMMA SourcedStep ==
  ASSUME TypeInv, RequestInv, NEW r \in Requests, Steps(r)
  PROVE  Sourced'
<1>1. Follows(r) /\ Sourced
  BY Zenon DEF Steps, RequestInv
<1>2. \A q \in Requests : req'[q].sent = req[q].sent
  BY <1>1, Zenon DEF Follows
<1>3. ASSUME NEW f, NEW s, Sent(f, s)
      PROVE  \E q \in Requests : LooksLike(Value(req'[q].sent, f), s)
  BY <1>2, <1>3, Zenon DEF Sent
<1>4. ASSUME NEW p \in Running', req'[p].target # Absent,
             p # r \/ req'[p].target = req[p].target
      PROVE  \E q \in Requests : LooksLike(Value(req'[q].sent, "topic"), req'[p].target)
  <2>1. p \in Running /\ req'[p].target = req[p].target
    BY <1>1, <1>4, RunningStep, Zenon DEF Follows, Running
  <2>2. QED
    BY <1>1, <1>3, <1>4, <2>1, Zenon DEF Sourced
<1>5. \A f \in {"topic", "text"} : sub[f] \in Known =>
        \E q \in Requests : LooksLike(Value(req'[q].sent, f), sub[f])
  BY <1>1, <1>3, Zenon DEF Sourced
<1>6. CASE Parses(r)
  <2>1. PICK f, s : /\ f \in req[r].todo /\ s \in OrBlended(r, f, Value(req[r].sent, f))
                    /\ sub' = [sub EXCEPT ![f] = s]
    BY <1>6, Zenon DEF Parses
  <2>2. ASSUME NEW g \in {"topic", "text"}, sub'[g] \in Known
        PROVE  \E q \in Requests : LooksLike(Value(req'[q].sent, g), sub'[g])
    <3>1. g \in Fields
      BY DEF Fields
    <3>2. sub'[g] = IF g = f THEN s ELSE sub[g]
      BY <2>1, <3>1, Zenon DEF TypeInv, RequestsOK
    <3>3. CASE g = f
      <4>1. sub'[g] = s /\ s \in Known
        BY <2>2, <3>2, <3>3
      <4>2. s = Value(req[r].sent, f) \/ <<Value(req[r].sent, f), s>> \in Blends
        BY <2>1, <4>1, BlendsLook
      <4>3. QED
        BY <1>2, <3>3, <4>1, <4>2, Zenon DEF LooksLike
    <3>4. CASE g # f
      BY <1>5, <2>2, <3>2, <3>4, Zenon
    <3>5. QED
      BY <3>3, <3>4
  <2>3. req'[r].target = req[r].target
    BY <1>6, Zenon DEF Parses
  <2>4. QED
    BY <1>4, <2>2, <2>3, Zenon DEF Sourced, Sent
<1>7. CASE Finds(r)
  <2>1. sub' = sub /\ req'[r].target \in Names /\ req'[r].target \in Reads(r, "topic")
    BY <1>7, Zenon DEF Finds
  <2>2. Sent("topic", req'[r].target)
    BY <2>1, ReadsSent, Zenon DEF Known
  <2>3. \E q \in Requests : LooksLike(Value(req'[q].sent, "topic"), req'[r].target)
    BY <1>3, <2>2
  <2>4. QED
    BY <1>4, <1>5, <2>1, <2>3, Zenon DEF Sourced, Sent
<1>8. CASE GoesOn(r) \/ Asks(r)
  <2>1. sub' = sub /\ req'[r].target = req[r].target
    BY <1>8, Zenon DEF GoesOn, Asks
  <2>2. QED
    BY <1>4, <1>5, <2>1, Zenon DEF Sourced, Sent
<1>9. QED
  BY <1>6, <1>7, <1>8, Zenon DEF Steps

\* A step of a request edits at most the resource that it acts on.
LEMMA EditedStep ==
  ASSUME TypeInv, TypeInv', NEW r \in Requests, Steps(r), NEW n \in Names
  PROVE  Edited(n)
<1>1. CASE rds' = rds
  BY <1>1, Zenon DEF Edited
<1>2. CASE CanPut(req[r].target, req'[r].copy)
           /\ rds' = [rds EXCEPT ![req[r].target] =
                        [req'[r].copy EXCEPT !.rv = rds[req[r].target].rv + 1]]
  <2> DEFINE k == req[r].target
             o == [req'[r].copy EXCEPT !.rv = rds[k].rv + 1]
  <2>1. CASE n = k
    <3>1. rds'[n] = o /\ rds[n] # Absent
      BY <1>2, <2>1, Zenon DEF CanPut, TypeInv, RequestsOK
    <3>2. req[r].target # Absent => o.rv = rds[k].rv + 1
      <4>1. req'[r].copy \in Rds
        BY Zenon DEF TypeInv, RequestsOK, Request
      <4>2. QED
        BY <4>1 DEF Rds
    <3> HIDE DEF o
    <3>3. QED
      BY <1>2, <2>1, <3>1, <3>2, Zenon DEF Edited, CanPut
  <2>2. CASE n # k
    BY <1>2, <2>2, Zenon DEF Edited, TypeInv, RequestsOK
  <2>3. QED
    BY <2>1, <2>2
<1>3. QED
  BY <1>1, <1>2, Zenon DEF Steps, Parses, GoesOn, Finds, Asks

\* A copy that a request holds stays what it is while its resource is left alone,
\* and is out of date after that.
LEMMA CopyKept ==
  ASSUME TypeInv, RequestInv, NEW q \in Requests,
         req[q].pc \in Metrics, req'[q].target = req[q].target,
         req'[q].copy = req[q].copy, req'[q].pc = req[q].pc,
         req'[q].alone /\ sub'["text"] # "cpu" => req[q].alone /\ sub["text"] # "cpu",
         \A n \in Names : Edited(n)
  PROVE  CopyOf(q)'
<1> DEFINE n == req[q].target
           o == req[q].copy
<1> SUFFICES ASSUME n # Absent, rds'[n] # Absent
             PROVE  /\ o.rv <= rds'[n].rv
                    /\ o.rv = rds'[n].rv =>
                         /\ o.zones = rds'[n].zones
                         /\ \/ o.vol = rds'[n].vol
                            \/ req[q].pc # "disk" /\ o.vol = rds'[n].vol + 10
                         /\ req[q].pc # "mem" \/ (req'[q].alone /\ sub'["text"] # "cpu")
                              => o.flavor = rds'[n].flavor
  BY Zenon DEF CopyOf
<1>1. req[q] \in Request /\ n \in Names
  BY Zenon DEF TypeInv, RequestsOK, Request
<1>2. o.rv \in Nat
  BY <1>1 DEF Request, Rds
<1>3. CASE rds'[n] = rds[n]
  BY <1>1, <1>3, Zenon DEF RequestInv, CopyOf
<1>4. CASE rds[n] # Absent /\ rds'[n].rv = rds[n].rv + 1
  <2>1. rds[n].rv \in Nat
    BY <1>1, <1>4 DEF TypeInv, RequestsOK, Rds
  <2>2. o.rv <= rds[n].rv
    BY <1>1, <1>4, Zenon DEF RequestInv, CopyOf
  <2>3. o.rv <= rds'[n].rv /\ o.rv # rds'[n].rv
    BY <1>2, <1>4, <2>1, <2>2
  <2>4. QED
    BY <2>3, Zenon
<1>5. QED
  BY <1>1, <1>3, <1>4, Zenon DEF Edited

LEMMA CopyStep ==
  ASSUME TypeInv, TypeInv', RequestInv, NEW r \in Requests, Steps(r), NEW q \in Requests
  PROVE  CopyOf(q)'
<1>1. Follows(r) /\ \A n \in Names : Edited(n)
  BY EditedStep, Zenon DEF Steps
<1> SUFFICES ASSUME req'[q].pc \in Metrics, req'[q].target # Absent,
                    rds'[req'[q].target] # Absent
             PROVE  CopyOf(q)'
  BY Zenon DEF CopyOf
<1>2. CASE q # r
  <2>1. req'[q] = req[q]
    BY <1>1, <1>2, Zenon DEF Follows
  <2>2. ~req[q].alone
    <3>1. q \in Running /\ r \in Running
      BY <1>1, <2>1 DEF Running, Metrics, Follows
    <3>2. Lone(q)
      BY DEF RequestInv
    <3>3. QED
      BY <1>2, <3>1, <3>2, Zenon DEF Lone
  <2>3. QED
    BY <1>1, <2>1, <2>2, CopyKept, Zenon
<1>3. ASSUME q = r
      PROVE  CopyOf(r)'
  <2> DEFINE n == req'[r].target
             o == req[r].copy
             p == req'[r].copy
  <2>1. /\ req[r] \in Request /\ n \in Names /\ o \in Rds /\ p \in Rds
        /\ rds[n] \in Rds \cup {Absent}
    BY <1>3, Zenon DEF TypeInv, RequestsOK, Request
  <2>2. o.rv \in Nat /\ p.rv \in Nat
    BY <2>1 DEF Rds
  <2>3. req'[r].pc \notin {"parse", "confirm", "target", "done"}
    BY <1>3 DEF Metrics
  <2>4. CASE Parses(r)
    BY <2>3, <2>4 DEF Parses
  <2>5. CASE GoesOn(r)
    <3>1. /\ \/ req[r].pc = "target"
             \/ req[r].pc = "disk" /\ req'[r].pc = "cpu"
             \/ req[r].pc = "cpu" /\ req'[r].pc = "mem"
          /\ n = req[r].target /\ p = o /\ UNCHANGED <<rds, sub>>
      BY <2>3, <2>5 DEF GoesOn
    <3>2. req[r].pc # "target"
      BY <1>3, <3>1, Zenon DEF RequestInv, Parsing
    <3>3. req[r].pc \in Metrics /\ req[r].pc # "mem" /\ req'[r].pc # "disk"
      BY <3>1, <3>2 DEF Metrics
    <3>4. /\ o.rv <= rds[n].rv
          /\ o.rv = rds[n].rv =>
               /\ o.zones = rds[n].zones
               /\ o.vol = rds[n].vol \/ o.vol = rds[n].vol + 10
               /\ o.flavor = rds[n].flavor
      BY <1>3, <3>1, <3>3, Zenon DEF RequestInv, CopyOf
    <3>5. QED
      BY <3>1, <3>3, <3>4, Zenon DEF CopyOf
  <2>6. CASE Finds(r)
    <3>1. p \in {rds[n], NoRds} /\ rds' = rds /\ req'[r].pc = "disk"
      BY <2>6, Zenon DEF Finds
    <3>2. rds[n] # Absent /\ rds[n] \in Rds /\ rds[n].rv >= 1 /\ rds[n].rv \in Nat
      <4>1. rds[n] # Absent /\ rds[n] \in Rds
        BY <1>3, <2>1, <3>1, Zenon
      <4>2. QED
        BY <2>1, <4>1 DEF RequestInv, Rds
    <3>3. NoRds.rv = 0
      BY DEF NoRds
    <3>4. p = rds[n] \/ (p.rv <= rds[n].rv /\ p.rv # rds[n].rv)
      BY <3>1, <3>2, <3>3
    <3>5. p.rv <= rds[n].rv
      BY <3>2, <3>4
    <3>6. QED
      BY <3>1, <3>4, <3>5, Zenon DEF CopyOf
  <2>7. CASE Asks(r)
    <3>1. /\ req[r].pc \in Reads(r, "text") /\ n = req[r].target /\ sub' = sub
          /\ \/ req[r].pc = "disk" /\ req'[r].pc = "cpu" /\ p = [o EXCEPT !.vol = @ + 10]
             \/ /\ req[r].pc = "cpu" /\ req'[r].pc = "mem"
                /\ \E code : p = [o EXCEPT !.flavor = code]
          /\ \/ rds' = rds
             \/ CanPut(n, p) /\ rds' = [rds EXCEPT ![n] = [p EXCEPT !.rv = rds[n].rv + 1]]
      <4>1. req'[r].pc # "done"
        BY <2>3
      <4>2. QED
        BY <2>7, <4>1, Zenon DEF Asks
    <3>2. /\ p.rv = o.rv /\ p.zones = o.zones
          /\ \/ req[r].pc = "disk" /\ p.vol = o.vol + 10 /\ p.flavor = o.flavor
             \/ req[r].pc = "cpu" /\ p.vol = o.vol
      BY <2>1, <3>1 DEF Rds
    <3>3. CASE rds' = rds
      <4>1. req[r].pc \in Metrics /\ req[r].pc # "mem" /\ req'[r].pc # "disk"
        BY <3>1 DEF Metrics
      <4>2. /\ o.rv <= rds[n].rv
            /\ o.rv = rds[n].rv =>
                 /\ o.zones = rds[n].zones
                 /\ o.vol = rds[n].vol \/ (req[r].pc # "disk" /\ o.vol = rds[n].vol + 10)
                 /\ o.flavor = rds[n].flavor
        BY <1>3, <3>1, <3>3, <4>1, Zenon DEF RequestInv, CopyOf
      <4>3. req[r].pc = "cpu" => ~(req[r].alone /\ sub["text"] # "cpu")
        <5>1. ASSUME req[r].alone
              PROVE  Reads(r, "text") = {sub["text"]}
          <6>1. Running = {r}
            BY <1>1, <5>1, Zenon DEF RequestInv, Lone, Follows
          <6>2. QED
            BY <6>1, AloneReads
        <5>2. QED
          BY <3>1, <5>1
      <4>4. req'[r].alone = req[r].alone
        BY <1>1, Zenon DEF Follows
      <4>5. req'[r].pc # "mem" <=> req[r].pc = "disk"
        BY <3>1
      <4>6. p.rv <= rds[n].rv
        BY <3>2, <4>2
      <4>7. ASSUME p.rv = rds[n].rv
            PROVE  /\ p.zones = rds[n].zones
                   /\ p.vol = rds[n].vol \/ (req'[r].pc # "disk" /\ p.vol = rds[n].vol + 10)
                   /\ req[r].pc = "disk" => p.flavor = rds[n].flavor
        <5>1. req[r].pc = "disk" => p.vol = rds[n].vol + 10
          BY <3>2, <4>2, <4>7
        <5>2. req[r].pc = "cpu" => p.vol = rds[n].vol \/ p.vol = rds[n].vol + 10
          BY <3>2, <4>2, <4>7
        <5>3. QED
          BY <3>2, <4>1, <4>2, <4>7, <5>1, <5>2, Zenon
      <4>8. req[r].pc = "disk" \/ req[r].pc = "cpu"
        BY <3>1, Zenon
      <4>9. QED
        BY <3>1, <3>3, <4>3, <4>4, <4>5, <4>6, <4>7, <4>8, Zenon DEF CopyOf
    <3>4. CASE CanPut(n, p) /\ rds' = [rds EXCEPT ![n] = [p EXCEPT !.rv = rds[n].rv + 1]]
      <4>1. rds[n].rv = p.rv /\ rds'[n] = [p EXCEPT !.rv = rds[n].rv + 1]
        BY <2>1, <3>4, Zenon DEF CanPut, TypeInv, RequestsOK
      <4>2. rds'[n].rv = p.rv + 1
        BY <2>1, <4>1 DEF Rds
      <4>3. p.rv <= rds'[n].rv /\ p.rv # rds'[n].rv
        BY <2>2, <4>2
      <4>4. QED
        BY <4>3, Zenon DEF CopyOf
    <3>5. QED
      BY <3>1, <3>3, <3>4
  <2>8. QED
    BY <2>4, <2>5, <2>6, <2>7, Zenon DEF Steps
<1>4. QED
  BY <1>2, <1>3

------------------------------------------------------------------------------
\* The invariant.

LEMMA RequestInit ==
  ASSUME Init
  PROVE  RequestInv
<1>1. req = [r \in Requests |-> NewRequest] /\ sub = NoSubscriber
  BY Zenon DEF Init
<1>2. \A r \in Requests : req[r] = NewRequest /\ r \notin Running
  BY <1>1, FreshRequest, Zenon DEF Running
<1>3. NewRequest.pc \notin Metrics \cup {"parse", "confirm", "target"} /\ NewRequest.todo = {}
  BY FreshRequest DEF Metrics
<1>4. \A f \in {"topic", "text"} : sub[f] \notin Known
  BY <1>1, NamesAreNames DEF NoSubscriber, Fields, Known, Texts, Metrics
<1>5. \A n \in Names : rds[n].rv >= 1
  <2>1. \A n \in Names : rds[n].rv = 1
    BY Zenon DEF Init
  <2>2. QED
    BY <2>1
<1>6. QED
  BY <1>2, <1>3, <1>4, <1>5, Zenon
     DEF RequestInv, Sourced, Fresh, Parsing, Lone, AsSent, CopyOf, Running

LEMMA VersionStep ==
  ASSUME TypeInv, RequestInv, \A n \in Names : Edited(n), NEW n \in Names, rds'[n] # Absent
  PROVE  rds'[n].rv >= 1
<1>1. CASE rds'[n] = rds[n]
  BY <1>1, Zenon DEF RequestInv
<1>2. CASE rds[n] # Absent /\ rds'[n].rv = rds[n].rv + 1
  <2>1. rds[n].rv \in Nat
    BY <1>2 DEF TypeInv, RequestsOK, Rds
  <2>2. QED
    BY <1>2, <2>1
<1>3. QED
  BY <1>1, <1>2, Zenon DEF Edited

LEMMA ExitInv ==
  ASSUME TypeInv, RequestInv, Exit
  PROVE  RequestInv'
<1> DEFINE over == [NewRequest EXCEPT !.pc = "done"]
<1>1. /\ \A q \in Requests : req'[q] = IF q \in Running THEN over ELSE req[q]
      /\ rds' = rds /\ sub' = NoSubscriber
  BY Zenon DEF Exit
<1>2. over.pc = "done" /\ over.todo = {}
  BY FreshRequest DEF NewRequest
<1> HIDE DEF over
<1>3. \A q \in Requests : req'[q].pc \in {"new", "done"}
  BY <1>1, <1>2, Zenon DEF Running
<1>4. \A q \in Requests : q \notin Running'
  BY <1>3, Zenon DEF Running
<1>5. \A q \in Requests : req'[q].pc \notin Metrics \cup {"parse", "confirm", "target"}
  BY <1>3 DEF Metrics
<1>6. \A f \in {"topic", "text"} : sub'[f] \notin Known
  BY <1>1, NamesAreNames DEF NoSubscriber, Fields, Known, Texts, Metrics
<1>7. ASSUME NEW q \in Requests
      PROVE  Fresh(q)' /\ Parsing(q)'
  <2>1. Fresh(q) /\ Parsing(q)
    BY Zenon DEF RequestInv
  <2>2. req'[q].todo = {} /\ (req'[q].pc = "new" => req'[q] = req[q])
    <3>1. req[q].todo = {} \/ q \in Running
      BY <2>1 DEF Parsing, Running
    <3>2. over.pc # "new"
      BY <1>2
    <3>3. QED
      BY <1>1, <1>2, <3>1, <3>2, Zenon
  <2>3. QED
    BY <1>5, <2>1, <2>2, Zenon DEF Fresh, Parsing
<1>8. Sourced'
  BY <1>4, <1>6, Zenon DEF Sourced, Running
<1>9. \A q \in Requests : Lone(q)' /\ AsSent(q)' /\ CopyOf(q)'
  BY <1>4, <1>5, Zenon DEF Lone, AsSent, CopyOf
<1>10. \A n \in Names : rds'[n] # Absent => rds'[n].rv >= 1
  BY <1>1, Zenon DEF RequestInv
<1>11. QED
  BY <1>7, <1>8, <1>9, <1>10, Zenon DEF RequestInv

LEMMA QuietInv ==
  ASSUME TypeInv, RequestInv, UNCHANGED <<sub, req>>, \A n \in Names : Edited(n)
  PROVE  RequestInv'
<1>1. Sourced'
  BY Zenon DEF RequestInv, Sourced, Sent, Running
<1>2. ASSUME NEW q \in Requests
      PROVE  Fresh(q)' /\ Parsing(q)' /\ Lone(q)' /\ AsSent(q)'
  BY Zenon DEF RequestInv, Fresh, Parsing, Lone, AsSent, Running
<1>3. ASSUME NEW q \in Requests
      PROVE  CopyOf(q)'
  <2>1. CASE req[q].pc \in Metrics
    BY <2>1, CopyKept, Zenon
  <2>2. CASE req[q].pc \notin Metrics
    BY <2>2, Zenon DEF CopyOf
  <2>3. QED
    BY <2>1, <2>2
<1>4. QED
  BY <1>1, <1>2, <1>3, VersionStep, Zenon DEF RequestInv

LEMMA ArriveInv ==
  ASSUME TypeInv, RequestInv, NEW r \in Requests, Arrives(r)
  PROVE  RequestInv'
<1>1. /\ \A q \in Requests \ {r} :
           /\ req'[q].pc = req[q].pc /\ req'[q].sent = req[q].sent
           /\ req'[q].whole = req[q].whole /\ req'[q].todo = req[q].todo
           /\ req'[q].target = req[q].target /\ req'[q].copy = req[q].copy
           /\ q \in Running => ~req'[q].alone
           /\ q \notin Running => req'[q] = req[q]
      /\ req'[r].pc \in {"parse", "confirm"} /\ req'[r].target = Absent
      /\ rds' = rds /\ sub' = sub /\ req[r].pc = "new"
  BY Zenon DEF Arrives
<1>2. r \notin Running /\ req'[r].pc \notin Metrics /\ req'[r].pc # "new"
  BY <1>1 DEF Running, Metrics
<1>3. \A q \in Requests \ {r} : q \in Running' <=> q \in Running
  BY <1>1, Zenon DEF Running
<1>4. \A n \in Names : Edited(n)
  BY <1>1, Zenon DEF Edited
<1>5. ASSUME NEW q \in Requests, q # r
      PROVE  Fresh(q)' /\ Parsing(q)' /\ Lone(q)' /\ AsSent(q)' /\ CopyOf(q)'
  <2>1. q \in Running' => ~req'[q].alone
    BY <1>1, <1>3, <1>5
  <2>2. Lone(q)' /\ AsSent(q)'
    BY <2>1, Zenon DEF Lone, AsSent
  <2>3. Parsing(q)'
    BY <1>1, <1>5, Zenon DEF Parsing, RequestInv
  <2>4. Fresh(q)'
    <3>1. req[q].pc = "new" => q \notin Running
      BY DEF Running
    <3>2. QED
      BY <1>1, <1>5, <3>1, Zenon DEF Fresh, RequestInv
  <2>5. CASE req[q].pc \in Metrics
    <3>1. ~req'[q].alone
      <4>1. q \in Running
        BY <2>5 DEF Running, Metrics
      <4>2. QED
        BY <1>3, <1>5, <2>1, <4>1
    <3>2. QED
      BY <1>1, <1>4, <1>5, <2>2, <2>3, <2>4, <2>5, <3>1, CopyKept, Zenon
  <2>6. CASE req[q].pc \notin Metrics
    BY <1>1, <1>5, <2>2, <2>3, <2>4, <2>6, Zenon DEF CopyOf
  <2>7. QED
    BY <2>5, <2>6
<1>6. Fresh(r)' /\ Parsing(r)' /\ Lone(r)' /\ AsSent(r)' /\ CopyOf(r)'
  <2>1. Fresh(r)' /\ CopyOf(r)'
    BY <1>2, Zenon DEF Fresh, CopyOf
  <2>2. Parsing(r)'
    BY Zenon DEF Arrives, Parsing
  <2>3. Lone(r)'
    <3>1. req'[r].alone => Running = {}
      BY Zenon DEF Arrives
    <3>2. Running' \subseteq Requests
      BY DEF Running
    <3>3. QED
      BY <1>3, <3>1, <3>2 DEF Lone
  <2>4. AsSent(r)'
    BY Zenon DEF Arrives, AsSent
  <2>5. QED
    BY <2>1, <2>2, <2>3, <2>4
<1>7. Sourced'
  <2>1. \A q \in Requests : q # r => req'[q].sent = req[q].sent
    BY <1>1
  <2>2. ASSUME NEW f \in {"topic", "text"}, NEW s \in Known
        PROVE  ~LooksLike(Value(req[r].sent, f), s)
    <3>1. req[r].sent = NoMessage
      BY <1>1, FreshRequest, Zenon DEF RequestInv, Fresh
    <3>2. Value(req[r].sent, f) \notin Known
      BY <3>1, NamesAreNames DEF NoMessage, Value, Known, Texts, Metrics
    <3>3. QED
      BY <3>2, LooksKnown
  <2>3. ASSUME NEW f \in {"topic", "text"}, NEW s \in Known, Sent(f, s)
        PROVE  Sent(f, s)'
    BY <2>1, <2>2, <2>3, Zenon DEF Sent
  <2>4. ASSUME NEW p \in Running', req'[p].target # Absent
        PROVE  \E q \in Requests : LooksLike(Value(req'[q].sent, "topic"), req'[p].target)
    <3>1. p \in Requests /\ p # r
      BY <1>1, <2>4 DEF Running
    <3>2. p \in Running /\ req'[p].target = req[p].target
      BY <1>1, <1>3, <2>4, <3>1, Zenon
    <3>3. req[p].target \in Known
      BY <2>4, <3>1, <3>2, Zenon DEF TypeInv, RequestsOK, Request, Known
    <3>4. QED
      BY <2>3, <2>4, <3>2, <3>3, Zenon DEF RequestInv, Sourced, Sent
  <2>5. \A f \in {"topic", "text"} : sub[f] \in Known =>
          \E q \in Requests : LooksLike(Value(req'[q].sent, f), sub[f])
    BY <2>3, Zenon DEF RequestInv, Sourced, Sent
  <2>6. QED
    BY <1>1, <2>4, <2>5, Zenon DEF Sourced, Sent
<1>8. \A n \in Names : rds'[n] # Absent => rds'[n].rv >= 1
  BY <1>1, Zenon DEF RequestInv
<1>9. QED
  BY <1>5, <1>6, <1>7, <1>8, Zenon DEF RequestInv

LEMMA RequestStep ==
  ASSUME TypeInv, TypeInv', RequestInv, [Next]_vars
  PROVE  RequestInv'
<1>1. ASSUME NEW r \in Requests, Steps(r)
      PROVE  RequestInv'
  BY <1>1, PlainStep, AsSentStep, SourcedStep, CopyStep, EditedStep, VersionStep, Zenon
     DEF RequestInv
<1>2. CASE \E r \in Requests : Receive(r)
  BY <1>1, <1>2, ReceiveSteps, ExitInv, Zenon DEF Steps
<1>3. CASE \A r \in Requests : ~Receive(r)
  BY <1>3, OtherSteps, ArriveInv, QuietInv, ExitInv, Zenon
<1>4. QED
  BY <1>2, <1>3

------------------------------------------------------------------------------
\* RdsFlavorLookup, whatever the catalogue is.

\* Numbers of one digit have the order of their strings.
LEMMA OneDigit ==
  ASSUME NEW a \in 0..9, NEW b \in 0..9
  PROVE  Before(Numeral(a), Numeral(b)) <=> a < b
<1>1. Numeral(a) = <<a>> /\ Numeral(b) = <<b>>
  BY DEF Numeral
<1>2. Before(<<a>>, <<b>>) <=>
        \E k \in 1..1 : /\ k <= 2
                        /\ \A j \in 1..(k - 1) : <<a>>[j] = <<b>>[j]
                        /\ k = 2 \/ <<a>>[k] < <<b>>[k]
  BY DEF Before
<1>3. QED
  BY <1>1, <1>2

\* A code is listed once.
LEMMA SizeOfListed ==
  ASSUME NEW f \in Catalogue
  PROVE  Size(f.code) = f
<1>1. \E g \in Catalogue : g.code = f.code
  OBVIOUS
<1>2. (CHOOSE g \in Catalogue : g.code = f.code) = f
  BY <1>1, CatalogueIsListed
<1>3. QED
  BY <1>1, <1>2 DEF Size

\* What is measured is a number.
LEMMA ListedNumbers ==
  ASSUME NEW f \in Catalogue
  PROVE  f.cpu \in Nat /\ f.ram \in Nat
<1>1. f \in Flavor
  BY CatalogueIsListed
<1>2. 1..999 \subseteq Nat
  BY SMT
<1>3. QED
  BY <1>1, <1>2, SMT DEF Flavor

LEMMA SizeNumbers ==
  ASSUME NEW code
  PROVE  /\ Size(code).cpu \in Nat /\ Size(code).ram \in Nat
         /\ Size(code) \in Catalogue \/ Size(code).cpu = 0
<1>1. CASE \E g \in Catalogue : g.code = code
  <2>1. Size(code) \in Catalogue
    BY <1>1 DEF Size
  <2>2. QED
    BY <2>1, ListedNumbers
<1>2. CASE ~\E g \in Catalogue : g.code = code
  <2>1. Size(code) = [code |-> code, cpu |-> 0, ram |-> 0, zones |-> {}]
    BY <1>2 DEF Size
  <2>2. Size(code).cpu = 0 /\ Size(code).ram = 0
    BY <2>1
  <2>3. QED
    BY <2>2
<1>3. QED
  BY <1>1, <1>2

LEMMA Measured ==
  ASSUME NEW f \in Catalogue, NEW code, NEW raise \in {"cpu", "mem"}
  PROVE  Measure(f, raise) \in Nat /\ Measure(Size(code), raise) \in Nat
BY ListedNumbers, SizeNumbers DEF Measure

\* The strings of the CPUs, or the numbers of the memory, order as the measure.
LEMMA BiggerIsMore ==
  ASSUME NEW f \in Catalogue, NEW o, NEW raise \in {"cpu", "mem"},
         raise = "mem" \/ \A g \in Catalogue : g.cpu <= 9
  PROVE  Bigger(f, o, raise) <=> Measure(f, raise) > Measure(Size(o.flavor), raise)
<1>1. CASE raise = "mem"
  <2>1. f.ram \in Nat /\ Size(o.flavor).ram \in Nat
    BY ListedNumbers, SizeNumbers
  <2>2. Bigger(f, o, raise) <=> f.ram > Size(o.flavor).ram
    BY <1>1, SMT DEF Bigger
  <2>3. QED
    BY <1>1, <2>1, <2>2, SMT DEF Measure
<1>2. CASE raise = "cpu"
  <2>1. \A n \in Nat : n <= 9 => n \in 0..9
    BY SMT
  <2>2. f.cpu \in 0..9
    <3>1. f.cpu \in Nat /\ f.cpu <= 9
      BY <1>2, ListedNumbers
    <3>2. QED
      BY <2>1, <3>1
  <2>3. Size(o.flavor).cpu \in 0..9
    <3>1. Size(o.flavor).cpu \in Nat
      BY SizeNumbers
    <3>2. Size(o.flavor).cpu <= 9
      <4>1. Size(o.flavor) \in Catalogue \/ Size(o.flavor).cpu = 0
        BY SizeNumbers
      <4>2. QED
        BY <1>2, <4>1
    <3>3. QED
      BY <2>1, <3>1, <3>2
  <2>4. Before(Numeral(Size(o.flavor).cpu), Numeral(f.cpu)) <=> Size(o.flavor).cpu < f.cpu
    BY <2>2, <2>3, OneDigit
  <2>5. QED
    BY <1>2, <2>2, <2>3, <2>4 DEF Bigger, Measure
<1>3. QED
  BY <1>1, <1>2

\* The conditions on zones and kinds, as the code asks them, are those of Fits.
LEMMA CandidatesFit ==
  ASSUME NEW f \in Catalogue, NEW o, o.zones # {}
  PROVE  Available(f, o) /\ SameKind(f, o) <=> Fits(f, o)
BY CodesHaveKinds DEF Available, SameKind, Fits

\* A flavor that RdsFlavorLookup answers is the next bigger one, and every next
\* bigger one may be answered; there is no answer only if there is none.
THEOREM LookupFindsNext ==
  ASSUME NEW o, NEW raise \in {"cpu", "mem"}, o.zones # {},
         raise = "mem" \/ \A f \in Catalogue : f.cpu <= 9
  PROVE  \A code : code \in RdsFlavorLookup(o, raise) <=>
           \E g : NextBigger(g, o, raise) /\ g.code = code
<1>1. \A f : f \in Candidates(o, raise) <=>
               /\ f \in Catalogue /\ Fits(f, o)
               /\ Measure(f, raise) > Measure(Size(o.flavor), raise)
  BY BiggerIsMore, CandidatesFit DEF Candidates
<1>2. \A g : NextBigger(g, o, raise) <=>
               /\ g \in Candidates(o, raise)
               /\ \A h \in Candidates(o, raise) : Measure(g, raise) <= Measure(h, raise)
  BY <1>1 DEF NextBigger
<1>3. QED
  BY <1>2 DEF RdsFlavorLookup

------------------------------------------------------------------------------
\* The four properties.

\* A request that edits a resource asks for it with a copy of the stored version.
LEMMA WritersAsk ==
  ASSUME TypeInv, TypeInv', RequestInv, Next, NEW r \in Requests, NEW n \in Names, Writes(r, n)
  PROVE  /\ Follows(r) /\ Asks(r) /\ req[r].target = n
         /\ req'[r].copy \in Rds /\ req[r].copy \in Rds
         /\ req[r].copy.rv = rds[n].rv
         /\ rds'[n] = [req'[r].copy EXCEPT !.rv = rds[n].rv + 1]
<1>1. req'[r] # req[r] /\ rds[n] # Absent /\ rds'[n] # rds[n]
  BY DEF Writes
<1>2. PICK q \in Requests : Receive(q)
  <2>1. CASE \A q \in Requests : ~Receive(q)
    <3>1. ASSUME NEW q \in Requests, Arrives(q)
          PROVE  FALSE
      BY <1>1, <3>1, Zenon DEF Arrives
    <3>2. ~UNCHANGED <<sub, req>> /\ ~Exit
      BY <1>1 DEF Exit
    <3>3. QED
      BY <2>1, <3>1, <3>2, OtherSteps, Zenon
  <2>2. QED
    BY <2>1
<1>3. Steps(q)
  BY <1>1, <1>2, ReceiveSteps, Zenon DEF Steps, Exit
<1>4. Follows(q) /\ Asks(q)
  BY <1>1, <1>3, Zenon DEF Steps, Parses, GoesOn, Finds
<1>5. q = r
  BY <1>1, <1>4, Zenon DEF Follows
<1>6. req'[r].copy \in Rds /\ req[r].copy \in Rds
  BY Zenon DEF TypeInv, RequestsOK, Request
<1>7. CanPut(req[r].target, req'[r].copy)
      /\ rds' = [rds EXCEPT ![req[r].target] =
                   [req'[r].copy EXCEPT !.rv = rds[req[r].target].rv + 1]]
  BY <1>1, <1>4, <1>5, Zenon DEF Asks
<1>8. req[r].target = n
  BY <1>1, <1>7, Zenon DEF TypeInv, RequestsOK
<1>9. req'[r].copy.rv = req[r].copy.rv
  <2>1. \/ req'[r].copy = [req[r].copy EXCEPT !.vol = @ + 10]
        \/ \E code : req'[r].copy = [req[r].copy EXCEPT !.flavor = code]
    BY <1>4, <1>5, Zenon DEF Asks
  <2>2. QED
    BY <1>6, <2>1 DEF Rds
<1>10. QED
  BY <1>4, <1>5, <1>6, <1>7, <1>8, <1>9, Zenon DEF CanPut, TypeInv, RequestsOK

\* The size that a request writes is the stored one or 10 GB more, the flavor is
\* changed by the sections of cpu and memory only: no edit of a user is undone that
\* was stored after the receiver read the resource.
LEMMA WritesKeep ==
  ASSUME TypeInv, TypeInv', RequestInv, Next, NEW r \in Requests, NEW n \in Names, Writes(r, n)
  PROVE  /\ rds'[n] # Absent
         /\ rds'[n].vol - rds[n].vol \in {0, 10}
         /\ req[r].pc = "disk" => rds'[n].flavor = rds[n].flavor
         /\ rds'[n].zones = rds[n].zones
<1> DEFINE o == req[r].copy
           p == req'[r].copy
<1>1. /\ Asks(r) /\ req[r].target = n /\ p \in Rds /\ o \in Rds
      /\ o.rv = rds[n].rv /\ rds'[n] = [p EXCEPT !.rv = rds[n].rv + 1]
  BY WritersAsk, Zenon
<1>2. rds[n] \in Rds /\ rds[n].rv \in Nat /\ rds[n].vol \in Nat
  <2>1. rds[n] \in Rds
    BY Zenon DEF Writes, TypeInv, RequestsOK
  <2>2. QED
    BY <2>1 DEF Rds
<1>3. rds'[n] \in Rds /\ rds'[n].vol = p.vol /\ rds'[n].flavor = p.flavor /\ rds'[n].zones = p.zones
  <2>1. rds[n].rv + 1 \in Nat
    BY <1>2
  <2>2. QED
    BY <1>1, <2>1 DEF Rds
<1>4. /\ o.zones = rds[n].zones
      /\ o.vol = rds[n].vol \/ (req[r].pc # "disk" /\ o.vol = rds[n].vol + 10)
      /\ req[r].pc # "mem" => o.flavor = rds[n].flavor
  BY <1>1, NamesAreNames, Zenon DEF RequestInv, CopyOf, Writes
<1>5. \/ req[r].pc = "disk" /\ p = [o EXCEPT !.vol = @ + 10]
      \/ req[r].pc # "disk" /\ \E code : p = [o EXCEPT !.flavor = code]
  <2>1. \/ req[r].pc = "disk" /\ p = [o EXCEPT !.vol = @ + 10]
        \/ req[r].pc \in {"cpu", "mem"} /\ \E code : p = [o EXCEPT !.flavor = code]
    BY <1>1, Zenon DEF Asks
  <2>2. QED
    BY <2>1
<1>6. /\ p.zones = o.zones
      /\ \/ req[r].pc = "disk" /\ p.vol = o.vol + 10 /\ p.flavor = o.flavor
         \/ req[r].pc # "disk" /\ p.vol = o.vol
  BY <1>1, <1>5 DEF Rds
<1>7. p.vol = rds[n].vol \/ p.vol = rds[n].vol + 10
  BY <1>2, <1>4, <1>6
<1>8. rds'[n].vol - rds[n].vol \in {0, 10}
  BY <1>2, <1>3, <1>7
<1>9. req[r].pc = "disk" => req[r].pc # "mem"
  OBVIOUS
<1>10. QED
  BY <1>3, <1>4, <1>6, <1>8, <1>9, AbsentIsNoRds, Zenon

\* A request that runs alone writes for the message that it was sent.
LEMMA WritesSent ==
  ASSUME TypeInv, TypeInv', RequestInv, Next, NEW r \in Requests, NEW n \in Names, Writes(r, n),
         req[r].alone, req[r].whole
  PROVE  req[r].sent = [topic |-> n, text |-> req[r].pc]
<1>1. Follows(r) /\ Asks(r) /\ req[r].target = n
  BY WritersAsk
<1>2. r \in Running /\ Running = {r} /\ req[r].todo = {} /\ req[r].pc \in Metrics
  <2>1. r \in Running /\ req[r].pc \in Metrics /\ Parsing(r) /\ Lone(r)
    BY <1>1, Zenon DEF Follows, Writes, RequestInv
  <2>2. req[r].pc # "parse"
    BY <2>1 DEF Metrics
  <2>3. QED
    BY <2>1, <2>2, Zenon DEF Parsing, Lone
<1>3. sub["text"] = req[r].sent.text /\ n = req[r].sent.topic
  <2>1. /\ \A f \in FieldsOf(req[r].sent) : sub[f] = Value(req[r].sent, f)
        /\ req[r].target # Absent => req[r].target = req[r].sent.topic
    BY <1>2, Zenon DEF RequestInv, AsSent
  <2>2. "text" \in FieldsOf(req[r].sent)
    BY DEF FieldsOf, Fields
  <2>3. QED
    BY <1>1, <2>1, <2>2, NamesAreNames DEF Value
<1>4. req[r].pc = req[r].sent.text
  <2>1. Reads(r, "text") = {sub["text"]}
    BY <1>2, AloneReads
  <2>2. QED
    BY <1>1, <1>3, <2>1 DEF Asks
<1>5. req[r].sent \in Message
  BY <1>2, Zenon DEF TypeInv, RequestsOK
<1>6. QED
  BY <1>3, <1>4, <1>5 DEF Message

\* What a request writes for was sent, if perhaps to two other requests, or is what
\* that reads as when it is torn.
LEMMA WritesAlarmed ==
  ASSUME TypeInv, TypeInv', RequestInv, Next, NEW r \in Requests, NEW n \in Names, Writes(r, n)
  PROVE  /\ \E q \in Requests : LooksLike(req[q].sent.topic, n)
         /\ \E q \in Requests : LooksLike(req[q].sent.text, req[r].pc)
<1>1. /\ r \in Running /\ req[r].pc \in Reads(r, "text") /\ req[r].target = n
      /\ req[r].pc \in Metrics
  BY WritersAsk, Zenon DEF Follows, Asks, Writes
<1>2. Sent("topic", n)
  BY <1>1, NamesAreNames, Zenon DEF RequestInv, Sourced
<1>3. Sent("text", req[r].pc)
  <2>1. req[r].pc \in Known
    BY <1>1, Zenon DEF Known, Texts
  <2>2. QED
    BY <1>1, <2>1, ReadsSent
<1>4. \A m : Value(m, "topic") = m.topic /\ Value(m, "text") = m.text
  BY DEF Value
<1>5. QED
  BY <1>2, <1>3, <1>4, Zenon DEF Sent

\* A request that runs alone asks for the next bigger flavor of the stored resource.
LEMMA WritesNext ==
  ASSUME TypeInv, TypeInv', RequestInv, Next, NEW r \in Requests, NEW n \in Names, Writes(r, n),
         req[r].alone, req[r].pc \in {"cpu", "mem"},
         req[r].pc = "mem" \/ \A f \in Catalogue : f.cpu <= 9
  PROVE  NextBigger(Size(rds'[n].flavor), rds[n], req[r].pc)
<1> DEFINE o == req[r].copy
           p == req'[r].copy
           raise == req[r].pc
<1>1. /\ Follows(r) /\ Asks(r) /\ req[r].target = n /\ p \in Rds /\ o \in Rds
      /\ o.rv = rds[n].rv /\ rds'[n] = [p EXCEPT !.rv = rds[n].rv + 1]
  BY WritersAsk, Zenon
<1>2. PICK code \in RdsFlavorLookup(o, raise) : p = [o EXCEPT !.flavor = code]
  <2>1. raise # "disk"
    OBVIOUS
  <2>2. QED
    BY <1>1, <2>1, Zenon DEF Asks
<1>3. rds'[n].flavor = code
  <2>1. p.flavor = code
    BY <1>1, <1>2 DEF Rds
  <2>2. QED
    BY <1>1, <2>1 DEF Rds
<1>4. o.flavor = rds[n].flavor /\ o.zones = rds[n].zones
  <2>1. Running = {r}
    BY <1>1, Zenon DEF RequestInv, Lone, Follows
  <2>2. sub["text"] = raise
    BY <1>1, <2>1, AloneReads DEF Asks
  <2>3. raise # "mem" \/ sub["text"] # "cpu"
    BY <2>2
  <2>4. QED
    BY <1>1, <2>3, NamesAreNames, Zenon DEF RequestInv, CopyOf, Writes
<1>5. o.zones # {}
  <2>1. \E f \in Candidates(o, raise) : TRUE
    BY <1>2, Zenon DEF RdsFlavorLookup
  <2>2. QED
    BY <2>1, Zenon DEF Candidates, Available
<1>6. PICK g : NextBigger(g, o, raise) /\ g.code = code
  BY <1>2, <1>5, LookupFindsNext
<1>7. Size(code) = g
  BY <1>6, SizeOfListed, Zenon DEF NextBigger
<1>8. NextBigger(g, rds[n], raise)
  BY <1>4, <1>6, Zenon DEF NextBigger, Fits
<1>9. QED
  BY <1>3, <1>7, <1>8

\* A request during which no other runs acts on the resource and for the metric
\* that it was sent for, whatever earlier requests left in the variable.
THEOREM AloneAsSent == Spec => AloneActsAsSent
<1>1. ASSUME TypeInv, TypeInv', RequestInv, [Next]_vars,
             NEW r \in Requests, NEW n \in Names, Writes(r, n), req[r].alone, req[r].whole
      PROVE  req[r].sent = [topic |-> n, text |-> req[r].pc]
  <2>1. Next
    BY <1>1, Zenon DEF Writes, vars
  <2>2. QED
    BY <1>1, <2>1, WritesSent
<1>2. TypeInv /\ TypeInv' /\ RequestInv /\ [Next]_vars =>
        [\A r \in Requests, n \in Names :
           Writes(r, n) /\ req[r].alone /\ req[r].whole =>
             req[r].sent = [topic |-> n, text |-> req[r].pc]]_vars
  BY <1>1, Zenon
<1>3. QED
  BY <1>2, TypeInit, RequestInit, TypeStep, RequestStep, PTL DEF Spec, AloneActsAsSent

\* Whatever a torn string may read as: requests that run together may take the
\* resource from one message and the metric from another, but what is written for
\* was sent, or is what a torn copy of something sent reads as.
THEOREM ActsOnAlarmsOnly == Spec => OnlyAlarmed
<1>1. ASSUME TypeInv, TypeInv', RequestInv, [Next]_vars,
             NEW r \in Requests, NEW n \in Names, Writes(r, n)
      PROVE  /\ \E q \in Requests : LooksLike(req[q].sent.topic, n)
             /\ \E q \in Requests : LooksLike(req[q].sent.text, req[r].pc)
  <2>1. Next
    BY <1>1, Zenon DEF Writes, vars
  <2>2. QED
    BY <1>1, <2>1, WritesAlarmed
<1>2. TypeInv /\ TypeInv' /\ RequestInv /\ [Next]_vars =>
        [\A r \in Requests, n \in Names : Writes(r, n) =>
           /\ \E q \in Requests : LooksLike(req[q].sent.topic, n)
           /\ \E q \in Requests : LooksLike(req[q].sent.text, req[r].pc)]_vars
  BY <1>1, Zenon
<1>3. QED
  BY <1>2, TypeInit, RequestInit, TypeStep, RequestStep, PTL DEF Spec, OnlyAlarmed

\* The receiver reads, computes and writes without a lock; what users stored in
\* between is never undone.
THEOREM EditsAreKept == Spec => NoEditUndone
<1>1. ASSUME TypeInv, TypeInv', RequestInv, [Next]_vars,
             NEW r \in Requests, NEW n \in Names, Writes(r, n)
      PROVE  /\ rds'[n] # Absent
             /\ rds'[n].vol - rds[n].vol \in {0, 10}
             /\ req[r].pc = "disk" => rds'[n].flavor = rds[n].flavor
             /\ rds'[n].zones = rds[n].zones
  <2>1. Next
    BY <1>1, Zenon DEF Writes, vars
  <2>2. QED
    BY <1>1, <2>1, WritesKeep
<1>2. TypeInv /\ TypeInv' /\ RequestInv /\ [Next]_vars =>
        [\A r \in Requests, n \in Names : Writes(r, n) =>
           /\ rds'[n] # Absent
           /\ rds'[n].vol - rds[n].vol \in {0, 10}
           /\ req[r].pc = "disk" => rds'[n].flavor = rds[n].flavor
           /\ rds'[n].zones = rds[n].zones]_vars
  BY <1>1, Zenon
<1>3. QED
  BY <1>2, TypeInit, RequestInit, TypeStep, RequestStep, PTL DEF Spec, NoEditUndone

\* An alarm that is handled alone leads to the next bigger flavor: for the memory
\* whatever the catalogue is, for the CPUs as long as all numbers have one digit.
THEOREM ScalesToTheNext == Spec => ScalesToNext
<1>1. ASSUME TypeInv, TypeInv', RequestInv, [Next]_vars,
             NEW r \in Requests, NEW n \in Names, Writes(r, n),
             req[r].alone, req[r].pc \in {"cpu", "mem"}
      PROVE  \/ req[r].pc = "cpu" /\ \E f \in Catalogue : f.cpu > 9
             \/ NextBigger(Size(rds'[n].flavor), rds[n], req[r].pc)
  <2>1. Next
    BY <1>1, Zenon DEF Writes, vars
  <2>2. CASE req[r].pc = "cpu" /\ \E f \in Catalogue : f.cpu > 9
    BY <2>2
  <2>3. CASE req[r].pc = "mem" \/ \A f \in Catalogue : ~(f.cpu > 9)
    <3>1. ASSUME NEW f \in Catalogue, ~(f.cpu > 9)
          PROVE  f.cpu <= 9
      BY <3>1, CatalogueIsListed DEF Flavor
    <3>2. req[r].pc = "mem" \/ \A f \in Catalogue : f.cpu <= 9
      BY <2>3, <3>1, Zenon
    <3>3. QED
      BY <1>1, <2>1, <3>2, WritesNext
  <2>4. QED
    BY <1>1, <2>2, <2>3
<1>2. TypeInv /\ TypeInv' /\ RequestInv /\ [Next]_vars =>
        [\A r \in Requests, n \in Names :
           Writes(r, n) /\ req[r].alone /\ req[r].pc \in {"cpu", "mem"} =>
             \/ req[r].pc = "cpu" /\ \E f \in Catalogue : f.cpu > 9
             \/ NextBigger(Size(rds'[n].flavor), rds[n], req[r].pc)]_vars
  BY <1>1, Zenon
<1>3. QED
  BY <1>2, TypeInit, RequestInit, TypeStep, RequestStep, PTL DEF Spec, ScalesToNext
==============================================================================
