-------------------------- MODULE RdsAutopilotProofs --------------------------
(***************************************************************************)
(* Type correctness of RdsAutopilot, for every value of the constants.     *)
(* That the variable holds strings only needs that whatever runs was sent; *)
(* that topics are names needs that whatever a caller does has a name.     *)
(*                                                                         *)
(* Then DeleteAlarm, which leaves no rule and no topic behind but those of *)
(* which the deletion failed (NothingLeft).  That is not inductive: it     *)
(* only speaks of the end, and between the list of the rules and the       *)
(* delete of the topic other callers make and delete rules.  GoneInv says  *)
(* what a caller may rely on meanwhile: nobody makes rules for its         *)
(* resource (or it is in overlap), and what is left of them is on its      *)
(* list, or has been and failed.                                           *)
(***************************************************************************)
EXTENDS RdsAutopilot, TLAPS

AlarmsOK ==
    /\ flagged \subseteq Names /\ topics \subseteq Names
    /\ confirmed \subseteq Names /\ overlap \subseteq Names
    /\ rules \in [RuleNames -> Nat]
    /\ caller \in [Callers -> Caller]
    /\ \A c \in Callers : caller[c].pc # "idle" => caller[c].name \in Names

RequestsOK ==
    /\ rds \in [Names -> Rds \cup {Absent}]
    /\ sub \in [Fields -> Strings]
    /\ req \in [Requests -> Request]
    /\ \A r \in Running : req[r].sent \in Message

BudgetOK == budget \in [Kinds -> Nat]

TypeInv == AlarmsOK /\ RequestsOK /\ BudgetOK

------------------------------------------------------------------------------
\* What the steps are made of.

LEMMA Spent ==
  ASSUME BudgetOK, NEW kind \in Kinds, Spend(kind)
  PROVE  BudgetOK'
<1>1. budget[kind] \in Nat /\ budget[kind] > 0
  BY DEF BudgetOK, Spend
<1>2. budget[kind] - 1 \in Nat
  BY <1>1
<1>3. QED
  BY <1>2, Zenon DEF BudgetOK, Spend

LEMMA CallerTyped ==
  ASSUME AlarmsOK, NEW c \in Callers, NEW me \in Caller,
         me.pc # "idle" => me.name \in Names,
         caller' = [caller EXCEPT ![c] = me]
  PROVE  /\ caller' \in [Callers -> Caller]
         /\ \A d \in Callers : caller'[d].pc # "idle" => caller'[d].name \in Names
<1>1. caller' \in [Callers -> Caller]
  BY Zenon DEF AlarmsOK
<1>2. caller'[c] = me /\ \A d \in Callers \ {c} : caller'[d] = caller[d]
  BY Zenon DEF AlarmsOK
<1>3. QED
  BY <1>1, <1>2, Zenon DEF AlarmsOK

LEMMA CallsTyped ==
  ASSUME AlarmsOK, NEW c \in Callers, caller[c].pc # "idle",
         NEW pc \in {"topic", "subscribe", "check", "disk", "cpu", "mem",
                     "list", "rules", "remove", "rdsDelete"},
         Calls(c, pc)
  PROVE  /\ caller' \in [Callers -> Caller]
         /\ \A d \in Callers : caller'[d].pc # "idle" => caller'[d].name \in Names
<1>1. caller[c] \in Caller
  BY DEF AlarmsOK
<1>2. [caller[c] EXCEPT !.pc = pc] \in Caller
  BY <1>1, Zenon DEF Caller
<1>3. [caller[c] EXCEPT !.pc = pc].name = caller[c].name
  BY <1>1, Zenon DEF Caller
<1>4. caller' = [caller EXCEPT ![c] = [caller[c] EXCEPT !.pc = pc]]
  BY Zenon DEF Calls
<1>5. QED
  BY <1>2, <1>3, <1>4, CallerTyped, Zenon DEF AlarmsOK

LEMMA DoneTyped ==
  ASSUME AlarmsOK, NEW c \in Callers, Done(c)
  PROVE  /\ caller' \in [Callers -> Caller]
         /\ \A d \in Callers : caller'[d].pc # "idle" => caller'[d].name \in Names
<1>1. IdleCaller \in Caller /\ IdleCaller.pc = "idle"
  BY SMT DEF IdleCaller, Caller
<1>2. QED
  BY <1>1, CallerTyped, Zenon DEF Done

------------------------------------------------------------------------------
\* CreateAlarm and DeleteAlarm.

LEMMA BeginTypes ==
  ASSUME AlarmsOK, NEW c \in Callers, NEW n \in Names, BeginCreate(c, n) \/ BeginDelete(c, n)
  PROVE  AlarmsOK'
<1>1. PICK pc \in {"topic", "list"} :
        caller' = [caller EXCEPT ![c] = [IdleCaller EXCEPT !.pc = pc, !.name = n]]
  BY Zenon DEF BeginCreate, BeginDelete
<1> DEFINE me == [IdleCaller EXCEPT !.pc = pc, !.name = n]
<1>2. me \in Caller /\ me.name = n /\ caller' = [caller EXCEPT ![c] = me]
  <2>1. IdleCaller \in Caller
    BY SMT DEF IdleCaller, Caller
  <2>2. QED
    BY <1>1, <2>1, Zenon DEF Caller
<1> HIDE DEF me
<1>3. /\ flagged' \subseteq Names /\ overlap' \subseteq Names
      /\ UNCHANGED <<topics, confirmed, rules>>
  BY Zenon DEF BeginCreate, BeginDelete, AlarmsOK
<1>4. QED
  BY <1>1, <1>2, <1>3, CallerTyped, Zenon DEF AlarmsOK

LEMMA CreateTypes ==
  ASSUME AlarmsOK, NEW c \in Callers, NEW made \in Nat,
         CreateTopic(c) \/ CheckRule(c) \/ CreateRule(c, made)
  PROVE  AlarmsOK'
<1>1. CASE CreateTopic(c)
  <2>1. caller[c].pc # "idle" /\ caller[c].name \in Names
    BY <1>1 DEF CreateTopic, AlarmsOK
  <2>2. topics' \subseteq Names /\ UNCHANGED <<flagged, confirmed, rules, overlap>>
    BY <1>1, <2>1, Zenon DEF CreateTopic, AlarmsOK
  <2>3. Calls(c, "subscribe")
    BY <1>1, Zenon DEF CreateTopic
  <2>4. QED
    BY <2>1, <2>2, <2>3, CallsTyped, Zenon DEF AlarmsOK
<1>2. CASE CheckRule(c)
  <2>1. caller[c].pc # "idle"
    BY <1>2 DEF CheckRule
  <2>2. UNCHANGED <<flagged, topics, confirmed, rules, overlap>>
    BY <1>2, Zenon DEF CheckRule
  <2>3. Done(c) \/ Calls(c, "disk")
    BY <1>2, Zenon DEF CheckRule
  <2>4. QED
    BY <2>1, <2>2, <2>3, CallsTyped, DoneTyped, Zenon DEF AlarmsOK
<1>3. CASE CreateRule(c, made)
  <2>1. caller[c].pc # "idle"
    BY <1>3 DEF CreateRule, Metrics
  <2>2. UNCHANGED <<flagged, topics, confirmed, overlap>>
    BY <1>3, Zenon DEF CreateRule
  <2>3. Calls(c, "cpu") \/ Calls(c, "mem") \/ Done(c)
    <3>1. /\ caller[c].pc \in Metrics
          /\ CASE caller[c].pc = "disk" -> Calls(c, "cpu")
               [] caller[c].pc = "cpu" -> Calls(c, "mem")
               [] caller[c].pc = "mem" -> Done(c)
      BY <1>3, Zenon DEF CreateRule
    <3>2. QED
      BY <3>1, Zenon DEF Metrics
  <2>4. rules' \in [RuleNames -> Nat]
    <3>1. \A k \in RuleNames : rules[k] + made \in Nat
      BY DEF AlarmsOK
    <3>2. rules' = [rules EXCEPT ![<<caller[c].name, caller[c].pc>>] = @ + made]
      BY <1>3, Zenon DEF CreateRule
    <3>3. QED
      BY <3>1, <3>2, Zenon DEF AlarmsOK
  <2>5. QED
    BY <2>1, <2>2, <2>3, <2>4, CallsTyped, DoneTyped, Zenon DEF AlarmsOK
<1>4. QED
  BY <1>1, <1>2, <1>3

LEMMA DeleteTypes ==
  ASSUME AlarmsOK, NEW c \in Callers, DeleteAlarm(c)
  PROVE  AlarmsOK'
<1>1. caller[c] \in Caller
  BY DEF AlarmsOK
<1>2. CASE ListRules(c)
  <2> DEFINE todo == {r \in RuleNames :
                        rules[r] > 0 /\ <<r[1], caller[c].name>> \in Within}
             me == [caller[c] EXCEPT !.pc = "rules", !.todo = todo]
  <2>1. me \in Caller /\ me.name = caller[c].name
    <3>1. todo \in SUBSET RuleNames
      OBVIOUS
    <3> HIDE DEF todo
    <3>2. QED
      BY <1>1, <3>1, Zenon DEF Caller
  <2>2. caller' = [caller EXCEPT ![c] = me]
    BY <1>2, Zenon DEF ListRules
  <2>3. caller[c].pc # "idle" /\ UNCHANGED <<flagged, topics, confirmed, rules, overlap>>
    BY <1>2 DEF ListRules
  <2> HIDE DEF me
  <2>4. QED
    BY <2>1, <2>2, <2>3, CallerTyped, Zenon DEF AlarmsOK
<1>3. CASE DeleteRule(c)
  <2>1. caller[c].pc # "idle" /\ UNCHANGED <<flagged, topics, confirmed, overlap>>
    BY <1>3 DEF DeleteRule
  <2>2. CASE \E r \in caller[c].todo :
               /\ rules' = [rules EXCEPT ![r] = 0]
               /\ caller' = [caller EXCEPT ![c].todo = @ \ {r}]
    <3>1. PICK r \in caller[c].todo :
               /\ rules' = [rules EXCEPT ![r] = 0]
               /\ caller' = [caller EXCEPT ![c].todo = @ \ {r}]
      BY <2>2
    <3> DEFINE me == [caller[c] EXCEPT !.todo = @ \ {r}]
    <3>2. caller' = [caller EXCEPT ![c] = me]
      BY <3>1, Zenon
    <3>3. me \in Caller /\ me.name = caller[c].name
      BY <1>1, Zenon DEF Caller
    <3>4. rules' \in [RuleNames -> Nat]
      <4>1. 0 \in Nat
        OBVIOUS
      <4>2. QED
        BY <3>1, <4>1, Zenon DEF AlarmsOK
    <3> HIDE DEF me
    <3>5. QED
      BY <2>1, <3>2, <3>3, <3>4, CallerTyped, Zenon DEF AlarmsOK
  <2>3. CASE Calls(c, "remove") /\ UNCHANGED rules
    BY <2>1, <2>3, CallsTyped, Zenon DEF AlarmsOK
  <2>4. QED
    BY <1>3, <2>2, <2>3, Zenon DEF DeleteRule
<1>4. CASE DeleteTopic(c)
  <2>1. /\ Calls(c, "rdsDelete")
        /\ topics' \subseteq Names /\ confirmed' \subseteq Names
        /\ UNCHANGED <<flagged, rules, overlap>>
    BY <1>4, Zenon DEF DeleteTopic, AlarmsOK
  <2>2. caller[c].pc # "idle"
    BY <1>4 DEF DeleteTopic
  <2>3. QED
    BY <2>1, <2>2, CallsTyped, Zenon DEF AlarmsOK
<1>5. CASE RdsDeleted(c)
  <2>1. Done(c) /\ flagged' \subseteq Names /\ UNCHANGED <<topics, confirmed, rules, overlap>>
    BY <1>5, Zenon DEF RdsDeleted, AlarmsOK
  <2>2. QED
    BY <2>1, DoneTyped, Zenon DEF AlarmsOK
<1>6. QED
  BY <1>2, <1>3, <1>4, <1>5, Zenon DEF DeleteAlarm

\* The calls that fail: what they leave is written down, or they return.
LEMMA FailTypes ==
  ASSUME AlarmsOK, NEW c \in Callers,
         \/ TopicNotMade(c) \/ CreateReturns(c)
         \/ RuleStays(c) \/ TopicStays(c) \/ DeleteReturns(c)
  PROVE  AlarmsOK'
<1>1. caller[c] \in Caller
  BY DEF AlarmsOK
<1>2. UNCHANGED <<flagged, topics, confirmed, rules, overlap>>
  BY Zenon DEF TopicNotMade, CreateReturns, RuleStays, TopicStays, DeleteReturns
<1>3. caller[c].pc # "idle" /\ caller[c].name \in Names
  <2>1. caller[c].pc # "idle"
    BY DEF TopicNotMade, CreateReturns, RuleStays, TopicStays, DeleteReturns
  <2>2. QED
    BY <2>1, Zenon DEF AlarmsOK
<1>4. CASE CreateReturns(c) \/ DeleteReturns(c)
  BY <1>2, <1>4, DoneTyped, Zenon DEF CreateReturns, DeleteReturns, AlarmsOK
<1>5. CASE TopicNotMade(c)
  BY <1>2, <1>3, <1>5, CallsTyped, Zenon DEF TopicNotMade, AlarmsOK
<1>6. CASE RuleStays(c)
  <2>1. PICK x \in caller[c].todo :
          caller' = [caller EXCEPT ![c].todo = @ \ {x}, ![c].failed = @ \cup {x}]
    BY <1>6, Zenon DEF RuleStays
  <2> DEFINE me == [caller[c] EXCEPT !.todo = @ \ {x}, !.failed = @ \cup {x}]
  <2>2. x \in Names \X (Metrics \cup {"topic"})
    BY <1>1, <2>1, SMT DEF Caller, RuleNames
  <2>3. me \in Caller /\ me.name = caller[c].name
    BY <1>1, <2>2, Zenon DEF Caller
  <2>4. caller' = [caller EXCEPT ![c] = me]
    BY <2>1, Zenon
  <2> HIDE DEF me
  <2>5. QED
    BY <1>2, <1>3, <2>3, <2>4, CallerTyped, Zenon DEF AlarmsOK
<1>7. CASE TopicStays(c)
  <2> DEFINE me == [caller[c] EXCEPT !.pc = "rdsDelete",
                                     !.failed = @ \cup {<<caller[c].name, "topic">>}]
  <2>1. <<caller[c].name, "topic">> \in Names \X (Metrics \cup {"topic"})
    BY <1>3
  <2>2. me \in Caller /\ me.name = caller[c].name
    BY <1>1, <2>1, Zenon DEF Caller
  <2>3. caller' = [caller EXCEPT ![c] = me]
    BY <1>7, Zenon DEF TopicStays
  <2> HIDE DEF me
  <2>4. QED
    BY <1>2, <1>3, <2>2, <2>3, CallerTyped, Zenon DEF AlarmsOK
<1>8. QED
  BY <1>4, <1>5, <1>6, <1>7

------------------------------------------------------------------------------
\* The requests.

LEMMA RequestTyped ==
  ASSUME RequestsOK, NEW r \in Requests, NEW me \in Request,
         me.pc \notin {"new", "done"} => me.sent \in Message,
         req' = [req EXCEPT ![r] = me]
  PROVE  req' \in [Requests -> Request] /\ \A q \in Running' : req'[q].sent \in Message
<1>1. req' \in [Requests -> Request]
  BY Zenon DEF RequestsOK
<1>2. req'[r] = me /\ \A q \in Requests \ {r} : req'[q] = req[q]
  BY Zenon DEF RequestsOK
<1>3. QED
  BY <1>1, <1>2, Zenon DEF RequestsOK, Running

RunningPcs == {"parse", "confirm", "target", "disk", "cpu", "mem"}

LEMMA GotoTyped ==
  ASSUME RequestsOK, NEW r \in Running, NEW pc \in RunningPcs \cup {"done"}, Goto(r, pc)
  PROVE  req' \in [Requests -> Request] /\ \A q \in Running' : req'[q].sent \in Message
<1>1. r \in Requests /\ req[r] \in Request /\ req[r].sent \in Message
  BY Zenon DEF RequestsOK, Running
<1> DEFINE me == [req[r] EXCEPT !.pc = pc]
<1>2. me \in Request /\ me.sent = req[r].sent
  BY <1>1, Zenon DEF Request, RunningPcs
<1>3. req' = [req EXCEPT ![r] = me]
  BY Zenon DEF Goto
<1> HIDE DEF me
<1>4. QED
  BY <1>1, <1>2, <1>3, RequestTyped, Zenon

LEMMA FreshRequest ==
  /\ NewRequest \in Request
  /\ [NewRequest EXCEPT !.pc = "done"] \in Request
  /\ NewRequest.pc = "new" /\ NewRequest.target = Absent /\ NewRequest.copy = NoRds
  /\ NewRequest.todo = {} /\ NewRequest.sent = NoMessage
<1>1. NoRds \in Rds
  BY DEF NoRds, Rds
<1>2. NewRequest \in Request
  BY <1>1 DEF NewRequest, Request
<1>3. QED
  BY <1>2 DEF NewRequest, Request

LEMMA ArriveTypes ==
  ASSUME RequestsOK, NEW r \in Requests, NEW m \in Message, NEW whole \in BOOLEAN,
         Arrive(r, m, whole), UNCHANGED <<rds, sub>>
  PROVE  RequestsOK'
<1> DEFINE me == [NewRequest EXCEPT !.pc = IF whole THEN "parse" ELSE "confirm",
                   !.sent = m, !.todo = IF whole THEN FieldsOf(m) ELSE {},
                   !.whole = whole, !.alone = Running = {}]
           other(q) == [req[q] EXCEPT !.alone = @ /\ q \notin Running]
<1>1. me \in Request /\ me.sent = m
  <2>1. (IF whole THEN FieldsOf(m) ELSE {}) \in SUBSET Fields
    BY DEF FieldsOf, Fields
  <2>2. (IF whole THEN "parse" ELSE "confirm") \in {"parse", "confirm"}
    OBVIOUS
  <2>3. (Running = {}) \in BOOLEAN
    OBVIOUS
  <2>4. PICK pc \in {"parse", "confirm"}, todo \in SUBSET Fields, alone \in BOOLEAN :
          me = [NewRequest EXCEPT !.pc = pc, !.sent = m, !.todo = todo,
                                  !.whole = whole, !.alone = alone]
    BY <2>1, <2>2, <2>3, Zenon
  <2> HIDE DEF me
  <2>5. QED
    BY <2>4, FreshRequest, Zenon DEF Request
<1>2. \A q \in Requests : other(q) \in Request /\ other(q).sent = req[q].sent
                          /\ other(q).pc = req[q].pc
  <2>1. \A q \in Requests : req[q] \in Request
    BY DEF RequestsOK
  <2>2. TAKE q \in Requests
  <2>3. req[q] \in Request /\ (req[q].alone /\ q \notin Running) \in BOOLEAN
    BY <2>1, Zenon DEF Request
  <2>4. QED
    BY <2>3, Zenon DEF Request
<1>3. req' = [q \in Requests |-> IF q = r THEN me ELSE other(q)]
  BY Zenon DEF Arrive
<1> HIDE DEF me, other
<1>4. \A q \in Requests : req'[q] = IF q = r THEN me ELSE other(q)
  BY <1>3, Zenon
<1>5. req' \in [Requests -> Request]
  BY <1>1, <1>2, <1>3, Zenon
<1>6. ASSUME NEW q \in Running'
      PROVE  req'[q].sent \in Message
  <2>1. CASE q = r
    BY <1>1, <1>4, <1>6, <2>1, Zenon DEF Running
  <2>2. CASE q # r
    <3>1. q \in Running
      BY <1>2, <1>4, <1>6, <2>2, Zenon DEF Running
    <3>2. QED
      BY <1>2, <1>4, <1>6, <2>2, <3>1, Zenon DEF Running, RequestsOK
  <2>3. QED
    BY <2>1, <2>2
<1>7. QED
  BY <1>5, <1>6, Zenon DEF RequestsOK

LEMMA ParseTypes ==
  ASSUME RequestsOK, NEW r \in Requests, ParseField(r)
  PROVE  RequestsOK'
<1>1. r \in Running /\ req[r] \in Request /\ req[r].sent \in Message
  <2>1. r \in Running
    BY DEF ParseField, Running
  <2>2. QED
    BY <2>1, Zenon DEF RequestsOK
<1>2. PICK f \in req[r].todo : \E s \in OrBlended(r, f, Value(req[r].sent, f)) :
         /\ sub' = [sub EXCEPT ![f] = s]
         /\ req' = [req EXCEPT ![r].todo = @ \ {f},
                              ![r].pc = IF req[r].todo = {f} THEN "confirm" ELSE "parse"]
  BY Zenon DEF ParseField
<1>3. PICK s \in OrBlended(r, f, Value(req[r].sent, f)) :
         /\ sub' = [sub EXCEPT ![f] = s]
         /\ req' = [req EXCEPT ![r].todo = @ \ {f},
                              ![r].pc = IF req[r].todo = {f} THEN "confirm" ELSE "parse"]
  BY <1>2
<1>4. s \in Strings
  <2>1. Value(req[r].sent, f) \in Strings
    BY <1>1 DEF Value, Message, Strings, Texts
  <2>2. QED
    BY <2>1 DEF OrBlended, Blended, Strings
<1> DEFINE me == [req[r] EXCEPT !.todo = @ \ {f},
                   !.pc = IF req[r].todo = {f} THEN "confirm" ELSE "parse"]
<1>5. me \in Request /\ me.sent = req[r].sent
  <2>1. (IF req[r].todo = {f} THEN "confirm" ELSE "parse") \in {"parse", "confirm"}
    OBVIOUS
  <2>2. req[r].todo \ {f} \in SUBSET Fields
    BY <1>1, Zenon DEF Request
  <2>3. QED
    BY <1>1, <2>1, <2>2, Zenon DEF Request
<1>6. req' = [req EXCEPT ![r] = me]
  BY <1>3, Zenon
<1> HIDE DEF me
<1>7. sub' \in [Fields -> Strings]
  BY <1>3, <1>4, Zenon DEF RequestsOK
<1>8. rds' = rds
  BY Zenon DEF ParseField
<1>9. QED
  BY <1>1, <1>5, <1>6, <1>7, <1>8, RequestTyped, Zenon DEF RequestsOK
LEMMA ConfirmTypes ==
  ASSUME TypeInv, NEW r \in Requests, Confirm(r)
  PROVE  TypeInv'
<1>1. r \in Running
  BY DEF Confirm, Running
<1>2. PICK pc \in {"done", "target"} : Goto(r, pc)
  BY Zenon DEF Confirm
<1>3. confirmed' \subseteq Names
  <2>1. PICK url : confirmed' = confirmed \cup ({url} \cap topics)
    BY Zenon DEF Confirm
  <2>2. QED
    BY <2>1, Zenon DEF TypeInv, AlarmsOK
<1>4. UNCHANGED <<rds, flagged, topics, rules, caller, overlap, sub, budget>>
  BY Zenon DEF Confirm
<1>5. req' \in [Requests -> Request] /\ \A q \in Running' : req'[q].sent \in Message
  BY <1>1, <1>2, GotoTyped, Zenon DEF TypeInv, RunningPcs
<1>6. QED
  BY <1>3, <1>4, <1>5, Zenon DEF TypeInv, AlarmsOK, RequestsOK, BudgetOK

\* What a target step makes of a request.
Targeted(r, n, o) == [req[r] EXCEPT !.pc = "disk", !.target = n, !.copy = o]

LEMMA TargetSteps ==
  ASSUME NEW r \in Requests, Target(r)
  PROVE  /\ req[r].pc = "target"
         /\ \/ \E n \in Reads(r, "topic") \cap Names : \E o \in {rds[n], NoRds} \ {Absent} :
                 req' = [req EXCEPT ![r] = Targeted(r, n, o)]
            \/ \E pc \in {"done", "disk"} : Goto(r, pc)
         /\ UNCHANGED <<rds, alarmVars, sub>>
         /\ budget' = budget \/ Spend("fault")
<1>1. UNCHANGED <<rds, alarmVars, sub>> /\ req[r].pc = "target"
  BY Zenon DEF Target
<1>2. CASE \E n \in Reads(r, "topic") \cap Names : \E o \in {rds[n], NoRds} \ {Absent} :
             /\ req' = [req EXCEPT ![r].pc = "disk", ![r].target = n, ![r].copy = o]
             /\ IF o = NoRds /\ rds[n] # Absent THEN Spend("fault") ELSE UNCHANGED budget
  <2>1. PICK n \in Reads(r, "topic") \cap Names : \E o \in {rds[n], NoRds} \ {Absent} :
             /\ req' = [req EXCEPT ![r].pc = "disk", ![r].target = n, ![r].copy = o]
             /\ IF o = NoRds /\ rds[n] # Absent THEN Spend("fault") ELSE UNCHANGED budget
    BY <1>2
  <2>2. PICK o \in {rds[n], NoRds} \ {Absent} :
             /\ req' = [req EXCEPT ![r].pc = "disk", ![r].target = n, ![r].copy = o]
             /\ IF o = NoRds /\ rds[n] # Absent THEN Spend("fault") ELSE UNCHANGED budget
    BY <2>1
  <2>3. req' = [req EXCEPT ![r] = Targeted(r, n, o)]
    BY <2>2, Zenon DEF Targeted
  <2>4. budget' = budget \/ Spend("fault")
    BY <2>2, Zenon
  <2>5. QED
    BY <1>1, <2>3, <2>4, Zenon
<1>3. CASE (Goto(r, "done") \/ Goto(r, "disk")) /\ UNCHANGED budget
  BY <1>1, <1>3, Zenon
<1>4. QED
  BY <1>2, <1>3, Zenon DEF Target

LEMMA TargetTypes ==
  ASSUME TypeInv, NEW r \in Requests, Target(r)
  PROVE  TypeInv'
<1>1. r \in Running /\ req[r] \in Request /\ req[r].sent \in Message
  <2>1. r \in Running
    BY DEF Target, Running
  <2>2. QED
    BY <2>1, Zenon DEF TypeInv, RequestsOK
<1>2. ASSUME NEW n \in Names, NEW o \in Rds
      PROVE  Targeted(r, n, o) \in Request /\ Targeted(r, n, o).sent = req[r].sent
  BY <1>1, Zenon DEF Targeted, Request
<1>3. req' \in [Requests -> Request] /\ \A q \in Running' : req'[q].sent \in Message
  <2>1. CASE \E pc \in {"done", "disk"} : Goto(r, pc)
    BY <1>1, <2>1, GotoTyped, Zenon DEF TypeInv, RunningPcs
  <2>2. CASE \E n \in Names : \E o \in {rds[n], NoRds} \ {Absent} :
               req' = [req EXCEPT ![r] = Targeted(r, n, o)]
    <3>1. PICK n \in Names : \E o \in {rds[n], NoRds} \ {Absent} :
               req' = [req EXCEPT ![r] = Targeted(r, n, o)]
      BY <2>2
    <3>2. PICK o \in {rds[n], NoRds} \ {Absent} : req' = [req EXCEPT ![r] = Targeted(r, n, o)]
      BY <3>1
    <3>3. o \in Rds
      <4>1. NoRds \in Rds
        BY DEF NoRds, Rds
      <4>2. QED
        BY <4>1, Zenon DEF TypeInv, RequestsOK
    <3>4. QED
      BY <1>1, <1>2, <3>2, <3>3, RequestTyped, Zenon DEF TypeInv
  <2>3. QED
    BY <1>1, <2>1, <2>2, TargetSteps, Zenon
<1>4. BudgetOK'
  BY <1>1, TargetSteps, Spent, Zenon DEF TypeInv, BudgetOK, Kinds
<1>5. QED
  BY <1>1, <1>3, <1>4, TargetSteps, Zenon DEF TypeInv, AlarmsOK, RequestsOK, alarmVars

------------------------------------------------------------------------------
\* The write of a section: the new state of its request, and what is stored.
Written(r, o, pc) == [req[r] EXCEPT !.pc = pc, !.copy = o]

LEMMA PutSteps ==
  ASSUME NEW r \in Requests, NEW o, NEW pc, Put(r, o, pc)
  PROVE  /\ req' = [req EXCEPT ![r] = Written(r, o, pc)]
         /\ \/ rds' = rds
            \/ /\ CanPut(req[r].target, o)
               /\ rds' = [rds EXCEPT ![req[r].target] =
                            [o EXCEPT !.rv = rds[req[r].target].rv + 1]]
         /\ budget' = budget \/ Spend("fault")
BY Zenon DEF Put, Written

LEMMA PutTypes ==
  ASSUME RequestsOK, BudgetOK, NEW r \in Running, NEW o \in Rds,
         NEW pc \in RunningPcs \cup {"done"}, Put(r, o, pc), sub' = sub
  PROVE  RequestsOK' /\ BudgetOK'
<1>1. r \in Requests /\ req[r] \in Request /\ req[r].sent \in Message
  BY Zenon DEF RequestsOK, Running
<1>2. Written(r, o, pc) \in Request /\ Written(r, o, pc).sent = req[r].sent
  BY <1>1, Zenon DEF Written, Request, RunningPcs
<1>3. req' \in [Requests -> Request] /\ \A q \in Running' : req'[q].sent \in Message
  <2>1. req' = [req EXCEPT ![r] = Written(r, o, pc)]
    BY Zenon DEF Put, Written
  <2>2. QED
    BY <1>1, <1>2, <2>1, RequestTyped, Zenon
<1>4. rds' \in [Names -> Rds \cup {Absent}]
  <2>1. CASE rds' = rds
    BY <2>1, Zenon DEF RequestsOK
  <2>2. CASE /\ CanPut(req[r].target, o)
             /\ rds' = [rds EXCEPT ![req[r].target] =
                          [o EXCEPT !.rv = rds[req[r].target].rv + 1]]
    <3>1. req[r].target \in Names /\ rds[req[r].target] # Absent
      BY <1>1, <2>2, Zenon DEF CanPut, Request
    <3>2. rds[req[r].target] \in Rds
      BY <3>1, Zenon DEF RequestsOK
    <3>3. rds[req[r].target].rv + 1 \in Nat
      BY <3>2 DEF Rds
    <3>4. [o EXCEPT !.rv = rds[req[r].target].rv + 1] \in Rds
      BY <3>3, Zenon DEF Rds
    <3>5. QED
      BY <2>2, <3>4, Zenon DEF RequestsOK
  <2>3. QED
    BY <1>1, <2>1, <2>2, PutSteps, Zenon
<1>5. BudgetOK'
  BY <1>1, PutSteps, Spent, Zenon DEF BudgetOK, Kinds
<1>6. QED
  BY <1>3, <1>4, <1>5, Zenon DEF RequestsOK

LEMMA DiskTypes ==
  ASSUME TypeInv, NEW r \in Requests, Disk(r)
  PROVE  TypeInv'
<1>1. r \in Running /\ req[r] \in Request
  BY DEF Disk, Running, TypeInv, RequestsOK
<1>2. AlarmsOK'
  BY Zenon DEF Disk, TypeInv, AlarmsOK, alarmVars
<1>3. sub' = sub
  BY Zenon DEF Disk
<1>4. CASE Put(r, [req[r].copy EXCEPT !.vol = @ + 10], "cpu")
  <2>1. req[r].copy \in Rds
    BY <1>1, Zenon DEF Request
  <2>2. req[r].copy.vol + 10 \in Nat
    BY <2>1 DEF Rds
  <2>3. [req[r].copy EXCEPT !.vol = @ + 10] \in Rds
    BY <2>1, <2>2, Zenon DEF Rds
  <2>4. QED
    BY <1>1, <1>2, <1>3, <1>4, <2>3, PutTypes, Zenon DEF TypeInv, RunningPcs
<1>5. CASE Goto(r, "cpu") /\ UNCHANGED <<rds, budget>>
  BY <1>1, <1>2, <1>3, <1>5, GotoTyped, Zenon DEF TypeInv, RunningPcs, RequestsOK, BudgetOK
<1>6. QED
  BY <1>4, <1>5, Zenon DEF Disk
LEMMA CodesFound ==
  ASSUME NEW o, NEW raise, NEW code \in RdsFlavorLookup(o, raise)
  PROVE  code \in Codes
<1>1. PICK f \in Candidates(o, raise) : f.code = code
  BY Zenon DEF RdsFlavorLookup
<1>2. f \in Flavor
  BY CatalogueIsListed, <1>1, Zenon DEF Candidates
<1>3. f.code \in Codes
  BY <1>2, SMT DEF Flavor
<1>4. QED
  BY <1>1, <1>3, Zenon

LEMMA ExitTypes ==
  ASSUME AlarmsOK, RequestsOK, Exit
  PROVE  AlarmsOK' /\ RequestsOK'
<1>1. AlarmsOK'
  <2>1. IdleCaller \in Caller /\ IdleCaller.pc = "idle"
    BY SMT DEF IdleCaller, Caller
  <2>2. caller' = [c \in Callers |-> IdleCaller]
        /\ UNCHANGED <<rds, topics, confirmed, rules, overlap>>
        /\ flagged' \subseteq flagged
    BY Zenon DEF Exit
  <2>3. QED
    BY <2>1, <2>2, Zenon DEF AlarmsOK
<1>2. sub' \in [Fields -> Strings] /\ rds' = rds
  <2>1. NoSubscriber \in [Fields -> Strings]
    BY DEF NoSubscriber, Strings
  <2>2. QED
    BY <2>1, Zenon DEF Exit
<1> DEFINE over == [NewRequest EXCEPT !.pc = "done"]
<1>3. req' = [q \in Requests |-> IF q \in Running THEN over ELSE req[q]]
  BY Zenon DEF Exit
<1>4. over \in Request /\ over.pc = "done"
  BY FreshRequest, Zenon DEF Request
<1> HIDE DEF over
<1>5. req' \in [Requests -> Request]
  BY <1>3, <1>4, Zenon DEF RequestsOK
<1>6. \A q \in Requests : q \notin Running'
  <2>1. \A q \in Requests : req'[q] = IF q \in Running THEN over ELSE req[q]
    BY <1>3, Zenon
  <2>2. QED
    BY <1>4, <2>1, Zenon DEF Running
<1>7. QED
  BY <1>1, <1>2, <1>5, <1>6, Zenon DEF RequestsOK, Running

LEMMA FlavoredTypes ==
  ASSUME TypeInv, NEW r \in Requests, NEW raise \in {"cpu", "mem"},
         NEW next \in {"mem", "done"}, Flavored(r, raise, next)
  PROVE  TypeInv'
<1>1. r \in Running /\ req[r] \in Request
  BY DEF Flavored, Running, TypeInv, RequestsOK
<1> DEFINE o == req[r].copy
<1>2. o \in Rds
  BY <1>1, Zenon DEF Request
<1> HIDE DEF o
<1>3. ASSUME NEW code \in RdsFlavorLookup(o, raise),
             Put(r, [o EXCEPT !.flavor = code], next), UNCHANGED <<alarmVars, sub>>
      PROVE  TypeInv'
  <2>1. [o EXCEPT !.flavor = code] \in Rds
    BY <1>2, CodesFound, Zenon DEF Rds
  <2>2. RequestsOK' /\ BudgetOK'
    BY <1>1, <1>3, <2>1, PutTypes, Zenon DEF TypeInv, RunningPcs
  <2>3. QED
    BY <1>3, <2>2, Zenon DEF TypeInv, AlarmsOK, alarmVars
<1>4. ASSUME Goto(r, next), UNCHANGED <<rds, alarmVars, sub, budget>>
      PROVE  TypeInv'
  BY <1>1, <1>4, GotoTyped, Zenon
     DEF TypeInv, RunningPcs, RequestsOK, BudgetOK, AlarmsOK, alarmVars
<1>5. ASSUME Exit, budget' = budget \/ Spend("fault")
      PROVE  TypeInv'
  BY <1>5, ExitTypes, Spent, Zenon DEF TypeInv, BudgetOK, Kinds
<1>6. QED
  BY <1>3, <1>4, <1>5, Zenon DEF Flavored, o

------------------------------------------------------------------------------
\* The callers and the users.

LEMMA SubscribeTypes ==
  ASSUME TypeInv, NEW c \in Callers, NEW r \in Requests, Subscribe(c, r)
  PROVE  TypeInv'
<1>1. /\ caller[c].pc # "idle" /\ caller[c].name \in Names
      /\ Calls(c, "check")
      /\ Arrive(r, [topic |-> caller[c].name, text |-> "invitation"], TRUE)
      /\ UNCHANGED <<rds, flagged, topics, confirmed, rules, overlap, sub, budget>>
  <2>1. caller[c].pc # "idle" /\ caller[c].name \in Names
    BY DEF Subscribe, TypeInv, AlarmsOK
  <2>2. QED
    BY <2>1, Zenon DEF Subscribe
<1>2. [topic |-> caller[c].name, text |-> "invitation"] \in Message
  BY <1>1 DEF Message, Texts
<1>3. RequestsOK'
  BY <1>1, <1>2, ArriveTypes, Zenon DEF TypeInv
<1>4. QED
  BY <1>1, <1>3, CallsTyped, Zenon DEF TypeInv, AlarmsOK, BudgetOK

LEMMA NotSubscribedTypes ==
  ASSUME TypeInv, NEW c \in Callers, NotSubscribed(c)
  PROVE  TypeInv'
<1>1. /\ caller[c].pc # "idle"
      /\ Calls(c, "check")
      /\ UNCHANGED <<rds, flagged, topics, confirmed, rules, overlap, sub, req>>
  BY DEF NotSubscribed
<1>2. BudgetOK'
  BY Spent, Zenon DEF NotSubscribed, TypeInv, BudgetOK, Kinds
<1>3. AlarmsOK'
  BY <1>1, CallsTyped, Zenon DEF TypeInv, AlarmsOK
<1>4. RequestsOK'
  BY <1>1, Zenon DEF TypeInv, RequestsOK, Running
<1>5. QED
  BY <1>2, <1>3, <1>4 DEF TypeInv

\* The steps of the callers leave resources, requests and the variable alone.
LEMMA CallersQuiet ==
  ASSUME NEW c \in Callers,
         \/ CallAlarms(c) /\ UNCHANGED <<sub, req>>
         \/ AlarmsFail(c)
         \/ NotSubscribed(c)
  PROVE  UNCHANGED <<rds, sub, req>>
BY Zenon DEF CallAlarms, AlarmsFail, NotSubscribed, BeginCreate, BeginDelete, CreateTopic,
     CheckRule, CreateRule, DeleteAlarm, ListRules, DeleteRule, DeleteTopic, RdsDeleted,
     TopicNotMade, CreateReturns, RuleStays, TopicStays, DeleteReturns

LEMMA CallAlarmsTypes ==
  ASSUME TypeInv, NEW c \in Callers,
         (CallAlarms(c) /\ UNCHANGED <<sub, req>>) \/ AlarmsFail(c)
  PROVE  TypeInv'
<1>1. RequestsOK'
  BY CallersQuiet, Zenon DEF TypeInv, RequestsOK, Running
<1>2. BudgetOK'
  BY Spent, Zenon DEF CallAlarms, AlarmsFail, TypeInv, BudgetOK, Kinds
<1>3. AlarmsOK'
  <2>1. CASE CallAlarms(c)
    <3>1. \/ \E n \in Names : BeginCreate(c, n) \/ BeginDelete(c, n)
          \/ CreateTopic(c) \/ CheckRule(c) \/ CreateRule(c, 1) \/ DeleteAlarm(c)
      BY <2>1, Zenon DEF CallAlarms
    <3>2. 1 \in Nat
      OBVIOUS
    <3>3. QED
      BY <3>1, <3>2, BeginTypes, CreateTypes, DeleteTypes, Zenon DEF TypeInv
  <2>2. CASE AlarmsFail(c)
    <3>1. 0 \in Nat
      OBVIOUS
    <3>2. QED
      BY <2>2, <3>1, CreateTypes, FailTypes, Zenon DEF AlarmsFail, TypeInv
  <2>3. QED
    BY <2>1, <2>2
<1>4. QED
  BY <1>1, <1>2, <1>3 DEF TypeInv

LEMMA ListFailsTypes ==
  ASSUME TypeInv, NEW c \in Callers, ListFails(c)
  PROVE  TypeInv'
BY ExitTypes, Spent, Zenon DEF ListFails, TypeInv, Kinds

LEMMA FireTypes ==
  ASSUME TypeInv, NEW r \in Requests, NEW n \in Names, NEW m \in Metrics,
         Fire(r, n, m) \/ Cut(r, n, m)
  PROVE  TypeInv'
<1>1. PICK whole \in BOOLEAN : Arrive(r, [topic |-> n, text |-> m], whole)
  BY Zenon DEF Fire, Cut
<1>2. [topic |-> n, text |-> m] \in Message
  BY Zenon DEF Message, Texts
<1>3. BudgetOK'
  BY Spent, Zenon DEF Fire, Cut, TypeInv, Kinds
<1>4. UNCHANGED <<rds, alarmVars, sub>>
  BY Zenon DEF Fire, Cut
<1>5. RequestsOK'
  BY <1>1, <1>2, <1>4, ArriveTypes, Zenon DEF TypeInv
<1>6. QED
  BY <1>3, <1>4, <1>5, Zenon DEF TypeInv, AlarmsOK, alarmVars

LEMMA UserTypes ==
  ASSUME TypeInv, NEW n \in Names, UserEdit(n) \/ UserDelete(n)
  PROVE  TypeInv'
<1>1. UNCHANGED <<alarmVars, sub, req>>
  BY Zenon DEF UserEdit, UserDelete
<1>2. BudgetOK'
  BY Spent, Zenon DEF UserEdit, UserDelete, TypeInv, Kinds
<1>3. rds' \in [Names -> Rds \cup {Absent}]
  <2>1. CASE UserDelete(n)
    BY <2>1, Zenon DEF UserDelete, TypeInv, RequestsOK
  <2>2. CASE UserEdit(n)
    <3>1. rds[n] \in Rds
      BY <2>2, Zenon DEF UserEdit, TypeInv, RequestsOK
    <3>2. PICK v \in Edits, m \in Names :
            rds' = [rds EXCEPT ![n].vol = v, ![n].flavor = Placed[m].flavor, ![n].rv = @ + 1]
      BY <2>2, Zenon DEF UserEdit
    <3>3. v \in Nat /\ Placed[m].flavor \in Codes /\ rds[n].rv + 1 \in Nat
      <4>1. Placed[m] \in [flavor : Codes, zones : SUBSET Zones]
        BY PlacedAreSpecs, Zenon
      <4>2. rds[n].rv \in Nat
        BY <3>1 DEF Rds
      <4>3. QED
        BY <4>1, <4>2, EditsAreSizes
    <3> DEFINE o == [rds[n] EXCEPT !.vol = v, !.flavor = Placed[m].flavor, !.rv = @ + 1]
    <3>4. o \in Rds
      BY <3>1, <3>3, Zenon DEF Rds
    <3>5. rds' = [rds EXCEPT ![n] = o]
      BY <3>2, Zenon
    <3> HIDE DEF o
    <3>6. QED
      BY <3>4, <3>5, Zenon DEF TypeInv, RequestsOK
  <2>3. QED
    BY <2>1, <2>2
<1>4. QED
  BY <1>1, <1>2, <1>3, Zenon DEF TypeInv, AlarmsOK, RequestsOK, Running, alarmVars

------------------------------------------------------------------------------
\* The invariant.

LEMMA TypeInit ==
  ASSUME Init
  PROVE  TypeInv
<1>1. PICK s \in Scenarios : flagged = s.watched /\ budget = s.budget
  BY Zenon DEF Init
<1>2. s.watched \subseteq Names /\ s.budget \in [Kinds -> Nat]
  BY ScenariosAreSome, Zenon
<1>3. AlarmsOK
  <2>1. rules \in [RuleNames -> Nat]
    <3>1. rules = [x \in RuleNames |-> IF x[1] \in flagged THEN 1 ELSE 0]
      BY Zenon DEF Init
    <3>2. QED
      BY <3>1
  <2>2. IdleCaller \in Caller /\ IdleCaller.pc = "idle"
    BY SMT DEF IdleCaller, Caller
  <2>3. caller = [c \in Callers |-> IdleCaller]
    BY Zenon DEF Init
  <2>4. /\ caller \in [Callers -> Caller]
        /\ \A c \in Callers : caller[c].pc # "idle" => caller[c].name \in Names
    BY <2>2, <2>3, Zenon
  <2>5. topics = flagged /\ confirmed = flagged /\ overlap = {}
    BY Zenon DEF Init
  <2>6. QED
    BY <1>1, <1>2, <2>1, <2>4, <2>5 DEF AlarmsOK
<1>4. RequestsOK
  <2>1. rds \in [Names -> Rds \cup {Absent}]
    <3> DEFINE o(n) == [rv |-> 1, vol |-> 100, flavor |-> Placed[n].flavor,
                        zones |-> Placed[n].zones]
    <3>1. ASSUME NEW n \in Names
          PROVE  o(n) \in Rds
      <4>1. Placed[n] \in [flavor : Codes, zones : SUBSET Zones]
        BY PlacedAreSpecs, Zenon
      <4>2. QED
        BY <4>1 DEF Rds
    <3>2. rds = [n \in Names |-> o(n)]
      BY Zenon DEF Init
    <3> HIDE DEF o
    <3>3. QED
      BY <3>1, <3>2, Zenon
  <2>2. sub \in [Fields -> Strings]
    BY DEF Init, NoSubscriber, Strings
  <2>3. req = [r \in Requests |-> NewRequest]
    BY Zenon DEF Init
  <2>4. QED
    BY <2>1, <2>2, <2>3, FreshRequest, Zenon DEF RequestsOK, Running
<1>5. QED
  BY <1>1, <1>2, <1>3, <1>4, Zenon DEF TypeInv, BudgetOK

LEMMA ReceiveTypes ==
  ASSUME TypeInv, NEW r \in Requests, Receive(r)
  PROVE  TypeInv'
<1>1. CASE ParseField(r)
  <2>1. RequestsOK'
    BY <1>1, ParseTypes, Zenon DEF TypeInv
  <2>2. UNCHANGED <<rds, alarmVars, budget>>
    BY <1>1, Zenon DEF ParseField
  <2>3. QED
    BY <2>1, <2>2, Zenon DEF TypeInv, AlarmsOK, BudgetOK, alarmVars
<1>2. CASE Confirm(r)
  BY <1>2, ConfirmTypes
<1>3. CASE Target(r)
  BY <1>3, TargetTypes
<1>4. CASE Disk(r)
  BY <1>4, DiskTypes
<1>5. CASE Cpu(r)
  BY <1>5, FlavoredTypes, Zenon DEF Cpu
<1>6. CASE Mem(r)
  BY <1>6, FlavoredTypes, Zenon DEF Mem
<1>7. QED
  BY <1>1, <1>2, <1>3, <1>4, <1>5, <1>6, Zenon DEF Receive

LEMMA TypeStep ==
  ASSUME TypeInv, [Next]_vars
  PROVE  TypeInv'
<1>1. CASE \E r \in Requests : Receive(r)
  BY <1>1, ReceiveTypes, Zenon
<1>2. CASE \E r \in Requests, n \in Names, m \in Metrics : Fire(r, n, m) \/ Cut(r, n, m)
  BY <1>2, FireTypes, Zenon
<1>3. CASE \E c \in Callers :
             \/ CallAlarms(c) /\ UNCHANGED <<sub, req>>
             \/ AlarmsFail(c)
             \/ ListFails(c)
             \/ NotSubscribed(c)
             \/ \E r \in Requests : Subscribe(c, r)
  BY <1>3, CallAlarmsTypes, ListFailsTypes, NotSubscribedTypes, SubscribeTypes, Zenon
<1>4. CASE \E n \in Names : UserEdit(n) \/ UserDelete(n)
  BY <1>4, UserTypes, Zenon
<1>5. CASE UNCHANGED vars
  BY <1>5, Zenon DEF vars, alarmVars, TypeInv, AlarmsOK, RequestsOK, BudgetOK, Running
<1>6. QED
  BY <1>1, <1>2, <1>3, <1>4, <1>5, Zenon DEF Next

\* Whatever alarms, callers and users do, every variable keeps to its type: no rule
\* is counted below none, and what the requests leave in the variable they share
\* is something that was sent, or a torn piece of it.
THEOREM TypeCorrect == Spec => []TypeOK
<1>1. TypeInv => TypeOK
  BY Zenon DEF TypeInv, AlarmsOK, RequestsOK, BudgetOK, TypeOK
<1>2. QED
  BY <1>1, TypeInit, TypeStep, PTL DEF Spec

------------------------------------------------------------------------------
\* DeleteAlarm.

CreatePcs == {"topic", "subscribe", "check", "disk", "cpu", "mem"}
DeletePcs == {"list", "rules", "remove", "rdsDelete"}

\* With the topics t and the rules r: m is a metric, or "topic".
Left(t, r, n, m) == IF m = "topic" THEN n \in t ELSE r[<<n, m>>] > 0

Gone(c) ==
    LET n == caller[c].name IN
    /\ n \notin overlap =>
         /\ ~Creating(n)
         /\ caller[c].pc # "list" =>
              \A m \in Metrics : Left(topics, rules, n, m) =>
                   <<n, m>> \in caller[c].todo \cup caller[c].failed
         /\ caller[c].pc = "rdsDelete" /\ Left(topics, rules, n, "topic") =>
              <<n, "topic">> \in caller[c].failed
    /\ caller[c].pc \in {"remove", "rdsDelete"} => caller[c].todo = {}

GoneInv == \A c \in Callers : caller[c].pc \in DeletePcs => Gone(c)

------------------------------------------------------------------------------
\* A caller that does not go on with a delete leaves what others delete alone, or
\* is known to overlap.
LEMMA OthersGone ==
  ASSUME TypeInv, GoneInv, NEW d \in Callers, NEW me,
         caller' = [caller EXCEPT ![d] = me],
         me.pc \notin DeletePcs,
         me.pc \in CreatePcs =>
           \/ me.name \in overlap' \/ ~Deleting(me.name)
           \/ caller[d].pc \in CreatePcs /\ caller[d].name = me.name,
         \/ rules' = rules /\ topics' = topics
         \/ /\ caller[d].pc \in CreatePcs
            /\ \A n \in Names \ {caller[d].name}, m \in Metrics \cup {"topic"} :
                 Left(topics', rules', n, m) => Left(topics, rules, n, m),
         overlap \subseteq overlap'
  PROVE  GoneInv'
<1> SUFFICES ASSUME NEW c \in Callers, caller'[c].pc \in DeletePcs
             PROVE  Gone(c)'
  BY Zenon DEF GoneInv
<1> USE DEF CreatePcs, DeletePcs
<1>1. /\ caller'[d] = me
      /\ \A e \in Callers : e # d => caller'[e] = caller[e]
  BY Zenon DEF TypeInv, AlarmsOK
<1>2. caller'[c] = caller[c] /\ c # d
  BY <1>1
<1> DEFINE n == caller[c].name
<1>3. n \in Names /\ Gone(c) /\ Deleting(n)
  <2>1. caller[c].pc # "idle"
    BY <1>2
  <2>2. QED
    BY <1>2, <2>1, Zenon DEF TypeInv, AlarmsOK, GoneInv, Deleting
<1>4. ASSUME n \notin overlap'
      PROVE  /\ n \notin overlap /\ ~Creating(n)'
             /\ \A m \in Metrics \cup {"topic"} : Left(topics', rules', n, m) =>
                  Left(topics, rules, n, m)
  <2>1. n \notin overlap /\ ~Creating(n)
    BY <1>3, <1>4, Zenon DEF Gone
  <2>2. caller[d].pc \in CreatePcs => caller[d].name # n
    BY <2>1, Zenon DEF Creating
  <2>3. me.pc \in CreatePcs => me.name # n
    BY <1>3, <1>4, <2>2, Zenon
  <2>4. ~Creating(n)'
    BY <1>1, <2>1, <2>3, Zenon DEF Creating
  <2>5. ASSUME NEW m \in Metrics \cup {"topic"}
        PROVE  Left(topics', rules', n, m) => Left(topics, rules, n, m)
    BY <1>3, <2>2, Zenon DEF Left
  <2>6. QED
    BY <2>1, <2>4, <2>5, Zenon
<1>5. "topic" \in Metrics \cup {"topic"} /\ Metrics \subseteq Metrics \cup {"topic"}
  OBVIOUS
<1>6. QED
  BY <1>2, <1>3, <1>4, <1>5, Zenon DEF Gone

LEMMA BeginGone ==
  ASSUME TypeInv, GoneInv, NEW d \in Callers, NEW n \in Names, BeginDelete(d, n)
  PROVE  GoneInv'
<1> SUFFICES ASSUME NEW c \in Callers, caller'[c].pc \in DeletePcs
             PROVE  Gone(c)'
  BY Zenon DEF GoneInv
<1> USE DEF CreatePcs, DeletePcs
<1> DEFINE me == [IdleCaller EXCEPT !.pc = "list", !.name = n]
<1>1. /\ caller[d].pc = "idle" /\ ~Deleting(n)
      /\ caller' = [caller EXCEPT ![d] = me]
      /\ overlap' = IF Creating(n) THEN overlap \cup {n} ELSE overlap \ {n}
      /\ topics' = topics /\ rules' = rules
  BY Zenon DEF BeginDelete
<1>2. me.pc = "list" /\ me.name = n
  BY DEF IdleCaller
<1> HIDE DEF me
<1>3. /\ caller'[d] = me
      /\ \A e \in Callers : e # d => caller'[e] = caller[e]
  BY <1>1, Zenon DEF TypeInv, AlarmsOK
<1>4. ASSUME NEW k, ~Creating(k)
      PROVE  ~Creating(k)'
  <2>1. me.pc \notin CreatePcs
    BY <1>2
  <2>2. QED
    BY <1>3, <1>4, <2>1, Zenon DEF Creating
<1>5. CASE c = d
  <2>1. n \notin overlap' => ~Creating(n)'
    BY <1>1, <1>4, Zenon
  <2>2. /\ caller'[c].name = n
        /\ caller'[c].pc = "list" /\ caller'[c].pc \notin {"remove", "rdsDelete"}
        /\ caller'[c].pc # "rdsDelete"
    BY <1>2, <1>3, <1>5
  <2>3. QED
    BY <2>1, <2>2, Zenon DEF Gone
<1>6. CASE c # d
  <2>1. caller'[c] = caller[c] /\ Gone(c)
    BY <1>3, <1>6, Zenon DEF GoneInv
  <2>2. caller[c].name # n
    BY <1>1, <2>1, Zenon DEF Deleting
  <2>3. caller[c].name \notin overlap' => caller[c].name \notin overlap
    BY <1>1, <2>2
  <2> DEFINE k == caller[c].name
  <2>4. k \notin overlap' =>
          /\ ~Creating(k)'
          /\ caller[c].pc # "list" =>
               \A m \in Metrics : Left(topics', rules', k, m) =>
                 <<k, m>> \in caller[c].todo \cup caller[c].failed
          /\ caller[c].pc = "rdsDelete" /\ Left(topics', rules', k, "topic") =>
               <<k, "topic">> \in caller[c].failed
    <3>1. topics' = topics /\ rules' = rules
      BY <1>1
    <3>2. k \notin overlap' =>
            /\ ~Creating(k)
            /\ caller[c].pc # "list" =>
                 \A m \in Metrics : Left(topics, rules, k, m) =>
                   <<k, m>> \in caller[c].todo \cup caller[c].failed
            /\ caller[c].pc = "rdsDelete" /\ Left(topics, rules, k, "topic") =>
                 <<k, "topic">> \in caller[c].failed
      BY <2>1, <2>3, Zenon DEF Gone
    <3>3. ~Creating(k) => ~Creating(k)'
      BY <1>4, <2>1, Zenon
    <3>4. QED
      BY <3>1, <3>2, <3>3
  <2>5. QED
    BY <2>1, <2>4, Zenon DEF Gone
<1>7. QED
  BY <1>5, <1>6

\* A caller that goes on with a delete: it takes rules away, and what is left is on
\* its list or has failed.
LEMMA DeletersGone ==
  ASSUME TypeInv, GoneInv, NEW d \in Callers, NEW me,
         caller[d].pc \in DeletePcs, me.pc \in {"rules", "remove", "rdsDelete"},
         me.name = caller[d].name,
         caller' = [caller EXCEPT ![d] = me],
         \A n \in Names, m \in Metrics \cup {"topic"} : Left(topics', rules', n, m) =>
              Left(topics, rules, n, m),
         \A m \in Metrics :
           /\ \/ caller[d].pc = "list"
              \/ <<me.name, m>> \in caller[d].todo \cup caller[d].failed
           /\ Left(topics', rules', me.name, m)
           => <<me.name, m>> \in me.todo \cup me.failed,
         me.pc \in {"remove", "rdsDelete"} => me.todo = {},
         me.pc = "rdsDelete" /\ Left(topics', rules', me.name, "topic") =>
              <<me.name, "topic">> \in me.failed,
         overlap' = overlap
  PROVE  GoneInv'
<1> SUFFICES ASSUME NEW c \in Callers, caller'[c].pc \in DeletePcs
             PROVE  Gone(c)'
  BY Zenon DEF GoneInv
<1> USE DEF CreatePcs, DeletePcs
<1>1. /\ caller'[d] = me
      /\ \A e \in Callers : e # d => caller'[e] = caller[e]
  BY Zenon DEF TypeInv, AlarmsOK
<1>2. ASSUME NEW k, ~Creating(k)
      PROVE  ~Creating(k)'
  <2>1. me.pc \notin CreatePcs
    OBVIOUS
  <2>2. QED
    BY <1>1, <1>2, <2>1, Zenon DEF Creating
<1>3. ASSUME NEW e \in Callers, caller[e].pc \in DeletePcs
      PROVE  /\ caller[e].name \in Names /\ Gone(e)
             /\ \A m \in Metrics \cup {"topic"} :
                  Left(topics', rules', caller[e].name, m) =>
                       Left(topics, rules, caller[e].name, m)
  <2>1. caller[e].pc # "idle"
    BY <1>3
  <2>2. caller[e].name \in Names /\ Gone(e)
    BY <1>3, <2>1, Zenon DEF TypeInv, AlarmsOK, GoneInv
  <2>3. QED
    BY <2>2, Zenon
<1>4. "topic" \in Metrics \cup {"topic"} /\ Metrics \subseteq Metrics \cup {"topic"}
  OBVIOUS
<1>5. CASE c = d
  <2>1. /\ Gone(d)
        /\ \A m \in Metrics : Left(topics', rules', me.name, m) => Left(topics, rules, me.name, m)
    BY <1>3, <1>4, Zenon
  <2>2. ASSUME me.name \notin overlap, NEW m \in Metrics, Left(topics', rules', me.name, m)
        PROVE  <<me.name, m>> \in me.todo \cup me.failed
    BY <2>1, <2>2, Zenon DEF Gone
  <2>3. caller'[c] = me /\ me.name = caller[d].name
    BY <1>1, <1>5
  <2>4. me.name \notin overlap' => ~Creating(me.name)'
    BY <1>2, <2>1, <2>3, Zenon DEF Gone
  <2>5. me.name \notin overlap' =>
             \A m \in Metrics : Left(topics', rules', me.name, m) =>
                  <<me.name, m>> \in me.todo \cup me.failed
    BY <2>2, Zenon
  <2>6. QED
    BY <2>3, <2>4, <2>5, Zenon DEF Gone
<1>6. CASE c # d
  <2>1. caller'[c] = caller[c]
    BY <1>1, <1>6, Zenon
  <2>2. /\ Gone(c)
        /\ \A m \in Metrics \cup {"topic"} :
             Left(topics', rules', caller[c].name, m) => Left(topics, rules, caller[c].name, m)
    BY <1>3, <2>1, Zenon
  <2> DEFINE n == caller[c].name
  <2>3. n \notin overlap' =>
          /\ ~Creating(n)
          /\ caller[c].pc # "list" =>
               \A m \in Metrics : Left(topics', rules', n, m) =>
                    <<n, m>> \in caller[c].todo \cup caller[c].failed
          /\ caller[c].pc = "rdsDelete" /\ Left(topics', rules', n, "topic") =>
               <<n, "topic">> \in caller[c].failed
    BY <1>4, <2>2, Zenon DEF Gone
  <2>4. caller[c].pc \in {"remove", "rdsDelete"} => caller[c].todo = {}
    BY <2>2, Zenon DEF Gone
  <2>5. QED
    BY <1>2, <2>1, <2>3, <2>4, Zenon DEF Gone
<1>7. QED
  BY <1>5, <1>6

LEMMA ListGone ==
  ASSUME TypeInv, GoneInv, NEW d \in Callers, ListRules(d)
  PROVE  GoneInv'
<1> DEFINE all == {x \in RuleNames : rules[x] > 0 /\ <<x[1], caller[d].name>> \in Within}
           me == [caller[d] EXCEPT !.pc = "rules", !.todo = all]
<1>1. /\ caller[d].pc = "list" /\ caller' = [caller EXCEPT ![d] = me]
      /\ UNCHANGED <<topics, rules, overlap>>
  BY Zenon DEF ListRules
<1>2. caller[d] \in Caller /\ caller[d].name \in Names
  BY <1>1 DEF TypeInv, AlarmsOK
<1>3. /\ me.pc = "rules" /\ me.name = caller[d].name /\ me.todo = all
      /\ me.pc \notin {"remove", "rdsDelete"} /\ me.pc # "rdsDelete"
  BY <1>2 DEF Caller
<1>4. \A n, m : Left(topics', rules', n, m) = Left(topics, rules, n, m)
  BY <1>1, Zenon DEF Left
<1>5. ASSUME NEW m \in Metrics, Left(topics', rules', caller[d].name, m)
      PROVE  <<caller[d].name, m>> \in all
  <2>1. m # "topic"
    BY DEF Metrics
  <2>2. /\ <<caller[d].name, m>> \in RuleNames
        /\ <<caller[d].name, m>>[1] = caller[d].name
    BY <1>2 DEF RuleNames
  <2>3. rules[<<caller[d].name, m>>] > 0
    BY <1>4, <1>5, <2>1, Zenon DEF Left
  <2>4. QED
    BY <1>2, <2>2, <2>3, WithinIsReflexive, Zenon
<1> HIDE DEF me, all
<1>6. \A m \in Metrics : Left(topics', rules', me.name, m) =>
     <<me.name, m>> \in me.todo \cup me.failed
  BY <1>3, <1>5
<1>7. caller[d].pc \in DeletePcs /\ me.pc \in {"rules", "remove", "rdsDelete"}
  BY <1>1, <1>3 DEF DeletePcs
<1>8. QED
  BY <1>1, <1>3, <1>4, <1>6, <1>7, DeletersGone, Zenon

\* One rule is deleted, or is not, or there is none to delete.
LEMMA RuleGone ==
  ASSUME TypeInv, GoneInv, NEW d \in Callers, DeleteRule(d) \/ RuleStays(d)
  PROVE  GoneInv'
<1>1. /\ caller[d].pc = "rules" /\ caller[d] \in Caller /\ caller[d].name \in Names
      /\ UNCHANGED <<topics, overlap>>
  BY DEF DeleteRule, RuleStays, TypeInv, AlarmsOK
<1>2. ASSUME NEW x \in caller[d].todo, NEW me, caller' = [caller EXCEPT ![d] = me],
             me.pc = "rules", me.name = caller[d].name, me.todo = caller[d].todo \ {x},
             caller[d].failed \subseteq me.failed,
             rules' = [rules EXCEPT ![x] = 0] \/ (rules' = rules /\ x \in me.failed)
      PROVE  GoneInv'
  <2>1. \A y \in RuleNames : rules'[y] > 0 => rules[y] > 0 /\ (y # x \/ x \in me.failed)
    <3>1. ~(0 > 0)
      OBVIOUS
    <3>2. QED
      BY <1>2, <3>1, Zenon DEF TypeInv, AlarmsOK
  <2>2. \A n \in Names, m \in Metrics : <<n, m>> \in RuleNames /\ m # "topic"
    BY DEF RuleNames, Metrics
  <2>3. \A n \in Names, m \in Metrics \cup {"topic"} : Left(topics', rules', n, m) =>
       Left(topics, rules, n, m)
    BY <1>1, <2>1, <2>2, Zenon DEF Left
  <2>4. ASSUME NEW m \in Metrics,
               <<me.name, m>> \in caller[d].todo \cup caller[d].failed,
               Left(topics', rules', me.name, m)
        PROVE  <<me.name, m>> \in me.todo \cup me.failed
    <3>1. me.name \in Names
      BY <1>1, <1>2, Zenon
    <3>2. <<me.name, m>> # x \/ x \in me.failed
      BY <2>1, <2>2, <2>4, <3>1, Zenon DEF Left
    <3>3. QED
      BY <1>2, <2>4, <3>2
  <2>5. /\ caller[d].pc \in DeletePcs /\ me.pc \in {"rules", "remove", "rdsDelete"}
        /\ caller[d].pc # "list" /\ me.pc \notin {"remove", "rdsDelete"}
        /\ me.pc # "rdsDelete"
    BY <1>1, <1>2 DEF DeletePcs
  <2>6. QED
    BY <1>1, <1>2, <2>3, <2>4, <2>5, DeletersGone, Zenon
<1>3. ASSUME caller[d].todo = {}, Calls(d, "remove"), UNCHANGED rules
      PROVE  GoneInv'
  <2> DEFINE me == [caller[d] EXCEPT !.pc = "remove"]
  <2>1. /\ me.pc = "remove" /\ me.name = caller[d].name /\ me.todo = {}
        /\ me.failed = caller[d].failed /\ me.pc # "rdsDelete"
    BY <1>1, <1>3 DEF Caller
  <2>2. caller' = [caller EXCEPT ![d] = me]
    BY <1>3, Zenon DEF Calls
  <2> HIDE DEF me
  <2>3. \A n, m : Left(topics', rules', n, m) = Left(topics, rules, n, m)
    BY <1>1, <1>3, Zenon DEF Left
  <2>4. /\ caller[d].pc \in DeletePcs /\ me.pc \in {"rules", "remove", "rdsDelete"}
        /\ caller[d].pc # "list"
    BY <1>1, <2>1 DEF DeletePcs
  <2>5. \A m \in Metrics : <<me.name, m>> \in caller[d].todo \cup caller[d].failed
                           => <<me.name, m>> \in me.todo \cup me.failed
    BY <1>3, <2>1
  <2>6. QED
    BY <1>1, <2>1, <2>2, <2>3, <2>4, <2>5, DeletersGone, Zenon
<1>4. CASE DeleteRule(d)
  <2>1. ASSUME NEW x \in caller[d].todo, rules' = [rules EXCEPT ![x] = 0],
               caller' = [caller EXCEPT ![d].todo = @ \ {x}]
        PROVE  GoneInv'
    <3> DEFINE me == [caller[d] EXCEPT !.todo = @ \ {x}]
    <3>1. /\ me.pc = "rules" /\ me.name = caller[d].name
          /\ me.todo = caller[d].todo \ {x} /\ me.failed = caller[d].failed
      BY <1>1 DEF Caller
    <3>2. caller' = [caller EXCEPT ![d] = me]
      BY <2>1, Zenon
    <3> HIDE DEF me
    <3>3. caller[d].failed \subseteq me.failed
      BY <3>1
    <3>4. QED
      BY <1>2, <2>1, <3>1, <3>2, <3>3, Zenon
  <2>2. QED
    BY <1>3, <1>4, <2>1, Zenon DEF DeleteRule
<1>5. CASE RuleStays(d)
  <2>1. PICK x \in caller[d].todo :
          caller' = [caller EXCEPT ![d].todo = @ \ {x}, ![d].failed = @ \cup {x}]
    BY <1>5, Zenon DEF RuleStays
  <2> DEFINE me == [caller[d] EXCEPT !.todo = @ \ {x}, !.failed = @ \cup {x}]
  <2>2. /\ me.pc = "rules" /\ me.name = caller[d].name
        /\ me.todo = caller[d].todo \ {x} /\ me.failed = caller[d].failed \cup {x}
    BY <1>1 DEF Caller
  <2>3. caller' = [caller EXCEPT ![d] = me]
    BY <2>1, Zenon
  <2> HIDE DEF me
  <2>4. caller[d].failed \subseteq me.failed /\ x \in me.failed
    BY <2>2
  <2>5. rules' = rules
    BY <1>5, Zenon DEF RuleStays
  <2>6. QED
    BY <1>2, <2>1, <2>2, <2>3, <2>4, <2>5, Zenon
<1>6. QED
  BY <1>4, <1>5

LEMMA TopicGone ==
  ASSUME TypeInv, GoneInv, NEW d \in Callers, DeleteTopic(d) \/ TopicStays(d)
  PROVE  GoneInv'
<1>1. /\ caller[d].pc = "remove" /\ caller[d] \in Caller /\ caller[d].name \in Names
      /\ UNCHANGED <<rules, overlap>>
  BY DEF DeleteTopic, TopicStays, TypeInv, AlarmsOK
<1>2. caller[d].todo = {}
  <2>1. Gone(d)
    BY <1>1 DEF GoneInv, DeletePcs
  <2>2. QED
    BY <1>1, <2>1 DEF Gone
<1>3. PICK me :
        /\ caller' = [caller EXCEPT ![d] = me]
        /\ me.pc = "rdsDelete" /\ me.name = caller[d].name /\ me.todo = {}
        /\ caller[d].failed \subseteq me.failed
        /\ me.name \in topics' => <<me.name, "topic">> \in me.failed
  <2>1. CASE DeleteTopic(d)
    <3> DEFINE me == [caller[d] EXCEPT !.pc = "rdsDelete"]
    <3>1. /\ me.pc = "rdsDelete" /\ me.name = caller[d].name /\ me.todo = {}
          /\ me.failed = caller[d].failed
      BY <1>1, <1>2 DEF Caller
    <3>2. caller' = [caller EXCEPT ![d] = me]
      BY <2>1, Zenon DEF DeleteTopic, Calls
    <3>3. caller[d].name \notin topics'
      BY <2>1 DEF DeleteTopic
    <3> HIDE DEF me
    <3>4. QED
      BY <3>1, <3>2, <3>3
  <2>2. CASE TopicStays(d)
    <3> DEFINE me == [caller[d] EXCEPT !.pc = "rdsDelete",
                                       !.failed = @ \cup {<<caller[d].name, "topic">>}]
    <3>1. /\ me.pc = "rdsDelete" /\ me.name = caller[d].name /\ me.todo = {}
          /\ me.failed = caller[d].failed \cup {<<caller[d].name, "topic">>}
      BY <1>1, <1>2 DEF Caller
    <3>2. caller' = [caller EXCEPT ![d] = me]
      BY <2>2, Zenon DEF TopicStays
    <3> HIDE DEF me
    <3>3. QED
      BY <3>1, <3>2
  <2>3. QED
    BY <2>1, <2>2
<1>4. me.pc \in {"remove", "rdsDelete"} => me.todo = {}
  BY <1>3
<1>5. \A n, m : Left(topics', rules', n, m) => Left(topics, rules, n, m)
  <2>1. topics' \subseteq topics
    BY Zenon DEF DeleteTopic, TopicStays
  <2>2. QED
    BY <1>1, <2>1, Zenon DEF Left
<1>6. Left(topics', rules', me.name, "topic") => <<me.name, "topic">> \in me.failed
  BY <1>3, Zenon DEF Left
<1>7. /\ caller[d].pc \in DeletePcs /\ me.pc \in {"rules", "remove", "rdsDelete"}
      /\ caller[d].pc # "list"
  BY <1>1, <1>3 DEF DeletePcs
<1>8. \A m \in Metrics : <<me.name, m>> \in caller[d].todo \cup caller[d].failed
                         => <<me.name, m>> \in me.todo \cup me.failed
  BY <1>2, <1>3
<1>9. QED
  BY <1>1, <1>3, <1>4, <1>5, <1>6, <1>7, <1>8, DeletersGone, Zenon

LEMMA CallerGone ==
  ASSUME TypeInv, GoneInv, NEW d \in Callers,
         \/ CallAlarms(d) /\ UNCHANGED <<sub, req>>
         \/ AlarmsFail(d)
         \/ NotSubscribed(d)
         \/ \E r \in Requests : Subscribe(d, r)
  PROVE  GoneInv'
<1> DEFINE moved(pc) == [caller[d] EXCEPT !.pc = pc]
<1>1. caller[d] \in Caller /\ (caller[d].pc # "idle" => caller[d].name \in Names)
  BY DEF TypeInv, AlarmsOK
<1>2. ASSUME NEW pc \in CreatePcs
      PROVE  moved(pc).pc = pc /\ moved(pc).name = caller[d].name
  BY <1>1 DEF Caller, CreatePcs
<1>3. ASSUME NEW pc \in CreatePcs, Calls(d, pc)
      PROVE  caller' = [caller EXCEPT ![d] = moved(pc)]
  BY <1>3, Zenon DEF Calls
<1> HIDE DEF moved
<1>4. IdleCaller.pc \notin CreatePcs \cup DeletePcs
  BY DEF IdleCaller, CreatePcs, DeletePcs
<1>5. ASSUME NEW pc \in CreatePcs, Calls(d, pc), caller[d].pc \in CreatePcs,
             \A n \in Names \ {caller[d].name}, m \in Metrics \cup {"topic"} :
               Left(topics', rules', n, m) => Left(topics, rules, n, m),
             UNCHANGED overlap
      PROVE  GoneInv'
  <2>1. /\ caller' = [caller EXCEPT ![d] = moved(pc)]
        /\ moved(pc).pc = pc /\ moved(pc).name = caller[d].name
    BY <1>2, <1>3, <1>5
  <2>2. pc \notin DeletePcs
    BY DEF CreatePcs, DeletePcs
  <2>3. QED
    BY <1>5, <2>1, <2>2, OthersGone, Zenon
<1>6. ASSUME Done(d),
             \/ UNCHANGED <<rules, topics>>
             \/ /\ caller[d].pc \in CreatePcs
                /\ \A n \in Names \ {caller[d].name}, m \in Metrics \cup {"topic"} :
                     Left(topics', rules', n, m) => Left(topics, rules, n, m),
             UNCHANGED overlap
      PROVE  GoneInv'
  BY <1>4, <1>6, OthersGone, Zenon DEF Done
<1>7. ASSUME NEW n \in Names, BeginCreate(d, n)
      PROVE  GoneInv'
  <2> DEFINE me == [IdleCaller EXCEPT !.pc = "topic", !.name = n]
  <2>1. me.pc = "topic" /\ me.name = n
    BY DEF IdleCaller
  <2>2. /\ caller' = [caller EXCEPT ![d] = me]
        /\ overlap \subseteq overlap'
        /\ n \in overlap' \/ ~Deleting(n)
        /\ rules' = rules /\ topics' = topics
    BY <1>7, Zenon DEF BeginCreate
  <2> HIDE DEF me
  <2>3. me.pc \notin DeletePcs
    BY <2>1 DEF DeletePcs
  <2>4. overlap \subseteq overlap'
    BY <1>7, Zenon DEF BeginCreate
  <2>5. QED
    BY <2>1, <2>2, <2>3, <2>4, OthersGone, Zenon
<1>8. ASSUME NEW n \in Names, BeginDelete(d, n)
      PROVE  GoneInv'
  BY <1>8, BeginGone
<1>9. ASSUME rules' = rules, topics' = topics, NEW n, NEW m
      PROVE  Left(topics', rules', n, m) = Left(topics, rules, n, m)
  BY <1>9, Zenon DEF Left
<1>10. CASE CreateTopic(d)
  <2>1. topics' = topics \cup {caller[d].name} /\ rules' = rules
    BY <1>10, Zenon DEF CreateTopic
  <2>2. \A n \in Names \ {caller[d].name}, m \in Metrics \cup {"topic"} :
          Left(topics', rules', n, m) => Left(topics, rules, n, m)
    BY <2>1, Zenon DEF Left
  <2>3. QED
    BY <1>5, <1>10, <2>2, Zenon DEF CreateTopic, CreatePcs
<1>11. CASE CheckRule(d) \/ TopicNotMade(d) \/ CreateReturns(d) \/ NotSubscribed(d)
            \/ \E r \in Requests : Subscribe(d, r)
  <2>1. /\ caller[d].pc \in CreatePcs /\ UNCHANGED <<rules, topics, overlap>>
        /\ Done(d) \/ \E pc \in CreatePcs : Calls(d, pc)
    BY <1>11, Zenon
       DEF CheckRule, TopicNotMade, CreateReturns, NotSubscribed, Subscribe, CreatePcs
  <2>2. QED
    BY <1>5, <1>6, <1>9, <2>1, Zenon
<1>12. ASSUME NEW made, CreateRule(d, made)
       PROVE  GoneInv'
  <2>1. /\ caller[d].pc \in Metrics
        /\ rules' = [rules EXCEPT ![<<caller[d].name, caller[d].pc>>] = @ + made]
        /\ UNCHANGED <<topics, overlap>>
        /\ (\E pc \in CreatePcs : Calls(d, pc)) \/ Done(d)
    BY <1>12, Zenon DEF CreateRule, Metrics, CreatePcs
  <2>2. ASSUME NEW n \in Names \ {caller[d].name}, NEW m \in Metrics \cup {"topic"}
        PROVE  Left(topics', rules', n, m) => Left(topics, rules, n, m)
    <3>1. CASE m = "topic"
      BY <2>1, <3>1, Zenon DEF Left
    <3>2. CASE m # "topic"
      <4>1. <<n, m>> \in RuleNames /\ <<n, m>> # <<caller[d].name, caller[d].pc>>
        BY <3>2 DEF RuleNames
      <4>2. rules'[<<n, m>>] = rules[<<n, m>>]
        BY <2>1, <4>1, Zenon DEF TypeInv, AlarmsOK
      <4>3. QED
        BY <3>2, <4>2, Zenon DEF Left
    <3>3. QED
      BY <3>1, <3>2
  <2>3. caller[d].pc \in CreatePcs
    BY <2>1 DEF Metrics, CreatePcs
  <2>4. QED
    BY <1>5, <1>6, <2>1, <2>2, <2>3, Zenon
<1>13. ASSUME DeleteAlarm(d) \/ RuleStays(d) \/ TopicStays(d) \/ DeleteReturns(d)
       PROVE  GoneInv'
  <2>1. ASSUME DeleteReturns(d) \/ RdsDeleted(d)
        PROVE  GoneInv'
    BY <1>6, <2>1, Zenon DEF DeleteReturns, RdsDeleted
  <2>2. CASE ListRules(d)
    BY <2>2, ListGone
  <2>3. CASE DeleteRule(d) \/ RuleStays(d)
    BY <2>3, RuleGone
  <2>4. CASE DeleteTopic(d) \/ TopicStays(d)
    BY <2>4, TopicGone
  <2>5. QED
    BY <1>13, <2>1, <2>2, <2>3, <2>4, Zenon DEF DeleteAlarm
<1>14. CASE CallAlarms(d)
  BY <1>7, <1>8, <1>10, <1>11, <1>12, <1>13, <1>14, Zenon DEF CallAlarms
<1>15. CASE AlarmsFail(d)
  BY <1>11, <1>12, <1>13, <1>15, Zenon DEF AlarmsFail
<1>16. QED
  BY <1>11, <1>14, <1>15, Zenon

\* A process that ends has no callers any more.
LEMMA ExitGone ==
  ASSUME Exit
  PROVE  GoneInv'
<1>1. IdleCaller.pc \notin DeletePcs
  BY DEF IdleCaller, DeletePcs
<1>2. QED
  BY <1>1, Zenon DEF Exit, GoneInv

LEMMA GoneStep ==
  ASSUME TypeInv, GoneInv, [Next]_vars
  PROVE  GoneInv'
<1>1. ASSUME UNCHANGED <<topics, rules, caller, overlap>>
      PROVE  GoneInv'
  BY <1>1, Zenon DEF GoneInv, Gone, Left, Creating
<1>2. CASE \E c \in Callers :
             \/ CallAlarms(c) /\ UNCHANGED <<sub, req>>
             \/ AlarmsFail(c)
             \/ ListFails(c)
             \/ NotSubscribed(c)
             \/ \E r \in Requests : Subscribe(c, r)
  BY <1>2, CallerGone, ExitGone, Zenon DEF ListFails
<1>3. CASE \/ \E r \in Requests : Receive(r)
           \/ \E r \in Requests, n \in Names, m \in Metrics : Fire(r, n, m) \/ Cut(r, n, m)
           \/ \E n \in Names : UserEdit(n) \/ UserDelete(n)
  <2>1. Exit \/ UNCHANGED <<topics, rules, caller, overlap>>
    BY <1>3, Zenon DEF Receive, ParseField, Confirm, Target, Disk, Cpu, Mem, Flavored,
                       Fire, Cut, UserEdit, UserDelete, alarmVars
  <2>2. QED
    BY <1>1, <2>1, ExitGone
<1>4. CASE UNCHANGED vars
  BY <1>1, <1>4, Zenon DEF vars, alarmVars
<1>5. QED
  BY <1>2, <1>3, <1>4, Zenon DEF Next

\* Whatever calls of DeleteAlarm failed, at first or when it was run again, and
\* whatever other callers, requests and users did meanwhile: when it has returned
\* without an error, and until the event of the deletion is through, the only rules
\* and the only topic of the resource that are left are those of which the deletion
\* itself failed (which is only logged); unless CreateAlarm ran for it meanwhile.
THEOREM NothingIsLeft == Spec => []NothingLeft
<1>1. Init => GoneInv
  <2>1. IdleCaller.pc \notin DeletePcs
    BY DEF IdleCaller, DeletePcs
  <2>2. QED
    BY <2>1, Zenon DEF Init, GoneInv
<1>2. GoneInv => NothingLeft
  <2> SUFFICES ASSUME GoneInv, NEW c \in Callers,
                      caller[c].pc = "rdsDelete", caller[c].name \notin overlap
               PROVE  LET n == caller[c].name IN
                      /\ n \in topics => <<n, "topic">> \in caller[c].failed
                      /\ \A m \in Metrics :
                           rules[<<n, m>>] > 0 => <<n, m>> \in caller[c].failed
    BY Zenon DEF NothingLeft
  <2>1. Gone(c) /\ caller[c].todo = {} /\ caller[c].pc # "list"
    BY DEF GoneInv, Gone, DeletePcs
  <2>2. \A m \in Metrics : m # "topic"
    BY DEF Metrics
  <2>3. QED
    BY <2>1, <2>2 DEF Gone, Left
<1>3. QED
  BY <1>1, <1>2, TypeInit, TypeStep, GoneStep, PTL DEF Spec
==============================================================================
