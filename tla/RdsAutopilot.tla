---------------------------- MODULE RdsAutopilot ----------------------------
(***************************************************************************)
(* SmnReceiver (pkg/controller/autopilot.go): the webhook to which the     *)
(* cloud posts the alarms of the rules that CreateAlarm made, and which    *)
(* asks for a larger disk or flavor by editing the resource.  Each request *)
(* runs in a goroutine of its own, but all parse into ONE variable, whose  *)
(* fields are written and read without a lock.                             *)
(***************************************************************************)
EXTENDS RdsAlarms

CONSTANTS
    Requests,   \* bound: the requests that arrive
    Garbled,    \* a torn string that names no resource and is no text known
    Blends,     \* pairs <<s, t>>: a torn s may read as t
    Edits,      \* bound: sizes a user may write
    Placed,     \* the flavor and zones that a resource has at first
    Scenarios   \* bound: which names have alarm rules at first, and how often the
                \* users and the cloud do something on their own

Kinds == {"alarm", "make", "edit", "delete", "fault", "cut"}

Texts == Metrics \cup {"invitation"}

ASSUME GarbledIsNoName == Garbled \notin Names \cup Texts
ASSUME BlendsAreAlike == Blends \subseteq (Names \X Names) \cup (Texts \X Texts)
ASSUME BlendsOfBlends ==
    \A b, d \in Blends : b[2] = d[1] => <<b[1], d[2]>> \in Blends
ASSUME NamesAreNames == Absent \notin Names \cup Texts /\ "none" \notin Names
ASSUME EditsAreSizes == Edits \subseteq Nat
ASSUME PlacedAreSpecs == Placed \in [Names -> [flavor : Codes, zones : SUBSET Zones]]
ASSUME ScenariosAreSome == Scenarios \subseteq [watched : SUBSET Names, budget : [Kinds -> Nat]]

VARIABLES
    sub,       \* the variable subscriber
    req,       \* what each request is doing
    budget

vars == <<rds, alarmVars, sub, req, budget>>

------------------------------------------------------------------------------
\* Spec.Volumesize, Spec.Flavorref, Spec.Availabilityzone; rv: the version.
Rds == [rv : Nat, vol : Nat, flavor : Codes \cup {"none"}, zones : SUBSET Zones]

ASSUME AbsentIsNoRds == Absent \notin Rds

\* What a failed Get returns: the zero value.
NoRds == [rv |-> 0, vol |-> 0, flavor |-> "none", zones |-> {}]

\* A message of the cloud: a notification, or the invitation to confirm a
\* subscription, which alone has a url.  Topicurn holds the name of the resource.
Message == [topic : Names, text : Texts]
NoMessage == [topic |-> Absent, text |-> "none"]
Fields == {"topic", "text", "url"}
FieldsOf(m) == IF m.text = "invitation" THEN Fields ELSE {"topic", "text"}
Value(m, f) == IF f = "text" THEN m.text ELSE m.topic

Strings == Names \cup Texts \cup {"none", Garbled}
NoSubscriber == [f \in Fields |-> "none"]

\* todo: fields still to be parsed; target: the resource it acts on, copy: as it
\* was read; alone: no other request was there since this one arrived.
Request ==
    [ pc : {"new", "parse", "confirm", "target", "disk", "cpu", "mem", "done"},
      sent : Message \cup {NoMessage}, todo : SUBSET Fields,
      target : Names \cup {Absent}, copy : Rds, whole : BOOLEAN, alone : BOOLEAN ]

NewRequest ==
    [ pc |-> "new", sent |-> NoMessage, todo |-> {}, target |-> Absent,
      copy |-> NoRds, whole |-> TRUE, alone |-> TRUE ]

Running == {r \in Requests : req[r].pc \notin {"new", "done"}}

\* A Go string is a pointer and a length.  While another request parses, it may be
\* read, or end up, with the length of the other: cut, or running on into what the
\* memory holds behind it.  So may an urn become that of a resource that nobody
\* sent.  (Of a url this leaves none.)
Torn(r) == \E q \in Running \ {r} : req[q].todo # {}
Blended(f, s) == {Garbled} \cup {t \in Strings : f # "url" /\ <<s, t>> \in Blends}
OrBlended(r, f, s) == {s} \cup (IF Torn(r) THEN Blended(f, s) ELSE {})
Reads(r, f) == OrBlended(r, f, sub[f])

Goto(r, pc) == req' = [req EXCEPT ![r].pc = pc]
Spend(kind) == budget[kind] > 0 /\ budget' = [budget EXCEPT ![kind] = @ - 1]

------------------------------------------------------------------------------
\* A request arrives: SMN sends an invitation when a subscription is made, and a
\* notification when a rule fires whose topic has a confirmed subscription.
Arrive(r, m, whole) ==
    /\ req[r].pc = "new"
    /\ req' = [q \in Requests |->
         IF q = r THEN [NewRequest EXCEPT !.pc = IF whole THEN "parse" ELSE "confirm",
                          !.sent = m, !.todo = IF whole THEN FieldsOf(m) ELSE {},
                          !.whole = whole, !.alone = Running = {}]
         ELSE [req[q] EXCEPT !.alone = @ /\ q \notin Running]]

\* CreateAlarm subscribes the endpoint (once more, if it is subscribed).
Subscribe(c, r) ==
    /\ caller[c].pc = "subscribe"
    /\ caller[c].name \in topics
    /\ Arrive(r, [topic |-> caller[c].name, text |-> "invitation"], TRUE)
    /\ Calls(c, "check")
    /\ UNCHANGED <<rds, flagged, topics, confirmed, rules, overlap, sub, budget>>

\* An error of that call is only logged.
NotSubscribed(c) ==
    /\ caller[c].pc = "subscribe"
    /\ caller[c].name \in topics => Spend("fault")
    /\ caller[c].name \notin topics => UNCHANGED budget
    /\ Calls(c, "check")
    /\ UNCHANGED <<rds, flagged, topics, confirmed, rules, overlap, sub, req>>

\* The alarm may have been raised before its rule or its resource was deleted.
Fire(r, n, m) ==
    /\ n \in confirmed /\ rules[<<n, m>>] > 0
    /\ Spend("alarm")
    /\ Arrive(r, [topic |-> n, text |-> m], TRUE)
    /\ UNCHANGED <<rds, alarmVars, sub>>

\* The connection breaks before the body is read: the error is logged, nothing
\* parsed, and the handler goes on.
Cut(r, n, m) ==
    /\ n \in confirmed /\ rules[<<n, m>>] > 0
    /\ Spend("cut")
    /\ Arrive(r, [topic |-> n, text |-> m], FALSE)
    /\ UNCHANGED <<rds, alarmVars, sub>>

------------------------------------------------------------------------------
\* Broken variant: a field that has a value keeps it.
ParseField_Keeps(r) ==
    /\ req[r].pc = "parse"
    /\ \E f \in req[r].todo :
         /\ sub' = [sub EXCEPT ![f] = IF @ = "none" THEN Value(req[r].sent, f) ELSE @]
         /\ req' = [req EXCEPT ![r].todo = @ \ {f},
                              ![r].pc = IF req[r].todo = {f} THEN "confirm" ELSE "parse"]
    /\ UNCHANGED <<rds, alarmVars, budget>>

\* json.Unmarshal writes the fields that the body has, one after the other; the
\* others keep what an earlier request left there.
ParseField(r) ==
    /\ req[r].pc = "parse"
    /\ \E f \in req[r].todo : \E s \in OrBlended(r, f, Value(req[r].sent, f)) :
         /\ sub' = [sub EXCEPT ![f] = s]
         /\ req' = [req EXCEPT ![r].todo = @ \ {f},
                              ![r].pc = IF req[r].todo = {f} THEN "confirm" ELSE "parse"]
    /\ UNCHANGED <<rds, alarmVars, budget>>

\* A url is visited if there is one, also that of an earlier request.  Without
\* any request that was parsed there is no signature either: done.
Confirm(r) ==
    /\ req[r].pc = "confirm"
    /\ \E url \in Reads(r, "url") :
         confirmed' = confirmed \cup ({url} \cap topics)
    /\ Goto(r, IF sub = NoSubscriber THEN "done" ELSE "target")
    /\ UNCHANGED <<rds, flagged, topics, rules, caller, overlap, sub, budget>>

\* Broken variant: a resource is found as DeleteAlarm finds rules.
Target_Contains(r) ==
    /\ req[r].pc = "target"
    /\ \E n \in Names : \E m \in Reads(r, "topic") \cap Names :
         /\ <<n, m>> \in Within /\ rds[n] # Absent
         /\ req' = [req EXCEPT ![r].pc = "disk", ![r].target = n, ![r].copy = rds[n]]
    /\ UNCHANGED <<rds, alarmVars, sub, budget>>

\* The name is taken out of Topicurn and the resource read.  If that fails the
\* handler goes on with the zero value.  A Topicurn that is no urn is a panic,
\* which ends the request.
Target(r) ==
    /\ req[r].pc = "target"
    /\ \/ \E n \in Reads(r, "topic") \cap Names : \E o \in {rds[n], NoRds} \ {Absent} :
            /\ req' = [req EXCEPT ![r].pc = "disk", ![r].target = n, ![r].copy = o]
            /\ IF o = NoRds /\ rds[n] # Absent THEN Spend("fault") ELSE UNCHANGED budget
       \/ /\ Reads(r, "topic") \ Names # {}
          /\ Goto(r, "done") \/ Goto(r, "disk")
          /\ UNCHANGED budget
    /\ UNCHANGED <<rds, alarmVars, sub>>

\* Broken variant: a conflict is no reason not to write.
CanPut_Always(n, o) == n # Absent /\ rds[n] # Absent

\* The API server refuses a write to a version that is not the stored one.
CanPut(n, o) == n # Absent /\ rds[n] # Absent /\ rds[n].rv = o.rv

\* Update with the copy, as changed.  Whether it was stored or not, the copy
\* keeps its version.
Put(r, o, pc) ==
    LET n == req[r].target IN
    /\ req' = [req EXCEPT ![r].pc = pc, ![r].copy = o]
    /\ \/ CanPut(n, o) /\ rds' = [rds EXCEPT ![n] = [o EXCEPT !.rv = rds[n].rv + 1]]
          /\ UNCHANGED budget
       \/ ~CanPut(n, o) /\ UNCHANGED <<rds, budget>>
       \/ CanPut(n, o) /\ Spend("fault") /\ UNCHANGED rds

\* The message is looked at three times, each time as it is by then.
Disk(r) ==
    /\ req[r].pc = "disk"
    /\ \/ /\ "disk" \in Reads(r, "text")
          /\ Put(r, [req[r].copy EXCEPT !.vol = @ + 10], "cpu")
       \/ /\ Reads(r, "text") \ {"disk"} # {}
          /\ Goto(r, "cpu")
          /\ UNCHANGED <<rds, budget>>
    /\ UNCHANGED <<alarmVars, sub>>

\* The flavors cannot be listed, for want of an engine in the zero value or for
\* another reason: klog.Exitf ends the process, its workers and its requests.  The
\* next one does not learn of what was deleted before.
Exit ==
    /\ sub' = NoSubscriber
    /\ caller' = [c \in Callers |-> IdleCaller]
    /\ req' = [q \in Requests |->
         IF q \in Running THEN [NewRequest EXCEPT !.pc = "done"] ELSE req[q]]
    /\ flagged' = {n \in flagged : rds[n] # Absent}
    /\ UNCHANGED <<rds, topics, confirmed, rules, overlap>>

\* The section of cpu or of mem: a flavor is looked up and asked for.
Flavored(r, raise, next) ==
    LET o == req[r].copy IN
    /\ req[r].pc = raise
    /\ \/ /\ raise \in Reads(r, "text")
          /\ \/ /\ \E code \in RdsFlavorLookup(o, raise) :
                     Put(r, [o EXCEPT !.flavor = code], next)
                /\ UNCHANGED <<alarmVars, sub>>
             \/ /\ RdsFlavorLookup(o, raise) = {}
                /\ Goto(r, next)
                /\ UNCHANGED <<rds, alarmVars, sub, budget>>
             \/ /\ o.flavor = "none"
                /\ Exit
                /\ UNCHANGED budget
             \/ Exit /\ Spend("fault")
       \/ /\ Reads(r, "text") \ {raise} # {}
          /\ Goto(r, next)
          /\ UNCHANGED <<rds, alarmVars, sub, budget>>

Cpu(r) == Flavored(r, "cpu", "mem")
Mem(r) == Flavored(r, "mem", "done")

Receive(r) ==
    \/ ParseField(r) \/ Confirm(r) \/ Target(r)
    \/ Disk(r) \/ Cpu(r) \/ Mem(r)

------------------------------------------------------------------------------
UserEdit(n) ==
    /\ rds[n] # Absent
    /\ Spend("edit")
    /\ \E v \in Edits, code \in {Placed[m].flavor : m \in Names} :
         /\ <<v, code>> # <<rds[n].vol, rds[n].flavor>>
         /\ rds' = [rds EXCEPT ![n].vol = v, ![n].flavor = code, ![n].rv = @ + 1]
    /\ UNCHANGED <<alarmVars, sub, req>>

UserDelete(n) ==
    /\ rds[n] # Absent
    /\ Spend("delete")
    /\ rds' = [rds EXCEPT ![n] = Absent]
    /\ UNCHANGED <<alarmVars, sub, req>>

\* The worker of CreateAlarm or DeleteAlarm.
CallAlarms(c) ==
    \/ \E n \in Names : BeginCreate(c, n) /\ Spend("make")
    \/ /\ \/ \E n \in Names : BeginDelete(c, n)
          \/ CreateTopic(c) \/ CheckRule(c) \/ CreateRule(c, 1) \/ DeleteAlarm(c)
       /\ UNCHANGED budget

\* One of their calls fails.
AlarmsFail(c) ==
    /\ \/ TopicNotMade(c) \/ CreateRule(c, 0) \/ CreateReturns(c)
       \/ RuleStays(c) \/ TopicStays(c) \/ DeleteReturns(c)
    /\ Spend("fault")
    /\ UNCHANGED <<sub, req>>

\* DeleteAlarm does not look at the error of its list, and takes the list that it
\* has not got apart: a panic.
ListFails(c) ==
    /\ caller[c].pc = "list"
    /\ Spend("fault")
    /\ Exit

Init ==
    /\ rds = [n \in Names |-> [rv |-> 1, vol |-> 100, flavor |-> Placed[n].flavor,
                               zones |-> Placed[n].zones]]
    /\ \E s \in Scenarios : flagged = s.watched /\ budget = s.budget
    /\ topics = flagged /\ confirmed = flagged
    /\ rules = [x \in RuleNames |-> IF x[1] \in flagged THEN 1 ELSE 0]
    /\ caller = [c \in Callers |-> IdleCaller]
    /\ overlap = {}
    /\ sub = NoSubscriber
    /\ req = [r \in Requests |-> NewRequest]

Next ==
    \/ \E r \in Requests : Receive(r)
    \/ \E r \in Requests, n \in Names, m \in Metrics : Fire(r, n, m) \/ Cut(r, n, m)
    \/ \E c \in Callers :
         \/ CallAlarms(c) /\ UNCHANGED <<sub, req>>
         \/ AlarmsFail(c)
         \/ ListFails(c)
         \/ NotSubscribed(c)
         \/ \E r \in Requests : Subscribe(c, r)
    \/ \E n \in Names : UserEdit(n) \/ UserDelete(n)

Spec == Init /\ [][Next]_vars

------------------------------------------------------------------------------
\* Types: no rule is counted below none, no request parses what it has not got, and
\* the variable holds names, texts and what is left of them only.
TypeOK ==
    /\ rds \in [Names -> Rds \cup {Absent}]
    /\ flagged \subseteq Names /\ topics \subseteq Names
    /\ confirmed \subseteq Names /\ overlap \subseteq Names
    /\ rules \in [RuleNames -> Nat]
    /\ caller \in [Callers -> Caller]
    /\ sub \in [Fields -> Strings]
    /\ req \in [Requests -> Request]
    /\ budget \in [Kinds -> Nat]

\* Request r edits the resource n: no user's edit moves a request.
Writes(r, n) ==
    /\ req[r].pc \in Metrics /\ req'[r] # req[r]
    /\ rds[n] # Absent /\ rds'[n] # rds[n]

\* A request during which no other runs acts on the resource and for the metric
\* that it was sent for, whatever the variable was left at by earlier ones.
AloneActsAsSent ==
    [][\A r \in Requests, n \in Names :
         Writes(r, n) /\ req[r].alone /\ req[r].whole =>
           req[r].sent = [topic |-> n, text |-> req[r].pc]]_vars

\* Requests that run together may take the resource from one and the metric from
\* another, and tear the strings of both.  But what is acted on was sent, by this or
\* another request, or is what a torn copy of that reads as.
LooksLike(s, t) == s = t \/ <<s, t>> \in Blends

OnlyAlarmed ==
    [][\A r \in Requests, n \in Names : Writes(r, n) =>
         /\ \E q \in Requests : LooksLike(req[q].sent.topic, n)
         /\ \E q \in Requests : LooksLike(req[q].sent.text, req[r].pc)]_vars

\* The receiver reads, computes and writes, but what users wrote meanwhile is kept:
\* the size it writes is the stored one or 10 GB more, the flavor is changed by
\* the sections of cpu and memory only.
NoEditUndone ==
    [][\A r \in Requests, n \in Names : Writes(r, n) =>
         /\ rds'[n] # Absent
         /\ rds'[n].vol - rds[n].vol \in {0, 10}
         /\ req[r].pc = "disk" => rds'[n].flavor = rds[n].flavor
         /\ rds'[n].zones = rds[n].zones]_vars

\* An alarm, handled alone, leads to the next bigger flavor: for the memory always,
\* for the CPUs as long as all numbers have one digit.
ScalesToNext ==
    [][\A r \in Requests, n \in Names :
         Writes(r, n) /\ req[r].alone /\ req[r].pc \in {"cpu", "mem"} =>
           \/ req[r].pc = "cpu" /\ \E f \in Catalogue : f.cpu > 9
           \/ NextBigger(Size(rds'[n].flavor), rds[n], req[r].pc)]_vars

\* No edit of the autopilot takes CPUs or memory away.
NeverDownsized ==
    [][\A r \in Requests, n \in Names : Writes(r, n) =>
         /\ Size(rds'[n].flavor).cpu >= Size(rds[n].flavor).cpu
         /\ Size(rds'[n].flavor).ram >= Size(rds[n].flavor).ram]_vars

\* When DeleteAlarm has returned without an error, at first or after retries, and
\* until rdsDelete has ended, the only rules of the name that are left, and its
\* topic if it is, are those of which the deletion itself failed: unless
\* CreateAlarm ran meanwhile.
NothingLeft ==
    \A c \in Callers :
        LET n == caller[c].name IN
        caller[c].pc = "rdsDelete" /\ n \notin overlap =>
          /\ n \in topics => <<n, "topic">> \in caller[c].failed
          /\ \A m \in Metrics : rules[<<n, m>>] > 0 => <<n, m>> \in caller[c].failed
==============================================================================
