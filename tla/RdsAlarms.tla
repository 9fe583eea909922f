------------------------------ MODULE RdsAlarms ------------------------------
(***************************************************************************)
(* CreateAlarm and DeleteAlarm (pkg/controller/alarm.go), call by call, and*)
(* the topics, subscriptions and alarm rules of the cloud they work on.    *)
(* They run in the workers of the operator: CreateAlarm for a resource     *)
(* with an endpoint and without the autopilot flag, DeleteAlarm for a      *)
(* deleted resource with the flag.  An error is retried with its event.    *)
(***************************************************************************)
EXTENDS RdsFlavors

CONSTANTS
    Names,     \* resources, as <namespace>_<name>
    Within,    \* pairs <<n, m>>: the name n contains the name m
    Callers,   \* the workers that call CreateAlarm and DeleteAlarm
    Absent     \* there is no resource of a name

ASSUME WithinIsReflexive ==
    Within \subseteq Names \X Names /\ \A n \in Names : <<n, n>> \in Within

VARIABLES
    rds,       \* the resources in the API server, or Absent
    flagged,   \* names of which Status.Autopilot is true, or was when they were
               \* deleted and Delete is not through
    topics,    \* names that have a topic
    confirmed, \* names whose topic has a confirmed subscription
    rules,     \* how many alarm rules a name has on a metric
    caller,    \* what each caller is doing
    overlap    \* history: names for which CreateAlarm and DeleteAlarm overlapped

alarmVars == <<flagged, topics, confirmed, rules, caller, overlap>>

RuleNames == Names \X Metrics

\* todo: listed rules, still to be deleted; failed: the rules, and the topic, of
\* which the deletion failed.  "rdsDelete" follows when DeleteAlarm has returned
\* without an error.
Caller ==
    [ pc : {"idle", "topic", "subscribe", "check", "disk", "cpu", "mem",
            "list", "rules", "remove", "rdsDelete"},
      name : Names \cup {Absent}, todo : SUBSET RuleNames,
      failed : SUBSET (Names \X (Metrics \cup {"topic"})) ]

IdleCaller == [pc |-> "idle", name |-> Absent, todo |-> {}, failed |-> {}]

Calls(c, pc) == caller' = [caller EXCEPT ![c].pc = pc]
Done(c) == caller' = [caller EXCEPT ![c] = IdleCaller]

Creating(n) ==
    \E c \in Callers : /\ caller[c].name = n
                       /\ caller[c].pc \in {"topic", "subscribe", "check",
                                            "disk", "cpu", "mem"}
Deleting(n) ==
    \E c \in Callers : /\ caller[c].name = n
                       /\ caller[c].pc \in {"list", "rules", "remove", "rdsDelete"}

------------------------------------------------------------------------------
\* rdsUpdate writes the flag before it calls CreateAlarm.  Its copy of the resource
\* may be older than a flag another worker has set, and than the deletion: it goes
\* on although the API server refuses that write.
BeginCreate(c, n) ==
    /\ caller[c].pc = "idle"
    /\ \/ rds[n] # Absent /\ flagged' = flagged \cup {n}
       \/ UNCHANGED flagged
    /\ caller' = [caller EXCEPT ![c] = [IdleCaller EXCEPT !.pc = "topic", !.name = n]]
    /\ overlap' = IF Deleting(n) THEN overlap \cup {n} ELSE overlap
    /\ UNCHANGED <<rds, topics, confirmed, rules>>

\* An existing topic is only logged: creating it again gives the same one.
CreateTopic(c) ==
    /\ caller[c].pc = "topic"
    /\ topics' = topics \cup {caller[c].name}
    /\ Calls(c, "subscribe")
    /\ UNCHANGED <<rds, flagged, confirmed, rules, overlap>>

\* Only the rule for the disk is looked for.  One that exists is an error.
CheckRule(c) ==
    /\ caller[c].pc = "check"
    /\ IF rules[<<caller[c].name, "disk">>] > 0 THEN Done(c) ELSE Calls(c, "disk")
    /\ UNCHANGED <<rds, flagged, topics, confirmed, rules, overlap>>

\* That the topic is not created is only logged.
TopicNotMade(c) ==
    /\ caller[c].pc = "topic"
    /\ Calls(c, "subscribe")
    /\ UNCHANGED <<rds, flagged, topics, confirmed, rules, overlap>>

\* A client cannot be made, or topics, subscriptions or rules cannot be listed.
CreateReturns(c) ==
    /\ caller[c].pc \in {"topic", "subscribe", "check"}
    /\ Done(c)
    /\ UNCHANGED <<rds, flagged, topics, confirmed, rules, overlap>>

\* Three rules, one after the other.  An error (made = 0) is only logged.
CreateRule(c, made) ==
    LET n == caller[c].name
        m == caller[c].pc
    IN
    /\ m \in Metrics
    /\ rules' = [rules EXCEPT ![<<n, m>>] = @ + made]
    /\ CASE m = "disk" -> Calls(c, "cpu")
         [] m = "cpu" -> Calls(c, "mem")
         [] m = "mem" -> Done(c)
    /\ UNCHANGED <<rds, flagged, topics, confirmed, overlap>>

------------------------------------------------------------------------------
\* Delete of a resource with the flag, at first or again after an error.
BeginDelete(c, n) ==
    /\ caller[c].pc = "idle"
    /\ rds[n] = Absent /\ n \in flagged /\ ~Deleting(n)
    /\ caller' = [caller EXCEPT ![c] = [IdleCaller EXCEPT !.pc = "list", !.name = n]]
    /\ overlap' = IF Creating(n) THEN overlap \cup {n} ELSE overlap \ {n}
    /\ UNCHANGED <<rds, flagged, topics, confirmed, rules>>

\* Broken variant: only the rules of a name that equals that of the resource.
ListRules_Equal(c) ==
    /\ caller[c].pc = "list"
    /\ caller' = [caller EXCEPT ![c].pc = "rules", ![c].todo = {}]
    /\ UNCHANGED <<rds, flagged, topics, confirmed, rules, overlap>>

\* Every rule whose name contains that of the resource, some other one's too.
ListRules(c) ==
    /\ caller[c].pc = "list"
    /\ caller' = [caller EXCEPT ![c].pc = "rules",
         ![c].todo = {r \in RuleNames :
                        rules[r] > 0 /\ <<r[1], caller[c].name>> \in Within}]
    /\ UNCHANGED <<rds, flagged, topics, confirmed, rules, overlap>>

\* Broken variant: rules are counted down, without a look at what is there.
DeleteRule_Counts(c) ==
    /\ caller[c].pc = "rules"
    /\ \/ \E r \in caller[c].todo :
            /\ rules' = [rules EXCEPT ![r] = @ - 1]
            /\ caller' = [caller EXCEPT ![c].todo = @ \ {r}]
       \/ caller[c].todo = {} /\ Calls(c, "remove") /\ UNCHANGED rules
    /\ UNCHANGED <<rds, flagged, topics, confirmed, overlap>>

\* A listed rule is deleted by its id.
DeleteRule(c) ==
    /\ caller[c].pc = "rules"
    /\ \/ \E r \in caller[c].todo :
            /\ rules' = [rules EXCEPT ![r] = 0]
            /\ caller' = [caller EXCEPT ![c].todo = @ \ {r}]
       \/ caller[c].todo = {} /\ Calls(c, "remove") /\ UNCHANGED rules
    /\ UNCHANGED <<rds, flagged, topics, confirmed, overlap>>

\* The cloud does not delete it: that is only logged.
RuleStays(c) ==
    /\ caller[c].pc = "rules"
    /\ \E r \in caller[c].todo :
         caller' = [caller EXCEPT ![c].todo = @ \ {r}, ![c].failed = @ \cup {r}]
    /\ UNCHANGED <<rds, flagged, topics, confirmed, rules, overlap>>

\* The topic is looked up again and deleted, its subscriptions with it.
DeleteTopic(c) ==
    /\ caller[c].pc = "remove"
    /\ topics' = topics \ {caller[c].name}
    /\ confirmed' = confirmed \ {caller[c].name}
    /\ Calls(c, "rdsDelete")
    /\ UNCHANGED <<rds, flagged, rules, overlap>>

\* That failure is only logged, too.
TopicStays(c) ==
    /\ caller[c].pc = "remove"
    /\ caller' = [caller EXCEPT ![c].pc = "rdsDelete",
                                ![c].failed = @ \cup {<<caller[c].name, "topic">>}]
    /\ UNCHANGED <<rds, flagged, topics, confirmed, rules, overlap>>

\* An error, so that Delete is retried: a client cannot be made, the topics cannot
\* be listed, or rdsDelete fails.
DeleteReturns(c) ==
    /\ caller[c].pc \in {"list", "remove", "rdsDelete"}
    /\ Done(c)
    /\ UNCHANGED <<rds, flagged, topics, confirmed, rules, overlap>>

\* rdsDelete comes to its end, and so does the event.
RdsDeleted(c) ==
    /\ caller[c].pc = "rdsDelete"
    /\ flagged' = flagged \ {caller[c].name}
    /\ Done(c)
    /\ UNCHANGED <<rds, topics, confirmed, rules, overlap>>

DeleteAlarm(c) == ListRules(c) \/ DeleteRule(c) \/ DeleteTopic(c) \/ RdsDeleted(c)
==============================================================================
