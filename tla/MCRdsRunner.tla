----------------------------- MODULE MCRdsRunner -----------------------------
(***************************************************************************)
(* Values for the constants of RdsRunner: an installation with two         *)
(* replicas and one without HA share a cluster.                            *)
(***************************************************************************)
EXTENDS RdsRunner, TLC

CONSTANTS p1, p2, p3, cluster, project, ns1, ns2, db1, db2

TheOperators == [p \in {p1, p2, p3} |-> IF p = p3 THEN project ELSE cluster]
TheLists == [o \in {cluster, project} |-> IF o = cluster THEN {ns1} ELSE {ns2}]
TheHomes == [r \in {db1, db2} |-> IF r = db1 THEN ns1 ELSE ns2]

Begin(exist, what) ==
    [ exist |-> exist,
      budget |-> [k \in Kinds |-> IF k \in DOMAIN what THEN what[k] ELSE 0] ]

RunnerScenarios ==
    { Begin({db1}, [edit |-> 1, signal |-> 1]), Begin({db1}, [edit |-> 1, crash |-> 1]),
      Begin({db1}, [stall |-> 1]), Begin({db1}, [delete |-> 1, fault |-> 1]),
      Begin({db1}, [delete |-> 1, break |-> 1]),
      Begin({db2}, [edit |-> 1, signal |-> 1]) }
==============================================================================
