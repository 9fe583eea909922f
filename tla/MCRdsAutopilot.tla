--------------------------- MODULE MCRdsAutopilot ---------------------------
(***************************************************************************)
(* Values for the constants of RdsAutopilot that a .cfg cannot write.      *)
(***************************************************************************)
EXTENDS RdsAutopilot, TLC

CONSTANTS db, db1                          \* the names default_db, default_db-1
CONSTANTS z1, z2                           \* zones
CONSTANTS s1, s2, s3, h1, h2, h3, r2, big  \* flavors: single, .ha, .rr

Of(code, cpu, ram, zones) == [code |-> code, cpu |-> cpu, ram |-> ram, zones |-> zones]

TheNames == {db, db1}
NameWithin == {<<db, db>>, <<db1, db1>>, <<db1, db>>}
BothZones == {z1, z2}

\* The urn of default_db-1, cut, is that of default_db; behind an invitation the
\* memory holds what is left of an alarm.
CutNames == {<<db1, db>>, <<"invitation", "disk">>}

\* In zone z2 the next bigger flavors are sold out; r2 is the least of all.
SmallFlavors ==
    { Of(s1, 1, 2, {z1, z2}), Of(s2, 2, 4, {z1}), Of(s3, 4, 16, {z1, z2}),
      Of(h1, 1, 2, {z1, z2}), Of(h2, 2, 4, {z1}), Of(h3, 4, 16, {z1, z2}),
      Of(r2, 2, 3, {z1, z2}) }
SmallPlaced ==
    [n \in TheNames |-> IF n = db THEN [flavor |-> s1, zones |-> {z1}]
                       ELSE [flavor |-> h1, zones |-> {z1, z2}]]

\* An instance with 16 CPUs.
BigFlavors == SmallFlavors \cup { Of(big, 16, 64, {z1, z2}) }
BigPlaced == [n \in TheNames |-> [flavor |-> big, zones |-> {z1}]]

Begin(watched, happens) ==
    [ watched |-> watched,
      budget |-> [k \in Kinds |-> IF k \in DOMAIN happens THEN happens[k] ELSE 0] ]

\* Alarms at the same time, while users edit, with a call that fails; after a
\* delivery that broke; while a resource is deleted and its rules go; while the
\* rules of another are made.  Two names deleted at once, one within the other, rules
\* made while they are deleted, and calls of these that fail.
AutopilotScenarios ==
    { Begin(TheNames, [alarm |-> 2, edit |-> 1, fault |-> 1]),
      Begin(TheNames, [alarm |-> 1, cut |-> 1, edit |-> 1]),
      Begin(TheNames, [alarm |-> 1, delete |-> 1]),
      Begin({db1}, [alarm |-> 1, make |-> 1]),
      Begin(TheNames, [delete |-> 2]),
      Begin({db1}, [make |-> 1, delete |-> 1, fault |-> 1]),
      Begin({}, [make |-> 1, delete |-> 1, fault |-> 1]),
      Begin({db}, [make |-> 1, delete |-> 1]),
      Begin({db1}, [delete |-> 1, fault |-> 2]) }
Quiet == { Begin(TheNames, [alarm |-> 1]) }

Alike == Permutations(Requests) \cup Permutations(Callers)
==============================================================================
