---------------------------- MODULE MCRdsOperator ----------------------------
(***************************************************************************)
(* Values for the constants of RdsOperator that a .cfg cannot write: above *)
(* all the scenarios of each run.                                          *)
(***************************************************************************)
EXTENDS RdsOperator

From(start, happens) ==
    [ start |-> start,
      budget |-> [k \in Kinds |-> IF k \in DOMAIN happens THEN happens[k] ELSE 0] ]

\* A resource comes, goes, is exported and comes again; or comes to an instance
\* that is there already.
SafetyScenarios ==
    { From("empty", [create |-> 1, delete |-> 1, fault |-> 1, crash |-> 1]),
      From("managed", [export |-> 1, delete |-> 1, create |-> 1, fault |-> 1]),
      From("unmanaged", [create |-> 1, delete |-> 1, fault |-> 1]) }

\* One or two things at a time, after which the users and the cloud are quiet.
ConvergeScenarios ==
    { From("empty", [create |-> 1, delete |-> 1]),
      From("managed", [flavor |-> 1, ip |-> 1]),
      From("managed", [endpoint |-> 1, logs |-> 1]),
      From("managed", [both |-> 1, ip |-> 1]),
      From("managed", [both |-> 2]) }

\* Edits, and a call or a job that fails; creations one after the other.
RetryScenarios ==
    { From("empty", [create |-> 2, delete |-> 1, fault |-> 1]),
      From("empty", [create |-> 2, delete |-> 1, crash |-> 1]),
      From("managed", [flavor |-> 1, both |-> 1, fault |-> 1]),
      From("managed", [flavor |-> 1, restore |-> 1, fault |-> 1]),
      From("managed", [restore |-> 1, both |-> 1, fault |-> 1]),
      From("managed", [reboot |-> 1, volume |-> 1, fault |-> 1]) }

\* Something is asked for, and the operator is restarted.
LostScenarios ==
    { From("managed", [kind \in {k} \cup {"crash"} |-> 1]) :
        k \in {"reboot", "restore", "endpoint"} }

\* Schemas first, and users only then.
SqlScenarios == { From("managed", [databases |-> 1, users |-> 1]) }

FailoverScenarios == { From("managed", [ip |-> 1]) }
RequestScenarios ==
    { From("managed", [reboot |-> 1]), From("managed", [restore |-> 1]) }
TwiceScenarios == { From("empty", [create |-> 2, delete |-> 1]) }
OrphanScenarios == { From("empty", [create |-> 1, delete |-> 1]) }

OneSize == {1}
TwoSizes == {1, 2}

WorkersAlike == Permutations(Workers)
==============================================================================
