SPECIFICATION FairSpec
CONSTANTS
    p1 = p1
    p2 = p2
    p3 = p3
    cluster = cluster
    project = project
    ns1 = ns1
    ns2 = ns2
    db1 = db1
    db2 = db2
    Procs = {p1, p2, p3}
    Operators = {cluster, project}
    OperatorOf <- TheOperators
    HA = {cluster}
    Watch <- TheLists
    Namespaces = {ns1, ns2}
    Everywhere = Everywhere
    Resources = {db1, db2}
    Home <- TheHomes
    NumWorkers = 1
    Nobody = Nobody
    Idle = Idle
    Scenarios <- RunnerScenarios
INVARIANTS
    TypeOK
    OneOperator
PROPERTIES
    OverlapEnds
    StopEnds
    EditSeen
    DeletionSeen
CHECK_DEADLOCK FALSE
