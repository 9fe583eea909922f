SPECIFICATION FairSpec
CONSTANTS
    Volumes <- OneSize
    Flavors = {f1, f2}
    Vol0 = 1
    Flavor0 = f1
    Databases = {d1, d2}
    MaxInstances = 2
    NoObject = NoObject
    Workers = {w1, w2}
    NoWorker = NoWorker
    MaxVersion = 9
    MaxBacklog = 1
    Scenarios <- ConvergeScenarios
    MaxRetries = 0
    RetriesSuffice = TRUE
    MySQL = TRUE
INVARIANT NeverTwoInstances
PROPERTIES InstanceProvided DeleteReachesCloud SpecReachesCloud StatusSettles AutopilotServed SqlServed
CHECK_DEADLOCK FALSE
