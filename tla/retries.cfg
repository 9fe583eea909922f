SPECIFICATION FairSpec
CONSTANTS
    Volumes <- TwoSizes
    Flavors = {f1, f2}
    Vol0 = 1
    Flavor0 = f1
    Databases = {d1}
    MaxInstances = 2
    NoObject = NoObject
    Workers = {w1}
    NoWorker = NoWorker
    MaxVersion = 9
    MaxBacklog = 2
    Scenarios <- RetryScenarios
    MaxRetries = 1
    RetriesSuffice = TRUE
    MySQL = TRUE
INVARIANT NoMoreThanWorkers
PROPERTIES SpecReachesCloud 
