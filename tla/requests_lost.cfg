SPECIFICATION FairSpec
CONSTANTS
    Volumes <- OneSize
    Flavors = {f1}
    Vol0 = 1
    Flavor0 = f1
    Databases = {}
    MaxInstances = 1
    NoObject = NoObject
    Workers = {w1, w2}
    NoWorker = NoWorker
    MaxVersion = 9
    MaxBacklog = 1
    Scenarios <- LostScenarios
    MaxRetries = 0
    RetriesSuffice = TRUE
    MySQL = TRUE
PROPERTIES AskedIsDone
