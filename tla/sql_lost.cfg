SPECIFICATION FairSpec
CONSTANTS
    Volumes <- OneSize
    Flavors = {f1}
    Vol0 = 1
    Flavor0 = f1
    Databases = {d1}
    MaxInstances = 1
    NoObject = NoObject
    Workers = {w1}
    NoWorker = NoWorker
    MaxVersion = 9
    MaxBacklog = 1
    Scenarios <- SqlScenarios
    MaxRetries = 1
    RetriesSuffice = TRUE
    MySQL = TRUE
PROPERTIES SqlServed
