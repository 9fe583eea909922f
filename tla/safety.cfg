SPECIFICATION Spec
CONSTANTS
    Volumes <- OneSize
    Flavors = {f1}
    Vol0 = 1
    Flavor0 = f1
    Databases = {}
    MaxInstances = 2
    NoObject = NoObject
    Workers = {w1, w2}
    NoWorker = NoWorker
    MaxVersion = 9
    MaxBacklog = 2
    Scenarios <- SafetyScenarios
    MaxRetries = 1
    RetriesSuffice = FALSE
    MySQL = TRUE
SYMMETRY WorkersAlike
INVARIANTS TypeOK BackupBeforeDelete OnlyCondemnedDeleted ServiceHasEndpoints
PROPERTIES NoLostEdit IdIsPermanent ImplementsLifecycle
CHECK_DEADLOCK FALSE
