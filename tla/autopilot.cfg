SPECIFICATION Spec
CONSTANTS
    db = db
    db1 = db1
    z1 = z1
    z2 = z2
    s1 = s1
    s2 = s2
    s3 = s3
    h1 = h1
    h2 = h2
    h3 = h3
    r2 = r2
    big = big
    Names <- TheNames
    Within <- NameWithin
    Zones <- BothZones
    Codes = {s1, s2, s3, h1, h2, h3, r2, big}
    Ha = {h1, h2, h3}
    Replica = {r2}
    Catalogue <- SmallFlavors
    Placed <- SmallPlaced
    Edits = {100, 200}
    Callers = {c1, c2}
    Requests = {q1, q2}
    Absent = Absent
    Garbled = Garbled
    Blends <- CutNames
    Scenarios <- AutopilotScenarios
SYMMETRY Alike
INVARIANTS
    TypeOK
    NothingLeft
PROPERTIES
    AloneActsAsSent
    OnlyAlarmed
    NoEditUndone
    ScalesToNext
CHECK_DEADLOCK FALSE
