SPECIFICATION Spec
CONSTANTS
    db = db
    db1 = db1
    z1 = z1
    z2 = z2
    s1 = s1
    s2 = s2
    s3 = s3
    h1 = h1
    h2 = h2
    h3 = h3
    r2 = r2
    big = big
    Names <- TheNames
    Within <- NameWithin
    Zones <- BothZones
    Codes = {s1, s2, s3, h1, h2, h3, r2, big}
    Ha = {h1, h2, h3}
    Replica = {r2}
    Catalogue <- BigFlavors
    Placed <- BigPlaced
    Edits = {100, 200}
    Callers = {c1}
    Requests = {q1}
    Absent = Absent
    Garbled = Garbled
    Blends <- CutNames
    Scenarios <- Quiet
PROPERTIES
    NeverDownsized
CHECK_DEADLOCK FALSE
