CONSTANTS
    c1 = c1  c2 = c2  s1 = s1  s2 = s2  h1 = h1  h2 = h2  h3 = h3
    Courses = {c1, c2}
    Subscriptions = {s1, s2}
    Handlers = {h1, h2, h3}
    MaxGen = 1
    Faults = {"meili", "crash", "overlap", "duplicate", "slow"}
    MaxFaults = 1
CHECK_DEADLOCK FALSE
SPECIFICATION FairSpec
PROPERTY IndexCatchesUp
