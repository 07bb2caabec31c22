SPECIFICATION FairSpec
CONSTANTS
    n1 = n1  n2 = n2
    Account = {a1, a2}
    Name = {n1, n2}
    NameOf <- MCOneName
    Handler = {h1, h2}
    Calls = {"provision", "linkExisting"}
    Stray = {x1}
    MaxSubjects = 3
    MaxFaults = 1
    MaxTouches = 2
    None = None
INVARIANTS TypeOK LinksHonest
PROPERTIES LiveLinkKept Healed
