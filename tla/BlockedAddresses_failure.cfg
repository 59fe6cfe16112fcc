CONSTANTS
    Addresses = {a1, a2, a3}
    MaxSetSize = 2
    Ttl = 2
    MaxFailures = 1
SPECIFICATION FairSpec
PROPERTIES
    BlockedIsRefused
