\* Keys that fail, are fetched or name nobody, with crashes and repeated requests.
SPECIFICATION FairSpec
CONSTANTS
    x = x
    k1 = k1  k2 = k2  k3 = k3
    Absent = Absent
    Actor = {x}
    Key = {k1, k2, k3}
    ActorOf <- Owners
    maxKeyFetchAttempts = 5
INVARIANTS TypeOK ListIsCurrent
PROPERTIES FailuresCount KeysSettle
