SPECIFICATION FairSpec
CONSTANTS
    Inst = {i1, i2}
    Token = {t1, t2}
    NoToken = NoToken
    Ttl = 3
    MinPeriod = 1
    MaxAcquireTimeout = 5
    ReleaseTimeout = 1
    MaxNet = 2
INVARIANTS TypeOK FenceSound OneActs NoFlap
PROPERTIES KeySafeWhilePassing FreeAgain
