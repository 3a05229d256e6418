SPECIFICATION FairSpec
CONSTANTS
    Thread = {t1, t2}
    Guard = {g1, g2}
    Server = server
    SemMax = 2
    OpenFails = TRUE
INVARIANTS TypeOK OneAtATime
PROPERTIES NobodyStuck
