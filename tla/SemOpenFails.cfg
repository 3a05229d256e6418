SPECIFICATION FairSpec
CONSTANTS
    Thread = {t1}
    Guard = {}
    Server = server
    SemMax = 2
    OpenFails = TRUE
PROPERTIES PdieEnds
