SPECIFICATION FairSpec
CONSTANTS
    Probers = {checker, admin}
    Checker = checker
    Creator = creator
    FailureLimit = 2
CONSTRAINT AtMostTwoRecords
INVARIANTS
    TypeOK
    NeverBlamedEarly
    StreakDecides
PROPERTIES
    Noticed
    CheckerStops
