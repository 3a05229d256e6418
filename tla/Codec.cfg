SPECIFICATION Spec
CONSTANTS
    Slots = 2
    Room = 10
    Word = 8
    Strings <- SomeLengths
    Ids <- SomeIds
    MaxOverlay = 3
    NoGid = NoGid
    Nil = Nil
    Refused = Refused
INVARIANTS AcceptedIsAsked AcceptsExactly
PROPERTIES StrangersLeaveNoTrace
CHECK_DEADLOCK FALSE
