SPECIFICATION Spec
CONSTANTS
    Requests <- MCRequests
    LongNames = {"long"}
INVARIANT ListingAgrees
PROPERTY OpenEnds
CHECK_DEADLOCK FALSE
