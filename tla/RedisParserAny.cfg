SPECIFICATION FairSpec
CONSTANT Inputs <- AllInputs
CHECK_DEADLOCK FALSE
INVARIANTS TypeOK InOrder CleanBetween Inspected
PROPERTY AllDelivered
