SPECIFICATION Spec
CONSTANT Inputs <- MCInputs
INVARIANT DeliveredAsSent
CHECK_DEADLOCK FALSE
