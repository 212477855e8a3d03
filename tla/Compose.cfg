CONSTANTS
    Readers = 3
SPECIFICATION Spec
INVARIANTS AnsweredIsDelivered NothingAfterAnswer PostHasAllParts Outcome
CHECK_DEADLOCK FALSE
