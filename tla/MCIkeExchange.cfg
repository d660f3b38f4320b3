\* A few operations at each end of an original SA, with an ID space they exhaust.
SPECIFICATION Spec
CHECK_DEADLOCK FALSE
CONSTANTS
    First <- OriginalSA
    MaxMID = 3
    MaxOps = 3
INVARIANTS AtMostOnce AnswersItsOwn WindowsInStep
PROPERTY Refines
