SPECIFICATION Spec
CONSTANTS
    MaxBad = 2
    CoreErrors = {"Payment", "InvalidData"}
INVARIANTS AnswerIsDeserved RefusedLeavesNothing PaidIsNotCut TransportsAgree
CHECK_DEADLOCK FALSE
