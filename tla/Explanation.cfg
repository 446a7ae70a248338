SPECIFICATION ViewSpec
CONSTANTS
    Findings = {f1, f2}
    MaxScans = 1
    ListLimit = 1
INVARIANT ExplanationIsOfTheShown
CHECK_DEADLOCK FALSE
