SPECIFICATION Spec
CONSTANTS
    Scenarios <- MCScenarios
    MaxRecompute = 1
    Qualified <- MCQualified
INVARIANTS
    TagIsNewest
    SelectedBranch
    Converged
    Provenance
PROPERTIES
    OldAttemptSilent
CHECK_DEADLOCK FALSE
