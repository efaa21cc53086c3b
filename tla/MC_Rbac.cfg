CONSTANTS
    Stores = {a, b}
    MaxVersion = 2
    RetrySteps = 2
    MaxEdits = 1
    MaxGrants = 1
SPECIFICATION FairSpec
INVARIANT TypeOK
PROPERTY LabelSurvives
PROPERTY SubjectsKept
PROPERTY RoleConverges
\* The operator is told to requeue while an ObjectStore is missing.
CHECK_DEADLOCK FALSE
