\* Every input of the bounded sets that MCRules names.
SPECIFICATION Spec
INVARIANTS
    TornProductIsNoticed
    SmokeMissesNothing
    OneStageOrder
    RunCoversStages
CHECK_DEADLOCK FALSE
