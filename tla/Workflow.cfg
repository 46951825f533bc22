\* Two playbooks over one run root, a focused target and a fault anywhere.
CONSTANTS
    MaxRuns = 2
    MaxFocused = 1
    MaxFaults = 1
SPECIFICATION Spec
INVARIANTS
    AdmittedRootIsOwn
    CompletedRunIsAudited
    ManifestDoneIsEarned
    ReceiptCoversManifest
PROPERTY PlaybookEnds
CHECK_DEADLOCK FALSE
