\* Preflight, materialization and extraction over a repository that the
\* operator and a bootstrap change in between.
CONSTANTS
    Inputs = {i1}
    Scripts = {s1}
    Procs = {s1}
    Extractor = s1
    Versions = {cur, old}
    Current = cur
    Absent = Absent
    MaxEdits = 2
SPECIFICATION Spec
INVARIANTS
    DoneMeansContract
    CopiesAreOfTheCommit
    LineageAgrees
    AuditIsTrue
PROPERTY EditsSurviveBootstrap
CHECK_DEADLOCK FALSE
