SPECIFICATION Spec
CONSTANTS
    p1 = p1
    p2 = p2
    ghost = ghost
    Vacant = Vacant
    Parts = {"amend", "seed", "subjects", "rounds", "scan", "disk", "select",
             "unusable", "lock", "clean", "stop", "kept", "lines", "sweeps",
             "writers", "totals", "spent", "github", "jira", "reconcile", "groups",
             "repairs", "broad", "exact", "gates", "policies", "debt", "contexts"}
INVARIANTS
    TypeOK OneWriterEach WorkIsVouchedFor DefinitionsAreChecked PeopleAreObeyed
PROPERTIES
    WorkspaceSteps
CHECK_DEADLOCK FALSE
