SPECIFICATION Spec
CONSTANTS
    Blank = Blank
    Parts = {"open", "viewers", "keys", "verbs", "two", "reads", "polls", "counts",
             "shipped", "listed", "gates", "report", "documents", "spans", "scale",
             "forward", "back", "torn", "pauses", "numbers", "tail", "cleaning",
             "trees"}
INVARIANTS
    TypeOK ClicksAreSafe ReadingsAreTrue
PROPERTIES
    DashboardSteps
CHECK_DEADLOCK FALSE
