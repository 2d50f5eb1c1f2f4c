SPECIFICATION FairSpec
CONSTANTS
    Unset = Unset
    Blank = Blank
    Parts = {"shares", "transport", "repair", "signals", "node", "attempt",
             "record", "scan", "tree", "writers", "panes", "polls", "verbs"}
PROPERTIES
    RunsEnd PeopleAreAnswered
CHECK_DEADLOCK FALSE
