\* The table, the graph, the dialog and the group buttons of one page, with lost and late events.
SPECIFICATION Spec
CONSTANTS
    Ids = {1, 2, 3}
    Found = {1}
    Seeds = {1}
    InitStored <- MCInitStored
    Forms <- MCForms
    Writes <- MCWrites
    FeedCap = 1
    MaxEvents = 1
    Queries <- MCQueries
    MaxCalls = 2
    Tabs = {"tasks", "graph"}
    GroupCommands = {"resetGroup"}
INVARIANTS TypeOK TableFollows RowsAreKeyed GraphFollows DrawingIsOwed SpinnerHasALoad
CHECK_DEADLOCK FALSE
