\* One form over three rows, opened, saved and closed at any time under the worker, resets,
\* deletes, events and loads.
SPECIFICATION Spec
CONSTANTS
    Names = {"a"}
    Times = {""}
    Zone = "utc"
    Parents = {"q"}
    Ids = {1, 2, 3}
    First <- MCFirst
    MaxWrites = 2
    MaxSaves = 2
    MaxLoads = 1
    FeedCap = 1
    Gone = Gone
INVARIANTS
    TypeOK
    RowKeepsParents
    BusyWhileSaving
PROPERTIES
    OnlyOldCopiesUndo
    TypedIsKept
CHECK_DEADLOCK FALSE
