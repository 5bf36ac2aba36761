\* Two loops over three tasks of one group and one key, and three creations.
CONSTANTS
    a = a
    b = b
    c = c
    g = g
    w = w
    k = k
    p1 = p1
    p2 = p2
    NoTask = NoTask
    Ids = {a, b, c}
    Groups = {g}
    Workgroups = {w}
    Keys = {k}
    Group <- OneGroup
    Workgroup <- OneWorkgroup
    Key <- OneKey
    Seeds = {c}
    Procs = {p1, p2}
    MaxSaves = 3
SPECIFICATION Spec
INVARIANTS TypeOK LoopsStayInTheirEntry
PROPERTIES ImplementsTaskStore ResetReachesAll MergeMissesOnlyShifted
SYMMETRY Symmetry
