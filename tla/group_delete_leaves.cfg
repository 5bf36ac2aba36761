\* A group of three tasks is deleted, and nothing else happens.
CONSTANTS
    a = a
    b = b
    c = c
    g = g
    w = w
    k = k
    p1 = p1
    p2 = p2
    NoTask = NoTask
    Ids = {a, b, c}
    Groups = {g}
    Workgroups = {w}
    Keys = {k}
    Group <- OneGroup
    Workgroup <- OneWorkgroup
    Key <- OneKey
    Seeds = {}
    Procs = {p1}
    MaxSaves = 3
SPECIFICATION Spec
PROPERTY DeleteLeavesNothing
