SPECIFICATION Spec
SYMMETRY Symmetry
CONSTANTS
    a = a
    b = b
    nameA = nameA
    nameB = nameB
    alias = alias
    Nodes = {a, b}
    Names = {nameA, nameB, alias}
    Announced <- MCAnnounced
    At <- MCAt
    Conns = {c1, c2}
    MaxCuts = 2
INVARIANTS
    EntryHasHandler
    EntriesReach
CHECK_DEADLOCK FALSE
