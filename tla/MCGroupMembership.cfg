SPECIFICATION Spec
CONSTANTS
    g1 = g1
    g2 = g2
    g3 = g3
    g4 = g4
    u1 = u1
    r1 = r1
    r2 = r2
    Groups = {g1, g2, g3}
    Users = {u1}
    Requests = {r1, r2}
    MaxChanges = 1
    NoPrincipal = NoPrincipal
INVARIANTS
    NoShortCycle
PROPERTIES
    OnlyActiveJoin
SYMMETRY GroupSymmetry
