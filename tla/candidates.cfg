SPECIFICATION Spec
CONSTANTS
    None = None
    s1 = s1
    s2 = s2
    e1 = e1
    e2 = e2
    e3 = e3
    t1 = t1
    t2 = t2
    Slots = {t1, t2}
    Queries = {"nodes", "rels"}
    Stages = {0, 1}
    Versions = {s1, s2}
    Edges = {e1, e2, e3}
    Base <- MCBase
    Scenarios <- MCScenarios
SYMMETRY Alike
INVARIANTS
    TypeOK
    ListsAreCurrent
PROPERTIES
    RegistryGrows
CHECK_DEADLOCK FALSE
