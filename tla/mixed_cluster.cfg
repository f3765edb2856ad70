SPECIFICATION Spec
CONSTANTS
    person = person
    org = org
    knows = knows
    works = works
    Nodes <- MCNodes
    NodeType <- MCNodeType
    Alike <- MCAlike
    Flaws <- MCFlaws
    Schema <- MCSchema
    Amended = {}
    RelTypes = {knows, works}
    Classes = {"merge", "delete", "normalize", "defer"}
    Scenarios <- MCScenarios
    None = None
INVARIANTS
    ClusterIsOfNodes
CHECK_DEADLOCK FALSE
