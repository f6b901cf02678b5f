CONSTANTS
    w1 = w1
    w2 = w2
    c1 = c1
    c2 = c2
    c3 = c3
    Workers = {w1, w2}
    Clients = {c1, c2}
    NoClient = NoClient
    Roles = {"publisher", "subscriber", "create", "remove", "list"}
    Wires = {"text"}
    BUFFER = 1024
    BinarySizes = {257, 289}
    TextSizes = {5}
    MAX_MESSAGES = 2
    MAX_INTERRUPTS = 0
SPECIFICATION Spec
PROPERTIES
    ManagersAnswered
CHECK_DEADLOCK FALSE
