CONSTANTS
    w1 = w1
    w2 = w2
    c1 = c1
    c2 = c2
    c3 = c3
    Workers = {w1, w2}
    Clients = {c1, c2, c3}
    NoClient = NoClient
    Roles = {"publisher", "subscriber", "create", "remove", "list"}
    Wires = {"text", "binary"}
    BUFFER = 5
    BinarySizes = {2}
    TextSizes = {1, 3}
    MAX_MESSAGES = 2
    MAX_INTERRUPTS = 1
SPECIFICATION Spec
INVARIANTS
    TypeOK
    CreateAnsweredOnce
    KilledByNobodyElse
SYMMETRY WorkersAndClients
CHECK_DEADLOCK FALSE
