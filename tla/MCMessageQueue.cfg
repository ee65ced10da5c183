SPECIFICATION Spec
CONSTANTS
    Commands = {c1, c2, c3}
    Payloads = {p1, p2}
    Capacity = 3
    MaxRevision = 4
    NoCommand = NoCommand
    NoMessage = NoMessage
    BlockReasons = {"UserCancelled"}
SYMMETRY Symmetry
INVARIANTS
    QueueInv
PROPERTIES
    OrderIsTheUsers
    RevisionOrdersProjections
    ImplementsOutbox
