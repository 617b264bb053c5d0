SPECIFICATION Spec
CONSTANTS
    Null = Null
    Senders = {s, t}
    Recipient = r
    MaxSends = 2
    MaxLinks = 1
    MaxEvents = 2
SYMMETRY Symmetry
ACTION_CONSTRAINT LocalFirst
INVARIANTS
    TypeOK
    ShownOnce
    DeletedOnlyIfHandled
    LinkOrder
    NoneStranded
PROPERTIES
    ImplementsMailbox
CHECK_DEADLOCK FALSE
