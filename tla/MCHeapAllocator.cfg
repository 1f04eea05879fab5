CONSTANTS
    Nil = Nil
    ArenaSize = 16
    Header = 2
    Align = 2
    MaxAlign = 2
    WordMax = 31
    AddressMax = 20
    Bases = {0, 2, 5}
    Requests = {0, 1, 4, 31}
    Managed = {"object", "array"}
SPECIFICATION Spec
INVARIANTS HeapTypeOK IntegrityCheckPasses FreeListExact ExtendInBounds BufferCheckExact
PROPERTY ImplementsArena
