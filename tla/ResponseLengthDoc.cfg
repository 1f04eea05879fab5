CONSTANTS
    Clients = {c1, c2}
    Slots = 2
    MaxSteps = 3
    MaxHeader = 2
    MaxBody = 1
    MaxResponse = 1
    BufferSize = 2
    Bodies = {1, 2}
    Lengths = {2}
    MaxFailures = 1
    None = None
SPECIFICATION Spec
INVARIANT NothingUnannounced
