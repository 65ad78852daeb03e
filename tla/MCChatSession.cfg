SPECIFICATION Spec
CONSTANTS
    creator = creator
    bob = bob
    carol = carol
    r1 = r1
    r2 = r2
    User = {creator, bob, carol}
    Creator = creator
    Request = {r1, r2}
    Manifest <- MCManifest
    MaxCalls = 5
    MaxTransfers = 2
    MaxFaults = 1
SYMMETRY MCSymmetry
INVARIANTS TypeOK BranchesAreAsked  FreezeEnds
CHECK_DEADLOCK FALSE
