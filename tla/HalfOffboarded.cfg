SPECIFICATION Spec
CONSTANTS
    ann = ann bob = bob app = app door = door laptop = laptop vault = vault safe = safe
    c1 = c1 c2 = c2 c3 = c3 sweeper = sweeper
    Users = {ann, bob}
    Apps = {app, door}
    Assets = {laptop}
    Vaults = {vault, safe}
    Clients = {c1, c2, c3, sweeper}
    Sweeper = sweeper
    Policy <- Workflows
    Starts <- OffboardAndGrant
    Given = 1
    MaxOps = 3
    MaxFaults = 1
SYMMETRY Symm
INVARIANT NeverHalfOffboarded
CHECK_DEADLOCK FALSE
