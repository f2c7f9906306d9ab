SPECIFICATION Spec
CONSTANTS
    None = None
    Devices = {d1, d2, d3}
    Clients = {c1, c2, c3}
    Keys = {k1, k2}
    Actions = {"patch_config", "restart"}
    Contents = {1, 2}
    Operations = {o1, o2, o3}
    Capacity = 2
SYMMETRY RegistrySymmetry
INVARIANTS
    RetryReturnsOriginal
