SPECIFICATION SpawnSpec
CONSTANTS
    Addr = {a1, a2, a3}
    Others = {o1}
    NULL = NULL
    MaxDepth = 3
    Key = {cm, k1, k2, k3}
    Mapper = cm
    Wide = {k2}
    Twin = {k1, k2}
SYMMETRY AddrSymmetry
INVARIANT DeviceRestored
INVARIANT RightDeviceAtFirst
INVARIANT EngineUnhooked
INVARIANT OrphanComplete
